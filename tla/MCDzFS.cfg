SPECIFICATION Spec
CONSTANTS
  BLOCKS = 8
  COVERED = 9
  BLOCK_SIZE = 2
  DIRECT_BLOCKS = 1
  INDIRECT_BLOCK_COUNT = 2
  MAX_DIR_CONTENTS = 2
  Names = {"init", "a"}
  InitName = "init"
  ProgLen = 1
  MaxLen = 3
  MaxOps = 4
CHECK_DEADLOCK FALSE
INVARIANTS
  DiskConsistent
  ReadBack
