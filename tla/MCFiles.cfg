SPECIFICATION Spec
CONSTANTS
  Proc = {p1, p2}
  Boot = {p1, p2}
  NONE = NONE
  Path = {init, a}
  InitPath = init
  Dnode = {d1, d2}
  ROOT = root
  MAX_INODES = 2
  MAX_OPEN_FILES = 4
  OFFSET_MOD = 8
  MaxSize = 3
  MaxLen = 2
  MaxCalls = 6
SYMMETRY FilesSymmetry
INVARIANTS
  UsersCounted
  OneInodePerFile
  OffsetInFile
PROPERTY
  OpenFileKept
