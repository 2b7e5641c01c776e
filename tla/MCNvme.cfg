SPECIFICATION FairSpec
CONSTANTS
  NVME_ADMIN_QUEUE_SIZE = 2
  NVME_IO_QUEUE_SIZE = 3
  CID_MOD = 2
  Blocks <- MCBlocks
  Val = {v1, v2}
  PAGE_BLOCKS = 2
  MaxBlocks = 3
  Pages = {f1}
  NoReq = NoReq
  NULL = NULL
INVARIANTS
  InStep
PROPERTIES
  ImplementsStore
  CallsReturn
