SPECIFICATION Spec
CONSTANTS
  Procs = {p1, p2}
  Frames <- MCFrames
  PAGE_ZERO = 1
  PAGE_SIZE = 2
  UINT_MOD = 32
  ADDR_MOD = 128
  USERSPACE_VA_MIN = 4
  USERSPACE_VA_MAX = 64
  TABLE_SPAN = 8
  USER_STACK_PAGES = 1
  KERNEL_TABLES = 1
  Programs <- MCPrograms
  SbrkDeltas <- MCSbrkDeltas
  HeapLimit = 18
  Grants <- MCGrants
  MaxCalls = 6
  PtrLens = {0, 1, 3, 4, 120}
SYMMETRY ProcSymmetry
INVARIANTS
  FramesOwnedOnce
  HeapBacked
  ImageLoaded
  BufferCheckExact
