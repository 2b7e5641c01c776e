SPECIFICATION FairSpec
CONSTANTS
  Proc = {p1, p2, p3}
  NULL = NULL
  MAX_PROCESSES = 3
  BOOT_PROCESSES = 2
  MaxPid = 7
  VDelta <- MCVDelta
  MaxSlice = 2
INVARIANTS
  CpuExclusive
  ReadyAreQueued
  NoStalePointer
PROPERTIES
  ReadyRuns
  Ends
