SPECIFICATION Spec
CONSTANTS
  NumPages = 5
  PAGE_SIZE = 2
  UINT_MOD = 16
  STATIC_REGION_POOL_SIZE = 2
  MemMaps <- MCMemMaps
  MaxRun = 3
  NULL = NULL
  JUNK = JUNK
INVARIANTS
  PagesConserved
  FailsOnlyWhenFull
PROPERTY
  HoldersKept
