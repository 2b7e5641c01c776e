SPECIFICATION Spec
CONSTANTS
  MAX_DEVICES = 7
  FUNCTIONS = 3
  Machines <- MCMachines
  NULL = NULL
  ABSENT = ABSENT
INVARIANTS
  InitializedWorks
  GlobalsFirst
  ReachesOwner
CHECK_DEADLOCK FALSE
