SPECIFICATION Spec
CONSTANTS
  Proc = {p1, p2, p3, p4, p5}
  NULL = NULL
  MAX_PROCESSES = 5
  BOOT_PROCESSES = 2
  MaxPid = 8
SYMMETRY PageSymmetry
CHECK_DEADLOCK FALSE
INVARIANTS
  TypeOK
  Packed
  IndexIsSlot
  NoFreeSlotBelowMin
  StacksOwned
  RemapNeedsMove
PROPERTY
  IdentityKept
