SPECIFICATION Spec
CONSTANTS
  Proc = {p1, p2, p3}
  NULL = NULL
  SetPrios <- MCPrios
  SetNices <- MCNices
  VDelta = {0, 1}
  MaxVruntime = 2
  MaxCalls = 1
  CounterMod = 8
  WeightMod = 1048576
SYMMETRY ProcSymmetry
INVARIANTS
  RunQueueInv
PROPERTY
  Implements
