SPECIFICATION ClockFairSpec
CONSTANTS
  Starts <- MCStarts
  PASSES_PER_SECOND = 3
  Frequencies = {1, 3, 5}
  LOW_FREQUENCY = 2
  HIGH_FREQUENCY = 4
  NONE = NONE
INVARIANTS
  TimeWasShown
  FourPasses
PROPERTIES
  InitReturns
