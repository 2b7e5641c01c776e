SPECIFICATION Ps2FairSpec
CONSTANTS
  Keys = {"lshift", "rshift", "rctrl", "lalt", "caps", "a", "f7"}
  Beyond <- MCBeyond
  Moves <- MCMoves
  MaxEvents = 3
  MaxMoves = 1
  MaxLate = 1
  EMPTY = EMPTY
INVARIANTS
  InputCorrect
  OwnBytes
PROPERTY InputDrains
CHECK_DEADLOCK FALSE
