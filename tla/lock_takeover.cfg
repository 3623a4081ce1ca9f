SPECIFICATION LockSpec
CONSTANTS
  Wrappers = {w1, w2, w3}
  Sweeper = Sweeper
  NoText = NoText
  Left = Left
  MaxAttempts = 3
  PsFails = FALSE
INVARIANT OneRunAtATime
SYMMETRY Symm
CHECK_DEADLOCK FALSE
