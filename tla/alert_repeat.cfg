SPECIFICATION AlertSpec
CONSTANTS
  Accounts = {u1, u2}
  MaxNow = 2
  WindowLength = 1
  StaleAfter = 0
  NoHit = NoHit
  NoStamp = NoStamp
  Missing = Missing
  Corrupt = Corrupt
INVARIANTS OncePerWindow
CHECK_DEADLOCK FALSE
