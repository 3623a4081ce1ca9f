SPECIFICATION MCSpec
CONSTANTS
  MaxVersion = 2
  MaxOut = 3
  Unread = Unread
  MaxReplies = 2
  MaxPosts = 2
  NoReply = NoReply
  Ids = {i1}
  Children = {c1, c2}
  NoChild = NoChild
  NoId = NoId
  NoEntry = NoEntry
  MaxLaunching = 1
  Cycles = {c1, c2}
  NoCycle = NoCycle
  CacheTtl = 1
  Stall = 2
  BackoffBase = 1
  BackoffMax = 2
INVARIANTS TypesOK
PROPERTIES TabKeepsUp StopEnds HungCycleIsLeft
CHECK_DEADLOCK FALSE
