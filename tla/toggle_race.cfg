SPECIFICATION MCSpec
CONSTANTS
  Calls = {c1, c2}
  Sessions = {s1}
  FirstSession = s1
  Kinds = {"question"}
  NoCall = NoCall
  NoReq = NoReq
PROPERTIES OffTakesNothing
CHECK_DEADLOCK FALSE
