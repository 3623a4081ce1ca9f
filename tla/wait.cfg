SPECIFICATION MCSpec
CONSTANTS
  Calls = {c1, c2}
  Sessions = {s1, s2}
  FirstSession = s1
  Kinds = {"question", "plan", "message"}
  NoCall = NoCall
  NoReq = NoReq
INVARIANTS TypeOK NoOrphan OneAckPerCall
PROPERTIES NoSilentLoss ImplementsHeldWait WaitsEnd
CHECK_DEADLOCK FALSE
