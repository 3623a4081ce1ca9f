SPECIFICATION MCSpec
CONSTANTS
  Sessions = {s1, s2}
  RailMax = 1
  MaxPresses = 1
  MaxPermTime = 10
  MaxDialogs = 3
  PairGap = 1
  Dedupe = 3
  Handoff = 4
  FallbackDelay = 2
  Ttl = 5
  Never = Never
  Window = 5
  Chunk = 3
  Slack = 2
  MaxFile = 14
  NothingRead = NothingRead
  Accounts = {u1, u2}
  MaxNow = 2
  WindowLength = 1
  StaleAfter = 0
  NoHit = NoHit
  NoStamp = NoStamp
  Missing = Missing
  Corrupt = Corrupt
INVARIANTS TypesOK OneWriter RemembersNewest AlertsArePaired
PROPERTIES RailIsExact HandOverHappens DialogsAreTold
CHECK_DEADLOCK FALSE
