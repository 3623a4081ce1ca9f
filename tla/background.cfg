SPECIFICATION MCSpec
CONSTANTS
  Wrappers = {w1, w2}
  Sweeper = Sweeper
  NoText = NoText
  Left = Left
  MaxAttempts = 2
  PsFails = TRUE
  Runs = {r1}
  MaxSteps = 2
  Versions = {v1, v2}
  Nothing = Nothing
  MaxEdits = 2
  MaxFires = 2
  CurrentLog = cur
  RotatedLogs = {a, b}
  Absent = Absent
  MaxLogLines = 4
  MaxInodes = 3
  MaxCommits = 2
  NoRef = NoRef
  MaxTime = 3
  MaxRecords = 3
  MaxSeenIds = 1
  NoTick = NoTick
  ClockGoesBack = TRUE
  MaxHour = 6
  Buckets = 2
  WindowSpan = 4
  Heartbeat = 2
  RingLength = 4
  NoWindow = NoWindow
  NoReading = NoReading
INVARIANTS TypesOK ReadersAreExact SyncIsSafe ProfileIsLearned
PROPERTIES WrapperIsOrderly PushedOnceWhenDue LaunchdFollows RoutinesGoOn
CHECK_DEADLOCK FALSE
