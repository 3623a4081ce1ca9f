SPECIFICATION MCSpec
CONSTANTS
  t1 = t1
  t2 = t2
  t3 = t3
  d1 = d1
  d2 = d2
  Trees = {t1, t2, t3}
  Dirs = {d1, d2}
  Common <- MCCommon
  NoOp = NoOp
  Ops = {o1, o2}
  Intervals <- MCIntervals
  Grace = 6
  Horizon = 17
  Never = Never
  MaxUnread = 5
  Pins = {p1, p2}
  NoStatus = NoStatus
  Concurrency = 1
  MaxDb = 1
  HourLen = 2
  DayLen = 3
  MonthLen = 3
  Months = 2
  WeekLen = 2
  LastMinute = 44
  AnyValue = AnyValue
  Crons <- MCCrons
  Changes <- MCChanges
INVARIANTS TypesOK GitIsExclusive
PROPERTIES EverythingAnswers NeverEarly FetchesWhileWatched GraphKeepsUp SlotsAreExact
CHECK_DEADLOCK FALSE
