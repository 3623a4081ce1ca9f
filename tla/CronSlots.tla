----------------------------- MODULE CronSlots ------------------------------
(***************************************************************************)
(* When a routine fires (shared/cron.ts): the searches for the next and    *)
(* the last minute an expression fires at, which jump over months, days    *)
(* and hours of local time, and launchd's calendar intervals.  The clock   *)
(* counts minutes; local time is the clock, moved by `shift` from the      *)
(* minute `at` on (a DST change).  A year has Months months of MonthLen    *)
(* days of DayLen hours of HourLen minutes.  A search goes on from what it *)
(* found, so it visits every firing minute.                                *)
(***************************************************************************)
EXTENDS Integers

CONSTANTS
  HourLen, DayLen, MonthLen, Months, WeekLen,
  Crons,    \* parsed expressions
  Changes,  \* changes of the local time
  AnyValue, \* the key is left out of an interval
  LastMinute  \* bound: the searches look at 0..LastMinute (SEARCH_YEARS)

ASSUME CronSizes ==
  /\ {HourLen, DayLen, MonthLen, Months, WeekLen} \subseteq Nat \ {0} /\ LastMinute \in Nat
  /\ AnyValue \notin Int
ASSUME CronsFit ==
  Crons \subseteq [minute : SUBSET (0..(HourLen - 1)), hour : SUBSET (0..(DayLen - 1)), dom : SUBSET (1..MonthLen),
                  month : SUBSET (1..Months), dow : SUBSET (0..(WeekLen - 1)),
                  domRestricted : BOOLEAN, dowRestricted : BOOLEAN]

\* Half-hour changes are left out: the jump over an hour that a gap shortened
\* goes back too far.  No midnight lies inside the times a change skips or
\* repeats, but it may begin or end them.
ASSUME CronChanges ==
  \A c \in Changes :
    /\ c.at \in Nat /\ c.shift \in Int /\ c.at + c.shift \in Nat
    /\ c.at % HourLen = 0 /\ c.shift % HourLen = 0
    /\ c.shift > 0 => (c.at + c.shift - 1) \div (DayLen * HourLen) = c.at \div (DayLen * HourLen)
    /\ c.shift < 0 => (c.at - 1) \div (DayLen * HourLen) = (c.at + c.shift) \div (DayLen * HourLen)

VARIABLES
  cron, change,
  direction,  \* nextAfter or lastBefore
  origin,     \* the minute it searches from
  inside,     \* that is a moment inside the minute, not its beginning
  candidate   \* the loop's t

cronVars == <<cron, change, direction, origin, inside, candidate>>

DayMinutes == DayLen * HourLen
Clock == 0..LastMinute

(* The Date class: the fields of a minute, and the minute of a local time.   *)
Local(m) == IF m < change.at THEN m ELSE m + change.shift
Minute(m) == Local(m) % HourLen
Hour(m) == (Local(m) \div HourLen) % DayLen
Day(m) == Local(m) \div DayMinutes
DayOfMonth(m) == (Day(m) % MonthLen) + 1
Weekday(m) == Day(m) % WeekLen
MonthIndex(m) == Day(m) \div MonthLen
Month(m) == (MonthIndex(m) % Months) + 1

\* A repeated time is its first pass, and one in a gap is read on the clock
\* from before the change.
MakeDate(l) ==
  IF l < change.at THEN l
  ELSE IF l - change.shift >= change.at THEN l - change.shift
  ELSE l

-----------------------------------------------------------------------------
\* dayMatches.
DayMatches(m) ==
  LET dom == DayOfMonth(m) \in cron.dom
      dow == Weekday(m) \in cron.dow
  IN IF cron.domRestricted /\ cron.dowRestricted THEN dom \/ dow ELSE dom /\ dow

Fires(m) ==
  /\ Month(m) \in cron.month /\ DayMatches(m)
  /\ Hour(m) \in cron.hour /\ Minute(m) \in cron.minute

\* The loop of nextAfter.
JumpOn(m) ==
  IF Month(m) \notin cron.month THEN MakeDate((MonthIndex(m) + 1) * MonthLen * DayMinutes)
  ELSE IF ~DayMatches(m) THEN MakeDate((Day(m) + 1) * DayMinutes)
  ELSE IF Hour(m) \notin cron.hour THEN m + (HourLen - Minute(m))
  ELSE m + 1

\* Mutant: the jump back over an hour is made in local time, like the others.
LocalHourBack(m) == MakeDate((Local(m) \div HourLen) * HourLen - 1)
HourBack(m) == m - (Minute(m) + 1)

\* The loop of lastBefore: to the last minute of the month, day or hour before.
JumpBack(m) ==
  IF Month(m) \notin cron.month THEN MakeDate(MonthIndex(m) * MonthLen * DayMinutes - 1)
  ELSE IF ~DayMatches(m) THEN MakeDate(Day(m) * DayMinutes - 1)
  ELSE IF Hour(m) \notin cron.hour THEN HourBack(m)
  ELSE m - 1

\* A jump that a gap or a repetition turned round is a minute instead.
\* Mutant: it is taken as it is.
TakenAsIs(m, jump) == jump
Progress(m, jump) ==
  IF direction = "next" THEN IF jump > m THEN jump ELSE m + 1
  ELSE IF jump < m THEN jump ELSE m - 1

\* Where a search begins.  Mutant: lastBefore of a moment inside a minute
\* leaves that minute out.
FloorLess(m, within) == IF direction = "next" THEN m + 1 ELSE m - 1
FirstCandidate(m, within) == IF direction = "next" THEN m + 1 ELSE IF within THEN m ELSE m - 1

CronInit ==
  /\ cron \in Crons /\ change \in Changes
  /\ \/ direction = "next" /\ origin \in {0, LastMinute} /\ inside = FALSE
     \/ direction = "last" /\ origin = LastMinute /\ inside \in BOOLEAN
  /\ candidate = FirstCandidate(origin, inside)

Skip ==
  /\ candidate \in Clock /\ ~Fires(candidate)
  /\ candidate' = Progress(candidate, IF direction = "next" THEN JumpOn(candidate) ELSE JumpBack(candidate))
  /\ UNCHANGED <<cron, change, direction, origin, inside>>

\* It returns this minute; the next call searches from it.
Return ==
  /\ candidate \in Clock /\ Fires(candidate)
  /\ origin' = candidate /\ inside' = FALSE /\ candidate' = FirstCandidate(candidate, FALSE)
  /\ UNCHANGED <<cron, change, direction>>

CronNext == Skip \/ Return

CronSpec == CronInit /\ [][CronNext]_cronVars /\ WF_cronVars(CronNext)

-----------------------------------------------------------------------------
(* toCalendarIntervals: a key for each field that does not hold every value. *)
Axis(set, size) == IF set = size THEN {AnyValue} ELSE set
\* Mutant: an expression that restricts both days gets intervals too.
AlwaysExpressible == TRUE
Expressible == ~(cron.domRestricted /\ cron.dowRestricted)
CalendarIntervals ==
  [minute : Axis(cron.minute, 0..(HourLen - 1)), hour : Axis(cron.hour, 0..(DayLen - 1)),
   day : Axis(cron.dom, 1..MonthLen), month : Axis(cron.month, 1..Months), weekday : Axis(cron.dow, 0..(WeekLen - 1))]

\* launchd fires when every key of an interval matches.
LaunchdFires(m) ==
  \E i \in CalendarIntervals :
    /\ i.minute \in {AnyValue, Minute(m)} /\ i.hour \in {AnyValue, Hour(m)} /\ i.month \in {AnyValue, Month(m)}
    /\ i.day \in {AnyValue, DayOfMonth(m)} /\ i.weekday \in {AnyValue, Weekday(m)}

-----------------------------------------------------------------------------
CronTypeOK ==
  /\ direction \in {"next", "last"} /\ inside \in BOOLEAN /\ origin \in Clock
  /\ candidate \in Int
  /\ direction = "next" => candidate > origin
  /\ direction = "last" => candidate <= origin

\* The second pass of the last hour of a day.  There lastBefore falls short of
\* "nextAfter fires both passes, so lastBefore must see both too"
\* (test/cron.test.ts:279): a jump over days or months lands in the first pass.
SecondPassAtMidnight ==
  IF change.shift < 0 /\ change.at % DayMinutes = 0 THEN change.at..(change.at - change.shift - 1) ELSE {}

(* Neither search jumps over a minute the expression fires at, whatever hour *)
(* is repeated or missing (nextAfter, lastBefore).                           *)
NoSlotIsMissed ==
  /\ direction = "next" => \A m \in Clock : origin < m /\ m < candidate => ~Fires(m)
  /\ direction = "last" =>
       \A m \in Clock \ SecondPassAtMidnight :
         candidate < m /\ (m < origin \/ (inside /\ m = origin)) => ~Fires(m)

(* launchd fires when cron does, for every expression that is installed      *)
(* (toCalendarIntervals; routine-file.ts refuses the others).                *)
LaunchdAgrees ==
  Expressible /\ candidate = FirstCandidate(origin, inside) => \A m \in Clock : LaunchdFires(m) <=> Fires(m)

(* "One minute always makes progress": no search goes round in a gap, which  *)
(* would hold the server up for good.                                        *)
SearchEnds == <>(candidate \notin Clock)

(* A routine is run when its expression says.                                *)
SlotsAreExact == [](NoSlotIsMissed /\ LaunchdAgrees) /\ SearchEnds
=============================================================================
