----------------------------- MODULE FetchClock -----------------------------
(***************************************************************************)
(* When fetch-all runs: the schedule half of git-fetch.ts.  A one-second   *)
(* timer reads the stored interval, the time of the last look at the Git   *)
(* view and the end of the last fetch, and plans the next.                 *)
(* The code keeps absolute times and reads only their distance from now,   *)
(* so the model keeps distances: the ages `watch` and `ended`, cut off at  *)
(* Horizon where no comparison tells them apart (null is an age of Horizon *)
(* too), and `next`, the time still to go.  A unit is any positive time: a *)
(* fetch, which starts processes, takes one at least.                      *)
(***************************************************************************)
EXTENDS Integers

CONSTANTS
  Intervals,  \* the intervals Settings offers, without 0 (off)
  Grace,      \* WATCH_GRACE_MIN_MS
  Horizon,
  Never,      \* nextAtMs = null
  MaxUnread   \* where the count of unattended fetches stops

ASSUME IntervalsAssumption ==
  Intervals \subseteq Nat \ {0} /\ \A s \in Intervals : 2 * s < Horizon
ASSUME GraceAssumption == Grace \in Nat /\ Horizon \in Nat /\ Grace < Horizon
\* The shortest interval is a third of the grace (GIT_FETCH_SECS, WATCH_GRACE_MIN_MS).
ASSUME ShortestAssumption == \A s \in Intervals : Grace <= 3 * s
ASSUME NeverAssumption == Never \notin Nat
ASSUME MaxUnreadAssumption == MaxUnread \in Nat

Ages == 0 .. Horizon

VARIABLES
  secs,    \* the stored setting
  seen,    \* seenIntervalSecs
  watch,   \* age of watchedAtMs
  ended,   \* age of lastEndedMs
  next,    \* nextAtMs, as the time still to go
  fetching,   \* the in-flight promise: none, started (in this unit) or running
  locked,  \* some quick op holds a repository's lock
  unread   \* timer fetches since the last look, press or change of setting

clockVars == <<secs, seen, watch, ended, next, fetching, locked, unread>>

ClockTypeOK ==
  /\ secs \in Intervals \cup {0} /\ seen \in Intervals \cup {0}
  /\ watch \in Ages /\ ended \in Ages /\ next \in Ages \cup {Never}
  /\ fetching \in {"none", "started", "running"}
  /\ locked \in BOOLEAN
  /\ unread \in 0 .. MaxUnread

ClockInit ==
  /\ secs \in Intervals \cup {0} /\ seen = 0
  /\ watch = Horizon /\ ended = Horizon /\ next = Never
  /\ fetching = "none" /\ locked = FALSE /\ unread = 0

-----------------------------------------------------------------------------
Window == IF 2 * secs > Grace THEN 2 * secs ELSE Grace

\* isGitWatched, derived at every use.  Mutant: latched while a next run stands.
WatchedLatched == watch <= Window \/ next # Never
Watched == watch <= Window

\* scheduleFrom.
Due == IF ended >= secs THEN 0 ELSE secs - ended

Count == IF unread < MaxUnread THEN unread + 1 ELSE unread

\* markGitWatched: only the entry into a watched stretch plans anything.
Mark ==
  /\ watch' = 0
  /\ IF Watched THEN UNCHANGED <<seen, next>>
     ELSE /\ seen' = secs
          /\ next' = IF secs > 0 THEN Due ELSE next

\* GET /api/git-stats and the hub's git tile.
Read == Mark /\ unread' = 0 /\ UNCHANGED <<secs, ended, fetching, locked>>

\* POST /api/git-fetch: a press joins a fetch in flight.
Press ==
  /\ Mark /\ unread' = 0
  /\ fetching' = IF fetching = "none" THEN "started" ELSE fetching
  /\ UNCHANGED <<secs, ended, locked>>

\* POST /api/settings.  Nobody changes it twice within one second: the timer
\* has seen the last change.
Set(s) ==
  /\ s # secs /\ seen = secs
  /\ secs' = s /\ unread' = 0
  /\ UNCHANGED <<seen, watch, ended, next, fetching, locked>>

\* Mutant: the tick does not look for a change.
ReplansUnset == next = Never
Replans == secs # seen \/ next = Never

MayStart == fetching = "none" /\ ~locked

\* tickGitFetch, an interval of 0 or nobody watching.
TickIdle ==
  /\ secs = 0 \/ ~Watched
  /\ seen' = secs /\ next' = Never
  /\ UNCHANGED <<secs, watch, ended, fetching, locked, unread>>

TickPlan ==
  /\ secs > 0 /\ Watched
  /\ seen' = secs
  /\ next' = IF Replans THEN Due ELSE next
  /\ IF MayStart /\ next' = 0
     THEN fetching' = "started" /\ unread' = Count
     ELSE UNCHANGED <<fetching, unread>>
  /\ UNCHANGED <<secs, watch, ended, locked>>

\* The interval and the watch are those of the end, not of the start.
Plan == IF secs > 0 /\ Watched THEN secs ELSE Never

\* fetchAll's finally.  Mutant: the promise stays.
ClearedNever == "running"
Cleared == "none"

\* runFetch's finally, then fetchAll's.
End ==
  /\ fetching = "running"
  /\ fetching' = Cleared /\ ended' = 0 /\ next' = Plan
  /\ UNCHANGED <<secs, seen, watch, locked, unread>>

Older(a) == IF a < Horizon THEN a + 1 ELSE a

Pass ==
  /\ watch' = Older(watch) /\ ended' = Older(ended)
  /\ next' = IF next \in {Never, 0} THEN next ELSE next - 1
  /\ fetching' = IF fetching = "started" THEN "running" ELSE fetching
  /\ UNCHANGED <<secs, seen, locked, unread>>

\* A quick pull or push begins or ends (GitGate).
QuickOp == locked' = ~locked /\ UNCHANGED <<secs, seen, watch, ended, next, fetching, unread>>

ClockNext ==
  \/ Read \/ Press \/ TickIdle \/ TickPlan \/ End \/ Pass \/ QuickOp
  \/ \E s \in Intervals \cup {0} : Set(s)

ClockSpec == ClockInit /\ [][ClockNext]_clockVars

\* The timer ticks each second, time passes, and a git call has a timeout.
FairClock == ClockSpec /\ WF_clockVars(TickPlan) /\ WF_clockVars(Pass) /\ WF_clockVars(End)

-----------------------------------------------------------------------------
(* The timer starts no fetch sooner after the end of the last than the      *)
(* interval in force, whatever was set, read or pressed in between          *)
(* (git-fetch.ts scheduleFrom, tickGitFetch; D11 of its design).            *)
NeverEarly == [][unread' > unread => ended >= secs]_clockVars

(* Once nobody looks any more the timer fetches at most twice again, three  *)
(* times at the shortest interval, and then never                           *)
(* (docs/subsystems/git-stats.md "Watched-only").                           *)
FewAfterClose == unread <= (IF 2 * secs < Grace THEN 3 ELSE 2)

(* A Git view that stays watched, with an interval set and no lock held, is *)
(* fetched for again and again.                                             *)
KeepsFetching ==
  <>[](secs # 0 /\ ~locked /\ Watched) => []<>(fetching = "started")

(* The timer fetches while somebody looks, and not while nobody does.       *)
FetchesWhileWatched == []FewAfterClose /\ KeepsFetching
=============================================================================
