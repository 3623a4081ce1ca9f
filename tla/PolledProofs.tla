---------------------------- MODULE PolledProofs ----------------------------
(***************************************************************************)
(* What is proved of the components that work on a schedule or on the      *)
(* pinned repositories: GitGate for any number of requests, trees and      *)
(* common dirs, FetchClock for every set of intervals and every grace its  *)
(* assumptions allow, CodegraphStore for any number of pins and slots,     *)
(* CronSlots for every calendar and every change of whole hours that no    *)
(* midnight lies in, and the bundle of the four.                           *)
(***************************************************************************)
EXTENDS MCPolled, FiniteSetTheorems, FunctionTheorems, TLAPS

-----------------------------------------------------------------------------
(* The gate of git operations.                                              *)
(* A request under way holds the lock of its common dir.                    *)
GitHolds == \A o \in Ops : op[o] = "git" => held[Dir(o)] = o

(* A lock that is held belongs to a request under way in that common dir.   *)
HeldByGit ==
  \A d \in Dirs : held[d] # NoOp => op[held[d]] = "git" /\ Dir(held[d]) = d

(* A request under way while fetch-all is in flight is one of those it      *)
(* still waits for.                                                         *)
GitIsAwaited ==
  \A o \in Ops : op[o] = "git" => fetch = "none" \/ (fetch = "waiting" /\ o \in awaits)

GateInv == TypeOK /\ GitHolds /\ HeldByGit /\ GitIsAwaited

-----------------------------------------------------------------------------
(* The trees and common dirs of requests.                                   *)
LEMMA DirType == ASSUME TypeOK, NEW o \in Ops PROVE Dir(o) \in Dirs
BY CommonAssumption DEF TypeOK, Dir

(* Who holds a lock is a request.                                           *)
LEMMA HolderType == ASSUME TypeOK PROVE Holders \subseteq Ops
BY DEF TypeOK, Holders

(* The invariant holds at boot.                                             *)
LEMMA GateInitInv == Init => GateInv
<1> SUFFICES ASSUME Init PROVE GateInv
  OBVIOUS
<1>1. TypeOK
  BY DEF Init, TypeOK, Verdicts
<1>2. GitHolds /\ HeldByGit /\ GitIsAwaited
  BY DEF Init, GitHolds, HeldByGit, GitIsAwaited
<1> QED BY <1>1, <1>2 DEF GateInv

-----------------------------------------------------------------------------
(* Types.                                                                   *)
LEMMA NextType == ASSUME TypeOK, [Next]_vars PROVE TypeOK'
<1> USE DEF TypeOK
<1>1. ASSUME NEW o \in Ops, NEW t \in Trees, Ask(o, t) PROVE TypeOK'
  BY <1>1 DEF Ask, run_vars
<1>2. ASSUME NEW o \in Ops, Refuse(o) PROVE TypeOK'
  BY <1>2 DEF Refuse, run_vars
<1>3. ASSUME NEW o \in Ops, Lock(o) PROVE TypeOK'
  <2>1. held' \in [Dirs -> Ops \cup {NoOp}]
    BY <1>3 DEF Lock
  <2> QED BY <1>3, <2>1 DEF Lock, run_vars
<1>4. ASSUME NEW o \in Ops, Release(o) PROVE TypeOK'
  <2>1. held' \in [Dirs -> Ops \cup {NoOp}]
    BY <1>4 DEF Release
  <2> QED BY <1>4, <2>1 DEF Release, Settles, run_vars
<1>5. ASSUME FetchAll PROVE TypeOK'
  BY <1>5, HolderType DEF FetchAll, HeldLocks, op_vars, run_vars
<1>6. ASSUME StartRun PROVE TypeOK'
  BY <1>6 DEF StartRun, op_vars
<1>7. ASSUME NEW live \in SUBSET Trees, Resolve(live) PROVE TypeOK'
  <2>1. groups' \subseteq Dirs
    BY <1>7, CommonAssumption DEF Resolve
  <2>2. verdict' \in [Trees -> Verdicts]
    BY <1>7 DEF Resolve, Pruned, Verdicts
  <2> QED BY <1>7, <2>1, <2>2 DEF Resolve, op_vars
<1>8. ASSUME ListingFails \/ EndRun \/ Clear PROVE TypeOK'
  BY <1>8 DEF ListingFails, EndRun, Clear, op_vars, run_vars
<1>9. ASSUME NEW d \in Dirs, NEW v \in Verdicts, GroupEnds(d, v) PROVE TypeOK'
  BY <1>9 DEF GroupEnds, op_vars
<1>10. ASSUME NEW t \in Trees, Pin(t) PROVE TypeOK'
  BY <1>10 DEF Pin, op_vars, run_vars
<1>11. CASE UNCHANGED vars
  BY <1>11 DEF vars, op_vars, run_vars
<1> QED
  BY <1>1, <1>2, <1>3, <1>4, <1>5, <1>6, <1>7, <1>8, <1>9, <1>10, <1>11
  DEF Next, QuickStep, FetchStep, Tick

-----------------------------------------------------------------------------
(* Only the four request actions touch the locks.                           *)
LEMMA QuickKeeps ==
  ASSUME GateInv, NEW o \in Ops, QuickStep(o) \/ \E t \in Trees : Ask(o, t)
  PROVE  GitHolds' /\ HeldByGit' /\ GitIsAwaited'
<1> USE DEF GateInv
<1>0. Dir(o) \in Dirs
  BY DirType
<1>1. ASSUME NEW t \in Trees, Ask(o, t) PROVE GitHolds' /\ HeldByGit' /\ GitIsAwaited'
  BY <1>1 DEF Ask, TypeOK, GitHolds, HeldByGit, GitIsAwaited, Dir
<1>2. ASSUME Refuse(o) PROVE GitHolds' /\ HeldByGit' /\ GitIsAwaited'
  BY <1>2 DEF Refuse, TypeOK, GitHolds, HeldByGit, GitIsAwaited, Dir
<1>3. ASSUME Lock(o) PROVE GitHolds' /\ HeldByGit' /\ GitIsAwaited'
  <2>1. GitHolds'
    BY <1>0, <1>3, NoOpAssumption, CommonAssumption
    DEF Lock, CanLock, TypeOK, GitHolds, Dir
  <2>2. HeldByGit'
    BY <1>0, <1>3, NoOpAssumption DEF Lock, TypeOK, HeldByGit, Dir
  <2>3. GitIsAwaited'
    BY <1>3 DEF Lock, FetchInFlight, TypeOK, GitIsAwaited
  <2> QED BY <2>1, <2>2, <2>3
<1>4. ASSUME Release(o) PROVE GitHolds' /\ HeldByGit' /\ GitIsAwaited'
  <2>1. held[Dir(o)] = o
    BY <1>4 DEF Release, GitHolds
  <2>2. GitHolds'
    BY <1>0, <1>4, <2>1 DEF Release, TypeOK, GitHolds, Dir
  <2>3. HeldByGit'
    <3> SUFFICES ASSUME NEW d \in Dirs, held'[d] # NoOp
                 PROVE  op'[held'[d]] = "git" /\ Common[tree'[held'[d]]] = d
      BY DEF HeldByGit, Dir
    <3>1. d # Dir(o) /\ held'[d] = held[d]
      BY <1>0, <1>4, <2>1 DEF Release, TypeOK
    <3>2. op[held[d]] = "git" /\ Dir(held[d]) = d /\ held[d] \in Ops
      BY <3>1 DEF HeldByGit, TypeOK
    <3>3. held[d] # o
      BY <3>1, <3>2
    <3> QED BY <1>4, <3>1, <3>2, <3>3 DEF Release, TypeOK, Dir
  <2>4. GitIsAwaited'
    BY <1>4 DEF Release, Settles, TypeOK, GitIsAwaited
  <2> QED BY <2>2, <2>3, <2>4
<1> QED BY <1>1, <1>2, <1>3, <1>4 DEF QuickStep

(* Fetch-all moves no lock; it waits for every request under way, and       *)
(* leaves the wait once there is none.                                      *)
LEMMA FetchKeeps ==
  ASSUME GateInv, FetchAll \/ FetchStep \/ (\E t \in Trees : Pin(t)) \/ UNCHANGED vars
  PROVE  GitHolds' /\ HeldByGit' /\ GitIsAwaited'
<1> USE DEF GateInv
<1>1. UNCHANGED op_vars
  BY DEF FetchAll, FetchStep, StartRun, Resolve, ListingFails, GroupEnds, EndRun, Clear,
         Pin, vars
<1>2. GitHolds' /\ HeldByGit'
  BY <1>1 DEF op_vars, GitHolds, HeldByGit, Dir
<1>3. ASSUME FetchAll PROVE GitIsAwaited'
  <2> SUFFICES ASSUME NEW o \in Ops, op[o] = "git" PROVE o \in Holders
    BY <1>3 DEF FetchAll, HeldLocks, op_vars, GitIsAwaited
  <2>1. held[Dir(o)] = o /\ Dir(o) \in Dirs
    BY DirType DEF GitHolds
  <2> QED BY <2>1, NoOpAssumption DEF Holders
<1>4. ASSUME StartRun \/ ListingFails PROVE GitIsAwaited'
  <2>1. \A o \in Ops : op[o] # "git"
    BY <1>4 DEF StartRun, ListingFails, GitIsAwaited
  <2> QED BY <1>1, <2>1 DEF op_vars, GitIsAwaited
<1>5. ASSUME fetch \notin {"none", "waiting"} PROVE GitIsAwaited'
  BY <1>1, <1>5 DEF op_vars, GitIsAwaited
<1>6. ASSUME UNCHANGED <<fetch, awaits>> PROVE GitIsAwaited'
  BY <1>1, <1>6 DEF op_vars, GitIsAwaited
<1> QED
  BY <1>2, <1>3, <1>4, <1>5, <1>6
  DEF FetchStep, Resolve, GroupEnds, EndRun, Clear, Pin, vars

LEMMA GateNextInv == GateInv /\ [Next]_vars => GateInv'
<1> SUFFICES ASSUME GateInv, [Next]_vars PROVE GateInv'
  OBVIOUS
<1>1. TypeOK'
  BY NextType DEF GateInv
<1>2. GitHolds' /\ HeldByGit' /\ GitIsAwaited'
  BY QuickKeeps, FetchKeeps DEF Next, Tick
<1> QED BY <1>1, <1>2 DEF GateInv

-----------------------------------------------------------------------------
(* What the invariant says.                                                 *)
LEMMA GateFetchAlone == GateInv => FetchAlone
<1> SUFFICES ASSUME GateInv, fetch \in {"resolving", "fetching"}
             PROVE  Holders = {} /\ \A o \in Ops : op[o] # "git"
  BY DEF FetchAlone
<1>1. \A o \in Ops : op[o] # "git"
  BY DEF GateInv, GitIsAwaited
<1>2. Holders = {}
  BY <1>1, HolderType DEF GateInv, HeldByGit, Holders, TypeOK
<1> QED BY <1>1, <1>2

LEMMA GateOnePerDir == GateInv => OnePerDir
BY DEF GateInv, GitHolds, OnePerDir

LEMMA WaitStep ==
  ASSUME TypeOK, [Next]_vars, fetch = "waiting", fetch' = "waiting"
  PROVE  Holders' \subseteq Holders /\ awaits' \subseteq awaits
<1>1. \A o \in Ops : ~Lock(o)
  BY DEF Lock, FetchInFlight
<1>2. ASSUME NEW o \in Ops, Release(o) PROVE Holders' \subseteq Holders /\ awaits' \subseteq awaits
  <2>1. \A d \in Dirs : held'[d] \in {held[d], NoOp}
    BY <1>2 DEF Release, TypeOK
  <2> QED BY <1>2, <2>1 DEF Release, Settles, Holders
<1>3. ASSUME UNCHANGED <<held, awaits>> PROVE Holders' \subseteq Holders /\ awaits' \subseteq awaits
  BY <1>3 DEF Holders
<1> QED
  BY <1>1, <1>2, <1>3
  DEF Next, QuickStep, FetchStep, Tick, Ask, Refuse, FetchAll, StartRun, Resolve,
      ListingFails, GroupEnds, EndRun, Clear, Pin, vars, op_vars

-----------------------------------------------------------------------------
(* The invariant of the gate.                                               *)
THEOREM GateInvariance == Spec => []GateInv
<1>1. Init => GateInv
  BY GateInitInv
<1>2. GateInv /\ [Next]_vars => GateInv'
  BY GateNextInv
<1> QED BY <1>1, <1>2, PTL DEF Spec

(* Every variable of the gate keeps its type (git-locks.ts, git-fetch.ts).  *)
THEOREM GateTypeCorrect == Spec => []TypeOK
<1>1. GateInv => TypeOK
  BY DEF GateInv
<1> QED BY <1>1, GateInvariance, PTL

(* Fetch-all runs alone: no quick op is under way and no lock is held while *)
(* it asks git anything (git-fetch.ts fetchAll, git-quick.ts runQuickOp).   *)
THEOREM TheFetchRunsAlone == Spec => []FetchAlone
BY GateFetchAlone, GateInvariance, PTL

(* Two quick ops under way are in different common dirs (git-locks.ts       *)
(* tryLockRepo), linked worktrees included.                                 *)
THEOREM OneWriterPerRepository == Spec => []OnePerDir
BY GateOnePerDir, GateInvariance, PTL

(* Both: no two git commands of the dashboard meet on one repository's refs. *)
THEOREM GitNeverMeets == Spec => []GitIsExclusive
<1>1. GateInv => GitIsExclusive
  BY GateFetchAlone, GateOnePerDir DEF GitIsExclusive
<1> QED BY <1>1, GateInvariance, PTL

(* The locks fetch-all waits for only become fewer (git-fetch.ts fetchAll). *)
THEOREM TheWaitOnlyShrinks == Spec => WaitOnlyShrinks
<1>1. TypeOK /\ [Next]_vars =>
        [fetch = "waiting" /\ fetch' = "waiting"
           => Holders' \subseteq Holders /\ awaits' \subseteq awaits]_vars
  BY WaitStep
<1> QED BY <1>1, GateTypeCorrect, PTL DEF Spec, WaitOnlyShrinks

-----------------------------------------------------------------------------
(* The fetch schedule.                                                      *)
(* A planned time that was planned under the setting in force lies at least *)
(* an interval after the end of the last fetch.                             *)
Owed == next # Never /\ seen = secs => next + ended >= secs

ClockInv == ClockTypeOK /\ Owed

(* What the library's arithmetic needs to know of the constants.            *)
LEMMA Bounds ==
  /\ Horizon \in Nat /\ MaxUnread \in Nat /\ Grace \in Nat
  /\ \A s \in Intervals \cup {0} : s \in Nat /\ s <= Horizon
<1>1. \A s \in Intervals : s \in Nat /\ 2 * s < Horizon
  BY IntervalsAssumption
<1>2. ASSUME NEW s \in Intervals PROVE s <= Horizon
  <2>1. s \in Nat /\ 2 * s < Horizon /\ Horizon \in Nat
    BY <1>1, GraceAssumption
  <2> QED BY <2>1
<1> QED BY <1>1, <1>2, GraceAssumption, MaxUnreadAssumption

(* The time scheduleFrom answers, and what it leaves owing.                 *)
LEMMA DueIsOwed == ASSUME ClockTypeOK PROVE Due \in Ages /\ Due + ended >= secs
<1>1. secs \in Nat /\ secs <= Horizon /\ ended \in Nat /\ ended <= Horizon
  BY Bounds DEF ClockTypeOK, Ages
<1>2. CASE ended >= secs
  BY <1>1, <1>2, Bounds DEF Due, Ages
<1>3. CASE ~(ended >= secs)
  BY <1>1, <1>3, Bounds DEF Due, Ages
<1> QED BY <1>2, <1>3

LEMMA ClockInitInv == ClockInit => ClockInv
<1> SUFFICES ASSUME ClockInit PROVE ClockInv
  OBVIOUS
<1>1. ClockTypeOK
  <2>1. Horizon \in Ages /\ 0 \in 0 .. MaxUnread
    BY Bounds DEF Ages
  <2> QED BY <2>1 DEF ClockInit, ClockTypeOK
<1>2. Owed
  BY DEF ClockInit, Owed
<1> QED BY <1>1, <1>2 DEF ClockInv

-----------------------------------------------------------------------------
(* markGitWatched keeps what is planned, or plans what is owed.             *)
LEMMA MarkKeeps ==
  ASSUME ClockInv, Mark, UNCHANGED <<secs, ended>>
  PROVE  /\ watch' \in Ages /\ seen' \in Intervals \cup {0}
         /\ next' \in Ages \cup {Never} /\ Owed'
<1> USE DEF ClockInv
<1>1. watch' \in Ages
  BY Bounds DEF Mark, Ages
<1>2. CASE Watched
  BY <1>1, <1>2 DEF Mark, ClockTypeOK, Owed
<1>3. CASE ~Watched /\ secs > 0
  BY <1>1, <1>3, DueIsOwed DEF Mark, ClockTypeOK, Owed
<1>4. CASE ~Watched /\ ~(secs > 0)
  <2>1. secs = 0 /\ (next # Never => next \in Nat) /\ ended \in Nat
    BY <1>4, Bounds DEF ClockTypeOK, Ages
  <2> QED BY <1>1, <1>4, <2>1 DEF Mark, ClockTypeOK, Owed
<1> QED BY <1>2, <1>3, <1>4

(* A tick's planned time.                                                   *)
LEMMA TickPlans ==
  ASSUME ClockInv, TickPlan
  PROVE  next' \in Ages /\ next' + ended >= secs
<1> USE DEF ClockInv
<1>1. CASE Replans
  BY <1>1, DueIsOwed DEF TickPlan
<1>2. CASE ~Replans
  BY <1>2 DEF TickPlan, Replans, ClockTypeOK, Owed
<1> QED BY <1>1, <1>2

(* The end of a run plans one interval from now, or nothing.                *)
LEMMA EndKeeps == ASSUME ClockInv, End PROVE ClockTypeOK' /\ Owed'
<1> USE DEF ClockInv
<1>1. secs \in Ages
  BY Bounds DEF ClockTypeOK, Ages
<1>2. Plan \in {secs, Never}
  BY DEF Plan
<1>3. ClockTypeOK'
  BY <1>1, <1>2, Bounds DEF End, Cleared, ClockTypeOK, Ages
<1>4. Owed'
  BY <1>1, <1>2 DEF End, Owed, Ages
<1> QED BY <1>3, <1>4

(* Time passes: what is owed shrinks no faster than the last end ages.      *)
LEMMA PassKeeps == ASSUME ClockInv, Pass PROVE ClockTypeOK' /\ Owed'
<1> USE DEF ClockInv
<1>1. /\ ended \in Nat /\ ended <= Horizon /\ watch \in Nat /\ watch <= Horizon
      /\ Horizon \in Nat /\ secs \in Nat /\ secs <= Horizon
  BY Bounds DEF ClockTypeOK, Ages
<1>2. /\ watch' \in Ages /\ ended' \in Ages
      /\ ended' = (IF ended < Horizon THEN ended + 1 ELSE Horizon)
  BY <1>1 DEF Pass, Older, Ages
<1>3. next' \in Ages \cup {Never}
  <2>1. CASE next \in {Never, 0}
    BY <2>1 DEF Pass, ClockTypeOK
  <2>2. CASE next \notin {Never, 0}
    <3>1. next \in Nat /\ next # 0 /\ next <= Horizon
      BY <2>2 DEF ClockTypeOK, Ages
    <3> QED BY <1>1, <2>2, <3>1 DEF Pass, Ages
  <2> QED BY <2>1, <2>2
<1>4. ClockTypeOK'
  BY <1>2, <1>3 DEF Pass, ClockTypeOK
<1>5. Owed'
  <2> SUFFICES ASSUME next' # Never, seen = secs PROVE next' + ended' >= secs
    BY DEF Pass, Owed
  <2>1. next # Never /\ next \in Nat
    BY NeverAssumption DEF Pass, ClockTypeOK, Ages
  <2>2. next + ended >= secs
    BY <2>1 DEF Owed
  <2>3. CASE next = 0
    BY <1>1, <1>2, <2>2, <2>3 DEF Pass
  <2>4. CASE next # 0
    <3>1. next' = next - 1
      BY <2>1, <2>4 DEF Pass
    <3> QED BY <1>1, <1>2, <2>1, <2>2, <2>4, <3>1
  <2> QED BY <2>3, <2>4
<1> QED BY <1>4, <1>5

LEMMA CountType == ASSUME ClockTypeOK PROVE Count \in 0 .. MaxUnread
BY Bounds DEF ClockTypeOK, Count

LEMMA ClockNextInv == ClockInv /\ [ClockNext]_clockVars => ClockInv'
<1> SUFFICES ASSUME ClockInv, [ClockNext]_clockVars PROVE ClockTypeOK' /\ Owed'
  BY DEF ClockInv
<1> USE DEF ClockInv
<1>1. ASSUME Read PROVE ClockTypeOK' /\ Owed'
  BY <1>1, MarkKeeps, Bounds DEF Read, ClockTypeOK
<1>2. ASSUME Press PROVE ClockTypeOK' /\ Owed'
  BY <1>2, MarkKeeps, Bounds DEF Press, ClockTypeOK
<1>3. ASSUME TickIdle PROVE ClockTypeOK' /\ Owed'
  BY <1>3 DEF TickIdle, ClockTypeOK, Owed
<1>4. ASSUME TickPlan PROVE ClockTypeOK' /\ Owed'
  <2>1. next' \in Ages /\ next' + ended >= secs
    BY <1>4, TickPlans
  <2>2. ClockTypeOK'
    BY <1>4, <2>1, CountType DEF TickPlan, ClockTypeOK
  <2>3. Owed'
    BY <1>4, <2>1 DEF TickPlan, Owed
  <2> QED BY <2>2, <2>3
<1>5. ASSUME End PROVE ClockTypeOK' /\ Owed'
  BY <1>5, EndKeeps
<1>6. ASSUME Pass PROVE ClockTypeOK' /\ Owed'
  BY <1>6, PassKeeps
<1>7. ASSUME QuickOp PROVE ClockTypeOK' /\ Owed'
  BY <1>7 DEF QuickOp, ClockTypeOK, Owed
<1>8. ASSUME NEW s \in Intervals \cup {0}, Set(s) PROVE ClockTypeOK' /\ Owed'
  BY <1>8, Bounds DEF Set, ClockTypeOK, Owed
<1>9. CASE UNCHANGED clockVars
  BY <1>9 DEF clockVars, ClockTypeOK, Owed
<1> QED BY <1>1, <1>2, <1>3, <1>4, <1>5, <1>6, <1>7, <1>8, <1>9 DEF ClockNext

(* Only a tick that found its time come counts a fetch.                     *)
LEMMA StartIsOwed ==
  ASSUME ClockInv, [ClockNext]_clockVars, unread' > unread PROVE ended >= secs
<1> USE DEF ClockInv
<1>1. unread \in Nat
  BY Bounds DEF ClockTypeOK
<1>2. CASE TickPlan
  <2>1. next' + ended >= secs
    BY <1>2, TickPlans
  <2>2. next' = 0
    BY <1>1, <1>2 DEF TickPlan
  <2>3. ended \in Nat
    BY DEF ClockTypeOK, Ages
  <2> QED BY <2>1, <2>2, <2>3
<1>3. CASE ~TickPlan
  <2>1. unread' \in {unread, 0}
    BY <1>3 DEF ClockNext, Read, Press, TickIdle, End, Pass, QuickOp, Set, clockVars
  <2> QED BY <1>1, <2>1
<1> QED BY <1>2, <1>3

-----------------------------------------------------------------------------
(* The invariant of the schedule.                                           *)
THEOREM ClockInvariance == ClockSpec => []ClockInv
<1>1. ClockInit => ClockInv
  BY ClockInitInv
<1>2. ClockInv /\ [ClockNext]_clockVars => ClockInv'
  BY ClockNextInv
<1> QED BY <1>1, <1>2, PTL DEF ClockSpec

(* Every variable of the schedule keeps its type: a planned time is never   *)
(* further off than the longest interval (git-fetch.ts scheduleFrom).       *)
THEOREM ClockTypeCorrect == ClockSpec => []ClockTypeOK
<1>1. ClockInv => ClockTypeOK
  BY DEF ClockInv
<1> QED BY <1>1, ClockInvariance, PTL

(* The timer never fetches before an interval has passed since the last end *)
(* (git-fetch.ts tickGitFetch), for any interval, grace and reader.         *)
THEOREM TheTimerIsNeverEarly == ClockSpec => NeverEarly
<1>1. ClockInv /\ [ClockNext]_clockVars => [unread' > unread => ended >= secs]_clockVars
  BY StartIsOwed
<1> QED BY <1>1, ClockInvariance, PTL DEF ClockSpec, NeverEarly
-----------------------------------------------------------------------------
(* How few fetches follow the last look.                                    *)
(* The least time since the timer's last fetch began: a fetch takes a unit  *)
(* at least.                                                                *)
Since == IF fetching = "started" THEN 0 ELSE IF fetching = "running" THEN 1 ELSE ended + 1

(* While somebody counts as looking, the look is older than the timer's     *)
(* fetches since it, each with its interval and its own time.               *)
Spaced ==
  Watched => /\ unread >= 1 => watch >= Since
             /\ unread >= 2 => watch >= secs + 1 + Since
             /\ unread >= 3 => watch >= 2 * (secs + 1) + Since

LookInv == ClockInv /\ Spaced /\ FewAfterClose

LEMMA Ranges ==
  ASSUME ClockTypeOK
  PROVE  /\ secs \in Nat /\ watch \in Nat /\ ended \in Nat /\ unread \in Nat /\ Horizon \in Nat /\ Grace \in Nat
         /\ watch <= Horizon /\ ended <= Horizon /\ Window \in Nat /\ Window < Horizon
         /\ secs > 0 => Grace <= 3 * secs
         /\ fetching \in {"none", "started", "running"}
<1>1. secs \in Nat /\ watch \in Nat /\ ended \in Nat /\ unread \in Nat /\ Horizon \in Nat /\ Grace \in Nat
  BY Bounds DEF ClockTypeOK, Ages
<1>2. watch <= Horizon /\ ended <= Horizon
  BY Bounds DEF ClockTypeOK, Ages
<1>3. 2 * secs < Horizon
  <2>1. CASE secs \in Intervals
    BY <2>1, IntervalsAssumption
  <2>2. CASE secs = 0
    BY <2>2, GraceAssumption
  <2> QED BY <2>1, <2>2 DEF ClockTypeOK
<1>4. Window \in Nat /\ Window < Horizon
  BY <1>1, <1>3, GraceAssumption DEF Window
<1>5. secs > 0 => Grace <= 3 * secs
  BY ShortestAssumption DEF ClockTypeOK
<1> QED BY <1>1, <1>2, <1>4, <1>5 DEF ClockTypeOK

(* A look, a press and a change of setting start the count again.           *)
LEMMA ResetsKeep == ASSUME unread' = 0 PROVE Spaced' /\ FewAfterClose'
BY DEF Spaced, FewAfterClose

(* A fetch the timer starts was owed: an interval after the end of the one  *)
(* before it.                                                               *)
LEMMA StartsAreSpaced == ASSUME LookInv, TickPlan PROVE Spaced' /\ FewAfterClose'
<1> USE DEF LookInv, ClockInv
<1>1. /\ secs > 0 /\ watch <= Window /\ UNCHANGED <<secs, watch, ended>>
      /\ next' + ended >= secs /\ next' \in Nat
  BY TickPlans DEF TickPlan, Watched, Ages
<1>2. Window' = Window /\ Watched' = Watched
  BY <1>1 DEF Window, Watched
<1>3. CASE UNCHANGED <<fetching, unread>>
  <2>1. Since' = Since
    BY <1>1, <1>3 DEF Since
  <2> QED BY <1>1, <1>2, <1>3, <2>1 DEF Spaced, FewAfterClose
<1>4. CASE MayStart /\ next' = 0 /\ fetching' = "started" /\ unread' = Count
  <2>1. /\ Since = ended + 1 /\ Since' = 0 /\ unread' \in {unread, unread + 1} /\ ended >= secs
        /\ unread \in Nat /\ ended \in Nat
    BY <1>1, <1>4, Ranges DEF MayStart, Since, Count
  <2>2. /\ unread >= 1 => watch >= ended + 1
        /\ unread >= 2 => watch >= secs + 1 + ended + 1
        /\ unread >= 3 => watch >= 2 * (secs + 1) + ended + 1
    BY <1>1, <2>1, Ranges DEF Spaced, Watched
  <2>3. Spaced'
    <3>1. /\ unread' >= 2 => watch >= secs + 1
          /\ unread' >= 3 => watch >= 2 * (secs + 1)
      BY <1>1, <2>1, <2>2, Ranges
    <3> QED BY <1>1, <2>1, <3>1, Ranges DEF Spaced
  <2>4. FewAfterClose'
    <3>1. unread <= (IF 2 * secs < Grace THEN 3 ELSE 2)
      BY DEF FewAfterClose
    <3>2. CASE 2 * secs < Grace
      <4>1. Window = Grace /\ Grace <= 3 * secs
        BY <1>1, <3>2, Ranges DEF Window
      <4>2. unread <= 2
        BY <1>1, <2>1, <2>2, <3>1, <3>2, <4>1, Ranges
      <4> QED BY <1>1, <2>1, <3>2, <4>2, Ranges DEF FewAfterClose
    <3>3. CASE ~(2 * secs < Grace)
      <4>1. Window = 2 * secs
        BY <1>1, <3>3, Ranges DEF Window
      <4>2. unread <= 1
        BY <1>1, <2>1, <2>2, <3>1, <3>3, <4>1, Ranges
      <4> QED BY <1>1, <2>1, <3>3, <4>2, Ranges DEF FewAfterClose
    <3> QED BY <3>2, <3>3
  <2> QED BY <2>3, <2>4
<1> QED BY <1>3, <1>4 DEF TickPlan

(* The look ages with every unit while somebody counts as looking.          *)
LEMMA PassIsSpaced == ASSUME LookInv, Pass PROVE Spaced' /\ FewAfterClose'
<1> USE DEF LookInv, ClockInv
<1>1. /\ watch' = Older(watch) /\ ended' = Older(ended) /\ UNCHANGED <<secs, unread>>
      /\ fetching' = IF fetching = "started" THEN "running" ELSE fetching
  BY DEF Pass
<1>2. Window' = Window
  BY <1>1 DEF Window
<1>3. FewAfterClose'
  BY <1>1 DEF FewAfterClose
<1>4. Spaced'
  <2> SUFFICES ASSUME Watched' PROVE Spaced'
    BY DEF Spaced
  <2>1. Watched /\ watch' = watch + 1
    BY <1>1, <1>2, Ranges DEF Watched, Older
  <2>2. Since \in Nat /\ Since' \in Nat /\ Since' <= Since + 1
    <3>1. ended' \in Nat /\ ended' <= ended + 1
      BY <1>1, Ranges DEF Older
    <3>2. CASE fetching = "started"
      BY <1>1, <3>2 DEF Since
    <3>3. CASE fetching = "running"
      BY <1>1, <3>3 DEF Since
    <3>4. CASE fetching = "none"
      BY <1>1, <3>1, <3>4, Ranges DEF Since
    <3> QED BY <3>2, <3>3, <3>4, Ranges
  <2> QED BY <1>1, <2>1, <2>2, Ranges DEF Spaced
<1> QED BY <1>3, <1>4

LEMMA LookStep == LookInv /\ [ClockNext]_clockVars => LookInv'
<1> SUFFICES ASSUME LookInv, [ClockNext]_clockVars PROVE Spaced' /\ FewAfterClose'
  BY ClockNextInv DEF LookInv
<1>1. CASE Read \/ Press \/ \E s \in Intervals \cup {0} : Set(s)
  BY <1>1, ResetsKeep DEF Read, Press, Set
<1>2. CASE TickPlan
  BY <1>2, StartsAreSpaced
<1>3. CASE Pass
  BY <1>3, PassIsSpaced
<1>4. CASE End
  <2>1. Since = 1 /\ Since' = 1 /\ UNCHANGED <<secs, watch, unread>>
    BY <1>4 DEF End, Cleared, Since
  <2> QED BY <2>1 DEF LookInv, Spaced, FewAfterClose, Watched, Window
<1>5. CASE TickIdle \/ QuickOp \/ UNCHANGED clockVars
  <2>1. UNCHANGED <<secs, watch, unread, ended, fetching>>
    BY <1>5 DEF TickIdle, QuickOp, clockVars
  <2> QED BY <2>1 DEF LookInv, Spaced, FewAfterClose, Watched, Window, Since
<1> QED BY <1>1, <1>2, <1>3, <1>4, <1>5 DEF ClockNext

(* Once nobody looks any more the timer fetches twice again, three times at *)
(* the shortest interval, and then never, for every set of intervals and    *)
(* every grace up to three times the shortest (git-fetch.ts isGitWatched).  *)
THEOREM FewFetchesFollow == ClockSpec => []FewAfterClose
<1>1. ClockInit => LookInv
  <2>1. ASSUME ClockInit PROVE Spaced /\ FewAfterClose
    BY <2>1 DEF ClockInit, Spaced, FewAfterClose
  <2> QED BY <2>1, ClockInitInv DEF LookInv
<1>2. LookInv /\ [ClockNext]_clockVars => LookInv'
  BY LookStep
<1>3. LookInv => FewAfterClose
  BY DEF LookInv
<1> QED BY <1>1, <1>2, <1>3, PTL DEF ClockSpec

-----------------------------------------------------------------------------
(* The codegraph store.                                                     *)
\* The entries of a queue, those of some of its places, and each entry once.
Queued(q) == {q[i] : i \in DOMAIN q}
Places(q, from, to) == {q[i] : i \in from..to}
Once(q) == \A i, j \in DOMAIN q : q[i] = q[j] => i = j

(* The limiter's queue holds each queued read once.                         *)
QueueFits == Once(waiters) /\ Queued(waiters) = {r \in Reads : step[r] = "queued"}

(* A run is under way exactly while the root's record says so.              *)
RunIsRecorded == launched = IF run THEN 1 ELSE 0

(* A read the map still names, that has seen the database, saw it no earlier *)
(* than the last end the store noticed.                                     *)
SeenIsFresh == \A r \in Reads : step[r] = "seen" /\ Current(r) => saw[r] >= floor

GraphInv ==
  /\ GraphTypeOK /\ QueueFits /\ SlotsAreKept /\ RunIsRecorded
  /\ floor <= db /\ rebuilt <= db
  /\ SeenIsFresh /\ EntriesAreCurrent

-----------------------------------------------------------------------------
(* Finite sets and queues.                                                  *)
LEMMA StoreBounds == Concurrency \in Nat \ {0} /\ MaxDb \in Nat /\ IsFiniteSet(Pins)
BY GraphBounds

\* There are two reads of a pin.
LEMMA ReadsFinite == IsFiniteSet(Reads) /\ \A S \in SUBSET Reads : IsFiniteSet(S)
<1> DEFINE A == {<<p, 1>> : p \in Pins}
           B == {<<p, 2>> : p \in Pins}
           f == [p \in Pins |-> <<p, 1>>]
           g == [p \in Pins |-> <<p, 2>>]
<1>1. f \in Surjection(Pins, A) /\ g \in Surjection(Pins, B)
  BY Fun_IsSurj
<1>2. IsFiniteSet(A) /\ IsFiniteSet(B)
  BY <1>1, StoreBounds, FS_Surjection
<1>3. Reads = A \cup B
  BY DEF Reads
<1>4. IsFiniteSet(Reads)
  BY <1>2, <1>3, FS_Union
<1> QED BY <1>4, FS_Subset

\* What leaves a queue that holds nothing twice.
LEMMA FirstOfQueue ==
  ASSUME NEW S, NEW q \in Seq(S), Once(q), q # <<>>
  PROVE  /\ Head(q) \in S /\ Tail(q) \in Seq(S) /\ Once(Tail(q))
         /\ Queued(Tail(q)) = Queued(q) \ {Head(q)} /\ Head(q) \in Queued(q)
<1>1. /\ Len(q) \in Nat /\ Len(q) >= 1 /\ DOMAIN q = 1..Len(q) /\ Head(q) = q[1] /\ \A i \in 1..Len(q) : q[i] \in S
      /\ Tail(q) \in Seq(S) /\ Len(Tail(q)) = Len(q) - 1 /\ DOMAIN Tail(q) = 1..Len(Tail(q))
      /\ \A i \in 1..(Len(q) - 1) : Tail(q)[i] = q[i + 1]
  OBVIOUS
<1>2. Once(Tail(q))
  <2> SUFFICES ASSUME NEW i \in DOMAIN Tail(q), NEW j \in DOMAIN Tail(q), Tail(q)[i] = Tail(q)[j] PROVE i = j
    BY DEF Once
  <2>1. q[i + 1] = q[j + 1] /\ i + 1 \in DOMAIN q /\ j + 1 \in DOMAIN q /\ i \in Nat /\ j \in Nat
    BY <1>1
  <2>2. i + 1 = j + 1
    BY <2>1 DEF Once
  <2> QED BY <2>1, <2>2
<1>3. ASSUME NEW x \in Queued(Tail(q)) PROVE x \in Queued(q) \ {Head(q)}
  <2>1. PICK i \in 1..(Len(q) - 1) : x = q[i + 1]
    BY <1>1, <1>3 DEF Queued
  <2>2. i + 1 \in DOMAIN q /\ 1 \in DOMAIN q /\ i + 1 # 1
    BY <1>1, <2>1
  <2> QED BY <1>1, <2>1, <2>2 DEF Queued, Once
<1>4. ASSUME NEW x \in Queued(q) \ {Head(q)} PROVE x \in Queued(Tail(q))
  <2>1. PICK i \in 1..Len(q) : x = q[i] /\ i # 1
    BY <1>1, <1>4 DEF Queued
  <2>2. i - 1 \in DOMAIN Tail(q) /\ Tail(q)[i - 1] = q[i - 1 + 1] /\ i - 1 + 1 = i
    BY <1>1, <2>1
  <2> QED BY <2>1, <2>2 DEF Queued
<1> QED BY <1>1, <1>2, <1>3, <1>4 DEF Queued

\* A queue that others join.
LEMMA JoinedQueue ==
  ASSUME NEW S, NEW q \in Seq(S), NEW n \in Seq(S), Once(q), Once(n), Queued(q) \cap Queued(n) = {}
  PROVE  q \o n \in Seq(S) /\ Once(q \o n) /\ Queued(q \o n) = Queued(q) \cup Queued(n)
<1> DEFINE w == q \o n
<1>1. /\ w \in Seq(S) /\ Len(q) \in Nat /\ Len(n) \in Nat /\ Len(w) = Len(q) + Len(n)
      /\ DOMAIN w = 1..Len(w) /\ DOMAIN q = 1..Len(q) /\ DOMAIN n = 1..Len(n)
      /\ \A i \in 1..Len(q) : w[i] = q[i]
      /\ \A i \in 1..Len(n) : w[Len(q) + i] = n[i]
  OBVIOUS
<1> HIDE DEF w
<1>2. \A i \in DOMAIN w : i \in DOMAIN q \/ (i - Len(q) \in DOMAIN n /\ w[i] = n[i - Len(q)] /\ i \in Nat)
  <2> SUFFICES ASSUME NEW i \in DOMAIN w, i \notin DOMAIN q
               PROVE  i - Len(q) \in DOMAIN n /\ w[i] = n[i - Len(q)] /\ i \in Nat
    OBVIOUS
  <2>1. i \in Nat /\ i - Len(q) \in 1..Len(n) /\ Len(q) + (i - Len(q)) = i
    BY <1>1
  <2> QED BY <1>1, <2>1
<1>3. Queued(w) = Queued(q) \cup Queued(n)
  <2>1. ASSUME NEW x \in Queued(w) PROVE x \in Queued(q) \cup Queued(n)
    BY <1>1, <1>2, <2>1 DEF Queued
  <2>2. ASSUME NEW x \in Queued(q) PROVE x \in Queued(w)
    <3>1. PICK i \in 1..Len(q) : x = q[i]
      BY <1>1, <2>2 DEF Queued
    <3>2. i \in DOMAIN w /\ w[i] = x
      BY <1>1, <3>1
    <3> QED BY <3>2 DEF Queued
  <2>3. ASSUME NEW x \in Queued(n) PROVE x \in Queued(w)
    <3>1. PICK i \in 1..Len(n) : x = n[i]
      BY <1>1, <2>3 DEF Queued
    <3>2. Len(q) + i \in DOMAIN w /\ w[Len(q) + i] = x
      BY <1>1, <3>1
    <3> QED BY <3>2 DEF Queued
  <2> QED BY <2>1, <2>2, <2>3
<1>4. Once(w)
  <2> SUFFICES ASSUME NEW i \in DOMAIN w, NEW j \in DOMAIN w, w[i] = w[j] PROVE i = j
    BY DEF Once
  <2>1. CASE i \in DOMAIN q /\ j \in DOMAIN q
    BY <1>1, <2>1 DEF Once
  <2>2. CASE i \notin DOMAIN q /\ j \notin DOMAIN q
    <3>1. i - Len(q) = j - Len(q) /\ i \in Nat /\ j \in Nat
      BY <1>2, <2>2 DEF Once
    <3> QED BY <1>1, <3>1
  <2>3. CASE i \in DOMAIN q /\ j \notin DOMAIN q
    <3>1. w[i] \in Queued(q) /\ w[j] \in Queued(n)
      BY <1>1, <1>2, <2>3 DEF Queued
    <3> QED BY <3>1
  <2>4. CASE i \notin DOMAIN q /\ j \in DOMAIN q
    <3>1. w[j] \in Queued(q) /\ w[i] \in Queued(n)
      BY <1>1, <1>2, <2>4 DEF Queued
    <3> QED BY <3>1
  <2> QED BY <2>1, <2>2, <2>3, <2>4
<1> QED BY <1>1, <1>3, <1>4 DEF w

\* The part of an ordered set from one place on.
LEMMA RestOfOrder ==
  ASSUME NEW S, NEW n \in Nat, NEW q \in [1..n -> S], Once(q), NEW from \in 1..(n + 1)
  PROVE  /\ SubSeq(q, from, n) \in Seq(S) /\ Once(SubSeq(q, from, n))
         /\ Queued(SubSeq(q, from, n)) = Places(q, from, n)
<1> DEFINE k == from - 1
           s == SubSeq(q, from, n)
           T == Places(q, from, n)
<1>0. k \in 0..n /\ from = k + 1 /\ s = SubSeq(q, k + 1, n) /\ \A x : x \in T <=> \E i \in (k + 1)..n : x = q[i]
  <2>1. k \in 0..n /\ from = k + 1
    OBVIOUS
  <2>2. s = SubSeq(q, k + 1, n)
    BY <2>1
  <2>3. \A x : x \in T <=> \E i \in from..n : x = q[i]
    BY DEF Places
  <2> HIDE DEF k, s, T
  <2> QED BY <2>1, <2>2, <2>3
<1> HIDE DEF k, s, T
<1>1. DOMAIN q = 1..n /\ k \in Nat /\ k <= n
  BY <1>0
<1>2. s = [i \in 1..(n - k) |-> q[i + k]]
  BY <1>0, <1>1 DEF SubSeq
<1>3. DOMAIN s = 1..(n - k) /\ n - k \in Nat
  BY <1>1, <1>2
<1>4. \A i \in 1..(n - k) : i + k \in 1..n /\ i + k \in (k + 1)..n /\ s[i] = q[i + k]
  BY <1>1, <1>2
<1>5. s \in [1..(n - k) -> S]
  BY <1>2, <1>4
<1>6. s \in Seq(S)
  BY <1>3, <1>5
<1>7. Once(s)
  <2> SUFFICES ASSUME NEW i \in DOMAIN s, NEW j \in DOMAIN s, s[i] = s[j] PROVE i = j
    BY DEF Once
  <2>1. i + k = j + k /\ i \in Int /\ j \in Int
    BY <1>1, <1>3, <1>4 DEF Once
  <2> QED BY <1>1, <2>1
<1>8. Queued(s) = T
  <2>1. ASSUME NEW i \in (k + 1)..n PROVE q[i] \in Queued(s)
    <3>1. i - k \in 1..(n - k) /\ (i - k) + k = i
      BY <1>1
    <3> QED BY <1>3, <1>4, <3>1 DEF Queued
  <2>2. ASSUME NEW x \in Queued(s) PROVE x \in T
    <3>1. PICK i \in 1..(n - k) : x = s[i]
      BY <1>3, <2>2 DEF Queued
    <3> QED BY <1>0, <1>1, <1>4, <3>1
  <2> QED BY <1>0, <2>1, <2>2
<1> QED BY <1>6, <1>7, <1>8 DEF s, T

\* So many reads as places.
LEMMA FirstOfOrder ==
  ASSUME NEW S, NEW n \in Nat, NEW q \in [1..n -> S], Once(q), NEW k \in 0..n
  PROVE  IsFiniteSet(Places(q, 1, k)) /\ Cardinality(Places(q, 1, k)) = k
<1> USE DEF Places
<1> DEFINE T == Places(q, 1, k)
           f == [i \in 1..k |-> q[i]]
<1>1. DOMAIN q = 1..n /\ k \in Nat /\ \A i \in 1..k : i \in 1..n
  OBVIOUS
<1>2. f \in [1..k -> T] /\ (\A i, j \in 1..k : f[i] = f[j] => i = j) /\ \A x \in T : \E i \in 1..k : f[i] = x
  BY <1>1 DEF Once
<1>3. f \in Bijection(1..k, T)
  BY <1>2, Fun_IsBij
<1>4. ExistsBijection(1..k, T)
  BY <1>3 DEF ExistsBijection
<1>5. IsFiniteSet(T) /\ Cardinality(T) = k
  BY <1>1, <1>4, FS_CountingElements, FS_NatBijection
<1> QED BY <1>5

-----------------------------------------------------------------------------
(* Reads that start.                                                        *)
LEMMA NewReadIs ==
  ASSUME NEW p \in Pins, Free(p) # {}
  PROVE  NewRead(p) \in Reads /\ NewRead(p)[1] = p /\ NewRead(p)[2] \in {1, 2} /\ step[NewRead(p)] = "idle"
<1> DEFINE i == CHOOSE i \in Free(p) : \A j \in Free(p) : i <= j
<1>1. Free(p) \subseteq {1, 2}
  BY DEF Free
<1>2. \E k \in Free(p) : \A j \in Free(p) : k <= j
  <2>1. CASE 1 \in Free(p)
    BY <1>1, <2>1
  <2>2. CASE 1 \notin Free(p)
    BY <1>1, <2>2
  <2> QED BY <2>1, <2>2
<1>3. i \in Free(p)
  BY <1>2
<1>4. NewRead(p) = <<p, i>>
  BY DEF NewRead
<1> HIDE DEF i
<1>5. i \in {1, 2} /\ step[<<p, i>>] = "idle"
  BY <1>1, <1>3 DEF Free
<1> QED BY <1>4, <1>5 DEF Reads

\* They take free slots or queue, and none of them has seen anything.
LEMMA StartsFit ==
  ASSUME GraphTypeOK, QueueFits, SlotsAreKept,
         NEW due \in SUBSET Pins, NEW named \in [Pins -> 0..2], StartReads(due, named)
  PROVE  /\ step' \in [Reads -> {"idle", "queued", "running", "seen"}] /\ active' \in 0..Concurrency
         /\ waiters' \in Seq(Reads) /\ reading' \in [Pins -> 0..2]
         /\ QueueFits' /\ SlotsAreKept'
         /\ \A r \in Reads : step'[r] = "seen" =>
              /\ step[r] = "seen"
              /\ reading'[r[1]] = r[2] => named[r[1]] = r[2]
<1> DEFINE wanted == {p \in due : named[p] = 0}
           free == Concurrency - active
           N == {NewRead(p) : p \in wanted}
<1>1. /\ step \in [Reads -> {"idle", "queued", "running", "seen"}] /\ waiters \in Seq(Reads)
      /\ active \in 0..Concurrency /\ Concurrency \in Nat
  BY StoreBounds DEF GraphTypeOK
<1>2. /\ \A p \in wanted : Free(p) # {}
      /\ reading' = [p \in Pins |-> IF p \in wanted THEN NewRead(p)[2] ELSE named[p]]
  BY DEF StartReads
<1>3. \A p \in wanted : /\ p \in Pins /\ NewRead(p) \in Reads /\ NewRead(p)[1] = p /\ NewRead(p)[2] \in {1, 2}
                        /\ step[NewRead(p)] = "idle"
  BY <1>2, NewReadIs
<1>4. N \subseteq Reads /\ \A r \in N : step[r] = "idle"
  BY <1>3
<1> DEFINE n == Cardinality(N)
<1>5. IsFiniteSet(N) /\ n \in Nat
  BY <1>4, ReadsFinite, FS_CardinalityType
<1>6. PICK new \in Orders(N) :
        LET room == IF free < Len(new) THEN free ELSE Len(new)
            At(from, to) == {new[i] : i \in from..to}
        IN /\ step' = [r \in Reads |-> IF r \in At(1, room) THEN "running"
                                      ELSE IF r \in At(room + 1, Len(new)) THEN "queued" ELSE step[r]]
           /\ active' = active + room
           /\ waiters' = waiters \o SubSeq(new, room + 1, Len(new))
  BY DEF StartReads
<1> HIDE DEF n, N
<1>7. new \in [1..n -> N] /\ Once(new) /\ DOMAIN new = 1..n
  BY DEF Orders, Once, n
<1>8. Len(new) = n
  BY <1>5, <1>7
<1> DEFINE room == IF free < n THEN free ELSE n
           now == {new[i] : i \in 1..room}
           later == {new[i] : i \in (room + 1)..n}
           rest == SubSeq(new, room + 1, n)
<1>9. /\ step' = [r \in Reads |-> IF r \in now THEN "running" ELSE IF r \in later THEN "queued" ELSE step[r]]
      /\ active' = active + room
      /\ waiters' = waiters \o rest
  BY <1>6, <1>8
<1>10. room \in 0..n /\ room \in Nat /\ active + room \in 0..Concurrency
  BY <1>1, <1>5
<1>11. now \subseteq N /\ later \subseteq N /\ now \cap later = {}
  <2> HIDE DEF room
  <2>1. now \subseteq N /\ later \subseteq N
    BY <1>5, <1>7, <1>10
  <2>2. ASSUME NEW x \in now, x \in later PROVE FALSE
    <3>1. PICK i \in 1..room : x = new[i]
      BY <2>2
    <3>2. PICK j \in (room + 1)..n : x = new[j]
      BY <2>2
    <3>3. i \in DOMAIN new /\ j \in DOMAIN new /\ i # j
      BY <1>5, <1>7, <1>10
    <3> QED BY <1>7, <3>1, <3>2, <3>3 DEF Once
  <2> QED BY <2>1, <2>2
<1>12. new \in [1..n -> Reads]
  BY <1>4, <1>7
<1>13. rest \in Seq(Reads) /\ Once(rest) /\ Queued(rest) = later
  <2> DEFINE from == room + 1
  <2>1. from \in 1..(n + 1) /\ rest = SubSeq(new, from, n) /\ later = Places(new, from, n)
    BY <1>5, <1>10 DEF Places
  <2> HIDE DEF room, rest, later, from
  <2> QED BY <1>5, <1>7, <1>12, <2>1, RestOfOrder
<1>14. IsFiniteSet(now) /\ Cardinality(now) = room
  <2>1. now = Places(new, 1, room)
    BY DEF Places
  <2> HIDE DEF room, now
  <2> QED BY <1>5, <1>7, <1>10, <1>12, <2>1, FirstOfOrder
<1> HIDE DEF room, now, later, rest
<1>15. Once(waiters) /\ Queued(waiters) = {r \in Reads : step[r] = "queued"}
  BY DEF QueueFits
<1>16. Queued(waiters) \cap Queued(rest) = {}
  BY <1>4, <1>11, <1>13, <1>15
<1>17. waiters' \in Seq(Reads) /\ Once(waiters') /\ Queued(waiters') = Queued(waiters) \cup later
  BY <1>1, <1>9, <1>13, <1>15, <1>16, JoinedQueue
<1>18. QueueFits'
  <2>1. ASSUME NEW r \in Reads PROVE step'[r] = "queued" <=> r \in Queued(waiters) \cup later
    <3>1. step'[r] = (IF r \in now THEN "running" ELSE IF r \in later THEN "queued" ELSE step[r])
      BY <1>9
    <3> QED BY <1>4, <1>11, <1>15, <3>1
  <2>2. Queued(waiters) \cup later \subseteq Reads
    BY <1>4, <1>11, <1>15
  <2>3. Queued(waiters') = {r \in Reads : step'[r] = "queued"}
    BY <1>17, <2>1, <2>2
  <2> QED BY <1>17, <2>3 DEF QueueFits, Once, Queued
<1>19. SlotsAreKept'
  <2> DEFINE S == {r \in Reads : step[r] \in {"running", "seen"}}
             T == {r \in Reads : step'[r] \in {"running", "seen"}}
  <2>1. T = S \cup now
    <3>1. ASSUME NEW r \in Reads PROVE r \in T <=> r \in S \cup now
      <4>1. step'[r] = (IF r \in now THEN "running" ELSE IF r \in later THEN "queued" ELSE step[r])
        BY <1>9
      <4> QED BY <1>4, <1>11, <4>1
    <3> QED BY <1>4, <1>11, <3>1
  <2>2. S \cap now = {} /\ IsFiniteSet(S) /\ active = Cardinality(S)
    BY <1>4, <1>11, ReadsFinite DEF SlotsAreKept
  <2> HIDE DEF S, T
  <2>3. Cardinality(S \cap now) = 0 /\ Cardinality(S) \in Nat /\ Cardinality(now) \in Nat
    BY <1>14, <2>2, FS_EmptySet, FS_CardinalityType
  <2>4. Cardinality(S \cup now) = Cardinality(S) + Cardinality(now) - Cardinality(S \cap now)
    BY <1>14, <2>2, FS_Union
  <2>5. Cardinality(T) = active + room
    BY <1>10, <1>14, <2>1, <2>2, <2>3, <2>4
  <2> QED BY <1>9, <2>5 DEF SlotsAreKept, T
<1>20. reading' \in [Pins -> 0..2]
  BY <1>2, <1>3
<1>21. ASSUME NEW r \in Reads, step'[r] = "seen"
       PROVE  step[r] = "seen" /\ (reading'[r[1]] = r[2] => named[r[1]] = r[2])
  <2>1. step[r] = "seen" /\ r[1] \in Pins /\ r = <<r[1], r[2]>>
    BY <1>9, <1>21 DEF Reads
  <2>2. CASE r[1] \in wanted
    <3>1. reading'[r[1]] = NewRead(r[1])[2] /\ NewRead(r[1]) # r
      BY <1>2, <1>3, <2>1, <2>2
    <3>2. NewRead(r[1]) = <<r[1], NewRead(r[1])[2]>>
      BY <1>3, <2>2 DEF Reads
    <3>3. NewRead(r[1])[2] # r[2]
      BY <2>1, <3>1, <3>2
    <3> QED BY <2>1, <3>1, <3>3
  <2>3. CASE r[1] \notin wanted
    BY <1>2, <2>1, <2>3
  <2> QED BY <2>2, <2>3
<1>22. step' \in [Reads -> {"idle", "queued", "running", "seen"}] /\ active' \in 0..Concurrency
  BY <1>1, <1>9, <1>10
<1> QED BY <1>17, <1>18, <1>19, <1>20, <1>21, <1>22

-----------------------------------------------------------------------------
(* Every step keeps the invariant.                                          *)
LEMMA GraphStart == GraphInit => GraphInv
<1> SUFFICES ASSUME GraphInit PROVE GraphInv
  OBVIOUS
<1> USE DEF GraphInit
<1>1. GraphTypeOK
  <2>1. Cardinality(Pins) \in Nat
    BY StoreBounds, FS_CardinalityType
  <2>2. 0 \in DbVersions /\ active \in 0..Concurrency /\ launched \in 0..Cardinality(Pins) /\ waiters \in Seq(Reads)
    BY <2>1, StoreBounds DEF DbVersions
  <2>3. entry \in [Pins -> DbVersions \cup {NoStatus}] /\ reading \in [Pins -> 0..2]
    OBVIOUS
  <2>4. step \in [Reads -> {"idle", "queued", "running", "seen"}] /\ saw \in [Reads -> DbVersions]
    BY <2>2
  <2> QED BY <2>2, <2>3, <2>4 DEF GraphTypeOK
<1>2. QueueFits
  BY DEF QueueFits, Once, Queued
<1>3. SlotsAreKept
  <2>1. {r \in Reads : step[r] \in {"running", "seen"}} = {}
    OBVIOUS
  <2> QED BY <2>1, FS_EmptySet DEF SlotsAreKept
<1>4. SeenIsFresh /\ EntriesAreCurrent /\ RunIsRecorded /\ floor <= db /\ rebuilt <= db
  BY DEF SeenIsFresh, EntriesAreCurrent, RunIsRecorded
<1> QED BY <1>1, <1>2, <1>3, <1>4 DEF GraphInv

LEMMA LookKeeps == ASSUME GraphInv, NEW r \in Reads, Look(r) PROVE GraphInv'
<1>1. /\ step[r] = "running" /\ step' = [step EXCEPT ![r] = "seen"] /\ saw' = [saw EXCEPT ![r] = db]
      /\ UNCHANGED <<db, entry, reading, waiters, active, starting, run, launched, rebuild, seenRebuild, get, floor, rebuilt>>
  BY DEF Look
<1>2. GraphTypeOK /\ GraphTypeOK'
  BY <1>1 DEF GraphInv, GraphTypeOK
<1>3. QueueFits'
  <2>1. \A x \in Reads : step'[x] = "queued" <=> step[x] = "queued"
    BY <1>1, <1>2 DEF GraphTypeOK
  <2> QED BY <1>1, <2>1 DEF GraphInv, QueueFits, Once, Queued
<1>4. SlotsAreKept'
  <2>1. \A x \in Reads : step'[x] \in {"running", "seen"} <=> step[x] \in {"running", "seen"}
    BY <1>1, <1>2 DEF GraphTypeOK
  <2>2. {x \in Reads : step'[x] \in {"running", "seen"}} = {x \in Reads : step[x] \in {"running", "seen"}}
    BY <2>1
  <2> QED BY <1>1, <2>2 DEF GraphInv, SlotsAreKept
<1>5. SeenIsFresh'
  <2> SUFFICES ASSUME NEW x \in Reads, step'[x] = "seen", Current(x)' PROVE saw'[x] >= floor'
    BY DEF SeenIsFresh
  <2>1. CASE x = r
    BY <1>1, <1>2, <2>1 DEF GraphTypeOK, GraphInv, DbVersions
  <2>2. CASE x # r
    BY <1>1, <1>2, <2>2 DEF GraphTypeOK, GraphInv, SeenIsFresh, Current
  <2> QED BY <2>1, <2>2
<1> QED BY <1>1, <1>2, <1>3, <1>4, <1>5 DEF GraphInv, RunIsRecorded, EntriesAreCurrent

LEMMA EndReadKeeps == ASSUME GraphInv, NEW r \in Reads, EndRead(r) PROVE GraphInv'
<1>1. /\ step[r] = "seen"
      /\ entry' = (IF Current(r) THEN [entry EXCEPT ![r[1]] = saw[r]] ELSE entry)
      /\ reading' = (IF reading[r[1]] = r[2] THEN [reading EXCEPT ![r[1]] = 0] ELSE reading)
      /\ step' = [x \in Reads |-> IF x = r THEN "idle"
                                 ELSE IF Woken /\ x = Head(waiters) THEN "running" ELSE step[x]]
      /\ saw' = [saw EXCEPT ![r] = 0]
      /\ waiters' = (IF Woken THEN Tail(waiters) ELSE waiters)
      /\ active' = LeftActive
      /\ UNCHANGED <<db, starting, run, launched, rebuild, seenRebuild, get, floor, rebuilt>>
  BY DEF EndRead
<1>2. /\ GraphTypeOK /\ QueueFits /\ SlotsAreKept /\ SeenIsFresh /\ EntriesAreCurrent
      /\ Once(waiters) /\ Queued(waiters) = {x \in Reads : step[x] = "queued"}
      /\ r[1] \in Pins /\ waiters \in Seq(Reads) /\ step \in [Reads -> {"idle", "queued", "running", "seen"}]
      /\ active \in 0..Concurrency /\ Concurrency \in Nat
  BY StoreBounds DEF GraphInv, QueueFits, Reads, GraphTypeOK
<1>3. Woken => /\ Head(waiters) \in Reads /\ step[Head(waiters)] = "queued" /\ Tail(waiters) \in Seq(Reads)
               /\ Once(Tail(waiters)) /\ Queued(Tail(waiters)) = Queued(waiters) \ {Head(waiters)}
  BY <1>2, FirstOfQueue DEF Woken
<1>4. QueueFits' /\ waiters' \in Seq(Reads)
  <2>1. CASE Woken
    <3>1. \A x \in Reads : step'[x] = "queued" <=> x \in Queued(waiters) \ {Head(waiters)}
      BY <1>1, <1>2, <1>3, <2>1
    <3>2. Queued(waiters) \ {Head(waiters)} \subseteq Reads
      BY <1>2
    <3>3. Queued(waiters') = {x \in Reads : step'[x] = "queued"} /\ Once(waiters')
      BY <1>1, <1>3, <2>1, <3>1, <3>2
    <3> QED BY <1>1, <1>3, <2>1, <3>3 DEF QueueFits, Queued, Once
  <2>2. CASE ~Woken
    <3>1. \A x \in Reads : step'[x] = "queued" <=> step[x] = "queued"
      BY <1>1, <1>2, <2>2
    <3>2. Queued(waiters') = {x \in Reads : step'[x] = "queued"} /\ Once(waiters')
      BY <1>1, <1>2, <2>2, <3>1
    <3> QED BY <1>1, <1>2, <2>2, <3>2 DEF QueueFits, Queued, Once
  <2> QED BY <2>1, <2>2
<1>5. SlotsAreKept' /\ active' \in 0..Concurrency
  <2> DEFINE S == {x \in Reads : step[x] \in {"running", "seen"}}
             T == {x \in Reads : step'[x] \in {"running", "seen"}}
             h == Head(waiters)
  <2>1. r \in S /\ IsFiniteSet(S) /\ active = Cardinality(S)
    BY <1>1, <1>2, ReadsFinite DEF SlotsAreKept
  <2>2. IsFiniteSet(S \ {r}) /\ Cardinality(S \ {r}) = active - 1 /\ Cardinality(S \ {r}) \in Nat
    <3> HIDE DEF S
    <3> QED BY <2>1, FS_RemoveElement, FS_CardinalityType
  <2>3. CASE Woken
    <3>1. T = (S \ {r}) \cup {h} /\ h \notin S \ {r}
      BY <1>1, <1>2, <1>3, <2>3
    <3> HIDE DEF S, T, h
    <3>2. Cardinality(T) = active
      <4>1. Cardinality((S \ {r}) \cup {h}) = Cardinality(S \ {r}) + 1
        BY <2>2, <3>1, FS_AddElement
      <4> QED BY <1>2, <2>2, <3>1, <4>1
    <3>3. active' = active
      BY <1>1, <2>3 DEF LeftActive
    <3> QED BY <1>2, <3>2, <3>3 DEF SlotsAreKept, T
  <2>4. CASE ~Woken
    <3>1. T = S \ {r}
      BY <1>1, <1>2, <2>4
    <3> HIDE DEF S, T
    <3>2. active' = active - 1
      BY <1>1, <2>4 DEF LeftActive
    <3>3. active' = Cardinality(T) /\ active' \in 0..Concurrency
      BY <1>2, <2>2, <3>1, <3>2
    <3> QED BY <3>3 DEF SlotsAreKept, T
  <2> QED BY <2>3, <2>4
<1>6. GraphTypeOK'
  <2>1. entry' \in [Pins -> DbVersions \cup {NoStatus}] /\ reading' \in [Pins -> 0..2] /\ saw' \in [Reads -> DbVersions]
    BY <1>1, <1>2, StoreBounds DEF GraphTypeOK, DbVersions
  <2>2. step' \in [Reads -> {"idle", "queued", "running", "seen"}]
    BY <1>1, <1>2
  <2> QED BY <1>1, <1>2, <1>4, <1>5, <2>1, <2>2 DEF GraphTypeOK
<1>7. SeenIsFresh'
  <2> SUFFICES ASSUME NEW x \in Reads, step'[x] = "seen", Current(x)' PROVE saw'[x] >= floor'
    BY DEF SeenIsFresh
  <2>1. x # r /\ step[x] = "seen"
    BY <1>1
  <2>2. reading[x[1]] = x[2]
    <3>1. x[1] \in Pins /\ x[2] \in {1, 2} /\ reading'[x[1]] = x[2]
      BY DEF Current, Reads
    <3> QED BY <1>1, <1>2, <3>1 DEF GraphTypeOK
  <2> QED BY <1>1, <1>2, <2>1, <2>2 DEF GraphTypeOK, SeenIsFresh, Current
<1>8. EntriesAreCurrent'
  <2> SUFFICES ASSUME NEW p \in Pins, entry'[p] # NoStatus PROVE entry'[p] >= floor'
    BY DEF EntriesAreCurrent
  <2>1. CASE Current(r) /\ p = r[1]
    BY <1>1, <1>2, <2>1 DEF GraphTypeOK, SeenIsFresh
  <2>2. CASE ~(Current(r) /\ p = r[1])
    BY <1>1, <1>2, <2>2 DEF GraphTypeOK, EntriesAreCurrent
  <2> QED BY <2>1, <2>2
<1> QED BY <1>1, <1>4, <1>5, <1>6, <1>7, <1>8 DEF GraphInv, RunIsRecorded

LEMMA RowsKeeps == ASSUME GraphInv, NEW old \in SUBSET Pins, Rows(old) PROVE GraphInv'
<1> DEFINE named == IF RebuildOver THEN NoReading ELSE reading
           due == old \cup {p \in Pins : entry'[p] = NoStatus}
<1>1. /\ get' = "idle" /\ seenRebuild' = (get = "live")
      /\ entry' = (IF RebuildOver THEN NoStatuses ELSE entry)
      /\ floor' = (IF get = "dead" /\ seenRebuild /\ rebuilt > floor THEN rebuilt ELSE floor)
      /\ StartReads(due, named)
      /\ UNCHANGED <<db, saw, starting, run, launched, rebuild, rebuilt>>
  BY DEF Rows
<1>2. /\ GraphTypeOK /\ QueueFits /\ SlotsAreKept /\ SeenIsFresh /\ EntriesAreCurrent /\ floor <= db /\ rebuilt <= db
      /\ floor \in DbVersions /\ rebuilt \in DbVersions
  BY DEF GraphInv, GraphTypeOK
<1>3. due \in SUBSET Pins /\ named \in [Pins -> 0..2]
  BY <1>2 DEF NoReading, GraphTypeOK
<1> HIDE DEF due
<1>4. /\ step' \in [Reads -> {"idle", "queued", "running", "seen"}] /\ active' \in 0..Concurrency
      /\ waiters' \in Seq(Reads) /\ reading' \in [Pins -> 0..2]
      /\ QueueFits' /\ SlotsAreKept'
      /\ \A r \in Reads : step'[r] = "seen" =>
              /\ step[r] = "seen"
              /\ reading'[r[1]] = r[2] => named[r[1]] = r[2]
  <2> HIDE DEF named
  <2> QED BY <1>1, <1>2, <1>3, StartsFit
<1>5. floor' \in DbVersions /\ floor' <= db' /\ (~RebuildOver => floor' = floor)
  BY <1>1, <1>2 DEF RebuildOver
<1>6. GraphTypeOK'
  <2>1. entry' \in [Pins -> DbVersions \cup {NoStatus}]
    BY <1>1, <1>2 DEF GraphTypeOK, NoStatuses
  <2>2. get' \in {"idle", "live", "dead"} /\ seenRebuild' \in BOOLEAN
    BY <1>1
  <2> QED BY <1>1, <1>2, <1>4, <1>5, <2>1, <2>2 DEF GraphTypeOK
<1>7. SeenIsFresh'
  <2> SUFFICES ASSUME NEW r \in Reads, step'[r] = "seen", Current(r)' PROVE saw'[r] >= floor'
    BY DEF SeenIsFresh
  <2>1. step[r] = "seen" /\ named[r[1]] = r[2] /\ r[1] \in Pins /\ r[2] \in {1, 2}
    BY <1>4 DEF Current, Reads
  <2>2. ~RebuildOver /\ reading[r[1]] = r[2]
    BY <2>1 DEF NoReading
  <2> QED BY <1>1, <1>2, <1>5, <2>1, <2>2 DEF SeenIsFresh, Current
<1>8. EntriesAreCurrent'
  <2>1. CASE RebuildOver
    BY <1>1, <2>1 DEF NoStatuses, EntriesAreCurrent
  <2>2. CASE ~RebuildOver
    BY <1>1, <1>2, <1>5, <2>2 DEF EntriesAreCurrent
  <2> QED BY <2>1, <2>2
<1> QED BY <1>1, <1>2, <1>4, <1>5, <1>6, <1>7, <1>8 DEF GraphInv, RunIsRecorded

\* What concerns neither the reads nor the cache.
LEMMA ReadsRest ==
  ASSUME GraphInv, UNCHANGED <<readVars, floor>>, GraphTypeOK', RunIsRecorded', floor <= db', rebuilt' <= db'
  PROVE  GraphInv'
<1>1. QueueFits' /\ SlotsAreKept'
  BY DEF GraphInv, readVars, QueueFits, SlotsAreKept, Queued, Once
<1>2. SeenIsFresh' /\ EntriesAreCurrent'
  BY DEF GraphInv, readVars, SeenIsFresh, EntriesAreCurrent, Current
<1> QED BY <1>1, <1>2 DEF GraphInv

LEMMA RestKeeps ==
  ASSUME GraphInv, ReadPids \/ (\E p \in Pins : GraphStartRun(p) \/ Record(p)) \/ Change \/ Rebuild \/ UNCHANGED graphVars
  PROVE  GraphInv'
<1>1. /\ GraphTypeOK /\ RunIsRecorded /\ floor \in DbVersions /\ rebuilt \in DbVersions /\ db \in DbVersions
      /\ floor <= db /\ rebuilt <= db /\ MaxDb \in Nat
  BY StoreBounds DEF GraphInv, GraphTypeOK
<1>2. CASE ReadPids
  BY <1>1, <1>2, ReadsRest DEF ReadPids, readVars, GraphTypeOK, RunIsRecorded
<1>3. ASSUME NEW p \in Pins, GraphStartRun(p) PROVE GraphInv'
  BY <1>1, <1>3, ReadsRest DEF GraphStartRun, readVars, GraphTypeOK, RunIsRecorded
<1>4. ASSUME NEW p \in Pins, Record(p) PROVE GraphInv'
  <2>1. Cardinality(Pins) \in Nat /\ Cardinality(Pins) >= 1
    <3>1. Cardinality(Pins) \in Nat /\ Cardinality(Pins) # 0
      BY <1>4, StoreBounds, FS_CardinalityType, FS_EmptySet
    <3> QED BY <3>1
  <2>2. run' \in BOOLEAN /\ launched' \in 0..Cardinality(Pins) /\ RunIsRecorded'
    <3>1. CASE UNCHANGED <<run, launched>>
      BY <1>1, <3>1 DEF GraphTypeOK, RunIsRecorded
    <3>2. CASE RunFree /\ run' = TRUE /\ launched' = launched + 1
      <4>1. launched = 0
        BY <1>1, <3>2 DEF RunIsRecorded, RunFree
      <4>2. launched' = 1
        BY <3>2, <4>1
      <4> QED BY <2>1, <3>2, <4>2 DEF RunIsRecorded
    <3> QED BY <1>4, <3>1, <3>2 DEF Record
  <2>3. GraphTypeOK'
    BY <1>1, <1>4, <2>2 DEF Record, GraphTypeOK, readVars
  <2> QED BY <1>1, <1>4, <2>2, <2>3, ReadsRest DEF Record, readVars
<1>5. CASE Change
  <2>1. db' \in DbVersions /\ floor <= db' /\ rebuilt <= db'
    BY <1>1, <1>5 DEF Change, DbVersions
  <2>2. GraphTypeOK' /\ RunIsRecorded'
    BY <1>1, <1>5, <2>1 DEF Change, GraphTypeOK, RunIsRecorded, readVars
  <2> QED BY <1>5, <2>1, <2>2, ReadsRest DEF Change, readVars
<1>6. CASE Rebuild
  <2>1. rebuilt' \in DbVersions /\ rebuilt' <= db' /\ rebuild' \in BOOLEAN
    <3>1. rebuilt' \in {db, rebuilt} /\ db' = db /\ rebuild' \in BOOLEAN
      BY <1>1, <1>6 DEF Rebuild, GraphTypeOK
    <3> QED BY <1>1, <3>1 DEF DbVersions
  <2>2. GraphTypeOK' /\ RunIsRecorded'
    BY <1>1, <1>6, <2>1 DEF Rebuild, GraphTypeOK, RunIsRecorded, readVars
  <2> QED BY <1>1, <1>6, <2>1, <2>2, ReadsRest DEF Rebuild, readVars
<1>7. CASE UNCHANGED graphVars
  BY <1>1, <1>7, ReadsRest DEF graphVars, readVars, GraphTypeOK, RunIsRecorded
<1> QED BY <1>2, <1>3, <1>4, <1>5, <1>6, <1>7

LEMMA EndRunKeeps == ASSUME GraphInv, GraphEndRun PROVE GraphInv'
<1>1. /\ launched > 0 /\ launched' = launched - 1
      /\ run' = FALSE /\ seenRebuild' = FALSE /\ floor' = db
      /\ entry' = NoStatuses /\ reading' = NoReading
      /\ UNCHANGED <<db, step, saw, waiters, active, starting, rebuild, get, rebuilt>>
  BY DEF GraphEndRun, DroppedReading
<1>2. GraphTypeOK /\ RunIsRecorded /\ db \in DbVersions /\ launched \in 0..Cardinality(Pins) /\ Cardinality(Pins) \in Nat
  BY StoreBounds, FS_CardinalityType DEF GraphInv, GraphTypeOK
<1>3. launched' = 0
  BY <1>1, <1>2 DEF RunIsRecorded
<1>4. GraphTypeOK'
  <2>1. launched' \in 0..Cardinality(Pins)' /\ entry' \in [Pins -> DbVersions \cup {NoStatus}] /\ reading' \in [Pins -> 0..2]
    BY <1>1, <1>2, <1>3 DEF NoStatuses, NoReading
  <2> QED BY <1>1, <1>2, <2>1 DEF GraphTypeOK
<1>5. QueueFits' /\ SlotsAreKept'
  BY <1>1 DEF GraphInv, QueueFits, SlotsAreKept, Queued, Once
<1>6. SeenIsFresh'
  BY <1>1 DEF SeenIsFresh, Current, NoReading, Reads
<1>7. EntriesAreCurrent'
  BY <1>1 DEF EntriesAreCurrent, NoStatuses
<1>8. floor' <= db' /\ rebuilt' <= db'
  BY <1>1, <1>2 DEF GraphInv, DbVersions
<1> QED BY <1>1, <1>3, <1>4, <1>5, <1>6, <1>7, <1>8 DEF GraphInv, RunIsRecorded

LEMMA GraphStep == GraphInv /\ [GraphNext]_graphVars => GraphInv'
BY LookKeeps, EndReadKeeps, RowsKeeps, RestKeeps, EndRunKeeps DEF GraphNext, ReadStep

LEMMA GraphInvariance == GraphInit /\ [][GraphNext]_graphVars => []GraphInv
<1>1. GraphInit => GraphInv
  BY GraphStart
<1>2. GraphInv /\ [GraphNext]_graphVars => GraphInv'
  BY GraphStep
<1> QED BY <1>1, <1>2, PTL

\* The cache, the limiter and the runs of a graph root stay in their types
\* (codegraph-store.ts).
THEOREM GraphTypeCorrect == GraphInit /\ [][GraphNext]_graphVars => []GraphTypeOK
<1>1. GraphInv => GraphTypeOK
  BY DEF GraphInv
<1> QED BY <1>1, GraphInvariance, PTL

\* For any number of pins and every cap of the limiter: no entry older than the
\* last end the store noticed, one run per root, and a slot for each read that
\* looks (dropEntry, startCodegraphRun, createLimiter).
THEOREM GraphIsKept ==
  GraphInit /\ [][GraphNext]_graphVars => [](EntriesAreCurrent /\ OneRunPerRoot /\ SlotsAreKept)
<1>1. GraphInv => EntriesAreCurrent /\ OneRunPerRoot /\ SlotsAreKept
  BY DEF GraphInv, RunIsRecorded, OneRunPerRoot
<1> QED BY <1>1, GraphInvariance, PTL

-----------------------------------------------------------------------------
(* The minutes of a routine.                                                *)

\* Division and multiples.
LEMMA DivMul ==
  ASSUME NEW W \in Nat \ {0}, NEW t \in Int
  PROVE  t \div W \in Int /\ (t \div W) * W <= t /\ t < (t \div W + 1) * W
OBVIOUS
\* Multiples are ordered as their factors.
LEMMA MulLess == ASSUME NEW W \in Nat \ {0}, NEW j \in Int, NEW k \in Int, j * W < k * W PROVE j < k
OBVIOUS
LEMMA MulLeq == ASSUME NEW W \in Nat \ {0}, NEW j \in Int, NEW k \in Int, j <= k PROVE j * W <= k * W
OBVIOUS

\* The quotient is the one whose stretch holds the number.
LEMMA DivIs ==
  ASSUME NEW W \in Nat \ {0}, NEW t \in Int, NEW k \in Int, k * W <= t, t < (k + 1) * W
  PROVE  t \div W = k
<1> DEFINE q == t \div W
<1>1. q \in Int /\ q * W <= t /\ t < (q + 1) * W
  BY DivMul
<1> HIDE DEF q
<1>2. q * W \in Int /\ k * W \in Int /\ (q + 1) * W \in Int /\ (k + 1) * W \in Int
  BY <1>1
<1>3. q * W < (k + 1) * W /\ k * W < (q + 1) * W
  BY <1>1, <1>2
<1>4. q < k + 1 /\ k < q + 1
  BY <1>1, <1>3, MulLess
<1>5. q = k
  BY <1>1, <1>4
<1> QED BY <1>5 DEF q

\* The remainder.
LEMMA ModIs ==
  ASSUME NEW W \in Nat \ {0}, NEW t \in Int
  PROVE  /\ t % W \in 0..(W - 1) /\ t = (t \div W) * W + (t % W)
<1>1. t % W \in 0..(W - 1)
  OBVIOUS
<1>2. t = (t \div W) * W + (t % W)
  OBVIOUS
<1> QED BY <1>1, <1>2

LEMMA MulMod == ASSUME NEW W \in Nat \ {0}, NEW k \in Int PROVE (k * W) % W = 0
OBVIOUS

LEMMA DayLength == HourLen \in Nat \ {0} /\ DayMinutes \in Nat \ {0} /\ MonthLen \in Nat \ {0} /\ LastMinute \in Nat
<1>1. HourLen \in Nat \ {0} /\ DayLen \in Nat \ {0} /\ MonthLen \in Nat \ {0} /\ LastMinute \in Nat
  BY CronSizes
<1>2. DayLen * HourLen \in Nat \ {0}
  BY <1>1
<1> QED BY <1>1, <1>2 DEF DayMinutes

\* A change of the local time, of whole hours, with no midnight inside.
LEMMA ChangeFits ==
  ASSUME change \in Changes
  PROVE  /\ change.at \in Nat /\ change.shift \in Int /\ change.at + change.shift \in Nat
         /\ \A k \in Int : /\ ~(change.at < k * DayMinutes /\ k * DayMinutes < change.at + change.shift)
                           /\ ~(change.at + change.shift < k * DayMinutes /\ k * DayMinutes < change.at)
<1> DEFINE a == change.at
           s == change.shift
           D == DayMinutes
<1>1. /\ a \in Nat /\ s \in Int /\ a + s \in Nat /\ D \in Nat \ {0}
      /\ s > 0 => (a + s - 1) \div D = a \div D
      /\ s < 0 => (a - 1) \div D = (a + s) \div D
  BY CronChanges, DayLength DEF DayMinutes
<1> SUFFICES ASSUME NEW k \in Int
             PROVE  ~(a < k * D /\ k * D < a + s) /\ ~(a + s < k * D /\ k * D < a)
  BY <1>1
<1> HIDE DEF a, s, D
<1>2. k * D \in Int
  BY <1>1
<1>3. ASSUME a < k * D, k * D < a + s PROVE FALSE
  <2> DEFINE q == a \div D
  <2>1. q \in Int /\ q * D <= a
    BY <1>1, DivMul
  <2>2. s > 0 /\ a + s - 1 \in Int /\ k * D <= a + s - 1
    BY <1>1, <1>2, <1>3
  <2>3. a + s - 1 < (q + 1) * D
    BY <1>1, <2>2, DivMul
  <2> HIDE DEF q
  <2>4. q * D < k * D /\ k * D < (q + 1) * D
    BY <1>1, <1>2, <1>3, <2>1, <2>2, <2>3
  <2>5. q < k /\ k < q + 1
    BY <1>1, <2>1, <2>4, MulLess
  <2> QED BY <2>1, <2>5
<1>4. ASSUME a + s < k * D, k * D < a PROVE FALSE
  <2> DEFINE q == (a + s) \div D
  <2>1. q \in Int /\ q * D <= a + s
    BY <1>1, DivMul
  <2>2. s < 0 /\ a - 1 \in Int /\ k * D <= a - 1
    BY <1>1, <1>2, <1>4
  <2>3. a - 1 < (q + 1) * D
    BY <1>1, <2>2, DivMul
  <2> HIDE DEF q
  <2>4. q * D < k * D /\ k * D < (q + 1) * D
    BY <1>1, <1>2, <1>4, <2>1, <2>2, <2>3
  <2>5. q < k /\ k < q + 1
    BY <1>1, <2>1, <2>4, MulLess
  <2> QED BY <2>1, <2>5
<1> QED BY <1>3, <1>4

LEMMA LocalType == ASSUME change \in Changes, NEW x \in Int PROVE Local(x) \in Int
BY ChangeFits DEF Local

\* From m to the end of a stretch of days the local time stays within it,
\* whatever hour is repeated or skipped; so it does back to its beginning, but
\* for a second pass that the stretch begins with.
LEMMA StretchAhead ==
  ASSUME change \in Changes, NEW i \in Int, NEW j \in Int, NEW m \in Int, NEW x \in Int,
         i * DayMinutes <= Local(m), Local(m) < j * DayMinutes,
         m <= x, x < MakeDate(j * DayMinutes)
  PROVE  i * DayMinutes <= Local(x) /\ Local(x) < j * DayMinutes
<1> DEFINE a == change.at
           s == change.shift
           b == i * DayMinutes
           l == j * DayMinutes
<1>1. /\ a \in Int /\ s \in Int /\ b \in Int /\ l \in Int
      /\ ~(a < l /\ l < a + s) /\ ~(a + s < b /\ b < a)
  BY ChangeFits, DayLength
<1>2. /\ b <= Local(m) /\ Local(m) < l /\ m <= x /\ x < MakeDate(l)
      /\ Local(m) = (IF m < a THEN m ELSE m + s) /\ Local(x) = (IF x < a THEN x ELSE x + s)
      /\ MakeDate(l) = (IF l < a THEN l ELSE IF l - s >= a THEN l - s ELSE l)
  BY DEF Local, MakeDate
<1> HIDE DEF a, s, b, l
<1>3. b <= Local(x) /\ Local(x) < l
  BY <1>1, <1>2
<1> QED BY <1>3 DEF b, l

LEMMA StretchBehind ==
  ASSUME change \in Changes, NEW i \in Int, NEW j \in Int, NEW m \in Int, NEW x \in Int,
         i * DayMinutes <= Local(m), Local(m) < j * DayMinutes,
         MakeDate(i * DayMinutes - 1) < x, x <= m, x \notin SecondPassAtMidnight
  PROVE  i * DayMinutes <= Local(x) /\ Local(x) < j * DayMinutes
<1> DEFINE a == change.at
           s == change.shift
           b == i * DayMinutes
           l == j * DayMinutes
<1>1. /\ a \in Int /\ s \in Int /\ b \in Int /\ l \in Int
      /\ ~(a < b /\ b < a + s) /\ ~(a + s < b /\ b < a) /\ ~(a + s < l /\ l < a)
  <2>1. a \in Int /\ s \in Int /\ b \in Int /\ l \in Int
    BY ChangeFits, DayLength
  <2>2. ~(a < b /\ b < a + s) /\ ~(a + s < b /\ b < a)
    BY ChangeFits
  <2>3. ~(a + s < l /\ l < a)
    BY ChangeFits
  <2> QED BY <2>1, <2>2, <2>3
<1>2. /\ b <= Local(m) /\ Local(m) < l /\ x <= m /\ MakeDate(b - 1) < x
      /\ Local(m) = (IF m < a THEN m ELSE m + s) /\ Local(x) = (IF x < a THEN x ELSE x + s)
      /\ MakeDate(b - 1) = (IF b - 1 < a THEN b - 1 ELSE IF b - 1 - s >= a THEN b - 1 - s ELSE b - 1)
  BY DEF Local, MakeDate
<1>3. b = a /\ s < 0 => ~(a <= x /\ x <= a - s - 1)
  <2> SUFFICES ASSUME b = a, s < 0, a <= x, x <= a - s - 1 PROVE x \in SecondPassAtMidnight
    OBVIOUS
  <2>1. a % DayMinutes = 0
    BY DayLength, MulMod
  <2>2. x \in a..(a - s - 1)
    BY <1>1
  <2> QED BY <2>1, <2>2 DEF SecondPassAtMidnight
<1> HIDE DEF a, s, b, l
<1>4. b <= Local(x) /\ Local(x) < l
  BY <1>1, <1>2, <1>3
<1> QED BY <1>4 DEF b, l

\* The day of a local time, and its month.
LEMMA DayOf ==
  ASSUME change \in Changes, NEW x \in Int
  PROVE  /\ Day(x) \in Int /\ Day(x) * DayMinutes <= Local(x) /\ Local(x) < (Day(x) + 1) * DayMinutes
         /\ \A k \in Int : k * DayMinutes <= Local(x) /\ Local(x) < (k + 1) * DayMinutes => Day(x) = k
BY LocalType, DayLength, DivMul, DivIs DEF Day

LEMMA MonthOf ==
  ASSUME change \in Changes, NEW x \in Int
  PROVE  /\ MonthIndex(x) \in Int
         /\ MonthIndex(x) * MonthLen * DayMinutes <= Local(x)
         /\ Local(x) < (MonthIndex(x) + 1) * MonthLen * DayMinutes
         /\ \A k \in Int : k * MonthLen * DayMinutes <= Local(x) /\ Local(x) < (k + 1) * MonthLen * DayMinutes
                             => MonthIndex(x) = k
<1> DEFINE D == DayMinutes
           d == Day(x)
           p == Local(x)
           L == MonthLen
<1>1. D \in Nat \ {0} /\ L \in Nat \ {0} /\ d \in Int /\ p \in Int /\ d * D <= p /\ p < (d + 1) * D
  BY DayLength, DayOf, LocalType
<1>2. MonthIndex(x) = d \div L
  BY DEF MonthIndex
<1> HIDE DEF D, d, p, L
<1>3. MonthIndex(x) \in Int /\ MonthIndex(x) * L <= d /\ d < (MonthIndex(x) + 1) * L
  BY <1>1, <1>2, DivMul
<1> DEFINE n == MonthIndex(x)
<1> HIDE DEF n
<1>4. n \in Int /\ n * L \in Int /\ (n + 1) * L \in Int /\ n * L <= d /\ d + 1 <= (n + 1) * L
  BY <1>1, <1>3 DEF n
<1>5. (n * L) * D <= d * D /\ (d + 1) * D <= ((n + 1) * L) * D
  BY <1>1, <1>4, MulLeq
<1>6. (n * L) * D \in Int /\ d * D \in Int /\ (d + 1) * D \in Int /\ ((n + 1) * L) * D \in Int
  BY <1>1, <1>4
<1>7. (n * L) * D <= p /\ p < ((n + 1) * L) * D
  BY <1>1, <1>5, <1>6
<1>8. ASSUME NEW k \in Int, (k * L) * D <= p, p < ((k + 1) * L) * D PROVE n = k
  <2>1. k * L \in Int /\ (k + 1) * L \in Int /\ (k * L) * D \in Int /\ ((k + 1) * L) * D \in Int
    BY <1>1
  <2>2. (k * L) * D < (d + 1) * D /\ d * D < ((k + 1) * L) * D
    BY <1>1, <1>6, <1>8, <2>1
  <2>3. k * L < d + 1 /\ d < (k + 1) * L
    BY <1>1, <2>1, <2>2, MulLess
  <2>4. k * L <= d
    BY <1>1, <2>1, <2>3
  <2> QED BY <1>1, <1>2, <2>3, <2>4, DivIs DEF n
<1> QED BY <1>4, <1>7, <1>8 DEF n, D, L, p

\* The hour of a minute, to its end and back to its beginning.
LEMMA HourOf ==
  ASSUME change \in Changes, NEW m \in Int
  PROVE  /\ Minute(m) \in 0..(HourLen - 1)
         /\ \A x \in Int : m <= x /\ x < m + (HourLen - Minute(m)) => Hour(x) = Hour(m)
         /\ \A x \in Int : m - (Minute(m) + 1) < x /\ x <= m => Hour(x) = Hour(m)
<1> DEFINE H == HourLen
           a == change.at
           s == change.shift
           q == Local(m) \div H
           r == Minute(m)
           u == a \div H
           v == s \div H
<1>1. H \in Nat \ {0} /\ a \in Int /\ s \in Int /\ Local(m) \in Int
  BY DayLength, ChangeFits, LocalType
<1>2. r \in 0..(H - 1) /\ Local(m) = q * H + r /\ q \in Int
  BY <1>1, ModIs, DivMul DEF Minute
<1>3. a = u * H /\ s = v * H /\ u \in Int /\ v \in Int
  <2>1. a % H = 0 /\ s % H = 0
    BY CronChanges
  <2>2. u \in Int /\ v \in Int /\ u * H \in Int /\ v * H \in Int
    BY <1>1, DivMul
  <2>3. a = u * H + (a % H) /\ s = v * H + (s % H)
    BY <1>1, ModIs
  <2> QED BY <1>1, <2>1, <2>2, <2>3
<1>4. /\ Local(m) = IF m < a THEN m ELSE m + s
      /\ \A x \in Int : Local(x) = IF x < a THEN x ELSE x + s
  BY DEF Local
<1>5. \A x \in Int : Hour(x) = (Local(x) \div H) % DayLen
  BY DEF Hour
<1>6. ASSUME NEW x \in Int, Local(x) \in Int, q * H <= Local(x), Local(x) < q * H + H PROVE Hour(x) = Hour(m)
  <2>1. Local(x) < (q + 1) * H
    BY <1>1, <1>2, <1>6
  <2>2. Local(x) \div H = q
    BY <1>1, <1>2, <1>6, <2>1, DivIs
  <2> QED BY <1>5, <2>2
<1> HIDE DEF H, a, s, q, r, u, v
<1>7. q * H \in Int /\ u * H \in Int /\ v * H \in Int /\ (q + 1) * H = q * H + H /\ (q - v) * H = q * H - v * H
      /\ (q - v + 1) * H = q * H - v * H + H
  BY <1>1, <1>2, <1>3
<1>8. ASSUME NEW x \in Int, m <= x, x < m + (H - r) PROVE Hour(x) = Hour(m)
  <2>1. CASE m < a /\ a <= x
    <3>1. m = q * H + r /\ q * H <= m /\ x < q * H + H
      BY <1>1, <1>2, <1>4, <1>7, <1>8, <2>1
    <3>2. q * H < u * H
      BY <1>1, <1>2, <1>3, <1>7, <2>1, <3>1
    <3>3. q + 1 <= u
      BY <1>1, <1>2, <1>3, <3>2, MulLess
    <3>4. (q + 1) * H <= u * H
      BY <1>1, <1>2, <1>3, <3>3, MulLeq
    <3> QED BY <1>1, <1>3, <1>7, <2>1, <3>1, <3>4
  <2>2. CASE ~(m < a /\ a <= x)
    <3>1. Local(x) = Local(m) + (x - m)
      BY <1>1, <1>4, <1>8, <2>2
    <3> QED BY <1>1, <1>2, <1>6, <1>7, <1>8, <3>1
  <2> QED BY <2>1, <2>2
<1>9. ASSUME NEW x \in Int, m - (r + 1) < x, x <= m PROVE Hour(x) = Hour(m)
  <2>1. CASE x < a /\ a <= m
    <3>1. m + s = q * H + r
      BY <1>1, <1>2, <1>4, <2>1
    <3>2. m < q * H - v * H + H /\ m - r = q * H - v * H
      BY <1>1, <1>2, <1>3, <1>7, <3>1
    <3>3. u * H < (q - v + 1) * H
      BY <1>1, <1>3, <1>7, <2>1, <3>2
    <3>4. u <= q - v
      BY <1>1, <1>2, <1>3, <3>3, MulLess
    <3>5. u * H <= (q - v) * H
      BY <1>1, <1>2, <1>3, <3>4, MulLeq
    <3> QED BY <1>1, <1>2, <1>3, <1>7, <1>9, <2>1, <3>2, <3>5
  <2>2. CASE ~(x < a /\ a <= m)
    <3>1. Local(x) = Local(m) - (m - x)
      BY <1>1, <1>4, <1>9, <2>2
    <3> QED BY <1>1, <1>2, <1>6, <1>7, <1>9, <3>1
  <2> QED BY <2>1, <2>2
<1> QED BY <1>2, <1>8, <1>9 DEF H, r

\* The fields a minute is tested by are its day's, its month's and its hour's.
LEMMA SameDay ==
  ASSUME NEW x, NEW m, Day(x) = Day(m)
  PROVE  DayMatches(x) = DayMatches(m)
BY DEF DayMatches, DayOfMonth, Weekday

LEMMA SameMonth ==
  ASSUME NEW x, NEW m, MonthIndex(x) = MonthIndex(m)
  PROVE  Month(x) = Month(m)
BY DEF Month

\* The search forward passes over no minute that fires.
LEMMA AheadMissesNone ==
  ASSUME change \in Changes, direction = "next", NEW m \in Int, ~Fires(m), NEW x \in Int,
         m <= x, x < Progress(m, JumpOn(m))
  PROVE  ~Fires(x)
<1>1. CASE x = m
  BY <1>1
<1>2. CASE x # m
  <2>1. JumpOn(m) > m /\ x < JumpOn(m)
    BY <1>2 DEF Progress
  <2>2. CASE Month(m) \notin cron.month
    <3>1. x < MakeDate((MonthIndex(m) + 1) * MonthLen * DayMinutes)
      BY <2>1, <2>2 DEF JumpOn
    <3> DEFINE n == MonthIndex(m)
               i == n * MonthLen
               j == (n + 1) * MonthLen
    <3>2. n \in Int /\ i * DayMinutes <= Local(m) /\ Local(m) < j * DayMinutes
      BY MonthOf
    <3>3. i \in Int /\ j \in Int /\ x < MakeDate(j * DayMinutes)
      BY <3>1, <3>2, DayLength
    <3>4. i * DayMinutes <= Local(x) /\ Local(x) < j * DayMinutes
      BY <3>2, <3>3, StretchAhead
    <3>5. MonthIndex(x) = n
      BY <3>2, <3>4, MonthOf
    <3> QED BY <2>2, <3>5, SameMonth DEF Fires
  <2>3. CASE Month(m) \in cron.month /\ ~DayMatches(m)
    <3>1. x < MakeDate((Day(m) + 1) * DayMinutes)
      BY <2>1, <2>3 DEF JumpOn
    <3>2. Day(m) \in Int /\ Day(m) + 1 \in Int /\ Day(m) * DayMinutes <= Local(m) /\ Local(m) < (Day(m) + 1) * DayMinutes
      BY DayOf
    <3>3. Day(m) * DayMinutes <= Local(x) /\ Local(x) < (Day(m) + 1) * DayMinutes
      BY <3>1, <3>2, StretchAhead
    <3>4. Day(x) = Day(m)
      BY <3>2, <3>3, DayOf
    <3> QED BY <2>3, <3>4, SameDay DEF Fires
  <2>4. CASE Month(m) \in cron.month /\ DayMatches(m) /\ Hour(m) \notin cron.hour
    <3>1. x < m + (HourLen - Minute(m))
      BY <2>1, <2>4 DEF JumpOn
    <3>2. Hour(x) = Hour(m)
      BY <3>1, HourOf
    <3> QED BY <2>4, <3>2 DEF Fires
  <2>5. CASE Month(m) \in cron.month /\ DayMatches(m) /\ Hour(m) \in cron.hour
    BY <1>2, <2>1, <2>5 DEF JumpOn
  <2> QED BY <2>2, <2>3, <2>4, <2>5
<1> QED BY <1>1, <1>2

\* Nor does the search back, but for the second pass that begins a day.
LEMMA BackMissesNone ==
  ASSUME change \in Changes, direction = "last", NEW m \in Int, ~Fires(m), NEW x \in Int,
         Progress(m, JumpBack(m)) < x, x <= m, x \notin SecondPassAtMidnight
  PROVE  ~Fires(x)
<1>1. CASE x = m
  BY <1>1
<1>2. CASE x # m
  <2>1. JumpBack(m) < m /\ JumpBack(m) < x
    BY <1>2 DEF Progress
  <2>2. CASE Month(m) \notin cron.month
    <3>1. MakeDate(MonthIndex(m) * MonthLen * DayMinutes - 1) < x
      BY <2>1, <2>2 DEF JumpBack
    <3> DEFINE n == MonthIndex(m)
               i == n * MonthLen
               j == (n + 1) * MonthLen
    <3>2. n \in Int /\ i * DayMinutes <= Local(m) /\ Local(m) < j * DayMinutes
      BY MonthOf
    <3>3. i \in Int /\ j \in Int /\ MakeDate(i * DayMinutes - 1) < x
      BY <3>1, <3>2, DayLength
    <3>4. i * DayMinutes <= Local(x) /\ Local(x) < j * DayMinutes
      BY <3>2, <3>3, StretchBehind
    <3>5. MonthIndex(x) = n
      BY <3>2, <3>4, MonthOf
    <3> QED BY <2>2, <3>5, SameMonth DEF Fires
  <2>3. CASE Month(m) \in cron.month /\ ~DayMatches(m)
    <3>1. MakeDate(Day(m) * DayMinutes - 1) < x
      BY <2>1, <2>3 DEF JumpBack
    <3>2. Day(m) \in Int /\ Day(m) + 1 \in Int /\ Day(m) * DayMinutes <= Local(m) /\ Local(m) < (Day(m) + 1) * DayMinutes
      BY DayOf
    <3>3. Day(m) * DayMinutes <= Local(x) /\ Local(x) < (Day(m) + 1) * DayMinutes
      BY <3>1, <3>2, StretchBehind
    <3>4. Day(x) = Day(m)
      BY <3>2, <3>3, DayOf
    <3> QED BY <2>3, <3>4, SameDay DEF Fires
  <2>4. CASE Month(m) \in cron.month /\ DayMatches(m) /\ Hour(m) \notin cron.hour
    <3>1. m - (Minute(m) + 1) < x
      BY <2>1, <2>4 DEF JumpBack, HourBack
    <3>2. Hour(x) = Hour(m)
      BY <3>1, HourOf
    <3> QED BY <2>4, <3>2 DEF Fires
  <2>5. CASE Month(m) \in cron.month /\ DayMatches(m) /\ Hour(m) \in cron.hour
    BY <1>2, <2>1, <2>5 DEF JumpBack
  <2> QED BY <2>2, <2>3, <2>4, <2>5
<1> QED BY <1>1, <1>2

CronInv == CronTypeOK /\ change \in Changes /\ cron \in Crons /\ NoSlotIsMissed

\* A jump is a moment, and goes on in the search's direction.
LEMMA JumpsGoOn ==
  ASSUME CronInv, NEW m \in Int
  PROVE  /\ direction = "next" => Progress(m, JumpOn(m)) \in Int /\ Progress(m, JumpOn(m)) > m
         /\ direction = "last" => Progress(m, JumpBack(m)) \in Int /\ Progress(m, JumpBack(m)) < m
<1>1. ASSUME NEW l \in Int PROVE MakeDate(l) \in Int
  BY ChangeFits DEF MakeDate, CronInv
<1>2. /\ Day(m) \in Int /\ MonthIndex(m) \in Int /\ Minute(m) \in Int
      /\ DayMinutes \in Int /\ HourLen \in Int /\ MonthLen \in Int
  BY DayOf, MonthOf, HourOf, DayLength DEF CronInv
<1>3. /\ (MonthIndex(m) + 1) * MonthLen * DayMinutes \in Int /\ (Day(m) + 1) * DayMinutes \in Int
      /\ MonthIndex(m) * MonthLen * DayMinutes - 1 \in Int /\ Day(m) * DayMinutes - 1 \in Int
  BY <1>2
<1>4. JumpOn(m) \in Int
  BY <1>1, <1>2, <1>3 DEF JumpOn
<1>5. JumpBack(m) \in Int
  BY <1>1, <1>2, <1>3 DEF JumpBack, HourBack
<1> QED BY <1>4, <1>5 DEF Progress

LEMMA CronStart == ASSUME CronInit PROVE CronInv
<1>1. LastMinute \in Nat
  BY CronSizes
<1>2. CASE direction = "next"
  <2>1. origin \in Clock /\ inside = FALSE /\ candidate = origin + 1
    BY <1>1, <1>2 DEF CronInit, FirstCandidate, Clock
  <2>2. CronTypeOK
    <3>1. candidate \in Int /\ candidate > origin
      BY <2>1 DEF Clock
    <3> QED BY <1>2, <2>1, <3>1 DEF CronTypeOK
  <2>3. NoSlotIsMissed
    BY <1>1, <1>2, <2>1 DEF NoSlotIsMissed, Clock
  <2> QED BY <2>2, <2>3 DEF CronInit, CronInv
<1>3. CASE direction = "last"
  <2>1. origin \in Clock /\ inside \in BOOLEAN /\ candidate = IF inside THEN origin ELSE origin - 1
    BY <1>1, <1>3 DEF CronInit, FirstCandidate, Clock
  <2>2. CronTypeOK
    BY <1>1, <1>3, <2>1 DEF CronTypeOK, Clock
  <2>3. NoSlotIsMissed
    BY <1>1, <1>3, <2>1 DEF NoSlotIsMissed, Clock
  <2> QED BY <2>2, <2>3 DEF CronInit, CronInv
<1> QED BY <1>2, <1>3 DEF CronInit

LEMMA CronStep == ASSUME CronInv, [CronNext]_cronVars PROVE CronInv'
<1>1. /\ candidate \in Int /\ origin \in Clock /\ change \in Changes /\ LastMinute \in Nat
      /\ direction \in {"next", "last"} /\ inside \in BOOLEAN
      /\ direction = "next" => candidate > origin
      /\ direction = "last" => candidate <= origin
  BY CronSizes DEF CronInv, CronTypeOK
<1>2. CASE Skip
  <2>1. /\ candidate \in Clock /\ ~Fires(candidate) /\ UNCHANGED <<cron, change, direction, origin, inside>>
        /\ direction = "next" => candidate' = Progress(candidate, JumpOn(candidate))
        /\ direction = "last" => candidate' = Progress(candidate, JumpBack(candidate))
    BY <1>2 DEF Skip
  <2>2. /\ candidate' \in Int
        /\ direction = "next" => candidate' > candidate
        /\ direction = "last" => candidate' < candidate
    BY <1>1, <2>1, JumpsGoOn
  <2>3. CronTypeOK'
    <3>1. origin \in Int
      BY <1>1 DEF Clock
    <3>2. (direction = "next" => candidate > origin)' /\ (direction = "last" => candidate <= origin)'
      BY <1>1, <2>1, <2>2, <3>1
    <3> QED BY <1>1, <2>1, <2>2, <3>2 DEF CronTypeOK
  <2>4. \A x : Fires(x)' = Fires(x)
    BY <2>1 DEF Fires, Month, MonthIndex, DayMatches, DayOfMonth, Weekday, Day, Hour, Minute, Local
  <2>5. NoSlotIsMissed'
    <3>1. ASSUME direction = "next", NEW x \in Clock, origin < x, x < candidate' PROVE ~Fires(x)
      <4>1. CASE x < candidate
        BY <3>1, <4>1 DEF CronInv, NoSlotIsMissed
      <4>2. CASE ~(x < candidate)
        BY <1>1, <2>1, <3>1, <4>2, AheadMissesNone DEF Clock
      <4> QED BY <4>1, <4>2
    <3>2. ASSUME direction = "last", NEW x \in Clock \ SecondPassAtMidnight, candidate' < x,
                 x < origin \/ (inside /\ x = origin)
          PROVE  ~Fires(x)
      <4>1. CASE candidate < x
        BY <3>2, <4>1 DEF CronInv, NoSlotIsMissed
      <4>2. CASE ~(candidate < x)
        BY <1>1, <2>1, <3>2, <4>2, BackMissesNone DEF Clock
      <4> QED BY <4>1, <4>2
    <3>3. SecondPassAtMidnight' = SecondPassAtMidnight
      BY <2>1 DEF SecondPassAtMidnight
    <3> QED BY <2>1, <2>4, <3>1, <3>2, <3>3 DEF NoSlotIsMissed
  <2> QED BY <2>1, <2>3, <2>5 DEF CronInv
<1>3. CASE Return
  <2>1. /\ candidate \in Clock /\ origin' = candidate /\ inside' = FALSE
        /\ UNCHANGED <<cron, change, direction>>
        /\ candidate' = (IF direction = "next" THEN candidate + 1 ELSE candidate - 1)
    BY <1>3 DEF Return, FirstCandidate
  <2>2. CronTypeOK'
    <3>1. candidate' \in Int /\ (direction = "next" => candidate > origin)' /\ (direction = "last" => candidate <= origin)'
      BY <1>1, <2>1
    <3> QED BY <1>1, <2>1, <3>1 DEF CronTypeOK
  <2>3. NoSlotIsMissed'
    <3>1. direction = "next" => ~\E x \in Clock : origin' < x /\ x < candidate'
      BY <1>1, <2>1 DEF Clock
    <3>2. direction = "last" => ~\E x \in Clock : candidate' < x /\ x < origin'
      BY <1>1, <2>1 DEF Clock
    <3> QED BY <2>1, <3>1, <3>2 DEF NoSlotIsMissed
  <2> QED BY <1>1, <2>1, <2>2, <2>3 DEF CronInv
<1>4. CASE UNCHANGED cronVars
  <2>1. SecondPassAtMidnight' = SecondPassAtMidnight /\ UNCHANGED <<cron, change, direction, origin, inside, candidate>>
    BY <1>4 DEF SecondPassAtMidnight, cronVars
  <2>2. \A x : Fires(x)' = Fires(x)
    BY <2>1 DEF Fires, Month, MonthIndex, DayMatches, DayOfMonth, Weekday, Day, Hour, Minute, Local
  <2> QED BY <2>1, <2>2 DEF CronInv, CronTypeOK, NoSlotIsMissed
<1> QED BY <1>2, <1>3, <1>4 DEF CronNext

LEMMA CronInvariance == CronInit /\ [][CronNext]_cronVars => []CronInv
<1>1. CronInit => CronInv
  BY CronStart
<1>2. CronInv /\ [CronNext]_cronVars => CronInv'
  BY CronStep
<1> QED BY <1>1, <1>2, PTL

\* The candidate goes on from where the search began, in its direction.
THEOREM CronTypeCorrect == CronInit /\ [][CronNext]_cronVars => []CronTypeOK
<1>1. CronInv => CronTypeOK
  BY DEF CronInv
<1> QED BY <1>1, CronInvariance, PTL

\* Neither search jumps over a minute the expression fires at, for every calendar
\* and every change of whole hours that no midnight lies in (nextAfter, lastBefore).
THEOREM NoSlotIsJumped == CronInit /\ [][CronNext]_cronVars => []NoSlotIsMissed
<1>1. CronInv => NoSlotIsMissed
  BY DEF CronInv
<1> QED BY <1>1, CronInvariance, PTL

\* A key that is left out matches every value, and the others theirs.
LEMMA AxisMatches ==
  ASSUME NEW full, full \subseteq Int, NEW set \in SUBSET full, NEW v \in full
  PROVE  (\E e \in Axis(set, full) : e \in {AnyValue, v}) <=> v \in set
<1>1. AnyValue \notin Int
  BY CronSizes
<1> QED BY <1>1 DEF Axis

\* The fields of a minute lie in their ranges.
LEMMA FieldsFit ==
  ASSUME change \in Changes, NEW m \in Int
  PROVE  /\ Minute(m) \in 0..(HourLen - 1) /\ Hour(m) \in 0..(DayLen - 1) /\ DayOfMonth(m) \in 1..MonthLen
         /\ Month(m) \in 1..Months /\ Weekday(m) \in 0..(WeekLen - 1)
<1>1. /\ HourLen \in Nat \ {0} /\ DayLen \in Nat \ {0} /\ MonthLen \in Nat \ {0}
      /\ Months \in Nat \ {0} /\ WeekLen \in Nat \ {0}
  BY CronSizes
<1>2. Local(m) \in Int /\ Day(m) \in Int /\ MonthIndex(m) \in Int /\ Local(m) \div HourLen \in Int
  BY <1>1, LocalType, DayOf, MonthOf, DivMul
<1>3. Minute(m) \in 0..(HourLen - 1)
  BY HourOf
<1>4. Hour(m) \in 0..(DayLen - 1)
  BY <1>1, <1>2, ModIs DEF Hour
<1>5. Weekday(m) \in 0..(WeekLen - 1)
  BY <1>1, <1>2, ModIs DEF Weekday
<1>6. Day(m) % MonthLen \in 0..(MonthLen - 1) /\ MonthIndex(m) % Months \in 0..(Months - 1)
  BY <1>1, <1>2, ModIs
<1>7. DayOfMonth(m) \in 1..MonthLen /\ Month(m) \in 1..Months
  BY <1>1, <1>6 DEF DayOfMonth, Month
<1> QED BY <1>3, <1>4, <1>5, <1>7

LEMMA IntervalsAgree == ASSUME CronInv PROVE LaunchdAgrees
<1> SUFFICES ASSUME Expressible, NEW m \in Clock PROVE LaunchdFires(m) <=> Fires(m)
  BY DEF LaunchdAgrees
<1>1. m \in Int /\ change \in Changes
  BY DEF CronInv, Clock
<1>2. /\ cron.minute \in SUBSET (0..(HourLen - 1)) /\ cron.hour \in SUBSET (0..(DayLen - 1))
      /\ cron.dom \in SUBSET (1..MonthLen) /\ cron.month \in SUBSET (1..Months)
      /\ cron.dow \in SUBSET (0..(WeekLen - 1))
  BY CronsFit DEF CronInv
<1> DEFINE mi == Axis(cron.minute, 0..(HourLen - 1))
           ho == Axis(cron.hour, 0..(DayLen - 1))
           da == Axis(cron.dom, 1..MonthLen)
           mo == Axis(cron.month, 1..Months)
           we == Axis(cron.dow, 0..(WeekLen - 1))
<1>3. /\ (\E e \in mi : e \in {AnyValue, Minute(m)}) <=> Minute(m) \in cron.minute
      /\ (\E e \in ho : e \in {AnyValue, Hour(m)}) <=> Hour(m) \in cron.hour
      /\ (\E e \in da : e \in {AnyValue, DayOfMonth(m)}) <=> DayOfMonth(m) \in cron.dom
      /\ (\E e \in mo : e \in {AnyValue, Month(m)}) <=> Month(m) \in cron.month
      /\ (\E e \in we : e \in {AnyValue, Weekday(m)}) <=> Weekday(m) \in cron.dow
  <2>0. 0..(HourLen - 1) \subseteq Int /\ 0..(DayLen - 1) \subseteq Int /\ 1..MonthLen \subseteq Int
        /\ 1..Months \subseteq Int /\ 0..(WeekLen - 1) \subseteq Int
    OBVIOUS
  <2>9. /\ Minute(m) \in 0..(HourLen - 1) /\ Hour(m) \in 0..(DayLen - 1) /\ DayOfMonth(m) \in 1..MonthLen
        /\ Month(m) \in 1..Months /\ Weekday(m) \in 0..(WeekLen - 1)
    BY <1>1, FieldsFit
  <2> HIDE DEF mi, ho, da, mo, we
  <2>1. (\E e \in mi : e \in {AnyValue, Minute(m)}) <=> Minute(m) \in cron.minute
    <3> DEFINE full == 0..(HourLen - 1)
    <3>1. full \subseteq Int /\ cron.minute \in SUBSET full /\ Minute(m) \in full /\ mi = Axis(cron.minute, full)
      BY <1>2, <2>0, <2>9 DEF mi
    <3> HIDE DEF full
    <3> QED BY <3>1, AxisMatches
  <2>2. (\E e \in ho : e \in {AnyValue, Hour(m)}) <=> Hour(m) \in cron.hour
    <3> DEFINE full == 0..(DayLen - 1)
    <3>1. full \subseteq Int /\ cron.hour \in SUBSET full /\ Hour(m) \in full /\ ho = Axis(cron.hour, full)
      BY <1>2, <2>0, <2>9 DEF ho
    <3> HIDE DEF full
    <3> QED BY <3>1, AxisMatches
  <2>3. (\E e \in da : e \in {AnyValue, DayOfMonth(m)}) <=> DayOfMonth(m) \in cron.dom
    <3> DEFINE full == 1..MonthLen
    <3>1. full \subseteq Int /\ cron.dom \in SUBSET full /\ DayOfMonth(m) \in full /\ da = Axis(cron.dom, full)
      BY <1>2, <2>0, <2>9 DEF da
    <3> HIDE DEF full
    <3> QED BY <3>1, AxisMatches
  <2>4. (\E e \in mo : e \in {AnyValue, Month(m)}) <=> Month(m) \in cron.month
    <3> DEFINE full == 1..Months
    <3>1. full \subseteq Int /\ cron.month \in SUBSET full /\ Month(m) \in full /\ mo = Axis(cron.month, full)
      BY <1>2, <2>0, <2>9 DEF mo
    <3> HIDE DEF full
    <3> QED BY <3>1, AxisMatches
  <2>5. (\E e \in we : e \in {AnyValue, Weekday(m)}) <=> Weekday(m) \in cron.dow
    <3> DEFINE full == 0..(WeekLen - 1)
    <3>1. full \subseteq Int /\ cron.dow \in SUBSET full /\ Weekday(m) \in full /\ we = Axis(cron.dow, full)
      BY <1>2, <2>0, <2>9 DEF we
    <3> HIDE DEF full
    <3> QED BY <3>1, AxisMatches
  <2> QED BY <2>1, <2>2, <2>3, <2>4, <2>5
<1>4. DayMatches(m) <=> DayOfMonth(m) \in cron.dom /\ Weekday(m) \in cron.dow
  BY DEF DayMatches, Expressible
<1>5. CalendarIntervals = [minute : mi, hour : ho, day : da, month : mo, weekday : we]
  BY DEF CalendarIntervals
<1> HIDE DEF mi, ho, da, mo, we
<1>6. ASSUME LaunchdFires(m) PROVE Fires(m)
  <2>1. PICK i \in CalendarIntervals :
          /\ i.minute \in {AnyValue, Minute(m)} /\ i.hour \in {AnyValue, Hour(m)} /\ i.month \in {AnyValue, Month(m)}
          /\ i.day \in {AnyValue, DayOfMonth(m)} /\ i.weekday \in {AnyValue, Weekday(m)}
    BY <1>6 DEF LaunchdFires
  <2>2. i.minute \in mi /\ i.hour \in ho /\ i.day \in da /\ i.month \in mo /\ i.weekday \in we
    BY <1>5
  <2> QED BY <1>3, <1>4, <2>1, <2>2 DEF Fires
<1>7. ASSUME Fires(m) PROVE LaunchdFires(m)
  <2>1. PICK e1 \in mi : e1 \in {AnyValue, Minute(m)}
    BY <1>3, <1>7 DEF Fires
  <2>2. PICK e2 \in ho : e2 \in {AnyValue, Hour(m)}
    BY <1>3, <1>7 DEF Fires
  <2>3. PICK e3 \in da : e3 \in {AnyValue, DayOfMonth(m)}
    BY <1>3, <1>4, <1>7 DEF Fires
  <2>4. PICK e4 \in mo : e4 \in {AnyValue, Month(m)}
    BY <1>3, <1>7 DEF Fires
  <2>5. PICK e5 \in we : e5 \in {AnyValue, Weekday(m)}
    BY <1>3, <1>4, <1>7 DEF Fires
  <2> DEFINE i == [minute |-> e1, hour |-> e2, day |-> e3, month |-> e4, weekday |-> e5]
  <2>6. i \in CalendarIntervals
    BY <1>5
  <2> QED BY <2>1, <2>2, <2>3, <2>4, <2>5, <2>6 DEF LaunchdFires
<1> QED BY <1>6, <1>7

\* launchd fires when cron does, for every expression that is installed
\* (toCalendarIntervals).
THEOREM IntervalsAreExact == CronInit /\ [][CronNext]_cronVars => []LaunchdAgrees
BY IntervalsAgree, CronInvariance, PTL

-----------------------------------------------------------------------------
(* The bundle.  A behaviour of it is one of each component, which either    *)
(* works or rests.                                                          *)
LEMMA GateRuns == MCSpec => Spec
<1>1. MCInit => Init
  BY DEF MCInit
<1>2. [MCNext]_mcVars => [Next]_vars
  BY DEF MCNext, mcVars
<1> QED BY <1>1, <1>2, PTL DEF MCSpec, Spec

LEMMA ClockRuns == MCSpec => ClockSpec
<1>1. MCInit => ClockInit
  BY DEF MCInit
<1>2. [MCNext]_mcVars => [ClockNext]_clockVars
  BY DEF MCNext, mcVars
<1> QED BY <1>1, <1>2, PTL DEF MCSpec, ClockSpec

LEMMA GraphRuns == MCSpec => GraphInit /\ [][GraphNext]_graphVars
<1>1. MCInit => GraphInit
  BY DEF MCInit
<1>2. [MCNext]_mcVars => [GraphNext]_graphVars
  BY DEF MCNext, mcVars
<1> QED BY <1>1, <1>2, PTL DEF MCSpec

LEMMA CronRuns == MCSpec => CronInit /\ [][CronNext]_cronVars
<1>1. MCInit => CronInit
  BY DEF MCInit
<1>2. [MCNext]_mcVars => [CronNext]_cronVars
  BY DEF MCNext, mcVars
<1> QED BY <1>1, <1>2, PTL DEF MCSpec

\* Every variable of the component at work keeps its type.
THEOREM PolledTypeCorrect == MCSpec => []TypesOK
<1>1. TypeOK /\ ClockTypeOK /\ GraphTypeOK /\ CronTypeOK => TypesOK
  BY DEF TypesOK
<1> QED BY <1>1, GateRuns, ClockRuns, GraphRuns, CronRuns,
           GateTypeCorrect, ClockTypeCorrect, GraphTypeCorrect, CronTypeCorrect, PTL

\* What the run checks of all four but what must happen in the end: no two git
\* commands meet, no fetch is early and few follow the last look, nothing stale is
\* cached or run twice, and no minute of a routine is missed.
THEOREM PolledIsSafe ==
  MCSpec => /\ []GitIsExclusive
            /\ NeverEarly /\ []FewAfterClose
            /\ [](EntriesAreCurrent /\ OneRunPerRoot /\ SlotsAreKept)
            /\ []NoSlotIsMissed /\ []LaunchdAgrees
BY GateRuns, ClockRuns, GraphRuns, CronRuns, GitNeverMeets, TheTimerIsNeverEarly, FewFetchesFollow, GraphIsKept,
   NoSlotIsJumped, IntervalsAreExact, PTL
=============================================================================
