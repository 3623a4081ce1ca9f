---------------------------- MODULE RoutineSteps ----------------------------
(***************************************************************************)
(* The steps of one run (plugin/lib/run-routine.mjs runLocked, spawnStep,  *)
(* stop): each step's child leads a process group of its own, and the      *)
(* wrapper learns of it by events that come in any order: the leader's     *)
(* 'exit', the 'close' of the pipes a background process may hold, the     *)
(* step's timeout, a signal to the wrapper, and the poll and the kill      *)
(* timer that follow an end the wrapper asked for.                         *)
(***************************************************************************)
EXTENDS Naturals

CONSTANTS MaxSteps
ASSUME MaxStepsAssumption == MaxSteps \in Nat

VARIABLES
  total,    \* how many steps the plan has
  at,       \* steps begun
  stage,    \* between, child (a step's child runs), over
  counts,   \* the tallies of the `end` record
  stopping, \* a signal came
  leader,   \* none, alive, exited or signalled
  others,   \* none, quiet (off the pipes) or piped: the rest of the group
  heard,    \* none, exit or second (a second later): what of the leader's end
  noted,    \* `leader` is set: the exit is settled
  outcome,  \* none, timeout or stopped
  grace,    \* off, armed or over: the kill timer and the deadline
  groupSignal \* the strongest signal the group got: none, TERM or KILL

childVars == <<leader, others, heard, noted, outcome, grace, groupSignal>>
stepVars == <<total, at, stage, counts, stopping, childVars>>

StepTypeOK ==
  /\ total \in 0..MaxSteps /\ at \in 0..MaxSteps
  /\ stage \in {"between", "child", "over"}
  /\ counts \in [{"ok", "failed", "skipped"} -> 0..MaxSteps]
  /\ stopping \in BOOLEAN
  /\ leader \in {"none", "alive", "exited", "signalled"}
  /\ others \in {"none", "quiet", "piped"}
  /\ heard \in {"none", "exit", "second"}
  /\ noted \in BOOLEAN
  /\ outcome \in {"none", "timeout", "stopped"}
  /\ grace \in {"off", "armed", "over"}
  /\ groupSignal \in {"none", "TERM", "KILL"}

StepInit ==
  /\ total \in 0..MaxSteps /\ at = 0 /\ stage = "between"
  /\ counts = [k \in {"ok", "failed", "skipped"} |-> 0]
  /\ stopping = FALSE
  /\ leader = "none" /\ others = "none" /\ heard = "none" /\ noted = FALSE
  /\ outcome = "none" /\ grace = "off" /\ groupSignal = "none"

-----------------------------------------------------------------------------
Tally(k) == counts' = [counts EXCEPT ![k] = @ + 1]

\* The loop of runLocked.  Mutant: it does not look at the signal.
LoopsOn == at < total
Loops == at < total /\ ~stopping

\* The pin is missing, or the cwd is.  Mutant: such a step is not tallied.
NothingSpawnedUntold(k) ==
  /\ stage = "between" /\ Loops /\ k \in {"skipped", "failed"}
  /\ at' = at + 1
  /\ UNCHANGED <<total, stage, counts, stopping, childVars>>
NothingSpawned(k) ==
  /\ stage = "between" /\ Loops /\ k \in {"skipped", "failed"}
  /\ at' = at + 1 /\ Tally(k)
  /\ UNCHANGED <<total, stage, stopping, childVars>>

SpawnStep ==
  /\ stage = "between" /\ Loops
  /\ at' = at + 1 /\ stage' = "child"
  /\ leader' = "alive" /\ others' \in {"none", "quiet", "piped"}
  /\ heard' = "none" /\ noted' = FALSE /\ outcome' = "none"
  /\ grace' = "off" /\ groupSignal' = "none"
  /\ UNCHANGED <<total, counts, stopping>>

FinishLoop ==
  /\ stage = "between" /\ ~Loops /\ stage' = "over"
  /\ UNCHANGED <<total, at, counts, stopping, childVars>>

\* The step resolves: its outcome is tallied and the timers are cleared.
Resolves(k) ==
  /\ stage' = "between" /\ Tally(k)
  /\ UNCHANGED <<total, at, stopping, heard, outcome>>

KillGroup == groupSignal' = "KILL"

-----------------------------------------------------------------------------
(* What the processes do.  A signal may be trapped; SIGKILL is not.         *)
LeaderEnds(how) ==
  /\ leader = "alive" /\ how \in {"exited", "signalled"}
  /\ leader' = how
  /\ UNCHANGED <<total, at, stage, counts, stopping, others, heard, noted, outcome, grace, groupSignal>>

OthersEnd ==
  /\ others # "none" /\ others' = "none"
  /\ UNCHANGED <<total, at, stage, counts, stopping, leader, heard, noted, outcome, grace, groupSignal>>

-----------------------------------------------------------------------------
(* What the wrapper hears.  settle() notes the end once; without an outcome *)
(* the step resolves, with one the group is polled.                         *)
LeaderGone == leader \in {"exited", "signalled"}
GroupAlive == ~LeaderGone \/ others # "none"

OnExit ==
  /\ stage = "child" /\ LeaderGone /\ heard = "none"
  /\ heard' = "exit" /\ noted' = (noted \/ outcome # "none")
  /\ UNCHANGED <<total, at, stage, counts, stopping, leader, others, outcome, grace, groupSignal>>

Second ==
  /\ stage = "child" /\ heard = "exit"
  /\ heard' = "second"
  /\ UNCHANGED <<total, at, stage, counts, stopping, leader, others, noted, outcome, grace, groupSignal>>

\* 'close' waits for every holder of the pipes; the second of patience after
\* an 'exit' does not.
SettledNow ==
  stage = "child" /\ ~noted /\ (heard = "second" \/ (heard # "none" /\ others # "piped"))

Settle(k) ==
  /\ SettledNow /\ outcome = "none" /\ k \in {"ok", "failed"}
  /\ noted' = TRUE /\ grace' = "off" /\ Resolves(k)
  /\ UNCHANGED <<leader, others, groupSignal>>

SettleEnded ==
  /\ SettledNow /\ outcome # "none" /\ noted' = TRUE
  /\ UNCHANGED <<total, at, stage, counts, stopping, leader, others, heard, outcome, grace, groupSignal>>

\* Mutant: the step resolves as soon as its leader is gone.
MayResolveEarly == TRUE
MayResolve == ~GroupAlive

PollGone ==
  /\ stage = "child" /\ noted /\ outcome # "none" /\ MayResolve
  /\ grace' = "off" /\ Resolves("failed")
  /\ UNCHANGED <<leader, others, noted, groupSignal>>

PollLate ==
  /\ stage = "child" /\ noted /\ outcome # "none" /\ GroupAlive /\ grace = "over"
  /\ KillGroup /\ others' = "none" /\ grace' = "off" /\ Resolves("failed")
  /\ UNCHANGED <<leader, noted>>

-----------------------------------------------------------------------------
(* Ending a step: its timeout, or a signal to the wrapper.  A leader that    *)
(* exited with a code keeps its result; `exitCode` is null after a signal.   *)
(* Mutant: it is ended whatever it returned.                                *)
MayEndExited == stage = "child" /\ outcome = "none" /\ ~noted
MayEnd ==
  /\ stage = "child" /\ outcome = "none" /\ ~noted
  /\ heard = "none" \/ leader = "signalled"

EndStep(why) ==
  /\ MayEnd
  /\ outcome' = why /\ grace' = "armed" /\ groupSignal' = "TERM"

Timeout ==
  /\ EndStep("timeout")
  /\ UNCHANGED <<total, at, stage, counts, stopping, leader, others, heard, noted>>

StopSignal ==
  /\ stage # "over" /\ ~stopping /\ stopping' = TRUE
  /\ IF MayEnd THEN EndStep("stopped") ELSE UNCHANGED <<outcome, grace, groupSignal>>
  /\ UNCHANGED <<total, at, stage, counts, leader, others, heard, noted>>

\* Mutant: the timer is not set.
GraceNever == FALSE
GraceRuns == grace = "armed"

\* KILL_GRACE_MS after the end; the deadline of the poll passes with it.
KillTimer ==
  /\ stage = "child" /\ GraceRuns
  /\ grace' = "over" /\ KillGroup /\ others' = "none"
  /\ leader' = IF leader = "alive" THEN "signalled" ELSE leader
  /\ UNCHANGED <<total, at, stage, counts, stopping, heard, noted, outcome>>

WrapperHears ==
  \/ OnExit \/ Second \/ SettleEnded \/ PollGone \/ PollLate \/ KillTimer
  \/ \E k \in {"ok", "failed"} : Settle(k)

LoopStep == SpawnStep \/ FinishLoop \/ \E k \in {"skipped", "failed"} : NothingSpawned(k)

StepNext ==
  \/ LoopStep
  \/ \E how \in {"exited", "signalled"} : LeaderEnds(how)
  \/ OthersEnd \/ WrapperHears \/ Timeout \/ StopSignal

\* The loop goes on, events arrive and timers run; nothing makes a child end
\* but SIGKILL.
StepFairness == WF_stepVars(LoopStep) /\ WF_stepVars(WrapperHears) /\ WF_stepVars(Timeout)

StepSpec == StepInit /\ [][StepNext]_stepVars /\ StepFairness

-----------------------------------------------------------------------------
(* A step the wrapper ended resolves only when its whole group is gone, or  *)
(* was killed: a member that traps TERM outlives its leader, and only then  *)
(* may the lock go (run-routine.mjs:342).                                   *)
LockOutlivesGroup ==
  (stage # "child" /\ outcome # "none") => ~GroupAlive \/ groupSignal = "KILL"

(* A leader that exited on its own with a code keeps its result: no timeout *)
(* and no stop that comes while its pipes are awaited replaces it.          *)
ExitKeepsResult ==
  [][outcome = "none" /\ outcome' # "none" /\ heard # "none" => leader = "signalled"]_stepVars

(* After a signal no further step begins.                                   *)
StopBeginsNothing == [][stopping => at' = at]_stepVars

(* Every step begun is tallied exactly once in the `end` record, whichever  *)
(* of its exit, close, timeout, stop and kill came first.                   *)
EveryStepTallied ==
  counts["ok"] + counts["failed"] + counts["skipped"] = IF stage = "child" THEN at - 1 ELSE at

(* Every run that began a step ends, by its timeouts if need be, whatever its children trap   *)
(* and whatever pipes they hold.                                            *)
EveryRunEnds == (stage = "child") ~> (stage = "over")

(* A run tells all its steps, and leaves no process behind.                 *)
RunsEndClean ==
  [](LockOutlivesGroup /\ EveryStepTallied) /\ ExitKeepsResult /\ StopBeginsNothing
=============================================================================
