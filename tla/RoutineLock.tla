---------------------------- MODULE RoutineLock -----------------------------
(***************************************************************************)
(* One job's lock and the processes that take it: the run wrappers         *)
(* (plugin/lib/run-routine.mjs), fired by the OS or by Run now, and the    *)
(* server's sweep of stale locks (server/lib/routine-store.ts).  They      *)
(* share no memory, only files, and each may be killed at any point, so    *)
(* every system call that reads or changes the lock file is a step.  A     *)
(* lock's text is abstracted to the process that wrote it (pid and boot    *)
(* id); Left is the text of a process that is gone, of another boot, or    *)
(* torn.  The temporary and the aside file are named by pid, so only their *)
(* owner sees them.                                                        *)
(***************************************************************************)
EXTENDS Naturals, FiniteSets

CONSTANTS Wrappers, Sweeper, NoText, Left, MaxAttempts, PsFails

ASSUME LockNamesAssumption ==
  /\ Sweeper \notin Wrappers /\ Left \notin Wrappers /\ NoText \notin Wrappers
  /\ Left # NoText
ASSUME LockBoundsAssumption == MaxAttempts \in Nat \ {0} /\ PsFails \in BOOLEAN

VARIABLES
  lock,     \* the text of locks/<job>.lock, NoText when there is no such file
  wpc,      \* where each wrapper and the sweeper stand
  attempts, \* takeover attempts a wrapper has used up
  judged,   \* the text a process read and found stale
  aside,    \* the text a process renamed aside
  records,  \* <<wrapper, kind>>: the run log
  moved     \* history: some process renamed the lock of a live wrapper aside

lockVars == <<lock, wpc, attempts, judged, aside, records, moved>>

LockProcs == Wrappers \cup {Sweeper}
Texts == Wrappers \cup {Left, NoText}
GonePhases == {"off", "crashed", "exited", "refused"}
RunPhases == {"locked", "running", "ended"}
Phases == GonePhases \cup RunPhases \cup
          {"link", "read", "rename", "check", "last", "unlock", "unlink", "exiting"}
RecordKinds == {"start", "ok", "failed", "stopped", "refused"}

LockTypeOK ==
  /\ lock \in Texts
  /\ wpc \in [LockProcs -> Phases]
  /\ attempts \in [Wrappers -> 0..MaxAttempts]
  /\ judged \in [LockProcs -> Texts] /\ aside \in [LockProcs -> Texts]
  /\ records \subseteq Wrappers \X RecordKinds
  /\ moved \in BOOLEAN

LockInit ==
  /\ lock \in {NoText, Left}
  /\ wpc = [p \in LockProcs |-> "off"]
  /\ attempts = [w \in Wrappers |-> 0]
  /\ judged = [p \in LockProcs |-> NoText] /\ aside = [p \in LockProcs |-> NoText]
  /\ records = {} /\ moved = FALSE

-----------------------------------------------------------------------------
Alive(t) == t \in Wrappers /\ wpc[t] \notin GonePhases
Goto(p, phase) == wpc' = [wpc EXCEPT ![p] = phase]
Logs(w, kind) == records' = records \cup {<<w, kind>>}
LockFiles == <<lock, judged, aside>>

\* A text may be judged stale when its process is gone; the wrapper's own test
\* also answers "gone" when `ps` cannot be run, the sweeper's never does.
MayJudgeStale(p, t) == ~Alive(t) \/ (PsFails /\ p \in Wrappers)

\* The next attempt of a wrapper's takeover; the sweeper has only one.  Mutants:
\* the loop runs once; it runs once too often.
NextAttemptNever(p) ==
  IF p = Sweeper THEN Goto(p, "exited") /\ UNCHANGED attempts
  ELSE attempts' = [attempts EXCEPT ![p] = @ + 1] /\ Goto(p, "last")
NextAttemptOver(p) ==
  IF p = Sweeper THEN Goto(p, "exited") /\ UNCHANGED attempts
  ELSE /\ attempts' = [attempts EXCEPT ![p] = @ + 1]
       /\ Goto(p, IF attempts[p] < MaxAttempts THEN "link" ELSE "last")
NextAttempt(p) ==
  IF p = Sweeper THEN Goto(p, "exited") /\ UNCHANGED attempts
  ELSE /\ attempts' = [attempts EXCEPT ![p] = @ + 1]
       /\ Goto(p, IF attempts[p] + 1 < MaxAttempts THEN "link" ELSE "last")

-----------------------------------------------------------------------------
(* A process starts.  A wrapper loads the job file first; one that is gone, *)
(* invalid, paused or for another machine is refused before any lock.       *)
Fire(w) ==
  /\ wpc[w] = "off" /\ Goto(w, "link")
  /\ UNCHANGED <<LockFiles, attempts, records, moved>>

FireRefused(w) ==
  /\ wpc[w] = "off" /\ Logs(w, "refused") /\ Goto(w, "exited")
  /\ UNCHANGED <<LockFiles, attempts, moved>>

StartSweep ==
  /\ wpc[Sweeper] = "off" /\ Goto(Sweeper, "read")
  /\ UNCHANGED <<LockFiles, attempts, records, moved>>

-----------------------------------------------------------------------------
(* Taking the lock.                                                         *)
Link(w) ==
  /\ wpc[w] = "link"
  /\ IF lock = NoText THEN lock' = w /\ Goto(w, "locked")
                      ELSE Goto(w, "read") /\ UNCHANGED lock
  /\ UNCHANGED <<attempts, judged, aside, records, moved>>

ReadNothing(p) ==
  /\ wpc[p] = "read" /\ lock = NoText /\ NextAttempt(p)
  /\ UNCHANGED <<LockFiles, records, moved>>

ReadLive(p) ==
  /\ wpc[p] = "read" /\ Alive(lock)
  /\ Goto(p, IF p = Sweeper THEN "exited" ELSE "refused")
  /\ IF p = Sweeper THEN UNCHANGED records ELSE Logs(p, "refused")
  /\ UNCHANGED <<LockFiles, attempts, moved>>

ReadStale(p) ==
  /\ wpc[p] = "read" /\ lock # NoText /\ MayJudgeStale(p, lock)
  /\ judged' = [judged EXCEPT ![p] = lock] /\ Goto(p, "rename")
  /\ UNCHANGED <<lock, aside, attempts, records, moved>>

RenameAside(p) ==
  /\ wpc[p] = "rename" /\ lock # NoText
  /\ aside' = [aside EXCEPT ![p] = lock] /\ lock' = NoText
  /\ moved' = (moved \/ Alive(lock))
  /\ Goto(p, "check")
  /\ UNCHANGED <<judged, attempts, records>>

RenameNothing(p) ==
  /\ wpc[p] = "rename" /\ lock = NoText /\ NextAttempt(p)
  /\ UNCHANGED <<LockFiles, records, moved>>

\* The aside file is compared with the text that was judged, linked back when
\* another process had replaced it, and unlinked.  The link fails on a lock
\* somebody took meanwhile, which is ignored.  Mutant: the lock is unlinked instead.
CheckLock(p) ==
  /\ wpc[p] = "check" /\ lock' = NoText
  /\ aside' = [aside EXCEPT ![p] = NoText]
  /\ NextAttempt(p)
  /\ UNCHANGED <<judged, records, moved>>
CheckAside(p) ==
  /\ wpc[p] = "check"
  /\ lock' = IF aside[p] # judged[p] /\ lock = NoText THEN aside[p] ELSE lock
  /\ aside' = [aside EXCEPT ![p] = NoText]
  /\ NextAttempt(p)
  /\ UNCHANGED <<judged, records, moved>>

\* Every attempt was lost: the wrapper answers whatever pid the lock names.
GiveUp(w) ==
  /\ wpc[w] = "last" /\ Goto(w, "refused") /\ Logs(w, "refused")
  /\ UNCHANGED <<LockFiles, attempts, moved>>

-----------------------------------------------------------------------------
(* The run, and letting go: `end` is appended before the lock is read and  *)
(* unlinked, and a lock that names somebody else is left alone.             *)
Begin(w) ==
  /\ wpc[w] = "locked" /\ Logs(w, "start") /\ Goto(w, "running")
  /\ UNCHANGED <<LockFiles, attempts, moved>>

FinishRun(w, kind) ==
  /\ wpc[w] = "running" /\ kind \in {"ok", "failed", "stopped"}
  /\ Logs(w, kind) /\ Goto(w, "ended")
  /\ UNCHANGED <<LockFiles, attempts, moved>>

\* An error thrown mid-run appends no `end` and still releases the lock.
Throw(w) ==
  /\ wpc[w] \in {"locked", "running"} /\ Goto(w, "unlock")
  /\ UNCHANGED <<LockFiles, attempts, records, moved>>

ReadOwn(w) ==
  /\ wpc[w] \in {"ended", "unlock"}
  /\ Goto(w, IF lock = w THEN "unlink" ELSE "exiting")
  /\ UNCHANGED <<LockFiles, attempts, records, moved>>

Unlink(w) ==
  /\ wpc[w] = "unlink" /\ lock' = NoText /\ Goto(w, "exiting")
  /\ UNCHANGED <<attempts, judged, aside, records, moved>>

LeaveLock(w) ==
  /\ wpc[w] = "exiting" /\ Goto(w, "exited")
  /\ UNCHANGED <<LockFiles, attempts, records, moved>>

KillProc(p) ==
  /\ wpc[p] \notin GonePhases /\ Goto(p, "crashed")
  /\ UNCHANGED <<LockFiles, attempts, records, moved>>

WrapperStep(w) ==
  \/ Link(w) \/ GiveUp(w) \/ Begin(w) \/ ReadOwn(w) \/ Unlink(w) \/ LeaveLock(w)
  \/ Throw(w) \/ \E kind \in {"ok", "failed", "stopped"} : FinishRun(w, kind)

TakeoverStep(p) ==
  \/ ReadNothing(p) \/ ReadLive(p) \/ ReadStale(p)
  \/ RenameAside(p) \/ RenameNothing(p) \/ CheckAside(p)

LockNext ==
  \/ \E w \in Wrappers : Fire(w) \/ FireRefused(w) \/ WrapperStep(w)
  \/ \E p \in LockProcs : TakeoverStep(p) \/ KillProc(p)
  \/ StartSweep

\* A process that was started keeps running unless it is killed.
LockFairness ==
  /\ \A w \in Wrappers : WF_lockVars(WrapperStep(w))
  /\ \A p \in LockProcs : WF_lockVars(TakeoverStep(p))

LockSpec == LockInit /\ [][LockNext]_lockVars /\ LockFairness

-----------------------------------------------------------------------------
(* Between taking the lock and reading it to let go, a wrapper runs the     *)
(* job; the text it holds is its own unless it was moved.                   *)
LockHolders == {w \in Wrappers : wpc[w] \in RunPhases \cup {"unlock", "unlink"}}

\* Whoever runs the job is named by the lock, so there is one of them, it unlinks
\* its own lock, and Stop, Run now and the reconcile find it (routine-run.ts:38,
\* 109, 145) -- unless some process renamed a live wrapper's lock aside: the
\* takeover's link-back (run-routine.mjs:186) came too late, or `ps` failed.
\* Crashes, stale locks and the sweep alone never do it.
RunnerIsNamed == moved \/ \A w \in LockHolders : lock = w

\* The docs' promise (docs/subsystems/routines.md:184-186): only a lock that is
\* not a live wrapper's is taken over, so no job runs twice at a time.
OneRunAtATime == Cardinality(LockHolders) <= 1

\* A stale lock never wedges the job: a wrapper fired when every other process
\* is gone, and not killed, gets the lock.
StaleIsTakenOver ==
  \A w \in Wrappers :
    (wpc[w] = "link" /\ attempts[w] = 0 /\ \A p \in LockProcs \ {w} : wpc[p] \in {"crashed", "exited", "refused"})
      ~> wpc[w] \in {"locked", "crashed"}
=============================================================================
