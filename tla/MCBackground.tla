---------------------------- MODULE MCBackground ----------------------------
(***************************************************************************)
(* One run for what works, or is recorded, with no page open: the          *)
(* routines, the git-sync skill, which deletes, the ledger of spend and    *)
(* the profile learned from the usage readings. The parts of the routines  *)
(* meet only in files, which each module models on its side (RoutineLock   *)
(* the lock, LogReader and RoutinePush the run log, Reconcile the lock and *)
(* the job file as launchd's world sees them). They share no variable: a   *)
(* behaviour of the run is one of one component and the others rest.       *)
(***************************************************************************)
EXTENDS RoutineLock, RoutinePush, RoutineSteps, Reconcile, LogReader, SyncRun, SpendLedger, UsageProfile

VARIABLE part   \* the component this behaviour is of

(* A job runs under a lock that names its runner, and each of its runs is told *)
(* whole and leaves nothing behind (run-routine.mjs, the lock and runLocked).  *)
WrapperIsOrderly == []RunnerIsNamed /\ RunsEndClean

(* No stale lock wedges a job, no run goes on for ever, and no failure that a  *)
(* start, the watch or a page is told of stays unseen (run-routine.mjs, the    *)
(* takeover and the timeouts; routine-notify.ts).                              *)
RoutinesGoOn == StaleIsTakenOver /\ EveryRunEnds /\ FailureIsSighted

(* What is read piece by piece while it is appended to comes out whole, and once *)
(* (routine-log.ts, the incremental fold; usage-ledger.ts, the ticks).          *)
ReadersAreExact == FoldIsWholeLog /\ LedgerIsExact

mcVars == <<part, lockVars, pushVars, stepVars, recVars, readerVars, syncVars, spendVars, profileVars>>

\* A component that is not at work rests in one of its initial states.
MCInit ==
  /\ part \in {"lock", "push", "steps", "reconcile", "reader", "sync", "spend", "profile"}
  /\ LockInit /\ (part = "lock" \/ lock = NoText)
  /\ PushInit /\ (part = "push" \/ policy)
  /\ StepInit /\ (part = "steps" \/ total = 0)
  /\ ReconcileInit /\ (part = "reconcile" \/ want = Nothing)
  /\ ReaderInit
  /\ SyncInit /\ (part = "sync" \/ (head = "trunk" /\ ~prOnly /\ origin["feat"] = NoRef))
  /\ LedgerInit
  /\ ProfileInit

MCNext ==
  \/ /\ part = "lock" /\ LockNext
     /\ UNCHANGED <<part, pushVars, stepVars, recVars, readerVars, syncVars, spendVars, profileVars>>
  \/ /\ part = "push" /\ PushNext
     /\ UNCHANGED <<part, lockVars, stepVars, recVars, readerVars, syncVars, spendVars, profileVars>>
  \/ /\ part = "steps" /\ StepNext
     /\ UNCHANGED <<part, lockVars, pushVars, recVars, readerVars, syncVars, spendVars, profileVars>>
  \/ /\ part = "reconcile" /\ ReconcileNext
     /\ UNCHANGED <<part, lockVars, pushVars, stepVars, readerVars, syncVars, spendVars, profileVars>>
  \/ /\ part = "reader" /\ ReaderNext
     /\ UNCHANGED <<part, lockVars, pushVars, stepVars, recVars, syncVars, spendVars, profileVars>>
  \/ /\ part = "sync" /\ SyncNext
     /\ UNCHANGED <<part, lockVars, pushVars, stepVars, recVars, readerVars, spendVars, profileVars>>
  \/ /\ part = "spend" /\ LedgerNext
     /\ UNCHANGED <<part, lockVars, pushVars, stepVars, recVars, readerVars, syncVars, profileVars>>
  \/ /\ part = "profile" /\ ProfileNext
     /\ UNCHANGED <<part, lockVars, pushVars, stepVars, recVars, readerVars, syncVars, spendVars>>

\* Each component's own fairness.
MCFairness ==
  /\ \A w \in Wrappers : WF_lockVars(part = "lock" /\ WrapperStep(w))
  /\ \A p \in LockProcs : WF_lockVars(part = "lock" /\ TakeoverStep(p))
  /\ WF_pushVars(part = "push" /\ Folding)
  /\ WF_pushVars(part = "push" /\ WatchTold)
  /\ WF_pushVars(part = "push" /\ Polled)
  /\ WF_stepVars(part = "steps" /\ LoopStep)
  /\ WF_stepVars(part = "steps" /\ WrapperHears)
  /\ WF_stepVars(part = "steps" /\ Timeout)

MCSpec == MCInit /\ [][MCNext]_mcVars /\ MCFairness

\* The variables of the component at work stay in their types; the others rest
\* where it started in other behaviours.
TypesOK ==
  /\ part = "lock" => LockTypeOK
  /\ part = "push" => PushTypeOK
  /\ part = "steps" => StepTypeOK
  /\ part = "reconcile" => ReconcileTypeOK
  /\ part = "reader" => ReaderTypeOK
  /\ part = "sync" => SyncTypeOK
  /\ part = "spend" => LedgerTypeOK
  /\ part = "profile" => ProfileTypeOK
=============================================================================
