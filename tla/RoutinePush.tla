----------------------------- MODULE RoutinePush ----------------------------
(***************************************************************************)
(* The owning server's fold of the run log into at most one push a run     *)
(* (routine-log.ts build and pushableEvents, routine-notify.ts,            *)
(* routine-boot.ts).  The wrappers are other processes: one may append its *)
(* `end` and exit between the fold's read of the log and its look at the   *)
(* wrapper's pid.  The fold runs on the start, on a change of runs/ while  *)
(* that is watched and on an open page's polls.  Every event is within the *)
(* push horizon; of the clock the model keeps the age rule (aged) and      *)
(* SEED_AGE_MS (old).                                                      *)
(***************************************************************************)
EXTENDS Naturals, FiniteSets

CONSTANTS Runs

VARIABLES
  wrapperOf,     \* each run's wrapper: none, alive or gone
  runLog,   \* what its records say
  aged,     \* runs past their timeout and the grace
  old,      \* runs that started over a day ago
  fold,     \* what the last read of the log found
  underRead,  \* that read is not yet judged
  booting,  \* the server has not folded since it started
  runsWatch,  \* the watch of runs/: "off", "due" right after the start's fold, "armed"
  event,    \* the watch saw a change, its debounce timer runs
  page,     \* a page of the routines is open and polls
  sighted,  \* the ledger in memory
  hasFile,  \* notified.json exists
  onFile,   \* the ids in it
  policy,   \* topic, switch and checkbox let a push out
  pushes,   \* how often each run was pushed, up to twice
  declined, \* history: runs sighted and not pushed
  unsaved,  \* history: a write of notified.json failed
  unheard   \* history: runs whose last record no watch told of, not read since

procVars == <<wrapperOf, runLog, aged, old>>
wakeVars == <<runsWatch, event, page, unheard>>
ledgerVars == <<sighted, hasFile, onFile, pushes, declined, unsaved>>
pushVars == <<procVars, fold, underRead, booting, wakeVars, ledgerVars, policy>>

Endings == {"ok", "failed", "stopped"}
Logged == {"none", "start", "refused"} \cup Endings

PushTypeOK ==
  /\ wrapperOf \in [Runs -> {"none", "alive", "gone"}]
  /\ runLog \in [Runs -> Logged] /\ fold \in [Runs -> Logged]
  /\ aged \subseteq Runs /\ old \subseteq Runs
  /\ underRead \in BOOLEAN /\ booting \in BOOLEAN
  /\ sighted \subseteq Runs /\ onFile \subseteq Runs /\ hasFile \in BOOLEAN
  /\ runsWatch \in {"off", "due", "armed"} /\ event \in BOOLEAN /\ page \in BOOLEAN /\ unheard \subseteq Runs
  /\ policy \in BOOLEAN
  /\ pushes \in [Runs -> 0..2]
  /\ declined \subseteq Runs /\ unsaved \in BOOLEAN
  \* The file never knows more than the memory that writes it.
  /\ onFile \subseteq sighted /\ (onFile # {} => hasFile)

PushInit ==
  /\ wrapperOf = [r \in Runs |-> "none"] /\ runLog = [r \in Runs |-> "none"]
  /\ aged = {} /\ old = {}
  /\ fold = [r \in Runs |-> "none"] /\ underRead = FALSE /\ booting = TRUE
  /\ runsWatch = "off" /\ event = FALSE /\ page = FALSE /\ unheard = {}
  /\ sighted = {} /\ hasFile = FALSE /\ onFile = {} /\ policy \in BOOLEAN
  /\ pushes = [r \in Runs |-> 0] /\ declined = {} /\ unsaved = FALSE

-----------------------------------------------------------------------------
(* The wrappers.  A record appended is an event of the watch, if it is armed. *)
Appended(r) ==
  /\ event' = (event \/ runsWatch = "armed")
  /\ unheard' = IF runsWatch = "armed" THEN unheard \ {r} ELSE unheard \cup {r}
  /\ UNCHANGED <<runsWatch, page>>

RunStarts(r) ==
  /\ wrapperOf[r] = "none" /\ runLog[r] = "none"
  /\ wrapperOf' = [wrapperOf EXCEPT ![r] = "alive"]
  /\ runLog' = [runLog EXCEPT ![r] = "start"] /\ Appended(r)
  /\ UNCHANGED <<aged, old, fold, underRead, booting, ledgerVars, policy>>

RunRefused(r) ==
  /\ runLog[r] = "none"
  /\ runLog' = [runLog EXCEPT ![r] = "refused"] /\ Appended(r)
  /\ UNCHANGED <<wrapperOf, aged, old, fold, underRead, booting, ledgerVars, policy>>

RunEnds(r, how) ==
  /\ wrapperOf[r] = "alive" /\ runLog[r] = "start" /\ how \in Endings
  /\ runLog' = [runLog EXCEPT ![r] = how] /\ Appended(r)
  /\ UNCHANGED <<wrapperOf, aged, old, fold, underRead, booting, ledgerVars, policy>>

\* The wrapper exits after its `end`, or is killed before.
RunGone(r) ==
  /\ wrapperOf[r] = "alive"
  /\ wrapperOf' = [wrapperOf EXCEPT ![r] = "gone"]
  /\ UNCHANGED <<runLog, aged, old, fold, underRead, booting, wakeVars, ledgerVars, policy>>

TimePasses(r) ==
  /\ runLog[r] # "none" /\ r \notin aged \cap old
  /\ aged' = aged \cup {r}
  /\ old' = IF r \in aged THEN old \cup {r} ELSE old
  /\ UNCHANGED <<wrapperOf, runLog, fold, underRead, booting, wakeVars, ledgerVars, policy>>

-----------------------------------------------------------------------------
(* The owner.                                                               *)

\* read() syncs the fold with the log.
SyncNotify ==
  /\ ~underRead /\ underRead' = TRUE /\ fold' = runLog /\ unheard' = {}
  /\ UNCHANGED <<procVars, booting, runsWatch, page, ledgerVars, policy>>

\* Its three callers; the start's runs through to the watch's call.
BootRead == booting /\ SyncNotify /\ UNCHANGED event
Polled == ~booting /\ runsWatch # "due" /\ page /\ SyncNotify /\ UNCHANGED event

\* The timer fires: a change from here on sets the next.
WatchTold == event /\ ~booting /\ runsWatch # "due" /\ SyncNotify /\ event' = FALSE

\* Mutant: the fold that ends takes a change that came amid it as told.
ToldByThis == FALSE
AfterFold == event

\* build: a start without an end is lost when its wrapper is gone, or when `ps`
\* could not answer (blind) and it is past its time.  Mutant: then it is.
VanishedUnchecked(blind) == {r \in Runs : fold[r] = "start" /\ (wrapperOf[r] = "gone" \/ r \in blind)}
Vanished(blind) ==
  {r \in Runs : fold[r] = "start" /\ (wrapperOf[r] = "gone" \/ r \in blind \cap aged)}

\* pushableEvents.  A stopped run counts as failed, and is only marked.
Pushable(blind) == Vanished(blind) \cup {r \in Runs : fold[r] \in {"failed", "stopped", "refused"}}

\* seedRoutineNotify, on a start that finds no notified.json.  Mutant: on none.
SeedNone(due) == {}
Seed(due) == IF booting /\ ~hasFile THEN due \cap old ELSE {}

\* notifyRoutineRuns: seen is marked whatever the policy says.  Mutant: a run
\* the policy declined is not marked.
MarkedWhenSent(due, sent) == sent
Marked(due, sent) == due

Judge ==
  /\ underRead /\ underRead' = FALSE /\ booting' = FALSE
  /\ runsWatch' = (IF booting THEN "due" ELSE runsWatch) /\ event' = AfterFold
  /\ \E blind \in SUBSET {r \in Runs : wrapperOf[r] = "alive"}, saved \in BOOLEAN :
       LET due == Pushable(blind) \ sighted
           seeded == Seed(due)
           sent == IF policy THEN {r \in due \ seeded : fold[r] # "stopped"} ELSE {}
           writes == due # {} \/ (booting /\ ~hasFile)
       IN /\ sighted' = sighted \cup Marked(due, sent) \cup seeded
          /\ pushes' = [r \in Runs |-> IF r \in sent /\ pushes[r] < 2 THEN pushes[r] + 1 ELSE pushes[r]]
          /\ declined' = declined \cup (due \ sent)
          /\ onFile' = IF writes /\ saved THEN sighted' ELSE onFile
          /\ hasFile' = (hasFile \/ (writes /\ saved))
          /\ unsaved' = (unsaved \/ (writes /\ ~saved))
  /\ UNCHANGED <<procVars, fold, page, unheard, policy>>

\* The start ends with fs.watch, which throws while there is no runs/ folder.
ArmWatch ==
  /\ runsWatch = "due" /\ runsWatch' \in {"armed", "off"}
  /\ UNCHANGED <<procVars, fold, underRead, booting, event, page, unheard, ledgerVars, policy>>

\* The folder went away, and with it a change the timer is not yet set for; nothing
\* arms a new watch.
WatchFails ==
  /\ runsWatch = "armed" /\ ~underRead /\ runsWatch' = "off" /\ event' \in {event, FALSE}
  /\ unheard' = IF event /\ ~event' THEN {r \in Runs : runLog[r] # fold[r]} ELSE unheard
  /\ UNCHANGED <<procVars, fold, underRead, booting, page, ledgerVars, policy>>

\* The server stops between two folds and starts again, from the file; to be killed
\* amid one is a fold that was not saved, and then this.
KnownAtStart == onFile

PushRestart ==
  /\ ~underRead /\ ~booting /\ booting' = TRUE /\ runsWatch' = "off" /\ event' = FALSE
  /\ sighted' = KnownAtStart /\ fold' = [r \in Runs |-> "none"]
  /\ UNCHANGED <<procVars, underRead, page, unheard, hasFile, onFile, policy, pushes, declined, unsaved>>

TogglePush ==
  /\ policy' = ~policy
  /\ UNCHANGED <<procVars, fold, underRead, booting, wakeVars, ledgerVars>>

OpenOrLeavePage ==
  /\ page' = ~page
  /\ UNCHANGED <<procVars, fold, underRead, booting, runsWatch, event, unheard, ledgerVars, policy>>

RunStep(r) ==
  \/ RunStarts(r) \/ RunRefused(r) \/ RunGone(r) \/ TimePasses(r)
  \/ \E how \in Endings : RunEnds(r, how)

PushNext ==
  \/ \E r \in Runs : RunStep(r)
  \/ BootRead \/ Polled \/ WatchTold \/ Judge \/ ArmWatch \/ WatchFails
  \/ PushRestart \/ TogglePush \/ OpenOrLeavePage

\* The start and a fold run through; a timer set fires; an open page polls.
Folding == BootRead \/ Judge \/ ArmWatch
PushFairness == WF_pushVars(Folding) /\ WF_pushVars(WatchTold) /\ WF_pushVars(Polled)

PushSpec == PushInit /\ [][PushNext]_pushVars /\ PushFairness

-----------------------------------------------------------------------------
(* A run is dealt with once, over every restart of the server: one push, or *)
(* one sighting the policy declined, so switching pushes on later does not  *)
(* flood old failures; only an unwritten ledger repeats one                  *)
(* (routine-notify.ts notifyRoutineRuns).                                   *)
SettledOnce ==
  \A r \in Runs : unsaved \/ pushes[r] + Cardinality(declined \cap {r}) <= 1

(* The first start ever replays no history: a run over a day old is pushed  *)
(* only by a server that has, or could not write, a ledger (seedRoutineNotify). *)
FirstStartIsQuiet ==
  [][\A r \in old : pushes'[r] > pushes[r] => hasFile \/ unsaved \/ ~booting]_pushVars

(* A push has a cause: a failed or refused run, a wrapper that is gone, or  *)
(* an age past the timeout where the pid cannot be checked.                 *)
PushHasCause ==
  [][\A r \in Runs : pushes'[r] > pushes[r] =>
       runLog[r] \in {"failed", "refused"} \/ wrapperOf[r] = "gone" \/ r \in aged]_pushVars

(* Every failure the watch was told of is sighted in the end, and without   *)
(* the watch every one that is in the log at a start or while a page stays  *)
(* open (routine-notify.ts "on `fs.watch` of `runs/`, on every poll and on  *)
(* start"); what is written between the start's read and its watch, or once *)
(* the watch failed, waits for those two.                                   *)
Failure(r) == runLog[r] \in {"failed", "refused"}
FailureIsSighted ==
  \A r \in Runs :
    /\ Failure(r) ~> r \in sighted \cup unheard
    /\ Failure(r) /\ booting /\ ~underRead ~> r \in sighted
    /\ Failure(r) /\ page ~> r \in sighted \/ ~page

(* A failure is dealt with once, and what is pushed is due.                 *)
PushedOnceWhenDue == []SettledOnce /\ FirstStartIsQuiet /\ PushHasCause
=============================================================================
