----------------------------- MODULE Reconcile ------------------------------
(***************************************************************************)
(* Files in, OS jobs out, for one job on a mac (routine-reconcile.ts): the *)
(* desired text of the job file, the plist, and what launchd has loaded.   *)
(* A reconcile is a plan, its application and a second plan for the report *)
(* and awaits `launchctl` in between; saves, file events, the job's own    *)
(* fires and crashes come at any await.  One reconcile runs at a time and  *)
(* a call during it queues one trailing run.                               *)
(***************************************************************************)
EXTENDS Naturals

CONSTANTS Versions, Nothing, MaxEdits, MaxFires
ASSUME NothingAssumption == Nothing \notin Versions
ASSUME ReconcileBounds == MaxEdits \in Nat /\ MaxFires \in Nat

VARIABLES
  want,      \* the text the job file renders to, Nothing when it is not desired
  plist,     \* the installed plist
  loaded,    \* the text launchd loaded
  job,       \* the running wrapper: none, started, locked, ended (its `end` is
             \* written, its lock still there)
  manual,    \* it was started by Run now, so launchd does not own it
  sinceLook, \* history: it took its lock after the plan looked
  rec,       \* none, printing, bootout, bootstrap, reprinting: what is awaited
  act,       \* what the plan decided: none, install, update, remove, pending
  text,      \* the desired text that plan read
  failed,    \* this reconcile met an error
  report,    \* the state of lastReport: none, in-sync, pending, drift or failed
  deferred,  \* it lists a change held back by a running job
  heldBack,  \* history: so did a plan of the last reconcile
  upset,     \* history: a launchctl call failed, or the server stopped mid-way
  queued,    \* a trailing run is queued
  debounce,  \* the watchers' timer is armed
  edits, fires

osVars == <<plist, loaded>>
jobVars == <<job, manual, sinceLook>>
reportVars == <<report, deferred, heldBack>>
planVars == <<act, text, failed, reportVars, upset>>
recVars == <<want, osVars, jobVars, rec, planVars, queued, debounce, edits, fires>>

PlistTexts == Versions \cup {Nothing}

ReconcileTypeOK ==
  /\ want \in PlistTexts /\ plist \in PlistTexts /\ loaded \in PlistTexts
  /\ job \in {"none", "started", "locked", "ended"}
  /\ manual \in BOOLEAN /\ sinceLook \in BOOLEAN
  /\ rec \in {"none", "printing", "bootout", "bootstrap", "reprinting"}
  /\ act \in {"none", "install", "update", "remove", "pending"}
  /\ report \in {"none", "in-sync", "pending", "drift", "failed"}
  /\ text \in PlistTexts /\ failed \in BOOLEAN /\ deferred \in BOOLEAN
  /\ heldBack \in BOOLEAN /\ upset \in BOOLEAN
  /\ queued \in BOOLEAN /\ debounce \in BOOLEAN
  /\ edits \in 0..MaxEdits /\ fires \in 0..MaxFires
  \* A trailing run is queued only behind one that will start it.
  /\ rec = "none" => act = "none" /\ text = Nothing /\ ~queued

ReconcileInit ==
  /\ want \in PlistTexts /\ plist = want /\ loaded = want
  /\ job = "none" /\ manual = FALSE /\ sinceLook = FALSE
  /\ rec = "none" /\ act = "none" /\ text = Nothing /\ failed = FALSE
  /\ report = "none" /\ deferred = FALSE /\ heldBack = FALSE /\ upset = FALSE /\ queued = FALSE /\ debounce = FALSE
  /\ edits = 0 /\ fires = 0

-----------------------------------------------------------------------------
(* applyReconcile.  The synchronous part of a plan runs at once: it reads   *)
(* the job file and starts the first `launchctl print`.                     *)
StartsNow(v) == rec' = "printing" /\ text' = v

\* Mutant: a call during a run is answered by that run.
QueuesNothing == queued
Queues == TRUE

Ask(v) ==
  IF rec = "none" THEN StartsNow(v) /\ UNCHANGED queued
                  ELSE queued' = Queues /\ UNCHANGED <<rec, text>>

\* A save, toggle or delete in the dashboard writes the file and asks; a file
\* changed otherwise (a pull) only arms the watcher's timer.
SaveJob(v) ==
  /\ edits < MaxEdits /\ edits' = edits + 1 /\ v # want
  /\ want' = v /\ debounce' = TRUE /\ Ask(v)
  /\ UNCHANGED <<osVars, jobVars, act, failed, reportVars, upset, fires>>

PullJob(v) ==
  /\ edits < MaxEdits /\ edits' = edits + 1 /\ v # want
  /\ want' = v /\ debounce' = TRUE
  /\ UNCHANGED <<osVars, jobVars, rec, planVars, queued, fires>>

Debounced ==
  /\ debounce /\ debounce' = FALSE /\ Ask(want)
  /\ UNCHANGED <<want, osVars, jobVars, act, failed, reportVars, upset, edits, fires>>

-----------------------------------------------------------------------------
(* The job.  A record written to runs/ arms the timer when the last report  *)
(* lists a change deferred because the job runs.                            *)
LogWrite == debounce' = (debounce \/ deferred)
JobOnly == UNCHANGED <<want, osVars, rec, planVars, queued, edits>>

Fires(byHand) ==
  /\ job = "none" /\ fires < MaxFires /\ (byHand \/ loaded # Nothing)
  /\ job' = "started" /\ manual' = byHand /\ fires' = fires + 1
  /\ UNCHANGED <<sinceLook, debounce>> /\ JobOnly

Locks ==
  /\ job = "started" /\ job' = "locked" /\ sinceLook' = TRUE /\ LogWrite
  /\ UNCHANGED <<manual, fires>> /\ JobOnly

JobEnds ==
  /\ job = "locked" /\ job' = "ended" /\ LogWrite
  /\ UNCHANGED <<manual, sinceLook, fires>> /\ JobOnly

\* It unlocks and exits, or is killed and leaves a lock nobody holds.
JobLeaves ==
  /\ job # "none" /\ job' = "none"
  /\ UNCHANGED <<manual, sinceLook, fires, debounce>> /\ JobOnly

-----------------------------------------------------------------------------
(* A plan.  lockHeld: a wrapper that has not locked yet is not seen.        *)
LockHeld == job \in {"locked", "ended"}

\* Mutant: a running job is not looked for.
NeverDefers(a) == a
Deferred(a) == IF LockHeld THEN "pending" ELSE a

\* print fails on a label that is not loaded, and may fail otherwise.
Decision(isLoaded) ==
  CASE text # Nothing /\ plist = Nothing -> "install"
    [] text # Nothing /\ plist # Nothing /\ ~isLoaded -> Deferred("install")
    [] text # Nothing /\ isLoaded /\ plist \notin {Nothing, text} -> Deferred("update")
    [] text # Nothing /\ isLoaded /\ plist = text -> "none"
    [] text = Nothing /\ plist # Nothing -> Deferred("remove")
    [] OTHER -> "none"

MayPrint(isLoaded) == isLoaded => loaded # Nothing

\* Mutant: an update only rewrites the plist.
ReloadsNew(a) == a \in {"install", "remove"}
Reloads(a) == a \in {"install", "update", "remove"}

\* The lock is looked at once every print has answered; the first await of the
\* application follows in the same tick, after the plist of an install or an
\* update is written.
Decide(isLoaded) ==
  /\ rec = "printing" /\ MayPrint(isLoaded)
  /\ act' = Decision(isLoaded) /\ sinceLook' = FALSE /\ failed' = FALSE
  /\ heldBack' = (act' = "pending")
  /\ plist' = IF act' \in {"install", "update"} THEN text ELSE plist
  /\ rec' = IF Reloads(act') THEN "bootout" ELSE "reprinting"
  /\ text' = IF rec' = "reprinting" THEN want ELSE text
  /\ UNCHANGED <<want, loaded, job, manual, report, deferred, upset, queued, debounce, edits, fires>>

\* bootout unloads the job and kills it.  A remove deletes the plist only of a
\* job that is no longer loaded.  Mutant: whatever bootout answered.
MayDeleteAny == TRUE
MayDelete == loaded' = Nothing

BootOut(works) ==
  /\ rec = "bootout"
  /\ loaded' = IF works THEN Nothing ELSE loaded
  /\ upset' = (upset \/ ~works)
  /\ job' = IF works /\ loaded # Nothing /\ ~manual THEN "none" ELSE job
  /\ IF act = "remove"
     THEN /\ plist' = IF MayDelete THEN Nothing ELSE plist
          /\ failed' = (failed \/ ~works)
          /\ rec' = "reprinting" /\ text' = want
     ELSE rec' = "bootstrap" /\ UNCHANGED <<plist, failed, text>>
  /\ UNCHANGED <<want, manual, sinceLook, act, reportVars, queued, debounce, edits, fires>>

\* bootstrap fails on a label that is still loaded.
BootStrap(works) ==
  /\ rec = "bootstrap" /\ (works => loaded = Nothing)
  /\ loaded' = IF works THEN plist ELSE loaded
  /\ failed' = (failed \/ ~works) /\ upset' = (upset \/ ~works)
  /\ rec' = "reprinting" /\ text' = want
  /\ UNCHANGED <<want, plist, jobVars, act, reportVars, queued, debounce, edits, fires>>

Summary(a) == CASE a = "none" -> "in-sync" [] a = "pending" -> "pending" [] OTHER -> "drift"

Trails ==
  /\ queued' = FALSE
  /\ IF queued THEN StartsNow(want) ELSE rec' = "none" /\ text' = Nothing

\* The second plan makes the report; then the trailing run starts.
Report(isLoaded) ==
  /\ rec = "reprinting" /\ MayPrint(isLoaded)
  /\ deferred' = (Decision(isLoaded) = "pending")
  /\ heldBack' = (heldBack \/ deferred')
  /\ report' = IF failed THEN "failed" ELSE Summary(Decision(isLoaded))
  /\ act' = "none" /\ Trails
  /\ UNCHANGED <<want, osVars, jobVars, failed, upset, debounce, edits, fires>>

\* The server stops at any await; the next start reconciles.
ReconcileRestart ==
  /\ StartsNow(want) /\ act' = "none" /\ failed' = FALSE
  /\ upset' = (upset \/ rec # "none")
  /\ queued' = FALSE /\ debounce' = FALSE /\ report' = "none" /\ deferred' = FALSE
  /\ UNCHANGED <<want, osVars, jobVars, heldBack, edits, fires>>

ReconcileNext ==
  \/ \E v \in PlistTexts : SaveJob(v) \/ PullJob(v)
  \/ (\E byHand \in BOOLEAN : Fires(byHand)) \/ Locks \/ JobEnds \/ JobLeaves
  \/ Debounced \/ ReconcileRestart
  \/ \E b \in BOOLEAN : Decide(b) \/ BootOut(b) \/ BootStrap(b) \/ Report(b)

ReconcileSpec == ReconcileInit /\ [][ReconcileNext]_recVars

-----------------------------------------------------------------------------
(* A loaded job always has its plist, or every later plan would miss it     *)
(* (routine-reconcile.ts:400), whatever fails or crashes in between.        *)
LoadedHasPlist == loaded # Nothing => plist # Nothing

(* The only run a reconcile kills is one that took its lock after the plan  *)
(* looked (routine-reconcile.ts:327-346).                                   *)
KillsOnlyLateStarts ==
  [][rec = "bootout" /\ rec' # "bootout" /\ job \in {"locked", "ended"} /\ job' = "none"
       => sinceLook]_recVars

(* Once everything is quiet the plist is what the job file says and the job *)
(* is loaded, however edits, file events and reconciles overlapped, unless  *)
(* the last reconcile failed or a running job held the change back: an edit *)
(* made during a reconcile is read by the trailing one                      *)
(* (routine-reconcile.ts:458-469).                                          *)
Quiet == rec = "none" /\ ~debounce
QuietIsInSync ==
  Quiet => \/ failed \/ heldBack
           \/ plist = want /\ (loaded = Nothing <=> want = Nothing)

(* While no launchctl call fails and the server is not stopped mid-way,     *)
(* what is loaded is the plist's text whenever no reconcile is under way.   *)
LoadedIsPlist == rec = "none" => upset \/ loaded \in {plist, Nothing}

(* What is edited is what launchd runs, a job whose plist is gone is never  *)
(* left loaded, and no run the plan could see is killed on the way.         *)
LaunchdFollows == [](LoadedHasPlist /\ QuietIsInSync /\ LoadedIsPlist) /\ KillsOnlyLateStarts
=============================================================================
