---------------------------- MODULE LaunchStore -----------------------------
(***************************************************************************)
(* The launch store of the dashboard server (server/lib/spawn.ts) with the *)
(* handlers of api.ts that drive it: a headless launch or resume, the two  *)
(* stop routes, and the polled session scan that adopts, expires and       *)
(* escalates.  A child is one `claude -p` process; its events ('exit',     *)
(* 'close', a stream's 'error') reach the store by session id, and an id   *)
(* outlives a child because a resume reuses it.                            *)
(* Handlers and events are atomic (one thread).  Clocks are abstracted:    *)
(* `old` and `stop = "past"` say that a TTL or the stop grace has elapsed. *)
(***************************************************************************)
EXTENDS Naturals, FiniteSets

CONSTANTS Ids, Children, NoChild, NoId, NoEntry, MaxLaunching

States == {"launching", "running", "failed"}
Entries == [state : States, resume : BOOLEAN, child : Children \cup {NoChild},
            stop : {"none", "asked", "past"}, timer : BOOLEAN, old : BOOLEAN]

ASSUME IdsAssumption == IsFiniteSet(Ids)
ASSUME NoChildAssumption == NoChild \notin Children
ASSUME NoIdAssumption == NoId \notin Ids
ASSUME NoEntryAssumption == NoEntry \notin Entries
ASSUME MaxAssumption == MaxLaunching \in Nat \ {0}

VARIABLES
  entry,   \* the `entries` map
  of,      \* the session each child was started for
  os,      \* unborn, alive, orphan (alive, its server restarted), ended (not yet
           \* noticed), exited ('exit' ran), closed (nothing more is heard of it)
  code,    \* how it ended: zero, nonzero, signal, norun (never started)
  sent,    \* the strongest signal each child was sent
  onDisk,  \* sessions with a transcript
  lost,    \* children whose handle was given up: stopped while launching, or one
           \* of their streams raised 'error'
  blind    \* children launched by a resume whose `ps` probe could not answer

child_vars == <<of, os, code>>
ghosts == <<lost, blind>>
vars == <<entry, child_vars, sent, onDisk, ghosts>>

TypeOK ==
  /\ entry \in [Ids -> Entries \cup {NoEntry}]
  /\ of \in [Children -> Ids \cup {NoId}]
  /\ os \in [Children -> {"unborn", "alive", "orphan", "ended", "exited", "closed"}]
  /\ code \in [Children -> {"none", "zero", "nonzero", "signal", "norun"}]
  /\ sent \in [Children -> {"none", "TERM", "KILL"}]
  /\ onDisk \subseteq Ids
  /\ lost \subseteq Children /\ blind \subseteq Children

Init ==
  /\ entry = [i \in Ids |-> NoEntry]
  /\ of = [c \in Children |-> NoId]
  /\ os = [c \in Children |-> "unborn"]
  /\ code = [c \in Children |-> "none"]
  /\ sent = [c \in Children |-> "none"]
  /\ onDisk \in SUBSET Ids /\ lost = {} /\ blind = {}

-----------------------------------------------------------------------------
(* Reading the store.                                                       *)

Has(i) == entry[i] # NoEntry
InState(e, i, s) == e[i] # NoEntry /\ e[i].state = s

\* Node sets exitCode / signalCode as it emits 'exit': an ended child still
\* reads as alive until then.
ChildAlive(c) == c # NoChild /\ os[c] \in {"alive", "ended"}

\* A child that never started has no pid.
Signalable(c) == ChildAlive(c) /\ code[c] # "norun"

HasLiveChild(e, i) == InState(e, i, "running") /\ Signalable(e[i].child)

\* liveSessionIds: the session ids in the argv of the live processes.
Lives(c) == os[c] \in {"alive", "orphan"}
Ps == {of[c] : c \in {d \in Children : Lives(d)}}

-----------------------------------------------------------------------------
(* What one call does to the map.                                           *)

\* A running entry is never read against a TTL again.
Running(e) == [e EXCEPT !.state = "running", !.old = FALSE]

\* listLaunching: an old launch whose child lives is promoted, an old launch or
\* failure is dropped.
Listed(e) ==
  [i \in Ids |->
     IF e[i] = NoEntry \/ ~e[i].old \/ e[i].state = "running" THEN e[i]
     ELSE IF e[i].state = "launching" /\ ChildAlive(e[i].child)
          THEN Running(e[i])
          ELSE NoEntry]

\* adoptLaunched: a launch whose transcript was scanned is running, alive or not.
Adopted(e, ids) ==
  [i \in Ids |->
     IF i \in ids /\ e[i] # NoEntry /\ e[i].state = "launching" /\ ~e[i].resume
     THEN Running(e[i]) ELSE e[i]]

\* Mutant: the handlers look the entry up by id alone.
OwnedByAny(i, c) == Has(i)
OwnedBy(i, c) == Has(i) /\ entry[i].child = c

\* fail: whatever state the entry is in.
Failed(i, c) ==
  IF OwnedBy(i, c)
  THEN [entry EXCEPT ![i].state = "failed", ![i].old = FALSE]
  ELSE entry

\* dropIfRunning, and the map it leaves.  Mutant: an asked stop stays listed.
DropsUnstopped(i, c) ==
  OwnedBy(i, c) /\ entry[i].state = "running" /\ entry[i].stop = "none"
Drops(i, c) == OwnedBy(i, c) /\ entry[i].state = "running"
Without(i) == [entry EXCEPT ![i] = NoEntry]

\* Mutant: a spawner that throws leaves its entry launching.
NewEntryLaunching(c, resume) ==
  [state |-> "launching", resume |-> resume,
   child |-> c, stop |-> "none", timer |-> FALSE, old |-> FALSE]

NewEntry(c, resume) ==
  [state |-> IF c = NoChild THEN "failed" ELSE "launching", resume |-> resume,
   child |-> c, stop |-> "none", timer |-> FALSE, old |-> FALSE]

\* launch, once the handler's checks pass: `e` is the map after listLaunching.
\* c = NoChild is a spawner that throws; a child may also never start.
LaunchInto(e, i, c, resume) ==
  /\ entry' = [e EXCEPT ![i] = NewEntry(c, resume)]
  /\ IF c = NoChild
     THEN UNCHANGED child_vars
     ELSE /\ os[c] = "unborn"
          /\ of' = [of EXCEPT ![c] = i]
          /\ \/ os' = [os EXCEPT ![c] = "alive"] /\ UNCHANGED code
             \/ os' = [os EXCEPT ![c] = "ended"] /\ code' = [code EXCEPT ![c] = "norun"]

Launching(e) == {i \in Ids : InState(e, i, "launching")}
\* Mutant: one too many.
RailOpenByOne(e) == Cardinality(Launching(e)) <= MaxLaunching
RailOpen(e) == Cardinality(Launching(e)) < MaxLaunching

-----------------------------------------------------------------------------
(* The handlers.  A refused request has run listLaunching, as Poll does.     *)

\* POST /api/spawn, a fresh session: a minted id names nothing yet.
Spawn(i, c) ==
  LET e == Listed(entry) IN
  /\ ~Has(i) /\ i \notin onDisk /\ \A d \in Children : of[d] # i
  /\ RailOpen(e)
  /\ LaunchInto(e, i, c, FALSE)
  /\ UNCHANGED <<sent, onDisk, ghosts>>

\* The two checks resumeTarget makes on the store and on `ps`, and the third on
\* what listLaunching still reports.  A null probe never refuses.
\* Mutant: the check of `ps` forgotten.
MayResumeNoPs(e, i, probe) == ~HasLiveChild(e, i) /\ ~InState(e, i, "launching")
MayResume(e, i, probe) ==
  /\ ~HasLiveChild(e, i)
  /\ probe => i \notin Ps
  /\ ~InState(e, i, "launching")

\* POST /api/spawn, a resume.  Further refusals (a held wait, the desktop app,
\* no cwd) only take launches away.
Resume(i, c, probe) ==
  LET e == Listed(entry) IN
  /\ i \in onDisk
  /\ RailOpen(e)
  /\ MayResume(e, i, probe)
  /\ LaunchInto(e, i, c, TRUE)
  /\ blind' = IF probe THEN blind ELSE blind \cup ({c} \ {NoChild})
  /\ UNCHANGED <<sent, onDisk, lost>>

\* A signal reaches a process that still runs.
Signalled(c, s) == IF os[c] # "alive" \/ sent[c] = "KILL" THEN sent[c] ELSE s
Signal(c, s) == sent' = [sent EXCEPT ![c] = Signalled(c, s)]

\* POST .../stop on a launching entry: SIGTERM to the child, entry gone.
StopLaunching(i) ==
  /\ InState(entry, i, "launching")
  /\ Signal(entry[i].child, "TERM")
  /\ entry' = Without(i)
  /\ lost' = lost \cup {entry[i].child}
  /\ UNCHANGED <<child_vars, onDisk, blind>>

\* POST .../stop on a running entry: the first asks, a repeat changes nothing.
StopRunning(i) ==
  /\ HasLiveChild(entry, i)
  /\ entry[i].stop = "none"
  /\ Signal(entry[i].child, "TERM")
  /\ entry' = [entry EXCEPT ![i].stop = "asked", ![i].timer = TRUE]
  /\ UNCHANGED <<child_vars, onDisk, ghosts>>

\* POST .../stop {force: true}.
ForceStop(i) ==
  /\ HasLiveChild(entry, i)
  /\ Signal(entry[i].child, "KILL")
  /\ UNCHANGED <<entry, child_vars, onDisk, ghosts>>

\* escalateStop's conditions, whoever calls it.
Escalates(i) == HasLiveChild(entry, i) /\ entry[i].stop = "past"

\* Mutant: the callback re-reads a clock that runs behind and gives up.
EscalateTimerVetoed(i) ==
  /\ Has(i) /\ entry[i].timer /\ entry[i].stop = "past"
  /\ entry' = [entry EXCEPT ![i].timer = FALSE]
  /\ UNCHANGED <<sent, child_vars, onDisk, ghosts>>

\* The escalation timer, armed for the end of the grace.
EscalateTimer(i) ==
  /\ Has(i) /\ entry[i].timer /\ entry[i].stop = "past"
  /\ entry' = [entry EXCEPT ![i].timer = FALSE]
  /\ IF Escalates(i) THEN Signal(entry[i].child, "KILL") ELSE UNCHANGED sent
  /\ UNCHANGED <<child_vars, onDisk, ghosts>>

\* Mutant: the scan only reports, as it did before the backstop.
BackstopNone == UNCHANGED sent

\* stopStates, on every scan of the rows: SIGKILLs any stop past its grace.
Backstop ==
  sent' = [c \in Children |->
             IF \E i \in Ids : Escalates(i) /\ entry[i].child = c
             THEN Signalled(c, "KILL") ELSE sent[c]]

\* GET /api/sessions: the scan, adoptLaunched with the ids it showed (windows and
\* filters hide some), listLaunching.  A scan that throws shows none, and may
\* not have reached stopStates.
Poll(shown, reached) ==
  /\ shown \subseteq onDisk
  /\ ~reached => shown = {}
  /\ entry' = Listed(Adopted(entry, shown))
  /\ IF reached THEN Backstop ELSE UNCHANGED sent
  /\ UNCHANGED <<child_vars, onDisk, ghosts>>

\* The hub's sessions widget takes the same scan and lists nothing.
Widget ==
  /\ Backstop
  /\ UNCHANGED <<entry, child_vars, onDisk, ghosts>>

\* A restart forgets the store; the detached children live on, unwatched.
Restart ==
  /\ entry' = [i \in Ids |-> NoEntry]
  /\ os' = [c \in Children |-> IF Lives(c) THEN "orphan"
                               ELSE IF os[c] = "unborn" THEN "unborn" ELSE "closed"]
  /\ UNCHANGED <<of, code, sent, onDisk, ghosts>>

-----------------------------------------------------------------------------
(* The children's events.                                                    *)

\* 'exit' -- or, for a child that never started, 'error'.
ExitEvent(c) ==
  /\ os[c] = "ended"
  /\ os' = [os EXCEPT ![c] = "exited"]
  /\ entry' = IF code[c] # "norun" /\ Drops(of[c], c) THEN Without(of[c])
              ELSE IF code[c] = "zero" THEN entry
              ELSE Failed(of[c], c)
  /\ UNCHANGED <<of, code, sent, onDisk, ghosts>>

\* 'close', once stdio has drained: drops a running entry, or refines the
\* failure when stderr said something (`tail`).
CloseEvent(c, tail) ==
  /\ os[c] = "exited"
  /\ os' = [os EXCEPT ![c] = "closed"]
  /\ entry' = IF Drops(of[c], c) THEN Without(of[c])
              ELSE IF tail /\ code[c] = "nonzero" THEN Failed(of[c], c)
              ELSE entry
  /\ UNCHANGED <<of, code, sent, onDisk, ghosts>>

\* An 'error' on the child's stdin or stderr (an EPIPE: it died, or it never
\* read its prompt).
StreamError(c) ==
  /\ os[c] \in {"alive", "ended"} /\ code[c] # "norun"
  /\ lost' = lost \cup {c}
  /\ entry' = Failed(of[c], c)
  /\ UNCHANGED <<child_vars, sent, onDisk, blind>>

-----------------------------------------------------------------------------
(* Outside the server.                                                       *)

\* A child ends by itself, or by a signal it did not ignore.
Die(c, how) ==
  /\ Lives(c)
  /\ how \in {"zero", "nonzero", "signal"}
  /\ how = "signal" => sent[c] # "none"
  /\ os' = [os EXCEPT ![c] = IF @ = "orphan" THEN "closed" ELSE "ended"]
  /\ code' = [code EXCEPT ![c] = how]
  /\ UNCHANGED <<entry, of, sent, onDisk, ghosts>>

\* Its first record lands in the transcript.
WriteTranscript(c) ==
  /\ Lives(c) /\ of[c] \notin onDisk
  /\ onDisk' = onDisk \cup {of[c]}
  /\ UNCHANGED <<entry, child_vars, sent, ghosts>>

\* LAUNCH_TTL_MS or FAIL_TTL_MS runs out.
GrowOld(i) ==
  /\ Has(i) /\ entry[i].state # "running" /\ ~entry[i].old
  /\ entry' = [entry EXCEPT ![i].old = TRUE]
  /\ UNCHANGED <<child_vars, sent, onDisk, ghosts>>

\* STOP_GRACE_MS runs out.
GraceEnds(i) ==
  /\ Has(i) /\ entry[i].stop = "asked"
  /\ entry' = [entry EXCEPT ![i].stop = "past"]
  /\ UNCHANGED <<child_vars, sent, onDisk, ghosts>>

Handler == \/ \E i \in Ids : \/ \E c \in Children \cup {NoChild} : Spawn(i, c)
                             \/ \E c \in Children \cup {NoChild}, probe \in BOOLEAN : Resume(i, c, probe)
                             \/ StopLaunching(i) \/ StopRunning(i) \/ ForceStop(i)
                             \/ EscalateTimer(i)
           \/ \E shown \in SUBSET Ids, reached \in BOOLEAN : Poll(shown, reached)
           \/ Widget \/ Restart

Event == \E c \in Children : \/ ExitEvent(c) \/ StreamError(c)
                             \/ \E tail \in BOOLEAN : CloseEvent(c, tail)

World == \/ \E c \in Children : \/ WriteTranscript(c)
                                \/ \E how \in {"zero", "nonzero", "signal"} : Die(c, how)
         \/ \E i \in Ids : GrowOld(i) \/ GraceEnds(i)

Next == Handler \/ Event \/ World

Spec == Init /\ [][Next]_vars

\* The SIGKILL a stop ends in works, and the grace passes.
KillWorks ==
  /\ \A c \in Children : WF_vars(sent[c] = "KILL" /\ Die(c, "signal"))
  /\ \A i \in Ids : WF_vars(GraceEnds(i))

\* Either of the two that escalate: Node fires the timer and nobody polls, or
\* every timer is lost and a dashboard open somewhere polls.
TimersFire == \A i \in Ids : WF_vars(EscalateTimer(i))
DashboardPolls == WF_vars(Poll({}, TRUE))

-----------------------------------------------------------------------------
(* Properties.                                                               *)

\* Children whose handle the server has given up: forgotten by a restart, by an
\* early stop, or by a stream error that marked their entry failed.
Lost == lost \cup {c \in Children : os[c] = "orphan"}

\* A resume never puts a second writer on a transcript, unless the first is one
\* whose handle was lost and `ps` could not answer (resumeTarget's checks).
OneWriter ==
  \A c, d \in Children :
    c # d /\ Lives(c) /\ Lives(d) /\ of[c] = of[d]
      => {c, d} \cap blind # {} /\ {c, d} \cap Lost # {}

\* Every other live child is the child of its session's entry, launching or
\* running: no late event of an older child, no expiry, no adoption and no
\* resume takes its handle away (ownedBy, the promotion in listLaunching).
HandleHeld ==
  \A c \in Children : Lives(c) /\ c \notin Lost =>
     LET e == entry[of[c]] IN e # NoEntry /\ e.child = c /\ e.state # "failed"

\* "The rail bounds concurrent processes, so it counts them": live children that
\* are not running sessions yet, Lost ones apart, stay within MAX_LAUNCHING.
RailHolds ==
  Cardinality({c \in Children : /\ Lives(c) /\ c \notin Lost
                               /\ ~InState(entry, of[c], "running")}) <= MaxLaunching

\* A session that ran never comes back as a failed launch, unless it is one of
\* its streams that fails ('exit' drops a running entry before fail sees it).
NoPhantomFailure ==
  [][\A i \in Ids :
       InState(entry, i, "running") /\ InState(entry', i, "failed")
         /\ entry'[i].child = entry[i].child
         => entry[i].child \in lost' \/ code[entry[i].child] = "norun"]_vars

\* A stop asked of a session ends it, SIGTERM ignored or not, by the timer alone
\* and by the polls alone (escalateStop).
Stopped ==
  \A i \in Ids, c \in Children :
    (InState(entry, i, "running") /\ entry[i].child = c /\ entry[i].stop # "none")
      ~> (~Lives(c) \/ c \in Lost)
TimerStops == KillWorks /\ TimersFire => Stopped
PollStops == KillWorks /\ DashboardPolls => Stopped
StopEnds == TimerStops /\ PollStops
=============================================================================
