------------------------------ MODULE HandOver ------------------------------
(***************************************************************************)
(* The hand-over of a session to the desktop app: a desktop launch runs    *)
(* its first turn as a headless child, a watch polls its transcript, and   *)
(* once the turn has ended the resume link is fired (handover.ts), from a  *)
(* place on the rail and under the session's mark (desktop.ts).  The chat  *)
(* drawer can fire the link too, and a session can be resumed headless     *)
(* (api.ts spawnDesktop, serveSpawn).                                      *)
(*                                                                         *)
(* The launch store is reduced to what the watch reads of it (LaunchStore  *)
(* has the rest): no entry, an entry, a failed one.  A session has at most *)
(* one headless child; a second one is LaunchStore's subject.              *)
(* Two assumptions on time are guards: AppWritesInTime and HookAnswers.    *)
(***************************************************************************)
EXTENDS FiniteSets, Naturals

CONSTANTS Sessions, RailMax, MaxPresses

ASSUME RailAssumption == IsFiniteSet(Sessions) /\ RailMax \in Nat \ {0}
ASSUME PressesAssumption == MaxPresses \in Nat

By == {"watch", "drawer"}
Slots == [id : Sessions, by : By]

VARIABLES
  proc,     \* the headless child: none, starting (nothing written yet), turn,
            \* deciding (its Stop hook runs), linger
  store,    \* its launch entry: none, live, failed
  turn,     \* the end of the transcript: none, open, done, apierr
  watch,    \* off, on, opening (awaits `open`)
  settled,  \* settledMtimeMs is the transcript's mtime
  marks,    \* the rail's live marks
  opening,  \* the `open` calls under way
  app,      \* the desktop app: none, linked (importing), owned (record written)
  failed,   \* the failed set
  overlap,  \* sessions resumed here while their watch was still on
  presses   \* hand-overs asked from the drawer

child == <<proc, turn, settled>>
rail == <<marks, opening>>
vars == <<child, store, watch, rail, app, failed, overlap, presses>>

TypeOK ==
  /\ proc \in [Sessions -> {"none", "starting", "turn", "deciding", "linger"}]
  /\ store \in [Sessions -> {"none", "live", "failed"}]
  /\ turn \in [Sessions -> {"none", "open", "done", "apierr"}]
  /\ watch \in [Sessions -> {"off", "on", "opening"}]
  /\ settled \in [Sessions -> BOOLEAN]
  /\ marks \subseteq Slots /\ opening \subseteq Slots
  /\ app \in [Sessions -> {"none", "linked", "owned"}]
  /\ failed \subseteq Sessions /\ overlap \subseteq Sessions
  /\ presses \in 0 .. MaxPresses

All(v) == [i \in Sessions |-> v]

Init ==
  /\ proc = All("none") /\ store = All("none") /\ turn = All("none")
  /\ watch = All("off") /\ settled = All(FALSE) /\ app = All("none")
  /\ marks = {} /\ opening = {} /\ failed = {} /\ overlap = {} /\ presses = 0

-----------------------------------------------------------------------------
(* The headless child.                                                      *)

\* Every record moves the transcript's mtime.
Writes(i, t) ==
  /\ turn' = [turn EXCEPT ![i] = t]
  /\ settled' = [settled EXCEPT ![i] = FALSE]

Becomes(i, p) == proc' = [proc EXCEPT ![i] = p]

ChildStep(i) ==
  /\ \/ proc[i] = "starting" /\ Becomes(i, "turn") /\ Writes(i, "open")
     \/ /\ proc[i] = "turn" /\ turn[i] = "open"
        /\ \/ Becomes(i, "deciding") /\ Writes(i, "done")
           \/ UNCHANGED proc /\ Writes(i, "apierr")
     \/ /\ proc[i] = "turn" /\ turn[i] = "apierr"
        /\ \/ UNCHANGED proc /\ Writes(i, "open")                  \* the retry
           \/ Becomes(i, "linger") /\ UNCHANGED <<turn, settled>>
     \/ proc[i] = "deciding" /\ Becomes(i, "linger") /\ UNCHANGED <<turn, settled>>
     \/ proc[i] = "deciding" /\ Becomes(i, "turn") /\ Writes(i, "open")  \* Stop blocked
  /\ UNCHANGED <<store, watch, rail, app, failed, overlap, presses>>

\* It ends, and its event reaches the store: a running entry goes, a launching
\* one fails, or stays after exit code 0.
Exit(i) ==
  /\ proc[i] # "none" /\ Becomes(i, "none")
  /\ \/ store[i] = "live" /\ \E s \in {"none", "failed", "live"} : store' = [store EXCEPT ![i] = s]
     \/ store[i] # "live" /\ UNCHANGED store
  /\ UNCHANGED <<turn, settled, watch, rail, app, failed, overlap, presses>>

\* A stop of a launching entry, or an entry that outlived its TTL.
EntryGoes(i) ==
  /\ store[i] # "none"
  /\ store' = [store EXCEPT ![i] = "none"]
  /\ UNCHANGED <<child, watch, rail, app, failed, overlap, presses>>

-----------------------------------------------------------------------------
(* The rail (desktop.ts).                                                   *)

InFlight(i) == \E m \in marks : m.id = i

\* Mutant: the rail is not counted.
RailOpenAlways == TRUE
RailOpen == Cardinality(marks) < RailMax

\* Mutant: a place like a fresh launch's, without the session.
SlotNull(i, by) == [id |-> "null", by |-> by]
Slot(i, by) == [id |-> i, by |-> by]
Reserve(i, by) == marks' = marks \cup {Slot(i, by)} /\ opening' = opening \cup {Slot(i, by)}

\* Mutant: whatever the session's mark.
ReleasedAny(m) == {n \in marks : n.id # m.id}
Released(m) == marks \ {m}

\* AppWritesInTime: the app writes its registry record while the mark lives.
AppWritesInTime(m) == app[m.id] # "linked"

\* Mutant: nothing prunes the marks.
PrunedNever(m) == marks
Pruned(m) == marks \ {m}

\* DESKTOP_WINDOW_MS runs out.
Expire(m) ==
  /\ m \in marks /\ AppWritesInTime(m)
  /\ marks' = Pruned(m)
  /\ UNCHANGED <<child, store, watch, opening, app, failed, overlap, presses>>

\* `open` hands the link to the app, within the 5 s its timeout allows -- as
\* long as the mark lives.
OpenOk(m) ==
  /\ m \in opening /\ m \in marks
  /\ opening' = opening \ {m}
  /\ app' = [app EXCEPT ![m.id] = IF @ = "none" THEN "linked" ELSE @]
  /\ IF m.by = "watch"
     THEN watch' = [watch EXCEPT ![m.id] = "off"] /\ UNCHANGED failed
     ELSE failed' = failed \ {m.id} /\ UNCHANGED watch
  /\ UNCHANGED <<child, store, marks, overlap, presses>>

\* `open` rejects or times out: the place and the mark are given back.
OpenFails(m) ==
  /\ m \in opening
  /\ opening' = opening \ {m} /\ marks' = Released(m)
  /\ IF m.by = "watch"
     THEN watch' = [watch EXCEPT ![m.id] = "off"] /\ failed' = failed \cup {m.id}
     ELSE UNCHANGED <<watch, failed>>
  /\ UNCHANGED <<child, store, app, overlap, presses>>

\* The app writes its registry record.
AppRecord(i) ==
  /\ app[i] = "linked" /\ app' = [app EXCEPT ![i] = "owned"]
  /\ UNCHANGED <<child, store, watch, rail, failed, overlap, presses>>

-----------------------------------------------------------------------------
(* The handlers.                                                            *)

\* launchForDesktop: a fresh session, its watch armed.
LaunchForDesktop(i) ==
  /\ store[i] = "none" /\ turn[i] = "none" /\ proc[i] = "none" /\ watch[i] = "off"
  /\ store' = [store EXCEPT ![i] = "live"] /\ Becomes(i, "starting")
  /\ watch' = [watch EXCEPT ![i] = "on"]
  /\ settled' = [settled EXCEPT ![i] = FALSE]
  /\ UNCHANGED <<turn, rail, app, failed, overlap, presses>>

\* resumeTarget: nothing lives on the session and the app does not own it.
ResumeTarget(i) == turn[i] # "none" /\ proc[i] = "none" /\ app[i] # "owned"

\* serveSpawn asks the rail too: the session must not be on its way to the app.
MayResume(i) == ResumeTarget(i) /\ ~InFlight(i)

\* serveSpawn, a headless resume.
Resume(i) ==
  /\ MayResume(i)
  /\ store' = [store EXCEPT ![i] = "live"] /\ Becomes(i, "starting")
  /\ failed' = failed \ {i}
  /\ overlap' = IF watch[i] = "off" THEN overlap ELSE overlap \cup {i}
  /\ UNCHANGED <<turn, settled, watch, rail, app, presses>>

\* spawnDesktop with a resume id: the drawer's hand-over, up to its await.
Press(i) ==
  /\ presses < MaxPresses /\ presses' = presses + 1
  /\ ResumeTarget(i) /\ ~InFlight(i) /\ RailOpen /\ Slot(i, "drawer") \notin opening
  /\ Reserve(i, "drawer")
  /\ UNCHANGED <<child, store, watch, app, failed, overlap>>

\* A restart forgets the store, the watches, the marks and the failed set.  One
\* between a link and the app's record is not considered.
Restart ==
  /\ opening = {} /\ \A i \in Sessions : app[i] # "linked"
  /\ store' = All("none") /\ watch' = All("off") /\ settled' = All(FALSE)
  /\ marks' = {} /\ failed' = {}
  /\ UNCHANGED <<proc, turn, opening, app, overlap, presses>>

-----------------------------------------------------------------------------
(* The watch: one poll.                                                     *)

\* HookAnswers: a Stop hook answers before the settle poll, one poll after the
\* one that first saw the turn end.
HookAnswers(i) == settled[i] => proc[i] # "deciding"

\* The turn has ended, and not in an API error, which is retried.
Finished(i) == turn[i] = "done"

\* Two polls in a row saw the same finished transcript.  Mutant: one is enough.
SettledAtOnce(i) == TRUE
Settled(i) == settled[i]

Polls(i) == watch[i] = "on" /\ HookAnswers(i)
StopsWatching(i) == watch' = [watch EXCEPT ![i] = "off"]

PollGivesUp(i) ==
  /\ Polls(i)
  /\ \/ store[i] = "failed"
     \/ store[i] = "none" /\ ~Finished(i)
     \/ Finished(i) /\ Settled(i) /\ InFlight(i)
  /\ StopsWatching(i)
  /\ UNCHANGED <<child, store, rail, app, failed, overlap, presses>>

PollUnsettles(i) ==
  /\ Polls(i) /\ store[i] = "live" /\ ~Finished(i)
  /\ settled' = [settled EXCEPT ![i] = FALSE]
  /\ UNCHANGED <<proc, turn, store, watch, rail, app, failed, overlap, presses>>

PollSettles(i) ==
  /\ Polls(i) /\ store[i] # "failed" /\ Finished(i) /\ ~Settled(i)
  /\ settled' = [settled EXCEPT ![i] = TRUE]
  /\ UNCHANGED <<proc, turn, store, watch, rail, app, failed, overlap, presses>>

\* A place and the mark are free: the link is fired.
PollLinks(i) ==
  /\ Polls(i) /\ store[i] # "failed" /\ Finished(i) /\ Settled(i)
  /\ ~InFlight(i) /\ RailOpen
  /\ Reserve(i, "watch")
  /\ watch' = [watch EXCEPT ![i] = "opening"]
  /\ UNCHANGED <<child, store, app, failed, overlap, presses>>

\* HANDOVER_MAX_MS passes.
WatchExpires(i) ==
  /\ watch[i] = "on" /\ StopsWatching(i)
  /\ failed' = failed \cup {i}
  /\ UNCHANGED <<child, store, rail, app, overlap, presses>>

Poll(i) == PollGivesUp(i) \/ PollUnsettles(i) \/ PollSettles(i) \/ PollLinks(i)

Next ==
  \/ \E i \in Sessions :
       \/ ChildStep(i) \/ Exit(i) \/ EntryGoes(i) \/ AppRecord(i)
       \/ LaunchForDesktop(i) \/ Resume(i) \/ Press(i)
       \/ Poll(i) \/ WatchExpires(i)
  \/ \E m \in Slots : Expire(m) \/ OpenOk(m) \/ OpenFails(m)
  \/ Restart

Spec == Init /\ [][Next]_vars

\* The watch's timer fires, `open` ends within its timeout, the window passes,
\* the app writes its record and a Stop hook answers.
FairSpec ==
  /\ Spec
  /\ \A i \in Sessions : /\ WF_vars(Poll(i)) /\ WF_vars(AppRecord(i))
                         /\ WF_vars(proc[i] = "deciding" /\ ChildStep(i))
  /\ \A m \in Slots : WF_vars(OpenOk(m) \/ OpenFails(m)) /\ WF_vars(Expire(m))

-----------------------------------------------------------------------------
\* A child about to take a turn, or taking one.
Takes(i) == proc[i] \in {"starting", "turn"}

(* The app never gets a session whose headless child takes a turn, unless   *)
(* the user resumed it here while its watch was on: neither a blocked Stop, *)
(* a retried API error, a drawer press nor a resume after the link forks    *)
(* the transcript (handover.ts stepHandOver; api.ts resumeTarget).          *)
OneWriter ==
  \A i \in Sessions : app[i] # "none" /\ Takes(i) => i \in overlap

(* One session's link is fired once at a time and the rail holds at most    *)
(* RailMax: what `open` has under way is what the marks say, but for a call *)
(* that has already missed its timeout (desktop.ts reserveDesktopLaunch).   *)
MarksAreLinks ==
  /\ Cardinality(marks) <= RailMax
  /\ \A m, n \in marks : m.id = n.id => m = n
  /\ \A i \in Sessions : watch[i] = "opening" <=> Slot(i, "watch") \in opening

(* A failed link gives back no place but its own: while a mark lives,       *)
(* nothing but its own failure, its window or a restart takes it away.      *)
OwnReleaseOnly ==
  [][\A m \in marks : m \notin marks' =>
        \/ m \in opening /\ m \notin opening'
        \/ opening' = opening]_vars

(* The rail says what is under way, and loses nothing of it.                *)
RailIsExact == []MarksAreLinks /\ OwnReleaseOnly

(* A watched session whose turn has ended leaves the watch: handed over,    *)
(* given up, or its turn goes on.  A full rail only delays it.              *)
HandOverHappens ==
  \A i \in Sessions :
    watch[i] = "on" /\ Finished(i) ~> watch[i] = "off" \/ ~Finished(i)

(* "Firing the link then would put the app's writer on a transcript         *)
(* mid-turn, which forks it" (handover.ts stepHandOver): the link is fired  *)
(* only while no headless child is about to take, or takes, a turn.         *)
NoForkingLink == [][\A i \in Sessions : PollLinks(i) => ~Takes(i)]_vars
=============================================================================
