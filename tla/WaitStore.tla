----------------------------- MODULE WaitStore ------------------------------
(***************************************************************************)
(* The remote-answer wait stores of the dashboard server: pending.ts       *)
(* (questions), plans.ts and messages.ts over the shared state machine of  *)
(* wait-store.ts, with the /wait and /answer handlers of api.ts, the       *)
(* toggle of remoteState.ts and the scan tick's sweep (scan-snapshot.ts).  *)
(*                                                                         *)
(* A call is one POST /api/<kind>/wait whose response the server holds; it *)
(* stands for its questionId / planId / messageId too (fresh UUIDs).  The  *)
(* server is single-threaded, so a handler runs atomically between awaits: *)
(* a /wait handler is two steps, Arrive (the toggle check, before the body *)
(* is awaited) and Register (everything after).                            *)
(***************************************************************************)
EXTENDS Naturals, FiniteSets

CONSTANTS Calls,     \* the wait requests that can reach the server
          Sessions,  \* session ids
          Kinds,     \* the stores in play: all three, or fewer to go deeper
          NoCall, NoReq

ASSUME KindsAssumption == Kinds \subseteq {"question", "plan", "message"}

Slots == Kinds \X Sessions

\* What a request asks for; only the Stop hook's body carries `headless`.
Requests == {r \in [kind : Kinds, session : Sessions, headless : BOOLEAN] :
               r.headless => r.kind = "message"}

ASSUME CallsAssumption == NoCall \notin Calls
ASSUME ReqAssumption == NoReq \notin Requests

Acted == {"answered", "rejected"}
Outcomes == Acted \cup {"timeout", "superseded", "released", "dismissed"}

VARIABLES
  phase,    \* the response of each call: idle, reading (the body), held, over
  req,      \* what each call asked for
  sock,     \* its connection: up, lost (the peer left), closed ('close' ran)
  outcome,  \* the WaitResult written into the response, or "none"
  held,     \* the three `entries` maps: slot -> call
  settled,  \* the `settled` WeakSets
  armed,    \* calls whose deadline timer is set
  reaper,   \* the shared 5 s interval is running
  enabled,  \* the toggle, as the process believes it
  stored,   \* the toggle on disk (an absent file reads as on)
  desk,     \* an idle reading would say the user is at the keyboard
  moved,    \* calls whose transcript has a message later than their askedAt
  acks      \* {ok: true} replies the browser got for a pick, per call named

server == <<held, settled, armed, reaper>>
vars == <<phase, req, sock, outcome, server, enabled, stored, desk, moved, acks>>

Slot(c) == <<req[c].kind, req[c].session>>
Waiting == {held[s] : s \in Slots} \ {NoCall}
Open == {c \in Calls : phase[c] = "held"}
\* What the idle sweep may hand back.  Mutant: only the reply windows.
ReleasableMessages == {c \in Waiting : req[c].kind = "message" /\ ~req[c].headless}
Releasable == {c \in Waiting : ~req[c].headless}

TypeOK ==
  /\ phase \in [Calls -> {"idle", "reading", "held", "over"}]
  /\ req \in [Calls -> Requests \cup {NoReq}]
  /\ \A c \in Calls : phase[c] # "idle" => req[c] \in Requests
  /\ sock \in [Calls -> {"up", "lost", "closed"}]
  /\ outcome \in [Calls -> Outcomes \cup {"none"}]
  /\ held \in [Slots -> Calls \cup {NoCall}]
  /\ settled \subseteq Calls
  /\ armed \subseteq Calls
  /\ moved \subseteq Calls
  /\ <<reaper, enabled, stored, desk>> \in BOOLEAN \X BOOLEAN \X BOOLEAN \X BOOLEAN
  /\ acks \in [Calls -> Nat]

Init ==
  /\ phase = [c \in Calls |-> "idle"]
  /\ req = [c \in Calls |-> NoReq]
  /\ sock = [c \in Calls |-> "up"]
  /\ outcome = [c \in Calls |-> "none"]
  /\ held = [s \in Slots |-> NoCall]
  /\ settled = {}
  /\ armed = {}
  /\ reaper = FALSE
  /\ enabled \in BOOLEAN
  /\ stored = enabled
  /\ desk \in BOOLEAN
  /\ moved = {}
  /\ acks = [c \in Calls |-> 0]

-----------------------------------------------------------------------------
(* wait-store.ts.  Each operator gives one variable's next value, so that a *)
(* handler that settles and then does more composes them.                   *)

\* The entries `settle` acts on: a second settle of an entry is a no-op.
Live(S) == S \ settled

\* The maps once S is dropped from them.
Dropped(S) == [s \in Slots |-> IF held[s] \in S THEN NoCall ELSE held[s]]

\* `settle` of every entry of S with result r: timer cleared, entry dropped,
\* response completed.  onSettle's handoff note is PermissionFlag's business.
Settle(S, r) ==
  /\ settled' = settled \cup Live(S)
  /\ armed' = armed \ Live(S)
  /\ held' = Dropped(Live(S))
  /\ phase' = [c \in Calls |-> IF c \in Live(S) THEN "over" ELSE phase[c]]
  /\ outcome' = [c \in Calls |-> IF c \in Live(S) THEN r ELSE outcome[c]]

\* Mutants: add overwrites the entry; one map shared by the three stores.
PreviousForgotten(s) == {}
PreviousOfSession(s) == {held[t] : t \in {u \in Slots : u[2] = s[2]}} \ {NoCall}

\* The entry `add` settles as superseded before it takes the slot.
Previous(s) == {held[s]} \ {NoCall}

\* Mutant: cancel without the stale-id check.
IsCurrentAny(c) == held[Slot(c)] # NoCall

\* `cancel`: only when the slot still holds this very call.
IsCurrent(c) == held[Slot(c)] = c

CancelEntry(c) ==
  IF IsCurrent(c)
  THEN /\ settled' = settled \cup {held[Slot(c)]}
       /\ armed' = armed \ {held[Slot(c)]}
       /\ held' = [held EXCEPT ![Slot(c)] = NoCall]
  ELSE UNCHANGED <<settled, armed, held>>

-----------------------------------------------------------------------------
(* The wait handlers.                                                       *)

\* Mutant: the wait is accepted before the body names a session.
ArriveUnparsed(c, r) ==
  /\ phase[c] = "idle"
  /\ enabled
  /\ phase' = [phase EXCEPT ![c] = "reading"]
  /\ UNCHANGED <<req, sock, outcome, server, enabled, stored, desk, moved, acks>>

\* Up to the body await: the toggle is read here, and only here.
Arrive(c, r) ==
  /\ phase[c] = "idle"
  /\ enabled
  /\ phase' = [phase EXCEPT ![c] = "reading"]
  /\ req' = [req EXCEPT ![c] = r]
  /\ UNCHANGED <<sock, outcome, server, enabled, stored, desk, moved, acks>>

\* After the await: an aborted or unusable body, an unknown session, a refresh
\* session's Stop.  Answered on the spot, nothing is held.
Refuse(c) ==
  /\ phase[c] = "reading"
  /\ phase' = [phase EXCEPT ![c] = "over"]
  /\ UNCHANGED <<req, sock, outcome, server, enabled, stored, desk, moved, acks>>

\* The deadline timer of a new entry.  Mutant: an entry without one.
NoDeadline(c) == {}
Deadline(c) == {c}

\* After the await: supersede, hold, arm the deadline -- and cancel at once if
\* the socket died before anyone listened for 'close' (res.destroyed).
Register(c) ==
  LET s    == Slot(c)
      prev == Live(Previous(s))
      dead == sock[c] = "closed"
  IN
  /\ phase[c] = "reading"
  /\ settled' = settled \cup prev \cup (IF dead THEN {c} ELSE {})
  /\ armed' = (armed \ prev) \cup (IF dead THEN {} ELSE Deadline(c))
  /\ held' = [Dropped(prev) EXCEPT ![s] = IF dead THEN NoCall ELSE c]
  /\ phase' = [d \in Calls |-> IF d \in prev THEN "over"
                               ELSE IF d # c THEN phase[d]
                               ELSE IF dead THEN "over" ELSE "held"]
  /\ outcome' = [d \in Calls |-> IF d \in prev THEN "superseded" ELSE outcome[d]]
  /\ reaper' = TRUE
  /\ UNCHANGED <<req, sock, enabled, stored, desk, moved, acks>>

\* The deadline timer, a one-shot.
Timeout(c) ==
  /\ c \in armed
  /\ Settle({c}, "timeout")
  /\ UNCHANGED <<req, sock, reaper, enabled, stored, desk, moved, acks>>

\* The hook's process goes away: killed, interrupted, curl's own cap.
PeerLeaves(c) ==
  /\ phase[c] \in {"reading", "held"}
  /\ sock[c] = "up"
  /\ sock' = [sock EXCEPT ![c] = "lost"]
  /\ UNCHANGED <<phase, req, outcome, server, enabled, stored, desk, moved, acks>>

\* The server hears of it.  While the body is being read no listener is
\* attached yet; a completed response closes its socket too.
Close(c) ==
  /\ \/ sock[c] = "lost"
     \/ sock[c] = "up" /\ phase[c] = "over"
  /\ sock' = [sock EXCEPT ![c] = "closed"]
  /\ IF phase[c] = "reading"
     THEN UNCHANGED <<settled, armed, held, phase>>
     ELSE /\ CancelEntry(c)
          /\ phase' = [phase EXCEPT ![c] = "over"]
  /\ UNCHANGED <<req, outcome, reaper, enabled, stored, desk, moved, acks>>

-----------------------------------------------------------------------------
(* The answer handlers: slot s's session and store are in the URL, `id` is   *)
(* what the browser last saw waiting there.  not-found, mismatch and         *)
(* malformed replies change nothing.                                         *)

\* Mutant: the id is not compared.
MatchesAny(s, id) == held[s] # NoCall
Matches(s, id) == held[s] # NoCall /\ id = held[s]

\* A usable pick, reply, or plan sent back with feedback.
Answer(s, id) ==
  /\ Matches(s, id)
  /\ Settle({held[s]}, IF s[1] = "plan" THEN "rejected" ELSE "answered")
  /\ acks' = [acks EXCEPT ![id] = @ + 1]
  /\ UNCHANGED <<req, sock, reaper, enabled, stored, desk, moved>>

\* "Answer in the terminal".
Dismiss(s, id) ==
  /\ Matches(s, id)
  /\ Settle({held[s]}, "dismissed")
  /\ UNCHANGED <<req, sock, reaper, enabled, stored, desk, moved, acks>>

-----------------------------------------------------------------------------
(* Releases that are nobody's answer.                                        *)

\* The 5 s interval: reapIdle, then stopReaperIfEmpty.
Tick ==
  /\ reaper
  /\ Settle(IF desk THEN Releasable ELSE {}, "released")
  /\ reaper' = (\E s \in Slots : held'[s] # NoCall)
  /\ UNCHANGED <<req, sock, enabled, stored, desk, moved, acks>>

\* Mutant: plans are never swept.
ScanQuestionsOnly ==
  /\ \E c \in Waiting : req[c].kind # "message"
  /\ Settle({c \in Waiting : req[c].kind = "question" /\ c \in moved}, "dismissed")
  /\ UNCHANGED <<req, sock, reaper, enabled, stored, desk, moved, acks>>

\* GET /api/sessions: sweepTerminalDecisions, on questions and plans only.
Scan ==
  /\ \E c \in Waiting : req[c].kind # "message"
  /\ Settle({c \in Waiting : req[c].kind # "message" /\ c \in moved}, "dismissed")
  /\ UNCHANGED <<req, sock, reaper, enabled, stored, desk, moved, acks>>

\* POST /api/remote-answer: dismissAll in all three stores on "off".  The file
\* write fails open (`persisted`).
Toggle(on, written) ==
  /\ enabled' = on
  /\ stored' = IF written THEN on ELSE stored
  /\ Settle(IF on THEN {} ELSE Waiting, "dismissed")
  /\ UNCHANGED <<req, sock, reaper, desk, moved, acks>>

\* A restart forgets every store; the connections are reset.
Restart ==
  /\ phase' = [c \in Calls |-> IF phase[c] \in {"reading", "held"} THEN "over" ELSE phase[c]]
  /\ sock' = [c \in Calls |-> IF phase[c] = "idle" THEN sock[c] ELSE "closed"]
  /\ held' = [s \in Slots |-> NoCall]
  /\ settled' = {}
  /\ armed' = {}
  /\ reaper' = FALSE
  /\ enabled' = stored
  /\ UNCHANGED <<req, outcome, stored, desk, moved, acks>>

-----------------------------------------------------------------------------
(* Outside the server.                                                       *)

\* A conversational message lands in the transcript: later than the askedAt of
\* every call of the session registered so far.
Converse(s) ==
  /\ moved' = moved \cup {c \in Calls : phase[c] = "held" /\ req[c].session = s}
  /\ moved' # moved
  /\ UNCHANGED <<phase, req, sock, outcome, server, enabled, stored, desk, acks>>

WalkTo(there) ==
  /\ desk # there
  /\ desk' = there
  /\ UNCHANGED <<phase, req, sock, outcome, server, enabled, stored, moved, acks>>

CallStep(c) == \/ \E r \in Requests : Arrive(c, r)
               \/ Refuse(c) \/ Register(c) \/ Timeout(c) \/ PeerLeaves(c) \/ Close(c)

BrowserStep == \E s \in Slots, id \in Calls : Answer(s, id) \/ Dismiss(s, id)

Next == \/ \E c \in Calls : CallStep(c)
        \/ BrowserStep
        \/ Tick \/ Scan \/ Restart
        \/ \E on, written \in BOOLEAN : Toggle(on, written)
        \/ \E s \in Sessions : Converse(s)
        \/ \E there \in BOOLEAN : WalkTo(there)

Spec == Init /\ [][Next]_vars

\* Three sources of progress, each the fairness of one property below: Node fires
\* an armed timer, Node runs a live interval, a dashboard is open and polls.
DeadlinesFire == \A c \in Calls : WF_vars(Timeout(c))
ReaperTicks == WF_vars(Tick)
DashboardPolls == WF_vars(Scan)

-----------------------------------------------------------------------------
(* Properties.                                                               *)

\* The maps and the responses agree: a slot's entry is an open, unsettled wait
\* of that very slot, and no open response has dropped out of its store, where
\* no answer, sweep or dismiss could reach it (wait-store.ts add, settle, cancel).
NoOrphan ==
  /\ \A s \in Slots : held[s] # NoCall =>
       held[s] \in Open \ settled /\ Slot(held[s]) = s
  /\ \A c \in Open : held[Slot(c)] = c

\* Every open response has its deadline armed, and no deadline outlives its
\* wait (the timers of register, cleared by settle and cancel).
DeadlineArmed == armed = Open

\* While any of the three stores holds an entry the shared reaper runs, though
\* one store's last entry may leave while another's headless hold stays.
ReaperRuns == Open # {} => reaper

\* A browser told {ok: true} for a pick named the very call that got it, and
\* two tabs are never both told so (pending.ts answer, "the first wins").
OneAckPerCall == \A c \in Calls : acks[c] = IF outcome[c] \in Acted THEN 1 ELSE 0

\* A wait whose peer is still connected never leaves its store without a result:
\* a late 'close' of an older call cannot evict it (cancel's stale-id rule).
NoSilentLoss ==
  [][\A s \in Slots : held[s] # NoCall /\ held'[s] # held[s] =>
       outcome'[held[s]] # "none" \/ sock'[held[s]] = "closed"]_vars

\* The stores implement HeldWait: one fate per call, superseded only by a
\* newcomer of the same slot, acted on one at a time.
Fate == [c \in Calls |-> IF phase[c] \in {"idle", "reading"} THEN "new"
                         ELSE IF phase[c] = "held" THEN "waiting"
                         ELSE IF outcome[c] = "none" THEN "lost" ELSE outcome[c]]
SlotOf == [c \in Calls |-> IF phase[c] = "held" THEN Slot(c) ELSE <<NoCall>>]
HW == INSTANCE HeldWait WITH NoSlot <- <<NoCall>>, fate <- Fate, slot <- SlotOf
ImplementsHeldWait == HW!Spec

\* Every held response ends by its deadline alone, whoever else stays silent
\* (the timer of register).
EveryHoldEnds ==
  DeadlinesFire => \A c \in Calls : (phase[c] = "held") ~> (phase[c] = "over")

\* Someone who stays at the desk gets every wait back that has a terminal, by
\* the reaper alone: no deadline is assumed to fire.
DeskGetsWaitsBack ==
  ReaperTicks =>
    \A c \in Calls : (desk /\ phase[c] = "held" /\ ~req[c].headless)
                       ~> (~desk \/ phase[c] = "over")

\* A question or plan whose session moved on without the hook is released by
\* the polled scan alone: no deadline is assumed to fire (sweepDecided).
MovedOnIsReleased ==
  DashboardPolls =>
    \A c \in Calls : (c \in moved /\ phase[c] = "held" /\ req[c].kind # "message")
                       ~> (phase[c] = "over")

\* No wait is held for good: each of the three that end one does so on its own.
WaitsEnd == EveryHoldEnds /\ DeskGetsWaitsBack /\ MovedOnIsReleased

\* Once the switch is off no new wait is taken on.  The code breaks this: see
\* the run `toggle_race`.
OffTakesNothing == [][~enabled => Open' \subseteq Open]_vars
=============================================================================
