-------------------------- MODULE WaitStoreProofs ---------------------------
(***************************************************************************)
(* Proofs about WaitStore for every set of calls and sessions: the type    *)
(* invariant, the safety invariants, NoSilentLoss, and the refinement of   *)
(* HeldWait.  The inductive invariant adds Fresh to the checked ones: what *)
(* `settle` tests through the WeakSet is that the response is still owed.  *)
(***************************************************************************)
EXTENDS WaitStore, TLAPS

\* A call whose response is still owed is not settled and has no result.
Fresh == \A c \in Calls : phase[c] # "over" => c \notin settled /\ outcome[c] = "none"

\* No connection exists before its request.
IdleIsUp == \A c \in Calls : phase[c] = "idle" => sock[c] = "up"

\* What is inductive.  It is kept apart from IdleIsUp, which is inductive alone.
IInv == /\ TypeOK /\ NoOrphan /\ DeadlineArmed /\ ReaperRuns
        /\ OneAckPerCall /\ Fresh

-----------------------------------------------------------------------------

\* The slot of a call that has arrived is a slot of the stores.
LEMMA SlotType ==
  ASSUME TypeOK, NEW c \in Calls, phase[c] # "idle"
  PROVE  Slot(c) \in Slots
BY DEF TypeOK, Slot, Slots, Requests

\* Under the invariant the map entries are exactly the open responses.
LEMMA WaitingIsOpen ==
  ASSUME TypeOK, NoOrphan
  PROVE  Waiting = Open
<1>1. ASSUME NEW c \in Waiting PROVE c \in Open
  BY <1>1 DEF Waiting, NoOrphan, TypeOK
<1>2. ASSUME NEW c \in Open PROVE c \in Waiting
  <2>1. c \in Calls /\ Slot(c) \in Slots
    BY <1>2, SlotType DEF Open
  <2>2. held[Slot(c)] = c
    BY <1>2 DEF NoOrphan
  <2> QED BY <2>1, <2>2, CallsAssumption DEF Waiting
<1> QED BY <1>1, <1>2

\* What a settle of open waits does to the invariant's parts, whatever the
\* handler does to the other variables.
LEMMA SettleInv ==
  ASSUME IInv, NEW S \in SUBSET Open, NEW r \in Outcomes, Settle(S, r), req' = req
  PROVE  /\ phase' \in [Calls -> {"idle", "reading", "held", "over"}]
         /\ \A c \in Calls : phase'[c] # "idle" => req'[c] \in Requests
         /\ outcome' \in [Calls -> Outcomes \cup {"none"}]
         /\ held' \in [Slots -> Calls \cup {NoCall}]
         /\ settled' \subseteq Calls
         /\ armed' \subseteq Calls
         /\ NoOrphan' /\ DeadlineArmed' /\ Fresh'
         /\ Live(S) = S
         /\ Open' = Open \ S
         /\ \A c \in Calls : outcome'[c] = IF c \in S THEN r ELSE outcome[c]
<1>1. Live(S) = S
  BY DEF IInv, Fresh, Live, Open
<1>2. \A c \in Calls : /\ phase'[c] = IF c \in S THEN "over" ELSE phase[c]
                       /\ outcome'[c] = IF c \in S THEN r ELSE outcome[c]
  BY <1>1 DEF Settle
<1>3. \A s \in Slots : held'[s] = IF held[s] \in S THEN NoCall ELSE held[s]
  BY <1>1 DEF Settle, Dropped
<1>4. /\ phase' \in [Calls -> {"idle", "reading", "held", "over"}]
      /\ outcome' \in [Calls -> Outcomes \cup {"none"}]
      /\ held' \in [Slots -> Calls \cup {NoCall}]
      /\ settled' \subseteq Calls
      /\ armed' \subseteq Calls
  BY <1>1 DEF Settle, Dropped, IInv, TypeOK, Open
<1>5. \A c \in Calls : phase'[c] # "idle" => req'[c] \in Requests
  BY <1>2 DEF IInv, TypeOK, Open
<1>6. Open' = Open \ S
  BY <1>2 DEF Open
<1>7. NoOrphan'
  <2>1. ASSUME NEW s \in Slots, held'[s] # NoCall
        PROVE  held'[s] \in Open' \ settled' /\ <<req'[held'[s]].kind, req'[held'[s]].session>> = s
    <3>1. held'[s] = held[s] /\ held[s] \notin S
      BY <1>3, <2>1
    <3>2. held[s] \in Open \ settled /\ Slot(held[s]) = s
      BY <3>1, <2>1 DEF IInv, NoOrphan
    <3>3. held[s] \notin settled'
      BY <3>1, <3>2, <1>1 DEF Settle
    <3> QED BY <3>1, <3>2, <3>3, <1>6 DEF Slot
  <2>2. ASSUME NEW c \in Open' PROVE held'[Slot(c)] = c
    <3>1. c \in Open /\ c \notin S
      BY <1>6, <2>2
    <3>2. held[Slot(c)] = c /\ Slot(c) \in Slots
      BY <3>1, SlotType DEF IInv, NoOrphan, Open
    <3> QED BY <3>1, <3>2, <1>3
  <2>3. \A c : Slot(c)' = Slot(c)
    BY DEF Slot
  <2> QED BY <2>1, <2>2, <2>3 DEF NoOrphan, Slot
<1>8. DeadlineArmed'
  BY <1>1, <1>6 DEF Settle, IInv, DeadlineArmed
<1>9. Fresh'
  BY <1>1, <1>2 DEF Fresh, IInv, Settle
<1> QED BY <1>1, <1>2, <1>4, <1>5, <1>6, <1>7, <1>8, <1>9

\* The conjuncts a settling handler leaves to itself.
LEMMA SettleStep ==
  ASSUME IInv, NEW S \in SUBSET Open, NEW r \in Outcomes, Settle(S, r), req' = req,
         sock' \in [Calls -> {"up", "lost", "closed"}], moved' \subseteq Calls,
         <<reaper, enabled, stored, desk>>' \in BOOLEAN \X BOOLEAN \X BOOLEAN \X BOOLEAN,
         reaper /\ Open' # {} => reaper',
         acks' \in [Calls -> Nat],
         \A c \in Calls : acks'[c] = IF c \in S /\ r \in Acted THEN acks[c] + 1 ELSE acks[c]
  PROVE  IInv'
<1>1. TypeOK'
  BY SettleInv DEF TypeOK, IInv
<1>2. OneAckPerCall'
  <2> SUFFICES ASSUME NEW c \in Calls
               PROVE  acks'[c] = IF outcome'[c] \in Acted THEN 1 ELSE 0
    BY DEF OneAckPerCall
  <2>1. acks[c] = IF outcome[c] \in Acted THEN 1 ELSE 0
    BY DEF IInv, OneAckPerCall
  <2>2. c \in S => outcome[c] = "none" /\ "none" \notin Acted
    BY DEF IInv, Fresh, Open, Acted
  <2>3. outcome'[c] = IF c \in S THEN r ELSE outcome[c]
    BY SettleInv
  <2> QED BY <2>1, <2>2, <2>3
<1>3. ReaperRuns'
  BY SettleInv DEF IInv, ReaperRuns
<1> QED BY <1>1, <1>2, <1>3, SettleInv DEF IInv

\* The initial states satisfy the invariant.
LEMMA InitIInv == Init => IInv
<1> SUFFICES ASSUME Init PROVE IInv
  OBVIOUS
<1>1. TypeOK
  BY DEF Init, TypeOK
<1>2. Open = {}
  BY DEF Init, Open
<1>3. NoOrphan
  BY <1>2 DEF Init, NoOrphan
<1>4. DeadlineArmed /\ ReaperRuns
  BY <1>2 DEF Init, DeadlineArmed, ReaperRuns
<1>5. OneAckPerCall /\ Fresh
  BY DEF Init, OneAckPerCall, Fresh, Acted
<1> QED BY <1>1, <1>3, <1>4, <1>5 DEF IInv

LEMMA ArriveIInv ==
  ASSUME IInv, NEW c \in Calls, NEW r \in Requests, Arrive(c, r)
  PROVE  IInv'
<1>1. TypeOK'
  BY DEF IInv, TypeOK, Arrive, server
<1>2. Open' = Open /\ c \notin Open
  BY DEF IInv, TypeOK, Arrive, Open
<1>3. NoOrphan'
  <2>1. \A d \in Calls : d # c => req'[d] = req[d]
    BY DEF Arrive, IInv, TypeOK
  <2>2. held' = held /\ settled' = settled
    BY DEF Arrive, server
  <2> QED BY <1>2, <2>1, <2>2 DEF NoOrphan, Slot, IInv, Open
<1>4. DeadlineArmed' /\ ReaperRuns' /\ OneAckPerCall'
  BY <1>2 DEF Arrive, server, DeadlineArmed, ReaperRuns, OneAckPerCall, IInv
<1>5. Fresh'
  BY DEF Arrive, server, Fresh, IInv, TypeOK
<1> QED BY <1>1, <1>3, <1>4, <1>5 DEF IInv

LEMMA RefuseIInv ==
  ASSUME IInv, NEW c \in Calls, Refuse(c)
  PROVE  IInv'
<1>1. TypeOK'
  BY DEF IInv, TypeOK, Refuse, server
<1>2. Open' = Open
  BY DEF IInv, TypeOK, Refuse, Open
<1>3. NoOrphan'
  BY <1>2 DEF NoOrphan, Slot, IInv, Refuse, server
<1>4. DeadlineArmed' /\ ReaperRuns' /\ OneAckPerCall'
  BY <1>2 DEF Refuse, server, DeadlineArmed, ReaperRuns, OneAckPerCall, IInv
<1>5. Fresh'
  BY DEF Refuse, server, Fresh, IInv, TypeOK
<1> QED BY <1>1, <1>3, <1>4, <1>5 DEF IInv

LEMMA PeerLeavesIInv ==
  ASSUME IInv, NEW c \in Calls, PeerLeaves(c)
  PROVE  IInv'
<1>1. UNCHANGED <<phase, req, outcome, held, settled, armed, reaper, enabled, stored, desk, moved, acks>>
      /\ sock' \in [Calls -> {"up", "lost", "closed"}]
  BY DEF PeerLeaves, server, IInv, TypeOK
<1>2. Open' = Open
  BY <1>1 DEF Open
<1> QED BY <1>1, <1>2 DEF IInv, TypeOK, NoOrphan, Slot, DeadlineArmed, ReaperRuns, OneAckPerCall, Fresh

LEMMA RegisterIInv ==
  ASSUME IInv, NEW c \in Calls, Register(c)
  PROVE  IInv'
<1> DEFINE s == Slot(c)
           prev == Live(Previous(s))
           dead == sock[c] = "closed"
<1>1. /\ phase[c] = "reading" /\ c \notin Open /\ s \in Slots
      /\ c \notin settled /\ outcome[c] = "none" /\ c # NoCall
  BY SlotType, CallsAssumption DEF Register, IInv, Open, Fresh
<1>2. prev = {held[s]} \ {NoCall} /\ prev \subseteq Open
  BY <1>1 DEF Live, Previous, IInv, NoOrphan
<1>3. \A d \in Open : d \in prev <=> Slot(d) = s
  BY <1>1, <1>2, CallsAssumption DEF IInv, NoOrphan, Open
<1>4. \A d \in Calls :
        /\ outcome'[d] = IF d \in prev THEN "superseded" ELSE outcome[d]
        /\ phase'[d] = IF d \in prev THEN "over" ELSE IF d # c THEN phase[d]
                       ELSE IF dead THEN "over" ELSE "held"
  BY DEF Register
<1>5. Open' = (Open \ prev) \cup (IF dead THEN {} ELSE {c})
  BY <1>1, <1>2, <1>4 DEF Open
<1>6. \A t \in Slots : held'[t] = IF t = s THEN (IF dead THEN NoCall ELSE c) ELSE held[t]
  <2>1. held' = [Dropped(prev) EXCEPT ![s] = IF dead THEN NoCall ELSE c]
    BY DEF Register
  <2>2. ASSUME NEW t \in Slots, held[t] \in prev PROVE t = s
    <3>1. held[t] = held[s] /\ held[t] # NoCall
      BY <1>2, <2>2
    <3> QED BY <1>1, <3>1, <2>2 DEF IInv, NoOrphan
  <2> QED BY <1>1, <2>1, <2>2 DEF Dropped
<1>7. UNCHANGED <<req, sock, enabled, stored, desk, moved, acks>> /\ reaper' = TRUE
      /\ settled' = settled \cup prev \cup (IF dead THEN {c} ELSE {})
      /\ armed' = (armed \ prev) \cup (IF dead THEN {} ELSE {c})
  BY DEF Register, Deadline
<1>8. TypeOK'
  <2>1. phase' \in [Calls -> {"idle", "reading", "held", "over"}]
    BY DEF Register, IInv, TypeOK
  <2>2. outcome' \in [Calls -> Outcomes \cup {"none"}]
    BY DEF Register, IInv, TypeOK, Outcomes
  <2>3. held' \in [Slots -> Calls \cup {NoCall}]
    BY DEF Register, Dropped, IInv, TypeOK
  <2>4. \A d \in Calls : phase'[d] # "idle" => req[d] \in Requests
    BY <1>1, <1>2, <1>4 DEF IInv, TypeOK, Open
  <2> QED BY <1>1, <1>2, <1>7, <2>1, <2>2, <2>3, <2>4 DEF TypeOK, IInv, Open
<1>9. NoOrphan'
  <2>1. ASSUME NEW t \in Slots, held'[t] # NoCall
        PROVE  held'[t] \in Open' \ settled' /\ Slot(held'[t]) = t
    <3>1. CASE t = s
      BY <1>1, <1>2, <1>5, <1>6, <1>7, <2>1, <3>1
    <3>2. CASE t # s
      <4>1. held'[t] = held[t] /\ held[t] \in Open \ settled /\ Slot(held[t]) = t
        BY <1>6, <2>1, <3>2 DEF IInv, NoOrphan
      <4>2. held[t] \notin prev /\ held[t] # c
        BY <1>1, <1>3, <3>2, <4>1
      <4> QED BY <1>5, <1>7, <4>1, <4>2
    <3> QED BY <3>1, <3>2
  <2>2. ASSUME NEW d \in Open' PROVE held'[Slot(d)] = d
    <3>1. CASE d = c
      BY <1>1, <1>2, <1>5, <1>6, <2>2, <3>1
    <3>2. CASE d # c
      <4>1. d \in Open /\ d \notin prev /\ Slot(d) \in Slots
        BY <1>5, <2>2, <3>2, SlotType DEF IInv, Open
      <4> QED BY <1>3, <1>6, <4>1 DEF IInv, NoOrphan
    <3> QED BY <3>1, <3>2
  <2>3. \A d : Slot(d)' = Slot(d)
    BY <1>7 DEF Slot
  <2>4. \A t \in Slots : held'[t] # NoCall =>
          held'[t] \in Open' \ settled' /\ <<req'[held'[t]].kind, req'[held'[t]].session>> = t
    BY <2>1, <1>7 DEF Slot
  <2> QED BY <2>2, <2>3, <2>4 DEF NoOrphan, Slot
<1>10. DeadlineArmed'
  BY <1>5, <1>7 DEF DeadlineArmed, IInv
<1>11. ReaperRuns'
  BY <1>7 DEF ReaperRuns
<1>12. OneAckPerCall'
  BY <1>2, <1>7, <1>4 DEF OneAckPerCall, IInv, Acted, Fresh, Open
<1>13. Fresh'
  BY <1>1, <1>2, <1>7, <1>4 DEF Fresh, IInv, Open
<1> QED BY <1>8, <1>9, <1>10, <1>11, <1>12, <1>13 DEF IInv

LEMMA CloseIInv ==
  ASSUME IInv, IdleIsUp, NEW c \in Calls, Close(c)
  PROVE  IInv'
<1>1. UNCHANGED <<req, outcome, reaper, enabled, stored, desk, moved, acks>>
      /\ sock' \in [Calls -> {"up", "lost", "closed"}]
  BY DEF Close, IInv, TypeOK
<1>2. CASE phase[c] = "reading"
  <2>1. UNCHANGED <<settled, armed, held, phase>>
    BY <1>2 DEF Close
  <2>2. Open' = Open
    BY <2>1 DEF Open
  <2> QED BY <1>1, <2>1, <2>2 DEF IInv, TypeOK, NoOrphan, Slot, DeadlineArmed, ReaperRuns,
                                   OneAckPerCall, Fresh
<1>3. CASE phase[c] # "reading"
  <2>1. phase' = [phase EXCEPT ![c] = "over"] /\ CancelEntry(c)
    BY <1>3 DEF Close
  <2>2. Open' = Open \ {c}
    BY <2>1 DEF Open, IInv, TypeOK
  <2>3. CASE phase[c] = "held"
    <3>1. IsCurrent(c) /\ Slot(c) \in Slots /\ c \in Open
      BY <2>3, SlotType DEF IsCurrent, IInv, NoOrphan, Open
    <3>2. /\ settled' = settled \cup {c} /\ armed' = armed \ {c}
          /\ held' = [held EXCEPT ![Slot(c)] = NoCall]
      BY <2>1, <3>1 DEF CancelEntry, IsCurrent
    <3>3. TypeOK'
      <4>1. phase' \in [Calls -> {"idle", "reading", "held", "over"}]
        BY <2>1 DEF IInv, TypeOK
      <4>2. \A d \in Calls : phase'[d] # "idle" => req[d] \in Requests
        BY <2>1, <2>3 DEF IInv, TypeOK
      <4>3. held' \in [Slots -> Calls \cup {NoCall}] /\ settled' \subseteq Calls /\ armed' \subseteq Calls
        BY <3>1, <3>2 DEF IInv, TypeOK
      <4> QED BY <1>1, <4>1, <4>2, <4>3 DEF IInv, TypeOK
    <3>4. \A t \in Slots : held'[t] = IF t = Slot(c) THEN NoCall ELSE held[t]
      BY <3>1, <3>2 DEF IInv, TypeOK
    <3>5. \A t \in Slots : held'[t] # NoCall =>
            held'[t] \in Open' \ settled' /\ Slot(held'[t]) = t
      <4> SUFFICES ASSUME NEW t \in Slots, held'[t] # NoCall
                   PROVE  held'[t] \in Open' \ settled' /\ Slot(held'[t]) = t
        OBVIOUS
      <4>1. t # Slot(c) /\ held'[t] = held[t]
        BY <3>4
      <4>2. held[t] \in Open \ settled /\ Slot(held[t]) = t
        BY <4>1 DEF IInv, NoOrphan
      <4>3. held[t] # c
        BY <4>1, <4>2
      <4> QED BY <2>2, <3>2, <4>1, <4>2, <4>3
    <3>6. \A d \in Open' : held'[Slot(d)] = d
      <4> SUFFICES ASSUME NEW d \in Open' PROVE held'[Slot(d)] = d
        OBVIOUS
      <4>1. d \in Open /\ d # c /\ Slot(d) \in Slots /\ held[Slot(d)] = d
        BY <2>2, SlotType DEF IInv, NoOrphan, Open
      <4>2. Slot(d) # Slot(c)
        BY <3>1, <4>1 DEF IsCurrent
      <4> QED BY <3>4, <4>1, <4>2
    <3>7. NoOrphan'
      <4>1. \A d : Slot(d)' = Slot(d)
        BY <1>1 DEF Slot
      <4>2. \A t \in Slots : held'[t] # NoCall =>
              held'[t] \in Open' \ settled' /\ <<req'[held'[t]].kind, req'[held'[t]].session>> = t
        BY <3>5, <1>1 DEF Slot
      <4> QED BY <3>6, <4>1, <4>2 DEF NoOrphan, Slot
    <3>8. DeadlineArmed' /\ ReaperRuns' /\ OneAckPerCall'
      BY <1>1, <2>2, <3>2 DEF IInv, DeadlineArmed, ReaperRuns, OneAckPerCall
    <3>9. Fresh'
      BY <1>1, <2>1, <3>2 DEF IInv, Fresh, TypeOK
    <3> QED BY <3>3, <3>7, <3>8, <3>9 DEF IInv
  <2>4. CASE phase[c] # "held"
    <3>1. phase[c] = "over"
      BY <1>3, <2>4 DEF Close, IInv, TypeOK, IdleIsUp
    <3>2. ~IsCurrent(c) /\ phase' = phase
      BY <2>1, <3>1, SlotType, CallsAssumption DEF IsCurrent, IInv, NoOrphan, Open, TypeOK
    <3>3. UNCHANGED <<settled, armed, held>> /\ Open' = Open
      BY <2>1, <3>2 DEF CancelEntry, Open
    <3> QED BY <1>1, <3>2, <3>3 DEF IInv, TypeOK, NoOrphan, Slot, DeadlineArmed, ReaperRuns,
                                    OneAckPerCall, Fresh
  <2> QED BY <2>3, <2>4
<1> QED BY <1>2, <1>3

LEMMA RestartIInv ==
  ASSUME IInv, Restart
  PROVE  IInv'
<1>1. Open' = {}
  BY DEF Restart, Open, IInv, TypeOK
<1>2. \A c \in Calls : phase'[c] = IF phase[c] \in {"reading", "held"} THEN "over" ELSE phase[c]
  BY DEF Restart
<1>3. TypeOK'
  BY <1>2 DEF Restart, IInv, TypeOK
<1>4. NoOrphan' /\ DeadlineArmed' /\ ReaperRuns'
  BY <1>1 DEF Restart, NoOrphan, DeadlineArmed, ReaperRuns
<1>5. OneAckPerCall'
  BY DEF Restart, OneAckPerCall, IInv
<1>6. Fresh'
  BY <1>2 DEF Restart, Fresh, IInv
<1> QED BY <1>3, <1>4, <1>5, <1>6 DEF IInv

\* The handlers that only settle: the deadline, the answers, the sweeps, the toggle.
LEMMA SettlingIInv ==
  ASSUME IInv,
         \/ \E c \in Calls : Timeout(c)
         \/ BrowserStep \/ Tick \/ Scan
         \/ \E on, written \in BOOLEAN : Toggle(on, written)
  PROVE  IInv'
<1>1. Waiting = Open
  BY WaitingIsOpen DEF IInv
<1>2. ASSUME NEW c \in Calls, Timeout(c) PROVE IInv'
  <2>1. {c} \in SUBSET Open
    BY <1>2 DEF Timeout, IInv, DeadlineArmed
  <2> QED BY <1>2, <2>1, SettleStep DEF Timeout, IInv, TypeOK, Outcomes, Acted
<1>3. ASSUME NEW s \in Slots, NEW id \in Calls, Answer(s, id) PROVE IInv'
  <2>1. held[s] = id /\ {held[s]} \in SUBSET Open
    BY <1>3 DEF Answer, Matches, IInv, NoOrphan
  <2> DEFINE r == IF s[1] = "plan" THEN "rejected" ELSE "answered"
  <2>2. r \in Outcomes /\ r \in Acted
    BY DEF Outcomes, Acted
  <2>3. acks' \in [Calls -> Nat] /\ \A c \in Calls : acks'[c] = IF c \in {held[s]} THEN acks[c] + 1 ELSE acks[c]
    BY <1>3, <2>1 DEF Answer, IInv, TypeOK
  <2>4. Settle({held[s]}, r) /\ UNCHANGED <<req, sock, reaper, enabled, stored, desk, moved>>
    BY <1>3 DEF Answer
  <2> HIDE DEF r
  <2> QED BY <2>1, <2>2, <2>3, <2>4, SettleStep DEF IInv, TypeOK
<1>4. ASSUME NEW s \in Slots, NEW id \in Calls, Dismiss(s, id) PROVE IInv'
  <2>1. {held[s]} \in SUBSET Open
    BY <1>4 DEF Dismiss, Matches, IInv, NoOrphan
  <2> QED BY <1>4, <2>1, SettleStep DEF Dismiss, IInv, TypeOK, Outcomes, Acted
<1>5. ASSUME Tick PROVE IInv'
  <2> DEFINE S == IF desk THEN Releasable ELSE {}
  <2>1. S \in SUBSET Open
    BY <1>1 DEF Releasable
  <2>2. Settle(S, "released") /\ UNCHANGED <<req, sock, enabled, stored, desk, moved, acks>>
        /\ reaper' = (\E s \in Slots : held'[s] # NoCall)
    BY <1>5 DEF Tick
  <2> HIDE DEF S
  <2>3. "released" \in Outcomes /\ "released" \notin Acted
    BY DEF Outcomes, Acted
  <2>4. NoOrphan' /\ phase' \in [Calls -> {"idle", "reading", "held", "over"}]
        /\ \A c \in Calls : phase'[c] # "idle" => req'[c] \in Requests
    BY <2>1, <2>2, <2>3, SettleInv
  <2>5. Open' # {} => reaper'
    <3> SUFFICES ASSUME NEW c \in Open' PROVE \E s \in Slots : held'[s] # NoCall
      BY <2>2
    <3>1. c \in Calls /\ phase'[c] = "held" /\ c # NoCall
      BY CallsAssumption DEF Open
    <3>2. req'[c] \in Requests
      BY <2>4, <3>1
    <3>3. <<req'[c].kind, req'[c].session>> \in Slots
      BY <3>2 DEF Requests, Slots
    <3>4. held'[<<req'[c].kind, req'[c].session>>] = c
      BY <2>4 DEF NoOrphan, Slot
    <3> QED BY <3>1, <3>3, <3>4
  <2> QED BY <2>1, <2>2, <2>3, <2>5, SettleStep DEF IInv, TypeOK
<1>6. ASSUME Scan PROVE IInv'
  <2> DEFINE S == {c \in Waiting : req[c].kind # "message" /\ c \in moved}
  <2>1. S \in SUBSET Open
    BY <1>1
  <2>2. Settle(S, "dismissed") /\ UNCHANGED <<req, sock, reaper, enabled, stored, desk, moved, acks>>
    BY <1>6 DEF Scan
  <2> HIDE DEF S
  <2> QED BY <2>1, <2>2, SettleStep DEF IInv, TypeOK, Outcomes, Acted
<1>7. ASSUME NEW on \in BOOLEAN, NEW written \in BOOLEAN, Toggle(on, written) PROVE IInv'
  <2> DEFINE S == IF on THEN {} ELSE Waiting
  <2>1. S \in SUBSET Open
    BY <1>1
  <2>2. Settle(S, "dismissed") /\ UNCHANGED <<req, sock, reaper, desk, moved, acks>>
        /\ enabled' \in BOOLEAN /\ stored' \in BOOLEAN
    BY <1>7 DEF Toggle, IInv, TypeOK
  <2> HIDE DEF S
  <2> QED BY <2>1, <2>2, SettleStep DEF IInv, TypeOK, Outcomes, Acted
<1> QED BY <1>2, <1>3, <1>4, <1>5, <1>6, <1>7 DEF BrowserStep

\* What happens outside the server's stores disturbs none of it.
LEMMA EnvironmentIInv ==
  ASSUME IInv,
         \/ \E s \in Sessions : Converse(s)
         \/ \E there \in BOOLEAN : WalkTo(there)
         \/ UNCHANGED vars
  PROVE  IInv'
<1>1. UNCHANGED <<phase, req, sock, outcome, held, settled, armed, reaper, enabled, stored, acks>>
      /\ moved' \subseteq Calls /\ desk' \in BOOLEAN
  BY DEF Converse, WalkTo, vars, server, IInv, TypeOK
<1>2. Open' = Open
  BY <1>1 DEF Open
<1> QED BY <1>1, <1>2 DEF IInv, TypeOK, NoOrphan, Slot, DeadlineArmed, ReaperRuns, OneAckPerCall, Fresh

LEMMA IdleIsUpStep ==
  ASSUME TypeOK, IdleIsUp, [Next]_vars
  PROVE  IdleIsUp'
<1> SUFFICES ASSUME NEW c \in Calls, phase'[c] = "idle"
             PROVE  phase[c] = "idle" /\ sock'[c] = sock[c]
  BY DEF IdleIsUp
<1>1. ASSUME NEW d \in Calls, CallStep(d) PROVE phase[c] = "idle" /\ sock'[c] = sock[c]
  <2>1. CASE \E r \in Requests : Arrive(d, r)
    BY <2>1 DEF Arrive, TypeOK
  <2>2. CASE Refuse(d)
    BY <2>2 DEF Refuse, TypeOK
  <2>3. CASE Register(d)
    BY <2>3 DEF Register, TypeOK
  <2>4. CASE Timeout(d)
    BY <2>4 DEF Timeout, Settle, TypeOK
  <2>5. CASE PeerLeaves(d)
    BY <2>5 DEF PeerLeaves, TypeOK
  <2>6. CASE Close(d)
    <3>1. phase[d] # "idle"
      BY <2>6 DEF Close, IdleIsUp
    <3>2. phase' = phase \/ phase' = [phase EXCEPT ![d] = "over"]
      BY <2>6 DEF Close
    <3> QED BY <2>6, <3>1, <3>2 DEF Close, TypeOK
  <2> QED BY <1>1, <2>1, <2>2, <2>3, <2>4, <2>5, <2>6 DEF CallStep
<1>2. CASE BrowserStep
  BY <1>2 DEF BrowserStep, Answer, Dismiss, Settle
<1>3. CASE Tick \/ Scan
  BY <1>3 DEF Tick, Scan, Settle
<1>4. CASE Restart
  BY <1>4 DEF Restart
<1>5. CASE \E on, written \in BOOLEAN : Toggle(on, written)
  BY <1>5 DEF Toggle, Settle
<1>6. CASE \/ \E s \in Sessions : Converse(s)
           \/ \E there \in BOOLEAN : WalkTo(there)
           \/ UNCHANGED vars
  BY <1>6 DEF Converse, WalkTo, vars
<1> QED BY <1>1, <1>2, <1>3, <1>4, <1>5, <1>6 DEF Next

-----------------------------------------------------------------------------

\* Every step keeps the invariant.
LEMMA NextIInv ==
  ASSUME IInv, IdleIsUp, [Next]_vars
  PROVE  IInv'
<1>1. ASSUME NEW c \in Calls, CallStep(c) PROVE IInv'
  BY <1>1, ArriveIInv, RefuseIInv, RegisterIInv, PeerLeavesIInv, CloseIInv, SettlingIInv DEF CallStep
<1>2. CASE BrowserStep \/ Tick \/ Scan \/ \E on, written \in BOOLEAN : Toggle(on, written)
  BY <1>2, SettlingIInv
<1>3. CASE Restart
  BY <1>3, RestartIInv
<1>4. CASE \/ \E s \in Sessions : Converse(s)
           \/ \E there \in BOOLEAN : WalkTo(there)
           \/ UNCHANGED vars
  BY <1>4, EnvironmentIInv
<1> QED BY <1>1, <1>2, <1>3, <1>4 DEF Next

\* The strengthened invariant holds in every reachable state.
THEOREM Invariance == Spec => [](IInv /\ IdleIsUp)
<1>1. Init => IInv /\ IdleIsUp
  BY InitIInv DEF Init, IdleIsUp
<1>2. IInv /\ IdleIsUp /\ [Next]_vars => (IInv /\ IdleIsUp)'
  BY NextIInv, IdleIsUpStep DEF IInv
<1> QED BY <1>1, <1>2, PTL DEF Spec

\* Type correctness.
THEOREM TypeCorrect == Spec => []TypeOK
<1>1. IInv => TypeOK
  BY DEF IInv
<1> QED BY <1>1, Invariance, PTL

\* The stores lose no open response: each is its slot's entry (NoOrphan), has its
\* deadline armed (DeadlineArmed) and a running reaper (ReaperRuns).
THEOREM OpenResponsesAreKept == Spec => [](NoOrphan /\ DeadlineArmed /\ ReaperRuns)
<1>1. IInv => NoOrphan /\ DeadlineArmed /\ ReaperRuns
  BY DEF IInv
<1> QED BY <1>1, Invariance, PTL

\* A pick is acknowledged once, for the call that received it.
THEOREM AcksAreTrue == Spec => []OneAckPerCall
<1>1. IInv => OneAckPerCall
  BY DEF IInv
<1> QED BY <1>1, Invariance, PTL

-----------------------------------------------------------------------------

\* One step never ends a connected peer's wait without a result.
LEMMA StepEndsWithResult ==
  ASSUME IInv, Next
  PROVE  \A c \in Open : c \notin Open' => outcome'[c] # "none" \/ sock'[c] = "closed"
<1> SUFFICES ASSUME NEW c \in Open, c \notin Open'
             PROVE  outcome'[c] # "none" \/ sock'[c] = "closed"
  OBVIOUS
<1>1. c \in Calls /\ phase[c] = "held" /\ phase'[c] # "held"
  BY DEF Open
<1>2. ASSUME NEW r \in Outcomes, NEW S, Settle(S, r) PROVE outcome'[c] # "none"
  <2>1. c \in Live(S) /\ outcome'[c] = r
    BY <1>1, <1>2 DEF Settle
  <2> QED BY <2>1 DEF Outcomes, Acted
<1>3. ASSUME NEW d \in Calls, CallStep(d) PROVE outcome'[c] # "none" \/ sock'[c] = "closed"
  <2>1. CASE \E r \in Requests : Arrive(d, r)
    BY <1>1, <2>1 DEF Arrive, IInv, TypeOK
  <2>2. CASE Refuse(d)
    BY <1>1, <2>2 DEF Refuse, IInv, TypeOK
  <2>3. CASE Register(d)
    <3>1. c \in Live(Previous(Slot(d))) /\ outcome'[c] = "superseded"
      BY <1>1, <2>3 DEF Register
    <3> QED BY <3>1
  <2>4. CASE Timeout(d)
    BY <1>2, <2>4 DEF Timeout, Outcomes
  <2>5. CASE PeerLeaves(d)
    BY <1>1, <2>5 DEF PeerLeaves
  <2>6. CASE Close(d)
    <3>1. phase' = phase \/ phase' = [phase EXCEPT ![d] = "over"]
      BY <2>6 DEF Close
    <3> QED BY <1>1, <2>6, <3>1 DEF Close, IInv, TypeOK
  <2> QED BY <1>3, <2>1, <2>2, <2>3, <2>4, <2>5, <2>6 DEF CallStep
<1>4. CASE BrowserStep
  BY <1>2, <1>4 DEF BrowserStep, Answer, Dismiss, Outcomes, Acted
<1>5. CASE Tick \/ Scan \/ \E on, written \in BOOLEAN : Toggle(on, written)
  BY <1>2, <1>5 DEF Tick, Scan, Toggle, Outcomes
<1>6. CASE Restart
  BY <1>1, <1>6 DEF Restart
<1>7. CASE \/ \E s \in Sessions : Converse(s)
           \/ \E there \in BOOLEAN : WalkTo(there)
  BY <1>1, <1>7 DEF Converse, WalkTo
<1> QED BY <1>3, <1>4, <1>5, <1>6, <1>7 DEF Next

\* No step changes what a held call asked for.
LEMMA StepKeepsReq == ASSUME IInv, Next, NEW c \in Open PROVE req'[c] = req[c]
<1>1. c \in Calls /\ phase[c] = "held"
  BY DEF Open
<1>2. ASSUME NEW d \in Calls, CallStep(d) PROVE req'[c] = req[c]
  <2>1. CASE \E r \in Requests : Arrive(d, r)
    BY <1>1, <2>1 DEF Arrive, IInv, TypeOK
  <2> QED BY <1>2, <2>1 DEF CallStep, Refuse, Register, Timeout, PeerLeaves, Close
<1> QED BY <1>2 DEF Next, BrowserStep, Answer, Dismiss, Tick, Scan, Restart, Toggle, Converse, WalkTo

\* A wait whose peer is connected never leaves its store without a result: under
\* NoOrphan, an entry that leaves its slot is a response that is no longer open.
THEOREM NothingIsLostSilently == Spec => NoSilentLoss
<1> DEFINE Leaves(s) == held[s] # NoCall /\ held'[s] # held[s]
           Told(s) == outcome'[held[s]] # "none" \/ sock'[held[s]] = "closed"
<1>1. ASSUME IInv, IInv', Next, NEW s \in Slots, Leaves(s) PROVE Told(s)
  <2>1. held[s] \in Open /\ Slot(held[s]) = s
    BY <1>1 DEF IInv, NoOrphan
  <2>2. held[s] \notin Open'
    <3>1. req'[held[s]] = req[held[s]]
      BY <1>1, <2>1, StepKeepsReq
    <3> QED BY <1>1, <2>1, <3>1 DEF IInv, NoOrphan, Slot
  <2> QED BY <1>1, <2>1, <2>2, StepEndsWithResult
<1>2. IInv /\ IInv' /\ [Next]_vars => [\A s \in Slots : Leaves(s) => Told(s)]_vars
  BY <1>1
<1> QED BY <1>2, Invariance, PTL DEF Spec, NoSilentLoss

-----------------------------------------------------------------------------
(* The refinement of HeldWait.                                              *)

\* A settle of open waits is HW!Meet of the same calls.
LEMMA SettleMeets ==
  ASSUME IInv, NEW S \in SUBSET Open, NEW r \in Outcomes, Settle(S, r), req' = req
  PROVE  HW!Meet(S, r) /\ \A c \in S : Fate[c] = "waiting"
<1>1. \A c \in Calls : outcome'[c] = IF c \in S THEN r ELSE outcome[c]
  BY SettleInv
<1>2. \A c \in Calls : phase'[c] = IF c \in S THEN "over" ELSE phase[c]
  BY SettleInv DEF Settle
<1>3. r # "none"
  BY DEF Outcomes, Acted
<1>4. \A c \in S : Fate[c] = "waiting"
  BY DEF Fate, Open
<1>5. Fate' = [c \in Calls |-> IF c \in S THEN r ELSE Fate[c]]
  BY <1>1, <1>2, <1>3 DEF Fate
<1>6. SlotOf' = [c \in Calls |-> IF c \in S THEN <<NoCall>> ELSE SlotOf[c]]
  BY <1>2 DEF SlotOf, Slot
<1> QED BY <1>4, <1>5, <1>6 DEF HW!Meet

\* A step that ends calls without a result is HW!Lose.
LEMMA LosingLoses ==
  ASSUME IInv, NEW S \in SUBSET Calls, \A c \in S : phase[c] \in {"reading", "held"},
         \A c \in Calls : phase'[c] = IF c \in S THEN "over" ELSE phase[c],
         UNCHANGED <<outcome, req>>
  PROVE  HW!Lose(S)
<1>1. \A c \in S : outcome[c] = "none"
  BY DEF IInv, Fresh
<1>2. \A c \in S : Fate[c] \in {"new", "waiting"}
  BY DEF Fate
<1>3. Fate' = [c \in Calls |-> IF c \in S THEN "lost" ELSE Fate[c]]
  BY <1>1 DEF Fate
<1>4. SlotOf' = [c \in Calls |-> IF c \in S THEN <<NoCall>> ELSE SlotOf[c]]
  BY DEF SlotOf, Slot
<1> QED BY <1>2, <1>3, <1>4 DEF HW!Lose, HW!Meet

\* A registration is HW!Begin, or HW!Flash when its socket is closed already.
LEMMA RegisterBegins ==
  ASSUME IInv, NEW c \in Calls, Register(c)
  PROVE  Slot(c) \in Slots /\ (HW!Begin(c, Slot(c)) \/ HW!Flash(c, Slot(c)))
<1> DEFINE s == Slot(c)
           prev == Live(Previous(s))
           dead == sock[c] = "closed"
           out == {d \in Calls : SlotOf[d] = s}
<1>1. phase[c] = "reading" /\ s \in Slots /\ outcome[c] = "none" /\ c \notin Open
  BY SlotType DEF Register, IInv, Open, Fresh
<1>2. prev = {held[s]} \ {NoCall} /\ prev \subseteq Open
  BY <1>1 DEF Live, Previous, IInv, NoOrphan
<1>3. s # <<NoCall>>
  BY <1>1 DEF Slots
<1>4. prev = out
  <2>1. ASSUME NEW d \in prev PROVE d \in out
    BY <1>1, <1>2, <2>1 DEF SlotOf, Open, IInv, NoOrphan
  <2>2. ASSUME NEW d \in out PROVE d \in prev
    <3>1. d \in Open /\ Slot(d) = s
      BY <1>3, <2>2 DEF SlotOf, Open
    <3>2. held[s] = d /\ d # NoCall
      BY <3>1, CallsAssumption DEF IInv, NoOrphan, Open
    <3> QED BY <1>2, <3>2
  <2> QED BY <2>1, <2>2
<1>5. \A d \in Calls :
        /\ outcome'[d] = IF d \in prev THEN "superseded" ELSE outcome[d]
        /\ phase'[d] = IF d \in prev THEN "over" ELSE IF d # c THEN phase[d]
                       ELSE IF dead THEN "over" ELSE "held"
  BY DEF Register
<1>6. req' = req /\ c \notin prev
  BY <1>1, <1>2 DEF Register
<1>7. Fate[c] = "new"
  BY <1>1 DEF Fate
<1>8. Fate' = [d \in Calls |-> IF d = c THEN (IF dead THEN "lost" ELSE "waiting")
                               ELSE IF d \in prev THEN "superseded" ELSE Fate[d]]
  BY <1>1, <1>5, <1>6 DEF Fate
<1>9. SlotOf' = [d \in Calls |-> IF d = c THEN (IF dead THEN <<NoCall>> ELSE s)
                                 ELSE IF d \in prev THEN <<NoCall>> ELSE SlotOf[d]]
  BY <1>1, <1>5, <1>6 DEF SlotOf, Slot
<1> HIDE DEF prev
<1>10. CASE ~dead
  BY <1>1, <1>4, <1>7, <1>8, <1>9, <1>10 DEF HW!Begin
<1>11. CASE dead
  <2>1. SlotOf[c] = <<NoCall>>
    BY <1>1 DEF SlotOf
  <2>2. SlotOf' = [d \in Calls |-> IF d \in out THEN <<NoCall>> ELSE SlotOf[d]]
    BY <1>4, <1>9, <1>11, <2>1
  <2>3. Fate' = [d \in Calls |-> IF d = c THEN "lost"
                                 ELSE IF d \in out THEN "superseded" ELSE Fate[d]]
    BY <1>4, <1>8, <1>11
  <2> QED BY <1>1, <1>7, <2>2, <2>3 DEF HW!Flash
<1> QED BY <1>1, <1>10, <1>11

\* Every step of the stores is a step of HeldWait, or none.
LEMMA StepRefines ==
  ASSUME IInv, IdleIsUp, [Next]_vars
  PROVE  [HW!Next]_(HW!vars)
<1> DEFINE goal == [HW!Next]_(HW!vars)
<1>1. ASSUME UNCHANGED <<phase, req, outcome>> PROVE goal
  BY <1>1 DEF HW!vars, Fate, SlotOf, Slot
<1>2. ASSUME NEW S \in SUBSET Open, NEW r \in Outcomes \ (Acted \cup {"superseded"}),
             Settle(S, r), req' = req
      PROVE  goal
  <2>1. HW!Meet(S, r) /\ \A c \in S : Fate[c] = "waiting"
    BY <1>2, SettleMeets
  <2>2. r \in HW!HandedBack
    BY DEF Outcomes, HW!HandedBack
  <2>3. HW!HandBack(S) /\ S \in SUBSET Calls
    BY <2>1, <2>2 DEF HW!HandBack, Open
  <2> QED BY <2>3 DEF HW!Next
<1>3. ASSUME NEW c \in Open, NEW r \in Acted, Settle({c}, r), req' = req
      PROVE  goal
  <2>1. HW!Meet({c}, r) /\ Fate[c] = "waiting"
    BY <1>3, SettleMeets DEF Outcomes
  <2>2. HW!Act(c) /\ c \in Calls
    BY <2>1 DEF HW!Act, HW!Acted, Acted, Open
  <2> QED BY <2>2 DEF HW!Next
<1>4. ASSUME NEW S \in SUBSET Calls, HW!Lose(S) PROVE goal
  BY <1>4 DEF HW!Next
<1>5. Waiting = Open
  BY WaitingIsOpen DEF IInv
<1>6. ASSUME NEW c \in Calls, CallStep(c) PROVE goal
  <2>1. ASSUME NEW r \in Requests, Arrive(c, r) PROVE goal
    <3>1. outcome' = outcome /\ \A d \in Calls : d # c => phase'[d] = phase[d] /\ req'[d] = req[d]
      BY <2>1 DEF Arrive, IInv, TypeOK
    <3>2. phase[c] = "idle" /\ phase'[c] = "reading"
      BY <2>1 DEF Arrive, IInv, TypeOK
    <3>3. Fate' = Fate
      BY <3>1, <3>2 DEF Fate
    <3>4. SlotOf' = SlotOf
      BY <3>1, <3>2 DEF SlotOf, Slot
    <3> QED BY <3>3, <3>4 DEF HW!vars
  <2>2. CASE Refuse(c)
    <3>1. \A d \in Calls : phase'[d] = IF d \in {c} THEN "over" ELSE phase[d]
      BY <2>2 DEF Refuse, IInv, TypeOK
    <3>2. phase[c] \in {"reading", "held"} /\ UNCHANGED <<outcome, req>>
      BY <2>2 DEF Refuse
    <3> QED BY <3>1, <3>2, <1>4, LosingLoses
  <2>3. CASE Register(c)
    BY <2>3, RegisterBegins DEF HW!Next
  <2>4. CASE Timeout(c)
    <3>1. {c} \in SUBSET Open
      BY <2>4 DEF Timeout, IInv, DeadlineArmed
    <3> QED BY <2>4, <3>1, <1>2 DEF Timeout, Outcomes, Acted
  <2>5. CASE PeerLeaves(c)
    BY <2>5, <1>1 DEF PeerLeaves
  <2>6. CASE Close(c)
    <3>1. CASE phase[c] = "held"
      <4>1. \A d \in Calls : phase'[d] = IF d \in {c} THEN "over" ELSE phase[d]
        BY <2>6, <3>1 DEF Close, IInv, TypeOK
      <4> QED BY <2>6, <3>1, <4>1, <1>4, LosingLoses DEF Close
    <3>2. CASE phase[c] = "reading"
      BY <2>6, <3>2, <1>1 DEF Close
    <3>3. CASE phase[c] = "over"
      <4>1. phase' = [phase EXCEPT ![c] = "over"] /\ phase \in [Calls -> {"idle", "reading", "held", "over"}]
        BY <2>6, <3>3 DEF Close, IInv, TypeOK
      <4>2. phase' = phase
        BY <3>3, <4>1
      <4> QED BY <2>6, <4>2, <1>1 DEF Close
    <3>4. phase[c] # "idle"
      BY <2>6 DEF Close, IdleIsUp
    <3> QED BY <3>1, <3>2, <3>3, <3>4 DEF IInv, TypeOK
  <2> QED BY <1>6, <2>1, <2>2, <2>3, <2>4, <2>5, <2>6 DEF CallStep
<1>7. ASSUME NEW s \in Slots, NEW id \in Calls, Answer(s, id) \/ Dismiss(s, id) PROVE goal
  <2>1. held[s] \in Open
    BY <1>7 DEF Answer, Dismiss, Matches, IInv, NoOrphan
  <2>2. CASE Answer(s, id)
    BY <2>1, <2>2, <1>3 DEF Answer, Acted
  <2>3. CASE Dismiss(s, id)
    BY <2>1, <2>3, <1>2 DEF Dismiss, Outcomes, Acted
  <2> QED BY <1>7, <2>2, <2>3
<1>8. CASE Tick
  <2> DEFINE S == IF desk THEN Releasable ELSE {}
  <2>1. S \in SUBSET Open /\ Settle(S, "released") /\ req' = req
    BY <1>5, <1>8 DEF Releasable, Tick
  <2> QED BY <2>1, <1>2 DEF Outcomes, Acted
<1>9. CASE Scan
  <2> DEFINE S == {c \in Waiting : req[c].kind # "message" /\ c \in moved}
  <2>1. S \in SUBSET Open /\ Settle(S, "dismissed") /\ req' = req
    BY <1>5, <1>9 DEF Scan
  <2> QED BY <2>1, <1>2 DEF Outcomes, Acted
<1>10. ASSUME NEW on \in BOOLEAN, NEW written \in BOOLEAN, Toggle(on, written) PROVE goal
  <2> DEFINE S == IF on THEN {} ELSE Waiting
  <2>1. S \in SUBSET Open /\ Settle(S, "dismissed") /\ req' = req
    BY <1>5, <1>10 DEF Toggle
  <2> QED BY <2>1, <1>2 DEF Outcomes, Acted
<1>11. CASE Restart
  <2> DEFINE S == {c \in Calls : phase[c] \in {"reading", "held"}}
  <2>1. \A c \in Calls : phase'[c] = IF c \in S THEN "over" ELSE phase[c]
    BY <1>11 DEF Restart
  <2>2. UNCHANGED <<outcome, req>>
    BY <1>11 DEF Restart
  <2>3. HW!Lose(S)
    BY <2>1, <2>2, LosingLoses
  <2> QED BY <2>3, <1>4
<1>12. CASE \/ \E s \in Sessions : Converse(s)
            \/ \E there \in BOOLEAN : WalkTo(there)
            \/ UNCHANGED vars
  BY <1>12, <1>1 DEF Converse, WalkTo, vars
<1> QED BY <1>6, <1>7, <1>8, <1>9, <1>10, <1>11, <1>12 DEF Next, BrowserStep

\* The wait stores implement HeldWait: each held call meets one fate.
THEOREM Refinement == Spec => ImplementsHeldWait
<1>1. Init => HW!Init
  BY DEF Init, HW!Init, Fate, SlotOf
<1>2. (IInv /\ IdleIsUp) /\ [Next]_vars => [HW!Next]_(HW!vars)
  BY StepRefines
<1> QED BY <1>1, <1>2, Invariance, PTL DEF Spec, HW!Spec, ImplementsHeldWait
=============================================================================
