------------------------------ MODULE PinRows ------------------------------
(***************************************************************************)
(* The pinned projects of one tab (client usePins.ts over pinWrite.ts) and *)
(* the list the server keeps (settings.ts setPinned and setPinOrder behind *)
(* api.ts servePinsWrite and servePinsOrder).  Another tab may change the  *)
(* list at any time.  A reorder shows its order before it is stored, and   *)
(* rolls it back when it is refused.                                       *)
(***************************************************************************)
EXTENDS Naturals, Sequences, FiniteSets

CONSTANTS Dirs, MaxPins, Idle
ASSUME PinBounds == MaxPins \in Nat /\ IsFiniteSet(Dirs)

VARIABLES
  pinned,   \* the server's list
  rows,     \* the tab's
  before,   \* the rows a reorder would go back to
  write,    \* the write in flight: busy
  behind    \* history: the tab was not told of something stored

pinVars == <<pinned, rows, before, write, behind>>

Distinct(s) == \A i, j \in DOMAIN s : s[i] = s[j] => i = j
Lists == {s \in UNION {[1..n -> Dirs] : n \in 0..MaxPins} : Distinct(s)}
Members(s) == {s[i] : i \in DOMAIN s}
PinOutcomes == {"fresh", "saved", "conflict", "failed"}
\* `got` is the list the answer carries.
Writes == [op : {"pin", "unpin"}, dir : Dirs, outcome : PinOutcomes \cup {"sent"}, got : Lists]
          \cup [op : {"order"}, list : Lists, outcome : PinOutcomes \cup {"sent"}, got : Lists]
ASSUME IdleIsNoWrite == Idle \notin Writes

PinTypeOK ==
  /\ pinned \in Lists /\ rows \in Lists /\ before \in Lists
  /\ write \in Writes \cup {Idle} /\ behind \in BOOLEAN

\* GET /api/pins was answered on mount.
PinInit == \E s \in Lists : pinned = s /\ rows = s /\ before = s /\ write = Idle /\ behind = FALSE

-----------------------------------------------------------------------------
\* The server's setPinned: the new list, or none past the limit.  A pin stands once, so
\* what the filter leaves is what is before and after it.
WithPin(dir, on) ==
  IF on = (dir \in Members(pinned)) THEN {pinned}
  ELSE IF on THEN IF Len(pinned) < MaxPins THEN {Append(pinned, dir)} ELSE {}
  ELSE {SubSeq(pinned, 1, k - 1) \o SubSeq(pinned, k + 1, Len(pinned)) : k \in {i \in DOMAIN pinned : pinned[i] = dir}}

\* setPinOrder: only a permutation of the stored list.  Mutant: any list of stored pins.
AnySelection(list) == IF Members(list) \subseteq Members(pinned) THEN {list} ELSE {}
WithOrder(list) ==
  IF Members(list) = Members(pinned) /\ Len(list) = Len(pinned) THEN {list} ELSE {}

Stored(w) == IF w.op = "order" THEN WithOrder(w.list) ELSE WithPin(w.dir, w.op = "pin")

\* The other tab's pin, unpin or reorder.
OtherTab ==
  /\ \/ \E d \in Dirs, on \in BOOLEAN : pinned' \in WithPin(d, on)
     \/ \E s \in Lists : pinned' \in WithOrder(s)
  /\ pinned' # pinned /\ behind' = TRUE
  /\ UNCHANGED <<rows, before, write>>

\* The route stored it, and answers with the list, or that it cannot re-read it;
\* or the answer is lost on the way.
ServerStores ==
  /\ write # Idle /\ write.outcome = "sent"
  /\ \E s \in Stored(write), o \in {"fresh", "saved", "failed"} :
       /\ pinned' = s /\ write' = [write EXCEPT !.outcome = o, !.got = IF o = "fresh" THEN s ELSE @]
       /\ behind' = (o # "fresh" /\ (behind \/ o = "failed" \/ write.op # "order"))
  /\ UNCHANGED <<rows, before>>

\* A 409, or a 4xx or a network failure before the list was touched.
ServerRejects ==
  /\ write # Idle /\ write.outcome = "sent"
  /\ \E o \in {"conflict", "failed"} :
       /\ o = "conflict" => Stored(write) = {}
       /\ write' = [write EXCEPT !.outcome = o]
  /\ UNCHANGED <<pinned, rows, before, behind>>

-----------------------------------------------------------------------------
\* setPin.  `busy` greys the other controls out.
SetPin(dir, op) ==
  /\ write = Idle /\ write' = [op |-> op, dir |-> dir, outcome |-> "sent", got |-> <<>>]
  /\ UNCHANGED <<pinned, rows, before, behind>>

\* reorder: the rows take the order first.
Reorder(list) ==
  /\ write = Idle /\ Members(list) = Members(rows) /\ list # rows
  /\ before' = rows /\ rows' = list
  /\ write' = [op |-> "order", list |-> list, outcome |-> "sent", got |-> <<>>]
  /\ UNCHANGED <<pinned, behind>>

\* A fresh payload becomes the rows.  Mutant: it is not looked at.
KeepsRows(list) == rows' = rows
ShowsList(list) == rows' = list

\* Mutant: only a fresh list keeps the new rows.
RollsSavedBack == IF write.outcome # "conflict" THEN rows' = before /\ UNCHANGED behind ELSE ShowsList(pinned) /\ behind' = FALSE
\* What a reorder that brought no fresh list does with the rows.
OrderSettles ==
  CASE write.outcome = "saved"    -> UNCHANGED <<rows, behind>>
    [] write.outcome = "failed"   -> rows' = before /\ UNCHANGED behind
    [] write.outcome = "conflict" -> \/ ShowsList(pinned) /\ behind' = FALSE
                                     \/ rows' = before /\ UNCHANGED behind   \* the reload may fail

WriteSettles ==
  /\ write # Idle /\ write.outcome # "sent"
  /\ IF write.outcome = "fresh" THEN ShowsList(write.got) /\ UNCHANGED behind
     ELSE IF write.op = "order" THEN OrderSettles ELSE UNCHANGED <<rows, behind>>
  /\ write' = Idle
  /\ UNCHANGED <<pinned, before>>

PinNext ==
  \/ OtherTab \/ ServerStores \/ ServerRejects \/ WriteSettles
  \/ \E d \in Dirs, op \in {"pin", "unpin"} : SetPin(d, op)
  \/ \E s \in Lists : Reorder(s)

PinSpec == PinInit /\ [][PinNext]_pinVars

-----------------------------------------------------------------------------
(* At rest, the rows are what the server stores, unless another tab or a    *)
(* lost answer left this one behind: a saved order is not rolled back, a    *)
(* refused one is.                                                          *)
RowsAreStored == write = Idle /\ ~behind => rows = pinned

(* A reorder changes no pin, even one made from rows that another tab has   *)
(* since pinned to or unpinned from ("a stale tab can neither drop nor      *)
(* resurrect a pin").                                                       *)
OrderKeepsPins ==
  [][write # Idle /\ write.op = "order" /\ write.outcome = "sent" /\ write' # write
     => Members(pinned') = Members(pinned)]_pinVars

(* A 409 on a reorder means what the tab then says: another tab changed the *)
(* pins, or an answer to this one was lost.                                 *)
ConflictIsNews == write # Idle /\ write.op = "order" /\ write.outcome = "conflict" => behind

(* Two tabs and one stored list: rows, pins and conflicts tell the truth.   *)
PinsAreShared == [](RowsAreStored /\ ConflictIsNews) /\ OrderKeepsPins
=============================================================================
