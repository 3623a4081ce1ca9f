--------------------------- MODULE SessionsProofs ---------------------------
(***************************************************************************)
(* What is proved of the server's memory of the sessions and their limits: *)
(* the desktop hand-over and its rail, the permission flag, the            *)
(* newest-record cache, the record of the usage alerts, and the types of   *)
(* the bundle they run in.  For any finite set of sessions, any rail, any  *)
(* times the flag's assumptions order, any window, chunk and slack of the  *)
(* cache, and any accounts and windows of the limits.                      *)
(***************************************************************************)
EXTENDS MCSessions, Integers, FiniteSetTheorems, NaturalsInduction, WellFoundedInduction, TLAPS

(* The hand-over.                                                           *)
(* While a child takes its turn the transcript is not finished.             *)
TurnIsOpen == \A i \in Sessions : proc[i] = "turn" => turn[i] \in {"open", "apierr"}

(* A session the rail or the app knows has a transcript.                    *)
KnownHasTurn ==
  /\ \A m \in marks \cup opening : turn[m.id] # "none"
  /\ \A i \in Sessions : app[i] # "none" => turn[i] # "none"

(* A child that starts on a transcript somebody watches is an overlap.      *)
StartIsOverlap ==
  \A i \in Sessions :
    proc[i] = "starting" /\ turn[i] # "none" /\ watch[i] # "off" => i \in overlap

(* Where a link is under way, or has reached the app, the child is done.    *)
AtRest(i) == proc[i] \in {"none", "linger"} \/ i \in overlap
LinkAtRest == \A m \in marks : m \in opening => AtRest(m.id)
AppAtRest == \A i \in Sessions : app[i] # "none" => AtRest(i)

(* Until the app has written its record, the mark of the link it got lives. *)
LinkedIsMarked ==
  \A i \in Sessions : app[i] = "linked" => \E m \in marks : m.id = i /\ m \notin opening

HandOverInner ==
  TurnIsOpen /\ KnownHasTurn /\ StartIsOverlap /\ LinkAtRest /\ AppAtRest /\ LinkedIsMarked

HandOverInv == TypeOK /\ HandOverInner

-----------------------------------------------------------------------------
LEMMA SlotType == \A i \in Sessions, by \in By : Slot(i, by) \in Slots
BY DEF Slot, Slots

LEMMA SlotFields == \A m \in Slots : m.id \in Sessions /\ m.by \in By
BY DEF Slots

(* The invariant holds at boot.                                             *)
LEMMA HandOverStart == Init => HandOverInv
<1> SUFFICES ASSUME Init PROVE HandOverInv
  OBVIOUS
<1>1. 0 \in 0 .. MaxPresses
  BY PressesAssumption
<1>2. TypeOK
  BY <1>1, PressesAssumption DEF Init, TypeOK, All
<1>3. HandOverInner
  BY DEF Init, All, HandOverInner, TurnIsOpen, KnownHasTurn, StartIsOverlap, LinkAtRest, AppAtRest,
         LinkedIsMarked, AtRest
<1> QED BY <1>2, <1>3 DEF HandOverInv

-----------------------------------------------------------------------------
(* Types.                                                                   *)
LEMMA HandOverTypes == ASSUME TypeOK, [Next]_vars PROVE TypeOK'
<1> USE SlotType, PressesAssumption DEF TypeOK
<1>0. ASSUME NEW i \in Sessions, ChildStep(i) PROVE TypeOK'
  <2>1. proc' \in [Sessions -> {"none", "starting", "turn", "deciding", "linger"}]
    BY <1>0 DEF ChildStep, Becomes
  <2>2. turn' \in [Sessions -> {"none", "open", "done", "apierr"}]
    BY <1>0 DEF ChildStep, Writes
  <2>3. settled' \in [Sessions -> BOOLEAN]
    BY <1>0 DEF ChildStep, Writes
  <2> QED BY <1>0, <2>1, <2>2, <2>3 DEF ChildStep, rail
<1>1. ASSUME NEW i \in Sessions, Exit(i) PROVE TypeOK'
  BY <1>1 DEF Exit, Becomes, rail
<1>2. ASSUME NEW i \in Sessions, EntryGoes(i) \/ AppRecord(i) \/ LaunchForDesktop(i) \/ Resume(i)
      PROVE  TypeOK'
  BY <1>2 DEF EntryGoes, AppRecord, LaunchForDesktop, Resume, Becomes, rail, child
<1>3. ASSUME NEW i \in Sessions, Press(i) PROVE TypeOK'
  <2>1. Slot(i, "drawer") \in Slots
    BY DEF By
  <2> QED BY <1>3, <2>1 DEF Press, Reserve, child
<1>4. ASSUME NEW i \in Sessions, PollGivesUp(i) \/ PollUnsettles(i) \/ PollSettles(i)
      PROVE  TypeOK'
  BY <1>4 DEF PollGivesUp, PollUnsettles, PollSettles, StopsWatching, rail, child
<1>5. ASSUME NEW i \in Sessions, PollLinks(i) PROVE TypeOK'
  <2>1. Slot(i, "watch") \in Slots
    BY DEF By
  <2> QED BY <1>5, <2>1 DEF PollLinks, Reserve, child
<1>6. ASSUME NEW i \in Sessions, WatchExpires(i) PROVE TypeOK'
  BY <1>6 DEF WatchExpires, StopsWatching, rail, child
<1>7. ASSUME NEW m \in Slots, Expire(m) \/ OpenOk(m) \/ OpenFails(m) PROVE TypeOK'
  BY <1>7, SlotFields DEF Expire, OpenOk, OpenFails, Pruned, Released, child
<1>8. ASSUME Restart PROVE TypeOK'
  BY <1>8 DEF Restart, All
<1>9. CASE UNCHANGED vars
  BY <1>9 DEF vars, rail, child
<1> QED
  BY <1>0, <1>1, <1>2, <1>3, <1>4, <1>5, <1>6, <1>7, <1>8, <1>9 DEF Next, Poll

-----------------------------------------------------------------------------
(* The headless child.  A child at rest stays so unless it starts again, and*)
(* only a child that starts or decides opens a turn.                        *)
LEMMA ChildKeeps ==
  ASSUME HandOverInv, NEW i \in Sessions, ChildStep(i) \/ Exit(i) \/ EntryGoes(i)
  PROVE  HandOverInner'
<1> USE DEF HandOverInv, TypeOK
<1>1. UNCHANGED <<watch, marks, opening, app, overlap>>
  BY DEF ChildStep, Exit, EntryGoes, rail
<1>2. \A j \in Sessions : turn[j] # "none" => turn'[j] # "none"
  BY DEF ChildStep, Exit, EntryGoes, Writes, child
<1>3. TurnIsOpen'
  BY DEF ChildStep, Exit, EntryGoes, Writes, Becomes, child, HandOverInner, TurnIsOpen
<1>4. \A j \in Sessions : proc'[j] = "starting" => proc[j] = "starting" /\ turn'[j] = turn[j]
  BY DEF ChildStep, Exit, EntryGoes, Writes, Becomes, child
<1>5. StartIsOverlap'
  BY <1>1, <1>4 DEF HandOverInner, StartIsOverlap
<1>6. \A j \in Sessions : AtRest(j) => AtRest(j)'
  BY <1>1 DEF ChildStep, Exit, EntryGoes, Becomes, child, AtRest
<1>7. \A m \in marks \cup opening : m.id \in Sessions
  BY SlotFields
<1>8. KnownHasTurn'
  BY <1>1, <1>2, <1>7 DEF HandOverInner, KnownHasTurn
<1>9. LinkAtRest'
  BY <1>1, <1>6, <1>7 DEF HandOverInner, LinkAtRest
<1>10. AppAtRest'
  BY <1>1, <1>6 DEF HandOverInner, AppAtRest
<1>11. LinkedIsMarked'
  BY <1>1 DEF HandOverInner, LinkedIsMarked
<1> QED BY <1>3, <1>5, <1>8, <1>9, <1>10, <1>11 DEF HandOverInner

(* The steps of the rail and of the app.                                    *)
LEMMA ExpireKeeps ==
  ASSUME HandOverInv, NEW m \in Slots, Expire(m)
  PROVE  HandOverInner'
<1> USE DEF HandOverInv, TypeOK
<1>1. UNCHANGED <<proc, turn, watch, opening, app, overlap>> /\ marks' = marks \ {m}
  BY DEF Expire, Pruned, child
<1>2. app[m.id] # "linked"
  BY DEF Expire, AppWritesInTime
<1>3. TurnIsOpen' /\ KnownHasTurn' /\ StartIsOverlap' /\ AppAtRest'
  BY <1>1 DEF HandOverInner, TurnIsOpen, KnownHasTurn, StartIsOverlap, AppAtRest, AtRest
<1>4. LinkAtRest'
  BY <1>1 DEF HandOverInner, LinkAtRest, AtRest
<1>5. LinkedIsMarked'
  BY <1>1, <1>2 DEF HandOverInner, LinkedIsMarked
<1> QED BY <1>3, <1>4, <1>5 DEF HandOverInner

LEMMA OpenOkKeeps ==
  ASSUME HandOverInv, NEW m \in Slots, OpenOk(m)
  PROVE  HandOverInner'
<1> USE DEF HandOverInv, TypeOK
<1>1. /\ UNCHANGED <<proc, turn, marks, overlap>>
      /\ opening' = opening \ {m} /\ m \in opening /\ m \in marks /\ m.id \in Sessions
      /\ app' = [app EXCEPT ![m.id] = IF @ = "none" THEN "linked" ELSE @]
  BY SlotFields DEF OpenOk, child
<1>2. \A j \in Sessions : watch'[j] # "off" => watch[j] # "off"
  BY <1>1 DEF OpenOk
<1>3. TurnIsOpen' /\ StartIsOverlap'
  BY <1>1, <1>2 DEF HandOverInner, TurnIsOpen, StartIsOverlap
<1>4. KnownHasTurn'
  BY <1>1 DEF HandOverInner, KnownHasTurn
<1>5. LinkAtRest'
  BY <1>1 DEF HandOverInner, LinkAtRest, AtRest
<1>6. AppAtRest'
  <2>1. AtRest(m.id)
    BY <1>1 DEF HandOverInner, LinkAtRest
  <2> QED BY <1>1, <2>1 DEF HandOverInner, AppAtRest, AtRest
<1>7. LinkedIsMarked'
  <2> SUFFICES ASSUME NEW j \in Sessions, app'[j] = "linked"
               PROVE  \E n \in marks' : n.id = j /\ n \notin opening'
    BY DEF LinkedIsMarked
  <2>1. CASE j = m.id
    BY <1>1, <2>1
  <2>2. CASE j # m.id
    BY <1>1, <2>2 DEF HandOverInner, LinkedIsMarked
  <2> QED BY <2>1, <2>2
<1> QED BY <1>3, <1>4, <1>5, <1>6, <1>7 DEF HandOverInner

LEMMA OpenFailsKeeps ==
  ASSUME HandOverInv, NEW m \in Slots, OpenFails(m)
  PROVE  HandOverInner'
<1> USE DEF HandOverInv, TypeOK
<1>1. /\ UNCHANGED <<proc, turn, app, overlap>>
      /\ opening' = opening \ {m} /\ marks' = marks \ {m} /\ m \in opening
  BY DEF OpenFails, Released, child
<1>2. \A j \in Sessions : watch'[j] # "off" => watch[j] # "off"
  BY SlotFields DEF OpenFails
<1>3. TurnIsOpen' /\ StartIsOverlap'
  BY <1>1, <1>2 DEF HandOverInner, TurnIsOpen, StartIsOverlap
<1>4. KnownHasTurn' /\ AppAtRest'
  BY <1>1 DEF HandOverInner, KnownHasTurn, AppAtRest, AtRest
<1>5. LinkAtRest'
  BY <1>1 DEF HandOverInner, LinkAtRest, AtRest
<1>6. LinkedIsMarked'
  BY <1>1 DEF HandOverInner, LinkedIsMarked
<1> QED BY <1>3, <1>4, <1>5, <1>6 DEF HandOverInner

LEMMA AppRecordKeeps ==
  ASSUME HandOverInv, NEW i \in Sessions, AppRecord(i)
  PROVE  HandOverInner'
<1> USE DEF HandOverInv, TypeOK
<1>1. /\ UNCHANGED <<proc, turn, watch, marks, opening, overlap>>
      /\ app' = [app EXCEPT ![i] = "owned"] /\ app[i] = "linked"
  BY DEF AppRecord, child, rail
<1>2. TurnIsOpen' /\ StartIsOverlap' /\ KnownHasTurn'
  BY <1>1 DEF HandOverInner, TurnIsOpen, StartIsOverlap, KnownHasTurn
<1>3. LinkAtRest' /\ AppAtRest' /\ LinkedIsMarked'
  BY <1>1 DEF HandOverInner, LinkAtRest, AppAtRest, AtRest, LinkedIsMarked
<1> QED BY <1>2, <1>3 DEF HandOverInner

-----------------------------------------------------------------------------
(* The handlers.  A fresh launch names a session nothing knows.             *)
LEMMA LaunchKeeps ==
  ASSUME HandOverInv, NEW i \in Sessions, LaunchForDesktop(i)
  PROVE  HandOverInner'
<1> USE DEF HandOverInv, TypeOK
<1>1. /\ UNCHANGED <<turn, marks, opening, app, overlap>>
      /\ turn[i] = "none" /\ proc' = [proc EXCEPT ![i] = "starting"]
      /\ watch' = [watch EXCEPT ![i] = "on"]
  BY DEF LaunchForDesktop, Becomes, rail
<1>2. app[i] = "none" /\ \A m \in marks \cup opening : m.id # i /\ m.id \in Sessions
  BY <1>1, SlotFields DEF HandOverInner, KnownHasTurn
<1>3. TurnIsOpen' /\ KnownHasTurn' /\ StartIsOverlap' /\ LinkedIsMarked'
  BY <1>1 DEF HandOverInner, TurnIsOpen, KnownHasTurn, StartIsOverlap, LinkedIsMarked
<1>4. LinkAtRest' /\ AppAtRest'
  BY <1>1, <1>2 DEF HandOverInner, LinkAtRest, AppAtRest, AtRest
<1> QED BY <1>3, <1>4 DEF HandOverInner

(* A resume finds no mark and no owner, so the app has nothing of it yet.   *)
LEMMA ResumeKeeps ==
  ASSUME HandOverInv, NEW i \in Sessions, Resume(i)
  PROVE  HandOverInner'
<1> USE DEF HandOverInv, TypeOK
<1>1. /\ UNCHANGED <<turn, watch, marks, opening, app>>
      /\ proc' = [proc EXCEPT ![i] = "starting"]
      /\ overlap' = IF watch[i] = "off" THEN overlap ELSE overlap \cup {i}
  BY DEF Resume, Becomes, rail
<1>2. /\ app[i] # "owned" /\ \A m \in marks : m.id # i
      /\ \A m \in marks : m.id \in Sessions
  BY SlotFields DEF Resume, MayResume, ResumeTarget, InFlight
<1>3. app[i] = "none"
  BY <1>2 DEF HandOverInner, LinkedIsMarked
<1>4. TurnIsOpen' /\ KnownHasTurn' /\ LinkedIsMarked'
  BY <1>1 DEF HandOverInner, TurnIsOpen, KnownHasTurn, LinkedIsMarked
<1>5. StartIsOverlap'
  BY <1>1 DEF HandOverInner, StartIsOverlap
<1>6. LinkAtRest' /\ AppAtRest'
  BY <1>1, <1>2, <1>3 DEF HandOverInner, LinkAtRest, AppAtRest, AtRest
<1> QED BY <1>4, <1>5, <1>6 DEF HandOverInner

(* A place is reserved for a session at rest.                               *)
LEMMA ReserveKeeps ==
  ASSUME HandOverInv, NEW i \in Sessions, NEW by \in By, Reserve(i, by),
         turn[i] # "none", AtRest(i),
         UNCHANGED <<proc, turn, app, overlap>>,
         \A j \in Sessions : watch'[j] # "off" => watch[j] # "off",
         \A m \in marks : m.id # i
  PROVE  HandOverInner'
<1> USE DEF HandOverInv, TypeOK
<1>1. /\ marks' = marks \cup {Slot(i, by)} /\ opening' = opening \cup {Slot(i, by)}
      /\ Slot(i, by).id = i
  BY DEF Reserve, Slot
<1>2. TurnIsOpen' /\ StartIsOverlap' /\ AppAtRest'
  BY DEF HandOverInner, TurnIsOpen, StartIsOverlap, AppAtRest, AtRest
<1>3. KnownHasTurn'
  BY <1>1 DEF HandOverInner, KnownHasTurn
<1>4. LinkAtRest'
  BY <1>1 DEF HandOverInner, LinkAtRest, AtRest
<1>5. LinkedIsMarked'
  BY <1>1 DEF HandOverInner, LinkedIsMarked
<1> QED BY <1>2, <1>3, <1>4, <1>5 DEF HandOverInner

LEMMA PressKeeps ==
  ASSUME HandOverInv, NEW i \in Sessions, Press(i)
  PROVE  HandOverInner'
<1>1. AtRest(i) /\ turn[i] # "none" /\ \A m \in marks : m.id # i
  BY DEF Press, ResumeTarget, InFlight, AtRest
<1>2. UNCHANGED <<proc, turn, app, overlap, watch>> /\ Reserve(i, "drawer") /\ "drawer" \in By
  BY DEF Press, child, By
<1> QED BY <1>1, <1>2, ReserveKeeps

(* The watch fires only when its settle poll found the turn ended, and then *)
(* a child that is not an overlap neither decides, starts nor takes a turn. *)
LEMMA PollLinksKeeps ==
  ASSUME HandOverInv, NEW i \in Sessions, PollLinks(i)
  PROVE  HandOverInner'
<1> USE DEF HandOverInv, TypeOK
<1>1. /\ turn[i] = "done" /\ settled[i] /\ proc[i] # "deciding" /\ watch[i] = "on"
      /\ \A m \in marks : m.id # i
  BY DEF PollLinks, Polls, HookAnswers, Finished, Settled, InFlight
<1>2. AtRest(i)
  BY <1>1 DEF HandOverInner, TurnIsOpen, StartIsOverlap, AtRest
<1>3. UNCHANGED <<proc, turn, app, overlap>> /\ Reserve(i, "watch") /\ "watch" \in By
  BY DEF PollLinks, child, By
<1>4. \A j \in Sessions : watch'[j] # "off" => watch[j] # "off"
  BY <1>1 DEF PollLinks
<1> QED BY <1>1, <1>2, <1>3, <1>4, ReserveKeeps

(* The other polls, the end of a watch and a restart only let go.           *)
LEMMA LetGoKeeps ==
  ASSUME HandOverInv,
         \/ \E i \in Sessions : PollGivesUp(i) \/ PollUnsettles(i) \/ PollSettles(i) \/ WatchExpires(i)
         \/ UNCHANGED vars
  PROVE  HandOverInner'
<1> USE DEF HandOverInv, TypeOK
<1>1. UNCHANGED <<proc, turn, marks, opening, app, overlap>>
  BY DEF PollGivesUp, PollUnsettles, PollSettles, WatchExpires, child, rail, vars
<1>2. \A j \in Sessions : watch'[j] # "off" => watch[j] # "off"
  BY DEF PollGivesUp, PollUnsettles, PollSettles, WatchExpires, StopsWatching, vars
<1>3. TurnIsOpen' /\ KnownHasTurn' /\ StartIsOverlap'
  BY <1>1, <1>2 DEF HandOverInner, TurnIsOpen, KnownHasTurn, StartIsOverlap
<1>4. LinkAtRest' /\ AppAtRest' /\ LinkedIsMarked'
  BY <1>1 DEF HandOverInner, LinkAtRest, AppAtRest, AtRest, LinkedIsMarked
<1> QED BY <1>3, <1>4 DEF HandOverInner

LEMMA RestartKeeps == ASSUME HandOverInv, Restart PROVE HandOverInner'
<1> USE DEF HandOverInv, TypeOK
<1>1. /\ UNCHANGED <<proc, turn, opening, app, overlap>> /\ marks' = {}
      /\ watch' = All("off") /\ \A i \in Sessions : app[i] # "linked"
  BY DEF Restart
<1>2. TurnIsOpen' /\ KnownHasTurn' /\ StartIsOverlap'
  BY <1>1 DEF HandOverInner, TurnIsOpen, KnownHasTurn, StartIsOverlap, All
<1>3. LinkAtRest' /\ AppAtRest' /\ LinkedIsMarked'
  BY <1>1 DEF HandOverInner, LinkAtRest, AppAtRest, AtRest, LinkedIsMarked
<1> QED BY <1>2, <1>3 DEF HandOverInner

LEMMA HandOverKeeps == HandOverInv /\ [Next]_vars => HandOverInv'
<1> SUFFICES ASSUME HandOverInv, [Next]_vars PROVE HandOverInv'
  OBVIOUS
<1>1. TypeOK'
  BY HandOverTypes DEF HandOverInv
<1>2. HandOverInner'
  BY ChildKeeps, ExpireKeeps, OpenOkKeeps, OpenFailsKeeps, AppRecordKeeps, LaunchKeeps,
     ResumeKeeps, PressKeeps, PollLinksKeeps, LetGoKeeps, RestartKeeps
  DEF Next, Poll
<1> QED BY <1>1, <1>2 DEF HandOverInv

-----------------------------------------------------------------------------
THEOREM HandOverInvariance == Spec => []HandOverInv
<1>1. Init => HandOverInv
  BY HandOverStart
<1>2. HandOverInv /\ [Next]_vars => HandOverInv'
  BY HandOverKeeps
<1> QED BY <1>1, <1>2, PTL DEF Spec

(* Every variable of the hand-over keeps its type (handover.ts, desktop.ts).*)
THEOREM HandOverTypeCorrect == Spec => []TypeOK
<1>1. HandOverInv => TypeOK
  BY DEF HandOverInv
<1> QED BY <1>1, HandOverInvariance, PTL

(* The app and a headless turn never write the same transcript, unless the  *)
(* session was resumed here while its watch was on (handover.ts             *)
(* stepHandOver, api.ts resumeTarget).                                      *)
THEOREM TheLinkForksNothing == Spec => []OneWriter
<1>1. HandOverInv => OneWriter
  BY DEF HandOverInv, HandOverInner, AppAtRest, AtRest, OneWriter, Takes
<1> QED BY <1>1, HandOverInvariance, PTL

-----------------------------------------------------------------------------
(* The rail.                                                                *)
\* The rail is a finite set, which its counts need.
RailInv == IsFiniteSet(marks) /\ MarksAreLinks

LEMMA SlotIs ==
  /\ \A i \in Sessions, by \in By : Slot(i, by).id = i /\ Slot(i, by).by = by
  /\ \A m \in Slots : m = Slot(m.id, m.by)
BY DEF Slot, Slots

LEMMA RailStart == ASSUME Init PROVE RailInv
<1>1. marks = {} /\ opening = {} /\ IsFiniteSet(marks) /\ Cardinality(marks) = 0
  BY FS_EmptySet DEF Init
<1>2. Cardinality(marks) <= RailMax
  BY <1>1, RailAssumption
<1> QED BY <1>1, <1>2 DEF Init, RailInv, MarksAreLinks, All

\* A mark goes.
LEMMA RailShrinks ==
  ASSUME RailInv, marks' \subseteq marks, \A i \in Sessions : watch'[i] = "opening" <=> Slot(i, "watch") \in opening'
  PROVE  RailInv'
<1>1. IsFiniteSet(marks') /\ Cardinality(marks') <= Cardinality(marks)
  BY FS_Subset DEF RailInv
<1>2. Cardinality(marks) \in Nat /\ Cardinality(marks') \in Nat /\ Cardinality(marks) <= RailMax
  BY <1>1, FS_CardinalityType DEF RailInv, MarksAreLinks
<1>3. Cardinality(marks') <= RailMax
  BY <1>1, <1>2, RailAssumption
<1> QED BY <1>1, <1>3 DEF RailInv, MarksAreLinks

LEMMA RailGrows ==
  ASSUME RailInv, NEW i \in Sessions, NEW by \in By, Reserve(i, by), ~InFlight(i), RailOpen,
         \A j \in Sessions : watch'[j] = "opening" <=> Slot(j, "watch") \in opening'
  PROVE  RailInv'
<1>1. marks' = marks \cup {Slot(i, by)}
  BY DEF Reserve
<1>2. IsFiniteSet(marks') /\ Cardinality(marks') <= Cardinality(marks) + 1
  <2>1. IsFiniteSet(marks) /\ Cardinality(marks) \in Nat
    BY FS_CardinalityType DEF RailInv
  <2>2. IsFiniteSet(marks') /\ Cardinality(marks') = IF Slot(i, by) \in marks THEN Cardinality(marks) ELSE Cardinality(marks) + 1
    BY <2>1, <1>1, FS_AddElement
  <2> QED BY <2>1, <2>2
<1>3. Cardinality(marks) \in Nat /\ Cardinality(marks') \in Nat /\ Cardinality(marks) < RailMax
  BY <1>2, FS_CardinalityType DEF RailInv, RailOpen
<1>4. Cardinality(marks') <= RailMax
  BY <1>2, <1>3, RailAssumption
<1>5. \A m, n \in marks' : m.id = n.id => m = n
  BY <1>1, SlotIs DEF RailInv, MarksAreLinks, InFlight
<1> QED BY <1>2, <1>4, <1>5 DEF RailInv, MarksAreLinks

\* Where `open` is at work for the watch, the watch awaits it.
LEMMA RailKeeps == ASSUME TypeOK, RailInv, [Next]_vars PROVE RailInv'
<1> DEFINE Awaited == \A i \in Sessions : watch'[i] = "opening" <=> Slot(i, "watch") \in opening'
<1> USE DEF TypeOK
<1>0. \A i \in Sessions : watch[i] = "opening" <=> Slot(i, "watch") \in opening
  BY DEF RailInv, MarksAreLinks
<1>1. ASSUME NEW i \in Sessions, ChildStep(i) \/ Exit(i) \/ EntryGoes(i) \/ AppRecord(i) \/ Resume(i) PROVE RailInv'
  <2>1. UNCHANGED <<watch, marks, opening>>
    BY <1>1 DEF ChildStep, Exit, EntryGoes, AppRecord, Resume, rail
  <2> QED BY <2>1, <1>0, RailShrinks
<1>2. ASSUME NEW i \in Sessions, LaunchForDesktop(i) \/ PollGivesUp(i) \/ WatchExpires(i) PROVE RailInv'
  <2>1. UNCHANGED <<marks, opening>> /\ watch[i] # "opening" /\ watch'[i] # "opening"
        /\ \A j \in Sessions \ {i} : watch'[j] = watch[j]
    BY <1>2 DEF LaunchForDesktop, PollGivesUp, Polls, WatchExpires, StopsWatching, rail
  <2>2. Awaited
    BY <2>1, <1>0
  <2> QED BY <2>1, <2>2, RailShrinks
<1>3. ASSUME NEW i \in Sessions, PollUnsettles(i) \/ PollSettles(i) PROVE RailInv'
  <2>1. UNCHANGED <<watch, marks, opening>>
    BY <1>3 DEF PollUnsettles, PollSettles, rail
  <2> QED BY <2>1, <1>0, RailShrinks
<1>4. ASSUME NEW i \in Sessions, Press(i) PROVE RailInv'
  <2>1. /\ UNCHANGED watch /\ opening' = opening \cup {Slot(i, "drawer")} /\ Reserve(i, "drawer") /\ ~InFlight(i) /\ RailOpen
        /\ "drawer" \in By /\ "watch" \in By
    BY <1>4 DEF Press, Reserve, By
  <2>2. Awaited
    BY <2>1, <1>0, SlotIs
  <2> QED BY <2>1, <2>2, RailGrows
<1>5. ASSUME NEW i \in Sessions, PollLinks(i) PROVE RailInv'
  <2>1. /\ watch' = [watch EXCEPT ![i] = "opening"] /\ opening' = opening \cup {Slot(i, "watch")} /\ Reserve(i, "watch")
        /\ ~InFlight(i) /\ RailOpen /\ "watch" \in By
    BY <1>5 DEF PollLinks, Reserve, By
  <2>2. Awaited
    BY <2>1, <1>0, SlotIs
  <2> QED BY <2>1, <2>2, RailGrows
<1>6. ASSUME NEW m \in Slots, Expire(m) PROVE RailInv'
  <2>1. UNCHANGED <<watch, opening>> /\ marks' \subseteq marks
    BY <1>6 DEF Expire, Pruned
  <2> QED BY <2>1, <1>0, RailShrinks
<1>7. ASSUME NEW m \in Slots, OpenOk(m) \/ OpenFails(m) PROVE RailInv'
  <2>1. /\ opening' = opening \ {m} /\ marks' \subseteq marks
        /\ watch' = IF m.by = "watch" THEN [watch EXCEPT ![m.id] = "off"] ELSE watch
    BY <1>7 DEF OpenOk, OpenFails, Released
  <2>2. m.id \in Sessions /\ m = Slot(m.id, m.by) /\ \A i \in Sessions : Slot(i, "watch").id = i /\ Slot(i, "watch").by = "watch"
    BY SlotFields, SlotIs DEF By
  <2>3. Awaited
    BY <2>1, <2>2, <1>0
  <2> QED BY <2>1, <2>3, RailShrinks
<1>8. ASSUME Restart PROVE RailInv'
  <2>1. marks' = {} /\ opening' = {} /\ \A i \in Sessions : watch'[i] = "off"
    BY <1>8 DEF Restart, All
  <2> QED BY <2>1, RailShrinks
<1>9. CASE UNCHANGED vars
  BY <1>9 DEF vars, rail, RailInv, MarksAreLinks
<1> QED BY <1>1, <1>2, <1>3, <1>4, <1>5, <1>6, <1>7, <1>8, <1>9 DEF Next, Poll

LEMMA ReleasesOwn ==
  ASSUME [Next]_vars
  PROVE  \A m \in marks : m \notin marks' => (m \in opening /\ m \notin opening') \/ opening' = opening
<1>1. ASSUME NEW m \in Slots, Expire(m) \/ OpenOk(m) \/ OpenFails(m)
      PROVE  \A n \in marks : n \notin marks' => (n \in opening /\ n \notin opening') \/ opening' = opening
  BY <1>1 DEF Expire, OpenOk, OpenFails, Pruned, Released
<1>2. ASSUME NEW i \in Sessions, Press(i) \/ PollLinks(i) PROVE marks \subseteq marks'
  BY <1>2 DEF Press, PollLinks, Reserve
<1>3. ASSUME Restart PROVE opening' = opening
  BY <1>3 DEF Restart
<1>4. ASSUME NEW i \in Sessions, ChildStep(i) \/ Exit(i) \/ EntryGoes(i) \/ AppRecord(i) \/ LaunchForDesktop(i) \/ Resume(i)
                                 \/ PollGivesUp(i) \/ PollUnsettles(i) \/ PollSettles(i) \/ WatchExpires(i)
      PROVE  opening' = opening
  BY <1>4 DEF ChildStep, Exit, EntryGoes, AppRecord, LaunchForDesktop, Resume, PollGivesUp, PollUnsettles, PollSettles,
              WatchExpires, rail
<1>5. CASE UNCHANGED vars
  BY <1>5 DEF vars, rail
<1> QED BY <1>1, <1>2, <1>3, <1>4, <1>5 DEF Next, Poll

(* The rail holds what is under way, and a failed link frees no place but   *)
(* its own (desktop.ts reserveDesktopLaunch, api.ts spawnDesktop).          *)
THEOREM TheRailIsExact == Spec => RailIsExact
<1>1. Init => RailInv
  BY RailStart
<1>2. TypeOK /\ RailInv /\ [Next]_vars => RailInv'
  BY RailKeeps
<1>3. RailInv => MarksAreLinks
  BY DEF RailInv
<1>4. [Next]_vars =>
        [\A m \in marks : m \notin marks' =>
            \/ m \in opening /\ m \notin opening'
            \/ opening' = opening]_vars
  BY ReleasesOwn
<1>5. Spec => []MarksAreLinks
  BY <1>1, <1>2, <1>3, HandOverTypeCorrect, PTL DEF Spec
<1>6. Spec => OwnReleaseOnly
  BY <1>4, PTL DEF Spec, OwnReleaseOnly
<1> QED BY <1>5, <1>6, PTL DEF RailIsExact

-----------------------------------------------------------------------------
(* The permission flag.                                                     *)
\* The times in order; the entry is of the newest report, which a restart or
\* the backstop alone takes away.
TimesFit ==
  /\ openedAt <= time /\ messageAt <= time
  /\ reportedAt # Never => reportedAt <= time
  /\ handoffAt # Never => handoffAt <= time
  /\ notifiedAt # Never => reportedAt # Never
  /\ dialog = 0 => ~open /\ ~pair /\ ~reported /\ reportedAt = Never
  /\ pair => time <= openedAt + PairGap
\* An answered dialog's reports are not later than its answer, nor is the last
\* dialog's before the first report of the next.
ReportsAreOver ==
  /\ (~open \/ ~reported) /\ reportedAt # Never => reportedAt <= messageAt
  /\ open => messageAt <= openedAt
  /\ pair /\ ~open => time = openedAt + PairGap /\ messageAt = time
  /\ dialog = 1 /\ ~reported => reportedAt = Never
\* What a second report will find.
PairFindsFirst ==
  /\ \A d \in 1..MaxDialogs : d > dialog => pushed[d] = 0
  /\ dialog > 0 /\ ~reported => pushed[dialog] = 0
  /\ dialog > 0 /\ reported /\ ~forgot =>
       /\ reportedAt # Never /\ openedAt <= reportedAt
       /\ notifiedAt = reportedAt \/ (notifiedAt = Never /\ time - reportedAt >= Ttl)
\* A hand-off is younger than the dialog it announces may be late.
HandoffIsFresh ==
  /\ awaited /\ handoffAt # Never => time - handoffAt <= FallbackDelay
  /\ pair /\ fallback /\ ~forgot => handoffAt # Never /\ openedAt <= handoffAt + FallbackDelay

FlagInner == TimesFit /\ ReportsAreOver /\ PairFindsFirst /\ HandoffIsFresh /\ PushedOnce /\ HandedIsQuiet
FlagInv == PermTypeOK /\ FlagInner

LEMMA FlagTimes ==
  /\ MaxPermTime \in Nat /\ MaxDialogs \in Nat /\ PairGap \in Nat /\ Dedupe \in Nat /\ Handoff \in Nat
  /\ FallbackDelay \in Nat /\ Ttl \in Nat
  /\ PairGap < Dedupe /\ FallbackDelay + PairGap < Handoff /\ Dedupe < Ttl /\ Never \notin Nat
BY PermissionTimes

LEMMA FlagStart == ASSUME PermInit PROVE FlagInv
<1> USE FlagTimes
<1>1. PermTypeOK
  <2>1. 0 \in Times /\ 0 \in 0..MaxDialogs /\ FALSE \in BOOLEAN
    BY DEF Times
  <2>2. pushed \in [1..MaxDialogs -> Nat]
    BY DEF PermInit
  <2> QED BY <2>1, <2>2 DEF PermInit, PermTypeOK
<1>2. FlagInner
  BY DEF PermInit, FlagInner, TimesFit, ReportsAreOver, PairFindsFirst, HandoffIsFresh, PushedOnce, HandedIsQuiet
<1> QED BY <1>1, <1>2 DEF FlagInv

LEMMA FlagTypes ==
  ASSUME FlagInv
  PROVE  /\ time \in Nat /\ openedAt \in Nat /\ messageAt \in Nat /\ dialog \in 0..MaxDialogs
         /\ notifiedAt # Never => notifiedAt \in Nat /\ notifiedAt = reportedAt /\ time - notifiedAt <= Ttl
         /\ reportedAt # Never => reportedAt \in Nat
         /\ handoffAt # Never => handoffAt \in Nat
         /\ open \in BOOLEAN /\ fallback \in BOOLEAN /\ awaited \in BOOLEAN /\ pair \in BOOLEAN
         /\ reported \in BOOLEAN /\ forgot \in BOOLEAN
         /\ pushed \in [1..MaxDialogs -> Nat]
BY FlagTimes DEF FlagInv, PermTypeOK, Times

\* Of the steps that report nothing.
LEMMA TypesAre ==
  PermTypeOK <=>
    /\ time \in Times /\ openedAt \in Times /\ messageAt \in Times
    /\ notifiedAt \in Times \cup {Never} /\ handoffAt \in Times \cup {Never} /\ reportedAt \in Times \cup {Never}
    /\ dialog \in 0..MaxDialogs /\ pushed \in [1..MaxDialogs -> Nat]
    /\ open \in BOOLEAN /\ fallback \in BOOLEAN /\ awaited \in BOOLEAN /\ pair \in BOOLEAN /\ reported \in BOOLEAN /\ forgot \in BOOLEAN
    /\ (notifiedAt # Never => notifiedAt = reportedAt /\ time - notifiedAt <= Ttl)
BY DEF PermTypeOK

LEMMA QuietKeeps ==
  ASSUME FlagInv, SettleWait \/ AnswerDialog \/ Reap \/ RestartServer \/ PermTime
  PROVE  FlagInv'
<1> USE FlagTimes, FlagTypes
<1>1. ASSUME SettleWait PROVE FlagInv'
  <2>1. PermTypeOK'
    BY <1>1 DEF SettleWait, FlagInv, PermTypeOK, Times
  <2>2. FlagInner'
    BY <1>1 DEF SettleWait, FlagInv, FlagInner, TimesFit, ReportsAreOver, PairFindsFirst, HandoffIsFresh, PushedOnce, HandedIsQuiet
  <2> QED BY <2>1, <2>2 DEF FlagInv
<1>2. ASSUME AnswerDialog PROVE FlagInv'
  <2>1. PermTypeOK'
    BY <1>2 DEF AnswerDialog, FlagInv, PermTypeOK, Times
  <2>2. FlagInner'
    <3> USE DEF FlagInv, FlagInner
    <3>1. TimesFit'
      BY <1>2 DEF AnswerDialog, TimesFit
    <3>2. ReportsAreOver'
      BY <1>2 DEF AnswerDialog, TimesFit, ReportsAreOver
    <3>3. PairFindsFirst'
      BY <1>2 DEF AnswerDialog, TimesFit, PairFindsFirst
    <3>4. HandoffIsFresh'
      BY <1>2 DEF AnswerDialog, TimesFit, HandoffIsFresh
    <3>5. PushedOnce' /\ HandedIsQuiet'
      BY <1>2 DEF AnswerDialog, PushedOnce, HandedIsQuiet
    <3> QED BY <3>1, <3>2, <3>3, <3>4, <3>5
  <2> QED BY <2>1, <2>2 DEF FlagInv
<1>3. ASSUME Reap PROVE FlagInv'
  <2>1. PermTypeOK'
    BY <1>3 DEF Reap, FlagInv, PermTypeOK, Times
  <2>2. FlagInner'
    BY <1>3 DEF Reap, Expired, FlagInv, FlagInner, TimesFit, ReportsAreOver, PairFindsFirst, HandoffIsFresh, PushedOnce, HandedIsQuiet
  <2> QED BY <2>1, <2>2 DEF FlagInv
<1>4. ASSUME RestartServer PROVE FlagInv'
  <2>1. PermTypeOK'
    BY <1>4 DEF RestartServer, FlagInv, PermTypeOK, Times
  <2>2. FlagInner'
    BY <1>4 DEF RestartServer, FlagInv, FlagInner, TimesFit, ReportsAreOver, PairFindsFirst, HandoffIsFresh, PushedOnce, HandedIsQuiet
  <2> QED BY <2>1, <2>2 DEF FlagInv
<1>5. ASSUME PermTime PROVE FlagInv'
  <2>1. PermTypeOK'
    BY <1>5 DEF PermTime, Expired, FlagInv, PermTypeOK, Times
  <2>2. FlagInner'
    <3> USE DEF FlagInv, FlagInner
    <3>0. TimesFit /\ time' = time + 1 /\ (pair => time # openedAt + PairGap) /\ UNCHANGED <<dialog, open, openedAt, pair, notifiedAt, handoffAt, messageAt, reportedAt, reported>>
      BY <1>5 DEF PermTime
    <3>1. TimesFit'
      <4>1. openedAt <= time' /\ messageAt <= time' /\ (pair => time' <= openedAt + PairGap)
        BY <3>0 DEF TimesFit
      <4>2. (reportedAt # Never => reportedAt <= time') /\ (handoffAt # Never => handoffAt <= time')
        BY <3>0 DEF TimesFit
      <4> QED BY <3>0, <4>1, <4>2 DEF TimesFit
    <3>2. ReportsAreOver'
      BY <1>5 DEF PermTime, Expired, TimesFit, ReportsAreOver
    <3>3. PairFindsFirst'
      BY <1>5 DEF PermTime, Expired, TimesFit, PairFindsFirst
    <3>4. HandoffIsFresh'
      BY <1>5 DEF PermTime, Expired, TimesFit, HandoffIsFresh
    <3>5. PushedOnce' /\ HandedIsQuiet'
      BY <1>5 DEF PermTime, Expired, PushedOnce, HandedIsQuiet
    <3> QED BY <3>1, <3>2, <3>3, <3>4, <3>5
  <2> QED BY <2>1, <2>2 DEF FlagInv
<1> QED BY <1>1, <1>2, <1>3, <1>4, <1>5

\* A report, of the newest dialog or of one that opens now.
LEMMA SecondKeeps == ASSUME FlagInv, SecondReport PROVE FlagInv'
<1> USE FlagTimes, FlagTypes
<1>1. /\ pair /\ time = openedAt + PairGap /\ pair' = FALSE /\ notifiedAt' = time /\ reportedAt' = time /\ reported' = TRUE
      /\ UNCHANGED <<time, dialog, open, openedAt, fallback, awaited, handoffAt, messageAt, forgot>>
      /\ pushed' = [pushed EXCEPT ![dialog] = @ + (IF Unseen /\ ~HandedToTerminal THEN 1 ELSE 0)]
  BY DEF SecondReport, ReportDialog
<1>2. dialog \in 1..MaxDialogs
  BY <1>1 DEF FlagInv, FlagInner, TimesFit
<1>3. /\ pushed' \in [1..MaxDialogs -> Nat]
      /\ pushed'[dialog] = pushed[dialog] + (IF Unseen /\ ~HandedToTerminal THEN 1 ELSE 0)
      /\ \A d \in 1..MaxDialogs : d # dialog => pushed'[d] = pushed[d]
  BY <1>1, <1>2
<1>4. reported /\ ~forgot => ~Unseen
  BY <1>1, <1>2 DEF FlagInv, FlagInner, PairFindsFirst, Unseen
<1>5. fallback /\ ~forgot => HandedToTerminal
  BY <1>1 DEF FlagInv, FlagInner, TimesFit, HandoffIsFresh, HandedToTerminal
<1>6. PermTypeOK'
  <2>1. time \in Times /\ openedAt \in Times /\ messageAt \in Times /\ handoffAt \in Times \cup {Never} /\ reportedAt \in Times \cup {Never}
    BY TypesAre DEF FlagInv
  <2>2. openedAt' \in Times /\ fallback' \in BOOLEAN /\ awaited' \in BOOLEAN /\ forgot' \in BOOLEAN /\ open' \in BOOLEAN /\ reported' \in BOOLEAN /\ pair' \in BOOLEAN
    BY <1>1, <1>3, <2>1
  <2>3. (notifiedAt' # Never => notifiedAt' = reportedAt' /\ time' - notifiedAt' <= Ttl) /\ pushed' \in [1..MaxDialogs -> Nat]
    BY <1>1, <1>3
  <2>4. PermTypeOK'
    BY <1>1, <1>3, <2>1, <2>2, <2>3 DEF PermTypeOK
  <2> QED BY <2>4
<1>7. TimesFit' /\ ReportsAreOver' /\ HandoffIsFresh'
  BY <1>1 DEF FlagInv, FlagInner, TimesFit, ReportsAreOver, HandoffIsFresh
<1>8. PairFindsFirst'
  BY <1>1, <1>2, <1>3 DEF FlagInv, FlagInner, PairFindsFirst
<1>9. PushedOnce' /\ HandedIsQuiet'
  BY <1>1, <1>2, <1>3, <1>4, <1>5 DEF FlagInv, FlagInner, PairFindsFirst, PushedOnce, HandedIsQuiet
<1> QED BY <1>6, <1>7, <1>8, <1>9 DEF FlagInv, FlagInner

LEMMA OpenKeeps == ASSUME FlagInv, OpenDialog PROVE FlagInv'
<1> USE FlagTimes, FlagTypes
<1>1. /\ ~open /\ dialog < MaxDialogs /\ dialog' = dialog + 1 /\ open' = TRUE /\ openedAt' = time
      /\ fallback' = awaited /\ awaited' = FALSE /\ forgot' \in BOOLEAN /\ (fallback' /\ ~forgot' => handoffAt # Never)
      /\ pair' \in BOOLEAN /\ UNCHANGED <<time, handoffAt, messageAt>>
  <2>1. forgot' = (awaited /\ handoffAt = Never) /\ fallback' = awaited
    BY DEF OpenDialog
  <2>2. forgot' \in BOOLEAN /\ (fallback' /\ ~forgot' => handoffAt # Never)
    BY <2>1, Zenon
  <2> QED BY <2>2 DEF OpenDialog
<1>2. dialog' \in 1..MaxDialogs
  BY <1>1
<1>3. pushed[dialog'] = 0 /\ \A d \in 1..MaxDialogs : d > dialog => pushed[d] = 0
  BY <1>1, <1>2 DEF FlagInv, FlagInner, PairFindsFirst
<1>4. fallback' /\ ~forgot' => HandedToTerminal /\ handoffAt # Never /\ time <= handoffAt + FallbackDelay
  <2> SUFFICES ASSUME awaited, handoffAt # Never PROVE HandedToTerminal /\ time <= handoffAt + FallbackDelay
    BY <1>1
  <2>1. time - handoffAt <= FallbackDelay
    BY DEF FlagInv, FlagInner, HandoffIsFresh
  <2> QED BY <2>1 DEF HandedToTerminal
<1>5. HandoffIsFresh'
  BY <1>1, <1>4 DEF HandoffIsFresh
<1>6. CASE ReportDialog(dialog + 1)
  <2>1. /\ notifiedAt' = time /\ reportedAt' = time /\ reported' = TRUE
        /\ pushed' = [pushed EXCEPT ![dialog'] = @ + (IF Unseen /\ ~HandedToTerminal THEN 1 ELSE 0)]
    BY <1>1, <1>6 DEF ReportDialog
  <2>2. /\ pushed' \in [1..MaxDialogs -> Nat]
        /\ pushed'[dialog'] = IF Unseen /\ ~HandedToTerminal THEN 1 ELSE 0
        /\ \A d \in 1..MaxDialogs : d # dialog' => pushed'[d] = pushed[d]
    BY <2>1, <1>2, <1>3
  <2>3. PermTypeOK'
    <3>1. time \in Times /\ openedAt \in Times /\ messageAt \in Times /\ handoffAt \in Times \cup {Never} /\ reportedAt \in Times \cup {Never}
      BY TypesAre DEF FlagInv
    <3>2. openedAt' \in Times /\ fallback' \in BOOLEAN /\ awaited' \in BOOLEAN /\ forgot' \in BOOLEAN /\ open' \in BOOLEAN /\ reported' \in BOOLEAN /\ pair' \in BOOLEAN
      BY <1>1, <1>2, <2>1, <2>2, <3>1
    <3>3. (notifiedAt' # Never => notifiedAt' = reportedAt' /\ time' - notifiedAt' <= Ttl) /\ pushed' \in [1..MaxDialogs -> Nat]
      BY <1>1, <1>2, <2>1, <2>2
    <3>4. PermTypeOK'
      BY <1>1, <1>2, <2>1, <2>2, <3>1, <3>2, <3>3 DEF PermTypeOK
    <3> QED BY <3>4
  <2>4. TimesFit' /\ ReportsAreOver'
    BY <1>1, <1>2, <2>1 DEF FlagInv, FlagInner, TimesFit, ReportsAreOver
  <2>5. PairFindsFirst'
    BY <1>1, <1>2, <1>3, <2>1, <2>2 DEF PairFindsFirst
  <2>6. PushedOnce' /\ HandedIsQuiet'
    BY <1>4, <2>2 DEF PushedOnce, HandedIsQuiet
  <2> QED BY <1>5, <2>3, <2>4, <2>5, <2>6 DEF FlagInv, FlagInner
<1>7. CASE ~ReportDialog(dialog + 1)
  <2>1. reported' = FALSE /\ UNCHANGED <<notifiedAt, reportedAt, pushed>>
    BY <1>7 DEF OpenDialog
  <2>2. PermTypeOK'
    <3>1. time \in Times /\ openedAt \in Times /\ messageAt \in Times /\ handoffAt \in Times \cup {Never} /\ reportedAt \in Times \cup {Never}
      BY TypesAre DEF FlagInv
    <3>2. openedAt' \in Times /\ fallback' \in BOOLEAN /\ awaited' \in BOOLEAN /\ forgot' \in BOOLEAN /\ open' \in BOOLEAN /\ reported' \in BOOLEAN /\ pair' \in BOOLEAN
      BY <1>1, <1>2, <2>1, <3>1
    <3>3. (notifiedAt' # Never => notifiedAt' = reportedAt' /\ time' - notifiedAt' <= Ttl) /\ pushed' \in [1..MaxDialogs -> Nat]
      BY <1>1, <1>2, <2>1
    <3>4. PermTypeOK'
      BY <1>1, <1>2, <2>1, <3>1, <3>2, <3>3 DEF PermTypeOK
    <3> QED BY <3>4
  <2>3. TimesFit' /\ ReportsAreOver'
    BY <1>1, <1>2, <2>1 DEF FlagInv, FlagInner, TimesFit, ReportsAreOver
  <2>4. PairFindsFirst' /\ PushedOnce' /\ HandedIsQuiet'
    BY <1>1, <1>2, <1>3, <2>1 DEF PairFindsFirst, PushedOnce, HandedIsQuiet
  <2> QED BY <1>5, <2>2, <2>3, <2>4 DEF FlagInv, FlagInner
<1> QED BY <1>6, <1>7

LEMMA FlagKeeps == ASSUME FlagInv, [PermNext]_permVars PROVE FlagInv'
<1>1. CASE UNCHANGED permVars
  BY <1>1 DEF permVars, FlagInv, PermTypeOK, FlagInner, TimesFit, ReportsAreOver, PairFindsFirst, HandoffIsFresh,
              PushedOnce, HandedIsQuiet
<1> QED BY <1>1, QuietKeeps, SecondKeeps, OpenKeeps DEF PermNext

LEMMA FlagInvariance == PermSpec => []FlagInv
<1>1. PermInit => FlagInv
  BY FlagStart
<1>2. FlagInv /\ [PermNext]_permVars => FlagInv'
  BY FlagKeeps
<1> QED BY <1>1, <1>2, PTL DEF PermSpec

(* The flag's variables keep their types (permissions.ts).                   *)
THEOREM FlagTypeCorrect == PermSpec => []PermTypeOK
<1>1. FlagInv => PermTypeOK
  BY DEF FlagInv
<1> QED BY <1>1, FlagInvariance, PTL

\* A first report after an answer that a dedupe window has passed since.
LEMMA FirstIsUnseen ==
  ASSUME FlagInv, ~open \/ ~reported, messageAt + Dedupe <= time
  PROVE  Unseen
BY FlagTimes, FlagTypes DEF FlagInv, FlagInner, ReportsAreOver, Unseen

LEMMA NewsStep ==
  ASSUME FlagInv, [PermNext]_permVars,
         reported', dialog' # dialog \/ ~reported, dialog' = 1 \/ messageAt + Dedupe <= openedAt',
         handoffAt = Never \/ handoffAt + Handoff <= time
  PROVE  pushed'[dialog'] > pushed[dialog']
<1> USE FlagTimes, FlagTypes
<1>1. ~HandedToTerminal
  BY DEF HandedToTerminal
<1>2. CASE OpenDialog
  <2>1. /\ ~open /\ dialog' = dialog + 1 /\ dialog' \in 1..MaxDialogs /\ openedAt' = time
        /\ ReportDialog(dialog')
    BY <1>2 DEF OpenDialog
  <2>2. Unseen
    <3>1. CASE dialog' = 1
      BY <2>1, <3>1 DEF FlagInv, FlagInner, TimesFit, Unseen
    <3>2. CASE messageAt + Dedupe <= openedAt'
      BY <2>1, <3>2, FirstIsUnseen
    <3> QED BY <3>1, <3>2
  <2> QED BY <2>1, <2>2, <1>1 DEF ReportDialog
<1>3. CASE SecondReport
  <2>1. /\ dialog' = dialog /\ ~reported /\ openedAt' = openedAt /\ ReportDialog(dialog) /\ pair
    BY <1>3 DEF SecondReport
  <2>2. Unseen
    <3>1. CASE dialog' = 1
      BY <2>1, <3>1 DEF FlagInv, FlagInner, ReportsAreOver, Unseen
    <3>2. CASE messageAt + Dedupe <= openedAt'
      <4>1. messageAt + Dedupe <= time
        BY <2>1, <3>2 DEF FlagInv, FlagInner, TimesFit
      <4> QED BY <4>1, <2>1, FirstIsUnseen
    <3> QED BY <3>1, <3>2
  <2>3. dialog \in 1..MaxDialogs
    BY <2>1 DEF FlagInv, FlagInner, TimesFit
  <2> QED BY <2>1, <2>2, <2>3, <1>1 DEF ReportDialog
<1>4. CASE SettleWait \/ AnswerDialog \/ Reap \/ RestartServer \/ PermTime \/ UNCHANGED permVars
  BY <1>4 DEF SettleWait, AnswerDialog, Reap, RestartServer, PermTime, permVars
<1> QED BY <1>2, <1>3, <1>4 DEF PermNext

(* However many hooks report a dialog, and in what order: it is pushed once *)
(* if it is news, not at all if the user asked for it, and shown until it   *)
(* is over (permissions.ts notifyPermission, scan.ts buildRow).              *)
THEOREM FlagCorrect == PermSpec => DialogsAreTold
<1>1. FlagInv => PushedOnce /\ HandedIsQuiet /\ OpenIsShown
  BY FlagTimes, FlagTypes DEF FlagInv, FlagInner, TimesFit, ReportsAreOver, PairFindsFirst, OpenIsShown, PermissionWait
<1>2. FlagInv /\ [PermNext]_permVars =>
        [reported' /\ (dialog' # dialog \/ ~reported) /\ (dialog' = 1 \/ messageAt + Dedupe <= openedAt')
           /\ (handoffAt = Never \/ handoffAt + Handoff <= time) => pushed'[dialog'] > pushed[dialog']]_permVars
  BY NewsStep
<1>3. PermSpec => [](PushedOnce /\ HandedIsQuiet /\ OpenIsShown)
  BY <1>1, FlagInvariance, PTL
<1>4. PermSpec => NewsIsPushed
  BY <1>2, FlagInvariance, PTL DEF PermSpec, NewsIsPushed
<1> QED BY <1>3, <1>4, PTL DEF DialogsAreTold

-----------------------------------------------------------------------------
(* The newest-record cache.                                                 *)
LEMMA LeastNat == ASSUME NEW T, T \subseteq Nat, T # {} PROVE \E x \in T : \A y \in T : x <= y
<1> DEFINE R == OpToRel(<, Nat)
<1>1. IsWellFoundedOn(R, Nat)
  BY NatLessThanWellFounded
<1>2. \A x, y \in Nat : y < x => <<y, x>> \in R
  BY DEF OpToRel
<1> HIDE DEF R
<1>3. PICK x \in T : \A y \in T : ~(<<y, x>> \in R)
  BY <1>1, WFMin
<1>4. ASSUME NEW y \in T PROVE x <= y
  <2>1. x \in Nat /\ y \in Nat
    OBVIOUS
  <2>2. ~(y < x)
    BY <2>1, <1>2, <1>3
  <2> QED BY <2>1, <2>2
<1> QED BY <1>4

\* The newest of a bounded set is its greatest member.
LEMMA NewestIs ==
  ASSUME NEW N \in Nat, NEW S, S \subseteq 1..N, S # {}
  PROVE  Newest(S) \in S /\ \A g \in S : g <= Newest(S)
<1> DEFINE U == {N - x : x \in S}
<1>1. U \subseteq Nat /\ U # {}
  <2>1. \A x \in S : N - x \in Nat
    OBVIOUS
  <2> QED BY <2>1
<1>2. PICK u \in U : \A w \in U : u <= w
  BY <1>1, LeastNat
<1>3. PICK x \in S : u = N - x
  OBVIOUS
<1>4. \A y \in S : y <= x
  <2> TAKE y \in S
  <2>1. u <= N - y
    BY <1>2
  <2> QED BY <1>3, <2>1
<1>5. \E h \in S : \A g \in S : g <= h
  BY <1>4
<1> QED BY <1>5 DEF Newest

LEMMA NewestIsOnly ==
  ASSUME NEW N \in Nat, NEW S, S \subseteq 1..N, NEW h \in S, \A g \in S : g <= h
  PROVE  Newest(S) = h
<1>1. Newest(S) \in S /\ \A g \in S : g <= Newest(S)
  BY NewestIs
<1> DEFINE n == Newest(S)
<1>2. n \in S /\ h <= n
  BY <1>1
<1> HIDE DEF n
<1>3. n <= h /\ n \in Nat /\ h \in Nat
  BY <1>2
<1>4. n = h
  BY <1>2, <1>3
<1> QED BY <1>4 DEF n

\* The newest of a set is that of what lies above some point, if anything does.
LEMMA NewestAbove ==
  ASSUME NEW N \in Nat, NEW S, S \subseteq 1..N, NEW P, P \subseteq S, P # {},
         \A g \in S : g \in P \/ \A h \in P : g <= h
  PROVE  Newest(S) = Newest(P)
<1>1. Newest(P) \in P /\ \A g \in P : g <= Newest(P)
  BY NewestIs
<1>2. \A g \in S : g <= Newest(P)
  BY <1>1
<1> QED BY <1>1, <1>2, NewestIsOnly

-----------------------------------------------------------------------------
\* What is below a place of the file, and what a chunk read there shows.
Before(end) == {h \in hits : 2 * h - 1 < ReadEnd(end)}
StartOf(end) == IF end > Chunk THEN end - Chunk ELSE 0
MarkedIn(start, end) == {h \in hits : 2 * h - 1 >= start /\ 2 * h - 1 < ReadEnd(end)}
IsScan(f) ==
  f = [end \in 0..MaxFile |->
         IF end = 0 THEN 0
         ELSE IF MarkedIn(StartOf(end), end) # {} THEN Newest(MarkedIn(StartOf(end), end))
         ELSE f[StartOf(end)]]

HitsFit == size \in 0..MaxFile /\ hits \subseteq LinesIn(size)
RememberedFits ==
  remembered # NothingRead =>
    /\ remembered.size \in 0..MaxFile /\ remembered.value \in {0} \cup LinesIn(remembered.size)
    /\ cut <=> size < remembered.size
CacheInv == CacheTypeOK /\ HitsFit /\ RememberedFits /\ RemembersNewest

\* The chunks below a place show its newest record.
LEMMA ScanStep ==
  ASSUME HitsFit, NEW end \in 1..MaxFile
  PROVE  /\ StartOf(end) \in 0..(end - 1)
         /\ MarkedIn(StartOf(end), end) # {} => Newest(Before(end)) = Newest(MarkedIn(StartOf(end), end))
         /\ MarkedIn(StartOf(end), end) = {} =>
              Before(end) = IF StartOf(end) = 0 THEN {} ELSE Before(StartOf(end))
<1> USE CacheBounds
<1>1. MaxFile \in Nat /\ size \in Nat /\ \A h \in hits : h \in 1..MaxFile /\ 2 * h <= size
  BY DEF HitsFit, LinesIn
<1>2. StartOf(end) \in 0..(end - 1)
  BY DEF StartOf
<1>3. ReadEnd(end) \in Nat /\ (StartOf(end) < ReadEnd(StartOf(end)) \/ ReadEnd(StartOf(end)) = size) /\ ReadEnd(StartOf(end)) <= ReadEnd(end) /\ ReadEnd(StartOf(end)) \in Nat
  BY <1>1, <1>2 DEF ReadEnd
<1> DEFINE M == MarkedIn(StartOf(end), end)
<1>4. M \subseteq Before(end) /\ Before(end) \subseteq 1..MaxFile
  BY <1>1 DEF MarkedIn, Before
<1>5. \A g \in Before(end) : g \in M \/ 2 * g - 1 < StartOf(end)
  BY <1>1, <1>2 DEF MarkedIn, Before
<1>6. \A h \in M : 2 * h - 1 >= StartOf(end)
  BY DEF MarkedIn
<1>7. ASSUME M # {} PROVE Newest(Before(end)) = Newest(M)
  <2>1. \A g \in Before(end) : g \in M \/ \A h \in M : g <= h
    <3> SUFFICES ASSUME NEW g \in Before(end), g \notin M, NEW h \in M PROVE g <= h
      OBVIOUS
    <3>1. g \in Nat /\ h \in Nat /\ 2 * g - 1 < StartOf(end) /\ 2 * h - 1 >= StartOf(end)
      BY <1>4, <1>5, <1>6
    <3> HIDE DEF M
    <3> QED BY <3>1, <1>2
  <2> HIDE DEF M
  <2> QED BY <2>1, <1>1, <1>4, <1>7, NewestAbove
<1>8. ASSUME M = {} PROVE Before(end) = IF StartOf(end) = 0 THEN {} ELSE Before(StartOf(end))
  <2>1. \A g \in Before(end) : g \in 1..MaxFile /\ 2 * g - 1 < StartOf(end)
    BY <1>4, <1>5, <1>8
  <2>2. CASE StartOf(end) = 0
    BY <2>1, <2>2
  <2>3. CASE StartOf(end) # 0
    <3>1. \A g \in Before(StartOf(end)) : g \in hits /\ 2 * g - 1 < ReadEnd(end)
      BY <1>1, <1>3, <2>3 DEF Before
    <3>2. \A g \in Before(end) : g \in hits /\ 2 * g - 1 < ReadEnd(StartOf(end))
      <4> SUFFICES ASSUME NEW g \in Before(end) PROVE g \in hits /\ 2 * g - 1 < ReadEnd(StartOf(end))
        OBVIOUS
      <4>1. g \in Nat /\ 2 * g - 1 < StartOf(end) /\ StartOf(end) \in Nat
        BY <1>2, <2>1
      <4>2. g \in hits
        BY DEF Before
      <4>3. 2 * g <= size
        BY <4>2, <1>1
      <4> QED BY <4>1, <4>2, <4>3, <1>1, <1>3
    <3> QED BY <3>1, <3>2, <2>3 DEF Before
  <2> QED BY <2>2, <2>3
<1> QED BY <1>2, <1>7, <1>8

LEMMA ScanBackIs ==
  ASSUME HitsFit, NEW f, IsScan(f), NEW end \in 1..MaxFile
  PROVE  f[end] = Newest(Before(end))
<1> DEFINE T == {e \in 1..MaxFile : f[e] # Newest(Before(e))}
<1> SUFFICES ASSUME T # {} PROVE FALSE
  OBVIOUS
<1>1. PICK e \in T : \A y \in T : e <= y
  <2>1. T \subseteq Nat
    OBVIOUS
  <2> HIDE DEF T
  <2> QED BY <2>1, LeastNat
<1>2. e \in 1..MaxFile /\ f[e] # Newest(Before(e)) /\ MaxFile \in Nat /\ size \in Nat
  BY CacheBounds DEF HitsFit
<1> DEFINE s == StartOf(e)
<1>3. s \in 0..(e - 1) /\ (s # 0 => s \notin T)
  <2>1. s \in 0..(e - 1)
    BY <1>2, ScanStep
  <2> HIDE DEF T, s
  <2> QED BY <2>1, <1>1, <1>2
<1>4. s \in 1..MaxFile => f[s] = Newest(Before(s))
  <2> HIDE DEF s
  <2> QED BY <1>3
<1>5. f[e] = IF MarkedIn(s, e) # {} THEN Newest(MarkedIn(s, e)) ELSE f[s]
  <2>1. e \in 0..MaxFile /\ e # 0
    BY <1>2
  <2> QED BY <2>1 DEF IsScan
<1>6. f[0] = 0
  <2>1. 0 \in 0..MaxFile
    BY <1>2
  <2> QED BY <2>1 DEF IsScan
<1>7. MarkedIn(s, e) = {}
  BY <1>2, <1>5, ScanStep
<1>8. Before(e) = IF s = 0 THEN {} ELSE Before(s)
  BY <1>2, <1>7, ScanStep
<1>9. CASE s = 0
  BY <1>2, <1>5, <1>6, <1>7, <1>8, <1>9 DEF Newest
<1>10. CASE s # 0
  <2>1. s \in 1..MaxFile
    BY <1>2, <1>3, <1>10
  <2> QED BY <2>1, <1>2, <1>4, <1>5, <1>7, <1>8, <1>10
<1> QED BY <1>9, <1>10

\* The search exists: it is what it is to find.
LEMMA ScanBackExists == ASSUME HitsFit PROVE \E f : IsScan(f)
<1> DEFINE k == [end \in 0..MaxFile |-> IF end = 0 THEN 0 ELSE Newest(Before(end))]
           r == [end \in 0..MaxFile |->
                   IF end = 0 THEN 0
                   ELSE IF MarkedIn(StartOf(end), end) # {} THEN Newest(MarkedIn(StartOf(end), end))
                   ELSE k[StartOf(end)]]
<1>1. ASSUME NEW end \in 0..MaxFile PROVE k[end] = r[end]
  <2>1. MaxFile \in Nat
    BY CacheBounds
  <2>2. CASE end = 0
    BY <2>2
  <2>3. CASE end # 0
    <3>1. end \in 1..MaxFile
      BY <2>1, <2>3
    <3>2. StartOf(end) \in 0..(end - 1) /\ StartOf(end) \in 0..MaxFile
      BY <3>1, <2>1, ScanStep
    <3>3. k[StartOf(end)] = Newest(IF StartOf(end) = 0 THEN {} ELSE Before(StartOf(end)))
      <4>1. CASE StartOf(end) = 0
        BY <4>1, <3>2 DEF Newest
      <4>2. CASE StartOf(end) # 0
        BY <4>2, <3>2
      <4> QED BY <4>1, <4>2
    <3>4. k[end] = Newest(Before(end))
      BY <2>3
    <3> QED BY <3>1, <3>3, <3>4, <2>3, ScanStep
  <2> QED BY <2>2, <2>3
<1>2. k = r
  <2>1. k = [end \in 0..MaxFile |-> k[end]] /\ r = [end \in 0..MaxFile |-> r[end]]
    OBVIOUS
  <2> HIDE DEF k, r
  <2> QED BY <2>1, <1>1
<1>3. IsScan(k)
  <2> HIDE DEF k
  <2> QED BY <1>2 DEF IsScan
<1> QED BY <1>3

\* A poll answers the newest record of the file, unless it takes an answer that
\* left one out or whose end its window begins at.
LEMMA ResolvedIsNewest ==
  ASSUME HitsFit, RememberedFits, RemembersNewest, ~(TailHits = {} /\ Kept /\ Joins /\ (missed \/ MissesOne))
  PROVE  Resolved = Newest(hits)
<1> USE CacheBounds
<1>1. MaxFile \in Nat /\ size \in Nat /\ size <= MaxFile /\ hits \subseteq 1..MaxFile /\ \A h \in hits : h \in Nat /\ 2 * h <= size
  BY DEF HitsFit, LinesIn
<1>2. TailStart \in Nat /\ TailStart <= size
  BY <1>1 DEF TailStart
<1>3. TailHits \subseteq hits
  BY DEF TailHits
<1>4. CASE TailHits # {}
  <2>1. \A g \in hits : g \in TailHits \/ \A h \in TailHits : g <= h
    <3> SUFFICES ASSUME NEW g \in hits, g \notin TailHits, NEW h \in TailHits PROVE g <= h
      OBVIOUS
    <3>1. TailStart > 0 /\ ~(2 * (g - 1) > TailStart)
      BY DEF TailHits
    <3>2. g \in Nat /\ h \in Nat /\ 2 * (h - 1) > TailStart
      BY <1>1, <1>3, <3>1 DEF TailHits
    <3> QED BY <3>1, <3>2, <1>2
  <2>2. Newest(hits) = Newest(TailHits)
    BY <2>1, <1>1, <1>3, <1>4, NewestAbove
  <2> QED BY <2>2, <1>4 DEF Resolved
<1>5. CASE TailHits = {} /\ Kept /\ Joins
  <2>1. /\ remembered.size \in Nat /\ TailStart <= remembered.size
        /\ remembered.value = Newest({h \in hits : 2 * h <= remembered.size})
    BY <1>5, <1>1 DEF Kept, Joins, RememberedFits, RemembersNewest
  <2>2. ASSUME NEW h \in hits PROVE 2 * h <= remembered.size
    <3>1. h \in Nat /\ h >= 1 /\ TailStart > 0 /\ 2 * (h - 1) <= TailStart
      BY <1>1, <1>2, <1>5 DEF TailHits
    <3>2. ~(2 * (LineAt(remembered.size) - 1) <= TailStart /\ LineAt(remembered.size) = h)
      BY <1>5, <3>1 DEF MissesOne
    <3>3. h # LineAt(remembered.size)
      BY <3>1, <3>2
    <3>4. LineAt(remembered.size) \in Nat /\ 2 * (LineAt(remembered.size) - 1) <= remembered.size /\ remembered.size < 2 * LineAt(remembered.size)
      <4>1. \A n \in Nat : n \div 2 + 1 \in Nat /\ 2 * (n \div 2 + 1 - 1) <= n /\ n < 2 * (n \div 2 + 1)
        OBVIOUS
      <4> QED BY <4>1, <2>1 DEF LineAt
    <3> DEFINE l == LineAt(remembered.size)
               n == remembered.size
    <3>5. l \in Nat /\ 2 * (l - 1) <= n /\ n < 2 * l /\ h # l /\ n \in Nat /\ TailStart <= n
      BY <2>1, <3>3, <3>4
    <3>6. 2 * h <= n
      <4> HIDE DEF l, n
      <4> QED BY <3>1, <3>5, <1>2
    <3> QED BY <3>6
  <2>3. {h \in hits : 2 * h <= remembered.size} = hits
    BY <2>2
  <2> QED BY <2>1, <2>3, <1>5 DEF Resolved
<1>6. CASE TailHits = {} /\ ~(Kept /\ Joins) /\ TailStart = 0
  <2>1. hits = {}
    BY <1>6 DEF TailHits
  <2> QED BY <2>1, <1>6 DEF Resolved, Newest
<1>7. CASE TailHits = {} /\ ~(Kept /\ Joins) /\ TailStart # 0
  <2>1. TailStart \in 1..MaxFile
    BY <1>1, <1>2, <1>7
  <2>2. ASSUME NEW h \in hits PROVE 2 * h - 1 < ReadEnd(TailStart)
    <3>1. h \in Nat /\ 2 * (h - 1) <= TailStart /\ 2 * h <= size
      BY <1>1, <1>2, <1>7 DEF TailHits
    <3>2. ReadEnd(TailStart) = size \/ TailStart + 2 <= ReadEnd(TailStart)
      BY <1>1, <1>2 DEF ReadEnd
    <3>3. ReadEnd(TailStart) \in Nat
      BY <1>1, <1>2 DEF ReadEnd
    <3> QED BY <3>1, <3>2, <3>3, <1>1, <1>2
  <2>3. Before(TailStart) = hits
    BY <2>2 DEF Before
  <2>4. PICK f : IsScan(f)
    BY ScanBackExists
  <2> DEFINE c == CHOOSE g : IsScan(g)
  <2>5. IsScan(c)
    BY <2>4
  <2> HIDE DEF c
  <2>6. c[TailStart] = Newest(hits)
    BY <2>1, <2>3, <2>5, <1>2, ScanBackIs
  <2>7. ScanBack = c[TailStart]
    BY DEF c, ScanBack, IsScan, MarkedIn, StartOf
  <2> QED BY <2>6, <2>7, <1>7 DEF Resolved
<1> QED BY <1>4, <1>5, <1>6, <1>7

-----------------------------------------------------------------------------
LEMMA NewestType == ASSUME NEW n \in 0..MaxFile, NEW S, S \subseteq LinesIn(n) PROVE Newest(S) \in {0} \cup LinesIn(n)
<1>1. n \div 2 \in Nat
  BY CacheBounds
<1>2. CASE S = {}
  BY <1>2 DEF Newest
<1>3. CASE S # {}
  BY <1>1, <1>3, NewestIs DEF LinesIn
<1> QED BY <1>2, <1>3

LEMMA LinesGrow == ASSUME NEW m \in Nat, NEW n \in Nat, m <= n PROVE LinesIn(m) \subseteq LinesIn(n)
BY DEF LinesIn

LEMMA CacheStart == ASSUME CacheInit PROVE CacheInv
<1> USE CacheBounds
<1>1. size = 0 /\ hits = {} /\ remembered = NothingRead /\ cut = FALSE /\ answer = 0 /\ missed = FALSE /\ 0 \in 0..MaxFile
  BY DEF CacheInit
<1>2. CacheTypeOK /\ RememberedFits /\ RemembersNewest
  BY <1>1 DEF CacheTypeOK, RememberedFits, RemembersNewest
<1>3. HitsFit
  BY <1>1 DEF HitsFit
<1> QED BY <1>2, <1>3 DEF CacheInv

LEMMA GrowKeeps == ASSUME CacheInv, NEW isHit \in BOOLEAN, GrowByte(isHit) PROVE CacheInv'
<1> USE CacheBounds
<1>1. /\ size' = size + 1 /\ size' <= MaxFile /\ ~cut /\ UNCHANGED <<remembered, cut, answer, missed>>
      /\ hits \subseteq hits' /\ hits' \subseteq hits \cup {size' \div 2} /\ (hits' # hits => size' % 2 = 0)
  BY DEF GrowByte
<1>2. size \in Nat /\ hits \subseteq LinesIn(size) /\ size <= MaxFile /\ MaxFile \in Nat
  BY DEF CacheInv, HitsFit
<1>3. size' \in 0..MaxFile
  BY <1>1, <1>2
<1>4. LinesIn(size) \subseteq LinesIn(size') /\ LinesIn(size') \subseteq LinesIn(MaxFile)
  BY <1>1, <1>2, <1>3, LinesGrow
<1>5. hits' \subseteq LinesIn(size')
  <2>1. CASE hits' = hits
    BY <2>1, <1>2, <1>4
  <2>2. CASE hits' # hits
    <3>1. \A n \in Nat : n % 2 = 0 /\ n > 0 => n \div 2 \in 1..(n \div 2)
      OBVIOUS
    <3>2. size' \in Nat /\ size' > 0
      BY <1>1, <1>2
    <3>3. size' \div 2 \in LinesIn(size')
      BY <3>1, <3>2, <2>2, <1>1 DEF LinesIn
    <3> QED BY <3>3, <1>1, <1>2, <1>4
  <2> QED BY <2>1, <2>2
<1>6. HitsFit' /\ CacheTypeOK'
  BY <1>1, <1>3, <1>4, <1>5 DEF CacheInv, HitsFit, CacheTypeOK
<1>7. remembered # NothingRead => remembered.size \in Nat /\ remembered.size <= size
  BY <1>1, <1>2 DEF CacheInv, RememberedFits
<1>8. RememberedFits'
  BY <1>1, <1>2, <1>7 DEF CacheInv, RememberedFits
<1>9. RemembersNewest'
  <2> SUFFICES ASSUME remembered # NothingRead, ~missed PROVE remembered.value = Newest({h \in hits' : 2 * h <= remembered.size})
    BY <1>1 DEF RemembersNewest
  <2>1. remembered.value = Newest({h \in hits : 2 * h <= remembered.size})
    BY <1>2, <1>7 DEF CacheInv, RemembersNewest
  <2>2. hits' # hits => ~(2 * (size' \div 2) <= remembered.size)
    <3> SUFFICES ASSUME hits' # hits PROVE ~(2 * (size' \div 2) <= remembered.size)
      OBVIOUS
    <3>1. \A n \in Nat : n % 2 = 0 => 2 * (n \div 2) = n
      OBVIOUS
    <3>2. 2 * (size' \div 2) = size'
      BY <3>1, <1>1, <1>3
    <3> QED BY <3>2, <1>1, <1>2, <1>7
  <2>3. {h \in hits' : 2 * h <= remembered.size} = {h \in hits : 2 * h <= remembered.size}
    BY <2>2, <1>1
  <2> QED BY <2>1, <2>3
<1> QED BY <1>6, <1>8, <1>9 DEF CacheInv

LEMMA TruncateKeeps == ASSUME CacheInv, NEW bytes \in 0..MaxFile, TruncateFile(bytes) PROVE CacheInv'
<1> USE CacheBounds
<1>1. /\ size' = bytes /\ bytes < size /\ cut' = TRUE /\ hits' \subseteq LinesIn(bytes)
      /\ (remembered # NothingRead => bytes < remembered.size) /\ UNCHANGED <<remembered, answer, missed>>
  BY DEF TruncateFile
<1>2. LinesIn(bytes) \subseteq LinesIn(MaxFile)
  BY LinesGrow
<1>3. HitsFit' /\ CacheTypeOK'
  BY <1>1, <1>2 DEF CacheInv, HitsFit, CacheTypeOK
<1>4. RememberedFits'
  BY <1>1 DEF CacheInv, RememberedFits
<1>5. RemembersNewest'
  BY <1>1 DEF RemembersNewest, CacheInv, RememberedFits
<1> QED BY <1>3, <1>4, <1>5 DEF CacheInv

\* What is remembered at the file's size, a record of it or none, and the newest
\* unless one was missed, keeps the invariant.
LEMMA RememberKeeps ==
  ASSUME CacheInv, NEW value \in {0} \cup LinesIn(size), answer' = value, remembered' = [value |-> value, size |-> size],
         missed' \in BOOLEAN, ~missed' => value = Newest(hits), cut' = FALSE, size' = size, hits' = hits
  PROVE  CacheInv'
<1> USE CacheBounds
<1>1. size \in 0..MaxFile /\ hits \subseteq LinesIn(size) /\ MaxFile \in Nat
  BY DEF CacheInv, HitsFit
<1>2. LinesIn(size) \subseteq 0..MaxFile
  <2>1. size \div 2 \in Nat /\ size \div 2 <= MaxFile
    BY <1>1
  <2> QED BY <2>1, <1>1 DEF LinesIn
<1>3. HitsFit' /\ hits \subseteq LinesIn(MaxFile)
  BY DEF CacheInv, CacheTypeOK, HitsFit
<1>4. remembered'.size = size /\ remembered'.value = value /\ ~(size < size)
  BY <1>1
<1>5. RememberedFits'
  BY <1>1, <1>4 DEF RememberedFits
<1>6. CacheTypeOK'
  <2>1. answer' \in 0..MaxFile
    BY <1>1, <1>2
  <2> QED BY <2>1, <1>1, <1>3, <1>4 DEF CacheTypeOK
<1>7. {h \in hits : 2 * h <= size} = hits
  <2>1. \A h \in 1..(size \div 2) : 2 * h <= size
    <3> DEFINE q == size \div 2
    <3>1. q \in Nat /\ 2 * q <= size
      BY <1>1
    <3> HIDE DEF q
    <3>2. \A h \in 1..q : 2 * h <= size
      BY <3>1, <1>1
    <3> QED BY <3>2 DEF q
  <2> QED BY <2>1, <1>1 DEF LinesIn
<1>8. RemembersNewest'
  BY <1>4, <1>7 DEF RemembersNewest
<1> QED BY <1>3, <1>5, <1>6, <1>8 DEF CacheInv

LEMMA PollKeeps == ASSUME CacheInv, PollTail PROVE CacheInv'
<1> USE CacheBounds
<1>1. /\ answer' = Resolved /\ remembered' = [value |-> Resolved, size |-> size]
      /\ missed' = (TailHits = {} /\ Kept /\ Joins /\ (missed \/ MissesOne))
      /\ cut' = FALSE /\ size' = size /\ hits' = hits
  BY DEF PollTail
<1>2. size \in 0..MaxFile /\ hits \subseteq LinesIn(size) /\ MaxFile \in Nat
  BY DEF CacheInv, HitsFit
<1>3. missed' \in BOOLEAN
  BY <1>1
<1>4. ~missed' => Resolved = Newest(hits)
  BY <1>1, ResolvedIsNewest DEF CacheInv
<1>5. Resolved \in {0} \cup LinesIn(size)
  <2>1. CASE missed'
    <3>0. TailHits = {} /\ Kept /\ Joins
      BY <1>1, <2>1
    <3>1. Resolved = remembered.value /\ remembered.size \in 0..size
      BY <1>2, <3>0 DEF Resolved, Kept, CacheInv, RememberedFits, CacheTypeOK
    <3>2. remembered.value \in {0} \cup LinesIn(remembered.size)
      BY <1>1, <2>1 DEF Kept, CacheInv, CacheTypeOK
    <3>3. LinesIn(remembered.size) \subseteq LinesIn(size)
      <4>1. remembered.size \in Nat /\ size \in Nat /\ remembered.size <= size
        BY <3>1, <1>2
      <4> QED BY <4>1, LinesGrow
    <3> QED BY <3>1, <3>2, <3>3
  <2>2. CASE ~missed'
    BY <2>2, <1>2, <1>4, NewestType
  <2> QED BY <2>1, <2>2
<1> QED BY <1>1, <1>3, <1>4, <1>5, RememberKeeps

LEMMA ScanFailsKeeps == ASSUME CacheInv, NEW found \in {0} \cup hits, PollScanFails(found) PROVE CacheInv'
<1>1. /\ answer' = found /\ remembered' = [value |-> found, size |-> size] /\ missed' = TRUE
      /\ cut' = FALSE /\ size' = size /\ hits' = hits
  BY DEF PollScanFails
<1>2. found \in {0} \cup LinesIn(size)
  BY DEF CacheInv, HitsFit
<1> QED BY <1>1, <1>2, RememberKeeps

LEMMA UnreadableKeeps == ASSUME CacheInv, PollUnreadable PROVE CacheInv'
<1> USE CacheBounds
<1>1. /\ answer' = (IF Kept THEN remembered.value ELSE 0) /\ remembered' = (IF Kept THEN remembered ELSE NothingRead)
      /\ cut' = FALSE /\ missed' = (Kept /\ missed) /\ UNCHANGED <<size, hits>>
  BY DEF PollUnreadable
<1>2. Kept => ~cut /\ remembered.value \in 0..MaxFile
  <2> SUFFICES ASSUME Kept PROVE ~cut /\ remembered.value \in 0..MaxFile
    OBVIOUS
  <2>1. /\ remembered.size \in 0..MaxFile /\ remembered.value \in {0} \cup LinesIn(remembered.size)
        /\ (cut <=> size < remembered.size) /\ size >= remembered.size /\ size \in 0..MaxFile
    BY DEF Kept, CacheInv, RememberedFits, HitsFit
  <2>2. remembered.size \div 2 \in Nat /\ remembered.size \div 2 <= MaxFile
    BY <2>1
  <2> QED BY <2>1, <2>2 DEF LinesIn
<1>3. HitsFit'
  BY <1>1 DEF CacheInv, HitsFit
<1>4. CASE Kept
  <2>1. answer' = remembered.value /\ remembered' = remembered /\ cut' = cut /\ missed' = missed
    BY <1>1, <1>2, <1>4 DEF CacheInv, CacheTypeOK
  <2>2. CacheTypeOK' /\ RememberedFits' /\ RemembersNewest'
    BY <2>1, <1>1, <1>2, <1>4 DEF CacheInv, CacheTypeOK, RememberedFits, RemembersNewest
  <2> QED BY <2>2, <1>3 DEF CacheInv
<1>5. CASE ~Kept
  <2>0. missed' = FALSE
    BY <1>1, <1>5
  <2>1. answer' = 0 /\ remembered' = NothingRead /\ cut' = FALSE /\ missed' = FALSE /\ 0 \in 0..MaxFile
    BY <2>0, <1>1, <1>5
  <2>2. CacheTypeOK' /\ RememberedFits' /\ RemembersNewest'
    BY <2>1, <1>1 DEF CacheInv, CacheTypeOK, RememberedFits, RemembersNewest
  <2> QED BY <2>2, <1>3 DEF CacheInv
<1> QED BY <1>4, <1>5 DEF CacheInv

LEMMA CacheInvariance == CacheSpec => []CacheInv
<1>1. CacheInit => CacheInv
  BY CacheStart
<1>2. CacheInv /\ [CacheNext]_cacheVars => CacheInv'
  <2> SUFFICES ASSUME CacheInv, [CacheNext]_cacheVars PROVE CacheInv'
    OBVIOUS
  <2>1. CASE UNCHANGED cacheVars
    BY <2>1 DEF cacheVars, CacheInv, CacheTypeOK, HitsFit, RememberedFits, RemembersNewest
  <2> QED BY <2>1, GrowKeeps, TruncateKeeps, PollKeeps, UnreadableKeeps, ScanFailsKeeps DEF CacheNext
<1> QED BY <1>1, <1>2, PTL DEF CacheSpec

(* The cache's variables keep their types (record-cache.ts).                *)
THEOREM CacheTypeCorrect == CacheSpec => []CacheTypeOK
<1>1. CacheInv => CacheTypeOK
  BY DEF CacheInv
<1> QED BY <1>1, CacheInvariance, PTL

(* What the cache remembers is the newest record of the bytes it covered,   *)
(* unless a window began in the line the poll before ended at or a read of  *)
(* a search failed, for any window, chunk and slack (record-cache.ts,       *)
(* resolve and scanBack).                                                   *)
THEOREM CacheCorrect == CacheSpec => []RemembersNewest
<1>1. CacheInv => RemembersNewest
  BY DEF CacheInv
<1> QED BY <1>1, CacheInvariance, PTL

(* A poll that found its answer in its window, or by a search that could    *)
(* read, answers the newest record of the whole file, whatever was missed   *)
(* before; so does one that joins what was searched, unless that has missed *)
(* a record or its own window begins in the line the search ended at.       *)
PollIsNewest == PollTail /\ ~missed' => answer' = Newest(hits)
THEOREM PollsAnswerNewest == CacheSpec => [][PollIsNewest]_cacheVars
<1>1. CacheInv => PollIsNewest
  BY ResolvedIsNewest DEF CacheInv, PollTail, PollIsNewest
<1>2. CacheInv /\ [CacheNext]_cacheVars => [PollIsNewest]_cacheVars
  BY <1>1
<1> QED BY <1>2, CacheInvariance, PTL DEF CacheSpec

-----------------------------------------------------------------------------
(* The limit alerts.                                                       *)
LEMMA DivNat == ASSUME NEW W \in Nat \ {0}, NEW t \in Nat PROVE t \div W \in Nat /\ (t \div W) * W <= t /\ t < (t \div W + 1) * W
OBVIOUS
LEMMA DivGrows == ASSUME NEW W \in Nat \ {0}, NEW s \in Nat, NEW t \in Nat, s <= t PROVE s \div W <= t \div W
<1> DEFINE a == s \div W
           b == t \div W
<1>1. a \in Nat /\ b \in Nat /\ a * W <= s /\ t < (b + 1) * W
  BY DivNat
<1> HIDE DEF a, b
<1>2. ~(b < a)
  <2> SUFFICES ASSUME b < a PROVE FALSE
    OBVIOUS
  <2>1. (b + 1) * W <= a * W
    BY <1>1
  <2> QED BY <1>1, <2>1
<1> QED BY <1>1, <1>2 DEF a, b
LEMMA WindowsGrow ==
  /\ \A t \in 0..MaxNow : WindowOf(t) \in Nat /\ WindowOf(t) \in Windows
  /\ \A s, t \in 0..MaxNow : s <= t => WindowOf(s) <= WindowOf(t)
  /\ 0 \in Windows /\ 1 \in Windows /\ Windows \subseteq Nat
<1>1. WindowLength \in Nat \ {0} /\ MaxNow \in Nat /\ WindowLength <= MaxNow
  BY AlertBounds
<1>2. \A t \in 0..MaxNow : WindowOf(t) \in Nat
  BY <1>1, DivNat DEF WindowOf
<1>3. ASSUME NEW s \in 0..MaxNow, NEW t \in 0..MaxNow, s <= t PROVE WindowOf(s) <= WindowOf(t)
  BY <1>1, <1>3, DivGrows DEF WindowOf
<1>4. ASSUME NEW t \in 0..MaxNow PROVE WindowOf(t) \in Windows
  BY <1>1, <1>2, <1>3 DEF Windows
<1>5. WindowOf(WindowLength) = 1
  BY <1>1 DEF WindowOf
<1>6. 0 \in Windows /\ 1 \in Windows /\ Windows \subseteq Nat
  BY <1>1, <1>2, <1>4, <1>5 DEF Windows
<1> QED BY <1>2, <1>3, <1>4, <1>6

LEMMA EndsAreTimes ==
  /\ \A w \in Nat : WindowEnd(w) \in Nat
  /\ \A w \in Nat, t \in 0..MaxNow : w < WindowOf(t) => WindowEnd(w) <= t
<1>1. WindowLength \in Nat \ {0} /\ MaxNow \in Nat
  BY AlertBounds
<1>2. ASSUME NEW w \in Nat PROVE WindowEnd(w) \in Nat
  BY <1>1 DEF WindowEnd
<1>3. ASSUME NEW w \in Nat, NEW t \in 0..MaxNow, w < WindowOf(t) PROVE WindowEnd(w) <= t
  <2>1. t \div WindowLength \in Nat /\ (t \div WindowLength) * WindowLength <= t
    BY <1>1, DivNat
  <2>2. \A q \in Nat : w < q => (w + 1) * WindowLength <= q * WindowLength
    BY <1>1
  <2>3. (w + 1) * WindowLength \in Nat /\ (t \div WindowLength) * WindowLength \in Nat
    BY <1>1, <2>1
  <2> QED BY <2>1, <2>2, <2>3, <1>3 DEF WindowEnd, WindowOf
<1> QED BY <1>2, <1>3

\* Stamps of one window are told to be, and lie half a unit about its end.
LEMMA StampsAgree ==
  ASSUME stamped \in BOOLEAN, NEW w \in Windows
  PROVE  /\ StampsOf(w) \subseteq Stamps
         /\ \A a, b \in StampsOf(w) : SameWindow(a, b)
         /\ stamped => \A a \in StampsOf(w) : a # NoStamp /\ a.window = w /\ StampTime(a) \in {2 * WindowEnd(w), 2 * WindowEnd(w) + 1}
<1>1. CASE stamped
  <2>1. \A a \in [window : {w}, jitter : {0, 1}] : a \in [window : Windows, jitter : {0, 1}] /\ a.window = w /\ a.jitter \in {0, 1}
    OBVIOUS
  <2>2. \A a \in [window : {w}, jitter : {0, 1}] : a # NoStamp
    BY <2>1, AlertNames
  <2>3. WindowEnd(w) \in Nat
    BY WindowsGrow, EndsAreTimes
  <2>4. \A a \in [window : {w}, jitter : {0, 1}] : StampTime(a) = 2 * WindowEnd(w) \/ StampTime(a) = 2 * WindowEnd(w) + 1
    BY <2>1, <2>3 DEF StampTime
  <2>5. StampsOf(w) = [window : {w}, jitter : {0, 1}]
    BY <1>1 DEF StampsOf
  <2> QED BY <2>1, <2>2, <2>4, <2>5 DEF Stamps, SameWindow
<1>2. CASE ~stamped
  BY <1>2 DEF StampsOf, Stamps, SameWindow
<1> QED BY <1>1, <1>2

Reached == alertPushes["reached"]
Resets == alertPushes["reset"]
Undone == excuse # "none"

AlertShape ==
  /\ now \in 0..MaxNow /\ stamped \in BOOLEAN /\ account \in Accounts
  /\ file \in Ledgers \cup {Missing, Corrupt} /\ memory \in Ledgers \cup {Missing} /\ writeFailed \in BOOLEAN
  /\ watched \in Accounts \X Windows /\ alertPushes \in [{"reached", "reset"} -> Counts]
  /\ excuse \in Excuses \cup {"none"}
FileIsBehind == file \in Hits /\ memory \in Hits /\ file.account = memory.account => file.seenAt <= memory.seenAt

\* A record bears a stamp of its window, and no window is on record before it began.
StampFits(hit) == hit \in Hits => hit.stamp \in StampsOf(hit.window) /\ hit.window <= WindowOf(now)
StampsFit == StampFits(file) /\ StampFits(memory)

\* Who is on record as pushed was pushed.
IsCounted(hit) == IsWatched(hit) /\ hit.pushed => Reached > 0
PushedIsCounted == IsCounted(file) /\ IsCounted(memory)

\* Unless its record was lost, what memory knows of the watched window decides next.
MemoryIsBase == Undone \/ (IsWatched(memory) => Base = memory)

\* Unless it was lost, the record of a pushed window stands until the window is over.
ReachedIsKept ==
  stamped /\ Reached > 0 => \/ Undone
                            \/ Reached = 1 /\ \/ watched[2] < WindowOf(now)
                                              \/ watched[2] = WindowOf(now) /\ IsWatched(Base)

\* A reset was pushed for a hit that was, and unless its record was lost it says so.
ResetsFollow ==
  /\ Resets > 0 => Reached > 0
  /\ \/ Undone \/ Reached > 1
     \/ Resets <= 1 /\ (Resets = 1 /\ IsWatched(Base) /\ Base.pushed => Base.resetSent)
ResetsAreLate == stamped /\ Resets > 0 => Undone \/ WindowEnd(watched[2]) <= now
AlertInv ==
  /\ AlertShape /\ FileIsBehind /\ StampsFit /\ PushedIsCounted
  /\ MemoryIsBase /\ ReachedIsKept /\ ResetsFollow /\ ResetsAreLate

LEMMA AlertInitInv == AlertInit => AlertInv
<1> SUFFICES ASSUME AlertInit PROVE AlertInv
  OBVIOUS
<1>1. /\ now = 0 /\ stamped \in BOOLEAN /\ account \in Accounts /\ file = Missing /\ memory = Missing /\ writeFailed = FALSE
      /\ Reached = 0 /\ Resets = 0 /\ excuse = "none" /\ watched = <<account, 1>>
  BY AlertNames DEF AlertInit, Reached, Resets
<1>2. alertPushes \in [{"reached", "reset"} -> Counts]
  BY DEF AlertInit, Counts
<1>3. watched \in Accounts \X Windows
  BY <1>1, WindowsGrow
<1>4. now \in 0..MaxNow
  BY <1>1, AlertBounds
<1>5. AlertShape
  BY <1>1, <1>2, <1>3, <1>4 DEF AlertShape
<1>6. file \notin Hits /\ memory \notin Hits
  BY <1>1, AlertNames
<1> QED BY <1>1, <1>5, <1>6 DEF AlertInv, FileIsBehind, StampsFit, StampFits, PushedIsCounted, IsCounted, IsWatched,
       MemoryIsBase, ReachedIsKept, ResetsFollow, ResetsAreLate

\* The ledger a reading starts from.
LEMMA BaseIs ==
  ASSUME writeFailed \in BOOLEAN
  PROVE  /\ file \notin {Missing, Corrupt} => Base = file
         /\ file = Corrupt => Base = RememberedHit
         /\ file = Missing /\ writeFailed => Base = RememberedHit
         /\ file = Missing /\ ~writeFailed => Base = NoHit
<1>1. Missing # Corrupt
  BY AlertNames
<1> QED BY <1>1 DEF Base
LEMMA BaseIsNext ==
  ASSUME writeFailed' \in BOOLEAN
  PROVE  /\ file' \notin {Missing, Corrupt} => Base' = file'
         /\ file' = Corrupt => Base' = RememberedHit'
         /\ file' = Missing /\ writeFailed' => Base' = RememberedHit'
         /\ file' = Missing /\ ~writeFailed' => Base' = NoHit
<1>1. Missing # Corrupt
  BY AlertNames
<1> QED BY <1>1 DEF Base

LEMMA BaseType == ASSUME AlertInv PROVE Base \in Ledgers /\ Base \notin {Missing, Corrupt} /\ StampFits(Base) /\ IsCounted(Base)
<1>1. writeFailed \in BOOLEAN /\ file \in Ledgers \cup {Missing, Corrupt} /\ memory \in Ledgers \cup {Missing}
  BY DEF AlertInv, AlertShape
<1>2. Base \in {file, memory, NoHit} /\ Base \notin {Missing, Corrupt}
  BY <1>1, BaseIs, AlertNames DEF RememberedHit, Ledgers
<1>3. StampFits(NoHit) /\ IsCounted(NoHit)
  BY AlertNames DEF StampFits, IsCounted, IsWatched
<1>4. StampFits(file) /\ StampFits(memory) /\ IsCounted(file) /\ IsCounted(memory)
  BY DEF AlertInv, StampsFit, PushedIsCounted
<1>5. Base \in Ledgers
  BY <1>1, <1>2 DEF Ledgers
<1> QED BY <1>2, <1>3, <1>4, <1>5

\* What a reading about window w may leave on record: the hit it found, no hit, or a new one.
SameHit(a, b) == a.account = b.account /\ a.stamp = b.stamp /\ a.window = b.window /\ a.pushed = b.pushed
Keeps(d, w) ==
  /\ OnRecord # NoHit /\ Base \in Hits /\ Base.account = account /\ d.hit \in Hits /\ SameHit(d.hit, Base)
  /\ Base.seenAt <= d.hit.seenAt /\ (Base.resetSent => d.hit.resetSent)
  /\ d.push \in {"none", "reset"} /\ (d.push = "reset" => Base.pushed /\ ~Base.resetSent /\ d.hit.resetSent)
  /\ d.push = "reset" /\ stamped /\ w = WindowOf(now) => WindowEnd(Base.window) <= now
FindsNone(d) == OnRecord = NoHit /\ d.hit = NoHit /\ d.push = "none"
StartsNew(d, w) ==
  /\ d.hit \in Hits /\ d.hit.account = account /\ d.hit.window = w /\ d.hit.stamp \in StampsOf(w)
  /\ d.push \in {"none", "reached"} /\ (d.hit.pushed => d.push = "reached")
  /\ d.hit.seenAt = now
  /\ Base \in Hits /\ Base.account = account => Base.seenAt <= now /\ ~SameWindow(Base.stamp, d.hit.stamp)

LEMMA RecordIs ==
  ASSUME AlertInv
  PROVE  /\ OnRecord = NoHit => Base = NoHit \/ (Base \in Hits /\ Base.account # account)
         /\ OnRecord # NoHit => OnRecord = Base /\ Base \in Hits /\ Base.account = account
         /\ Base \in Hits /\ Base.account = account => OnRecord = Base /\ OnRecord # NoHit
<1>1. Base \in Hits \cup {NoHit} /\ NoHit \notin Hits
  BY BaseType, AlertNames DEF Ledgers
<1>2. CASE Base = NoHit
  <2>1. OnRecord = NoHit
    BY <1>2, Zenon DEF OnRecord
  <2>2. Base \notin Hits
    BY <1>1, <1>2
  <2> HIDE DEF Base, OnRecord
  <2> QED BY <2>1, <2>2, <1>2, Zenon
<1>3. CASE Base \in Hits /\ Base.account = account
  BY <1>1, <1>3, Zenon DEF OnRecord
<1>4. CASE Base \in Hits /\ Base.account # account
  BY <1>1, <1>4, Zenon DEF OnRecord
<1> QED BY <1>1, <1>2, <1>3, <1>4

LEMMA SeenAgain ==
  ASSUME NEW h \in Hits, NEW t \in 0..MaxNow
  PROVE  /\ [h EXCEPT !.seenAt = t] \in Hits /\ SameHit([h EXCEPT !.seenAt = t], h)
         /\ [h EXCEPT !.seenAt = t].seenAt = t /\ [h EXCEPT !.seenAt = t].resetSent = h.resetSent
         /\ [[h EXCEPT !.seenAt = t] EXCEPT !.resetSent = TRUE] \in Hits /\ SameHit([[h EXCEPT !.seenAt = t] EXCEPT !.resetSent = TRUE], h)
         /\ [[h EXCEPT !.seenAt = t] EXCEPT !.resetSent = TRUE].seenAt = t /\ [[h EXCEPT !.seenAt = t] EXCEPT !.resetSent = TRUE].resetSent = TRUE
BY DEF Hits, SameHit

\* A reset is over for a reading of the present when its window is.
LEMMA OverIsLate ==
  ASSUME AlertInv, stamped, Base \in Hits, NEW stamp \in StampsOf(WindowOf(now)), Over(Base, stamp)
  PROVE  WindowEnd(Base.window) <= now
<1>1. now \in 0..MaxNow /\ now \in Nat /\ WindowOf(now) \in Windows /\ WindowOf(now) \in Nat /\ Windows \subseteq Nat
  BY WindowsGrow DEF AlertInv, AlertShape
<1>2. Base.stamp \in StampsOf(Base.window) /\ Base.window <= WindowOf(now)
  BY BaseType DEF StampFits
<1>3. Base.window \in Windows
  BY DEF Hits
<1>4. Base.stamp # NoStamp /\ (StampTime(Base.stamp) = 2 * WindowEnd(Base.window) \/ StampTime(Base.stamp) = 2 * WindowEnd(Base.window) + 1)
  BY <1>2, <1>3, StampsAgree
<1>5. WindowEnd(Base.window) \in Nat
  BY <1>1, <1>3, EndsAreTimes
<1>6. CASE StampTime(Base.stamp) <= 2 * now
  BY <1>1, <1>4, <1>5, <1>6
<1>7. CASE ~SameWindow(Base.stamp, stamp)
  <2>1. Base.window # WindowOf(now)
    BY <1>1, <1>2, <1>7, StampsAgree
  <2>2. Base.window \in Nat
    BY <1>1, <1>3
  <2>3. Base.window < WindowOf(now)
    BY <1>1, <1>2, <2>1, <2>2
  <2> QED BY <1>1, <2>2, <2>3, EndsAreTimes
<1> QED BY <1>4, <1>6, <1>7 DEF Over

LEMMA Outcomes ==
  ASSUME AlertInv, NEW w \in Windows, NEW stamp \in StampsOf(w), NEW full \in BOOLEAN, NEW canSend \in BOOLEAN
  PROVE  Keeps(Decided(w, stamp, full, canSend), w) \/ FindsNone(Decided(w, stamp, full, canSend)) \/ StartsNew(Decided(w, stamp, full, canSend), w)
<1> DEFINE hit == [account |-> account, stamp |-> stamp, window |-> w, pushed |-> canSend, resetSent |-> FALSE, seenAt |-> now]
           d == Decided(w, stamp, full, canSend)
<1>1. now \in 0..MaxNow /\ now \in Nat /\ account \in Accounts /\ stamped \in BOOLEAN /\ stamp \in Stamps
  BY StampsAgree DEF AlertInv, AlertShape
<1>2. hit \in Hits
  BY <1>1 DEF Hits
<1>3. Base \in Hits => Base.seenAt \in Nat /\ Base.resetSent \in BOOLEAN
  BY DEF Hits
<1>4. CASE Late
  <2>1. d = [hit |-> OnRecord, push |-> "none"] /\ OnRecord # NoHit
    BY <1>4 DEF Decided, Late
  <2> QED BY <2>1, <1>3, RecordIs DEF Keeps, SameHit
<1>5. CASE ~Late /\ OnRecord # NoHit
  <2>1. OnRecord = Base /\ Base \in Hits /\ Base.account = account /\ Base.seenAt <= now
    BY <1>1, <1>3, <1>5, RecordIs DEF Late
  <2>2. Seen \in Hits /\ SameHit(Seen, Base) /\ Seen.seenAt = now /\ Seen.resetSent = Base.resetSent
    BY <2>1, <1>1, SeenAgain DEF Seen
  <2>3. /\ [Seen EXCEPT !.resetSent = TRUE] \in Hits /\ SameHit([Seen EXCEPT !.resetSent = TRUE], Base)
        /\ [Seen EXCEPT !.resetSent = TRUE].seenAt = now /\ [Seen EXCEPT !.resetSent = TRUE].resetSent = TRUE
    BY <2>1, <1>1, SeenAgain DEF Seen
  <2>4. CASE d = [hit |-> Seen, push |-> "none"]
    BY <2>1, <2>2, <2>4, <1>5 DEF Keeps
  <2>5. CASE full /\ ~OnHit(stamp)
    <3>1. d = [hit |-> hit, push |-> IF canSend THEN "reached" ELSE "none"]
      BY <2>5, <1>5 DEF Decided
    <3>2. ~SameWindow(Base.stamp, stamp)
      BY <2>5, <2>1, <1>5 DEF OnHit
    <3>3. d.hit = hit /\ d.push \in {"none", "reached"} /\ (canSend => d.push = "reached")
      BY <3>1
    <3>4. hit.account = account /\ hit.window = w /\ hit.stamp = stamp /\ hit.pushed = canSend /\ hit.seenAt = now
      OBVIOUS
    <3> HIDE DEF hit, d
    <3> QED BY <3>2, <3>3, <3>4, <2>1, <1>2 DEF StartsNew, d
  <2>6. CASE full /\ OnHit(stamp)
    BY <2>4, <2>6, <1>5 DEF Decided
  <2>7. CASE ~full
    <3>1. d = IF OnRecord.resetSent \/ ~Over(OnRecord, stamp) THEN [hit |-> Seen, push |-> "none"]
              ELSE [hit |-> [Seen EXCEPT !.resetSent = TRUE],
                    push |-> IF Owed(OnRecord) /\ canSend THEN "reset" ELSE "none"]
      BY <2>7, <1>5 DEF Decided
    <3>2. CASE OnRecord.resetSent \/ ~Over(OnRecord, stamp)
      BY <3>1, <3>2, <2>4
    <3>3. CASE ~OnRecord.resetSent /\ Over(OnRecord, stamp)
      <4>1. d.hit = [Seen EXCEPT !.resetSent = TRUE] /\ d.push = IF Owed(OnRecord) /\ canSend THEN "reset" ELSE "none"
        BY <3>1, <3>3
      <4>2. d.push \in {"none", "reset"} /\ (d.push = "reset" => Base.pushed)
        BY <4>1, <2>1 DEF Owed
      <4>3. d.hit \in Hits /\ SameHit(d.hit, Base) /\ d.hit.seenAt = now /\ d.hit.resetSent = TRUE
        BY <4>1, <2>3
      <4>4. stamped /\ w = WindowOf(now) => WindowEnd(Base.window) <= now
        BY <2>1, <3>3, OverIsLate
      <4> HIDE DEF d
      <4> QED BY <4>2, <4>3, <4>4, <3>3, <2>1, <1>5 DEF Keeps, d
    <3> QED BY <3>2, <3>3
  <2> QED BY <2>5, <2>6, <2>7
<1>6. CASE OnRecord = NoHit
  <2>1. ~Late /\ ~OnHit(stamp)
    BY <1>6 DEF Late, OnHit
  <2>2. ~(Base \in Hits /\ Base.account = account)
    BY <1>6, RecordIs
  <2>3. CASE full
    <3>1. d = [hit |-> hit, push |-> IF canSend THEN "reached" ELSE "none"]
      BY <2>1, <2>3 DEF Decided
    <3>3. d.hit = hit /\ d.push \in {"none", "reached"} /\ (canSend => d.push = "reached")
      BY <3>1
    <3>4. hit.account = account /\ hit.window = w /\ hit.stamp = stamp /\ hit.pushed = canSend /\ hit.seenAt = now
      OBVIOUS
    <3> HIDE DEF hit, d
    <3> QED BY <3>3, <3>4, <2>2, <1>2 DEF StartsNew, d
  <2>4. CASE ~full
    <3>1. d = [hit |-> NoHit, push |-> "none"]
      BY <2>1, <2>4, <1>6 DEF Decided
    <3> QED BY <3>1, <1>6 DEF FindsNone
  <2> QED BY <2>3, <2>4
<1> QED BY <1>4, <1>5, <1>6

\* After a reading the ledger is what it left, or the older one whose place it could not take.
Replaced(hit) == Base' = hit \/ (Base' = Base /\ file' = file /\ (IsWatched(hit) => Undone'))
LEMMA Written ==
  ASSUME AlertInv, NEW d, d.hit \in Ledgers, NEW written \in BOOLEAN,
         memory' = d.hit,
         IF d.hit = Base THEN UNCHANGED <<file, writeFailed>>
           ELSE writeFailed' = ~written /\ file' = IF written THEN d.hit ELSE file,
         d.hit # Base /\ ~written /\ file \notin {Missing, Corrupt} /\ IsWatched(d.hit) => Undone'
  PROVE  Replaced(d.hit) /\ writeFailed' \in BOOLEAN /\ file' \in {file, d.hit}
<1>0. writeFailed \in BOOLEAN /\ memory' # Missing /\ d.hit \notin {Missing, Corrupt}
  BY AlertNames DEF AlertInv, AlertShape, Ledgers
<1>1. RememberedHit' = d.hit
  BY <1>0 DEF RememberedHit
<1>2. writeFailed' \in BOOLEAN /\ file' \in {file, d.hit}
  BY <1>0
<1>4. CASE d.hit = Base
  <2>1. file' = file /\ writeFailed' = writeFailed
    BY <1>4
  <2>2. Base' = Base
    BY <2>1, <1>0, <1>1, <1>4, BaseIs, BaseIsNext
  <2> QED BY <2>2, <1>2, <1>4 DEF Replaced
<1>5. CASE d.hit # Base /\ written
  <2>1. file' = d.hit
    BY <1>5
  <2>2. Base' = d.hit
    BY <2>1, <1>0, <1>2, BaseIsNext
  <2> QED BY <2>2, <1>2 DEF Replaced
<1>6. CASE d.hit # Base /\ ~written
  <2>1. file' = file /\ writeFailed'
    BY <1>6
  <2>2. CASE file \in {Missing, Corrupt}
    <3>1. Base' = d.hit
      BY <2>1, <2>2, <1>1, <1>2, BaseIsNext
    <3> QED BY <3>1, <1>2 DEF Replaced
  <2>3. CASE file \notin {Missing, Corrupt}
    <3>1. Base' = file /\ Base = file
      BY <2>1, <2>3, <1>0, <1>2, BaseIs, BaseIsNext
    <3>2. IsWatched(d.hit) => Undone'
      BY <1>6, <2>3
    <3> QED BY <3>1, <3>2, <2>1, <1>2 DEF Replaced
  <2> QED BY <2>2, <2>3
<1> QED BY <1>4, <1>5, <1>6

\* What a push adds to the counts.
LEMMA PushCounts ==
  ASSUME AlertInv, NEW kind \in {"none", "reached", "reset"}, NEW aw,
         alertPushes' = IF kind = "none" THEN alertPushes ELSE [alertPushes EXCEPT ![kind] = CountOne(@, aw)]
  PROVE  /\ alertPushes' \in [{"reached", "reset"} -> Counts]
         /\ Reached' = IF kind = "reached" /\ aw = watched /\ Reached < 2 THEN Reached + 1 ELSE Reached
         /\ Resets' = IF kind = "reset" /\ aw = watched /\ Resets < 2 THEN Resets + 1 ELSE Resets
<1>1. alertPushes \in [{"reached", "reset"} -> Counts]
  BY DEF AlertInv, AlertShape
<1>2. \A n \in Counts : CountOne(n, aw) \in Counts
  BY DEF CountOne, Counts
<1>3. alertPushes' \in [{"reached", "reset"} -> Counts]
  BY <1>1, <1>2
<1>4. CASE kind = "none"
  BY <1>3, <1>4 DEF Reached, Resets
<1>5. CASE kind = "reached"
  <2>1. alertPushes' = [alertPushes EXCEPT !["reached"] = CountOne(alertPushes["reached"], aw)]
    BY <1>5
  <2>2. alertPushes'["reached"] = CountOne(alertPushes["reached"], aw) /\ alertPushes'["reset"] = alertPushes["reset"]
    BY <2>1, <1>1
  <2> QED BY <2>2, <1>3, <1>5 DEF Reached, Resets, CountOne
<1>6. CASE kind = "reset"
  <2>1. alertPushes' = [alertPushes EXCEPT !["reset"] = CountOne(alertPushes["reset"], aw)]
    BY <1>6
  <2>2. alertPushes'["reset"] = CountOne(alertPushes["reset"], aw) /\ alertPushes'["reached"] = alertPushes["reached"]
    BY <2>1, <1>1
  <2> QED BY <2>2, <1>3, <1>6 DEF Reached, Resets, CountOne
<1> QED BY <1>4, <1>5, <1>6

\* What a reading makes the histories say.
LEMMA ExcuseIs ==
  ASSUME AlertInv, NEW w, NEW d, NEW written \in BOOLEAN,
         IF IsWatched(Base) /\ Base.account # account THEN Excused("lapsed", TRUE)
         ELSE IF IsStray(w, Base, d) THEN Excused("strayed", IsWatched(Base) \/ IsWatched(d.hit))
         ELSE Excused("unwritten", d.hit # Base /\ ~written /\ file \notin {Missing, Corrupt} /\ IsWatched(d.hit))
  PROVE  /\ excuse' \in Excuses \cup {"none"} /\ (Undone => Undone')
         /\ IsWatched(Base) /\ Base.account # account => Undone'
         /\ IsStray(w, Base, d) /\ (IsWatched(Base) \/ IsWatched(d.hit)) => Undone'
         /\ d.hit # Base /\ ~written /\ file \notin {Missing, Corrupt} /\ IsWatched(d.hit) => Undone'
<1>1. excuse \in Excuses \cup {"none"}
  BY DEF AlertInv, AlertShape
<1>2. CASE IsWatched(Base) /\ Base.account # account
  <2>1. excuse' = IF excuse = "none" THEN "lapsed" ELSE excuse
    BY <1>2 DEF Excused
  <2> QED BY <2>1, <1>1 DEF Undone, Excuses
<1>3. CASE ~(IsWatched(Base) /\ Base.account # account) /\ IsStray(w, Base, d)
  <2>1. excuse' = IF excuse = "none" /\ (IsWatched(Base) \/ IsWatched(d.hit)) THEN "strayed" ELSE excuse
    BY <1>3 DEF Excused
  <2> QED BY <2>1, <1>1, <1>3 DEF Undone, Excuses
<1>4. CASE ~(IsWatched(Base) /\ Base.account # account) /\ ~IsStray(w, Base, d)
  <2>1. excuse' = IF excuse = "none" /\ d.hit # Base /\ ~written /\ file \notin {Missing, Corrupt} /\ IsWatched(d.hit)
                  THEN "unwritten" ELSE excuse
    BY <1>4 DEF Excused
  <2> QED BY <2>1, <1>1, <1>4 DEF Undone, Excuses
<1> QED BY <1>2, <1>3, <1>4

\* A reading keeps the invariant: what it leaves on record is one of the three outcomes.
LEMMA ReadingKeeps ==
  ASSUME AlertInv, Reading
  PROVE  AlertInv'
<1> DEFINE n == WindowOf(now)
<1>a. PICK asked \in {t \in 0..now : now - t <= WindowLength}, full \in BOOLEAN, canSend \in BOOLEAN, written \in BOOLEAN :
        \E stamp \in StampsOf(WindowOf(asked)) : OnUsageReading(WindowOf(asked), stamp, full, canSend, written)
  BY DEF Reading
<1>b. PICK stamp \in StampsOf(WindowOf(asked)) : OnUsageReading(WindowOf(asked), stamp, full, canSend, written)
  BY <1>a
<1>c. PICK w \in Windows : w = WindowOf(asked) /\ w <= n /\ w \in Nat /\ n \in Nat /\ n \in Windows
  <2>1. now \in 0..MaxNow /\ asked \in 0..MaxNow /\ asked <= now
    BY AlertBounds DEF AlertInv, AlertShape
  <2> QED BY <2>1, WindowsGrow
<1>d. OnUsageReading(w, stamp, full, canSend, written) /\ stamp \in StampsOf(w)
  BY <1>b, <1>c
<1>e. PICK d \in {Decided(w, stamp, full, canSend)} :
      /\ memory' = d.hit
      /\ IF d.hit = Base THEN UNCHANGED <<file, writeFailed>>
         ELSE writeFailed' = ~written /\ file' = IF written THEN d.hit ELSE file
      /\ alertPushes' = IF d.push = "none" THEN alertPushes ELSE [alertPushes EXCEPT ![d.push] = CountOne(@, About(w, d.push))]
      /\ IF IsWatched(Base) /\ Base.account # account THEN Excused("lapsed", TRUE)
         ELSE IF IsStray(w, Base, d) THEN Excused("strayed", IsWatched(Base) \/ IsWatched(d.hit))
         ELSE Excused("unwritten", d.hit # Base /\ ~written /\ file \notin {Missing, Corrupt} /\ IsWatched(d.hit))
      /\ UNCHANGED <<now, stamped, account, watched>>
  BY <1>d, Zenon DEF OnUsageReading
<1> DEFINE hit == d.hit
<1> HIDE DEF n
<1>1. d = Decided(w, stamp, full, canSend)
  OBVIOUS
<1>2. Keeps(d, w) \/ FindsNone(d) \/ StartsNew(d, w)
  BY <1>1, <1>d, Outcomes
<1>3. hit \in Ledgers /\ d.push \in {"none", "reached", "reset"}
  BY <1>2 DEF Keeps, FindsNone, StartsNew, Ledgers
<1>4. /\ now \in 0..MaxNow /\ now \in Nat /\ stamped \in BOOLEAN /\ account \in Accounts
      /\ now' = now /\ stamped' = stamped /\ account' = account /\ watched' = watched /\ memory' = hit
      /\ file \in Ledgers \cup {Missing, Corrupt} /\ memory \in Ledgers \cup {Missing} /\ n = WindowOf(now) /\ WindowOf(now)' = n
      /\ watched \in Accounts \X Windows /\ watched = <<watched[1], watched[2]>> /\ Reached \in Counts /\ Resets \in Counts
  BY <1>e DEF AlertInv, AlertShape, Reached, Resets, n, WindowOf
<1>7. /\ excuse' \in Excuses \cup {"none"} /\ (Undone => Undone')
      /\ IsWatched(Base) /\ Base.account # account => Undone'
      /\ IsStray(w, Base, d) /\ (IsWatched(Base) \/ IsWatched(hit)) => Undone'
      /\ hit # Base /\ ~written /\ file \notin {Missing, Corrupt} /\ IsWatched(hit) => Undone'
  BY <1>e, ExcuseIs, Zenon
<1>5. Replaced(hit) /\ writeFailed' \in BOOLEAN /\ file' \in {file, hit}
  <2>1. IF d.hit = Base THEN UNCHANGED <<file, writeFailed>>
        ELSE writeFailed' = ~written /\ file' = IF written THEN d.hit ELSE file
    BY <1>e, Zenon
  <2> QED BY <2>1, <1>3, <1>4, <1>7, Written
<1>6. Base \in Ledgers /\ Base \notin {Missing, Corrupt} /\ StampFits(Base) /\ IsCounted(Base)
  BY BaseType
<1>8. /\ alertPushes' \in [{"reached", "reset"} -> Counts]
      /\ Reached' = IF d.push = "reached" /\ About(w, d.push) = watched /\ Reached < 2 THEN Reached + 1 ELSE Reached
      /\ Resets' = IF d.push = "reset" /\ About(w, d.push) = watched /\ Resets < 2 THEN Resets + 1 ELSE Resets
  <2>1. alertPushes' = IF d.push = "none" THEN alertPushes ELSE [alertPushes EXCEPT ![d.push] = CountOne(@, About(w, d.push))]
    BY <1>e, Zenon
  <2> QED BY <2>1, <1>3, PushCounts
\* A late answer about another window that begins a record, or ends one, is told apart.
<1>9. /\ w # n /\ d.push = "reset" => IsStray(w, Base, d)
      /\ w # n /\ StartsNew(d, w) /\ ~(Base \in Hits /\ Base.account = account /\ Base.window = w) => IsStray(w, Base, d)
  BY <1>4 DEF IsStray, StartsNew
<1>10. AlertShape'
  <2>1. file' \in Ledgers \cup {Missing, Corrupt} /\ memory' \in Ledgers \cup {Missing}
    BY <1>3, <1>4, <1>5
  <2>2. now' \in 0..MaxNow /\ stamped' \in BOOLEAN /\ account' \in Accounts /\ watched' \in Accounts \X Windows
    BY <1>4, Zenon
  <2> QED BY <2>1, <2>2, <1>5, <1>7, <1>8, Zenon DEF AlertShape
\* What was pushed is of the window that is watched.
<1>11. StartsNew(d, w) /\ d.push = "reached" => (About(w, d.push) = watched <=> IsWatched(hit))
  BY <1>4 DEF About, StartsNew, IsWatched
<1>12. Keeps(d, w) /\ d.push = "reset" => (About(w, d.push) = watched <=> IsWatched(hit))
  BY <1>4, RecordIs DEF About, Keeps, IsWatched, SameHit
<1>13. Keeps(d, w) => (IsWatched(hit) <=> IsWatched(Base))
  BY DEF Keeps, IsWatched, SameHit
<1>14. FileIsBehind'
  <2> SUFFICES ASSUME file' \in Hits, memory' \in Hits, file'.account = memory'.account PROVE file'.seenAt <= memory'.seenAt
    BY DEF FileIsBehind
  <2>1. hit \in Hits /\ hit.seenAt \in Nat
    BY <1>4 DEF Hits
  <2>2. CASE file' = hit
    BY <2>1, <2>2, <1>4
  <2>3. CASE file' = file
    <3>1. Base = file
      BY <2>3, <1>4, BaseIs, AlertNames DEF AlertInv, AlertShape
    <3>2. CASE Keeps(d, w)
      BY <3>1, <3>2, <2>3, <1>4 DEF Keeps
    <3>3. CASE StartsNew(d, w)
      BY <3>1, <3>3, <2>3, <1>4 DEF StartsNew
    <3>4. ~FindsNone(d)
      BY <2>1, AlertNames DEF FindsNone
    <3> QED BY <3>2, <3>3, <3>4, <1>2
  <2> QED BY <2>2, <2>3, <1>5
<1>15. StampsFit'
  <2>1. StampFits(hit)
    <3>1. CASE Keeps(d, w)
      BY <3>1, <1>6 DEF Keeps, StampFits, SameHit
    <3>2. CASE StartsNew(d, w)
      BY <3>2, <1>c, <1>4 DEF StartsNew, StampFits
    <3>3. CASE FindsNone(d)
      BY <3>3, AlertNames DEF FindsNone, StampFits
    <3> QED BY <3>1, <3>2, <3>3, <1>2
  <2>2. StampFits(file)
    BY DEF AlertInv, StampsFit
  <2>3. \A h : StampFits(h)' <=> StampFits(h)
    BY <1>4 DEF StampFits, StampsOf
  <2> QED BY <2>1, <2>2, <2>3, <1>4, <1>5 DEF StampsFit, StampFits
<1>16. Reached <= Reached' /\ Reached' \in Counts /\ Resets' \in Counts
  BY <1>4, <1>8 DEF Counts
<1>17. PushedIsCounted'
  <2>1. IsWatched(hit) /\ hit.pushed => Reached' > 0
    <3> SUFFICES ASSUME IsWatched(hit), hit.pushed PROVE Reached' > 0
      OBVIOUS
    <3>1. CASE Keeps(d, w)
      <4>1. IsWatched(Base) /\ Base.pushed
        BY <3>1, <1>13, Zenon DEF Keeps, SameHit
      <4>2. Reached > 0
        BY <4>1, <1>6, Zenon DEF IsCounted
      <4> QED BY <4>2, <1>4, <1>8, <1>16 DEF Counts
    <3>2. CASE StartsNew(d, w)
      <4>1. d.push = "reached"
        BY <3>2 DEF StartsNew
      <4> QED BY <4>1, <3>2, <1>4, <1>8, <1>11 DEF Counts
    <3>3. ~FindsNone(d)
      BY AlertNames DEF FindsNone, IsWatched
    <3> QED BY <3>1, <3>2, <3>3, <1>2
  <2>2. IsWatched(file) /\ file.pushed => Reached' > 0
    <3> SUFFICES ASSUME IsWatched(file), file.pushed PROVE Reached' > 0
      OBVIOUS
    <3>1. Reached > 0
      BY Zenon DEF AlertInv, PushedIsCounted, IsCounted
    <3> QED BY <3>1, <1>4, <1>8, <1>16 DEF Counts
  <2> QED BY <2>1, <2>2, <1>4, <1>5 DEF PushedIsCounted, IsCounted, IsWatched
<1>18. MemoryIsBase'
  <2>1. IsWatched(hit) => Base' = hit \/ Undone'
    BY <1>5 DEF Replaced
  <2>2. IsWatched(memory)' <=> IsWatched(hit)
    BY <1>4 DEF IsWatched
  <2> QED BY <2>1, <2>2, <1>4 DEF MemoryIsBase
<1>19. ReachedIsKept'
  <2> SUFFICES ASSUME stamped, Reached' > 0, ~Undone'
               PROVE  Reached' = 1 /\ (watched[2] < n \/ (watched[2] = n /\ IsWatched(Base)'))
    BY <1>4 DEF ReachedIsKept
  <2>1. ~Undone /\ ~Undone'
    BY <1>7
  <2>2. Reached > 0 => Reached = 1 /\ (watched[2] < n \/ (watched[2] = n /\ IsWatched(Base)))
    <3>1. ReachedIsKept
      BY DEF AlertInv
    <3> QED BY <3>1, <2>1, <1>4, Zenon DEF ReachedIsKept
  <2>3. IsWatched(Base) => Base.account = account
    BY <2>1, <1>7
  \* The window on record is not begun again.
  <2>4. StartsNew(d, w) /\ IsWatched(hit) => ~IsWatched(Base)
    <3> SUFFICES ASSUME StartsNew(d, w), IsWatched(hit), IsWatched(Base) PROVE FALSE
      OBVIOUS
    <3>1. Base \in Hits /\ hit \in Hits /\ Base.window = hit.window
      BY DEF IsWatched
    <3>2. Base.stamp \in StampsOf(w) /\ hit.stamp \in StampsOf(w)
      BY <3>1, <1>6 DEF StampFits, StartsNew
    <3>3. SameWindow(Base.stamp, hit.stamp)
      BY <3>2, <1>4, StampsAgree
    <3> QED BY <3>1, <3>3, <2>3 DEF StartsNew
  <2>5. CASE StartsNew(d, w) /\ IsWatched(hit)
    <3>0. watched[2] = w /\ account = watched[1]
      BY <2>5 DEF StartsNew, IsWatched
    <3>1. watched[2] = n
      BY <3>0, <2>1, <2>4, <2>5, <1>7, <1>9 DEF IsWatched
    <3>2. Reached = 0
      BY <3>1, <2>2, <2>4, <2>5, <1>c, <1>4 DEF Counts
    <3>3. Reached' = 1
      <4>1. d.push = "reached" => About(w, d.push) = watched
        BY <2>5, <1>11
      <4> QED BY <4>1, <3>2, <1>8
    <3>4. Base' = hit
      BY <2>1, <2>5, <1>5 DEF Replaced
    <3> QED BY <3>1, <3>3, <3>4, <2>5, <1>4 DEF IsWatched
  <2>6. CASE ~(StartsNew(d, w) /\ IsWatched(hit))
    <3>1. Reached' = Reached
      <4>1. CASE d.push = "reached"
        <5>1. StartsNew(d, w)
          BY <4>1, <1>2 DEF Keeps, FindsNone
        <5> QED BY <5>1, <4>1, <2>6, <1>8, <1>11
      <4> QED BY <4>1, <1>8
    <3>2. CASE watched[2] < n
      BY <3>1, <3>2, <2>2
    <3>3. CASE watched[2] = n /\ IsWatched(Base)
      <4>1. IsWatched(hit)
        <5>1. ~FindsNone(d)
          BY <2>3, <3>3, RecordIs, AlertNames DEF FindsNone, IsWatched
        <5>2. ~StartsNew(d, w)
          <6> SUFFICES ASSUME StartsNew(d, w) PROVE FALSE
            OBVIOUS
          <6>1. hit \in Hits /\ hit.account = watched[1] /\ hit.window = w
            BY <2>3, <3>3 DEF StartsNew, IsWatched
          <6>2. w # n
            BY <6>1, <2>6, <3>3 DEF IsWatched
          <6>3. IsStray(w, Base, d)
            BY <6>2, <3>3, <1>9 DEF IsWatched
          <6> QED BY <6>3, <2>1, <3>3, <1>7
        <5> QED BY <5>1, <5>2, <3>3, <1>2, <1>13
      <4>2. IsWatched(Base)'
        BY <4>1, <3>3, <1>4, <1>5 DEF Replaced, IsWatched
      <4> QED BY <4>2, <3>1, <3>3, <2>2
    <3> QED BY <3>1, <3>2, <3>3, <2>2
  <2> QED BY <2>5, <2>6
<1>20. ResetsFollow'
  <2>1. CASE d.push = "reset" /\ About(w, d.push) = watched
    <3>1. Keeps(d, w) /\ IsWatched(hit) /\ IsWatched(Base) /\ Base.pushed /\ ~Base.resetSent /\ hit.resetSent
      BY <2>1, <1>2, <1>12, <1>13 DEF Keeps, FindsNone, StartsNew
    <3>2. Reached > 0 /\ Reached' = Reached
      BY <3>1, <2>1, <1>6, <1>8 DEF IsCounted
    <3>3. ASSUME ~Undone', ~(Reached' > 1) PROVE Resets' <= 1 /\ (IsWatched(Base)' /\ Base'.pushed => Base'.resetSent)
      <4>1. ~Undone /\ ~Undone'
        BY <1>7, <3>3
      <4>2. Resets = 0
        BY <4>1, <3>1, <3>2, <3>3, <1>4 DEF AlertInv, ResetsFollow, Counts
      <4>3. Base' = hit
        BY <4>1, <3>1, <1>5 DEF Replaced
      <4> QED BY <4>2, <4>3, <3>1, <1>8
    <3> QED BY <3>2, <3>3, <1>4 DEF ResetsFollow
  <2>2. CASE ~(d.push = "reset" /\ About(w, d.push) = watched)
    <3>1. Resets' = Resets
      BY <2>2, <1>8
    <3>2. Resets > 0 => Reached > 0
      BY DEF AlertInv, ResetsFollow
    <3>3. ASSUME ~Undone', ~(Reached' > 1)
          PROVE  Resets' <= 1 /\ (Resets' = 1 /\ IsWatched(Base)' /\ Base'.pushed => Base'.resetSent)
      <4>1. ~Undone /\ ~Undone' /\ ~(Reached > 1)
        BY <1>4, <1>7, <1>16, <3>3 DEF Counts
      <4>2. Resets <= 1 /\ (Resets = 1 /\ IsWatched(Base) /\ Base.pushed => Base.resetSent)
        BY <4>1 DEF AlertInv, ResetsFollow
      <4>3. ASSUME Resets = 1, IsWatched(Base)', Base'.pushed PROVE Base'.resetSent
        <5>1. CASE Base' = Base
          BY <5>1, <4>2, <4>3, <1>4 DEF IsWatched
        <5>2. CASE Base' = hit
          <6>1. IsWatched(hit) /\ hit.pushed
            BY <5>2, <4>3, <1>4 DEF IsWatched
          <6>2. CASE Keeps(d, w)
            BY <6>1, <6>2, <5>2, <4>2, <4>3, <1>13 DEF Keeps, SameHit
          <6>3. ~StartsNew(d, w)
            <7> SUFFICES ASSUME StartsNew(d, w) PROVE FALSE
              OBVIOUS
            <7>1. d.push = "reached" /\ About(w, d.push) = watched
              BY <6>1, <1>11 DEF StartsNew
            <7> QED BY <7>1, <3>2, <3>3, <4>3, <1>4, <1>8 DEF Counts
          <6>4. ~FindsNone(d)
            BY <6>1, AlertNames DEF FindsNone, IsWatched
          <6> QED BY <6>2, <6>3, <6>4, <1>2
        <5> QED BY <5>1, <5>2, <1>5 DEF Replaced
      <4> QED BY <4>2, <4>3, <3>1
    <3>4. Resets' > 0 => Reached' > 0
      BY <3>1, <3>2, <1>4, <1>16 DEF Counts
    <3> QED BY <3>3, <3>4 DEF ResetsFollow
  <2> QED BY <2>1, <2>2
<1>21. ResetsAreLate'
  <2> SUFFICES ASSUME stamped, Resets' > 0, ~Undone' PROVE WindowEnd(watched[2]) <= now
    BY <1>4 DEF ResetsAreLate, WindowEnd
  <2>1. CASE d.push = "reset" /\ About(w, d.push) = watched
    <3>1. Keeps(d, w) /\ IsWatched(Base)
      BY <2>1, <1>2, <1>12, <1>13 DEF FindsNone, StartsNew
    <3>2. w = n
      BY <3>1, <2>1, <1>7, <1>9
    <3> QED BY <3>1, <3>2, <2>1, <1>4 DEF Keeps, IsWatched
  <2>2. CASE ~(d.push = "reset" /\ About(w, d.push) = watched)
    <3>1. Resets' = Resets /\ ~Undone
      BY <2>2, <1>7, <1>8
    <3> QED BY <3>1 DEF AlertInv, ResetsAreLate
  <2> QED BY <2>1, <2>2
<1> QED BY <1>10, <1>14, <1>15, <1>17, <1>18, <1>19, <1>20, <1>21 DEF AlertInv

LEMMA FailedReadingKeeps == ASSUME AlertInv, FailedReading PROVE AlertInv'
<1>1. /\ memory' = Base /\ now' = now /\ stamped' = stamped /\ account' = account /\ file' = file /\ writeFailed' = writeFailed
      /\ watched' = watched /\ alertPushes' = alertPushes /\ excuse' = excuse
  BY DEF FailedReading
<1>2. Base \in Ledgers /\ Base \notin {Missing, Corrupt} /\ StampFits(Base) /\ IsCounted(Base)
  BY BaseType
<1>3. writeFailed \in BOOLEAN /\ file \in Ledgers \cup {Missing, Corrupt}
  BY DEF AlertInv, AlertShape
<1>4. Base' = Base
  <2>1. RememberedHit' = Base
    BY <1>1, <1>2 DEF RememberedHit
  <2> QED BY <2>1, <1>1, <1>3, BaseIs, BaseIsNext
<1>5. AlertShape'
  BY <1>1, <1>2, Zenon DEF AlertInv, AlertShape
<1>6. FileIsBehind'
  <2> SUFFICES ASSUME file \in Hits, Base \in Hits PROVE file = Base /\ file.seenAt <= file.seenAt
    BY <1>1 DEF FileIsBehind
  <2>1. file = Base
    BY <1>3, BaseIs, AlertNames
  <2>2. file.seenAt \in Nat
    BY DEF Hits
  <2> QED BY <2>1, <2>2
<1>7. StampsFit' /\ PushedIsCounted'
  <2>1. \A h : StampFits(h)' <=> StampFits(h)
    BY <1>1 DEF StampFits, StampsOf, WindowOf
  <2>2. StampsFit'
    BY <2>1, <1>1, <1>2 DEF AlertInv, StampsFit, StampFits
  <2>3. PushedIsCounted'
    BY <1>1, <1>2, Zenon DEF AlertInv, PushedIsCounted, IsCounted, IsWatched, Reached
  <2> QED BY <2>2, <2>3
<1>8. MemoryIsBase'
  BY <1>1, <1>4 DEF MemoryIsBase
<1>9. ReachedIsKept' /\ ResetsFollow' /\ ResetsAreLate'
  <2>1. IsWatched(Base)' = IsWatched(Base) /\ Reached' = Reached /\ Resets' = Resets /\ Undone' = Undone
    BY <1>1, <1>4 DEF IsWatched, Reached, Resets, Undone
  <2> QED BY <2>1, <1>1, <1>4 DEF AlertInv, ReachedIsKept, ResetsFollow, ResetsAreLate, WindowOf, WindowEnd
<1> QED BY <1>5, <1>6, <1>7, <1>8, <1>9 DEF AlertInv

\* Time passes, or somebody else signs in: the ledger and the counts stay.
LEMMA OthersKeep ==
  ASSUME AlertInv, UNCHANGED <<stamped, file, memory, writeFailed, watched, alertPushes, excuse>>,
         account' \in Accounts, now' \in 0..MaxNow, now <= now'
  PROVE  AlertInv'
<1>1. Base' = Base
  BY DEF Base, RememberedHit
<1>2. AlertShape'
  BY Zenon DEF AlertInv, AlertShape
<1>3. FileIsBehind' /\ PushedIsCounted' /\ MemoryIsBase' /\ ResetsFollow'
  BY <1>1 DEF AlertInv, FileIsBehind, PushedIsCounted, IsCounted, IsWatched, MemoryIsBase, ResetsFollow,
       Reached, Resets, Undone
<1>5. /\ now \in 0..MaxNow /\ WindowOf(now) \in Nat /\ WindowOf(now') \in Nat /\ WindowOf(now) <= WindowOf(now')
      /\ WindowOf(now)' = WindowOf(now')
  BY WindowsGrow DEF AlertInv, AlertShape, WindowOf
<1>6. StampsFit'
  <2>1. ASSUME NEW h, StampFits(h), h \in Hits PROVE h.stamp \in StampsOf(h.window)' /\ h.window <= WindowOf(now)'
    <3>1. h.stamp \in StampsOf(h.window) /\ h.window <= WindowOf(now)
      BY <2>1 DEF StampFits
    <3>2. h.window \in Nat
      BY <2>1, WindowsGrow DEF Hits
    <3>3. h.window <= WindowOf(now')
      BY <1>5, <3>1, <3>2
    <3>4. StampsOf(h.window)' = StampsOf(h.window)
      BY DEF StampsOf
    <3> QED BY <1>5, <3>1, <3>3, <3>4
  <2>2. \A h : StampFits(h) => StampFits(h)'
    BY <2>1, Zenon DEF StampFits
  <2>3. StampFits(file)' /\ StampFits(memory)'
    BY <2>2 DEF AlertInv, StampsFit, StampFits
  <2> QED BY <2>3 DEF StampsFit
<1>7. ResetsAreLate'
  <2>0. watched \in Accounts \X Windows
    BY DEF AlertInv, AlertShape
  <2>1. now \in Nat /\ now' \in Nat /\ now <= now'
    BY <1>5, AlertBounds
  <2>4. watched[2] \in Nat
    BY <2>0, WindowsGrow
  <2>2. WindowEnd(watched[2]) \in Nat
    BY <2>4, EndsAreTimes
  <2>3. WindowEnd(watched[2])' = WindowEnd(watched[2]) /\ Undone' = Undone /\ Resets' = Resets
    BY DEF WindowEnd, Undone, Resets
  <2> QED BY <2>1, <2>2, <2>3 DEF AlertInv, ResetsAreLate
<1>4. ReachedIsKept'
  <2>1. now \in 0..MaxNow /\ watched \in Accounts \X Windows
    BY DEF AlertInv, AlertShape
  <2>2. WindowOf(now) \in Nat /\ WindowOf(now)' \in Nat /\ WindowOf(now) <= WindowOf(now)'
    BY <2>1, WindowsGrow DEF WindowOf
  <2>3. watched[2] \in Nat
    BY <2>1, WindowsGrow
  <2>4. IsWatched(Base)' = IsWatched(Base) /\ Reached' = Reached /\ Undone' = Undone
    BY <1>1 DEF IsWatched, Reached, Undone
  <2>5. stamped /\ Reached > 0 /\ ~Undone => Reached = 1 /\ (watched[2] < WindowOf(now) \/ (watched[2] = WindowOf(now) /\ IsWatched(Base)))
    BY Zenon DEF AlertInv, ReachedIsKept
  <2>6. stamped /\ Reached > 0 /\ ~Undone => Reached = 1 /\ (watched[2] < WindowOf(now)' \/ (watched[2] = WindowOf(now)' /\ IsWatched(Base)))
    BY <2>2, <2>3, <2>5
  <2> QED BY <2>4, <2>6, Zenon DEF ReachedIsKept
<1> QED BY <1>2, <1>3, <1>4, <1>6, <1>7 DEF AlertInv

\* What is lost of the watched window is an excuse, and the first one stands.
LEMMA FirstExcuseStands ==
  ASSUME AlertInv, NEW why \in Excuses, NEW holds, Excused(why, holds)
  PROVE  excuse' \in Excuses \cup {"none"} /\ (Undone => Undone') /\ (holds => Undone')
<1>1. excuse \in Excuses \cup {"none"} /\ "none" \notin Excuses
  BY DEF AlertInv, AlertShape, Excuses
<1>2. excuse' = IF excuse = "none" /\ holds THEN why ELSE excuse
  BY DEF Excused
<1>3. CASE excuse = "none" /\ holds
  BY <1>1, <1>2, <1>3 DEF Undone
<1>4. CASE ~(excuse = "none" /\ holds)
  BY <1>1, <1>2, <1>4 DEF Undone
<1> QED BY <1>3, <1>4

LEMMA LossKeeps ==
  ASSUME AlertInv, UNCHANGED <<now, stamped, account, watched, alertPushes>>,
         writeFailed' \in BOOLEAN, file' \in {file, Missing, Corrupt}, memory' \in {memory, Missing},
         excuse' \in Excuses \cup {"none"}, Undone => Undone', Undone' \/ (IsWatched(Base) => Base' = Base),
         Undone' \/ (IsWatched(memory') => Base' = memory'), Undone' \/ (IsWatched(Base') => Base' = Base)
  PROVE  AlertInv'
<1>1. /\ now' = now /\ stamped' = stamped /\ account' = account /\ watched' = watched
      /\ Reached' = Reached /\ Resets' = Resets
  BY DEF Reached, Resets
<1>2. Missing \notin Hits /\ Corrupt \notin Hits
  BY AlertNames
<1>3. Undone => Undone'
  OBVIOUS
<1>4. AlertShape'
  BY Zenon DEF AlertInv, AlertShape
<1>5. FileIsBehind' /\ StampsFit' /\ PushedIsCounted'
  <2>1. \A h : StampFits(h)' <=> StampFits(h)
    BY <1>1 DEF StampFits, StampsOf, WindowOf
  <2>2. StampsFit'
    BY <2>1, <1>2 DEF AlertInv, StampsFit, StampFits
  <2>3. FileIsBehind' /\ PushedIsCounted'
    BY <1>1, <1>2 DEF AlertInv, FileIsBehind, PushedIsCounted, IsCounted, IsWatched
  <2> QED BY <2>2, <2>3
<1>6. IsWatched(Base)' <=> IsWatched(Base')
  BY <1>1 DEF IsWatched
<1>7. IsWatched(memory)' <=> IsWatched(memory')
  BY <1>1 DEF IsWatched
<1>8. MemoryIsBase'
  BY <1>7, Zenon DEF MemoryIsBase
<1>9. ReachedIsKept'
  <2>1. WindowOf(now)' = WindowOf(now)
    BY <1>1 DEF WindowOf
  <2>2. ~Undone' /\ IsWatched(Base) => IsWatched(Base)'
    BY <1>6, Zenon
  <2>3. stamped /\ Reached > 0 /\ ~Undone => Reached = 1 /\ (watched[2] < WindowOf(now) \/ (watched[2] = WindowOf(now) /\ IsWatched(Base)))
    BY Zenon DEF AlertInv, ReachedIsKept
  <2>4. stamped /\ Reached > 0 /\ ~Undone' => Reached = 1 /\ (watched[2] < WindowOf(now) \/ (watched[2] = WindowOf(now) /\ IsWatched(Base)'))
    BY <2>2, <2>3, <1>3, Zenon
  <2> SUFFICES ASSUME stamped, Reached > 0, ~Undone'
               PROVE  Reached = 1 /\ (watched[2] < WindowOf(now) \/ (watched[2] = WindowOf(now) /\ IsWatched(Base)'))
    BY <2>1, <1>1 DEF ReachedIsKept
  <2> QED BY <2>4
<1>10. ResetsFollow'
  <2>1. ~Undone' /\ IsWatched(Base)' => Base' = Base /\ IsWatched(Base)
    BY <1>6, Zenon
  <2>2. Resets > 0 => Reached > 0
    BY DEF AlertInv, ResetsFollow
  <2>3. Undone \/ Reached > 1 \/ (Resets <= 1 /\ (Resets = 1 /\ IsWatched(Base) /\ Base.pushed => Base.resetSent))
    BY Zenon DEF AlertInv, ResetsFollow
  <2>4. Undone' \/ Reached > 1 \/ (Resets <= 1 /\ (Resets = 1 /\ IsWatched(Base)' /\ Base'.pushed => Base'.resetSent))
    BY <2>1, <2>3, <1>3, Zenon
  <2> QED BY <2>2, <2>4, <1>1 DEF ResetsFollow
<1>11. ResetsAreLate'
  BY <1>1, <1>3 DEF AlertInv, ResetsAreLate, WindowEnd
<1> QED BY <1>4, <1>5, <1>8, <1>9, <1>10, <1>11 DEF AlertInv

LEMMA AlertRestartKeeps == ASSUME AlertInv, AlertRestart PROVE AlertInv'
<1>1. /\ memory # Missing /\ memory' = Missing /\ writeFailed' = FALSE /\ file' = file
      /\ Excused("lapsed", memory # file /\ IsWatched(memory))
      /\ UNCHANGED <<now, stamped, account, watched, alertPushes>>
  BY DEF AlertRestart
<1>2. /\ writeFailed \in BOOLEAN /\ file \in Ledgers \cup {Missing, Corrupt} /\ memory \in Ledgers
      /\ Missing \notin Hits /\ Corrupt \notin Hits /\ NoHit \notin Hits /\ NoHit # Missing /\ NoHit # Corrupt /\ Missing # Corrupt
  BY <1>1, AlertNames DEF AlertInv, AlertShape
<1>3. excuse' \in Excuses \cup {"none"} /\ (Undone => Undone') /\ (memory # file /\ IsWatched(memory) => Undone')
  <2>1. "lapsed" \in Excuses
    BY DEF Excuses
  <2> QED BY <2>1, <1>1, FirstExcuseStands
<1>4. memory # file /\ IsWatched(memory) => Undone'
  BY <1>3
<1>5. Base' = IF file \in {Missing, Corrupt} THEN NoHit ELSE Base
  <2>1. RememberedHit' = NoHit
    BY <1>1 DEF RememberedHit
  <2>2. CASE file \in {Missing, Corrupt}
    BY <2>1, <2>2, <1>1, BaseIsNext
  <2>3. CASE file \notin {Missing, Corrupt}
    BY <2>3, <1>1, <1>2, BaseIs, BaseIsNext
  <2> QED BY <2>2, <2>3
<1>6. file \in {Missing, Corrupt} => memory # file /\ (Base = memory \/ Base = NoHit)
  BY <1>1, <1>2, BaseIs DEF RememberedHit, Ledgers
<1>7. ~IsWatched(NoHit) /\ ~IsWatched(Missing)
  BY <1>2 DEF IsWatched
<1>8. Undone' \/ (IsWatched(Base) => Base' = Base)
  BY <1>4, <1>5, <1>6, <1>7
<1>9. Undone' \/ (IsWatched(Base') => Base' = Base)
  BY <1>5, <1>7
<1>10. Undone' \/ (IsWatched(memory') => Base' = memory')
  BY <1>1, <1>7
<1> QED BY <1>1, <1>3, <1>8, <1>9, <1>10, LossKeeps

LEMMA LoseFileKeeps == ASSUME AlertInv, LoseFile PROVE AlertInv'
<1>1. /\ file \notin {Missing, Corrupt} /\ file' \in {Missing, Corrupt} /\ memory' = memory /\ writeFailed' = writeFailed
      /\ Excused("lapsed", (file' = Missing \/ memory # file) /\ IsWatched(file))
      /\ UNCHANGED <<now, stamped, account, watched, alertPushes>>
  BY DEF LoseFile
<1>2. /\ writeFailed \in BOOLEAN /\ file \in Ledgers /\ memory \in Ledgers \cup {Missing}
      /\ Missing \notin Hits /\ NoHit \notin Hits /\ Missing # Corrupt
  BY <1>1, AlertNames DEF AlertInv, AlertShape
<1>3. excuse' \in Excuses \cup {"none"} /\ (Undone => Undone') /\ ((file' = Missing \/ memory # file) /\ IsWatched(file) => Undone')
  <2>1. "lapsed" \in Excuses
    BY DEF Excuses
  <2> QED BY <2>1, <1>1, FirstExcuseStands
<1>4. (file' = Missing \/ memory # file) /\ IsWatched(file) => Undone'
  BY <1>3
<1>5. Base = file
  BY <1>1, <1>2, BaseIs
<1>6. RememberedHit' = IF memory = Missing THEN NoHit ELSE memory
  BY <1>1 DEF RememberedHit
<1>7. Base' \in {NoHit, RememberedHit'} /\ (file' = Corrupt => Base' = RememberedHit')
  BY <1>1, <1>2, BaseIsNext
<1>8. ~IsWatched(NoHit) /\ ~IsWatched(Missing)
  BY <1>2 DEF IsWatched
<1>9. Undone => Undone'
  BY <1>3
<1>10. Undone \/ (IsWatched(memory) => memory = file)
  BY <1>5 DEF AlertInv, MemoryIsBase
<1>11. Undone' \/ (IsWatched(file) => Base' = file)
  BY <1>1, <1>2, <1>4, <1>6, <1>7
<1>12. Undone' \/ (IsWatched(Base') => Base' = file)
  BY <1>6, <1>7, <1>8, <1>9, <1>10
<1>13. Undone' \/ (IsWatched(memory) => Base' = memory)
  BY <1>9, <1>10, <1>11
<1>14. /\ Undone' \/ (IsWatched(Base) => Base' = Base)
       /\ Undone' \/ (IsWatched(Base') => Base' = Base)
       /\ Undone' \/ (IsWatched(memory') => Base' = memory')
  BY <1>1, <1>5, <1>11, <1>12, <1>13
<1>15. writeFailed' \in BOOLEAN /\ file' \in {file, Missing, Corrupt} /\ memory' \in {memory, Missing}
  BY <1>1, <1>2
<1> QED BY <1>1, <1>3, <1>14, <1>15, LossKeeps

LEMMA AlertInvHolds == AlertSpec => []AlertInv
<1>1. ASSUME AlertInv, [AlertNext]_alertVars PROVE AlertInv'
  <2>1. CASE Reading
    BY <1>1, <2>1, ReadingKeeps
  <2>2. CASE FailedReading
    BY <1>1, <2>2, FailedReadingKeeps
  <2>3. now \in 0..MaxNow /\ account \in Accounts /\ MaxNow \in Nat
    BY <1>1, AlertBounds DEF AlertInv, AlertShape
  <2>4. CASE AlertTime
    BY <1>1, <2>3, <2>4, OthersKeep DEF AlertTime
  <2>5. CASE SwitchAccount
    BY <1>1, <2>3, <2>5, OthersKeep DEF SwitchAccount
  <2>6. CASE UNCHANGED alertVars
    BY <1>1, <2>3, <2>6, OthersKeep DEF alertVars
  <2>7. CASE AlertRestart
    BY <1>1, <2>7, AlertRestartKeeps
  <2>8. CASE LoseFile
    BY <1>1, <2>8, LoseFileKeeps
  <2> QED BY <1>1, <2>1, <2>2, <2>4, <2>5, <2>6, <2>7, <2>8 DEF AlertNext
<1> QED BY <1>1, AlertInitInv, PTL DEF AlertSpec

LEMMA AlertsFollow == AlertInv => AlertsArePaired /\ AlertTypeOK
<1> SUFFICES ASSUME AlertInv PROVE AlertsArePaired /\ AlertTypeOK
  OBVIOUS
<1>1. Reached \in Counts /\ Resets \in Counts
  BY DEF AlertInv, AlertShape, Reached, Resets
<1>2. AlertTypeOK
  BY Zenon DEF AlertInv, AlertShape, FileIsBehind, AlertTypeOK
<1>3. ReachedOnce
  <2>1. stamped /\ Reached > 0 => Undone \/ Reached = 1
    BY Zenon DEF AlertInv, ReachedIsKept
  <2> QED BY <1>1, <2>1 DEF ReachedOnce, Reached, Undone, Counts
<1>4. ResetEndsAHit
  <2>1. (Resets > 0 => Reached > 0) /\ (Undone \/ Reached > 1 \/ Resets <= 1)
    BY Zenon DEF AlertInv, ResetsFollow
  <2>2. stamped /\ Resets > 0 => Undone \/ WindowEnd(watched[2]) <= now
    BY Zenon DEF AlertInv, ResetsAreLate
  <2> QED BY <1>1, <2>1, <2>2 DEF ResetEndsAHit, Reached, Resets, Undone, Counts
<1> QED BY <1>2, <1>3, <1>4 DEF AlertsArePaired

\* The record of the alerts, on disk and in memory, and the counts keep their types
\* (usage-alerts.ts), and the file is never ahead of a process that wrote it.
THEOREM AlertTypeCorrect == AlertSpec => []AlertTypeOK
BY AlertInvHolds, AlertsFollow, PTL

-----------------------------------------------------------------------------
(* The bundle.  A behaviour of it is one of each component, which either    *)
(* works or rests.                                                          *)
LEMMA HandOverRuns == MCSpec => Spec
<1>1. MCInit => Init
  BY DEF MCInit
<1>2. [MCNext]_mcVars => [Next]_vars
  BY DEF MCNext, mcVars
<1> QED BY <1>1, <1>2, PTL DEF MCSpec, Spec

LEMMA FlagRuns == MCSpec => PermSpec
<1>1. MCInit => PermInit
  BY DEF MCInit
<1>2. [MCNext]_mcVars => [PermNext]_permVars
  BY DEF MCNext, mcVars
<1> QED BY <1>1, <1>2, PTL DEF MCSpec, PermSpec

LEMMA CacheRuns == MCSpec => CacheSpec
<1>1. MCInit => CacheInit
  BY DEF MCInit
<1>2. [MCNext]_mcVars => [CacheNext]_cacheVars
  BY DEF MCNext, mcVars
<1> QED BY <1>1, <1>2, PTL DEF MCSpec, CacheSpec

LEMMA AlertRuns == MCSpec => AlertSpec
<1>1. MCInit => AlertInit
  BY DEF MCInit
<1>2. [MCNext]_mcVars => [AlertNext]_alertVars
  BY DEF MCNext, mcVars
<1> QED BY <1>1, <1>2, PTL DEF MCSpec, AlertSpec

(* Every variable of the bundle keeps its type, and the flag's entry is of  *)
(* the newest report.                                                       *)
THEOREM SessionsTypeCorrect == MCSpec => []TypesOK
<1>1. TypeOK /\ PermTypeOK /\ CacheTypeOK /\ AlertTypeOK => TypesOK
  BY DEF TypesOK
<1> QED BY <1>1, HandOverRuns, FlagRuns, CacheRuns, AlertRuns,
           HandOverTypeCorrect, FlagTypeCorrect, CacheTypeCorrect, AlertTypeCorrect, PTL

\* A window's limit is pushed once and its reset once, after the window, unless its record was
\* lost or not replaced on disk, or a late answer about another window displaced it; a late
\* answer of an abandoned reading, a jittering stamp and a ledger that cannot be read or
\* written are all allowed for (usage-alerts.ts).
THEOREM AlertsComeInPairs == MCSpec => []AlertsArePaired
BY AlertRuns, AlertInvHolds, AlertsFollow, PTL

(* What holds of each component holds where they run side by side.          *)
THEOREM SessionsAreSafe == MCSpec => [](OneWriter /\ RemembersNewest) /\ RailIsExact /\ DialogsAreTold
BY HandOverRuns, FlagRuns, CacheRuns, TheLinkForksNothing, CacheCorrect, TheRailIsExact, FlagCorrect, PTL
=============================================================================
