-------------------------- MODULE LaunchStoreProofs --------------------------
(***************************************************************************)
(* What is proved of the launch store, for every set of sessions and       *)
(* children and every MAX_LAUNCHING.  The inductive invariant adds to the  *)
(* checked ones ChildrenFit, which ties an entry to a child of its own     *)
(* session, and RailCounted.                                               *)
(***************************************************************************)
EXTENDS LaunchStore, FiniteSetTheorems, FunctionTheorems, TLAPS

\* A child belongs to a session from its birth on, and an entry's child is one
\* its own server process started for that very session.
ChildrenFit ==
  /\ \A c \in Children : (os[c] = "unborn") = (of[c] = NoId)
  /\ \A c \in Children : os[c] \in {"unborn", "alive", "orphan"} => code[c] = "none"
  /\ \A i \in Ids : Has(i) =>
       /\ entry[i].child = NoChild => entry[i].state = "failed"
       /\ entry[i].child # NoChild => /\ of[entry[i].child] = i
                                      /\ os[entry[i].child] \notin {"unborn", "orphan"}

\* The accident rail, as the handlers count it.
RailCounted == Cardinality(Launching(entry)) <= MaxLaunching

LaunchInv == TypeOK /\ ChildrenFit /\ HandleHeld /\ OneWriter /\ RailCounted

EntryMap == [Ids -> Entries \cup {NoEntry}]

-----------------------------------------------------------------------------

\* The fields of an entry, one by one.
LEMMA EntryFields ==
  ASSUME NEW x \in Entries
  PROVE  /\ x # NoEntry
         /\ x.state \in States /\ x.resume \in BOOLEAN /\ x.child \in Children \cup {NoChild}
         /\ x.stop \in {"none", "asked", "past"} /\ x.timer \in BOOLEAN /\ x.old \in BOOLEAN
BY NoEntryAssumption DEF Entries

\* Promotion keeps an entry an entry, with its child.
LEMMA RunningEntry ==
  ASSUME NEW x \in Entries
  PROVE  /\ Running(x) \in Entries
         /\ Running(x).child = x.child /\ Running(x).state = "running"
BY DEF Running, Entries, States

\* What listLaunching does to the map: it creates no launch, keeps each child
\* in its place, and drops an entry only if it failed or its child has ended.
LEMMA ListedMap ==
  ASSUME NEW e \in EntryMap
  PROVE  /\ Listed(e) \in EntryMap
         /\ \A i \in Ids : Listed(e)[i] # NoEntry =>
              /\ e[i] # NoEntry
              /\ Listed(e)[i].child = e[i].child
              /\ Listed(e)[i].state = "launching" => e[i].state = "launching"
              /\ Listed(e)[i].state = "failed" <=> e[i].state = "failed"
              /\ e[i].state = "running" => Listed(e)[i] = e[i]
         /\ \A i \in Ids : e[i] # NoEntry /\ Listed(e)[i] = NoEntry =>
              e[i].state = "failed" \/ ~ChildAlive(e[i].child)
<1> SUFFICES ASSUME NEW i \in Ids
             PROVE  /\ Listed(e)[i] \in Entries \cup {NoEntry}
                    /\ Listed(e)[i] # NoEntry =>
                       /\ e[i] # NoEntry
                       /\ Listed(e)[i].child = e[i].child
                       /\ Listed(e)[i].state = "launching" => e[i].state = "launching"
                       /\ Listed(e)[i].state = "failed" <=> e[i].state = "failed"
                       /\ e[i].state = "running" => Listed(e)[i] = e[i]
                    /\ e[i] # NoEntry /\ Listed(e)[i] = NoEntry =>
                       e[i].state = "failed" \/ ~ChildAlive(e[i].child)
  BY DEF Listed, EntryMap
<1>1. CASE e[i] = NoEntry
  BY <1>1 DEF Listed
<1>2. CASE e[i] # NoEntry
  <2>1. e[i] \in Entries
    BY <1>2 DEF EntryMap
  <2>2. e[i].state \in States /\ Running(e[i]) \in Entries
        /\ Running(e[i]).child = e[i].child /\ Running(e[i]).state = "running"
    BY <2>1, EntryFields, RunningEntry
  <2>3. Listed(e)[i] = IF ~e[i].old \/ e[i].state = "running" THEN e[i]
                        ELSE IF e[i].state = "launching" /\ ChildAlive(e[i].child)
                             THEN Running(e[i]) ELSE NoEntry
    BY <1>2 DEF Listed
  <2>4. \/ Listed(e)[i] = e[i] \/ Listed(e)[i] = NoEntry
        \/ e[i].state = "launching" /\ Listed(e)[i] = Running(e[i])
    BY <2>3
  <2>5. Listed(e)[i] = NoEntry => e[i].state = "failed" \/ ~ChildAlive(e[i].child)
    BY <2>1, <2>2, <2>3, NoEntryAssumption DEF States
  <2>6. e[i].state = "running" => Listed(e)[i] = e[i]
    BY <2>3
  <2> QED BY <1>2, <2>1, <2>2, <2>4, <2>5, <2>6
<1> QED BY <1>1, <1>2

\* What adoptLaunched does to the map: launches become running, no more.
LEMMA AdoptedMap ==
  ASSUME NEW e \in EntryMap, NEW ids
  PROVE  /\ Adopted(e, ids) \in EntryMap
         /\ \A i \in Ids :
              /\ Adopted(e, ids)[i] = NoEntry <=> e[i] = NoEntry
              /\ e[i] # NoEntry =>
                   /\ Adopted(e, ids)[i].child = e[i].child
                   /\ Adopted(e, ids)[i].state = "launching" => e[i].state = "launching"
                   /\ Adopted(e, ids)[i].state = "failed" <=> e[i].state = "failed"
<1> SUFFICES ASSUME NEW i \in Ids
             PROVE  /\ Adopted(e, ids)[i] \in Entries \cup {NoEntry}
                    /\ Adopted(e, ids)[i] = NoEntry <=> e[i] = NoEntry
                    /\ e[i] # NoEntry =>
                       /\ Adopted(e, ids)[i].child = e[i].child
                       /\ Adopted(e, ids)[i].state = "launching" => e[i].state = "launching"
                       /\ Adopted(e, ids)[i].state = "failed" <=> e[i].state = "failed"
  BY DEF Adopted, EntryMap
<1>1. CASE e[i] = NoEntry
  BY <1>1 DEF Adopted
<1>2. CASE e[i] # NoEntry
  <2>1. e[i] \in Entries
    BY <1>2 DEF EntryMap
  <2>2. Running(e[i]) \in Entries /\ Running(e[i]) # NoEntry
        /\ Running(e[i]).child = e[i].child /\ Running(e[i]).state = "running"
    BY <2>1, EntryFields, RunningEntry
  <2> QED BY <1>2, <2>1, <2>2 DEF Adopted
<1> QED BY <1>1, <1>2

\* `fail` touches the entry of that child alone, and only its state.
LEMMA FailedMap ==
  ASSUME entry \in EntryMap, NEW i \in Ids, NEW c
  PROVE  /\ Failed(i, c) \in EntryMap
         /\ \A j \in Ids : Failed(i, c)[j] = NoEntry <=> entry[j] = NoEntry
         /\ \A j \in Ids : Has(j) =>
              /\ Failed(i, c)[j].child = entry[j].child
              /\ Failed(i, c)[j].state = "launching" => entry[j].state = "launching"
              /\ entry[j].state = "failed" => Failed(i, c)[j].state = "failed"
              /\ entry[j].child # c => Failed(i, c)[j] = entry[j]
<1> DEFINE x == [entry[i] EXCEPT !.state = "failed", !.old = FALSE]
<1>1. CASE OwnedBy(i, c)
  <2>1. entry[i] \in Entries /\ entry[i].child = c
    BY <1>1 DEF OwnedBy, Has, EntryMap
  <2>2. x \in Entries /\ x.child = c /\ x.state = "failed" /\ x # NoEntry
    BY <2>1, NoEntryAssumption DEF Entries, States
  <2>3. Failed(i, c) = [entry EXCEPT ![i] = x]
    BY <1>1 DEF Failed, EntryMap
  <2> HIDE DEF x
  <2>4. \A j \in Ids : Failed(i, c)[j] = IF j = i THEN x ELSE entry[j]
    BY <2>3 DEF EntryMap
  <2>5. Failed(i, c) \in EntryMap
    BY <2>2, <2>3 DEF EntryMap
  <2> QED BY <2>1, <2>2, <2>4, <2>5, EntryFields DEF Has
<1>2. CASE ~OwnedBy(i, c)
  BY <1>2 DEF Failed
<1> QED BY <1>1, <1>2

\* The rail of a map with no launch that another lacks.
LEMMA LaunchingShrinks ==
  ASSUME NEW e, NEW f, \A i \in Ids : InState(f, i, "launching") => InState(e, i, "launching")
  PROVE  /\ IsFiniteSet(Launching(e)) /\ Cardinality(Launching(e)) \in Nat
         /\ Cardinality(Launching(f)) \in Nat
         /\ Cardinality(Launching(f)) <= Cardinality(Launching(e))
<1>1. IsFiniteSet(Launching(e))
  BY IdsAssumption, FS_Subset DEF Launching
<1>2. Launching(f) \in SUBSET Launching(e)
  BY DEF Launching
<1> QED BY <1>1, <1>2, FS_Subset, FS_CardinalityType

-----------------------------------------------------------------------------

\* Init establishes the invariant.
LEMMA LaunchStart == ASSUME Init PROVE LaunchInv
<1>1. TypeOK
  BY DEF Init, TypeOK
<1>2. ChildrenFit /\ HandleHeld /\ OneWriter
  BY DEF Init, ChildrenFit, HandleHeld, OneWriter, Has, Lives
<1>3. Launching(entry) = {}
  BY DEF Init, Launching, InState
<1> QED BY <1>1, <1>2, <1>3, FS_EmptySet, MaxAssumption DEF LaunchInv, RailCounted

\* The invariant speaks of no signal and no transcript: a step that changes the
\* map and the processes in the ways below keeps it.
LEMMA CalmStep ==
  ASSUME LaunchInv, TypeOK',
         of' = of, blind' = blind, lost \subseteq lost',
         \A c \in Children :
           \/ os'[c] = os[c] /\ code'[c] = code[c]
           \/ /\ os[c] # "unborn" /\ os'[c] \notin {"unborn", "alive"}
              /\ os'[c] = "orphan" => Lives(c) /\ code'[c] = code[c]
              /\ os[c] = "orphan" => os'[c] # "alive",
         \A i \in Ids : entry'[i] # NoEntry =>
           /\ Has(i)
           /\ entry'[i].child = entry[i].child
           /\ entry'[i].child # NoChild => os'[entry'[i].child] # "orphan"
           /\ entry'[i].state = "launching" => entry[i].state = "launching"
           /\ entry[i].state = "failed" => entry'[i].state = "failed",
         \A i \in Ids : /\ Has(i) /\ entry[i].state # "failed"
                        /\ os'[entry[i].child] = "alive" /\ entry[i].child \notin lost'
                      => entry'[i] # NoEntry /\ entry'[i].state # "failed"
  PROVE  LaunchInv'
<1>0. TypeOK /\ ChildrenFit /\ HandleHeld /\ OneWriter /\ RailCounted
  BY DEF LaunchInv
<1>1. ChildrenFit'
  <2>1. ASSUME NEW c \in Children PROVE (os'[c] = "unborn") = (of'[c] = NoId)
    BY <1>0 DEF ChildrenFit
  <2>2. ASSUME NEW c \in Children, os'[c] \in {"unborn", "alive", "orphan"}
        PROVE  code'[c] = "none"
    BY <1>0, <2>2 DEF ChildrenFit, Lives
  <2>3. ASSUME NEW i \in Ids, Has(i)'
        PROVE  /\ entry'[i].child = NoChild => entry'[i].state = "failed"
               /\ entry'[i].child # NoChild =>
                    /\ of'[entry'[i].child] = i
                    /\ os'[entry'[i].child] \notin {"unborn", "orphan"}
    <3>1. Has(i) /\ entry[i] \in Entries /\ entry'[i].child = entry[i].child
      BY <1>0, <2>3 DEF Has, TypeOK
    <3>2. entry[i].child \in Children \cup {NoChild}
      BY <3>1, EntryFields
    <3> QED BY <1>0, <2>3, <3>1, <3>2 DEF ChildrenFit, Has
  <2> QED BY <2>1, <2>2, <2>3 DEF ChildrenFit
<1>2. Lost \subseteq Lost' \cup {c \in Children : ~Lives(c)'}
  BY DEF Lost, Lives
<1>3. \A c \in Children : Lives(c)' => Lives(c)
  BY DEF Lives
<1>4. HandleHeld'
  <2> SUFFICES ASSUME NEW c \in Children, Lives(c)', c \notin Lost'
               PROVE  LET e == entry'[of'[c]] IN
                      e # NoEntry /\ e.child = c /\ e.state # "failed"
    BY DEF HandleHeld
  <2>1. Lives(c) /\ c \notin Lost
    BY <1>2, <1>3
  <2>2. os'[c] = "alive" /\ c \notin lost' /\ os[c] = "alive"
    BY DEF Lost, Lives
  <2>3. of[c] \in Ids
    BY <1>0, <2>2 DEF ChildrenFit, TypeOK
  <2>4. Has(of[c]) /\ entry[of[c]].child = c /\ entry[of[c]].state # "failed"
    BY <1>0, <2>1 DEF HandleHeld, Has
  <2> QED BY <2>2, <2>3, <2>4
<1>5. OneWriter'
  <2> SUFFICES ASSUME NEW c \in Children, NEW d \in Children, c # d,
                      Lives(c)', Lives(d)', of'[c] = of'[d]
               PROVE  {c, d} \cap blind' # {} /\ {c, d} \cap Lost' # {}
    BY DEF OneWriter
  <2>1. {c, d} \cap blind # {} /\ {c, d} \cap Lost # {}
    BY <1>0, <1>3 DEF OneWriter
  <2> QED BY <1>2, <2>1
<1>6. RailCounted'
  <2>1. \A i \in Ids : InState(entry', i, "launching") => InState(entry, i, "launching")
    BY DEF InState, Has
  <2>2. /\ Cardinality(Launching(entry')) \in Nat /\ Cardinality(Launching(entry)) \in Nat
        /\ Cardinality(Launching(entry')) <= Cardinality(Launching(entry))
    <3>1. \A i \in Ids : InState(entry, i, "launching") => InState(entry, i, "launching")
      OBVIOUS
    <3> QED BY <2>1, <3>1, LaunchingShrinks
  <2> QED BY <1>0, <2>2, MaxAssumption DEF RailCounted
<1> QED BY <1>1, <1>4, <1>5, <1>6 DEF LaunchInv

\* A live child whose handle was not given up keeps its entry through listLaunching.
LEMMA ListedKeepsHeld ==
  ASSUME TypeOK, ChildrenFit, HandleHeld, NEW d \in Children, Lives(d), d \notin Lost
  PROVE  /\ of[d] \in Ids /\ os[d] = "alive" /\ code[d] = "none" /\ d # NoChild
         /\ Listed(entry)[of[d]] # NoEntry
         /\ Listed(entry)[of[d]] \in Entries
         /\ Listed(entry)[of[d]].child = d
         /\ Listed(entry)[of[d]].state \in {"launching", "running"}
<1>1. os[d] = "alive" /\ code[d] = "none" /\ d # NoChild /\ of[d] \in Ids
  BY NoChildAssumption DEF Lost, Lives, ChildrenFit, TypeOK
<1>2. /\ entry[of[d]] # NoEntry /\ entry[of[d]].child = d
      /\ entry[of[d]].state # "failed" /\ entry \in EntryMap
  BY DEF HandleHeld, TypeOK, EntryMap
<1>3. ChildAlive(d)
  BY <1>1 DEF ChildAlive
<1>4. Listed(entry)[of[d]] # NoEntry /\ Listed(entry) \in EntryMap
  BY <1>1, <1>2, <1>3, ListedMap
<1>5. Listed(entry)[of[d]] \in Entries
  BY <1>1, <1>4 DEF EntryMap
<1>6. Listed(entry)[of[d]].child = d /\ Listed(entry)[of[d]].state # "failed"
  BY <1>1, <1>2, <1>4, ListedMap
<1>7. Listed(entry)[of[d]].state \in States
  BY <1>5, EntryFields
<1> QED BY <1>1, <1>4, <1>5, <1>6, <1>7 DEF States

\* A launch keeps the invariant when every live child of its session was given up
\* and, if there is one, the launch was blind.
LEMMA LaunchKeeps ==
  ASSUME LaunchInv, NEW i \in Ids, NEW c \in Children \cup {NoChild}, NEW resume \in BOOLEAN,
         RailOpen(Listed(entry)), LaunchInto(Listed(entry), i, c, resume),
         UNCHANGED <<sent, onDisk, lost>>,
         blind \subseteq blind', blind' \subseteq Children,
         \A d \in Children : Lives(d) /\ of[d] = i => d \in Lost /\ (c # NoChild => c \in blind')
  PROVE  LaunchInv'
<1> DEFINE e == Listed(entry)
           n == NewEntry(c, resume)
<1>0. TypeOK /\ ChildrenFit /\ HandleHeld /\ OneWriter /\ RailCounted /\ entry \in EntryMap
  BY DEF LaunchInv, TypeOK, EntryMap
<1>1. e \in EntryMap /\ entry' = [e EXCEPT ![i] = n]
  BY <1>0, ListedMap DEF LaunchInto
<1>2. /\ n \in Entries /\ n # NoEntry /\ n.child = c
      /\ n.state = IF c = NoChild THEN "failed" ELSE "launching"
  <2>1. n \in Entries /\ n.child = c /\ n.state = IF c = NoChild THEN "failed" ELSE "launching"
    <3>1. CASE c = NoChild
      BY <3>1 DEF NewEntry, Entries, States
    <3>2. CASE c # NoChild
      BY <3>2 DEF NewEntry, Entries, States
    <3> QED BY <3>1, <3>2
  <2> QED BY <2>1, EntryFields
<1>3. \A j \in Ids : entry'[j] = IF j = i THEN n ELSE e[j]
  BY <1>1 DEF EntryMap
<1>4. \/ c = NoChild /\ UNCHANGED <<of, os, code>>
      \/ /\ c \in Children /\ os[c] = "unborn" /\ of' = [of EXCEPT ![c] = i]
         /\ \/ os' = [os EXCEPT ![c] = "alive"] /\ code' = code
            \/ os' = [os EXCEPT ![c] = "ended"] /\ code' = [code EXCEPT ![c] = "norun"]
  BY DEF LaunchInto, child_vars
<1>5. \A d \in Children : d # c => os'[d] = os[d] /\ of'[d] = of[d] /\ code'[d] = code[d]
  BY <1>0, <1>4 DEF TypeOK
<1>6. c # NoChild => /\ c \in Children /\ os[c] = "unborn" /\ of'[c] = i
                     /\ \/ os'[c] = "alive" /\ code'[c] = code[c]
                        \/ os'[c] = "ended"
  BY <1>0, <1>4 DEF TypeOK
<1> HIDE DEF e, n
<1>7. TypeOK'
  <2>1. entry' \in EntryMap
    BY <1>1, <1>2 DEF EntryMap
  <2>2. /\ of' \in [Children -> Ids \cup {NoId}]
        /\ os' \in [Children -> {"unborn", "alive", "orphan", "ended", "exited", "closed"}]
        /\ code' \in [Children -> {"none", "zero", "nonzero", "signal", "norun"}]
    BY <1>0, <1>4 DEF TypeOK
  <2> QED BY <1>0, <2>1, <2>2 DEF TypeOK, EntryMap
<1>8. ChildrenFit'
  <2>1. ASSUME NEW d \in Children
        PROVE  /\ (os'[d] = "unborn") = (of'[d] = NoId)
               /\ os'[d] \in {"unborn", "alive", "orphan"} => code'[d] = "none"
    <3>1. CASE d = c
      BY <1>0, <1>6, <3>1, NoIdAssumption, NoChildAssumption DEF ChildrenFit
    <3>2. CASE d # c
      BY <1>0, <1>5, <3>2 DEF ChildrenFit
    <3> QED BY <3>1, <3>2
  <2>2. ASSUME NEW j \in Ids, entry'[j] # NoEntry
        PROVE  /\ entry'[j].child = NoChild => entry'[j].state = "failed"
               /\ entry'[j].child # NoChild =>
                    /\ of'[entry'[j].child] = j
                    /\ os'[entry'[j].child] \notin {"unborn", "orphan"}
    <3>1. CASE j = i
      BY <1>2, <1>3, <1>6, <3>1
    <3>2. CASE j # i
      <4>1. /\ entry'[j] = e[j] /\ entry[j] # NoEntry /\ e[j].child = entry[j].child
            /\ e[j].state = "failed" <=> entry[j].state = "failed"
        BY <1>0, <1>3, <2>2, <3>2, ListedMap DEF e
      <4>2. entry[j] \in Entries
        BY <1>0, <4>1 DEF EntryMap
      <4>3. entry[j].child \in Children \cup {NoChild}
        BY <4>2, EntryFields
      <4>4. CASE entry[j].child = NoChild
        BY <1>0, <4>1, <4>4 DEF ChildrenFit, Has
      <4>5. CASE entry[j].child # NoChild
        <5>1. of[entry[j].child] = j /\ os[entry[j].child] \notin {"unborn", "orphan"}
          BY <1>0, <4>1, <4>5 DEF ChildrenFit, Has
        <5>2. entry[j].child # c
          BY <1>6, <4>5, <5>1
        <5> QED BY <1>5, <4>1, <4>3, <4>5, <5>1, <5>2
      <4> QED BY <4>4, <4>5
    <3> QED BY <3>1, <3>2
  <2> QED BY <2>1, <2>2 DEF ChildrenFit, Has
<1>9. \A d \in Children : d # c => (Lives(d)' <=> Lives(d)) /\ (d \in Lost' <=> d \in Lost)
  BY <1>5 DEF Lives, Lost
<1>10. HandleHeld'
  <2> SUFFICES ASSUME NEW d \in Children, Lives(d)', d \notin Lost'
               PROVE  /\ entry'[of'[d]] # NoEntry /\ entry'[of'[d]].child = d
                      /\ entry'[of'[d]].state # "failed"
    BY DEF HandleHeld
  <2>1. CASE d = c
    BY <1>2, <1>3, <1>6, <2>1, NoChildAssumption
  <2>2. CASE d # c
    <3>1. Lives(d) /\ d \notin Lost /\ of'[d] = of[d]
      BY <1>5, <1>9, <2>2
    <3>2. of[d] # i
      BY <3>1
    <3>3. of[d] \in Ids /\ e[of[d]] # NoEntry /\ e[of[d]].child = d /\ e[of[d]].state # "failed"
      BY <1>0, <3>1, ListedKeepsHeld DEF e
    <3> QED BY <1>3, <3>1, <3>2, <3>3
  <2> QED BY <2>1, <2>2
<1>11. OneWriter'
  <2>1. ASSUME NEW d \in Children, d # c, c # NoChild, Lives(d)', of'[d] = i
        PROVE  c \in blind' /\ d \in Lost'
    BY <1>5, <1>9, <2>1
  <2> SUFFICES ASSUME NEW a \in Children, NEW d \in Children, a # d,
                      Lives(a)', Lives(d)', of'[a] = of'[d]
               PROVE  {a, d} \cap blind' # {} /\ {a, d} \cap Lost' # {}
    BY DEF OneWriter
  <2>2. CASE a # c /\ d # c
    <3>1. {a, d} \cap blind # {} /\ {a, d} \cap Lost # {}
      BY <1>0, <1>5, <1>9, <2>2 DEF OneWriter
    <3> QED BY <1>9, <2>2, <3>1
  <2>3. CASE a = c
    BY <1>6, <2>1, <2>3, NoChildAssumption
  <2>4. CASE d = c
    BY <1>6, <2>1, <2>4, NoChildAssumption
  <2> QED BY <2>2, <2>3, <2>4
<1>12. RailCounted'
  <2>1. IsFiniteSet(Launching(e)) /\ Cardinality(Launching(e)) \in Nat
    BY LaunchingShrinks
  <2>2. IsFiniteSet(Launching(e) \cup {i})
        /\ Cardinality(Launching(e) \cup {i}) <= Cardinality(Launching(e)) + 1
    <3>1. /\ IsFiniteSet(Launching(e) \cup {i})
          /\ Cardinality(Launching(e) \cup {i}) =
               IF i \in Launching(e) THEN Cardinality(Launching(e)) ELSE Cardinality(Launching(e)) + 1
      BY <2>1, FS_AddElement, Zenon
    <3> QED BY <2>1, <3>1
  <2>3. Launching(entry') \in SUBSET (Launching(e) \cup {i})
    BY <1>3 DEF Launching, InState
  <2>4. Cardinality(Launching(entry')) <= Cardinality(Launching(e) \cup {i})
        /\ Cardinality(Launching(entry')) \in Nat
        /\ Cardinality(Launching(e) \cup {i}) \in Nat
    BY <2>2, <2>3, FS_Subset, FS_CardinalityType
  <2>5. Cardinality(Launching(e)) < MaxLaunching
    BY DEF RailOpen, e
  <2> QED BY <2>1, <2>2, <2>4, <2>5, MaxAssumption DEF RailCounted
<1> QED BY <1>7, <1>8, <1>10, <1>11, <1>12 DEF LaunchInv

-----------------------------------------------------------------------------
(* The steps.                                                                *)

\* The processes and their events are left alone by a step of the store.
LEMMA StoreStep ==
  ASSUME LaunchInv, UNCHANGED child_vars, blind' = blind, onDisk' = onDisk,
         lost' \subseteq Children, lost \subseteq lost',
         sent' \in [Children -> {"none", "TERM", "KILL"}],
         entry' \in EntryMap,
         \A i \in Ids : entry'[i] # NoEntry =>
           /\ Has(i)
           /\ entry'[i].child = entry[i].child
           /\ entry'[i].state = "launching" => entry[i].state = "launching"
           /\ entry[i].state = "failed" => entry'[i].state = "failed",
         \A i \in Ids : /\ Has(i) /\ entry[i].state # "failed"
                        /\ os[entry[i].child] = "alive" /\ entry[i].child \notin lost'
                      => entry'[i] # NoEntry /\ entry'[i].state # "failed"
  PROVE  LaunchInv'
<1>1. TypeOK'
  BY DEF LaunchInv, TypeOK, child_vars, EntryMap
<1>2. \A i \in Ids : entry'[i] # NoEntry /\ entry'[i].child # NoChild
                        => os'[entry'[i].child] # "orphan"
  BY DEF LaunchInv, ChildrenFit, child_vars
<1>3. of' = of /\ os' = os /\ code' = code
  BY DEF child_vars
<1> QED BY <1>1, <1>2, <1>3, CalmStep

\* An entry whose stop fields alone change.
LEMMA StopFields ==
  ASSUME LaunchInv, NEW i \in Ids, Has(i), NEW x \in Entries,
         x.child = entry[i].child, x.state = entry[i].state,
         entry' = [entry EXCEPT ![i] = x],
         UNCHANGED <<child_vars, onDisk, ghosts>>,
         sent' \in [Children -> {"none", "TERM", "KILL"}]
  PROVE  LaunchInv'
<1>1. entry \in EntryMap /\ lost \subseteq Children
  BY DEF LaunchInv, TypeOK, EntryMap
<1>2. x # NoEntry
  BY EntryFields
<1>3. \A j \in Ids : entry'[j] = IF j = i THEN x ELSE entry[j]
  BY <1>1 DEF EntryMap
<1>4. entry' \in EntryMap
  BY <1>1 DEF EntryMap
<1> QED BY <1>1, <1>2, <1>3, <1>4, StoreStep DEF ghosts, Has

\* Every signal is one of the two.
LEMMA SignalType ==
  ASSUME TypeOK, NEW c, NEW s \in {"TERM", "KILL"}, Signal(c, s)
  PROVE  sent' \in [Children -> {"none", "TERM", "KILL"}]
BY DEF TypeOK, Signal, Signalled

LEMMA BackstopType ==
  ASSUME TypeOK, Backstop
  PROVE  sent' \in [Children -> {"none", "TERM", "KILL"}]
BY DEF TypeOK, Backstop, Signalled

LEMMA SpawnStep ==
  ASSUME LaunchInv, NEW i \in Ids, NEW c \in Children \cup {NoChild}, Spawn(i, c)
  PROVE  LaunchInv'
<1>1. /\ \A d \in Children : of[d] # i
      /\ RailOpen(Listed(entry)) /\ LaunchInto(Listed(entry), i, c, FALSE)
      /\ UNCHANGED <<sent, onDisk, lost>> /\ blind' = blind
  BY DEF Spawn, ghosts
<1>2. blind \subseteq Children
  BY DEF LaunchInv, TypeOK
<1> QED BY <1>1, <1>2, LaunchKeeps

LEMMA ResumeStep ==
  ASSUME LaunchInv, NEW i \in Ids, NEW c \in Children \cup {NoChild}, NEW probe \in BOOLEAN,
         Resume(i, c, probe)
  PROVE  LaunchInv'
<1>1. /\ RailOpen(Listed(entry)) /\ LaunchInto(Listed(entry), i, c, TRUE)
      /\ MayResume(Listed(entry), i, probe)
      /\ UNCHANGED <<sent, onDisk, lost>>
      /\ blind' = IF probe THEN blind ELSE blind \cup ({c} \ {NoChild})
  BY DEF Resume
<1>2. blind \subseteq blind' /\ blind' \subseteq Children
  BY <1>1 DEF LaunchInv, TypeOK
<1>3. ASSUME NEW d \in Children, Lives(d), of[d] = i
      PROVE  d \in Lost /\ (c # NoChild => c \in blind')
  <2>1. ~probe
    BY <1>1, <1>3 DEF MayResume, Ps
  <2>2. d \in Lost
    <3> SUFFICES ASSUME d \notin Lost PROVE FALSE
      OBVIOUS
    <3>1. /\ os[d] = "alive" /\ code[d] = "none" /\ d # NoChild
          /\ Listed(entry)[i] # NoEntry /\ Listed(entry)[i].child = d
          /\ Listed(entry)[i].state \in {"launching", "running"}
      BY <1>3, ListedKeepsHeld DEF LaunchInv
    <3>2. Signalable(d)
      BY <3>1 DEF Signalable, ChildAlive
    <3> QED BY <1>1, <3>1, <3>2 DEF MayResume, HasLiveChild, InState
  <2> QED BY <1>1, <2>1, <2>2
<1> QED BY <1>1, <1>2, <1>3, LaunchKeeps

LEMMA StopLaunchingStep ==
  ASSUME LaunchInv, NEW i \in Ids, StopLaunching(i)
  PROVE  LaunchInv'
<1>1. entry \in EntryMap /\ TypeOK /\ ChildrenFit
  BY DEF LaunchInv, TypeOK, EntryMap
<1>2. /\ Has(i) /\ entry[i].state = "launching" /\ entry' = Without(i)
      /\ lost' = lost \cup {entry[i].child} /\ Signal(entry[i].child, "TERM")
      /\ UNCHANGED child_vars /\ blind' = blind /\ onDisk' = onDisk
  BY DEF StopLaunching, InState, Has
<1>3. entry[i].child \in Children
  <2>1. entry[i] \in Entries
    BY <1>1, <1>2 DEF EntryMap, Has
  <2> QED BY <1>1, <1>2, <2>1, EntryFields DEF ChildrenFit
<1>4. \A j \in Ids : entry'[j] = IF j = i THEN NoEntry ELSE entry[j]
  BY <1>1, <1>2 DEF EntryMap, Without
<1>5. entry' \in EntryMap
  BY <1>1, <1>2 DEF EntryMap, Without
<1>6. lost' \subseteq Children /\ lost \subseteq lost'
  BY <1>1, <1>2, <1>3 DEF TypeOK
<1> QED BY <1>1, <1>2, <1>4, <1>5, <1>6, SignalType, StoreStep DEF Has

LEMMA StopRunningStep ==
  ASSUME LaunchInv, NEW i \in Ids, StopRunning(i)
  PROVE  LaunchInv'
<1> DEFINE x == [entry[i] EXCEPT !.stop = "asked", !.timer = TRUE]
<1>1. entry \in EntryMap /\ TypeOK
  BY DEF LaunchInv, TypeOK, EntryMap
<1>2. Has(i) /\ entry[i] \in Entries
  BY <1>1 DEF StopRunning, HasLiveChild, InState, Has, EntryMap
<1>3. x \in Entries /\ x.child = entry[i].child /\ x.state = entry[i].state
  BY <1>2 DEF Entries
<1>4. entry' = [entry EXCEPT ![i] = x]
  BY <1>1 DEF StopRunning, EntryMap
<1>5. Signal(entry[i].child, "TERM") /\ UNCHANGED <<child_vars, onDisk, ghosts>>
  BY DEF StopRunning
<1> HIDE DEF x
<1> QED BY <1>1, <1>2, <1>3, <1>4, <1>5, SignalType, StopFields

LEMMA GraceEndsStep ==
  ASSUME LaunchInv, NEW i \in Ids, GraceEnds(i)
  PROVE  LaunchInv'
<1> DEFINE x == [entry[i] EXCEPT !.stop = "past"]
<1>1. entry \in EntryMap /\ TypeOK
  BY DEF LaunchInv, TypeOK, EntryMap
<1>2. Has(i) /\ entry[i] \in Entries
  BY <1>1 DEF GraceEnds, Has, EntryMap
<1>3. x \in Entries /\ x.child = entry[i].child /\ x.state = entry[i].state
  BY <1>2 DEF Entries
<1>4. entry' = [entry EXCEPT ![i] = x] /\ UNCHANGED <<child_vars, sent, onDisk, ghosts>>
  BY <1>1 DEF GraceEnds, EntryMap
<1>5. sent' \in [Children -> {"none", "TERM", "KILL"}]
  BY <1>1, <1>4 DEF TypeOK
<1> HIDE DEF x
<1> QED BY <1>2, <1>3, <1>4, <1>5, StopFields

LEMMA EscalateTimerStep ==
  ASSUME LaunchInv, NEW i \in Ids, EscalateTimer(i)
  PROVE  LaunchInv'
<1> DEFINE x == [entry[i] EXCEPT !.timer = FALSE]
<1>1. entry \in EntryMap /\ TypeOK
  BY DEF LaunchInv, TypeOK, EntryMap
<1>2. Has(i) /\ entry[i] \in Entries
  BY <1>1 DEF EscalateTimer, Has, EntryMap
<1>3. x \in Entries /\ x.child = entry[i].child /\ x.state = entry[i].state
  BY <1>2 DEF Entries
<1>4. entry' = [entry EXCEPT ![i] = x] /\ UNCHANGED <<child_vars, onDisk, ghosts>>
  BY <1>1 DEF EscalateTimer, EntryMap
<1>5. sent' \in [Children -> {"none", "TERM", "KILL"}]
  BY <1>1, SignalType DEF EscalateTimer, TypeOK
<1> HIDE DEF x
<1> QED BY <1>2, <1>3, <1>4, <1>5, StopFields

LEMMA GrowOldStep ==
  ASSUME LaunchInv, NEW i \in Ids, GrowOld(i)
  PROVE  LaunchInv'
<1> DEFINE x == [entry[i] EXCEPT !.old = TRUE]
<1>1. entry \in EntryMap /\ TypeOK
  BY DEF LaunchInv, TypeOK, EntryMap
<1>2. Has(i) /\ entry[i] \in Entries
  BY <1>1 DEF GrowOld, Has, EntryMap
<1>3. x \in Entries /\ x.child = entry[i].child /\ x.state = entry[i].state
  BY <1>2 DEF Entries
<1>4. entry' = [entry EXCEPT ![i] = x] /\ UNCHANGED <<child_vars, sent, onDisk, ghosts>>
  BY <1>1 DEF GrowOld, EntryMap
<1>5. sent' \in [Children -> {"none", "TERM", "KILL"}]
  BY <1>1, <1>4 DEF TypeOK
<1> HIDE DEF x
<1> QED BY <1>2, <1>3, <1>4, <1>5, StopFields

LEMMA SentStep ==
  ASSUME LaunchInv, NEW i \in Ids, ForceStop(i) \/ Widget
  PROVE  LaunchInv'
<1>1. entry \in EntryMap /\ TypeOK /\ lost \subseteq Children
  BY DEF LaunchInv, TypeOK, EntryMap
<1>2. entry' = entry /\ UNCHANGED <<child_vars, onDisk>> /\ lost' = lost /\ blind' = blind
  BY DEF ForceStop, Widget, ghosts
<1>3. sent' \in [Children -> {"none", "TERM", "KILL"}]
  BY <1>1, SignalType, BackstopType DEF ForceStop, Widget
<1> QED BY <1>1, <1>2, <1>3, StoreStep DEF Has

LEMMA PollStep ==
  ASSUME LaunchInv, NEW shown, NEW reached \in BOOLEAN, Poll(shown, reached)
  PROVE  LaunchInv'
<1> DEFINE a == Adopted(entry, shown)
<1>1. entry \in EntryMap /\ TypeOK /\ ChildrenFit /\ lost \subseteq Children
  BY DEF LaunchInv, TypeOK, EntryMap
<1>2. entry' = Listed(a) /\ UNCHANGED <<child_vars, onDisk>> /\ lost' = lost /\ blind' = blind
  BY DEF Poll, ghosts
<1>3. sent' \in [Children -> {"none", "TERM", "KILL"}]
  BY <1>1, BackstopType DEF Poll, TypeOK
<1>4. a \in EntryMap /\ entry' \in EntryMap
  BY <1>1, <1>2, AdoptedMap, ListedMap
<1>5. ASSUME NEW i \in Ids, entry'[i] # NoEntry
      PROVE  /\ Has(i)
             /\ entry'[i].child = entry[i].child
             /\ entry'[i].state = "launching" => entry[i].state = "launching"
             /\ entry[i].state = "failed" => entry'[i].state = "failed"
  <2>1. /\ a[i] # NoEntry /\ entry'[i].child = a[i].child
        /\ entry'[i].state = "launching" => a[i].state = "launching"
        /\ a[i].state = "failed" => entry'[i].state = "failed"
    BY <1>2, <1>4, <1>5, ListedMap
  <2>2. /\ entry[i] # NoEntry /\ a[i].child = entry[i].child
        /\ a[i].state = "launching" => entry[i].state = "launching"
        /\ entry[i].state = "failed" => a[i].state = "failed"
    BY <1>1, <2>1, AdoptedMap
  <2> QED BY <2>1, <2>2 DEF Has
<1>6. ASSUME NEW i \in Ids, Has(i), entry[i].state # "failed", os[entry[i].child] = "alive"
      PROVE  entry'[i] # NoEntry /\ entry'[i].state # "failed"
  <2>1. a[i] # NoEntry /\ a[i].child = entry[i].child /\ a[i].state # "failed"
    BY <1>1, <1>6, AdoptedMap DEF Has
  <2>2. entry[i].child # NoChild
    BY <1>1, <1>6 DEF ChildrenFit
  <2>3. ChildAlive(a[i].child)
    BY <1>6, <2>1, <2>2 DEF ChildAlive
  <2> QED BY <1>2, <1>4, <2>1, <2>3, ListedMap
<1> HIDE DEF a
<1> QED BY <1>1, <1>2, <1>3, <1>4, <1>5, <1>6, StoreStep

LEMMA RestartStep ==
  ASSUME LaunchInv, Restart
  PROVE  LaunchInv'
<1>1. /\ \A i \in Ids : entry'[i] = NoEntry
      /\ entry' \in EntryMap /\ of' = of /\ code' = code /\ UNCHANGED <<sent, onDisk, ghosts>>
  BY DEF Restart, EntryMap
<1>2. TypeOK /\ \A c \in Children :
        os'[c] = IF Lives(c) THEN "orphan" ELSE IF os[c] = "unborn" THEN "unborn" ELSE "closed"
  BY DEF LaunchInv, Restart
<1>3. TypeOK'
  <2>1. os' \in [Children -> {"unborn", "alive", "orphan", "ended", "exited", "closed"}]
    BY <1>2 DEF Restart
  <2> QED BY <1>1, <1>2, <2>1 DEF TypeOK, EntryMap, ghosts
<1>4. \A c \in Children :
        \/ os'[c] = os[c] /\ code'[c] = code[c]
        \/ /\ os[c] # "unborn" /\ os'[c] \notin {"unborn", "alive"}
           /\ os'[c] = "orphan" => Lives(c) /\ code'[c] = code[c]
           /\ os[c] = "orphan" => os'[c] # "alive"
  BY <1>1, <1>2 DEF Lives
<1>5. \A i \in Ids : Has(i) /\ entry[i].state # "failed" => os'[entry[i].child] # "alive"
  <2> SUFFICES ASSUME NEW i \in Ids, Has(i), entry[i].state # "failed"
               PROVE  os'[entry[i].child] # "alive"
    OBVIOUS
  <2>1. entry[i] \in Entries
    BY <1>2 DEF TypeOK, Has
  <2>2. entry[i].child \in Children
    BY <2>1, EntryFields DEF LaunchInv, ChildrenFit
  <2> QED BY <1>2, <2>2
<1> QED BY <1>1, <1>3, <1>4, <1>5, CalmStep DEF ghosts

\* An event of one child: that child is over, and the map is that of `fail`, or
\* without its running entry, or untouched.
LEMMA ChildEvent ==
  ASSUME LaunchInv, NEW c \in Children, os[c] \in {"ended", "exited"},
         NEW o \in {"exited", "closed"}, os' = [os EXCEPT ![c] = o],
         UNCHANGED <<of, code, sent, onDisk, ghosts>>,
         \/ entry' = Without(of[c]) /\ Drops(of[c], c)
         \/ entry' = Failed(of[c], c)
         \/ entry' = entry
  PROVE  LaunchInv'
<1>1. TypeOK /\ ChildrenFit /\ entry \in EntryMap /\ of[c] \in Ids
  BY DEF LaunchInv, TypeOK, ChildrenFit, EntryMap
<1>2. \A d \in Children : os'[d] = IF d = c THEN o ELSE os[d]
  BY <1>1 DEF TypeOK
<1>3. /\ entry' \in EntryMap
      /\ \A i \in Ids : entry'[i] # NoEntry =>
           /\ Has(i)
           /\ entry'[i].child = entry[i].child
           /\ entry'[i].state = "launching" => entry[i].state = "launching"
           /\ entry[i].state = "failed" => entry'[i].state = "failed"
      /\ \A i \in Ids : Has(i) /\ entry[i].child # c => entry'[i] = entry[i]
  <2>1. CASE entry' = Without(of[c]) /\ Drops(of[c], c)
    <3>1. \A i \in Ids : entry'[i] = IF i = of[c] THEN NoEntry ELSE entry[i]
      BY <1>1, <2>1 DEF Without, EntryMap
    <3>2. entry' \in EntryMap
      BY <1>1, <2>1 DEF Without, EntryMap
    <3>3. Has(of[c]) => entry[of[c]].child = c
      BY <2>1 DEF Drops, OwnedBy
    <3> QED BY <3>1, <3>2, <3>3 DEF Has
  <2>2. CASE entry' = Failed(of[c], c)
    BY <1>1, <2>2, FailedMap DEF Has
  <2>3. CASE entry' = entry
    BY <1>1, <2>3 DEF Has
  <2> QED BY <2>1, <2>2, <2>3
<1>4. TypeOK'
  BY <1>1, <1>3 DEF TypeOK, EntryMap, ghosts
<1>5. \A i \in Ids : entry'[i] # NoEntry /\ entry'[i].child # NoChild
                        => os'[entry'[i].child] # "orphan"
  <2> SUFFICES ASSUME NEW i \in Ids, Has(i), entry[i].child # NoChild
               PROVE  os'[entry[i].child] # "orphan"
    BY <1>3
  <2>1. entry[i] \in Entries
    BY <1>1 DEF EntryMap, Has
  <2>2. entry[i].child \in Children /\ os[entry[i].child] # "orphan"
    BY <1>1, <2>1, EntryFields DEF ChildrenFit
  <2> QED BY <1>2, <2>2
<1>6. \A i \in Ids : Has(i) /\ entry[i].state # "failed" /\ os'[entry[i].child] = "alive"
                      => entry'[i] # NoEntry /\ entry'[i].state # "failed"
  BY <1>2, <1>3 DEF Has
<1>7. \A d \in Children :
        \/ os'[d] = os[d] /\ code'[d] = code[d]
        \/ /\ os[d] # "unborn" /\ os'[d] \notin {"unborn", "alive"}
           /\ os'[d] = "orphan" => Lives(d) /\ code'[d] = code[d]
           /\ os[d] = "orphan" => os'[d] # "alive"
  BY <1>2
<1> QED BY <1>3, <1>4, <1>5, <1>6, <1>7, CalmStep DEF ghosts

LEMMA StreamErrorStep ==
  ASSUME LaunchInv, NEW c \in Children, StreamError(c)
  PROVE  LaunchInv'
<1>1. TypeOK /\ ChildrenFit /\ entry \in EntryMap
  BY DEF LaunchInv, TypeOK, EntryMap
<1>2. /\ os[c] \in {"alive", "ended"} /\ entry' = Failed(of[c], c) /\ lost' = lost \cup {c}
      /\ UNCHANGED <<child_vars, sent, onDisk>> /\ blind' = blind
  BY DEF StreamError
<1>3. of[c] \in Ids
  BY <1>1, <1>2 DEF TypeOK, ChildrenFit
<1>4. /\ entry' \in EntryMap
      /\ \A i \in Ids : entry'[i] = NoEntry <=> entry[i] = NoEntry
      /\ \A i \in Ids : Has(i) =>
           /\ entry'[i].child = entry[i].child
           /\ entry'[i].state = "launching" => entry[i].state = "launching"
           /\ entry[i].state = "failed" => entry'[i].state = "failed"
           /\ entry[i].child # c => entry'[i] = entry[i]
  BY <1>1, <1>2, <1>3, FailedMap
<1>5. lost' \subseteq Children /\ lost \subseteq lost' /\ sent' \in [Children -> {"none", "TERM", "KILL"}]
  BY <1>1, <1>2 DEF TypeOK
<1>6. \A i \in Ids : Has(i) /\ entry[i].state # "failed" /\ entry[i].child \notin lost'
                      => entry'[i] # NoEntry /\ entry'[i].state # "failed"
  BY <1>2, <1>4 DEF Has
<1> QED BY <1>2, <1>4, <1>5, <1>6, StoreStep DEF Has

LEMMA DieStep ==
  ASSUME LaunchInv, NEW c \in Children, NEW how, Die(c, how)
  PROVE  LaunchInv'
<1>1. TypeOK /\ ChildrenFit /\ entry \in EntryMap
  BY DEF LaunchInv, TypeOK, EntryMap
<1>2. /\ Lives(c) /\ how \in {"zero", "nonzero", "signal"}
      /\ os' = [os EXCEPT ![c] = IF os[c] = "orphan" THEN "closed" ELSE "ended"]
      /\ code' = [code EXCEPT ![c] = how] /\ UNCHANGED <<entry, of, sent, onDisk, lost, blind>>
  BY DEF Die, ghosts
<1>3. \A d \in Children : d # c => os'[d] = os[d] /\ code'[d] = code[d]
  BY <1>1, <1>2 DEF TypeOK
<1>4. os'[c] \in {"closed", "ended"}
  BY <1>1, <1>2 DEF TypeOK
<1>5. TypeOK'
  BY <1>1, <1>2 DEF TypeOK
<1>6. \A d \in Children :
        \/ os'[d] = os[d] /\ code'[d] = code[d]
        \/ /\ os[d] # "unborn" /\ os'[d] \notin {"unborn", "alive"}
           /\ os'[d] = "orphan" => Lives(d) /\ code'[d] = code[d]
           /\ os[d] = "orphan" => os'[d] # "alive"
  BY <1>2, <1>3, <1>4 DEF Lives
<1>7. \A i \in Ids : entry'[i] # NoEntry /\ entry'[i].child # NoChild
                        => os'[entry'[i].child] # "orphan"
  <2> SUFFICES ASSUME NEW i \in Ids, Has(i), entry[i].child # NoChild
               PROVE  os'[entry[i].child] # "orphan"
    BY <1>2 DEF Has
  <2>1. entry[i] \in Entries
    BY <1>1 DEF EntryMap, Has
  <2>2. entry[i].child \in Children /\ os[entry[i].child] # "orphan"
    BY <1>1, <2>1, EntryFields DEF ChildrenFit
  <2> QED BY <1>3, <1>4, <2>2
<1> QED BY <1>2, <1>5, <1>6, <1>7, CalmStep DEF Has

LEMMA WriteTranscriptStep ==
  ASSUME LaunchInv, NEW c \in Children, WriteTranscript(c)
  PROVE  LaunchInv'
<1>1. TypeOK /\ ChildrenFit
  BY DEF LaunchInv
<1>2. /\ Lives(c) /\ onDisk' = onDisk \cup {of[c]}
      /\ UNCHANGED <<entry, of, os, code, sent, lost, blind>>
  BY DEF WriteTranscript, child_vars, ghosts
<1>3. of[c] \in Ids
  BY <1>1, <1>2 DEF TypeOK, ChildrenFit, Lives
<1>4. TypeOK'
  BY <1>1, <1>2, <1>3 DEF TypeOK
<1> QED BY <1>1, <1>2, <1>4, CalmStep DEF Has, ChildrenFit

-----------------------------------------------------------------------------

\* Every step of the specification keeps the invariant.
LEMMA LaunchStep == ASSUME LaunchInv, [Next]_vars PROVE LaunchInv'
<1>1. ASSUME NEW i \in Ids, NEW c \in Children \cup {NoChild}, Spawn(i, c) PROVE LaunchInv'
  BY <1>1, SpawnStep
<1>2. ASSUME NEW i \in Ids, NEW c \in Children \cup {NoChild}, NEW probe \in BOOLEAN,
             Resume(i, c, probe)
      PROVE  LaunchInv'
  BY <1>2, ResumeStep
<1>3. ASSUME NEW i \in Ids, StopLaunching(i) \/ StopRunning(i) \/ ForceStop(i) \/ EscalateTimer(i)
                              \/ GrowOld(i) \/ GraceEnds(i)
      PROVE  LaunchInv'
  BY <1>3, StopLaunchingStep, StopRunningStep, SentStep, EscalateTimerStep, GrowOldStep, GraceEndsStep
<1>4. ASSUME NEW shown, NEW reached \in BOOLEAN, Poll(shown, reached) PROVE LaunchInv'
  BY <1>4, PollStep
<1>5. CASE Widget
  <2>1. entry \in EntryMap /\ TypeOK /\ lost \subseteq Children
    BY DEF LaunchInv, TypeOK, EntryMap
  <2>2. entry' = entry /\ UNCHANGED <<child_vars, onDisk>> /\ lost' = lost /\ blind' = blind
    BY <1>5 DEF Widget, ghosts
  <2>3. sent' \in [Children -> {"none", "TERM", "KILL"}]
    BY <1>5, <2>1, BackstopType DEF Widget
  <2> QED BY <2>1, <2>2, <2>3, StoreStep DEF Has
<1>6. CASE Restart
  BY <1>6, RestartStep
<1>7. ASSUME NEW c \in Children, ExitEvent(c) PROVE LaunchInv'
  BY <1>7, ChildEvent DEF ExitEvent
<1>8. ASSUME NEW c \in Children, NEW tail \in BOOLEAN, CloseEvent(c, tail) PROVE LaunchInv'
  BY <1>8, ChildEvent DEF CloseEvent
<1>9. ASSUME NEW c \in Children, StreamError(c) \/ WriteTranscript(c) PROVE LaunchInv'
  BY <1>9, StreamErrorStep, WriteTranscriptStep
<1>10. ASSUME NEW c \in Children, NEW how, Die(c, how) PROVE LaunchInv'
  BY <1>10, DieStep
<1>11. CASE UNCHANGED vars
  <2>1. UNCHANGED <<entry, of, os, code, sent, onDisk, lost, blind>>
    BY <1>11 DEF vars, child_vars, ghosts
  <2> QED BY <2>1 DEF LaunchInv, TypeOK, ChildrenFit, HandleHeld, OneWriter, RailCounted, Has, Lives, Lost, Launching, InState
<1> QED BY <1>1, <1>2, <1>3, <1>4, <1>5, <1>6, <1>7, <1>8, <1>9, <1>10, <1>11
        DEF Next, Handler, Event, World

\* The inductive invariant holds in every reachable state.
THEOREM LaunchInvariance == Spec => []LaunchInv
<1>1. Init => LaunchInv
  BY LaunchStart
<1>2. LaunchInv /\ [Next]_vars => LaunchInv'
  BY LaunchStep
<1> QED BY <1>1, <1>2, PTL DEF Spec

\* Every variable of the launch store keeps its type.
THEOREM LaunchTypeCorrect == Spec => []TypeOK
<1>1. LaunchInv => TypeOK
  BY DEF LaunchInv
<1> QED BY <1>1, LaunchInvariance, PTL

\* The store's charter: every live child whose handle was not given up is the
\* child of its session's launching or running entry.
THEOREM LiveChildrenAreHeld == Spec => []HandleHeld
<1>1. LaunchInv => HandleHeld
  BY DEF LaunchInv
<1> QED BY <1>1, LaunchInvariance, PTL

\* Two processes write one transcript only after a blind resume over a child
\* whose handle was lost.
THEOREM OneWriterUnlessBlind == Spec => []OneWriter
<1>1. LaunchInv => OneWriter
  BY DEF LaunchInv
<1> QED BY <1>1, LaunchInvariance, PTL

\* MAX_LAUNCHING bounds the live processes that are not running sessions yet.
THEOREM TheRailHolds == Spec => []RailHolds
<1>1. ASSUME LaunchInv PROVE RailHolds
  <2> DEFINE W == {c \in Children : /\ Lives(c) /\ c \notin Lost
                                   /\ ~InState(entry, of[c], "running")}
             f == [c \in W |-> of[c]]
  <2>1. TypeOK /\ ChildrenFit /\ HandleHeld /\ RailCounted
    BY <1>1 DEF LaunchInv
  <2>2. ASSUME NEW c \in W PROVE of[c] \in Launching(entry) /\ entry[of[c]].child = c
    <3>1. of[c] \in Ids
      BY <2>1 DEF TypeOK, ChildrenFit, Lives
    <3>2. entry[of[c]] # NoEntry /\ entry[of[c]].child = c /\ entry[of[c]].state # "failed"
      BY <2>1 DEF HandleHeld
    <3>3. entry[of[c]] \in Entries
      BY <2>1, <3>1, <3>2 DEF TypeOK
    <3>4. entry[of[c]].state \in States /\ entry[of[c]].state # "running"
      BY <3>2, <3>3, EntryFields DEF InState
    <3> QED BY <3>1, <3>2, <3>4 DEF Launching, InState, States
  <2>3. f \in Injection(W, Launching(entry))
    BY <2>2 DEF Injection, IsInjective
  <2>4. /\ IsFiniteSet(Launching(entry)) /\ Cardinality(Launching(entry)) \in Nat
    <3>1. \A i \in Ids : InState(entry, i, "launching") => InState(entry, i, "launching")
      OBVIOUS
    <3> QED BY <3>1, LaunchingShrinks
  <2>5. IsFiniteSet(W) /\ Cardinality(W) <= Cardinality(Launching(entry))
    BY <2>3, <2>4, FS_Injection
  <2>6. Cardinality(W) \in Nat
    BY <2>5, FS_CardinalityType
  <2> HIDE DEF W
  <2>7. Cardinality(W) <= MaxLaunching
    BY <2>1, <2>4, <2>5, <2>6, MaxAssumption DEF RailCounted
  <2> QED BY <2>7 DEF RailHolds, W
<1> QED BY <1>1, LaunchInvariance, PTL

\* The steps that can turn a running entry into a failed one of the same child.
LEMMA PhantomStep ==
  ASSUME LaunchInv, [Next]_vars, NEW i \in Ids,
         InState(entry, i, "running"), InState(entry', i, "failed"),
         entry'[i].child = entry[i].child
  PROVE  entry[i].child \in lost' \/ code[entry[i].child] = "norun"
<1>0. /\ TypeOK /\ ChildrenFit /\ entry \in EntryMap /\ entry[i] \in Entries
      /\ entry[i] # NoEntry /\ entry[i].state = "running" /\ entry'[i].state = "failed"
      /\ entry[i].child \in Children /\ entry[i].child # NoChild
  BY EntryFields DEF LaunchInv, TypeOK, EntryMap, InState, ChildrenFit, Has
<1>1. ASSUME NEW k \in Ids, NEW c \in Children \cup {NoChild}, NEW resume \in BOOLEAN,
             LaunchInto(Listed(entry), k, c, resume)
      PROVE  FALSE
  <2>1. Listed(entry) \in EntryMap /\ Listed(entry)[i] = entry[i]
    BY <1>0, ListedMap DEF Listed
  <2>2. entry'[i] = IF i = k THEN NewEntry(c, resume) ELSE entry[i]
    BY <1>1, <2>1 DEF LaunchInto, EntryMap
  <2>3. i = k
    BY <1>0, <2>2
  <2>4. entry'[i].child = c /\ c # NoChild
    BY <1>0, <2>2, <2>3 DEF NewEntry
  <2> QED BY <1>0, <2>2, <2>3, <2>4 DEF NewEntry
<1>2. ASSUME NEW k \in Ids, NEW c \in Children \cup {NoChild}, Spawn(k, c) PROVE FALSE
  BY <1>1, <1>2 DEF Spawn
<1>3. ASSUME NEW k \in Ids, NEW c \in Children \cup {NoChild}, NEW probe \in BOOLEAN,
             Resume(k, c, probe)
      PROVE  FALSE
  BY <1>1, <1>3 DEF Resume
<1>4. ASSUME NEW k \in Ids, StopLaunching(k) \/ StopRunning(k) \/ ForceStop(k) \/ EscalateTimer(k)
                              \/ GrowOld(k) \/ GraceEnds(k)
      PROVE  FALSE
  <2>1. k # i => entry'[i] = entry[i]
    BY <1>0, <1>4 DEF StopLaunching, Without, StopRunning, ForceStop, EscalateTimer, GrowOld,
                      GraceEnds, EntryMap
  <2>2. ~StopLaunching(i)
    BY <1>0 DEF StopLaunching, InState
  <2>3. k = i
    BY <1>0, <2>1
  <2>4. entry'[i].state = entry[i].state
    BY <1>0, <1>4, <2>2, <2>3 DEF StopRunning, ForceStop, EscalateTimer, GrowOld, GraceEnds, EntryMap, Entries
  <2> QED BY <1>0, <2>4
<1>5. ASSUME NEW shown, NEW reached \in BOOLEAN, Poll(shown, reached) PROVE FALSE
  <2>1. Adopted(entry, shown)[i] = entry[i] /\ Adopted(entry, shown) \in EntryMap
    BY <1>0, AdoptedMap DEF Adopted
  <2>2. entry'[i] = entry[i]
    BY <1>0, <1>5, <2>1, ListedMap DEF Poll, Listed
  <2> QED BY <1>0, <2>2
<1>6. CASE Widget \/ Restart
  BY <1>0, <1>6 DEF Widget, Restart, InState
<1>7. ASSUME NEW c \in Children, entry[i].child # c, os[c] # "unborn",
             \/ entry' = Without(of[c]) /\ Drops(of[c], c)
             \/ entry' = Failed(of[c], c)
             \/ entry' = entry
      PROVE  FALSE
  <2>1. of[c] \in Ids
    BY <1>0, <1>7 DEF TypeOK, ChildrenFit
  <2>2. Has(i)
    BY <1>0 DEF Has
  <2>3. entry' = Failed(of[c], c) => entry'[i] = entry[i]
    BY <1>0, <1>7, <2>1, <2>2, FailedMap
  <2>4. entry' = Without(of[c]) /\ Drops(of[c], c) => entry'[i] = entry[i]
    BY <1>0, <1>7, <2>1 DEF Without, Drops, OwnedBy, EntryMap
  <2> QED BY <1>0, <1>7, <2>3, <2>4
<1>8. ASSUME entry[i].child \in Children, of[entry[i].child] = i
      PROVE  Drops(of[entry[i].child], entry[i].child)
  BY <1>0, <1>8 DEF Drops, OwnedBy, Has
<1>9. of[entry[i].child] = i
  BY <1>0 DEF ChildrenFit, Has
<1>10. ASSUME NEW c \in Children, ExitEvent(c)
       PROVE  code[entry[i].child] = "norun"
  <2>1. CASE entry[i].child = c
    BY <1>0, <1>8, <1>9, <1>10, <2>1 DEF ExitEvent, Without, InState, EntryMap
  <2>2. CASE entry[i].child # c
    BY <1>7, <1>10, <2>2 DEF ExitEvent
  <2> QED BY <2>1, <2>2
<1>11. ASSUME NEW c \in Children, NEW tail \in BOOLEAN, CloseEvent(c, tail)
       PROVE  FALSE
  <2>1. CASE entry[i].child = c
    BY <1>0, <1>8, <1>9, <1>11, <2>1 DEF CloseEvent, Without, InState, EntryMap
  <2>2. CASE entry[i].child # c
    BY <1>7, <1>11, <2>2 DEF CloseEvent
  <2> QED BY <2>1, <2>2
<1>12. ASSUME NEW c \in Children, StreamError(c)
       PROVE  entry[i].child \in lost'
  <2>1. CASE entry[i].child = c
    BY <1>12, <2>1 DEF StreamError
  <2>2. CASE entry[i].child # c
    BY <1>7, <1>12, <2>2 DEF StreamError
  <2> QED BY <2>1, <2>2
<1>13. ASSUME NEW c \in Children, NEW how, WriteTranscript(c) \/ Die(c, how)
       PROVE  FALSE
  BY <1>0, <1>13 DEF WriteTranscript, Die
<1>14. CASE UNCHANGED vars
  BY <1>0, <1>14 DEF vars
<1> QED BY <1>2, <1>3, <1>4, <1>5, <1>6, <1>10, <1>11, <1>12, <1>13, <1>14
        DEF Next, Handler, Event, World

\* A session that ran never comes back as a failed launch by its child's exit.
THEOREM RanNeverFails == Spec => NoPhantomFailure
<1>1. ASSUME LaunchInv, [Next]_vars
      PROVE  \A i \in Ids :
               InState(entry, i, "running") /\ InState(entry', i, "failed")
                 /\ entry'[i].child = entry[i].child
                 => entry[i].child \in lost' \/ code[entry[i].child] = "norun"
  BY <1>1, PhantomStep
<1>2. LaunchInv /\ [Next]_vars =>
        [\A i \in Ids :
           InState(entry, i, "running") /\ InState(entry', i, "failed")
             /\ entry'[i].child = entry[i].child
             => entry[i].child \in lost' \/ code[entry[i].child] = "norun"]_vars
  BY <1>1
<1> QED BY <1>2, LaunchInvariance, PTL DEF Spec, NoPhantomFailure
=============================================================================
