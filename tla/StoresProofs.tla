---------------------------- MODULE StoresProofs ----------------------------
(***************************************************************************)
(* What is proved of what is written to outlive the process: the subagents *)
(* of a session, the ledger's file and the pinned rows, and of the bundle  *)
(* they run in with the launches.  For every set of sessions, children,    *)
(* agents and directories and every value of the bounds.                   *)
(***************************************************************************)
EXTENDS MCStores, LaunchStoreProofs, Integers, FiniteSetTheorems, FunctionTheorems, NaturalsInduction, WellFoundedInduction, TLAPS

\* A set of numbers has a least one.
LEMMA LeastNat == ASSUME NEW T, T \subseteq Nat, T # {} PROVE \E x \in T : \A y \in T : x <= y
<1> DEFINE R == OpToRel(<, Nat)
<1>1. IsWellFoundedOn(R, Nat)
  BY NatLessThanWellFounded
<1>2. \A x, y \in Nat : y < x => <<y, x>> \in R
  BY DEF OpToRel
<1> HIDE DEF R
<1>3. PICK x \in T : \A y \in T : ~(<<y, x>> \in R)
  BY <1>1, WFMin
<1>4. ASSUME NEW y \in T PROVE x <= y
  <2>1. x \in Nat /\ y \in Nat
    OBVIOUS
  <2>2. ~(y < x)
    BY <2>1, <1>2, <1>3
  <2> QED BY <2>1, <2>2
<1> QED BY <1>4

-----------------------------------------------------------------------------
(* The subagents of a session.  What a reader makes of the transcript is    *)
(* Prefix; Story is that of every record begun, and StoryInv what it is.     *)
\* A reader of the records from a byte on, record by record.
RunStep(x, from, recs, k) == IF 2 * (k - 1) < from THEN x ELSE ApplyEvent(x, recs[k])
IsRun(f, s, from, recs, n) == f = [k \in 0..n |-> IF k = 0 THEN s ELSE RunStep(f[k - 1], from, recs, k)]

LEMMA RunExists ==
  ASSUME NEW n \in Nat, NEW s, NEW from, NEW recs
  PROVE  \E f : IsRun(f, s, from, recs, n)
<1> DEFINE T == {m \in Nat : ~\E f : IsRun(f, s, from, recs, m)}
<1> SUFFICES ASSUME T # {} PROVE FALSE
  OBVIOUS
<1>1. PICK m \in T : \A y \in T : m <= y
  <2>1. T \subseteq Nat
    OBVIOUS
  <2> HIDE DEF T
  <2> QED BY <2>1, LeastNat
<1>2. m \in Nat /\ ~\E f : IsRun(f, s, from, recs, m)
  OBVIOUS
<1>3. CASE m = 0
  <2>1. IsRun([k \in 0..0 |-> s], s, from, recs, 0)
    BY DEF IsRun
  <2> QED BY <2>1, <1>2, <1>3
<1>4. CASE m # 0
  <2>1. m - 1 \in Nat /\ m - 1 \notin T
    <3>1. m - 1 \in Nat /\ ~(m <= m - 1)
      BY <1>2, <1>4
    <3> HIDE DEF T
    <3> QED BY <3>1, <1>1
  <2>2. PICK f : IsRun(f, s, from, recs, m - 1)
    BY <2>1
  <2> DEFINE g == [k \in 0..m |-> IF k = m THEN RunStep(f[m - 1], from, recs, m) ELSE f[k]]
             h == [k \in 0..m |-> IF k = 0 THEN s ELSE RunStep(g[k - 1], from, recs, k)]
  <2>3. ASSUME NEW k \in 0..m PROVE g[k] = h[k]
    <3>1. CASE k = m
      <4>1. g[k] = RunStep(f[m - 1], from, recs, m) /\ g[k - 1] = f[m - 1] /\ k # 0
        BY <3>1, <1>2, <1>4
      <4> QED BY <4>1, <3>1
    <3>2. CASE k # m
      <4>1. k \in 0..(m - 1) /\ g[k] = f[k] /\ (k # 0 => g[k - 1] = f[k - 1])
        BY <3>2, <1>2
      <4>2. f[k] = IF k = 0 THEN s ELSE RunStep(f[k - 1], from, recs, k)
        BY <4>1, <2>2 DEF IsRun
      <4> QED BY <4>1, <4>2
    <3> QED BY <3>1, <3>2
  <2>4. g = h
    <3>1. g = [k \in 0..m |-> g[k]] /\ h = [k \in 0..m |-> h[k]]
      OBVIOUS
    <3> HIDE DEF g, h
    <3> QED BY <2>3, <3>1
  <2>5. IsRun(g, s, from, recs, m)
    <3> HIDE DEF g
    <3> QED BY <2>4 DEF IsRun
  <2> QED BY <2>5, <1>2
<1> QED BY <1>3, <1>4

\* Two readers that start alike and find the same records end alike.
LEMMA RunsAgree ==
  ASSUME NEW n \in Nat, NEW m \in 0..n, NEW s, NEW from, NEW recs, NEW more, NEW f, NEW g,
         \A k \in 1..m : recs[k] = more[k],
         IsRun(f, s, from, recs, m), IsRun(g, s, from, more, n)
  PROVE  \A k \in 0..m : f[k] = g[k]
<1> DEFINE T == {k \in 0..m : f[k] # g[k]}
<1> SUFFICES ASSUME T # {} PROVE FALSE
  OBVIOUS
<1>1. PICK k \in T : \A y \in T : k <= y
  <2>1. T \subseteq Nat
    OBVIOUS
  <2> HIDE DEF T
  <2> QED BY <2>1, LeastNat
<1>2. k \in 0..m /\ f[k] # g[k] /\ k \in 0..n
  OBVIOUS
<1>3. /\ f[k] = IF k = 0 THEN s ELSE RunStep(f[k - 1], from, recs, k)
      /\ g[k] = IF k = 0 THEN s ELSE RunStep(g[k - 1], from, more, k)
  BY <1>2 DEF IsRun
<1>4. k # 0 => f[k - 1] = g[k - 1]
  <2> SUFFICES ASSUME k # 0 PROVE k - 1 \notin T
    BY <1>2
  <2>1. ~(k <= k - 1)
    BY <1>2
  <2> HIDE DEF T
  <2> QED BY <2>1, <1>1
<1> QED BY <1>2, <1>3, <1>4 DEF RunStep

\* What the first k records make of an empty scan.
Prefix(recs, k) == (CHOOSE f : IsRun(f, EmptyScan, 0, recs, k))[k]

LEMMA PrefixIs ==
  ASSUME NEW n \in Nat, NEW recs, NEW f, IsRun(f, EmptyScan, 0, recs, n), NEW k \in 0..n
  PROVE  f[k] = Prefix(recs, k)
<1> DEFINE g == CHOOSE h : IsRun(h, EmptyScan, 0, recs, k)
<1>1. IsRun(g, EmptyScan, 0, recs, k)
  BY RunExists
<1> HIDE DEF g
<1>2. k \in Nat /\ k \in 0..k
  OBVIOUS
<1>3. \A j \in 0..k : g[j] = f[j]
  BY <1>1, <1>2, RunsAgree
<1> QED BY <1>2, <1>3 DEF g, Prefix

LEMMA PrefixSteps ==
  ASSUME NEW recs
  PROVE  /\ Prefix(recs, 0) = EmptyScan
         /\ \A k \in Nat \ {0} : Prefix(recs, k) = ApplyEvent(Prefix(recs, k - 1), recs[k])
<1>1. Prefix(recs, 0) = EmptyScan
  <2>1. PICK f : IsRun(f, EmptyScan, 0, recs, 0)
    BY RunExists
  <2>2. f[0] = EmptyScan
    BY <2>1 DEF IsRun
  <2> QED BY <2>1, <2>2, PrefixIs
<1>2. ASSUME NEW k \in Nat \ {0} PROVE Prefix(recs, k) = ApplyEvent(Prefix(recs, k - 1), recs[k])
  <2>1. PICK f : IsRun(f, EmptyScan, 0, recs, k)
    BY RunExists
  <2>2. f[k] = RunStep(f[k - 1], 0, recs, k)
    BY <2>1 DEF IsRun
  <2>3. k \in 0..k /\ k - 1 \in 0..k /\ ~(2 * (k - 1) < 0)
    OBVIOUS
  <2>4. f[k] = Prefix(recs, k) /\ f[k - 1] = Prefix(recs, k - 1)
    BY <2>1, <2>3, PrefixIs
  <2> QED BY <2>2, <2>3, <2>4 DEF RunStep
<1> QED BY <1>1, <1>2

LEMMA PrefixStands ==
  ASSUME NEW n \in Nat, NEW recs, NEW more, \A k \in 1..n : recs[k] = more[k]
  PROVE  Prefix(recs, n) = Prefix(more, n)
<1>1. PICK f : IsRun(f, EmptyScan, 0, recs, n)
  BY RunExists
<1>2. PICK g : IsRun(g, EmptyScan, 0, more, n)
  BY RunExists
<1>3. n \in 0..n
  OBVIOUS
<1>4. f[n] = g[n]
  BY <1>1, <1>2, <1>3, RunsAgree
<1> QED BY <1>1, <1>2, <1>3, <1>4, PrefixIs

\* A reader that goes on where it stopped has read the whole.
LEMMA GoesOn ==
  ASSUME NEW n \in Nat, NEW recs, NEW k \in 0..n, NEW f, IsRun(f, Prefix(recs, k), 2 * k, recs, n)
  PROVE  f[n] = Prefix(recs, n)
<1> DEFINE T == {j \in 0..n : f[j] # (IF j <= k THEN Prefix(recs, k) ELSE Prefix(recs, j))}
<1>0. ASSUME T # {} PROVE FALSE
  <2>1. PICK j \in T : \A y \in T : j <= y
    <3>1. T \subseteq Nat
      OBVIOUS
    <3> HIDE DEF T
    <3> QED BY <3>1, <1>0, LeastNat
  <2>2. j \in 0..n /\ f[j] # (IF j <= k THEN Prefix(recs, k) ELSE Prefix(recs, j))
    OBVIOUS
  <2>3. f[j] = IF j = 0 THEN Prefix(recs, k) ELSE RunStep(f[j - 1], 2 * k, recs, j)
    BY <2>2 DEF IsRun
  <2>4. j # 0 => j - 1 \in 0..n /\ f[j - 1] = (IF j - 1 <= k THEN Prefix(recs, k) ELSE Prefix(recs, j - 1))
    <3> SUFFICES ASSUME j # 0 PROVE j - 1 \in 0..n /\ j - 1 \notin T
      OBVIOUS
    <3>1. j - 1 \in 0..n /\ ~(j <= j - 1)
      BY <2>2
    <3> HIDE DEF T
    <3> QED BY <3>1, <2>1
  <2> HIDE DEF T
  <2>5. CASE j <= k
    <3>1. j # 0 => 2 * (j - 1) < 2 * k /\ j - 1 <= k
      BY <2>2, <2>5
    <3> QED BY <3>1, <2>2, <2>3, <2>4, <2>5 DEF RunStep
  <2>6. CASE ~(j <= k)
    <3>1. j # 0 /\ ~(2 * (j - 1) < 2 * k) /\ j \in Nat \ {0}
      BY <2>2, <2>6
    <3>2. f[j - 1] = Prefix(recs, j - 1)
      <4>1. CASE j - 1 <= k
        <5>1. j - 1 = k
          BY <4>1, <2>2, <2>6
        <5> QED BY <5>1, <2>4, <3>1
      <4>2. CASE ~(j - 1 <= k)
        BY <4>2, <2>4, <3>1
      <4> QED BY <4>1, <4>2
    <3>3. f[j] = ApplyEvent(Prefix(recs, j - 1), recs[j])
      BY <3>1, <3>2, <2>3 DEF RunStep
    <3> QED BY <3>1, <3>3, <2>2, <2>6, PrefixSteps
  <2> QED BY <2>5, <2>6
<1>1. n \in 0..n /\ f[n] = (IF n <= k THEN Prefix(recs, k) ELSE Prefix(recs, n))
  BY <1>0
<1>2. n <= k => n = k
  OBVIOUS
<1> HIDE DEF T
<1> QED BY <1>1, <1>2

LEMMA ScannedIs ==
  ASSUME Len(recorded) \in Nat, NEW k \in 0..Len(recorded)
  PROVE  Scanned(Prefix(recorded, k), 2 * k) = Prefix(recorded, Len(recorded))
<1> DEFINE s == Prefix(recorded, k)
           from == 2 * k
           n == Len(recorded)
           g == CHOOSE f : IsRun(f, s, from, recorded, n)
<1>1. IsRun(g, s, from, recorded, n)
  BY RunExists
<1>2. Scanned(s, from) = g[n]
  BY DEF Scanned, IsRun, RunStep
<1> HIDE DEF g
<1>3. g[n] = Prefix(recorded, n)
  BY <1>1, GoesOn
<1> QED BY <1>2, <1>3

-----------------------------------------------------------------------------
\* What an event makes of a scan, field by field.
RowType == [call : Nat, agent : Agents \cup {NoAgent}, origin : Nat, ended : BOOLEAN]
ScanType == [launches : Seq(RowType), byToolUseId : SUBSET Nat, byAgentId : [Agents -> Nat], sends : SUBSET Nat, seen : SUBSET Nat]
ScanOK(s) == s \in ScanType /\ s.byToolUseId \cup s.sends \subseteq s.seen /\ \A a \in Agents : s.byAgentId[a] \in {0} \cup s.seen

LEMMA RecordFields == \A r \in Records : r.what \in Whats /\ r.call \in Nat \ {0} /\ r.call \in Calls /\ r.agent \in Agents \cup {NoAgent}
BY LedgerOfAgents DEF Records, Calls

LEMMA ScanFields ==
  ASSUME NEW s \in ScanType
  PROVE  /\ s.launches \in Seq(RowType) /\ Len(s.launches) \in Nat /\ DOMAIN s.launches = 1..Len(s.launches)
         /\ s.byToolUseId \subseteq Nat /\ s.byAgentId \in [Agents -> Nat] /\ s.sends \subseteq Nat /\ s.seen \subseteq Nat
         /\ \A i \in 1..Len(s.launches) :
              /\ s.launches[i] \in RowType /\ s.launches[i].call \in Nat /\ s.launches[i].agent \in Agents \cup {NoAgent}
              /\ s.launches[i].origin \in Nat /\ s.launches[i].ended \in BOOLEAN
<1>1. s.launches \in Seq(RowType)
  BY DEF ScanType
<1>2. \A i \in 1..Len(s.launches) : s.launches[i] \in RowType
  BY <1>1
<1> QED BY <1>1, <1>2 DEF ScanType, RowType

LEMMA EmptyIsScan == ScanOK(EmptyScan)
<1>1. <<>> \in Seq(RowType)
  OBVIOUS
<1> QED BY <1>1 DEF ScanOK, ScanType, EmptyScan

\* A row goes behind the others.
LEMMA AppendsRow ==
  ASSUME NEW s \in ScanType, NEW row \in RowType, NEW l, l = Append(s.launches, row)
  PROVE  /\ l \in Seq(RowType) /\ Len(l) = Len(s.launches) + 1 /\ l[Len(l)] = row
         /\ \A i \in 1..Len(s.launches) : l[i] = s.launches[i]
<1>1. s.launches \in Seq(RowType) /\ Len(s.launches) \in Nat
  BY ScanFields
<1> QED BY <1>1

\* The rows of a call get an agent and an end.
RowsNamed(l, m, c, a, over) ==
  /\ m \in Seq(RowType) /\ Len(m) = Len(l)
  /\ \A i \in 1..Len(l) :
       /\ m[i].call = l[i].call /\ m[i].origin = l[i].origin
       /\ (l[i].call = c => m[i].agent = a /\ m[i].ended = over)
       /\ (l[i].call # c => m[i] = l[i])
LEMMA WithRowIs ==
  ASSUME NEW s \in ScanType, NEW c, NEW a \in Agents \cup {NoAgent}, NEW over \in BOOLEAN
  PROVE  /\ WithRow(s, c, a, over) \in ScanType
         /\ RowsNamed(s.launches, WithRow(s, c, a, over).launches, c, a, over)
         /\ WithRow(s, c, a, over).byToolUseId = s.byToolUseId /\ WithRow(s, c, a, over).byAgentId = s.byAgentId
         /\ WithRow(s, c, a, over).sends = s.sends /\ WithRow(s, c, a, over).seen = s.seen
<1> DEFINE l == s.launches
           m == [i \in DOMAIN l |-> IF l[i].call = c THEN [l[i] EXCEPT !.agent = a, !.ended = over] ELSE l[i]]
           w == WithRow(s, c, a, over)
<1>1. w = [s EXCEPT !.launches = m]
  BY DEF WithRow
<1>2. l \in Seq(RowType) /\ DOMAIN l = 1..Len(l) /\ Len(l) \in Nat /\ \A i \in 1..Len(l) : l[i] \in RowType
  BY ScanFields
<1>3. \A i \in 1..Len(l) :
        /\ m[i] \in RowType /\ m[i].call = l[i].call /\ m[i].origin = l[i].origin
        /\ (l[i].call = c => m[i].agent = a /\ m[i].ended = over) /\ (l[i].call # c => m[i] = l[i])
  BY <1>2 DEF RowType
<1>4. m \in [1..Len(l) -> RowType]
  BY <1>2, <1>3
<1>5. m \in Seq(RowType) /\ Len(m) = Len(l)
  <2> HIDE DEF m
  <2> QED BY <1>2, <1>4
<1>6. RowsNamed(l, m, c, a, over)
  <2> HIDE DEF m, l
  <2> QED BY <1>3, <1>5 DEF RowsNamed
<1>7. w \in ScanType /\ w.launches = m /\ w.byToolUseId = s.byToolUseId /\ w.byAgentId = s.byAgentId /\ w.sends = s.sends /\ w.seen = s.seen
  <2> HIDE DEF m, w
  <2> QED BY <1>1, <1>5 DEF ScanType
<1> HIDE DEF m, l, w
<1> QED BY <1>6, <1>7 DEF w, l

LEMMA LaunchIs ==
  ASSUME NEW s \in ScanType, NEW r \in Records
  PROVE  /\ Launch(s, r) \in ScanType
         /\ Launch(s, r).launches = Append(s.launches, Row(r.call, NoAgent, r.call)) /\ Row(r.call, NoAgent, r.call) \in RowType
         /\ Launch(s, r).byToolUseId = s.byToolUseId \cup {r.call} /\ Launch(s, r).seen = s.seen \cup {r.call}
         /\ Launch(s, r).byAgentId = s.byAgentId /\ Launch(s, r).sends = s.sends
<1>1. Row(r.call, NoAgent, r.call) \in RowType
  BY RecordFields DEF Row, RowType
<1>2. Append(s.launches, Row(r.call, NoAgent, r.call)) \in Seq(RowType) /\ s.byToolUseId \cup {r.call} \subseteq Nat /\ s.seen \cup {r.call} \subseteq Nat
  BY <1>1, AppendsRow, RecordFields, ScanFields
<1> QED BY <1>1, <1>2 DEF Launch, ScanType

LEMMA SendIs ==
  ASSUME NEW s \in ScanType, NEW r \in Records
  PROVE  /\ Send(s, r) \in ScanType /\ Send(s, r).launches = s.launches /\ Send(s, r).byToolUseId = s.byToolUseId
         /\ Send(s, r).byAgentId = s.byAgentId /\ Send(s, r).sends = s.sends \cup {r.call} /\ Send(s, r).seen = s.seen \cup {r.call}
<1>1. s.sends \cup {r.call} \subseteq Nat /\ s.seen \cup {r.call} \subseteq Nat
  BY RecordFields, ScanFields
<1> QED BY <1>1 DEF Send, ScanType

LEMMA LaunchResultIs ==
  ASSUME NEW s \in ScanType, NEW r \in Records
  PROVE  LET t == LaunchResult(s, r) IN
         /\ t \in ScanType /\ RowsNamed(s.launches, t.launches, r.call, r.agent, r.what = "sync")
         /\ t.byToolUseId = s.byToolUseId \ {r.call} /\ t.sends = s.sends /\ t.seen = s.seen
         /\ t.byAgentId = [s.byAgentId EXCEPT ![r.agent] = IF r.what = "ack" /\ @ = 0 THEN r.call ELSE @]
<1> DEFINE n == WithRow(s, r.call, r.agent, r.what = "sync")
           b == [s.byAgentId EXCEPT ![r.agent] = IF r.what = "ack" /\ @ = 0 THEN r.call ELSE @]
<1>1. /\ n \in ScanType /\ RowsNamed(s.launches, n.launches, r.call, r.agent, r.what = "sync")
      /\ n.byToolUseId = s.byToolUseId /\ n.byAgentId = s.byAgentId /\ n.sends = s.sends /\ n.seen = s.seen
  BY WithRowIs, RecordFields
<1>2. b \in [Agents -> Nat]
  BY RecordFields, ScanFields
<1>3. LaunchResult(s, r) = [n EXCEPT !.byToolUseId = s.byToolUseId \ {r.call}, !.byAgentId = b]
  <2>1. LaunchResult(s, r) = [n EXCEPT !.byToolUseId = n.byToolUseId \ {r.call}, !.byAgentId = [n.byAgentId EXCEPT ![r.agent] = IF r.what = "ack" /\ @ = 0 THEN r.call ELSE @]]
    BY <1>1 DEF LaunchResult, ScanType
  <2> HIDE DEF n
  <2> QED BY <2>1, <1>1
<1>4. s.byToolUseId \ {r.call} \subseteq Nat
  BY ScanFields
<1> HIDE DEF n, b
<1>5. /\ LaunchResult(s, r) \in ScanType /\ LaunchResult(s, r).launches = n.launches /\ LaunchResult(s, r).byToolUseId = s.byToolUseId \ {r.call}
      /\ LaunchResult(s, r).byAgentId = b /\ LaunchResult(s, r).sends = n.sends /\ LaunchResult(s, r).seen = n.seen
  BY <1>1, <1>2, <1>3, <1>4 DEF ScanType
<1> QED BY <1>1, <1>5 DEF b

\* The launch row of an agent.
FirstOf(s, a) == {i \in 1..Len(s.launches) : s.launches[i].agent = a /\ s.launches[i].origin = s.launches[i].call}
LEMMA OriginIs ==
  ASSUME NEW s \in ScanType, NEW a
  PROVE  /\ OriginOf(s, a) \in Nat
         /\ FirstOf(s, a) # {} => \E i \in FirstOf(s, a) : OriginOf(s, a) = s.launches[i].call
<1>1. DOMAIN s.launches = 1..Len(s.launches) /\ Len(s.launches) \in Nat /\ \A i \in 1..Len(s.launches) : s.launches[i].call \in Nat
  BY ScanFields
<1> DEFINE its == FirstOf(s, a)
           i == CHOOSE i \in its : \A j \in its : i <= j
<1>2. OriginOf(s, a) = IF its = {} THEN 0 ELSE s.launches[i].call
  BY <1>1 DEF OriginOf, FirstOf
<1>3. its # {} => i \in its
  <2> SUFFICES ASSUME its # {} PROVE \E k \in its : \A j \in its : k <= j
    OBVIOUS
  <2>1. its \subseteq Nat
    BY DEF FirstOf
  <2> HIDE DEF its
  <2> QED BY <2>1, LeastNat
<1>4. its \subseteq 1..Len(s.launches)
  BY DEF FirstOf
<1> HIDE DEF i, its
<1>5. OriginOf(s, a) \in Nat /\ (its # {} => \E j \in its : OriginOf(s, a) = s.launches[j].call)
  BY <1>1, <1>2, <1>3, <1>4
<1> QED BY <1>5 DEF its

LEMMA SendResultIs ==
  ASSUME NEW s \in ScanType, NEW r \in Records
  PROVE  LET t == SendResult(s, r)
             row == Row(r.call, r.agent, OriginOf(s, r.agent)) IN
         /\ t \in ScanType /\ t.byToolUseId = s.byToolUseId /\ t.sends = s.sends \ {r.call} /\ t.seen = s.seen
         /\ r.what = "resumed" => /\ row \in RowType /\ t.launches = Append(s.launches, row)
                                 /\ t.byAgentId = [s.byAgentId EXCEPT ![r.agent] = r.call]
         /\ r.what # "resumed" => t.launches = s.launches /\ t.byAgentId = s.byAgentId
<1> DEFINE heard == [s EXCEPT !.sends = @ \ {r.call}]
           row == Row(r.call, r.agent, OriginOf(s, r.agent))
           l == Append(s.launches, row)
           b == [s.byAgentId EXCEPT ![r.agent] = r.call]
<1>1. s.sends \ {r.call} \subseteq Nat
  BY ScanFields
<1>2. /\ heard \in ScanType /\ heard.launches = s.launches /\ heard.byToolUseId = s.byToolUseId /\ heard.byAgentId = s.byAgentId
      /\ heard.sends = s.sends \ {r.call} /\ heard.seen = s.seen
  BY <1>1 DEF ScanType
<1>3. row \in RowType
  BY OriginIs, RecordFields DEF Row, RowType
<1>4. l \in Seq(RowType) /\ b \in [Agents -> Nat]
  BY <1>3, AppendsRow, ScanFields, RecordFields
<1>5. r.what # "resumed" => SendResult(s, r) = heard
  BY DEF SendResult
<1>6. r.what = "resumed" => SendResult(s, r) = [heard EXCEPT !.launches = l, !.byAgentId = b]
  <2>1. r.what = "resumed" => SendResult(s, r) = [heard EXCEPT !.launches = Append(heard.launches, row), !.byAgentId = [heard.byAgentId EXCEPT ![r.agent] = r.call]]
    BY <1>2 DEF SendResult, TakesOver, ScanType
  <2> HIDE DEF heard, row
  <2> QED BY <2>1, <1>2
<1> HIDE DEF heard, row, l, b
<1>7. CASE r.what = "resumed"
  <2>1. /\ SendResult(s, r) \in ScanType /\ SendResult(s, r).launches = l /\ SendResult(s, r).byAgentId = b
        /\ SendResult(s, r).byToolUseId = heard.byToolUseId /\ SendResult(s, r).sends = heard.sends /\ SendResult(s, r).seen = heard.seen
    BY <1>2, <1>4, <1>6, <1>7 DEF ScanType
  <2> QED BY <2>1, <1>2, <1>3, <1>7 DEF l, b, row
<1>8. CASE r.what # "resumed"
  BY <1>2, <1>5, <1>8
<1> QED BY <1>7, <1>8

LEMMA NotifyIs ==
  ASSUME NEW s \in ScanType, NEW r \in Records
  PROVE  LET t == Notify(s, r) IN
         /\ t \in ScanType /\ RowsNamed(s.launches, t.launches, s.byAgentId[r.agent], r.agent, TRUE)
         /\ t.byToolUseId = s.byToolUseId /\ t.sends = s.sends /\ t.seen = s.seen
         /\ t.byAgentId = [s.byAgentId EXCEPT ![r.agent] = 0]
<1> DEFINE n == WithRow(s, s.byAgentId[r.agent], r.agent, TRUE)
           b == [s.byAgentId EXCEPT ![r.agent] = 0]
<1>1. /\ n \in ScanType /\ RowsNamed(s.launches, n.launches, s.byAgentId[r.agent], r.agent, TRUE)
      /\ n.byToolUseId = s.byToolUseId /\ n.byAgentId = s.byAgentId /\ n.sends = s.sends /\ n.seen = s.seen
  BY WithRowIs, RecordFields
<1>2. b \in [Agents -> Nat]
  BY RecordFields, ScanFields
<1>3. Notify(s, r) = [n EXCEPT !.byAgentId = b]
  <2>1. Notify(s, r) = [n EXCEPT !.byAgentId = [n.byAgentId EXCEPT ![r.agent] = 0]]
    BY <1>1 DEF Notify, ScanType
  <2> HIDE DEF n
  <2> QED BY <2>1, <1>1
<1> HIDE DEF n, b
<1>4. /\ Notify(s, r) \in ScanType /\ Notify(s, r).launches = n.launches /\ Notify(s, r).byToolUseId = n.byToolUseId
      /\ Notify(s, r).byAgentId = b /\ Notify(s, r).sends = n.sends /\ Notify(s, r).seen = n.seen
  BY <1>1, <1>2, <1>3 DEF ScanType
<1> QED BY <1>1, <1>4 DEF b

\* Which of them an event is.
LEMMA EventIs ==
  ASSUME NEW s, NEW r
  PROVE  /\ r.what = "launch" => ApplyEvent(s, r) = IF r.call \in s.seen THEN s ELSE Launch(s, r)
         /\ r.what = "send" => ApplyEvent(s, r) = IF r.call \in s.seen THEN s ELSE Send(s, r)
         /\ r.what \in {"sync", "ack"} => ApplyEvent(s, r) = IF r.call \in s.byToolUseId THEN LaunchResult(s, r) ELSE s
         /\ r.what \in {"resumed", "told"} => ApplyEvent(s, r) = IF r.call \in s.sends THEN SendResult(s, r) ELSE s
         /\ r.what = "completed" => ApplyEvent(s, r) = IF s.byAgentId[r.agent] # 0 THEN Notify(s, r) ELSE s
         /\ r.what = "failed" => ApplyEvent(s, r) = s
BY DEF ApplyEvent, SeenCall

LEMMA ApplyKeepsScan == ASSUME NEW s, ScanOK(s), NEW r \in Records PROVE ScanOK(ApplyEvent(s, r))
<1> DEFINE t == ApplyEvent(s, r)
<1>1. s \in ScanType /\ s.byAgentId \in [Agents -> Nat] /\ r.agent \in Agents \cup {NoAgent} /\ r.call \in Nat
  BY ScanFields, RecordFields DEF ScanOK
<1>2. CASE r.what = "launch"
  BY <1>1, <1>2, EventIs, LaunchIs DEF ScanOK
<1>3. CASE r.what = "send"
  BY <1>1, <1>3, EventIs, SendIs DEF ScanOK
<1>4. CASE r.what \in {"sync", "ack"}
  <2> SUFFICES ASSUME r.call \in s.byToolUseId PROVE ScanOK(LaunchResult(s, r))
    BY <1>4, EventIs
  <2> DEFINE u == LaunchResult(s, r)
  <2>1. /\ u \in ScanType /\ u.byToolUseId = s.byToolUseId \ {r.call} /\ u.sends = s.sends /\ u.seen = s.seen
        /\ u.byAgentId = [s.byAgentId EXCEPT ![r.agent] = IF r.what = "ack" /\ @ = 0 THEN r.call ELSE @]
    BY <1>1, LaunchResultIs
  <2> HIDE DEF u
  <2>2. ScanOK(u)
    BY <2>1, <1>1 DEF ScanOK
  <2> QED BY <2>2 DEF u
<1>5. CASE r.what \in {"resumed", "told"}
  <2> SUFFICES ASSUME r.call \in s.sends PROVE ScanOK(SendResult(s, r))
    BY <1>5, EventIs
  <2> DEFINE u == SendResult(s, r)
  <2>1. /\ u \in ScanType /\ u.byToolUseId = s.byToolUseId /\ u.sends = s.sends \ {r.call} /\ u.seen = s.seen
        /\ u.byAgentId \in {s.byAgentId, [s.byAgentId EXCEPT ![r.agent] = r.call]}
    BY <1>1, SendResultIs
  <2> HIDE DEF u
  <2>2. ScanOK(u)
    BY <2>1, <1>1 DEF ScanOK
  <2> QED BY <2>2 DEF u
<1>6. CASE r.what = "completed"
  <2> DEFINE u == Notify(s, r)
  <2>1. /\ u \in ScanType /\ u.byToolUseId = s.byToolUseId /\ u.sends = s.sends /\ u.seen = s.seen
        /\ u.byAgentId = [s.byAgentId EXCEPT ![r.agent] = 0]
    BY <1>1, NotifyIs
  <2>2. t = s \/ t = u
    BY <1>6, EventIs
  <2> HIDE DEF u
  <2>3. ScanOK(u)
    BY <2>1, <1>1 DEF ScanOK
  <2> QED BY <2>2, <2>3
<1>7. CASE r.what = "failed"
  BY <1>7, EventIs
<1> QED BY <1>2, <1>3, <1>4, <1>5, <1>6, <1>7, RecordFields DEF Whats

LEMMA PrefixOK ==
  ASSUME NEW recs \in Seq(Records), NEW k \in 0..Len(recs)
  PROVE  ScanOK(Prefix(recs, k))
<1> DEFINE T == {j \in 0..Len(recs) : ~ScanOK(Prefix(recs, j))}
<1> SUFFICES ASSUME T # {} PROVE FALSE
  OBVIOUS
<1>1. PICK j \in T : \A y \in T : j <= y
  <2>1. T \subseteq Nat
    OBVIOUS
  <2> HIDE DEF T
  <2> QED BY <2>1, LeastNat
<1>2. j \in 0..Len(recs) /\ ~ScanOK(Prefix(recs, j))
  OBVIOUS
<1>3. j # 0
  BY <1>2, PrefixSteps, EmptyIsScan
<1>4. j - 1 \in 0..Len(recs) /\ ~(j <= j - 1) /\ j \in Nat \ {0} /\ recs[j] \in Records
  BY <1>2, <1>3
<1>5. ScanOK(Prefix(recs, j - 1))
  <2>1. j - 1 \notin T
    <3> HIDE DEF T
    <3> QED BY <1>1, <1>4
  <2> QED BY <2>1, <1>4
<1> QED BY <1>2, <1>4, <1>5, PrefixSteps, ApplyKeepsScan

-----------------------------------------------------------------------------
\* The session, the file and its reader.
SessionOK ==
  /\ issued \in 0..MaxCalls /\ openCalls \subseteq Calls \X {"launch", "send"} /\ alive \subseteq Agents
  /\ began \subseteq Calls /\ ended \subseteq began
  /\ runOf \in [Agents -> 0..MaxCalls] /\ launchOf \in [Agents -> 0..MaxCalls]
  /\ \A a \in alive : runOf[a] \in began
FileOK ==
  /\ recorded \in Seq(Records) /\ Len(recorded) <= MaxAgentRecords
  /\ half \in Records \cup {NoRecord} /\ (half # NoRecord => Len(recorded) < MaxAgentRecords)
\* What was read makes the scan, unless the file was emptied, and then it is
\* shorter than what was read.
ReadOK ==
  /\ readTo \in 0..(2 * MaxAgentRecords + 1) /\ partial = readTo % 2 /\ emptied \in BOOLEAN
  /\ ScanOK(scan) /\ jobs = scan.launches
  /\ IF emptied THEN FileSize < readTo ELSE readTo <= FileSize /\ scan = Prefix(recorded, readTo \div 2)
AgentReads == SessionOK /\ FileOK /\ ReadOK

LEMMA FileSizeIs ==
  ASSUME FileOK
  PROVE  /\ Len(recorded) \in Nat /\ MaxAgentRecords \in Nat
         /\ FileSize \in 0..(2 * MaxAgentRecords) /\ FileSize \div 2 = Len(recorded)
         /\ FileSize = 2 * Len(recorded) + (IF half = NoRecord THEN 0 ELSE 1)
BY LedgerOfAgents DEF FileOK, FileSize

LEMMA AgentStart == ASSUME AgentInit PROVE AgentReads
<1>1. SessionOK
  BY LedgerOfAgents DEF AgentInit, SessionOK
<1>2. FileOK
  BY LedgerOfAgents DEF AgentInit, FileOK
<1>3. ReadOK
  <2>1. FileSize = 0 /\ 0 \div 2 = 0 /\ 0 % 2 = 0
    BY <1>2, FileSizeIs DEF AgentInit
  <2>2. EmptyScan.launches = <<>>
    BY DEF EmptyScan
  <2>3. Prefix(recorded, 0) = EmptyScan /\ ScanOK(scan)
    BY EmptyIsScan, PrefixSteps DEF AgentInit
  <2>4. readTo = 0 /\ partial = 0 /\ emptied = FALSE /\ jobs = scan.launches /\ scan = EmptyScan /\ MaxAgentRecords \in Nat
    BY <2>2, LedgerOfAgents DEF AgentInit
  <2>5. readTo \in 0..(2 * MaxAgentRecords + 1) /\ partial = readTo % 2 /\ readTo <= FileSize /\ readTo \div 2 = 0
    BY <2>1, <2>4
  <2>6. scan = Prefix(recorded, readTo \div 2)
    BY <2>3, <2>4, <2>5
  <2> QED BY <2>3, <2>4, <2>5, <2>6 DEF ReadOK
<1> QED BY <1>1, <1>2, <1>3 DEF AgentReads

\* Claude Code begins a record.
LEMMA BeginsKeeps ==
  ASSUME FileOK, ReadOK, NEW r \in Records, Begins(r)
  PROVE  FileOK' /\ ReadOK'
<1>1. /\ half = NoRecord /\ half' = r /\ r # NoRecord /\ Len(recorded) < MaxAgentRecords /\ (emptied => FileSize + 1 < readTo)
      /\ UNCHANGED <<recorded, emptied, scan, readTo, partial, jobs>>
  BY HalfIsNone DEF Begins, readerOfAgents
<1>2. FileOK'
  BY <1>1 DEF FileOK
<1>3. FileSize' = FileSize + 1 /\ FileSize \in Nat /\ readTo \in Nat
  BY <1>1, FileSizeIs, LedgerOfAgents DEF FileSize, ReadOK
<1>4. ReadOK'
  BY <1>1, <1>3 DEF ReadOK
<1> QED BY <1>2, <1>4

LEMMA EndsKeeps == ASSUME FileOK, ReadOK, Ends PROVE FileOK' /\ ReadOK'
<1>1. /\ half # NoRecord /\ half \in Records /\ recorded' = Append(recorded, half) /\ half' = NoRecord
      /\ (emptied => FileSize + 1 < readTo) /\ UNCHANGED <<emptied, scan, readTo, partial, jobs>>
  BY DEF Ends, readerOfAgents, FileOK
<1>2. /\ recorded \in Seq(Records) /\ Len(recorded) \in Nat /\ Len(recorded') = Len(recorded) + 1 /\ recorded' \in Seq(Records)
      /\ \A k \in 1..Len(recorded) : recorded'[k] = recorded[k]
  BY <1>1 DEF FileOK
<1>3. FileOK'
  BY <1>1, <1>2, LedgerOfAgents DEF FileOK
<1>4. FileSize' = FileSize + 1 /\ FileSize \in Nat /\ readTo \in Nat
  BY <1>1, <1>2, FileSizeIs, LedgerOfAgents DEF FileSize, ReadOK
<1>5. readTo <= FileSize => Prefix(recorded', readTo \div 2) = Prefix(recorded, readTo \div 2)
  <2> SUFFICES ASSUME readTo <= FileSize PROVE Prefix(recorded', readTo \div 2) = Prefix(recorded, readTo \div 2)
    OBVIOUS
  <2>1. readTo \div 2 \in 0..Len(recorded)
    BY <1>4, FileSizeIs
  <2>2. \A k \in 1..(readTo \div 2) : recorded'[k] = recorded[k]
    BY <2>1, <1>2
  <2> DEFINE n == readTo \div 2
  <2> HIDE DEF n
  <2>3. n \in Nat /\ \A k \in 1..n : recorded'[k] = recorded[k]
    BY <2>1, <2>2 DEF n
  <2>4. Prefix(recorded', n) = Prefix(recorded, n)
    BY <2>3, PrefixStands
  <2> QED BY <2>4 DEF n
<1>6. ReadOK'
  BY <1>1, <1>4, <1>5 DEF ReadOK
<1> QED BY <1>3, <1>6

LEMMA EmptiedKeeps == ASSUME FileOK, ReadOK, Emptied PROVE FileOK' /\ ReadOK'
<1>1. readTo > 0 /\ recorded' = <<>> /\ half' = NoRecord /\ emptied' = TRUE /\ UNCHANGED <<scan, readTo, partial, jobs>>
  BY DEF Emptied, readerOfAgents
<1>2. FileOK' /\ FileSize' = 0
  BY <1>1, LedgerOfAgents DEF FileOK, FileSize
<1>3. ReadOK'
  BY <1>1, <1>2 DEF ReadOK
<1> QED BY <1>2, <1>3

\* A poll has read the whole file, in whatever parts.
LEMMA PollAgentsKeeps ==
  ASSUME FileOK, ReadOK, PollAgents
  PROVE  FileOK' /\ ReadOK' /\ scan' = Prefix(recorded, Len(recorded)) /\ Scanned(EmptyScan, 0) = Prefix(recorded, Len(recorded))
<1>1. /\ scan' = (IF Truncated THEN Scanned(EmptyScan, 0) ELSE Scanned(scan, ReadsFrom))
      /\ readTo' = FileSize /\ partial' = FileSize % 2 /\ jobs' = scan'.launches /\ emptied' = FALSE /\ UNCHANGED <<recorded, half>>
  BY DEF PollAgents
<1>2. Len(recorded) \in Nat /\ FileSize \in 0..(2 * MaxAgentRecords) /\ FileSize \div 2 = Len(recorded) /\ recorded \in Seq(Records) /\ MaxAgentRecords \in Nat
  BY FileSizeIs DEF FileOK
<1>3. Scanned(EmptyScan, 0) = Prefix(recorded, Len(recorded))
  <2>1. 0 \in 0..Len(recorded) /\ 2 * 0 = 0
    BY <1>2
  <2>2. Scanned(Prefix(recorded, 0), 2 * 0) = Prefix(recorded, Len(recorded))
    BY <2>1, <1>2, ScannedIs
  <2> QED BY <2>1, <2>2, PrefixSteps
<1>4. ~Truncated => Scanned(scan, ReadsFrom) = Prefix(recorded, Len(recorded))
  <2> SUFFICES ASSUME ~Truncated PROVE Scanned(scan, ReadsFrom) = Prefix(recorded, Len(recorded))
    OBVIOUS
  <2> DEFINE k == readTo \div 2
  <2>1. readTo \in Nat /\ readTo <= FileSize /\ scan = Prefix(recorded, k)
    BY <1>2 DEF Truncated, ReadOK
  <2>2. k \in 0..Len(recorded) /\ ReadsFrom = 2 * k
    <3>1. readTo - (readTo % 2) = 2 * (readTo \div 2)
      <4>1. PICK q \in Nat : readTo = 2 * q \/ readTo = 2 * q + 1
        BY <2>1, readTo \div 2 \in Nat, 2 * (readTo \div 2) <= readTo, readTo < 2 * (readTo \div 2) + 2
      <4>2. readTo \div 2 = q /\ readTo % 2 = readTo - 2 * q
        BY <2>1, <4>1
      <4>3. readTo - (readTo - 2 * q) = 2 * q
        BY <2>1
      <4> QED BY <4>2, <4>3
    <3>2. readTo \div 2 \in Nat /\ readTo \div 2 <= FileSize \div 2
      BY <2>1, <1>2
    <3> QED BY <3>1, <3>2, <1>2 DEF ReadsFrom, ReadOK
  <2> HIDE DEF k
  <2> QED BY <2>1, <2>2, <1>2, ScannedIs
<1>5. scan' = Prefix(recorded, Len(recorded))
  BY <1>1, <1>3, <1>4
<1>6. FileOK' /\ FileSize' = FileSize
  BY <1>1 DEF FileOK, FileSize
<1>7. ScanOK(scan')
  <2>1. Len(recorded) \in 0..Len(recorded)
    BY <1>2
  <2> QED BY <2>1, <1>2, <1>5, PrefixOK
<1>8. ReadOK'
  <2>1. ScanOK(scan)' /\ jobs' = scan'.launches /\ emptied' = FALSE
    BY <1>1, <1>7 DEF ScanOK
  <2>2. readTo' \in 0..(2 * MaxAgentRecords + 1) /\ partial' = readTo' % 2 /\ readTo' <= FileSize'
    BY <1>1, <1>2, <1>6
  <2>3. scan' = Prefix(recorded', readTo' \div 2)
    BY <1>1, <1>2, <1>5
  <2> QED BY <2>1, <2>2, <2>3 DEF ReadOK
<1> QED BY <1>3, <1>5, <1>6, <1>8

LEMMA DropKeeps == ASSUME FileOK, ReadOK, DropEntry PROVE FileOK' /\ ReadOK'
<1>1. /\ scan' = EmptyScan /\ readTo' = 0 /\ partial' = 0 /\ jobs' = <<>> /\ emptied' = FALSE /\ UNCHANGED <<recorded, half>>
  BY DEF DropEntry
<1>2. FileOK' /\ FileSize' = FileSize /\ FileSize \in Nat
  BY <1>1, FileSizeIs, LedgerOfAgents DEF FileOK, FileSize
<1>3. Prefix(recorded, 0) = EmptyScan /\ EmptyScan.launches = <<>> /\ ScanOK(EmptyScan)
  BY PrefixSteps, EmptyIsScan DEF EmptyScan
<1>4. ScanOK(scan)' /\ jobs' = scan'.launches /\ emptied' = FALSE
  BY <1>1, <1>3 DEF ScanOK
<1>5. readTo' \in 0..(2 * MaxAgentRecords + 1) /\ partial' = readTo' % 2 /\ readTo' <= FileSize' /\ readTo' \div 2 = 0
  BY <1>1, <1>2, LedgerOfAgents
<1>6. scan' = Prefix(recorded', readTo' \div 2)
  BY <1>1, <1>3, <1>5
<1>7. ReadOK'
  BY <1>4, <1>5, <1>6 DEF ReadOK
<1> QED BY <1>2, <1>7

\* What a reader makes of everything that was begun, and what that is.
Story == IF half = NoRecord THEN Prefix(recorded, Len(recorded)) ELSE ApplyEvent(Prefix(recorded, Len(recorded)), half)
Told == {recorded[i] : i \in 1..Len(recorded)} \cup (IF half = NoRecord THEN {} ELSE {half})
ToldLaunches == {r.call : r \in {x \in Told : x.what = "launch"}}

\* The calls that await a result are those the reader awaits one of.
CallsOK ==
  /\ Story.seen = 1..issued /\ began \subseteq 1..issued
  /\ \A c \in Nat : c \in Story.byToolUseId <=> <<c, "launch">> \in openCalls
  /\ \A c \in Nat : c \in Story.sends <=> <<c, "send">> \in openCalls
  /\ \A c \in Nat : c \in Story.byToolUseId \cup Story.sends => c \notin began /\ ~(c \in Story.byToolUseId /\ c \in Story.sends)

\* What was told once is known.
ToldOK ==
  /\ \A r \in Told :
       /\ r \in Records /\ r.call <= issued
       /\ r.what = "launch" => r.call \notin Story.sends
       /\ r.what \in {"sync", "ack"} => r.call \notin Story.byToolUseId
       /\ r.what \in {"resumed", "told"} => r.call \notin Story.sends
       /\ r.what \in {"completed", "failed"} => r.agent \in Agents
  /\ \A c \in Story.byToolUseId : c \in ToldLaunches

\* A row for each launch and each run, the agent's once it has one.
RowsOK ==
  LET l == Story.launches IN
  /\ \A i, j \in 1..Len(l) : l[i].call = l[j].call => i = j
  /\ \A i \in 1..Len(l) : l[i].call \in ToldLaunches \/ l[i].call \in began
  /\ \A c \in Nat : c \in ToldLaunches \/ c \in began => \E i \in 1..Len(l) : l[i].call = c
  /\ \A i \in 1..Len(l) :
       /\ l[i].call \in Story.byToolUseId => l[i].agent = NoAgent /\ l[i].origin = l[i].call
       /\ l[i].agent # NoAgent => l[i].origin = launchOf[l[i].agent] /\ runOf[l[i].agent] # 0

RunsOK ==
  LET l == Story.launches IN
  \A a \in Agents :
    /\ Story.byAgentId[a] \in {0, runOf[a]}
    /\ runOf[a] # 0 =>
         /\ runOf[a] \in began
         /\ \E i \in 1..Len(l) : l[i].agent = a /\ l[i].origin = l[i].call
         /\ \A i \in 1..Len(l) : l[i].call = runOf[a] => l[i].agent = a

StoryInv == CallsOK /\ ToldOK /\ RowsOK /\ RunsOK

\* Without late repeats an end is told of the run that ended.
EndsOK ==
  LET l == Story.launches IN
  /\ \A i \in 1..Len(l) : l[i].ended <=> l[i].call \in ended
  /\ \A a \in Agents : Story.byAgentId[a] # 0 => Story.byAgentId[a] \notin ended
  /\ \A a \in alive : Story.byAgentId[a] = runOf[a] /\ runOf[a] # 0
  /\ \A r \in Told : r.what = "completed" => r.call \in ended

-----------------------------------------------------------------------------
LEMMA StoryBegins ==
  ASSUME FileOK, NEW r \in Records, Begins(r)
  PROVE  Story' = ApplyEvent(Story, r) /\ Told' = Told \cup {r}
<1>1. half = NoRecord /\ half' = r /\ r # NoRecord /\ recorded' = recorded
  BY HalfIsNone DEF Begins
<1> QED BY <1>1 DEF Story, Told

LEMMA StoryEnds == ASSUME FileOK, Ends PROVE Story' = Story /\ Told' = Told
<1>1. half # NoRecord /\ recorded' = Append(recorded, half) /\ half' = NoRecord
  BY DEF Ends
<1> DEFINE n == Len(recorded)
<1>2. /\ recorded \in Seq(Records) /\ half \in Records /\ n \in Nat /\ Len(recorded') = n + 1 /\ recorded'[n + 1] = half
      /\ \A k \in 1..n : recorded'[k] = recorded[k]
  BY <1>1 DEF FileOK
<1> HIDE DEF n
<1>3. Prefix(recorded', n) = Prefix(recorded, n)
  BY <1>2, PrefixStands
<1>4. Prefix(recorded', n + 1) = ApplyEvent(Prefix(recorded', n), half)
  <2>1. n + 1 \in Nat \ {0} /\ (n + 1) - 1 = n
    BY <1>2
  <2> QED BY <2>1, <1>2, PrefixSteps
<1>5. Story' = Story
  BY <1>1, <1>2, <1>3, <1>4 DEF Story, n
<1>6. Told' = Told
  <2>1. {recorded'[i] : i \in 1..(n + 1)} = {recorded[i] : i \in 1..n} \cup {half}
    BY <1>2
  <2> QED BY <2>1, <1>1, <1>2 DEF Told, n
<1> QED BY <1>5, <1>6

LEMMA StoryEmptied == ASSUME recorded' = <<>>, half' = NoRecord PROVE Story' = EmptyScan /\ Told' = {}
<1>1. Len(recorded') = 0
  OBVIOUS
<1> QED BY <1>1, PrefixSteps DEF Story, Told

LEMMA StoryOK == ASSUME FileOK PROVE ScanOK(Story)
<1>1. Len(recorded) \in 0..Len(recorded) /\ recorded \in Seq(Records) /\ half \in Records \cup {NoRecord}
  BY DEF FileOK
<1>2. ScanOK(Prefix(recorded, Len(recorded)))
  BY <1>1, PrefixOK
<1> QED BY <1>1, <1>2, ApplyKeepsScan DEF Story

\* What the lemmas below start from.
LEMMA StoryIs ==
  ASSUME FileOK, SessionOK
  PROVE  /\ Story \in ScanType /\ Story.launches \in Seq(RowType) /\ Len(Story.launches) \in Nat /\ Story.byAgentId \in [Agents -> Nat]
         /\ Story.byToolUseId \subseteq Nat /\ Story.sends \subseteq Nat /\ Story.byToolUseId \cup Story.sends \subseteq Story.seen
         /\ \A i \in 1..Len(Story.launches) : Story.launches[i].call \in Nat /\ Story.launches[i].agent \in Agents \cup {NoAgent} /\ Story.launches[i].ended \in BOOLEAN
         /\ issued \in Nat /\ runOf \in [Agents -> Nat] /\ launchOf \in [Agents -> Nat] /\ ended \subseteq began /\ NoAgent \notin Agents /\ began \subseteq Nat /\ alive \subseteq Agents
<1>1. Story \in ScanType /\ Story.byToolUseId \cup Story.sends \subseteq Story.seen
  BY StoryOK DEF ScanOK
<1>2. issued \in Nat /\ runOf \in [Agents -> Nat] /\ launchOf \in [Agents -> Nat] /\ ended \subseteq began /\ NoAgent \notin Agents /\ began \subseteq Nat /\ alive \subseteq Agents
  BY LedgerOfAgents DEF SessionOK, Calls
<1> QED BY <1>1, <1>2, ScanFields

\* A repeat tells nothing new.
LEMMA KnownIsIdle ==
  ASSUME FileOK, SessionOK, StoryInv, NEW r \in Told,
         r.what = "completed" => Story.byAgentId[r.agent] = 0
  PROVE  ApplyEvent(Story, r) = Story
<1>1. /\ r \in Records /\ r.call <= issued /\ Story.seen = 1..issued
      /\ r.what \in {"sync", "ack"} => r.call \notin Story.byToolUseId
      /\ r.what \in {"resumed", "told"} => r.call \notin Story.sends
  BY DEF StoryInv, ToldOK, CallsOK
<1>2. r.what \in Whats /\ r.call \in Nat \ {0} /\ issued \in Nat
  BY <1>1, RecordFields, StoryIs
<1>3. r.call \in Story.seen
  BY <1>1, <1>2
<1> QED BY <1>1, <1>2, <1>3, EventIs DEF Whats

LEMMA StandsStill ==
  ASSUME StoryInv, Story' = Story, Told' = Told, UNCHANGED sessionVars
  PROVE  StoryInv' /\ (EndsOK => EndsOK')
<1>1. CallsOK'
  BY DEF StoryInv, CallsOK, sessionVars
<1>2. ToldOK'
  BY DEF StoryInv, ToldOK, ToldLaunches, sessionVars
<1>3. RowsOK'
  BY DEF StoryInv, RowsOK, ToldLaunches, sessionVars
<1>4. RunsOK'
  BY DEF StoryInv, RunsOK, sessionVars
<1>5. EndsOK => EndsOK'
  BY DEF EndsOK, sessionVars
<1> QED BY <1>1, <1>2, <1>3, <1>4, <1>5 DEF StoryInv


\* A launch gets a row that waits for its result.
LEMMA LaunchToldKeeps ==
  ASSUME FileOK, SessionOK, StoryInv, Calling("launch")
  PROVE  StoryInv' /\ (EndsOK => EndsOK')
<1> DEFINE c == issued + 1
           r == Record("launch", c, NoAgent)
           l == Story.launches
           n == Len(l)
           row == Row(c, NoAgent, c)
<1>1. /\ issued' = c /\ openCalls' = openCalls \cup {<<c, "launch">>} /\ UNCHANGED <<runOf, alive, began, ended, launchOf>>
      /\ Begins(r) /\ c \in Calls /\ r \in Records
  BY LedgerOfAgents DEF Calling, SessionOK, Record, Records, Whats, Calls
<1>2. r.what = "launch" /\ r.call = c /\ r.agent = NoAgent /\ c \in Nat /\ c = issued + 1 /\ issued \in Nat
  BY StoryIs DEF Record
<1>3. Story' = ApplyEvent(Story, r) /\ Told' = Told \cup {r}
  BY <1>1, StoryBegins
<1>4. c \notin Story.seen /\ Story.seen = 1..issued /\ began \subseteq 1..issued /\ c \notin began /\ c \notin Story.byToolUseId /\ c \notin Story.sends
  BY <1>2, StoryIs DEF StoryInv, CallsOK
<1>5. Story' = Launch(Story, r)
  BY <1>2, <1>3, <1>4, EventIs
<1>6. /\ Story'.launches = Append(l, row) /\ row \in RowType
      /\ Story'.byToolUseId = Story.byToolUseId \cup {c} /\ Story'.seen = Story.seen \cup {c}
      /\ Story'.byAgentId = Story.byAgentId /\ Story'.sends = Story.sends
  BY <1>1, <1>2, <1>5, LaunchIs, StoryIs
<1>7. /\ n \in Nat /\ Len(Story'.launches) = n + 1 /\ Story'.launches[n + 1] = row /\ \A i \in 1..n : Story'.launches[i] = l[i]
      /\ row.call = c /\ row.agent = NoAgent /\ row.origin = c /\ row.ended = FALSE
  BY <1>6, AppendsRow, StoryIs DEF Row
<1> HIDE DEF c, r, row, n, l
<1>8. CallsOK'
  <2>1. Story'.seen = 1..issued' /\ began' \subseteq 1..issued'
    BY <1>1, <1>2, <1>4, <1>6
  <2>2. ASSUME NEW d \in Nat
        PROVE  /\ d \in Story'.byToolUseId <=> <<d, "launch">> \in openCalls'
               /\ d \in Story'.sends <=> <<d, "send">> \in openCalls'
               /\ d \in Story'.byToolUseId \cup Story'.sends => d \notin began' /\ ~(d \in Story'.byToolUseId /\ d \in Story'.sends)
    BY <1>1, <1>4, <1>6 DEF StoryInv, CallsOK
  <2> QED BY <2>1, <2>2 DEF CallsOK
<1>9. \A d : d \in ToldLaunches' <=> d \in ToldLaunches \/ d = c
  BY <1>2, <1>3 DEF ToldLaunches
<1>10. ToldOK'
  <2>1. ASSUME NEW x \in Told'
        PROVE  /\ x \in Records /\ x.call <= issued'
               /\ x.what = "launch" => x.call \notin Story'.sends
               /\ x.what \in {"sync", "ack"} => x.call \notin Story'.byToolUseId
               /\ x.what \in {"resumed", "told"} => x.call \notin Story'.sends
               /\ x.what \in {"completed", "failed"} => x.agent \in Agents
    <3>1. CASE x = r
      BY <3>1, <1>1, <1>2, <1>4, <1>6
    <3>2. CASE x # r
      <4>1. x \in Told /\ x \in Records /\ x.call <= issued
        BY <3>2, <1>3 DEF StoryInv, ToldOK
      <4>2. x.call \in Nat /\ x.call <= issued' /\ x.call # c
        BY <4>1, <1>1, <1>2, RecordFields
      <4> QED BY <4>1, <4>2, <1>6 DEF StoryInv, ToldOK
    <3> QED BY <3>1, <3>2
  <2>2. ASSUME NEW d \in Story'.byToolUseId PROVE d \in ToldLaunches'
    BY <1>6, <1>9 DEF StoryInv, ToldOK
  <2> QED BY <2>1, <2>2 DEF ToldOK
<1>11. \A i \in 1..n : l[i].call # c
  <2> SUFFICES ASSUME NEW i \in 1..n, l[i].call = c PROVE FALSE
    OBVIOUS
  <2>1. c \in ToldLaunches
    BY <1>4 DEF StoryInv, RowsOK, n, l
  <2>2. PICK x \in Told : x.call = c
    BY <2>1 DEF ToldLaunches
  <2>3. x.call <= issued
    BY DEF StoryInv, ToldOK
  <2> QED BY <2>2, <2>3, <1>2
<1>12. RowsOK'
  <2>1. \A i, j \in 1..(n + 1) : Story'.launches[i].call = Story'.launches[j].call => i = j
    <3>1. \A i, j \in 1..n : l[i].call = l[j].call => i = j
      BY DEF StoryInv, RowsOK, n, l
    <3>2. \A i \in 1..(n + 1) : i \in 1..n \/ i = n + 1
      BY <1>7
    <3> QED BY <3>1, <3>2, <1>7, <1>11
  <2>2. ASSUME NEW i \in 1..(n + 1)
        PROVE  /\ Story'.launches[i].call \in ToldLaunches' \/ Story'.launches[i].call \in began'
               /\ Story'.launches[i].call \in Story'.byToolUseId => Story'.launches[i].agent = NoAgent /\ Story'.launches[i].origin = Story'.launches[i].call
               /\ Story'.launches[i].agent # NoAgent => Story'.launches[i].origin = launchOf'[Story'.launches[i].agent] /\ runOf'[Story'.launches[i].agent] # 0
    <3>1. CASE i = n + 1
      BY <3>1, <1>7, <1>9
    <3>2. CASE i # n + 1
      <4>1. i \in 1..n /\ Story'.launches[i] = l[i] /\ l[i].call # c
        BY <3>2, <1>7, <1>11
      <4>2. /\ l[i].call \in ToldLaunches \/ l[i].call \in began
            /\ l[i].call \in Story.byToolUseId => l[i].agent = NoAgent /\ l[i].origin = l[i].call
            /\ l[i].agent # NoAgent => l[i].origin = launchOf[l[i].agent] /\ runOf[l[i].agent] # 0
        BY <4>1 DEF StoryInv, RowsOK, n, l
      <4> QED BY <4>1, <4>2, <1>1, <1>6, <1>9
    <3> QED BY <3>1, <3>2
  <2>3. ASSUME NEW d \in Nat, d \in ToldLaunches' \/ d \in began' PROVE \E i \in 1..(n + 1) : Story'.launches[i].call = d
    <3>1. CASE d = c
      BY <3>1, <1>7
    <3>2. CASE d # c
      <4>1. PICK i \in 1..n : l[i].call = d
        BY <2>3, <3>2, <1>1, <1>9 DEF StoryInv, RowsOK, n, l
      <4> QED BY <4>1, <1>7
    <3> QED BY <3>1, <3>2
  <2> QED BY <2>1, <2>2, <2>3, <1>7 DEF RowsOK
<1>13. RunsOK'
  <2> SUFFICES ASSUME NEW a \in Agents
               PROVE  /\ Story'.byAgentId[a] \in {0, runOf'[a]}
                      /\ runOf'[a] # 0 =>
                           /\ runOf'[a] \in began'
                           /\ \E i \in 1..(n + 1) : Story'.launches[i].agent = a /\ Story'.launches[i].origin = Story'.launches[i].call
                           /\ \A i \in 1..(n + 1) : Story'.launches[i].call = runOf'[a] => Story'.launches[i].agent = a
    BY <1>7 DEF RunsOK
  <2>1. /\ Story.byAgentId[a] \in {0, runOf[a]}
        /\ runOf[a] # 0 =>
             /\ runOf[a] \in began
             /\ \E i \in 1..n : l[i].agent = a /\ l[i].origin = l[i].call
             /\ \A i \in 1..n : l[i].call = runOf[a] => l[i].agent = a
    BY DEF StoryInv, RunsOK, n, l
  <2>2. \A i \in 1..(n + 1) : i \in 1..n \/ i = n + 1
    BY <1>7
  <2>3. \A i \in 1..n : i \in 1..(n + 1)
    BY <1>7
  <2> QED BY <2>1, <2>2, <2>3, <1>1, <1>4, <1>6, <1>7
<1>14. ASSUME EndsOK PROVE EndsOK'
  <2>1. ASSUME NEW i \in 1..(n + 1) PROVE Story'.launches[i].ended <=> Story'.launches[i].call \in ended'
    <3>1. CASE i = n + 1
      BY <3>1, <1>1, <1>4, <1>7, StoryIs
    <3>2. CASE i # n + 1
      <4>1. i \in 1..n
        BY <3>2, <1>7
      <4> QED BY <4>1, <1>1, <1>7, <1>14 DEF EndsOK, n, l
    <3> QED BY <3>1, <3>2
  <2>2. \A x \in Told' : x.what = "completed" => x.call \in ended'
    BY <1>1, <1>2, <1>3, <1>14 DEF EndsOK
  <2> QED BY <2>1, <2>2, <1>1, <1>6, <1>7, <1>14 DEF EndsOK
<1> QED BY <1>8, <1>10, <1>12, <1>13, <1>14 DEF StoryInv


LEMMA SameRows ==
  ASSUME StoryInv, Story'.launches = Story.launches, Story'.byAgentId = Story.byAgentId, Story'.byToolUseId = Story.byToolUseId,
         ToldLaunches' = ToldLaunches, UNCHANGED <<runOf, launchOf, began>>
  PROVE  RowsOK' /\ RunsOK'
<1>1. RowsOK'
  BY DEF StoryInv, RowsOK
<1>2. RunsOK'
  BY DEF StoryInv, RunsOK
<1> QED BY <1>1, <1>2

\* A SendMessage awaits its result.
LEMMA SendKeeps ==
  ASSUME FileOK, SessionOK, StoryInv, Calling("send")
  PROVE  StoryInv' /\ (EndsOK => EndsOK')
<1> DEFINE c == issued + 1
           r == Record("send", c, NoAgent)
<1>1. /\ issued' = c /\ openCalls' = openCalls \cup {<<c, "send">>} /\ UNCHANGED <<runOf, alive, began, ended, launchOf>>
      /\ Begins(r) /\ c \in Calls /\ r \in Records
  BY LedgerOfAgents DEF Calling, SessionOK, Record, Records, Whats, Calls
<1>2. r.what = "send" /\ r.call = c /\ r.agent = NoAgent /\ c \in Nat /\ c = issued + 1 /\ issued \in Nat
  BY StoryIs DEF Record
<1>3. Story' = ApplyEvent(Story, r) /\ Told' = Told \cup {r}
  BY <1>1, StoryBegins
<1>4. c \notin Story.seen /\ Story.seen = 1..issued /\ began \subseteq 1..issued /\ c \notin began /\ c \notin Story.byToolUseId /\ c \notin Story.sends
  BY <1>2, StoryIs DEF StoryInv, CallsOK
<1>5. Story' = Send(Story, r)
  BY <1>2, <1>3, <1>4, EventIs
<1>6. /\ Story'.launches = Story.launches /\ Story'.byToolUseId = Story.byToolUseId /\ Story'.seen = Story.seen \cup {c}
      /\ Story'.byAgentId = Story.byAgentId /\ Story'.sends = Story.sends \cup {c}
  BY <1>1, <1>2, <1>5, SendIs, StoryIs
<1> HIDE DEF c, r
<1>7. ToldLaunches' = ToldLaunches
  BY <1>2, <1>3 DEF ToldLaunches
<1>8. CallsOK'
  <2>1. Story'.seen = 1..issued' /\ began' \subseteq 1..issued'
    BY <1>1, <1>2, <1>4, <1>6
  <2>2. ASSUME NEW d \in Nat
        PROVE  /\ d \in Story'.byToolUseId <=> <<d, "launch">> \in openCalls'
               /\ d \in Story'.sends <=> <<d, "send">> \in openCalls'
               /\ d \in Story'.byToolUseId \cup Story'.sends => d \notin began' /\ ~(d \in Story'.byToolUseId /\ d \in Story'.sends)
    BY <1>1, <1>4, <1>6 DEF StoryInv, CallsOK
  <2> QED BY <2>1, <2>2 DEF CallsOK
<1>9. ToldOK'
  <2>1. ASSUME NEW x \in Told'
        PROVE  /\ x \in Records /\ x.call <= issued'
               /\ x.what = "launch" => x.call \notin Story'.sends
               /\ x.what \in {"sync", "ack"} => x.call \notin Story'.byToolUseId
               /\ x.what \in {"resumed", "told"} => x.call \notin Story'.sends
               /\ x.what \in {"completed", "failed"} => x.agent \in Agents
    <3>1. CASE x = r
      BY <3>1, <1>1, <1>2, <1>4, <1>6
    <3>2. CASE x # r
      <4>1. x \in Told /\ x \in Records /\ x.call <= issued
        BY <3>2, <1>3 DEF StoryInv, ToldOK
      <4>2. x.call \in Nat /\ x.call <= issued' /\ x.call # c
        BY <4>1, <1>1, <1>2, RecordFields
      <4> QED BY <4>1, <4>2, <1>6 DEF StoryInv, ToldOK
    <3> QED BY <3>1, <3>2
  <2>2. ASSUME NEW d \in Story'.byToolUseId PROVE d \in ToldLaunches'
    BY <1>6, <1>7 DEF StoryInv, ToldOK
  <2> QED BY <2>1, <2>2 DEF ToldOK
<1>10. EndsOK => EndsOK'
  BY <1>1, <1>2, <1>3, <1>6 DEF EndsOK
<1> QED BY <1>1, <1>6, <1>7, <1>8, <1>9, <1>10, SameRows DEF StoryInv

\* It was told, and its agent not resumed.
LEMMA ToldOnlyKeeps ==
  ASSUME FileOK, SessionOK, StoryInv, NEW c \in Calls, ToldOnly(c)
  PROVE  StoryInv' /\ (EndsOK => EndsOK')
<1> DEFINE r == Record("told", c, NoAgent)
<1>1. /\ <<c, "send">> \in openCalls /\ openCalls' = openCalls \ {<<c, "send">>}
      /\ UNCHANGED <<issued, runOf, alive, began, ended, launchOf>> /\ Begins(r) /\ r \in Records
  BY DEF ToldOnly, Record, Records, Whats
<1>2. r.what = "told" /\ r.call = c /\ r.agent = NoAgent /\ c \in Nat
  BY DEF Record, Calls
<1>3. Story' = ApplyEvent(Story, r) /\ Told' = Told \cup {r}
  BY <1>1, StoryBegins
<1>4. c \in Story.sends /\ c \notin Story.byToolUseId /\ c <= issued
  <2>1. c \in Story.sends /\ c \notin Story.byToolUseId /\ Story.seen = 1..issued
    BY <1>1, <1>2 DEF StoryInv, CallsOK
  <2> QED BY <2>1, StoryIs
<1>5. Story' = SendResult(Story, r)
  BY <1>2, <1>3, <1>4, EventIs
<1>6. /\ Story'.launches = Story.launches /\ Story'.byToolUseId = Story.byToolUseId /\ Story'.seen = Story.seen
      /\ Story'.byAgentId = Story.byAgentId /\ Story'.sends = Story.sends \ {c}
  <2>1. Story \in ScanType /\ r.what # "resumed"
    BY <1>2, StoryIs
  <2> HIDE DEF r
  <2> QED BY <2>1, <1>1, <1>2, <1>5, SendResultIs
<1> HIDE DEF r
<1>7. ToldLaunches' = ToldLaunches
  BY <1>2, <1>3 DEF ToldLaunches
<1>8. CallsOK'
  <2>1. ASSUME NEW d \in Nat
        PROVE  /\ d \in Story'.byToolUseId <=> <<d, "launch">> \in openCalls'
               /\ d \in Story'.sends <=> <<d, "send">> \in openCalls'
               /\ d \in Story'.byToolUseId \cup Story'.sends => d \notin began' /\ ~(d \in Story'.byToolUseId /\ d \in Story'.sends)
    BY <1>1, <1>4, <1>6 DEF StoryInv, CallsOK
  <2> QED BY <2>1, <1>1, <1>6 DEF StoryInv, CallsOK
<1>9. ToldOK'
  BY <1>1, <1>2, <1>3, <1>4, <1>6, <1>7 DEF StoryInv, ToldOK
<1>10. EndsOK => EndsOK'
  BY <1>1, <1>2, <1>3, <1>6 DEF EndsOK
<1> QED BY <1>1, <1>6, <1>7, <1>8, <1>9, <1>10, SameRows DEF StoryInv

\* An end that is told, of a run that awaits it.
LEMMA NotifyRows ==
  ASSUME FileOK, SessionOK, StoryInv, NEW r \in Records, NEW a \in Agents, r.agent = a, Story.byAgentId[a] # 0,
         Story' = Notify(Story, r), ToldLaunches' = ToldLaunches, UNCHANGED <<issued, openCalls, runOf, began, launchOf>>
  PROVE  /\ CallsOK' /\ RowsOK' /\ RunsOK'
         /\ Story'.byToolUseId = Story.byToolUseId /\ Story'.sends = Story.sends
         /\ Story'.byAgentId = [Story.byAgentId EXCEPT ![a] = 0]
         /\ Len(Story'.launches) = Len(Story.launches)
         /\ \A i \in 1..Len(Story.launches) :
              /\ Story'.launches[i].call = Story.launches[i].call
              /\ Story'.launches[i].ended = IF Story.launches[i].call = runOf[a] THEN TRUE ELSE Story.launches[i].ended
<1> DEFINE l == Story.launches
           n == Len(l)
           m == Story'.launches
<1>1. /\ RowsNamed(l, m, Story.byAgentId[a], a, TRUE) /\ Story'.byToolUseId = Story.byToolUseId /\ Story'.sends = Story.sends
      /\ Story'.seen = Story.seen /\ Story'.byAgentId = [Story.byAgentId EXCEPT ![a] = 0]
  <2>1. Story'.seen = Story.seen
    BY StoryIs, NotifyIs, WithRowIs, RecordFields DEF Notify, ScanType
  <2> QED BY <2>1, StoryIs, NotifyIs
<1>2. Story.byAgentId[a] = runOf[a] /\ runOf[a] # 0 /\ \A i \in 1..n : l[i].call = runOf[a] => l[i].agent = a
  BY DEF StoryInv, RunsOK
<1>3. /\ Len(m) = n
      /\ \A i \in 1..n :
           /\ m[i].call = l[i].call /\ m[i].origin = l[i].origin /\ m[i].agent = l[i].agent
           /\ m[i].ended = IF l[i].call = runOf[a] THEN TRUE ELSE l[i].ended
  <2> HIDE DEF l, m
  <2>1. Len(m) = n /\ \A i \in 1..n : /\ m[i].call = l[i].call /\ m[i].origin = l[i].origin
                                     /\ (l[i].call = runOf[a] => m[i].agent = a /\ m[i].ended = TRUE)
                                     /\ (l[i].call # runOf[a] => m[i] = l[i])
    BY <1>1, <1>2 DEF RowsNamed
  <2> HIDE DEF n
  <2> QED BY <2>1, <1>2
<1>4. CallsOK'
  BY <1>1 DEF StoryInv, CallsOK
<1> HIDE DEF l, n, m
<1>9. ToldLaunches' = ToldLaunches /\ began' = began /\ launchOf' = launchOf /\ runOf' = runOf
  OBVIOUS
<1>5. RowsOK'
  <2>1. /\ \A i, j \in 1..n : l[i].call = l[j].call => i = j
        /\ \A i \in 1..n : l[i].call \in ToldLaunches \/ l[i].call \in began
        /\ \A c \in Nat : c \in ToldLaunches \/ c \in began => \E i \in 1..n : l[i].call = c
        /\ \A i \in 1..n :
             /\ l[i].call \in Story.byToolUseId => l[i].agent = NoAgent /\ l[i].origin = l[i].call
             /\ l[i].agent # NoAgent => l[i].origin = launchOf[l[i].agent] /\ runOf[l[i].agent] # 0
    BY DEF StoryInv, RowsOK, l, n
  <2>2. \A i, j \in 1..n : m[i].call = m[j].call => i = j
    BY <2>1, <1>3
  <2>3. \A i \in 1..n : m[i].call \in ToldLaunches' \/ m[i].call \in began'
    BY <2>1, <1>3, <1>9
  <2>4. \A c \in Nat : c \in ToldLaunches' \/ c \in began' => \E i \in 1..n : m[i].call = c
    <3> SUFFICES ASSUME NEW c \in Nat, c \in ToldLaunches' \/ c \in began' PROVE \E i \in 1..n : m[i].call = c
      OBVIOUS
    <3>1. PICK i \in 1..n : l[i].call = c
      BY <2>1, <1>9
    <3> QED BY <3>1, <1>3
  <2>5. ASSUME NEW i \in 1..n
        PROVE  /\ m[i].call \in Story'.byToolUseId => m[i].agent = NoAgent /\ m[i].origin = m[i].call
               /\ m[i].agent # NoAgent => m[i].origin = launchOf'[m[i].agent] /\ runOf'[m[i].agent] # 0
    <3>1. /\ l[i].call \in Story.byToolUseId => l[i].agent = NoAgent /\ l[i].origin = l[i].call
          /\ l[i].agent # NoAgent => l[i].origin = launchOf[l[i].agent] /\ runOf[l[i].agent] # 0
      BY <2>1
    <3>2. m[i].call = l[i].call /\ m[i].origin = l[i].origin /\ m[i].agent = l[i].agent
      BY <1>3
    <3> QED BY <3>1, <3>2, <1>1, <1>9
  <2> QED BY <2>2, <2>3, <2>4, <2>5, <1>3 DEF RowsOK, m
<1>6. RunsOK'
  <2> SUFFICES ASSUME NEW b \in Agents
               PROVE  /\ Story'.byAgentId[b] \in {0, runOf'[b]}
                      /\ runOf'[b] # 0 =>
                           /\ runOf'[b] \in began'
                           /\ \E i \in 1..n : m[i].agent = b /\ m[i].origin = m[i].call
                           /\ \A i \in 1..n : m[i].call = runOf'[b] => m[i].agent = b
    BY <1>3 DEF RunsOK, m
  <2>1. /\ Story.byAgentId[b] \in {0, runOf[b]}
        /\ runOf[b] # 0 =>
             /\ runOf[b] \in began
             /\ \E i \in 1..n : l[i].agent = b /\ l[i].origin = l[i].call
             /\ \A i \in 1..n : l[i].call = runOf[b] => l[i].agent = b
    BY DEF StoryInv, RunsOK, l, n
  <2>2. Story'.byAgentId[b] \in {0, Story.byAgentId[b]}
    BY <1>1, StoryIs
  <2> QED BY <2>1, <2>2, <1>3
<1> QED BY <1>1, <1>3, <1>4, <1>5, <1>6 DEF l, n, m

\* The end of a run is told, for the first time or again.
LEMMA EndToldKeeps ==
  ASSUME FileOK, SessionOK, StoryInv, NEW r \in Records, NEW a \in Agents, r.agent = a, r.call <= issued, r.what \in {"completed", "failed"},
         Begins(r), UNCHANGED <<issued, openCalls, runOf, began, launchOf>>
  PROVE  StoryInv'
<1>1. Story' = ApplyEvent(Story, r) /\ Told' = Told \cup {r}
  BY StoryBegins
<1>2. ToldLaunches' = ToldLaunches
  BY <1>1 DEF ToldLaunches
<1>3. CASE Story' = Notify(Story, r) /\ Story.byAgentId[a] # 0
  <2>1. CallsOK' /\ RowsOK' /\ RunsOK' /\ Story'.byToolUseId = Story.byToolUseId /\ Story'.sends = Story.sends
    BY <1>2, <1>3, NotifyRows
  <2>2. ToldOK'
    BY <2>1, <1>1, <1>2 DEF StoryInv, ToldOK
  <2> QED BY <2>1, <2>2 DEF StoryInv
<1>4. CASE Story' = Story
  <2>1. CallsOK'
    BY <1>4 DEF StoryInv, CallsOK
  <2>2. ToldOK'
    BY <1>1, <1>2, <1>4 DEF StoryInv, ToldOK
  <2>3. RowsOK' /\ RunsOK'
    BY <1>2, <1>4, SameRows
  <2> QED BY <2>1, <2>2, <2>3 DEF StoryInv
<1> QED BY <1>1, <1>3, <1>4, EventIs

\* A run ends, well or not.
LEMMA StopKeeps ==
  ASSUME FileOK, SessionOK, StoryInv, NEW a \in Agents, NEW what \in {"completed", "failed"}, AgentStops(a, what)
  PROVE  StoryInv' /\ (EndsOK => EndsOK')
<1> DEFINE r == Record(what, runOf[a], a)
<1>1. /\ a \in alive /\ alive' = alive \ {a} /\ ended' = ended \cup IF what = "completed" THEN {runOf[a]} ELSE {}
      /\ Begins(r) /\ UNCHANGED <<issued, openCalls, runOf, began, launchOf>>
  BY DEF AgentStops
<1>2. r \in Records /\ r.agent = a /\ r.what = what /\ r.call = runOf[a] /\ runOf[a] \in began /\ began \subseteq Calls
  BY <1>1 DEF SessionOK, Record, Records, Whats
<1> HIDE DEF r
<1>3. r.call <= issued
  BY <1>2, StoryIs DEF StoryInv, CallsOK
<1>4. StoryInv'
  BY <1>1, <1>2, <1>3, EndToldKeeps
<1>5. Story' = ApplyEvent(Story, r) /\ Told' = Told \cup {r}
  BY <1>1, <1>2, StoryBegins
<1>6. ToldLaunches' = ToldLaunches
  BY <1>2, <1>5 DEF ToldLaunches
<1>7. ASSUME EndsOK PROVE EndsOK'
  <2>1. Story.byAgentId[a] = runOf[a] /\ runOf[a] # 0 /\ \A b \in alive : Story.byAgentId[b] = runOf[b] /\ runOf[b] # 0
    BY <1>1, <1>7 DEF EndsOK
  <2>2. CASE what = "completed"
    <3>1. Story' = Notify(Story, r)
      BY <2>1, <2>2, <1>2, <1>5, EventIs
    <3>2. /\ Story'.byAgentId = [Story.byAgentId EXCEPT ![a] = 0] /\ Len(Story'.launches) = Len(Story.launches)
          /\ \A i \in 1..Len(Story.launches) :
               /\ Story'.launches[i].call = Story.launches[i].call
               /\ Story'.launches[i].ended = IF Story.launches[i].call = runOf[a] THEN TRUE ELSE Story.launches[i].ended
      BY <3>1, <2>1, <1>1, <1>2, <1>6, NotifyRows
    <3>3. ended' = ended \cup {runOf[a]}
      BY <1>1, <2>2
    <3>4. \A i \in 1..Len(Story'.launches) : Story'.launches[i].ended <=> Story'.launches[i].call \in ended'
      BY <3>2, <3>3, <1>7, StoryIs DEF EndsOK
    <3>5. ASSUME NEW b \in Agents, Story'.byAgentId[b] # 0 PROVE Story'.byAgentId[b] \notin ended'
      <4>1. b # a /\ Story'.byAgentId[b] = Story.byAgentId[b] /\ Story.byAgentId[b] \notin ended
        BY <3>2, <3>5, <1>7, StoryIs DEF EndsOK
      <4>2. Story.byAgentId[b] # runOf[a]
        <5> SUFFICES ASSUME Story.byAgentId[b] = runOf[a] PROVE FALSE
          OBVIOUS
        <5>1. runOf[b] = runOf[a] /\ runOf[a] \in Nat
          BY <4>1, <3>5, <2>1, StoryIs DEF StoryInv, RunsOK
        <5>2. PICK i \in 1..Len(Story.launches) : Story.launches[i].call = runOf[a]
          BY <5>1, <1>2 DEF StoryInv, RowsOK
        <5> QED BY <5>1, <5>2, <4>1, <2>1 DEF StoryInv, RunsOK
      <4> QED BY <4>1, <4>2, <3>3
    <3>6. \A b \in alive' : Story'.byAgentId[b] = runOf'[b] /\ runOf'[b] # 0
      BY <3>2, <2>1, <1>1, StoryIs
    <3>7. \A x \in Told' : x.what = "completed" => x.call \in ended'
      BY <3>3, <1>2, <1>5, <1>7 DEF EndsOK
    <3> QED BY <3>4, <3>5, <3>6, <3>7 DEF EndsOK
  <2>3. CASE what = "failed"
    <3>1. Story' = Story /\ ended' = ended
      BY <2>3, <1>1, <1>2, <1>5, EventIs
    <3>2. \A x \in Told' : x.what = "completed" => x.call \in ended'
      BY <3>1, <2>3, <1>2, <1>5, <1>7 DEF EndsOK
    <3> QED BY <3>1, <3>2, <1>1, <1>7 DEF EndsOK
  <2> QED BY <2>2, <2>3
<1> QED BY <1>4, <1>7

\* A record that is told again.
LEMMA RepeatKeeps ==
  ASSUME FileOK, SessionOK, StoryInv, NEW i \in 1..Len(recorded), Repeats(i)
  PROVE  StoryInv' /\ (~LateRepeats /\ EndsOK => EndsOK')
<1> DEFINE r == recorded[i]
<1>1. /\ r \in Told /\ r \in Records /\ Begins(r) /\ UNCHANGED sessionVars
      /\ r.what \in {"completed", "failed"} => LateRepeats \/ runOf[r.agent] = r.call
  BY DEF Told, FileOK, Repeats
<1> HIDE DEF r
<1>2. Story' = ApplyEvent(Story, r) /\ Told' = Told
  BY <1>1, StoryBegins
<1>3. r.call <= issued /\ (r.what \in {"completed", "failed"} => r.agent \in Agents)
  BY <1>1 DEF StoryInv, ToldOK
<1>4. StoryInv'
  <2>1. CASE r.what \in {"completed", "failed"}
    BY <2>1, <1>1, <1>3, EndToldKeeps DEF sessionVars
  <2>2. CASE r.what \notin {"completed", "failed"}
    BY <2>2, <1>1, <1>2, KnownIsIdle, StandsStill
  <2> QED BY <2>1, <2>2
<1>5. ASSUME ~LateRepeats, EndsOK PROVE EndsOK'
  <2>1. r.what = "completed" => Story.byAgentId[r.agent] = 0
    <3> SUFFICES ASSUME r.what = "completed", Story.byAgentId[r.agent] # 0 PROVE FALSE
      OBVIOUS
    <3>1. r.agent \in Agents /\ runOf[r.agent] = r.call /\ r.call \in ended
      BY <1>1, <1>3, <1>5 DEF EndsOK
    <3> QED BY <3>1, <1>5 DEF EndsOK, StoryInv, RunsOK
  <2>2. Story' = Story
    BY <2>1, <1>1, <1>2, KnownIsIdle
  <2> QED BY <2>2, <1>1, <1>2, <1>5, StandsStill
<1> QED BY <1>4, <1>5


\* A launch has its result: the agent has a row, and an ack's awaits its end.
LEMMA LaunchedKeeps ==
  ASSUME FileOK, SessionOK, StoryInv, NEW c \in Calls, NEW a \in Agents, NEW what \in {"sync", "ack"}, Launched(c, a, what)
  PROVE  StoryInv' /\ (EndsOK => EndsOK')
<1> DEFINE r == Record(what, c, a)
           l == Story.launches
           n == Len(l)
           m == Story'.launches
<1>1. /\ <<c, "launch">> \in openCalls /\ openCalls' = openCalls \ {<<c, "launch">>}
      /\ runOf[a] = 0 /\ runOf' = [runOf EXCEPT ![a] = c] /\ began' = began \cup {c} /\ launchOf' = [launchOf EXCEPT ![a] = c]
      /\ alive' = alive \cup (IF what = "ack" THEN {a} ELSE {}) /\ ended' = ended \cup (IF what = "sync" THEN {c} ELSE {})
      /\ issued' = issued /\ Begins(r)
  BY DEF Launched, RunsAs
<1>2. r.what = what /\ r.call = c /\ r.agent = a /\ c \in Nat /\ c # 0 /\ r \in Records /\ issued \in Nat /\ a # NoAgent
  BY StoryIs DEF Record, Calls, Records, Whats
<1> HIDE DEF r
<1>3. Story' = ApplyEvent(Story, r) /\ Told' = Told \cup {r}
  BY <1>1, <1>2, StoryBegins
<1>4. c \in Story.byToolUseId /\ c \notin Story.sends /\ c <= issued /\ c \notin began /\ c \in ToldLaunches /\ Story.seen = 1..issued /\ began \subseteq 1..issued
  <2>1. c \in Story.byToolUseId /\ c \notin Story.sends /\ Story.seen = 1..issued /\ c \notin began /\ began \subseteq 1..issued
    BY <1>1, <1>2 DEF StoryInv, CallsOK
  <2> QED BY <2>1, StoryIs DEF StoryInv, ToldOK
<1>5. Story' = LaunchResult(Story, r)
  BY <1>2, <1>3, <1>4, EventIs
<1>6. Story.byAgentId[a] = 0
  BY <1>1 DEF StoryInv, RunsOK
<1>7. /\ RowsNamed(l, m, c, a, what = "sync") /\ Story'.byToolUseId = Story.byToolUseId \ {c}
      /\ Story'.sends = Story.sends /\ Story'.seen = Story.seen
      /\ Story'.byAgentId = [Story.byAgentId EXCEPT ![a] = IF what = "ack" THEN c ELSE @]
  <2>1. /\ RowsNamed(l, m, r.call, r.agent, r.what = "sync") /\ Story'.byToolUseId = Story.byToolUseId \ {r.call}
        /\ Story'.sends = Story.sends /\ Story'.seen = Story.seen
        /\ Story'.byAgentId = [Story.byAgentId EXCEPT ![r.agent] = IF r.what = "ack" /\ @ = 0 THEN r.call ELSE @]
    BY <1>2, <1>5, StoryIs, LaunchResultIs
  <2> HIDE DEF l, m
  <2>2. [Story.byAgentId EXCEPT ![a] = IF what = "ack" /\ @ = 0 THEN c ELSE @] = [Story.byAgentId EXCEPT ![a] = IF what = "ack" THEN c ELSE @]
    BY <1>6, StoryIs
  <2> QED BY <2>1, <2>2, <1>2
<1> HIDE DEF l, n, m
<1>8. /\ Len(m) = n
      /\ \A i \in 1..n : /\ m[i].call = l[i].call /\ m[i].origin = l[i].origin
                         /\ (l[i].call = c => m[i].agent = a /\ (m[i].ended <=> what = "sync"))
                         /\ (l[i].call # c => m[i] = l[i])
  <2>1. Len(m) = Len(l) /\ \A i \in 1..Len(l) : /\ m[i].call = l[i].call /\ m[i].origin = l[i].origin
                         /\ (l[i].call = c => m[i].agent = a /\ m[i].ended = (what = "sync"))
                         /\ (l[i].call # c => m[i] = l[i])
    BY <1>7 DEF RowsNamed
  <2> QED BY <2>1 DEF n
<1>9. /\ \A i, j \in 1..n : l[i].call = l[j].call => i = j
      /\ \A i \in 1..n : l[i].call \in ToldLaunches \/ l[i].call \in began
      /\ \A d \in Nat : d \in ToldLaunches \/ d \in began => \E i \in 1..n : l[i].call = d
      /\ \A i \in 1..n :
           /\ l[i].call \in Story.byToolUseId => l[i].agent = NoAgent /\ l[i].origin = l[i].call
           /\ l[i].agent # NoAgent => l[i].origin = launchOf[l[i].agent] /\ runOf[l[i].agent] # 0
  BY DEF StoryInv, RowsOK, l, n
<1>10. PICK k \in 1..n : l[k].call = c
  BY <1>2, <1>4, <1>9
<1>11. ToldLaunches' = ToldLaunches
  BY <1>2, <1>3 DEF ToldLaunches
<1>12. CallsOK'
  <2>1. Story'.seen = 1..issued' /\ began' \subseteq 1..issued'
    BY <1>1, <1>2, <1>4, <1>7
  <2>2. ASSUME NEW d \in Nat
        PROVE  /\ d \in Story'.byToolUseId <=> <<d, "launch">> \in openCalls'
               /\ d \in Story'.sends <=> <<d, "send">> \in openCalls'
               /\ d \in Story'.byToolUseId \cup Story'.sends => d \notin began' /\ ~(d \in Story'.byToolUseId /\ d \in Story'.sends)
    BY <1>1, <1>4, <1>7 DEF StoryInv, CallsOK
  <2> QED BY <2>1, <2>2 DEF CallsOK
<1>13. ToldOK'
  <2>1. ASSUME NEW x \in Told'
        PROVE  /\ x \in Records /\ x.call <= issued'
               /\ x.what = "launch" => x.call \notin Story'.sends
               /\ x.what \in {"sync", "ack"} => x.call \notin Story'.byToolUseId
               /\ x.what \in {"resumed", "told"} => x.call \notin Story'.sends
               /\ x.what \in {"completed", "failed"} => x.agent \in Agents
    <3>1. CASE x = r
      BY <3>1, <1>1, <1>2, <1>4, <1>7
    <3>2. CASE x # r
      <4>1. x \in Told
        BY <3>2, <1>3
      <4> QED BY <4>1, <1>1, <1>7 DEF StoryInv, ToldOK
    <3> QED BY <3>1, <3>2
  <2>2. ASSUME NEW d \in Story'.byToolUseId PROVE d \in ToldLaunches'
    BY <1>7, <1>11 DEF StoryInv, ToldOK
  <2> QED BY <2>1, <2>2 DEF ToldOK
<1>14. RowsOK'
  <2>1. \A i, j \in 1..n : m[i].call = m[j].call => i = j
    BY <1>8, <1>9
  <2>2. \A i \in 1..n : m[i].call \in ToldLaunches' \/ m[i].call \in began'
    BY <1>1, <1>8, <1>9, <1>11
  <2>3. ASSUME NEW d \in Nat, d \in ToldLaunches' \/ d \in began' PROVE \E i \in 1..n : m[i].call = d
    <3>1. PICK i \in 1..n : l[i].call = d
      BY <2>3, <1>1, <1>4, <1>9, <1>11
    <3> QED BY <3>1, <1>8
  <2>4. ASSUME NEW i \in 1..n
        PROVE  /\ m[i].call \in Story'.byToolUseId => m[i].agent = NoAgent /\ m[i].origin = m[i].call
               /\ m[i].agent # NoAgent => m[i].origin = launchOf'[m[i].agent] /\ runOf'[m[i].agent] # 0
    <3>1. CASE l[i].call = c
      <4>1. l[i].origin = c
        BY <3>1, <1>4, <1>9
      <4>2. launchOf'[a] = c /\ runOf'[a] = c
        BY <1>1, StoryIs
      <4>3. m[i].call = c /\ m[i].origin = c /\ m[i].agent = a
        BY <3>1, <4>1, <1>8
      <4> QED BY <4>2, <4>3, <1>2, <1>7
    <3>2. CASE l[i].call # c
      <4>1. m[i] = l[i]
        BY <3>2, <1>8
      <4>2. l[i].agent \in Agents => l[i].agent # a
        BY <1>1, <1>2, <1>9
      <4>3. l[i].agent \in Agents => launchOf'[l[i].agent] = launchOf[l[i].agent] /\ runOf'[l[i].agent] = runOf[l[i].agent]
        BY <4>2, <1>1, StoryIs
      <4>4. l[i].agent \in Agents \cup {NoAgent}
        BY StoryIs DEF l, n
      <4> QED BY <4>1, <4>3, <4>4, <1>7, <1>9
    <3> QED BY <3>1, <3>2
  <2> QED BY <2>1, <2>2, <2>3, <2>4, <1>8 DEF RowsOK, m
<1>15. RunsOK'
  <2> SUFFICES ASSUME NEW b \in Agents
               PROVE  /\ Story'.byAgentId[b] \in {0, runOf'[b]}
                      /\ runOf'[b] # 0 =>
                           /\ runOf'[b] \in began'
                           /\ \E i \in 1..n : m[i].agent = b /\ m[i].origin = m[i].call
                           /\ \A i \in 1..n : m[i].call = runOf'[b] => m[i].agent = b
    BY <1>8 DEF RunsOK, m
  <2>1. CASE b = a
    <3>1. runOf'[b] = c /\ Story'.byAgentId[b] \in {0, c}
      BY <2>1, <1>1, <1>6, <1>7, StoryIs
    <3>2. m[k].agent = a /\ m[k].origin = m[k].call
      BY <1>4, <1>8, <1>9, <1>10
    <3>3. \A i \in 1..n : m[i].call = c => m[i].agent = a
      BY <1>8
    <3> QED BY <3>1, <3>2, <3>3, <2>1, <1>1, <1>10
  <2>2. CASE b # a
    <3>1. runOf'[b] = runOf[b] /\ Story'.byAgentId[b] = Story.byAgentId[b]
      BY <2>2, <1>1, <1>7, StoryIs
    <3>2. /\ Story.byAgentId[b] \in {0, runOf[b]}
          /\ runOf[b] # 0 =>
               /\ runOf[b] \in began
               /\ \E i \in 1..n : l[i].agent = b /\ l[i].origin = l[i].call
               /\ \A i \in 1..n : l[i].call = runOf[b] => l[i].agent = b
      BY DEF StoryInv, RunsOK, l, n
    <3>3. ASSUME runOf[b] # 0
          PROVE  /\ \E i \in 1..n : m[i].agent = b /\ m[i].origin = m[i].call
                 /\ \A i \in 1..n : m[i].call = runOf[b] => m[i].agent = b
      <4>1. PICK i \in 1..n : l[i].agent = b /\ l[i].origin = l[i].call
        BY <3>2, <3>3
      <4>2. l[i].call # c
        BY <4>1, <1>4, <1>9, StoryIs
      <4>3. m[i].agent = b /\ m[i].origin = m[i].call
        BY <4>1, <4>2, <1>8
      <4>4. runOf[b] # c
        BY <3>2, <3>3, <1>4
      <4>5. \A j \in 1..n : m[j].call = runOf[b] => m[j].agent = b
        BY <4>4, <3>2, <3>3, <1>8
      <4> QED BY <4>3, <4>5
    <3> QED BY <3>1, <3>2, <3>3, <1>1
  <2> QED BY <2>1, <2>2
<1>16. ASSUME EndsOK PROVE EndsOK'
  <2>1. ASSUME NEW i \in 1..n PROVE m[i].ended <=> m[i].call \in ended'
    <3>1. l[i].ended <=> l[i].call \in ended
      BY <1>16 DEF EndsOK, l, n
    <3>2. CASE l[i].call = c
      BY <3>2, <1>1, <1>4, <1>8, StoryIs
    <3>3. CASE l[i].call # c
      BY <3>1, <3>3, <1>1, <1>8
    <3> QED BY <3>2, <3>3
  <2>2. ASSUME NEW b \in Agents, Story'.byAgentId[b] # 0 PROVE Story'.byAgentId[b] \notin ended'
    <3>1. CASE b = a
      BY <3>1, <2>2, <1>1, <1>4, <1>6, <1>7, StoryIs
    <3>2. CASE b # a
      <4>1. Story'.byAgentId[b] = Story.byAgentId[b]
        BY <3>2, <1>7, StoryIs
      <4>2. runOf[b] \in began /\ Story.byAgentId[b] = runOf[b]
        BY <4>1, <2>2 DEF StoryInv, RunsOK
      <4> QED BY <4>1, <4>2, <2>2, <1>1, <1>4, <1>16 DEF EndsOK
    <3> QED BY <3>1, <3>2
  <2>3. ASSUME NEW b \in alive' PROVE Story'.byAgentId[b] = runOf'[b] /\ runOf'[b] # 0
    <3>1. a \notin alive
      BY <1>1, <1>16 DEF EndsOK
    <3>2. CASE b = a
      BY <3>1, <3>2, <2>3, <1>1, <1>2, <1>7, StoryIs
    <3>3. CASE b # a
      BY <3>3, <2>3, <1>1, <1>7, <1>16, StoryIs DEF EndsOK
    <3> QED BY <3>2, <3>3
  <2>4. \A x \in Told' : x.what = "completed" => x.call \in ended'
    BY <1>1, <1>2, <1>3, <1>16 DEF EndsOK
  <2> QED BY <2>1, <2>2, <2>3, <2>4, <1>8 DEF EndsOK, m
<1> QED BY <1>12, <1>13, <1>14, <1>15, <1>16 DEF StoryInv


\* A stopped agent is resumed: its run has a row of its own, of the launch's type.
LEMMA ResumedKeeps ==
  ASSUME FileOK, SessionOK, StoryInv, NEW c \in Calls, NEW a \in Agents, Resumed(c, a)
  PROVE  StoryInv' /\ (EndsOK => EndsOK')
<1> DEFINE r == Record("resumed", c, a)
           l == Story.launches
           n == Len(l)
           m == Story'.launches
           row == Row(c, a, OriginOf(Story, a))
<1>1. /\ <<c, "send">> \in openCalls /\ openCalls' = openCalls \ {<<c, "send">>}
      /\ runOf[a] # 0 /\ a \notin alive /\ runOf' = [runOf EXCEPT ![a] = c] /\ began' = began \cup {c} /\ alive' = alive \cup {a}
      /\ issued' = issued /\ ended' = ended /\ launchOf' = launchOf /\ Begins(r)
  BY DEF Resumed, RunsAs
<1>2. r.what = "resumed" /\ r.call = c /\ r.agent = a /\ c \in Nat /\ c # 0 /\ r \in Records /\ issued \in Nat /\ a # NoAgent
  BY StoryIs DEF Record, Calls, Records, Whats
<1> HIDE DEF r
<1>3. Story' = ApplyEvent(Story, r) /\ Told' = Told \cup {r}
  BY <1>1, <1>2, StoryBegins
<1>4. /\ c \in Story.sends /\ c \notin Story.byToolUseId /\ c <= issued /\ c \notin began
      /\ Story.seen = 1..issued /\ began \subseteq 1..issued
  <2>1. c \in Story.sends /\ c \notin Story.byToolUseId /\ Story.seen = 1..issued /\ c \notin began /\ began \subseteq 1..issued
    BY <1>1, <1>2 DEF StoryInv, CallsOK
  <2> QED BY <2>1, StoryIs
<1>5. c \notin ToldLaunches
  BY <1>4 DEF StoryInv, ToldOK, ToldLaunches
<1>6. Story' = SendResult(Story, r)
  BY <1>2, <1>3, <1>4, EventIs
<1>7. /\ row \in RowType /\ m = Append(l, row) /\ Story'.byToolUseId = Story.byToolUseId
      /\ Story'.sends = Story.sends \ {c} /\ Story'.seen = Story.seen
      /\ Story'.byAgentId = [Story.byAgentId EXCEPT ![a] = c]
  <2>1. /\ Row(r.call, r.agent, OriginOf(Story, r.agent)) \in RowType /\ Story'.launches = Append(Story.launches, Row(r.call, r.agent, OriginOf(Story, r.agent)))
        /\ Story'.byToolUseId = Story.byToolUseId /\ Story'.sends = Story.sends \ {r.call} /\ Story'.seen = Story.seen
        /\ Story'.byAgentId = [Story.byAgentId EXCEPT ![r.agent] = r.call]
    BY <1>2, <1>6, StoryIs, SendResultIs
  <2> QED BY <2>1, <1>2
<1>8. /\ n \in Nat /\ Len(m) = n + 1 /\ m[n + 1] = row /\ \A i \in 1..n : m[i] = l[i]
      /\ row.call = c /\ row.agent = a /\ row.origin = OriginOf(Story, a) /\ row.ended = FALSE
  BY <1>7, AppendsRow, StoryIs DEF Row
<1> HIDE DEF l, n, m, row
<1>9. /\ \A i, j \in 1..n : l[i].call = l[j].call => i = j
      /\ \A i \in 1..n : l[i].call \in ToldLaunches \/ l[i].call \in began
      /\ \A d \in Nat : d \in ToldLaunches \/ d \in began => \E i \in 1..n : l[i].call = d
      /\ \A i \in 1..n :
           /\ l[i].call \in Story.byToolUseId => l[i].agent = NoAgent /\ l[i].origin = l[i].call
           /\ l[i].agent # NoAgent => l[i].origin = launchOf[l[i].agent] /\ runOf[l[i].agent] # 0
  BY DEF StoryInv, RowsOK, l, n
<1>10. \A i \in 1..n : l[i].call # c
  BY <1>4, <1>5, <1>9
<1>11. ToldLaunches' = ToldLaunches
  BY <1>2, <1>3 DEF ToldLaunches
<1>12. \A i \in 1..(n + 1) : i \in 1..n \/ i = n + 1
  BY <1>8
<1>13. (\A i \in 1..n : i \in 1..(n + 1)) /\ n + 1 \in 1..(n + 1)
  BY <1>8
<1>14. OriginOf(Story, a) = launchOf[a]
  <2>1. \E i \in 1..n : l[i].agent = a /\ l[i].origin = l[i].call
    BY <1>1 DEF StoryInv, RunsOK, l, n
  <2>2. FirstOf(Story, a) # {}
    BY <2>1 DEF FirstOf, l, n
  <2>3. PICK i \in FirstOf(Story, a) : OriginOf(Story, a) = Story.launches[i].call
    BY <2>2, StoryIs, OriginIs
  <2>4. i \in 1..n /\ l[i].agent = a /\ l[i].origin = l[i].call /\ OriginOf(Story, a) = l[i].call
    BY <2>3 DEF FirstOf, l, n
  <2> QED BY <2>4, <1>2, <1>9
<1>15. CallsOK'
  <2>1. Story'.seen = 1..issued' /\ began' \subseteq 1..issued'
    BY <1>1, <1>2, <1>4, <1>7
  <2>2. ASSUME NEW d \in Nat
        PROVE  /\ d \in Story'.byToolUseId <=> <<d, "launch">> \in openCalls'
               /\ d \in Story'.sends <=> <<d, "send">> \in openCalls'
               /\ d \in Story'.byToolUseId \cup Story'.sends => d \notin began' /\ ~(d \in Story'.byToolUseId /\ d \in Story'.sends)
    BY <1>1, <1>4, <1>7 DEF StoryInv, CallsOK
  <2> QED BY <2>1, <2>2 DEF CallsOK
<1>16. ToldOK'
  <2>1. ASSUME NEW x \in Told'
        PROVE  /\ x \in Records /\ x.call <= issued'
               /\ x.what = "launch" => x.call \notin Story'.sends
               /\ x.what \in {"sync", "ack"} => x.call \notin Story'.byToolUseId
               /\ x.what \in {"resumed", "told"} => x.call \notin Story'.sends
               /\ x.what \in {"completed", "failed"} => x.agent \in Agents
    <3>1. CASE x = r
      BY <3>1, <1>1, <1>2, <1>4, <1>7
    <3>2. CASE x # r
      <4>1. x \in Told
        BY <3>2, <1>3
      <4> QED BY <4>1, <1>1, <1>7 DEF StoryInv, ToldOK
    <3> QED BY <3>1, <3>2
  <2>2. ASSUME NEW d \in Story'.byToolUseId PROVE d \in ToldLaunches'
    BY <1>7, <1>11 DEF StoryInv, ToldOK
  <2> QED BY <2>1, <2>2 DEF ToldOK
<1>17. RowsOK'
  <2>1. \A i, j \in 1..(n + 1) : m[i].call = m[j].call => i = j
    BY <1>8, <1>9, <1>10, <1>12
  <2>2. ASSUME NEW i \in 1..(n + 1)
        PROVE  /\ m[i].call \in ToldLaunches' \/ m[i].call \in began'
               /\ m[i].call \in Story'.byToolUseId => m[i].agent = NoAgent /\ m[i].origin = m[i].call
               /\ m[i].agent # NoAgent => m[i].origin = launchOf'[m[i].agent] /\ runOf'[m[i].agent] # 0
    <3>1. CASE i = n + 1
      <4>1. runOf'[a] = c
        BY <1>1, StoryIs
      <4> QED BY <3>1, <4>1, <1>1, <1>2, <1>4, <1>7, <1>8, <1>14
    <3>2. CASE i # n + 1
      <4>1. i \in 1..n /\ m[i] = l[i]
        BY <3>2, <1>8, <1>12
      <4>2. l[i].agent \in Agents \cup {NoAgent}
        BY <4>1, StoryIs DEF l, n
      <4>3. l[i].agent \in Agents => runOf'[l[i].agent] \in {c, runOf[l[i].agent]}
        BY <1>1, StoryIs
      <4> QED BY <4>1, <4>2, <4>3, <1>1, <1>2, <1>7, <1>9, <1>11
    <3> QED BY <3>1, <3>2
  <2>3. ASSUME NEW d \in Nat, d \in ToldLaunches' \/ d \in began' PROVE \E i \in 1..(n + 1) : m[i].call = d
    <3>1. CASE d = c
      BY <3>1, <1>8, <1>13
    <3>2. CASE d # c
      <4>1. PICK i \in 1..n : l[i].call = d
        BY <2>3, <3>2, <1>1, <1>9, <1>11
      <4> QED BY <4>1, <1>8, <1>13
    <3> QED BY <3>1, <3>2
  <2> QED BY <2>1, <2>2, <2>3, <1>8 DEF RowsOK, m
<1>18. RunsOK'
  <2> SUFFICES ASSUME NEW b \in Agents
               PROVE  /\ Story'.byAgentId[b] \in {0, runOf'[b]}
                      /\ runOf'[b] # 0 =>
                           /\ runOf'[b] \in began'
                           /\ \E i \in 1..(n + 1) : m[i].agent = b /\ m[i].origin = m[i].call
                           /\ \A i \in 1..(n + 1) : m[i].call = runOf'[b] => m[i].agent = b
    BY <1>8 DEF RunsOK, m
  <2>1. /\ Story.byAgentId[b] \in {0, runOf[b]}
        /\ runOf[b] # 0 =>
             /\ runOf[b] \in began
             /\ \E i \in 1..n : l[i].agent = b /\ l[i].origin = l[i].call
             /\ \A i \in 1..n : l[i].call = runOf[b] => l[i].agent = b
    BY DEF StoryInv, RunsOK, l, n
  <2>2. runOf[b] # 0 => \E i \in 1..(n + 1) : m[i].agent = b /\ m[i].origin = m[i].call
    <3> SUFFICES ASSUME runOf[b] # 0 PROVE \E i \in 1..(n + 1) : m[i].agent = b /\ m[i].origin = m[i].call
      OBVIOUS
    <3>1. PICK i \in 1..n : l[i].agent = b /\ l[i].origin = l[i].call
      BY <2>1
    <3> QED BY <3>1, <1>8, <1>13
  <2>3. CASE b = a
    <3>1. runOf'[b] = c /\ Story'.byAgentId[b] = c
      BY <2>3, <1>1, <1>7, StoryIs
    <3>2. \A i \in 1..(n + 1) : m[i].call = c => m[i].agent = a
      BY <1>8, <1>10, <1>12
    <3> QED BY <3>1, <3>2, <2>2, <2>3, <1>1
  <2>4. CASE b # a
    <3>1. runOf'[b] = runOf[b] /\ Story'.byAgentId[b] = Story.byAgentId[b]
      BY <2>4, <1>1, <1>7, StoryIs
    <3>2. runOf[b] # 0 => \A i \in 1..(n + 1) : m[i].call = runOf[b] => m[i].agent = b
      BY <2>1, <1>4, <1>8, <1>12
    <3> QED BY <3>1, <3>2, <2>1, <2>2, <1>1
  <2> QED BY <2>3, <2>4
<1>19. ASSUME EndsOK PROVE EndsOK'
  <2>1. ASSUME NEW i \in 1..(n + 1) PROVE m[i].ended <=> m[i].call \in ended'
    <3>1. CASE i = n + 1
      BY <3>1, <1>1, <1>4, <1>8, StoryIs
    <3>2. CASE i # n + 1
      BY <3>2, <1>1, <1>8, <1>12, <1>19 DEF EndsOK, l, n
    <3> QED BY <3>1, <3>2
  <2>2. ASSUME NEW b \in Agents, Story'.byAgentId[b] # 0 PROVE Story'.byAgentId[b] \notin ended'
    <3>1. CASE b = a
      BY <3>1, <1>1, <1>4, <1>7, StoryIs
    <3>2. CASE b # a
      BY <3>2, <2>2, <1>1, <1>7, <1>19, StoryIs DEF EndsOK
    <3> QED BY <3>1, <3>2
  <2>3. ASSUME NEW b \in alive' PROVE Story'.byAgentId[b] = runOf'[b] /\ runOf'[b] # 0
    <3>1. CASE b = a
      BY <3>1, <1>1, <1>2, <1>7, StoryIs
    <3>2. CASE b # a
      BY <3>2, <2>3, <1>1, <1>7, <1>19, StoryIs DEF EndsOK
    <3> QED BY <3>1, <3>2
  <2>4. \A x \in Told' : x.what = "completed" => x.call \in ended'
    BY <1>1, <1>2, <1>3, <1>19 DEF EndsOK
  <2> QED BY <2>1, <2>2, <2>3, <2>4, <1>8 DEF EndsOK, m
<1> QED BY <1>15, <1>16, <1>17, <1>18, <1>19 DEF StoryInv


-----------------------------------------------------------------------------
AgentInv == AgentReads /\ StoryInv /\ (~LateRepeats => EndsOK)

LEMMA AgentInvStart == ASSUME AgentInit PROVE AgentInv
<1>1. AgentReads
  BY AgentStart
<1>2. Story = EmptyScan /\ Told = {} /\ ToldLaunches = {}
  <2>1. Len(recorded) = 0 /\ half = NoRecord
    BY DEF AgentInit
  <2> QED BY <2>1, PrefixSteps DEF Story, Told, ToldLaunches
<1>3. /\ EmptyScan.seen = {} /\ EmptyScan.byToolUseId = {} /\ EmptyScan.sends = {} /\ EmptyScan.byAgentId = [a \in Agents |-> 0]
      /\ EmptyScan.launches = <<>> /\ Len(<<>>) = 0
  BY DEF EmptyScan
<1>4. StoryInv
  <2>1. CallsOK
    BY <1>2, <1>3 DEF AgentInit, CallsOK
  <2>2. ToldOK
    BY <1>2, <1>3 DEF ToldOK
  <2>3. RowsOK
    BY <1>2, <1>3 DEF AgentInit, RowsOK
  <2>4. RunsOK
    BY <1>2, <1>3 DEF AgentInit, RunsOK
  <2> QED BY <2>1, <2>2, <2>3, <2>4 DEF StoryInv
<1>5. EndsOK
  BY <1>2, <1>3 DEF AgentInit, EndsOK
<1> QED BY <1>1, <1>4, <1>5 DEF AgentInv

LEMMA EmptyingKeeps == ASSUME AgentInv, Emptied PROVE AgentInv'
<1>1. FileOK' /\ ReadOK'
  BY EmptiedKeeps DEF AgentInv, AgentReads
<1>2. /\ recorded' = <<>> /\ half' = NoRecord /\ issued' = 0 /\ openCalls' = {} /\ alive' = {} /\ began' = {} /\ ended' = {}
      /\ runOf' = [a \in Agents |-> 0] /\ launchOf' = [a \in Agents |-> 0]
  BY DEF Emptied
<1>3. SessionOK'
  BY <1>2, LedgerOfAgents DEF SessionOK
<1>4. Story' = EmptyScan /\ Told' = {} /\ ToldLaunches' = {}
  BY <1>2, StoryEmptied DEF ToldLaunches
<1>5. /\ EmptyScan.seen = {} /\ EmptyScan.byToolUseId = {} /\ EmptyScan.sends = {} /\ EmptyScan.byAgentId = [a \in Agents |-> 0]
      /\ EmptyScan.launches = <<>> /\ Len(<<>>) = 0
  BY DEF EmptyScan
<1>6. StoryInv'
  <2>1. CallsOK'
    BY <1>2, <1>4, <1>5 DEF CallsOK
  <2>2. ToldOK'
    BY <1>4, <1>5 DEF ToldOK
  <2>3. RowsOK'
    BY <1>2, <1>4, <1>5 DEF RowsOK
  <2>4. RunsOK'
    BY <1>2, <1>4, <1>5 DEF RunsOK
  <2> QED BY <2>1, <2>2, <2>3, <2>4 DEF StoryInv
<1>7. EndsOK'
  BY <1>2, <1>4, <1>5 DEF EndsOK
<1> QED BY <1>1, <1>3, <1>6, <1>7 DEF AgentInv, AgentReads

LEMMA AgentStep == ASSUME AgentInv, [AgentNext]_agentVars PROVE AgentInv'
<1>0. SessionOK /\ FileOK /\ ReadOK /\ StoryInv /\ (~LateRepeats => EndsOK)
  BY DEF AgentInv, AgentReads
<1>1. ASSUME NEW r \in Records, Begins(r), SessionOK', StoryInv', ~LateRepeats /\ EndsOK => EndsOK' PROVE AgentInv'
  BY <1>0, <1>1, BeginsKeeps DEF AgentInv, AgentReads
<1>2. ASSUME SessionOK', FileOK', ReadOK', Story' = Story, Told' = Told, UNCHANGED sessionVars PROVE AgentInv'
  BY <1>0, <1>2, StandsStill DEF AgentInv, AgentReads
<1>3. issued \in Nat /\ MaxCalls \in Nat /\ began \subseteq Calls /\ ended \subseteq began /\ alive \subseteq Agents /\ runOf \in [Agents -> 0..MaxCalls]
  BY <1>0, LedgerOfAgents DEF SessionOK
<1>4. ASSUME NEW what \in {"launch", "send"}, Calling(what) PROVE AgentInv'
  <2>1. /\ issued < MaxCalls /\ issued' = issued + 1 /\ openCalls' = openCalls \cup {<<issued', what>>}
        /\ UNCHANGED <<runOf, alive, began, ended, launchOf>> /\ Begins(Record(what, issued', NoAgent))
    BY <1>4 DEF Calling
  <2>2. SessionOK'
    <3>1. issued' \in 0..MaxCalls /\ issued' \in Calls
      BY <2>1, <1>3 DEF Calls
    <3> QED BY <3>1, <2>1, <1>0 DEF SessionOK
  <2>3. Record(what, issued', NoAgent) \in Records
    BY <2>1, <1>3 DEF Record, Records, Whats, Calls
  <2>4. StoryInv' /\ (EndsOK => EndsOK')
    BY <1>0, <1>4, LaunchToldKeeps, SendKeeps
  <2> QED BY <2>1, <2>2, <2>3, <2>4, <1>1
<1>5. ASSUME NEW c \in Calls, NEW a \in Agents, NEW what \in {"sync", "ack"}, Launched(c, a, what) PROVE AgentInv'
  <2>1. /\ openCalls' \subseteq openCalls /\ began' = began \cup {c} /\ ended' \subseteq ended \cup {c} /\ alive' \subseteq alive \cup {a}
        /\ runOf' = [runOf EXCEPT ![a] = c] /\ launchOf' = [launchOf EXCEPT ![a] = c] /\ issued' = issued /\ Begins(Record(what, c, a))
        /\ ended' = ended \cup (IF what = "sync" THEN {c} ELSE {})
    BY <1>5 DEF Launched, RunsAs
  <2>2. c \in 0..MaxCalls
    BY <1>3 DEF Calls
  <2>3. SessionOK'
    <3>1. issued' \in 0..MaxCalls /\ openCalls' \subseteq Calls \X {"launch", "send"} /\ alive' \subseteq Agents
      BY <2>1, <1>0 DEF SessionOK
    <3>2. began' \subseteq Calls /\ ended' \subseteq began'
      BY <2>1, <1>3
    <3>3. runOf' \in [Agents -> 0..MaxCalls] /\ launchOf' \in [Agents -> 0..MaxCalls]
      BY <2>1, <2>2, <1>0 DEF SessionOK
    <3>4. \A b \in alive' : runOf'[b] \in began'
      BY <2>1, <1>0 DEF SessionOK
    <3> QED BY <3>1, <3>2, <3>3, <3>4 DEF SessionOK
  <2>4. Record(what, c, a) \in Records
    BY DEF Record, Records, Whats
  <2>5. StoryInv' /\ (EndsOK => EndsOK')
    BY <1>0, <1>5, LaunchedKeeps
  <2> QED BY <2>1, <2>3, <2>4, <2>5, <1>1
<1>6. ASSUME NEW c \in Calls, NEW a \in Agents, Resumed(c, a) PROVE AgentInv'
  <2>1. /\ openCalls' \subseteq openCalls /\ began' = began \cup {c} /\ ended' = ended /\ alive' = alive \cup {a}
        /\ runOf' = [runOf EXCEPT ![a] = c] /\ launchOf' = launchOf /\ issued' = issued /\ Begins(Record("resumed", c, a))
    BY <1>6 DEF Resumed, RunsAs
  <2>2. c \in 0..MaxCalls
    BY <1>3 DEF Calls
  <2>3. SessionOK'
    <3>1. issued' \in 0..MaxCalls /\ openCalls' \subseteq Calls \X {"launch", "send"} /\ alive' \subseteq Agents
      BY <2>1, <1>0 DEF SessionOK
    <3>2. began' \subseteq Calls /\ ended' \subseteq began'
      BY <2>1, <1>3
    <3>3. runOf' \in [Agents -> 0..MaxCalls] /\ launchOf' \in [Agents -> 0..MaxCalls]
      BY <2>1, <2>2, <1>0 DEF SessionOK
    <3>4. \A b \in alive' : runOf'[b] \in began'
      BY <2>1, <1>0 DEF SessionOK
    <3> QED BY <3>1, <3>2, <3>3, <3>4 DEF SessionOK
  <2>4. Record("resumed", c, a) \in Records
    BY DEF Record, Records, Whats
  <2>5. StoryInv' /\ (EndsOK => EndsOK')
    BY <1>0, <1>6, ResumedKeeps
  <2> QED BY <2>1, <2>3, <2>4, <2>5, <1>1
<1>7. ASSUME NEW c \in Calls, ToldOnly(c) PROVE AgentInv'
  <2>1. openCalls' \subseteq openCalls /\ UNCHANGED <<issued, runOf, alive, began, ended, launchOf>> /\ Begins(Record("told", c, NoAgent))
    BY <1>7 DEF ToldOnly
  <2>2. SessionOK'
    BY <2>1, <1>0 DEF SessionOK
  <2>3. Record("told", c, NoAgent) \in Records
    BY DEF Record, Records, Whats
  <2>4. StoryInv' /\ (EndsOK => EndsOK')
    BY <1>0, <1>7, ToldOnlyKeeps
  <2> QED BY <2>1, <2>2, <2>3, <2>4, <1>1
<1>8. ASSUME NEW a \in Agents, NEW what \in {"completed", "failed"}, AgentStops(a, what) PROVE AgentInv'
  <2>1. /\ a \in alive /\ alive' = alive \ {a} /\ ended' = ended \cup (IF what = "completed" THEN {runOf[a]} ELSE {})
        /\ UNCHANGED <<issued, openCalls, runOf, began, launchOf>> /\ Begins(Record(what, runOf[a], a))
    BY <1>8 DEF AgentStops
  <2>2. runOf[a] \in began
    BY <2>1, <1>0 DEF SessionOK
  <2>3. SessionOK'
    <3>1. ended' \subseteq began'
      BY <2>1, <2>2, <1>3
    <3> QED BY <3>1, <2>1, <1>0 DEF SessionOK
  <2>4. Record(what, runOf[a], a) \in Records
    BY <2>2, <1>3 DEF Record, Records, Whats
  <2>5. StoryInv' /\ (EndsOK => EndsOK')
    BY <1>0, <1>8, StopKeeps
  <2> QED BY <2>1, <2>3, <2>4, <2>5, <1>1
<1>9. ASSUME NEW i \in 1..Len(recorded), Repeats(i) PROVE AgentInv'
  <2>1. Begins(recorded[i]) /\ UNCHANGED sessionVars
    BY <1>9 DEF Repeats
  <2>2. recorded[i] \in Records /\ SessionOK'
    BY <2>1, <1>0 DEF SessionOK, FileOK, sessionVars
  <2>3. StoryInv' /\ (~LateRepeats /\ EndsOK => EndsOK')
    BY <1>0, <1>9, RepeatKeeps
  <2> QED BY <2>1, <2>2, <2>3, <1>1
<1>10. CASE Ends
  <2>1. FileOK' /\ ReadOK' /\ Story' = Story /\ Told' = Told
    BY <1>0, <1>10, EndsKeeps, StoryEnds
  <2>2. UNCHANGED sessionVars
    BY <1>10 DEF Ends
  <2>3. SessionOK'
    BY <2>2, <1>0 DEF SessionOK, sessionVars
  <2> QED BY <2>1, <2>2, <2>3, <1>2
<1>11. CASE Emptied
  BY <1>11, EmptyingKeeps
<1>12. ASSUME UNCHANGED <<recorded, half, sessionVars>>, FileOK', ReadOK' PROVE AgentInv'
  <2>1. Story' = Story /\ Told' = Told
    BY <1>12 DEF Story, Told
  <2>2. UNCHANGED sessionVars
    BY <1>12
  <2>3. SessionOK'
    BY <2>2, <1>0 DEF SessionOK, sessionVars
  <2> QED BY <2>1, <2>2, <2>3, <1>2, <1>12
<1>13. CASE PollAgents
  <2>1. UNCHANGED <<recorded, half, sessionVars>>
    BY <1>13 DEF PollAgents
  <2> QED BY <2>1, <1>0, <1>12, <1>13, PollAgentsKeeps
<1>14. CASE DropEntry
  <2>1. UNCHANGED <<recorded, half, sessionVars>>
    BY <1>14 DEF DropEntry
  <2> QED BY <2>1, <1>0, <1>12, <1>14, DropKeeps
<1>15. CASE UNCHANGED agentVars
  <2>1. UNCHANGED <<recorded, half, sessionVars>> /\ UNCHANGED <<emptied, scan, readTo, partial, jobs>>
    BY <1>15 DEF agentVars, readerOfAgents
  <2>2. FileOK' /\ FileSize' = FileSize
    BY <2>1, <1>0 DEF FileOK, FileSize
  <2>3. ReadOK'
    BY <2>1, <2>2, <1>0 DEF ReadOK, ScanOK
  <2> QED BY <2>1, <2>2, <2>3, <1>12
<1> QED BY <1>4, <1>5, <1>6, <1>7, <1>8, <1>9, <1>10, <1>11, <1>13, <1>14, <1>15 DEF AgentNext

THEOREM AgentInvariance == AgentSpec => []AgentInv
<1>1. AgentInit => AgentInv
  BY AgentInvStart
<1>2. AgentInv /\ [AgentNext]_agentVars => AgentInv'
  BY AgentStep
<1> QED BY <1>1, <1>2, PTL DEF AgentSpec

\* The session's state, the file and its reader keep their types.
THEOREM AgentTypeCorrect == AgentSpec => []AgentTypeOK
<1>1. AgentInv => AgentTypeOK
  BY DEF AgentInv, AgentReads, SessionOK, FileOK, ReadOK, ScanOK, AgentTypeOK
<1> QED BY <1>1, AgentInvariance, PTL

\* What an answer about a file without a half record is.
LEMMA AnswerIs ==
  ASSUME AgentInv, Answered
  PROVE  jobs = Story.launches /\ Scanned(EmptyScan, 0) = Story
<1>1. half = NoRecord /\ readTo = FileSize /\ FileOK /\ ReadOK
  BY DEF Answered, AgentInv, AgentReads
<1>2. FileSize \in Nat /\ FileSize \div 2 = Len(recorded) /\ Len(recorded) \in Nat
  BY <1>1, FileSizeIs
<1>3. ~emptied /\ scan = Prefix(recorded, Len(recorded)) /\ jobs = scan.launches
  BY <1>1, <1>2 DEF ReadOK
<1>4. Scanned(EmptyScan, 0) = Prefix(recorded, Len(recorded))
  <2>1. 0 \in 0..Len(recorded) /\ 2 * 0 = 0
    BY <1>2
  <2>2. Scanned(Prefix(recorded, 0), 2 * 0) = Prefix(recorded, Len(recorded))
    BY <2>1, <1>2, ScannedIs
  <2> QED BY <2>1, <2>2, PrefixSteps
<1> QED BY <1>1, <1>3, <1>4 DEF Story

LEMMA AnswerLists ==
  ASSUME AgentInv, Answered
  PROVE  RowsAreRuns /\ PartIsWhole /\ (~LateRepeats => OwnEndOnly)
<1> DEFINE l == Story.launches
           n == Len(l)
           ids == {jobs[i].call : i \in DOMAIN jobs}
<1>1. jobs = l /\ Scanned(EmptyScan, 0) = Story /\ half = NoRecord
  BY AnswerIs DEF Answered
<1>2. SessionOK /\ FileOK /\ StoryInv /\ (~LateRepeats => EndsOK)
  BY DEF AgentInv, AgentReads
<1>3. l \in Seq(RowType) /\ n \in Nat /\ DOMAIN l = 1..n /\ \A i \in 1..n : l[i].call \in Nat /\ l[i].agent \in Agents \cup {NoAgent}
  BY <1>2, StoryIs
<1> HIDE DEF l, n
<1>4. PartIsWhole
  BY <1>1 DEF PartIsWhole, l
<1>5. /\ \A i, j \in 1..n : l[i].call = l[j].call => i = j
      /\ \A i \in 1..n : l[i].call \in ToldLaunches \/ l[i].call \in began
      /\ \A c \in Nat : c \in ToldLaunches \/ c \in began => \E i \in 1..n : l[i].call = c
      /\ \A i \in 1..n : l[i].agent # NoAgent => l[i].origin = launchOf[l[i].agent] /\ runOf[l[i].agent] # 0
  BY <1>2 DEF StoryInv, RowsOK, l, n
<1>6. ToldLaunches = WrittenLaunches
  <2>1. DOMAIN recorded = 1..Len(recorded)
    BY <1>2 DEF FileOK
  <2> QED BY <2>1, <1>1 DEF ToldLaunches, Told, WrittenLaunches
<1>7. ids = {l[i].call : i \in 1..n}
  BY <1>1, <1>3
<1>8. WrittenLaunches \subseteq Nat /\ began \subseteq Nat
  <2>1. \A r \in Told : r.call \in Nat
    BY <1>2, RecordFields DEF StoryInv, ToldOK
  <2> QED BY <2>1, <1>2, <1>6, StoryIs DEF ToldLaunches
<1>9. ids = WrittenLaunches \cup began
  <2>1. ASSUME NEW c \in ids PROVE c \in WrittenLaunches \cup began
    <3>1. PICK i \in 1..n : c = l[i].call
      BY <1>7
    <3> QED BY <3>1, <1>5, <1>6
  <2>2. ASSUME NEW c \in WrittenLaunches \cup began PROVE c \in ids
    <3>1. PICK i \in 1..n : l[i].call = c
      BY <1>5, <1>6, <1>8
    <3> QED BY <3>1, <1>7
  <2> HIDE DEF ids
  <2> QED BY <2>1, <2>2
<1>10. Cardinality(ids) = Len(jobs)
  <2> DEFINE f == [i \in 1..n |-> l[i].call]
  <2>1. f \in [1..n -> ids] /\ (\A i, j \in 1..n : f[i] = f[j] => i = j) /\ \A c \in ids : \E i \in 1..n : f[i] = c
    BY <1>5, <1>7
  <2> HIDE DEF f, ids
  <2>2. f \in Bijection(1..n, ids)
    BY <2>1, Fun_IsBij
  <2>3. ExistsBijection(1..n, ids)
    BY <2>2 DEF ExistsBijection
  <2>4. Cardinality(ids) = n
    BY <2>3, <1>3, FS_CountingElements
  <2> QED BY <2>4, <1>1 DEF n
<1>11. RowsAreRuns
  <2>1. \A i \in DOMAIN jobs : jobs[i].agent # NoAgent => jobs[i].origin = launchOf[jobs[i].agent]
    BY <1>1, <1>3, <1>5
  <2> QED BY <2>1, <1>9, <1>10 DEF RowsAreRuns
<1>12. ~LateRepeats => OwnEndOnly
  BY <1>1, <1>2, <1>3 DEF OwnEndOnly, EndsOK, l, n
<1> QED BY <1>4, <1>11, <1>12

\* Whatever was read when, and whatever is told again: an answer has one row for
\* each launch and each resume, of its agent's type, and is the answer from the
\* whole file.
THEOREM AnswersAreWhole == AgentSpec => [](Answered => RowsAreRuns /\ PartIsWhole)
<1>1. AgentInv => (Answered => RowsAreRuns /\ PartIsWhole)
  BY AnswerLists
<1> QED BY <1>1, AgentInvariance, PTL

\* And where no end is told late, a row is done exactly when its own run is.
THEOREM AgentsCorrect == ASSUME ~LateRepeats PROVE AgentSpec => []AgentsAreListed
<1>1. AgentInv => AgentsAreListed
  BY AnswerLists DEF AgentsAreListed
<1> QED BY <1>1, AgentInvariance, PTL

-----------------------------------------------------------------------------
(* The ledger's file.                                                       *)
\* Sequences behind one another, and the end of one.
LEMMA Joins ==
  ASSUME NEW T, NEW s \in Seq(T), NEW t \in Seq(T)
  PROVE  /\ s \o t \in Seq(T) /\ Len(s \o t) = Len(s) + Len(t)
         /\ \A i \in 1..Len(s) : (s \o t)[i] = s[i]
         /\ \A i \in 1..Len(t) : (s \o t)[Len(s) + i] = t[i]
OBVIOUS

LEMMA EndOf ==
  ASSUME NEW T, NEW s \in Seq(T), NEW k \in 0..Len(s)
  PROVE  /\ SubSeq(s, k + 1, Len(s)) \in Seq(T) /\ Len(SubSeq(s, k + 1, Len(s))) = Len(s) - k
         /\ \A i \in 1..(Len(s) - k) : SubSeq(s, k + 1, Len(s))[i] = s[k + i]
OBVIOUS

Bytes == {Newline} \cup {<<n, j>> : n \in 1..MaxLines, j \in 1..(MaxBytes \div 4)}
LineOf(n, len) == [j \in 1..len |-> <<n, j>>]
WithLine(n, len) == ledger \o LineOf(n, len) \o <<Newline>>

LEMMA FileNumbers ==
  /\ MaxBytes \in Nat \ {0} /\ MaxLines \in Nat /\ Keep \in Nat /\ Keep <= MaxBytes
  /\ \A len \in LineLengths : len \in Nat \ {0} /\ len <= MaxBytes \div 4 /\ len + 1 < Keep /\ len + 1 <= MaxBytes
<1>1. MaxBytes \in Nat \ {0} /\ MaxLines \in Nat /\ Keep = MaxBytes \div 2
  BY FileBounds DEF Keep
<1>2. Keep \in Nat /\ 2 * Keep <= MaxBytes
  BY <1>1
<1>3. ASSUME NEW len \in LineLengths PROVE len \in Nat \ {0} /\ len <= MaxBytes \div 4 /\ len + 1 < Keep /\ len + 1 <= MaxBytes
  <2>1. len \in Nat \ {0} /\ 2 * (len + 1) <= Keep
    BY <1>1, FileBounds
  <2>2. 4 * len <= MaxBytes
    BY <2>1, <1>1, <1>2
  <2>3. len <= MaxBytes \div 4
    BY <2>1, <2>2, <1>1
  <2> QED BY <2>1, <2>3, <1>1, <1>2
<1> QED BY <1>1, <1>2, <1>3

\* What is appended, byte by byte.
LEMMA WithLineIs ==
  ASSUME FileTypeOK, Appended < MaxLines, NEW len \in LineLengths, NEW cut \in 0..len
  PROVE  /\ Appended \in Nat /\ Len(ledger) \in Nat /\ ledger \in Seq(Bytes)
         /\ ledger \o LineOf(Appended + 1, cut) \in Seq(Bytes) /\ Len(ledger \o LineOf(Appended + 1, cut)) = Len(ledger) + cut
         /\ WithLine(Appended + 1, len) \in Seq(Bytes) /\ Len(WithLine(Appended + 1, len)) = Len(ledger) + len + 1
         /\ \A i \in 1..Len(ledger) : WithLine(Appended + 1, len)[i] = ledger[i]
         /\ \A j \in 1..len : WithLine(Appended + 1, len)[Len(ledger) + j] = <<Appended + 1, j>>
         /\ WithLine(Appended + 1, len)[Len(ledger) + len + 1] = Newline
<1> DEFINE n == Appended + 1
           head == LineOf(n, cut)
           line == LineOf(n, len)
           w == WithLine(n, len)
<1>1. Appended \in Nat /\ Len(ledger) \in Nat /\ ledger \in Seq(Bytes) /\ n \in 1..MaxLines /\ len \in Nat \ {0} /\ cut \in Nat /\ cut <= len
  BY FileNumbers DEF FileTypeOK, Appended, Bytes
<1>2. \A j \in 1..len : <<n, j>> \in Bytes
  BY <1>1, FileNumbers DEF Bytes
<1> HIDE DEF n
<1>3. line \in Seq(Bytes) /\ Len(line) = len /\ \A j \in 1..len : line[j] = <<n, j>>
  BY <1>1, <1>2 DEF LineOf
<1>4. head \in Seq(Bytes) /\ Len(head) = cut
  <2>1. \A j \in 1..cut : j \in 1..len
    BY <1>1
  <2> QED BY <2>1, <1>1, <1>2 DEF LineOf
<1> HIDE DEF line, head
<1>5. ledger \o head \in Seq(Bytes) /\ Len(ledger \o head) = Len(ledger) + cut
  BY <1>1, <1>4
<1>6. /\ ledger \o line \in Seq(Bytes) /\ Len(ledger \o line) = Len(ledger) + len
      /\ \A i \in 1..Len(ledger) : (ledger \o line)[i] = ledger[i]
      /\ \A j \in 1..len : (ledger \o line)[Len(ledger) + j] = <<n, j>>
  <2>1. /\ ledger \o line \in Seq(Bytes) /\ Len(ledger \o line) = Len(ledger) + Len(line)
        /\ \A i \in 1..Len(ledger) : (ledger \o line)[i] = ledger[i]
        /\ \A i \in 1..Len(line) : (ledger \o line)[Len(ledger) + i] = line[i]
    <3>1. ledger \in Seq(Bytes) /\ line \in Seq(Bytes)
      BY <1>1, <1>3
    <3> QED BY <3>1, Joins
  <2> QED BY <2>1, <1>3
<1>7. w = (ledger \o line) \o <<Newline>> /\ Newline \in Bytes
  BY DEF WithLine, line, Bytes
<1> HIDE DEF w
<1> DEFINE b == ledger \o line
<1>8. /\ w \in Seq(Bytes) /\ Len(w) = Len(b) + 1 /\ w[Len(b) + 1] = Newline
      /\ \A i \in 1..Len(b) : w[i] = b[i]
  <2>1. b \in Seq(Bytes) /\ Len(b) \in Nat /\ w = b \o <<Newline>> /\ Newline \in Bytes
    BY <1>1, <1>6, <1>7
  <2> HIDE DEF b
  <2> QED BY <2>1
<1> HIDE DEF b
<1>9. /\ \A i \in 1..Len(ledger) : w[i] = ledger[i]
      /\ \A j \in 1..len : w[Len(ledger) + j] = <<n, j>>
      /\ Len(w) = Len(ledger) + len + 1 /\ w[Len(ledger) + len + 1] = Newline
  <2>1. /\ Len(b) = Len(ledger) + len /\ (\A i \in 1..Len(ledger) : b[i] = ledger[i])
        /\ \A j \in 1..len : b[Len(ledger) + j] = <<n, j>>
    BY <1>6 DEF b
  <2>2. /\ \A i \in 1..Len(ledger) : i \in 1..Len(b)
        /\ \A j \in 1..len : Len(ledger) + j \in 1..Len(b)
    BY <2>1, <1>1
  <2> QED BY <2>1, <2>2, <1>1, <1>8
<1> QED BY <1>1, <1>5, <1>8, <1>9 DEF n, w, head

\* What a rotation keeps: everything from behind a newline on, and no newline is
\* between that one and the start of the newest half.
Cuts(bytes, k) ==
  /\ k \in (Len(bytes) - Keep + 1)..Len(bytes) /\ bytes[k] = Newline
  /\ Rotated(bytes) = SubSeq(bytes, k + 1, Len(bytes))
LEMMA RotatedIs ==
  ASSUME NEW bytes \in Seq(Bytes), Len(bytes) > MaxBytes, NEW e \in (Len(bytes) - Keep + 1)..Len(bytes), bytes[e] = Newline
  PROVE  \E k \in (Len(bytes) - Keep + 1)..e : Cuts(bytes, k)
<1> DEFINE L == Len(bytes)
           newer == SubSeq(bytes, L - Keep + 1, L)
           ends == {i \in 1..Keep : newer[i] = Newline}
           first == CHOOSE i \in ends : \A k \in ends : i <= k
<1>1. L \in Nat /\ Keep \in Nat /\ Keep <= L /\ MaxBytes \in Nat
  BY FileNumbers
<1> HIDE DEF L
<1>2. newer \in Seq(Bytes) /\ Len(newer) = Keep /\ \A i \in 1..Keep : newer[i] = bytes[L - Keep + i]
  BY <1>1 DEF L
<1> HIDE DEF newer
<1>3. e - (L - Keep) \in ends
  BY <1>1, <1>2 DEF L
<1>4. PICK x \in ends : \A k \in ends : x <= k
  <2>1. ends \subseteq Nat
    BY <1>1
  <2> HIDE DEF ends
  <2> QED BY <2>1, <1>3, LeastNat
<1>5. first \in ends /\ \A k \in ends : first <= k
  <2> HIDE DEF ends
  <2> QED BY <1>4
<1>6. Rotated(bytes) = SubSeq(newer, first + 1, Keep)
  <2>1. Rotated(bytes) = IF L <= MaxBytes THEN bytes ELSE IF ends = {} THEN bytes ELSE SubSeq(newer, first + 1, Keep)
    BY DEF Rotated, newer, L
  <2>2. ~(L <= MaxBytes) /\ ends # {}
    BY <1>1, <1>3 DEF L
  <2> HIDE DEF ends, first
  <2> QED BY <2>1, <2>2
<1> DEFINE k == L - Keep + first
<1> HIDE DEF first
<1>7. first \in 1..Keep /\ newer[first] = Newline /\ first <= e - (L - Keep)
  BY <1>3, <1>5
<1>8. k \in (L - Keep + 1)..e /\ bytes[k] = Newline /\ k \in Int
  BY <1>1, <1>2, <1>7 DEF L
<1>9. SubSeq(newer, first + 1, Keep) = SubSeq(bytes, k + 1, L)
  <2> DEFINE u == SubSeq(newer, first + 1, Keep)
             v == SubSeq(bytes, k + 1, L)
  <2>1. k \in Int /\ k = L - Keep + first /\ 1 <= k /\ k <= L /\ L = Len(bytes)
    BY <1>1, <1>7 DEF L
  <2> HIDE DEF k
  <2>2. u \in Seq(Bytes) /\ Len(u) = Keep - first /\ \A i \in 1..(Keep - first) : u[i] = newer[first + i]
    BY <1>1, <1>2, <1>7
  <2>3. v \in Seq(Bytes) /\ Len(v) = L - k /\ \A i \in 1..(L - k) : v[i] = bytes[k + i]
    <3>1. k \in 0..Len(bytes)
      BY <2>1
    <3> QED BY <3>1, <2>1, EndOf
  <2>4. Keep - first = L - k /\ \A i \in 1..(L - k) : newer[first + i] = bytes[k + i]
    BY <1>1, <1>2, <1>7, <2>1
  <2> HIDE DEF u, v
  <2>5. Len(u) = Len(v) /\ \A i \in 1..Len(u) : u[i] = v[i]
    BY <2>2, <2>3, <2>4
  <2>6. u = v
    BY <2>2, <2>3, <2>5
  <2> QED BY <2>6 DEF u, v
<1> HIDE DEF k
<1>10. Cuts(bytes, k)
  <2>1. k \in (L - Keep + 1)..L
    BY <1>1, <1>8 DEF L
  <2> QED BY <2>1, <1>6, <1>8, <1>9 DEF Cuts, L
<1> QED BY <1>8, <1>10 DEF L

LEMMA FileStep == ASSUME FileTypeOK, [FileNext]_fileVars PROVE FileTypeOK'
<1>1. CASE AppendLine
  <2>1. PICK len \in LineLengths : lengths' = Append(lengths, len) /\ ledger' = Rotated(WithLine(Appended + 1, len))
    BY <1>1 DEF AppendLine, WithLine, LineOf
  <2>2. broken' = broken /\ Appended < MaxLines
    BY <1>1 DEF AppendLine
  <2> DEFINE w == WithLine(Appended + 1, len)
  <2>3. /\ Appended \in Nat /\ Len(ledger) \in Nat /\ w \in Seq(Bytes) /\ Len(w) = Len(ledger) + len + 1 /\ w[Len(w)] = Newline
        /\ len \in Nat /\ len + 1 < Keep /\ Keep \in Nat /\ Keep <= MaxBytes /\ MaxBytes \in Nat
    <3>1. 0 \in 0..len
      BY FileNumbers
    <3> QED BY <3>1, <2>2, WithLineIs, FileNumbers
  <2> HIDE DEF w
  <2>4. lengths' \in Seq(LineLengths) /\ Len(lengths') <= MaxLines
    BY <2>1, <2>2, FileNumbers DEF FileTypeOK, Appended
  <2>5. ledger' \in Seq(Bytes) /\ Len(ledger') <= MaxBytes
    <3>1. CASE Len(w) <= MaxBytes
      BY <3>1, <2>1, <2>3 DEF Rotated, w
    <3>2. CASE ~(Len(w) <= MaxBytes)
      <4>1. Len(w) \in (Len(w) - Keep + 1)..Len(w) /\ Len(w) > MaxBytes
        BY <3>2, <2>3
      <4>2. PICK k \in (Len(w) - Keep + 1)..Len(w) : Cuts(w, k)
        BY <4>1, <2>3, RotatedIs
      <4>3. ledger' = SubSeq(w, k + 1, Len(w)) /\ k \in Nat \ {0}
        BY <4>1, <4>2, <2>1, <2>3 DEF Cuts, w
      <4>4. Len(ledger') = Len(w) - k
        BY <4>3, <2>3
      <4>5. ledger' \in Seq(Bytes)
        BY <4>3, <2>3
      <4> QED BY <4>4, <4>5, <2>3
    <3> QED BY <3>1, <3>2
  <2> QED BY <2>2, <2>4, <2>5 DEF FileTypeOK, Bytes
<1>2. CASE CutAppend
  <2>0. PICK len \in LineLengths : \E cut \in 0..len : lengths' = Append(lengths, len) /\ ledger' = ledger \o LineOf(Appended + 1, cut)
    BY <1>2 DEF CutAppend, LineOf
  <2>1. PICK cut \in 0..len : lengths' = Append(lengths, len) /\ ledger' = ledger \o LineOf(Appended + 1, cut)
    BY <2>0
  <2>2. Appended < MaxLines /\ broken' = TRUE
    BY <1>2 DEF CutAppend
  <2>3. ledger' \in Seq(Bytes)
    BY <2>1, <2>2, WithLineIs
  <2>4. lengths' \in Seq(LineLengths) /\ Len(lengths') <= MaxLines
    BY <2>1, <2>2, FileNumbers DEF FileTypeOK, Appended
  <2> QED BY <2>2, <2>3, <2>4 DEF FileTypeOK, Bytes
<1>3. CASE UNCHANGED fileVars
  BY <1>3 DEF FileTypeOK, fileVars
<1> QED BY <1>1, <1>2, <1>3 DEF FileNext

LEMMA FileTypeStarts == ASSUME FileInit PROVE FileTypeOK
<1>1. ledger = <<>> /\ lengths = <<>> /\ broken = FALSE /\ Len(<<>>) = 0 /\ 0 <= MaxLines /\ 0 <= MaxBytes
  BY FileNumbers DEF FileInit
<1>2. ledger \in Seq(Bytes) /\ lengths \in Seq(LineLengths)
  BY <1>1
<1>3. Len(lengths) <= MaxLines /\ Len(ledger) <= MaxBytes /\ broken \in BOOLEAN
  BY <1>1
<1> QED BY <1>2, <1>3 DEF FileTypeOK, Bytes

\* The file holds bytes of its lines, and after a tick no more than the ceiling.
THEOREM FileTypeCorrect == FileSpec => []FileTypeOK
<1>1. FileInit => FileTypeOK
  BY FileTypeStarts
<1>2. FileTypeOK /\ [FileNext]_fileVars => FileTypeOK'
  BY FileStep
<1> QED BY <1>1, <1>2, PTL DEF FileSpec


-----------------------------------------------------------------------------
\* Line n, of len bytes, stands from the i-th byte on.
StandsAt(bytes, len, n, i) ==
  /\ i \in 1..Len(bytes) /\ i + len - 1 <= Len(bytes) /\ \A d \in 1..len : bytes[i + d - 1] = <<n, d>>
  /\ i = 1 \/ bytes[i - 1] = Newline
  /\ i + len > Len(bytes) \/ bytes[i + len] = Newline

LEMMA SubLine ==
  ASSUME NEW bytes \in Seq(Bytes), NEW len \in Nat \ {0}, NEW n, NEW i \in 1..Len(bytes), i + len - 1 <= Len(bytes)
  PROVE  SubSeq(bytes, i, i + len - 1) = LineOf(n, len) <=> \A d \in 1..len : bytes[i + d - 1] = <<n, d>>
<1> DEFINE u == SubSeq(bytes, i, i + len - 1)
           v == [j \in 1..len |-> <<n, j>>]
<1>1. Len(bytes) \in Nat /\ i \in Nat
  OBVIOUS
<1>2. u \in Seq(Bytes) /\ Len(u) = len /\ \A d \in 1..len : u[d] = bytes[i + d - 1]
  BY <1>1
<1>3. \A d \in 1..len : v[d] = <<n, d>>
  OBVIOUS
<1>4. u = [d \in 1..len |-> u[d]] /\ v = [d \in 1..len |-> v[d]]
  <2> HIDE DEF u
  <2> QED BY <1>2
<1> HIDE DEF u, v
<1>5. u = v <=> \A d \in 1..len : u[d] = v[d]
  BY <1>4
<1>6. u = v <=> \A d \in 1..len : bytes[i + d - 1] = <<n, d>>
  BY <1>2, <1>3, <1>5
<1> QED BY <1>6 DEF u, v, LineOf

StandsIn(bytes, len, n) ==
  \E i \in 1..Len(bytes) :
    /\ i + len - 1 <= Len(bytes) /\ SubSeq(bytes, i, i + len - 1) = LineOf(n, len)
    /\ i = 1 \/ bytes[i - 1] = Newline
    /\ i + len > Len(bytes) \/ bytes[i + len] = Newline

LEMMA StandsIs ==
  ASSUME NEW bytes \in Seq(Bytes), NEW len \in Nat \ {0}, NEW n
  PROVE  StandsIn(bytes, len, n) <=> \E i \in Nat : StandsAt(bytes, len, n, i)
<1>1. Len(bytes) \in Nat
  OBVIOUS
<1>2. ASSUME NEW i \in 1..Len(bytes), i + len - 1 <= Len(bytes)
      PROVE  SubSeq(bytes, i, i + len - 1) = LineOf(n, len) <=> \A d \in 1..len : bytes[i + d - 1] = <<n, d>>
  BY <1>2, SubLine
<1>3. StandsIn(bytes, len, n) <=> \E i \in 1..Len(bytes) : StandsAt(bytes, len, n, i)
  BY <1>2 DEF StandsIn, StandsAt
<1>4. \A i : StandsAt(bytes, len, n, i) => i \in 1..Len(bytes) /\ i \in Nat
  BY <1>1 DEF StandsAt
<1>5. (\E i \in 1..Len(bytes) : StandsAt(bytes, len, n, i)) <=> \E i \in Nat : StandsAt(bytes, len, n, i)
  BY <1>4
<1> QED BY <1>3, <1>5

\* The lines are in order, and the last of them ends.
InOrder ==
  ~broken =>
    /\ \A i \in 1..Len(ledger) : ledger[i][1] <= Appended
    /\ \A i, k \in 1..Len(ledger) : i < k => ledger[k] = Newline \/ ledger[i][1] <= ledger[k][1]
    /\ ledger # <<>> => ledger[Len(ledger)] = Newline

LEMMA ByteFields == \A b \in Bytes : b[1] \in Nat /\ (b[1] = 0 <=> b = Newline)
<1>1. ASSUME NEW b \in Bytes PROVE b[1] \in Nat /\ (b[1] = 0 <=> b = Newline)
  <2>1. CASE b = Newline
    BY <2>1 DEF Newline
  <2>2. CASE b # Newline
    <3>1. PICK n \in 1..MaxLines, j \in 1..(MaxBytes \div 4) : b = <<n, j>>
      BY <2>2 DEF Bytes
    <3> QED BY <3>1, <2>2, FileNumbers
  <2> QED BY <2>1, <2>2
<1> QED BY <1>1

\* What an append makes of an ordered file, before the rotation.
LEMMA AppendInOrder ==
  ASSUME FileTypeOK, InOrder, ~broken, Appended < MaxLines, NEW len \in LineLengths, NEW w, w = WithLine(Appended + 1, len)
  PROVE  /\ \A i \in 1..Len(w) : w[i][1] <= Appended + 1
         /\ \A i, k \in 1..Len(w) : i < k => w[k] = Newline \/ w[i][1] <= w[k][1]
         /\ w[Len(w)] = Newline
<1> DEFINE L == Len(ledger)
           n == Appended + 1
<1>1. /\ Appended \in Nat /\ L \in Nat /\ w \in Seq(Bytes) /\ Len(w) = L + len + 1 /\ len \in Nat \ {0}
      /\ \A i \in 1..L : w[i] = ledger[i]
      /\ \A j \in 1..len : w[L + j] = <<n, j>>
      /\ w[L + len + 1] = Newline
  <2>1. 0 \in 0..len
    BY FileNumbers
  <2> QED BY <2>1, WithLineIs, FileNumbers
<1>2. \A i \in 1..L : ledger[i] \in Bytes /\ ledger[i][1] \in Nat /\ ledger[i][1] <= Appended
  <2>1. ledger \in Seq(Bytes)
    BY DEF FileTypeOK, Bytes
  <2> QED BY <2>1, ByteFields DEF InOrder
<1> HIDE DEF L, n
<1>3. Newline[1] = 0
  BY DEF Newline
<1>4. \A i \in 1..Len(w) : \/ i \in 1..L /\ w[i] = ledger[i] /\ w[i][1] \in Nat /\ w[i][1] <= Appended
                           \/ i - L \in 1..len /\ w[i] = <<n, i - L>> /\ w[i][1] = n
                           \/ i = L + len + 1 /\ w[i] = Newline /\ w[i][1] = 0
  <2> SUFFICES ASSUME NEW i \in 1..Len(w)
               PROVE  \/ i \in 1..L /\ w[i] = ledger[i] /\ w[i][1] \in Nat /\ w[i][1] <= Appended
                      \/ i - L \in 1..len /\ w[i] = <<n, i - L>> /\ w[i][1] = n
                      \/ i = L + len + 1 /\ w[i] = Newline /\ w[i][1] = 0
    OBVIOUS
  <2>1. CASE i \in 1..L
    BY <2>1, <1>1, <1>2
  <2>2. CASE i - L \in 1..len
    <3>1. L + (i - L) = i
      BY <1>1
    <3>2. w[i] = <<n, i - L>>
      BY <3>1, <2>2, <1>1
    <3> QED BY <3>2, <2>2
  <2>3. CASE i = L + len + 1
    BY <2>3, <1>1, <1>3
  <2> QED BY <2>1, <2>2, <2>3, <1>1
<1>5. n \in Nat /\ n = Appended + 1
  BY <1>1 DEF n
<1>6. \A i \in 1..Len(w) : w[i][1] <= n
  <2> SUFFICES ASSUME NEW i \in 1..Len(w) PROVE w[i][1] <= n
    OBVIOUS
  <2>1. w[i][1] = n \/ w[i][1] = 0 \/ (w[i][1] \in Nat /\ w[i][1] <= Appended)
    BY <1>4
  <2>2. Appended \in Nat
    BY <1>1
  <2> QED BY <2>1, <2>2, <1>5
<1>7. ASSUME NEW i \in 1..Len(w), NEW k \in 1..Len(w), i < k PROVE w[k] = Newline \/ w[i][1] <= w[k][1]
  <2>1. CASE k \in 1..L
    <3>1. i \in 1..L /\ w[i] = ledger[i] /\ w[k] = ledger[k]
      BY <2>1, <1>1, <1>7
    <3> QED BY <3>1, <2>1, <1>7 DEF InOrder, L
  <2>2. CASE k - L \in 1..len
    <3>1. w[k][1] = n
      <4>1. ~(k \in 1..L) /\ k # L + len + 1
        BY <2>2, <1>1
      <4> QED BY <4>1, <1>4
    <3> QED BY <3>1, <1>6
  <2>3. CASE k = L + len + 1
    BY <2>3, <1>1
  <2> QED BY <2>1, <2>2, <2>3, <1>4
<1> QED BY <1>1, <1>5, <1>6, <1>7

\* The file after a tick: what stands behind some newline of the file and the
\* line just appended.
LEMMA TickIs ==
  ASSUME FileTypeOK, InOrder, ~broken, AppendLine
  PROVE  \E len \in LineLengths, k \in Nat :
           LET w == WithLine(Appended + 1, len) IN
           /\ lengths' = Append(lengths, len) /\ k <= Len(ledger) /\ (k # 0 => w[k] = Newline)
           /\ Len(ledger') = Len(w) - k /\ ledger' \in Seq(Bytes) /\ \A i \in 1..(Len(w) - k) : ledger'[i] = w[k + i]
<1>1. PICK len \in LineLengths : lengths' = Append(lengths, len) /\ ledger' = Rotated(WithLine(Appended + 1, len))
  BY DEF AppendLine, WithLine, LineOf
<1>2. Appended < MaxLines
  BY DEF AppendLine
<1> DEFINE w == WithLine(Appended + 1, len)
           L == Len(ledger)
<1>3. /\ Appended \in Nat /\ L \in Nat /\ w \in Seq(Bytes) /\ Len(w) = L + len + 1
      /\ \A i \in 1..L : w[i] = ledger[i]
      /\ len \in Nat \ {0} /\ len + 1 < Keep /\ Keep \in Nat /\ Keep <= MaxBytes /\ MaxBytes \in Nat /\ len + 1 <= MaxBytes
  <2>1. 0 \in 0..len
    BY FileNumbers
  <2> QED BY <2>1, <1>2, WithLineIs, FileNumbers
<1>4. CASE Len(w) <= MaxBytes
  <2>1. ledger' = w
    BY <1>1, <1>4 DEF Rotated
  <2> HIDE DEF w
  <2>2. Len(ledger') = Len(w) - 0 /\ ledger' \in Seq(Bytes) /\ \A i \in 1..(Len(w) - 0) : ledger'[i] = w[0 + i]
    BY <2>1, <1>3
  <2>3. 0 \in Nat /\ 0 <= L
    BY <1>3
  <2> QED BY <2>2, <2>3, <1>1 DEF w
<1>5. CASE Len(w) > MaxBytes
  <2> HIDE DEF w
  <2>1. L \in 1..L /\ ledger[L] = Newline /\ w[L] = Newline
    <3>1. L > 0
      BY <1>3, <1>5
    <3>2. ledger # <<>>
      BY <3>1
    <3>3. L \in 1..L
      BY <3>1, <1>3
    <3> QED BY <3>2, <3>3, <1>3 DEF InOrder
  <2>2. L \in (Len(w) - Keep + 1)..Len(w)
    BY <1>3, <2>1
  <2>3. PICK k \in (Len(w) - Keep + 1)..L : Cuts(w, k)
    BY <2>1, <2>2, <1>3, <1>5, RotatedIs
  <2>4. k \in Nat \ {0} /\ k <= L /\ w[k] = Newline /\ ledger' = SubSeq(w, k + 1, Len(w))
    BY <2>3, <1>1, <1>3, <1>5 DEF Cuts, w
  <2>5. Len(ledger') = Len(w) - k /\ ledger' \in Seq(Bytes) /\ \A i \in 1..(Len(w) - k) : ledger'[i] = w[k + i]
    <3>1. k \in 0..Len(w)
      BY <2>4, <1>3
    <3> QED BY <3>1, <2>4, <1>3, EndOf
  <2> QED BY <2>4, <2>5, <1>1 DEF w
<1>6. Len(w) <= MaxBytes \/ Len(w) > MaxBytes
  <2> HIDE DEF w
  <2> QED BY <1>3
<1> HIDE DEF w
<1> QED BY <1>4, <1>5, <1>6 DEF w

LEMMA OrderStep == ASSUME FileTypeOK, InOrder, [FileNext]_fileVars PROVE InOrder'
<1>1. CASE ~broken /\ AppendLine
  <2>1. PICK len \in LineLengths, k \in Nat :
           LET w == WithLine(Appended + 1, len) IN
           /\ lengths' = Append(lengths, len) /\ k <= Len(ledger) /\ (k # 0 => w[k] = Newline)
           /\ Len(ledger') = Len(w) - k /\ ledger' \in Seq(Bytes) /\ \A i \in 1..(Len(w) - k) : ledger'[i] = w[k + i]
    BY <1>1, TickIs
  <2> DEFINE w == WithLine(Appended + 1, len)
  <2>2. Appended < MaxLines /\ broken' = broken
    BY <1>1 DEF AppendLine
  <2>3. /\ Len(w) \in Nat /\ Appended \in Nat /\ Len(ledger) \in Nat /\ Len(w) = Len(ledger) + len + 1 /\ len \in Nat
    <3>1. 0 \in 0..len
      BY FileNumbers
    <3> QED BY <3>1, <2>2, WithLineIs, FileNumbers
  <2>4. /\ \A i \in 1..Len(w) : w[i][1] <= Appended + 1
        /\ \A i, j \in 1..Len(w) : i < j => w[j] = Newline \/ w[i][1] <= w[j][1]
        /\ w[Len(w)] = Newline
    BY <1>1, <2>2, AppendInOrder
  <2>5. Len(ledger') = Len(w) - k /\ (\A i \in 1..(Len(w) - k) : ledger'[i] = w[k + i]) /\ k <= Len(ledger)
    BY <2>1
  <2>6. Appended' = Appended + 1
    BY <2>1 DEF Appended, FileTypeOK
  <2> HIDE DEF w
  <2>7. \A i \in 1..(Len(w) - k) : k + i \in 1..Len(w)
    BY <2>3
  <2>8. \A i \in 1..Len(ledger') : ledger'[i][1] <= Appended'
    BY <2>4, <2>5, <2>6, <2>7
  <2>9. \A i, j \in 1..Len(ledger') : i < j => ledger'[j] = Newline \/ ledger'[i][1] <= ledger'[j][1]
    <3> SUFFICES ASSUME NEW i \in 1..Len(ledger'), NEW j \in 1..Len(ledger'), i < j PROVE ledger'[j] = Newline \/ ledger'[i][1] <= ledger'[j][1]
      OBVIOUS
    <3>1. k + i \in 1..Len(w) /\ k + j \in 1..Len(w) /\ k + i < k + j /\ ledger'[i] = w[k + i] /\ ledger'[j] = w[k + j]
      BY <2>3, <2>5, <2>7
    <3> QED BY <3>1, <2>4
  <2>10. ledger'[Len(ledger')] = Newline
    <3>1. Len(ledger') \in 1..(Len(w) - k) /\ k + Len(ledger') = Len(w)
      BY <2>3, <2>5
    <3> QED BY <3>1, <2>4, <2>5
  <2> QED BY <2>8, <2>9, <2>10 DEF InOrder
<1>2. CASE broken /\ AppendLine
  BY <1>2 DEF AppendLine, InOrder
<1>3. CASE CutAppend
  BY <1>3 DEF CutAppend, InOrder
<1>4. CASE UNCHANGED fileVars
  BY <1>4 DEF InOrder, fileVars, Appended
<1> QED BY <1>1, <1>2, <1>3, <1>4 DEF FileNext


\* A rotation throws away only the oldest lines, and never the one just written.
LEMMA TickKeepsNewest ==
  ASSUME FileTypeOK, FileTypeOK', InOrder, ~broken, AppendLine
  PROVE  /\ \A n \in Standing' : \A m \in Standing : n < m => m \in Standing'
         /\ Appended' \in Standing'
<1>1. PICK len \in LineLengths, k \in Nat :
         LET w == WithLine(Appended + 1, len) IN
         /\ lengths' = Append(lengths, len) /\ k <= Len(ledger) /\ (k # 0 => w[k] = Newline)
         /\ Len(ledger') = Len(w) - k /\ ledger' \in Seq(Bytes) /\ \A i \in 1..(Len(w) - k) : ledger'[i] = w[k + i]
  BY TickIs
<1>2. Appended < MaxLines
  BY DEF AppendLine
<1> DEFINE w == WithLine(Appended + 1, len)
           L == Len(ledger)
           top == Appended + 1
<1>3. /\ Appended \in Nat /\ L \in Nat /\ w \in Seq(Bytes) /\ Len(w) = L + len + 1 /\ len \in Nat \ {0} /\ ledger \in Seq(Bytes)
      /\ \A i \in 1..L : w[i] = ledger[i]
      /\ \A j \in 1..len : w[L + j] = <<top, j>>
      /\ w[L + len + 1] = Newline
  <2>1. 0 \in 0..len
    BY FileNumbers
  <2> QED BY <2>1, <1>2, WithLineIs, FileNumbers
<1>4. /\ lengths' = Append(lengths, len) /\ k <= L /\ (k # 0 => w[k] = Newline) /\ k \in Nat
      /\ Len(ledger') = Len(w) - k /\ ledger' \in Seq(Bytes) /\ \A i \in 1..(Len(w) - k) : ledger'[i] = w[k + i]
  BY <1>1
<1>5. \A i, j \in 1..Len(w) : i < j => w[j] = Newline \/ w[i][1] <= w[j][1]
  BY <1>2, AppendInOrder
<1>6. ledger # <<>> => ledger[L] = Newline
  BY DEF InOrder
<1> HIDE DEF w, L
<1>7. Appended' = top /\ lengths'[top] = len /\ top \in Nat /\ \A n \in 1..Appended : lengths'[n] = lengths[n] /\ lengths[n] \in Nat \ {0}
  <2>1. lengths \in Seq(LineLengths) /\ Appended = Len(lengths) /\ Appended' = Len(lengths')
    BY DEF FileTypeOK, Appended
  <2>2. \A n \in 1..Appended : lengths[n] \in LineLengths
    BY <2>1
  <2>3. /\ Len(lengths') = Len(lengths) + 1 /\ lengths'[Len(lengths) + 1] = len
        /\ \A n \in 1..Len(lengths) : lengths'[n] = lengths[n]
    BY <2>1, <1>3, <1>4
  <2>4. \A n \in 1..Appended : lengths[n] \in Nat \ {0}
    BY <2>2, FileNumbers
  <2> QED BY <2>1, <2>3, <2>4, <1>3
<1> HIDE DEF top
<1>8. /\ \A m : StandsWhole(m) <=> StandsIn(ledger, lengths[m], m)
      /\ \A m : StandsWhole(m)' <=> StandsIn(ledger', lengths'[m], m)
  BY DEF StandsWhole, StandsIn, LineBytes, LineOf
<1>12. /\ L \in Nat /\ len \in Nat \ {0} /\ k \in Nat /\ k <= L /\ Len(w) = L + len + 1 /\ Len(ledger') = Len(w) - k
      /\ Len(w) \in Nat /\ Len(ledger') \in Nat
  BY <1>3, <1>4
\* What stands in the file behind the cut stands in the new one.
<1>9. ASSUME NEW m \in 1..Appended', NEW i \in Nat, i > k, NEW c \in Nat \ {0}, lengths'[m] = c, i + c <= Len(w), w[i + c] = Newline,
             \A d \in 1..c : w[i + d - 1] = <<m, d>>, i = 1 \/ w[i - 1] = Newline
      PROVE  m \in Standing'
  <2> DEFINE j == i - k
  <2>1. j \in 1..Len(ledger') /\ j \in Nat /\ j + c <= Len(ledger')
    <3>1. j \in Nat \ {0} /\ c \in Nat \ {0} /\ Len(w) \in Nat /\ Len(ledger') = Len(w) - k /\ k + j + c <= Len(w)
      BY <1>12, <1>9
    <3> HIDE DEF j
    <3> QED BY <3>1, <1>4
  <2>2. \A d \in 1..c : ledger'[j + d - 1] = <<m, d>>
    <3> SUFFICES ASSUME NEW d \in 1..c PROVE ledger'[j + d - 1] = <<m, d>>
      OBVIOUS
    <3>1. j + d - 1 \in 1..(Len(w) - k) /\ k + (j + d - 1) = i + d - 1
      BY <2>1, <1>3, <1>4, <1>9
    <3> QED BY <3>1, <1>4, <1>9
  <2>3. j = 1 \/ ledger'[j - 1] = Newline
    <3> SUFFICES ASSUME j # 1 PROVE ledger'[j - 1] = Newline
      OBVIOUS
    <3>1. j - 1 \in 1..(Len(w) - k) /\ k + (j - 1) = i - 1 /\ i # 1
      BY <2>1, <1>3, <1>4, <1>9
    <3> QED BY <3>1, <1>4, <1>9
  <2>4. ledger'[j + c] = Newline
    <3>1. j + c \in 1..(Len(w) - k) /\ k + (j + c) = i + c
      BY <2>1, <1>3, <1>4, <1>9
    <3> QED BY <3>1, <1>4, <1>9
  <2>5. StandsAt(ledger', c, m, j)
    <3>1. j + c - 1 <= Len(ledger')
      BY <2>1, <1>3, <1>4
    <3> QED BY <3>1, <2>1, <2>2, <2>3, <2>4 DEF StandsAt
  <2>6. StandsIn(ledger', c, m)
    <3> HIDE DEF j
    <3> QED BY <2>1, <2>5, <1>4, StandsIs
  <2>7. StandsWhole(m)'
    BY <2>6, <1>8, <1>9
  <2> QED BY <2>7 DEF Standing
<1>10. top \in Standing'
  <2>1. \A d \in 1..len : w[(L + 1) + d - 1] = <<top, d>>
    <3> SUFFICES ASSUME NEW d \in 1..len PROVE w[(L + 1) + d - 1] = <<top, d>>
      OBVIOUS
    <3>1. (L + 1) + d - 1 = L + d
      BY <1>3
    <3> QED BY <3>1, <1>3
  <2>2. (L + 1) + len = L + len + 1 /\ L + 1 \in Nat /\ L + 1 > k /\ (L + 1) - 1 = L
    BY <1>3, <1>4
  <2>3. L + 1 = 1 \/ w[(L + 1) - 1] = Newline
    <3> SUFFICES ASSUME L # 0 PROVE w[L] = Newline
      BY <2>2, <1>3
    <3>1. ledger # <<>> /\ L \in 1..L
      BY <1>3 DEF L
    <3> QED BY <3>1, <1>3, <1>6
  <2>4. top \in 1..Appended'
    BY <1>3, <1>7 DEF top
  <2>5. (L + 1) + len <= Len(w) /\ w[(L + 1) + len] = Newline
    BY <2>2, <1>3
  <2> QED BY <2>1, <2>2, <2>3, <2>4, <2>5, <1>3, <1>7, <1>9
<1>11. ASSUME NEW n \in Standing', NEW m \in Standing, n < m PROVE m \in Standing'
  <2>1. m \in 1..Appended /\ n \in 1..Appended' /\ n \in Nat /\ m \in Nat
    BY <1>3, <1>7 DEF Standing
  <2>2. StandsIn(ledger, lengths[m], m) /\ StandsIn(ledger', lengths'[n], n)
    BY <1>8 DEF Standing
  <2>3. lengths[m] \in Nat \ {0} /\ lengths'[m] = lengths[m] /\ lengths'[n] \in Nat \ {0}
    <3>1. \A q \in 1..Appended' : q \in 1..Appended \/ q = top
      BY <1>3, <1>7 DEF top
    <3> QED BY <3>1, <2>1, <1>3, <1>7
  <2> DEFINE c == lengths[m]
  <2>4. PICK i \in Nat : StandsAt(ledger, c, m, i)
    BY <2>2, <2>3, <1>3, StandsIs
  <2>5. PICK x \in Nat : StandsAt(ledger', lengths'[n], n, x)
    BY <2>2, <2>3, <1>4, StandsIs
  <2> HIDE DEF c
  <2>6. c \in Nat \ {0} /\ 1 \in 1..c /\ c \in 1..c /\ 1 \in 1..lengths'[n]
    BY <2>3 DEF c
  <2>7. i \in 1..L /\ i + c - 1 <= L /\ (\A d \in 1..c : ledger[i + d - 1] = <<m, d>>) /\ (i = 1 \/ ledger[i - 1] = Newline) /\ (i + c > L \/ ledger[i + c] = Newline)
    BY <2>4 DEF StandsAt, L
  \* The line ends in a newline, as the file does.
  <2>8. i + c <= L /\ ledger[i + c] = Newline
    <3>1. i + c # L + 1
      <4> SUFFICES ASSUME i + c = L + 1 PROVE FALSE
        OBVIOUS
      <4>1. i + c - 1 = L
        BY <2>6, <2>4, <1>12
      <4>2. ledger[L] = <<m, c>> /\ ledger # <<>>
        <5>0. ledger[i + c - 1] = <<m, c>>
          BY <2>6, <2>7
        <5>1. ledger[i + c - 1] = <<m, c>> /\ L > 0
          BY <5>0, <2>7, <1>3
        <5>2. Len(ledger) > 0
          BY <5>1 DEF L
        <5> QED BY <5>1, <5>2, <4>1
      <4>3. <<m, c>> = Newline
        BY <4>2, <1>6
      <4> QED BY <4>3, <2>1, <2>6 DEF Newline
    <3>2. i \in Nat /\ c \in Nat /\ i + c - 1 <= L /\ L \in Nat
      BY <2>6, <2>7, <1>12
    <3>3. i + c <= L
      BY <3>1, <3>2
    <3>4. ~(i + c > L)
      BY <3>2, <3>3
    <3> QED BY <3>3, <3>4, <2>7
  \* The first byte of line n is in front of it.
  <2>9. k + x < i
    <3>1. x \in 1..Len(ledger') /\ ledger'[x] = <<n, 1>>
      <4>1. ledger'[x + 1 - 1] = <<n, 1>> /\ x \in 1..Len(ledger')
        BY <2>5, <2>6 DEF StandsAt
      <4> QED BY <4>1
    <3>2. k + x \in 1..Len(w) /\ w[k + x] = <<n, 1>>
      <4>1. x \in 1..(Len(w) - k)
        BY <3>1, <1>4
      <4>2. k + x \in 1..Len(w)
        BY <4>1, <1>3, <1>4
      <4> QED BY <4>1, <4>2, <3>1, <1>4
    <3>3. i \in 1..Len(w) /\ w[i] = <<m, 1>>
      <4>1. ledger[i + 1 - 1] = <<m, 1>> /\ i + 1 - 1 = i
        BY <2>6, <2>7
      <4> QED BY <4>1, <2>7, <1>3
    <3>4. k + x # i
      <4> SUFFICES ASSUME k + x = i PROVE FALSE
        OBVIOUS
      <4>1. <<n, 1>> = <<m, 1>>
        BY <3>2, <3>3
      <4> QED BY <4>1, <2>1, <1>11
    <3>5. ~(i < k + x)
      <4> SUFFICES ASSUME i < k + x PROVE FALSE
        OBVIOUS
      <4>1. w[k + x] = Newline \/ w[i][1] <= w[k + x][1]
        BY <3>2, <3>3, <1>5
      <4>2. w[k + x] # Newline
        BY <3>2, <2>1 DEF Newline
      <4> QED BY <4>1, <4>2, <3>2, <3>3, <2>1, <1>11
    <3>6. k + x \in Nat /\ i \in Nat
      BY <2>4, <2>5, <1>12
    <3> QED BY <3>4, <3>5, <3>6
  <2>10. i > k /\ i + c <= Len(w) /\ w[i + c] = Newline /\ (i = 1 \/ w[i - 1] = Newline)
    <3>1. i > k /\ i + c <= Len(w) /\ i + c \in 1..L
      <4>1. i > k
        BY <2>4, <2>5, <2>9, <1>4
      <4>2. i + c \in 1..L
        BY <2>6, <2>7, <2>8, <1>3
      <4> QED BY <4>1, <4>2, <1>3
    <3>2. i # 1 => i - 1 \in 1..L
      BY <2>7, <1>3
    <3> QED BY <3>1, <3>2, <2>7, <2>8, <1>3
  <2>11. \A d \in 1..c : w[i + d - 1] = <<m, d>>
    <3> SUFFICES ASSUME NEW d \in 1..c PROVE w[i + d - 1] = <<m, d>>
      OBVIOUS
    <3>1. i + d - 1 \in 1..L
      BY <2>6, <2>7, <1>3
    <3> QED BY <3>1, <2>7, <1>3
  <2>12. m \in 1..Appended' /\ lengths'[m] = c
    BY <2>1, <2>3, <1>3, <1>7 DEF top, c
  <2> QED BY <2>6, <2>10, <2>11, <2>12, <1>9
<1> QED BY <1>7, <1>10, <1>11

\* While no write was cut short, a rotation keeps the newest of what was
\* readable, the line just written among it (rotateLedgerIfNeeded).
THEOREM RotationKeepsNewest == FileSpec => NewestSurvive
<1>1. FileInit => FileTypeOK /\ InOrder
  <2> SUFFICES ASSUME FileInit PROVE InOrder
    BY FileTypeStarts
  <2>1. ledger = <<>> /\ Len(ledger) = 0
    BY DEF FileInit
  <2> QED BY <2>1 DEF InOrder
<1>2. FileTypeOK /\ InOrder /\ [FileNext]_fileVars => (FileTypeOK /\ InOrder)'
  BY FileStep, OrderStep
<1>3. FileTypeOK /\ InOrder /\ FileTypeOK' /\ [FileNext]_fileVars
      => [~broken' => /\ \A n \in Standing' : \A m \in Standing : n < m => m \in Standing'
                      /\ Appended' \in Standing']_fileVars
  <2> SUFFICES ASSUME FileTypeOK, InOrder, FileTypeOK', FileNext, ~broken'
               PROVE  /\ \A n \in Standing' : \A m \in Standing : n < m => m \in Standing'
                      /\ Appended' \in Standing'
    OBVIOUS
  <2>1. AppendLine /\ ~broken
    BY DEF FileNext, CutAppend, AppendLine
  <2> QED BY <2>1, TickKeepsNewest
<1> QED BY <1>1, <1>2, <1>3, PTL DEF FileSpec, NewestSurvive

-----------------------------------------------------------------------------
(* The pinned rows.                                                         *)
LEMMA ListIs ==
  /\ \A s \in Lists : s \in Seq(Dirs) /\ Len(s) \in 0..MaxPins /\ DOMAIN s = 1..Len(s) /\ Distinct(s)
  /\ \A s \in Seq(Dirs) : Len(s) <= MaxPins /\ Distinct(s) => s \in Lists
  /\ <<>> \in Lists
<1> USE PinBounds
<1>1. ASSUME NEW s \in Lists PROVE s \in Seq(Dirs) /\ Len(s) \in 0..MaxPins /\ DOMAIN s = 1..Len(s) /\ Distinct(s)
  <2>1. PICK n \in 0..MaxPins : s \in [1..n -> Dirs]
    BY DEF Lists
  <2>2. s \in Seq(Dirs) /\ Len(s) = n
    BY <2>1
  <2> QED BY <2>1, <2>2 DEF Lists
<1>2. ASSUME NEW s \in Seq(Dirs), Len(s) <= MaxPins, Distinct(s) PROVE s \in Lists
  <2>1. Len(s) \in 0..MaxPins /\ s \in [1..Len(s) -> Dirs]
    BY <1>2
  <2> QED BY <2>1, <1>2 DEF Lists
<1>3. <<>> \in Seq(Dirs) /\ Len(<<>>) <= MaxPins /\ Distinct(<<>>)
  BY DEF Distinct
<1> QED BY <1>1, <1>2, <1>3

\* What is before and what is after a place of a sequence.
LEMMA PartsOf ==
  ASSUME NEW T, NEW s \in Seq(T), NEW k \in 1..Len(s)
  PROVE  /\ SubSeq(s, 1, k - 1) \in Seq(T) /\ Len(SubSeq(s, 1, k - 1)) = k - 1
         /\ \A i \in 1..(k - 1) : SubSeq(s, 1, k - 1)[i] = s[i]
         /\ SubSeq(s, k + 1, Len(s)) \in Seq(T) /\ Len(SubSeq(s, k + 1, Len(s))) = Len(s) - k
         /\ \A i \in 1..(Len(s) - k) : SubSeq(s, k + 1, Len(s))[i] = s[k + i]
<1>1. SubSeq(s, 1, k - 1) \in Seq(T) /\ Len(SubSeq(s, 1, k - 1)) = k - 1
  OBVIOUS
<1>2. \A i \in 1..(k - 1) : SubSeq(s, 1, k - 1)[i] = s[i]
  OBVIOUS
<1>3. SubSeq(s, k + 1, Len(s)) \in Seq(T) /\ Len(SubSeq(s, k + 1, Len(s))) = Len(s) - k
  OBVIOUS
<1>4. \A i \in 1..(Len(s) - k) : SubSeq(s, k + 1, Len(s))[i] = s[k + i]
  OBVIOUS
<1> QED BY <1>1, <1>2, <1>3, <1>4

\* Lists of the same pins are of one length.
LEMMA SameLength ==
  ASSUME NEW s \in Lists, NEW t \in Lists, Members(s) = Members(t)
  PROVE  Len(s) = Len(t)
<1>1. ASSUME NEW u \in Lists PROVE IsFiniteSet(Members(u)) /\ Cardinality(Members(u)) = Len(u)
  <2>1. Len(u) \in Nat /\ u \in [1..Len(u) -> Members(u)] /\ DOMAIN u = 1..Len(u) /\ Distinct(u)
    BY ListIs, PinBounds DEF Members
  <2>2. \A i, j \in 1..Len(u) : u[i] = u[j] => i = j
    BY <2>1 DEF Distinct
  <2>3. \A x \in Members(u) : \E i \in 1..Len(u) : u[i] = x
    BY <2>1 DEF Members
  <2>4. u \in Bijection(1..Len(u), Members(u))
    BY <2>1, <2>2, <2>3, Fun_IsBij
  <2>5. ExistsBijection(1..Len(u), Members(u))
    BY <2>4 DEF ExistsBijection
  <2> QED BY <2>1, <2>5, FS_CountingElements, FS_NatBijection
<1> QED BY <1>1

\* A pin, an unpin and a reorder store a list of pins.
LEMMA WithPinIsList ==
  ASSUME pinned \in Lists, NEW d \in Dirs, NEW on \in BOOLEAN
  PROVE  WithPin(d, on) \subseteq Lists
<1> USE PinBounds
<1>1. pinned \in Seq(Dirs) /\ Len(pinned) \in 0..MaxPins /\ DOMAIN pinned = 1..Len(pinned) /\ Distinct(pinned)
  BY ListIs
<1>2. ASSUME d \notin Members(pinned), Len(pinned) < MaxPins PROVE Append(pinned, d) \in Lists
  <2> DEFINE n == Append(pinned, d)
  <2>1. n \in Seq(Dirs) /\ Len(n) = Len(pinned) + 1 /\ DOMAIN n = 1..Len(n) /\ Len(n) <= MaxPins
    BY <1>1, <1>2
  <2>2. \A i \in 1..Len(pinned) : n[i] = pinned[i] /\ n[i] # d
    BY <1>1, <1>2 DEF Members
  <2>3. n[Len(pinned) + 1] = d
    BY <1>1
  <2> HIDE DEF n
  <2>4. \A i \in DOMAIN n : i \in 1..Len(pinned) \/ i = Len(pinned) + 1
    BY <1>1, <2>1
  <2>5. Distinct(n)
    BY <1>1, <2>2, <2>3, <2>4 DEF Distinct
  <2>6. n \in Lists
    BY <2>1, <2>5, ListIs
  <2> QED BY <2>6 DEF n
<1>3. ASSUME NEW k \in DOMAIN pinned
      PROVE  SubSeq(pinned, 1, k - 1) \o SubSeq(pinned, k + 1, Len(pinned)) \in Lists
  <2> DEFINE n == SubSeq(pinned, 1, k - 1) \o SubSeq(pinned, k + 1, Len(pinned))
             from(i) == IF i < k THEN i ELSE i + 1
  <2>1. n \in Seq(Dirs) /\ Len(n) = Len(pinned) - 1 /\ DOMAIN n = 1..Len(n)
    BY <1>1
  <2>2. \A i \in DOMAIN n : n[i] = pinned[from(i)] /\ from(i) \in DOMAIN pinned
    <3> DEFINE a == SubSeq(pinned, 1, k - 1)
               b == SubSeq(pinned, k + 1, Len(pinned))
    <3>1. /\ a \in Seq(Dirs) /\ Len(a) = k - 1 /\ \A i \in 1..(k - 1) : a[i] = pinned[i]
          /\ b \in Seq(Dirs) /\ Len(b) = Len(pinned) - k /\ \A i \in 1..(Len(pinned) - k) : b[i] = pinned[k + i]
      <4>1. k \in 1..Len(pinned) /\ pinned \in Seq(Dirs)
        BY <1>1
      <4> QED BY <4>1, PartsOf
    <3>2. n = a \o b
      OBVIOUS
    <3> HIDE DEF n, a, b
    <3> TAKE i \in DOMAIN n
    <3>3. i \in 1..(Len(pinned) - 1) /\ k \in 1..Len(pinned) /\ Len(pinned) \in Nat
      BY <1>1, <2>1
    <3>4. CASE i < k
      <4>1. n[i] = a[i] /\ i \in 1..(k - 1)
        BY <3>1, <3>2, <3>3, <3>4
      <4> QED BY <4>1, <3>1, <3>3, <3>4, <1>1
    <3>5. CASE ~(i < k)
      <4>1. n[i] = b[i - (k - 1)] /\ i - (k - 1) \in 1..(Len(pinned) - k)
        BY <3>1, <3>2, <3>3, <3>5
      <4>2. b[i - (k - 1)] = pinned[k + (i - (k - 1))] /\ k + (i - (k - 1)) = i + 1
        BY <4>1, <3>1, <3>3
      <4> QED BY <4>1, <4>2, <3>3, <3>5, <1>1
    <3> QED BY <3>4, <3>5
  <2>3. \A i, j \in DOMAIN n : from(i) = from(j) => i = j
    BY <1>1, <2>1
  <2>4. Distinct(n)
    <3> HIDE DEF n, from
    <3> QED BY <2>2, <2>3, <1>1 DEF Distinct
  <2>5. Len(n) <= MaxPins
    BY <2>1, <1>1
  <2> HIDE DEF n
  <2>6. n \in Lists
    BY <2>1, <2>4, <2>5, ListIs
  <2> QED BY <2>6 DEF n
<1> QED BY <1>2, <1>3 DEF WithPin

\* Where the tab is not behind, a reorder under way is of the stored pins and
\* starts from them, and what is answered fresh is what is stored.
Writing(outcomes) == write # Idle /\ write.outcome \in outcomes
OrderStands ==
  ~behind =>
    /\ write = Idle \/ (write.op # "order" /\ write.outcome = "sent") => rows = pinned
    /\ Writing({"sent"}) /\ write.op = "order" => before = pinned /\ rows = write.list /\ Members(write.list) = Members(pinned)
    /\ Writing({"fresh"}) => write.got = pinned
    /\ Writing({"saved"}) => write.op = "order" /\ rows = pinned
    /\ Writing({"conflict"}) => write.op # "order" /\ rows = pinned
    /\ Writing({"failed"}) => IF write.op = "order" THEN before = pinned ELSE rows = pinned
PinInv == PinTypeOK /\ OrderStands

LEMMA PinStart == ASSUME PinInit PROVE PinInv
BY DEF PinInit, PinInv, PinTypeOK, OrderStands, Writing

\* The fields of a write, and what an answer makes of it.
LEMMA WriteFields ==
  ASSUME NEW w \in Writes
  PROVE  /\ w.op \in {"pin", "unpin", "order"} /\ w.outcome \in PinOutcomes \cup {"sent"} /\ w.got \in Lists
         /\ (w.op = "order" => w.list \in Lists) /\ (w.op # "order" => w.dir \in Dirs)
<1>1. CASE w \in [op : {"pin", "unpin"}, dir : Dirs, outcome : PinOutcomes \cup {"sent"}, got : Lists]
  BY <1>1 DEF Writes
<1>2. CASE w \in [op : {"order"}, list : Lists, outcome : PinOutcomes \cup {"sent"}, got : Lists]
  BY <1>2 DEF Writes
<1> QED BY <1>1, <1>2 DEF Writes

LEMMA RefusalIsWrite ==
  ASSUME NEW w \in Writes, NEW o \in PinOutcomes, NEW a, a = [w EXCEPT !.outcome = o]
  PROVE  a \in Writes /\ a.op = w.op /\ a.outcome = o
<1>1. CASE w \in [op : {"pin", "unpin"}, dir : Dirs, outcome : PinOutcomes \cup {"sent"}, got : Lists]
  BY <1>1 DEF Writes
<1>2. CASE w \in [op : {"order"}, list : Lists, outcome : PinOutcomes \cup {"sent"}, got : Lists]
  BY <1>2 DEF Writes
<1> QED BY <1>1, <1>2 DEF Writes

LEMMA StoredIsList ==
  ASSUME pinned \in Lists, NEW w \in Writes
  PROVE  /\ Stored(w) \subseteq Lists
         /\ w.op = "order" => Stored(w) \subseteq {w.list} /\ (\A s \in Stored(w) : Members(s) = Members(pinned))
         /\ w.op = "order" /\ Members(w.list) = Members(pinned) => Stored(w) # {}
<1>1. CASE w.op = "order"
  <2>1. w.list \in Lists /\ Stored(w) = WithOrder(w.list)
    BY <1>1, WriteFields DEF Stored
  <2>2. Members(w.list) = Members(pinned) => Len(w.list) = Len(pinned)
    BY <2>1, SameLength
  <2> QED BY <1>1, <2>1, <2>2 DEF WithOrder
<1>2. CASE w.op # "order"
  <2>1. w.dir \in Dirs /\ (w.op = "pin") \in BOOLEAN /\ Stored(w) = WithPin(w.dir, w.op = "pin")
    BY <1>2, WriteFields DEF Stored
  <2> QED BY <1>2, <2>1, WithPinIsList
<1> QED BY <1>1, <1>2

LEMMA OtherTabKeeps == ASSUME PinInv, OtherTab PROVE PinInv'
<1>1. pinned \in Lists /\ behind' = TRUE /\ UNCHANGED <<rows, before, write>>
  BY DEF OtherTab, PinInv, PinTypeOK
<1>2. pinned' \in Lists
  <2>1. CASE \E d \in Dirs, on \in BOOLEAN : pinned' \in WithPin(d, on)
    BY <1>1, <2>1, WithPinIsList
  <2>2. CASE \E s \in Lists : pinned' \in WithOrder(s)
    BY <2>2 DEF WithOrder
  <2> QED BY <2>1, <2>2 DEF OtherTab
<1> QED BY <1>1, <1>2 DEF PinInv, PinTypeOK, OrderStands

LEMMA StoresKeeps == ASSUME PinInv, ServerStores PROVE PinInv'
<1>1. write \in Writes /\ write # Idle /\ write.outcome = "sent" /\ pinned \in Lists
  BY DEF ServerStores, PinInv, PinTypeOK
<1>2. PICK s \in Stored(write), o \in {"fresh", "saved", "failed"} :
        /\ pinned' = s /\ write' = [write EXCEPT !.outcome = o, !.got = IF o = "fresh" THEN s ELSE @]
        /\ behind' = (o # "fresh" /\ (behind \/ o = "failed" \/ write.op # "order"))
        /\ UNCHANGED <<rows, before>>
  BY DEF ServerStores
<1> DEFINE g == IF o = "fresh" THEN s ELSE write.got
<1>3. s \in Lists /\ g \in Lists /\ o \in PinOutcomes
  BY <1>1, <1>2, StoredIsList, WriteFields DEF PinOutcomes
<1>4. write' \in Writes /\ write'.op = write.op /\ write'.outcome = o /\ write'.got = g
  <2>1. write' = [write EXCEPT !.outcome = o, !.got = g]
    BY <1>2
  <2>2. g \in Lists /\ o \in PinOutcomes
    BY <1>3
  <2> HIDE DEF g
  <2>3. CASE write \in [op : {"pin", "unpin"}, dir : Dirs, outcome : PinOutcomes \cup {"sent"}, got : Lists]
    BY <2>1, <2>2, <2>3 DEF Writes
  <2>4. CASE write \in [op : {"order"}, list : Lists, outcome : PinOutcomes \cup {"sent"}, got : Lists]
    BY <2>1, <2>2, <2>4 DEF Writes
  <2> QED BY <2>3, <2>4, <1>1 DEF Writes
<1>5. behind' \in BOOLEAN /\ (~behind' => o = "fresh" \/ (~behind /\ o = "saved" /\ write.op = "order"))
  BY <1>2 DEF PinInv, PinTypeOK
<1>6. PinTypeOK'
  BY <1>2, <1>3, <1>4, <1>5 DEF PinInv, PinTypeOK
<1>7. ~behind /\ write.op = "order" => rows = write.list /\ s = write.list
  BY <1>1, <1>2, StoredIsList DEF PinInv, OrderStands, Writing
<1>8. OrderStands'
  <2> SUFFICES ASSUME ~behind' PROVE OrderStands'
    BY DEF OrderStands
  <2>1. CASE o = "fresh"
    BY <2>1, <1>2, <1>4, IdleIsNoWrite DEF OrderStands, Writing
  <2>2. CASE o # "fresh"
    <3>1. o = "saved" /\ write'.op = "order" /\ rows' = pinned'
      BY <2>2, <1>2, <1>4, <1>5, <1>7
    <3> QED BY <3>1, <1>4, IdleIsNoWrite DEF OrderStands, Writing
  <2> QED BY <2>1, <2>2
<1> QED BY <1>6, <1>8 DEF PinInv

LEMMA RejectsKeeps == ASSUME PinInv, ServerRejects PROVE PinInv'
<1>1. write \in Writes /\ write # Idle /\ write.outcome = "sent" /\ pinned \in Lists
  BY DEF ServerRejects, PinInv, PinTypeOK
<1>2. PICK o \in {"conflict", "failed"} :
        (o = "conflict" => Stored(write) = {}) /\ write' = [write EXCEPT !.outcome = o] /\ UNCHANGED <<pinned, rows, before, behind>>
  BY DEF ServerRejects
<1>3. write' \in Writes /\ write'.op = write.op /\ write'.outcome = o /\ o \in PinOutcomes
  <2>1. o \in PinOutcomes
    BY DEF PinOutcomes
  <2> QED BY <2>1, <1>1, <1>2, RefusalIsWrite
<1>4. PinTypeOK'
  BY <1>2, <1>3 DEF PinInv, PinTypeOK
<1>5. ~behind /\ write.op = "order" => o # "conflict"
  BY <1>1, <1>2, StoredIsList DEF PinInv, OrderStands, Writing
<1>6. OrderStands'
  BY <1>1, <1>2, <1>3, <1>5, IdleIsNoWrite DEF PinInv, OrderStands, Writing
<1> QED BY <1>4, <1>6 DEF PinInv

LEMMA SetPinKeeps == ASSUME PinInv, NEW d \in Dirs, NEW op \in {"pin", "unpin"}, SetPin(d, op) PROVE PinInv'
<1>1. write = Idle /\ write' = [op |-> op, dir |-> d, outcome |-> "sent", got |-> <<>>] /\ UNCHANGED <<pinned, rows, before, behind>>
  BY DEF SetPin
<1>2. write' \in Writes /\ write'.op # "order" /\ write'.outcome = "sent"
  BY <1>1, ListIs DEF Writes
<1> QED BY <1>1, <1>2, IdleIsNoWrite DEF PinInv, PinTypeOK, OrderStands, Writing

LEMMA ReorderKeeps == ASSUME PinInv, NEW list \in Lists, Reorder(list) PROVE PinInv'
<1>1. /\ write = Idle /\ Members(list) = Members(rows) /\ before' = rows /\ rows' = list
      /\ write' = [op |-> "order", list |-> list, outcome |-> "sent", got |-> <<>>] /\ UNCHANGED <<pinned, behind>>
  BY DEF Reorder
<1>2. write' \in Writes /\ write'.op = "order" /\ write'.outcome = "sent" /\ write'.list = list
  BY <1>1, ListIs DEF Writes
<1>3. PinTypeOK'
  BY <1>1, <1>2 DEF PinInv, PinTypeOK
<1>4. OrderStands'
  BY <1>1, <1>2, IdleIsNoWrite DEF PinInv, OrderStands, Writing
<1> QED BY <1>3, <1>4 DEF PinInv

LEMMA SettlesKeeps == ASSUME PinInv, WriteSettles PROVE PinInv'
<1>1. write \in Writes /\ write # Idle /\ write.outcome \in PinOutcomes /\ write' = Idle /\ UNCHANGED <<pinned, before>>
  BY WriteFields DEF WriteSettles, PinInv, PinTypeOK
<1>2. write.got \in Lists /\ pinned \in Lists /\ rows \in Lists /\ before \in Lists /\ behind \in BOOLEAN
  BY <1>1, WriteFields DEF PinInv, PinTypeOK
<1>3. CASE write.outcome = "fresh"
  <2>1. rows' = write.got /\ UNCHANGED behind
    BY <1>3 DEF WriteSettles, ShowsList
  <2> QED BY <2>1, <1>1, <1>2, <1>3, IdleIsNoWrite DEF PinInv, PinTypeOK, OrderStands, Writing
<1>4. CASE write.outcome # "fresh" /\ write.op # "order"
  <2>1. UNCHANGED <<rows, behind>>
    BY <1>4 DEF WriteSettles
  <2>2. write.outcome \in {"saved", "conflict", "failed"}
    BY <1>1, <1>4 DEF PinOutcomes
  <2> QED BY <2>1, <2>2, <1>1, <1>2, <1>4, IdleIsNoWrite DEF PinInv, PinTypeOK, OrderStands, Writing
<1>5. CASE write.outcome # "fresh" /\ write.op = "order"
  <2>1. OrderSettles
    BY <1>5 DEF WriteSettles
  <2>2. CASE write.outcome = "saved"
    <3>1. UNCHANGED <<rows, behind>>
      BY <2>1, <2>2 DEF OrderSettles
    <3> QED BY <3>1, <2>2, <1>1, <1>2, <1>5, IdleIsNoWrite DEF PinInv, PinTypeOK, OrderStands, Writing
  <2>3. CASE write.outcome = "failed"
    <3>1. rows' = before /\ UNCHANGED behind
      BY <2>1, <2>3 DEF OrderSettles
    <3> QED BY <3>1, <2>3, <1>1, <1>2, <1>5, IdleIsNoWrite DEF PinInv, PinTypeOK, OrderStands, Writing
  <2>4. CASE write.outcome = "conflict"
    <3>1. (rows' = pinned /\ behind' = FALSE) \/ (rows' = before /\ UNCHANGED behind)
      BY <2>1, <2>4 DEF OrderSettles, ShowsList
    <3> QED BY <3>1, <2>4, <1>1, <1>2, <1>5, IdleIsNoWrite DEF PinInv, PinTypeOK, OrderStands, Writing
  <2> QED BY <2>2, <2>3, <2>4, <1>1, <1>5 DEF PinOutcomes
<1> QED BY <1>3, <1>4, <1>5

LEMMA PinInvariance == PinSpec => []PinInv
<1>1. PinInit => PinInv
  BY PinStart
<1>2. PinInv /\ [PinNext]_pinVars => PinInv'
  <2> SUFFICES ASSUME PinInv, [PinNext]_pinVars PROVE PinInv'
    OBVIOUS
  <2>1. CASE UNCHANGED pinVars
    BY <2>1 DEF pinVars, PinInv, PinTypeOK, OrderStands, Writing
  <2> QED BY <2>1, OtherTabKeeps, StoresKeeps, RejectsKeeps, SetPinKeeps, ReorderKeeps, SettlesKeeps DEF PinNext
<1> QED BY <1>1, <1>2, PTL DEF PinSpec

(* The lists and the write keep their types (settings.ts, usePins.ts).      *)
THEOREM PinTypeCorrect == PinSpec => []PinTypeOK
<1>1. PinInv => PinTypeOK
  BY DEF PinInv
<1> QED BY <1>1, PinInvariance, PTL

LEMMA ReorderStep ==
  ASSUME PinInv, [PinNext]_pinVars, write # Idle, write.op = "order", write.outcome = "sent", write' # write
  PROVE  Members(pinned') = Members(pinned)
<1>1. write \in Writes /\ pinned \in Lists
  BY DEF PinInv, PinTypeOK
<1>2. CASE ServerStores
  BY <1>1, <1>2, StoredIsList DEF ServerStores
<1>3. CASE ServerRejects \/ WriteSettles \/ (\E d \in Dirs, op \in {"pin", "unpin"} : SetPin(d, op)) \/ (\E s \in Lists : Reorder(s))
  BY <1>3 DEF ServerRejects, WriteSettles, SetPin, Reorder
<1>4. CASE OtherTab \/ UNCHANGED pinVars
  BY <1>4 DEF OtherTab, pinVars
<1> QED BY <1>2, <1>3, <1>4 DEF PinNext

(* Two tabs and one stored list (usePins.ts over pinWrite.ts; settings.ts   *)
(* setPinned, setPinOrder).                                                 *)
THEOREM PinsCorrect == PinSpec => PinsAreShared
<1>1. PinInv => RowsAreStored /\ ConflictIsNews
  BY DEF PinInv, PinTypeOK, OrderStands, Writing, RowsAreStored, ConflictIsNews
<1>2. PinInv /\ [PinNext]_pinVars =>
        [write # Idle /\ write.op = "order" /\ write.outcome = "sent" /\ write' # write
           => Members(pinned') = Members(pinned)]_pinVars
  BY ReorderStep
<1>3. PinSpec => [](RowsAreStored /\ ConflictIsNews)
  BY <1>1, PinInvariance, PTL
<1>4. PinSpec => OrderKeepsPins
  BY <1>2, PinInvariance, PTL DEF PinSpec, OrderKeepsPins
<1> QED BY <1>3, <1>4, PTL DEF PinsAreShared

-----------------------------------------------------------------------------
(* The bundle.  A behaviour of it is one of each component, which either    *)
(* works or rests.                                                          *)
LEMMA LaunchRuns == MCSpec => Spec
<1>1. MCInit => Init
  BY DEF MCInit
<1>2. [MCNext]_mcVars => [Next]_vars
  BY DEF MCNext, mcVars
<1> QED BY <1>1, <1>2, PTL DEF MCSpec, Spec

LEMMA AgentRuns == MCSpec => AgentSpec
<1>1. MCInit => AgentInit
  BY DEF MCInit
<1>2. [MCNext]_mcVars => [AgentNext]_agentVars
  BY DEF MCNext, mcVars
<1> QED BY <1>1, <1>2, PTL DEF MCSpec, AgentSpec

LEMMA FileRuns == MCSpec => FileSpec
<1>1. MCInit => FileInit
  BY DEF MCInit
<1>2. [MCNext]_mcVars => [FileNext]_fileVars
  BY DEF MCNext, mcVars
<1> QED BY <1>1, <1>2, PTL DEF MCSpec, FileSpec

LEMMA PinRuns == MCSpec => PinSpec
<1>1. MCInit => PinInit
  BY DEF MCInit
<1>2. [MCNext]_mcVars => [PinNext]_pinVars
  BY DEF MCNext, mcVars
<1> QED BY <1>1, <1>2, PTL DEF MCSpec, PinSpec

\* Every variable of the bundle keeps its type, whichever component is at work.
THEOREM StoresTypeCorrect == MCSpec => []TypesOK
<1>1. TypeOK /\ AgentTypeOK /\ FileTypeOK /\ PinTypeOK => TypesOK
  BY DEF TypesOK
<1> QED BY <1>1, LaunchRuns, AgentRuns, FileRuns, PinRuns, LaunchTypeCorrect, AgentTypeCorrect, FileTypeCorrect, PinTypeCorrect, PTL

\* What holds of each component holds where they run side by side.
THEOREM StoresAreSafe ==
  MCSpec => [](HandleHeld /\ OneWriter /\ RailHolds) /\ NoPhantomFailure /\ NewestSurvive /\ PinsAreShared
BY LaunchRuns, FileRuns, PinRuns, LiveChildrenAreHeld, OneWriterUnlessBlind, TheRailHolds, RanNeverFails, RotationKeepsNewest, PinsCorrect, PTL
=============================================================================
