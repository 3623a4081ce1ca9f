---------------------------- MODULE ReaderProofs ----------------------------
(***************************************************************************)
(* What is read piece by piece while it goes on: the proofs that the       *)
(* incremental reader of the run log (LogReader) and the ledger of spend   *)
(* (SpendLedger) read everything once, and that the duty profile           *)
(* (UsageProfile) is the profile of what happened.  The first two rest on  *)
(* an inductive invariant that says what stands before the offset was      *)
(* read, and what a step of somebody else may do to the file meanwhile.    *)
(***************************************************************************)
EXTENDS LogReader, SpendLedger, UsageProfile, SequenceTheorems, FiniteSetTheorems, WellFoundedInduction, TLAPS

\* The incremental reader of the run log.
LogFile(f, last, most) ==
  f \in [ino : 1..last, torn : BOOLEAN, lines : Seq(1..MaxLogLines)] /\ Len(f.lines) <= most
ReaderShape ==
  /\ files = [n \in Names |-> files[n]] /\ known = [n \in Names |-> known[n]]
  /\ \A n \in Names : IsFile(n) => LogFile(files[n], inodes, written)
  /\ \A n \in Names : known[n] # Absent => known[n].ino \in 1..inodes /\ known[n].offset \in 0..written
  /\ folded \subseteq 1..MaxLogLines /\ written \in 0..MaxLogLines /\ inodes \in 0..MaxInodes
  /\ shrunk \in BOOLEAN /\ fresh \in BOOLEAN

\* The reader's entry m is about the file that is now called n.
IsNow(m, n) == known[m] # Absent /\ IsFile(n) /\ files[n].ino = known[m].ino

\* An inode has one name, and one entry of the reader.
OneName ==
  /\ \A n, m \in Names : IsFile(n) /\ IsFile(m) /\ files[n].ino = files[m].ino => n = m
  /\ \A n, m \in Names : known[n] # Absent /\ known[m] # Absent /\ known[n].ino = known[m].ino => n = m

\* Only a file emptied in place is shorter than its offset.
OffsetsFit == \A m, n \in Names : IsNow(m, n) => known[m].offset <= Len(files[n].lines) \/ (shrunk /\ m = n)

\* As long as nothing is to be rebuilt the fold holds what stands before the
\* offsets.
WasRead(x) == \E m, n \in Names : IsNow(m, n) /\ \E i \in 1..known[m].offset : files[n].lines[i] = x
FoldIsRead == ~Rebuilds => \A x : x \in folded <=> WasRead(x)

ReaderInv == ReaderShape /\ OneName /\ OffsetsFit /\ FoldIsRead /\ FoldIsWholeLog

\* A file is to be rebuilt when it is gone, or was emptied in place.
HasLost(m) == (\A n \in Names : ~IsNow(m, n)) \/ (IsNow(m, m) /\ Len(files[m].lines) < known[m].offset)
LEMMA RebuildsWhen == OneName => (Rebuilds <=> \E m \in Names : known[m] # Absent /\ HasLost(m))
  BY DEF Rebuilds, NameNow, IsNow, OneName, HasLost
LEMMA RebuildsNext == OneName' => (Rebuilds' <=> \E m \in Names : known'[m] # Absent /\ HasLost(m)')
  BY DEF Rebuilds, NameNow, IsNow, OneName, HasLost, IsFile

LEMMA ReaderInitInv == ReaderInit => ReaderInv
<1> SUFFICES ASSUME ReaderInit PROVE ReaderInv
  OBVIOUS
<1>1. \A n \in Names : files[n] = Absent /\ known[n] = Absent
  BY DEF ReaderInit
<1>2. ReaderShape
  <2>1. files = [n \in Names |-> files[n]] /\ known = [n \in Names |-> known[n]]
    BY DEF ReaderInit
  <2>2. \A n \in Names : ~IsFile(n)
    BY <1>1 DEF IsFile
  <2>3. /\ folded \subseteq 1..MaxLogLines /\ written \in 0..MaxLogLines /\ inodes \in 0..MaxInodes
        /\ shrunk \in BOOLEAN /\ fresh \in BOOLEAN
    <3>1. folded = {} /\ written = 0 /\ inodes = 0 /\ shrunk \in BOOLEAN /\ fresh \in BOOLEAN
      BY DEF ReaderInit
    <3> QED BY <3>1, ReaderBounds
  <2> QED BY <1>1, <2>1, <2>2, <2>3 DEF ReaderShape
<1>3. OneName /\ OffsetsFit /\ FoldIsRead /\ FoldIsWholeLog
  BY <1>1 DEF ReaderInit, OneName, OffsetsFit, FoldIsRead, WasRead, IsNow, IsFile, FoldIsWholeLog
<1> QED BY <1>2, <1>3 DEF ReaderInv

\* The file called n after a step is the one called k before it, perhaps longer;
\* while one is emptied, none is renamed or written.
Stays(k, n) ==
  /\ IsFile(k) /\ files'[n].ino = files[k].ino
  /\ shrunk => k = n /\ files'[n] = files[n]
  /\ Len(files[k].lines) <= Len(files'[n].lines)
  /\ \A i \in 1..Len(files[k].lines) : files'[n].lines[i] = files[k].lines[i]

\* Steps that only append to files, rename them, make them or take them away
\* leave what the reader knows of them true.
LEMMA FilesMove ==
  ASSUME ReaderInv, ReaderShape', OneName', UNCHANGED <<known, folded>>, fresh' = FALSE, shrunk' = shrunk,
         \A n \in Names : IsFile(n)' => files'[n].ino = inodes + 1 \/ \E k \in Names : Stays(k, n)
  PROVE  ReaderInv'
<1> USE DEF ReaderInv
<1>1. ASSUME NEW m \in Names, NEW n \in Names, IsNow(m, n)'
      PROVE  \E k \in Names : IsNow(m, k) /\ Stays(k, n)
  <2>1. files'[n].ino = known[m].ino /\ known[m] # Absent /\ IsFile(n)'
    BY <1>1 DEF IsNow
  <2>2. files'[n].ino # inodes + 1
    BY <2>1, ReaderBounds DEF ReaderShape
  <2>3. PICK k \in Names : Stays(k, n)
    BY <2>1, <2>2
  <2> QED BY <2>1, <2>3 DEF IsNow, Stays
<1>2. \A n \in Names : IsFile(n) => Len(files[n].lines) \in Nat
  BY DEF ReaderShape, LogFile
<1>3. \A n \in Names : IsFile(n)' => Len(files'[n].lines) \in Nat
  BY DEF ReaderShape, LogFile, IsFile
<1>4. \A m \in Names : known[m] # Absent => known[m].offset \in Nat
  BY DEF ReaderShape
<1>5. OffsetsFit'
  <2> SUFFICES ASSUME NEW m \in Names, NEW n \in Names, IsNow(m, n)'
               PROVE  known[m].offset <= Len(files'[n].lines) \/ (shrunk /\ m = n)
    BY DEF OffsetsFit
  <2> QED BY <1>1, <1>2, <1>3, <1>4 DEF OffsetsFit, IsNow, IsFile, Stays
<1>6. ASSUME ~Rebuilds' PROVE ~Rebuilds
  <2> SUFFICES ASSUME Rebuilds PROVE FALSE
    BY <1>6
  <2>1. PICK m \in Names : known[m] # Absent /\ HasLost(m)
    BY RebuildsWhen
  <2>2. ~(\A n \in Names : ~IsNow(m, n)')
    BY <2>1, <1>6, RebuildsNext DEF HasLost
  <2>3. PICK n \in Names : IsNow(m, n)'
    BY <2>2
  <2>4. PICK k \in Names : IsNow(m, k) /\ (shrunk => k = n /\ files'[n] = files[n])
    BY <2>3, <1>1 DEF Stays
  <2>5. IsNow(m, m) /\ Len(files[m].lines) < known[m].offset
    BY <2>1, <2>4 DEF HasLost
  <2>6. shrunk
    BY <2>5, <1>2, <1>4 DEF OffsetsFit, IsNow
  <2>7. k = m
    BY <2>4, <2>5 DEF IsNow, OneName
  <2>8. IsNow(m, m)' /\ Len(files'[m].lines) < known'[m].offset
    BY <2>3, <2>4, <2>5, <2>6, <2>7
  <2> QED BY <2>1, <2>8, <1>6, RebuildsNext DEF HasLost
<1>7. FoldIsRead'
  <2> SUFFICES ASSUME ~Rebuilds', NEW x PROVE x \in folded <=> WasRead(x)'
    BY DEF FoldIsRead
  <2>1. x \in folded <=> WasRead(x)
    BY <1>6 DEF FoldIsRead
  <2>2. ASSUME NEW m \in Names, NEW n \in Names, NEW k \in Names, IsNow(m, n)', IsNow(m, k)
        PROVE  \A i \in 1..known[m].offset : files'[n].lines[i] = files[k].lines[i]
    <3>1. known[m].offset <= Len(files[k].lines)
      BY <2>2, <1>2, <1>4, <1>6, RebuildsWhen DEF OffsetsFit, IsNow, HasLost
    <3>2. PICK j \in Names : IsNow(m, j) /\ \A i \in 1..Len(files[j].lines) : files'[n].lines[i] = files[j].lines[i]
      BY <2>2, <1>1 DEF Stays
    <3>3. j = k
      BY <2>2, <3>2 DEF IsNow, OneName
    <3> QED BY <2>2, <3>1, <3>2, <3>3, <1>2, <1>4 DEF IsNow
  <2>3. ASSUME NEW m \in Names, known[m] # Absent
        PROVE  (\E n \in Names : IsNow(m, n)') /\ (\E k \in Names : IsNow(m, k))
    BY <2>3, <1>6, RebuildsWhen, RebuildsNext DEF HasLost
  <2>4. WasRead(x) <=> WasRead(x)'
    BY <2>2, <2>3 DEF WasRead, IsNow
  <2> QED BY <2>1, <2>4
<1> QED BY <1>5, <1>7 DEF FoldIsWholeLog

\* A file that is left alone is still one when more were written.
LEMMA ShapeStays ==
  ASSUME ReaderShape, UNCHANGED <<known, folded>>, shrunk' \in BOOLEAN, fresh' \in BOOLEAN,
         files' = [n \in Names |-> files'[n]],
         inodes' \in 0..MaxInodes, inodes <= inodes', written' \in 0..MaxLogLines, written <= written',
         \A n \in Names : IsFile(n)' =>
           LogFile(files'[n], inodes', written') \/ \E k \in Names : IsFile(k) /\ files'[n] = files[k]
  PROVE  ReaderShape'
<1>1. inodes \in Nat /\ written \in Nat /\ inodes' \in Nat /\ written' \in Nat
  BY ReaderBounds DEF ReaderShape
<1>2. ASSUME NEW f, LogFile(f, inodes, written) PROVE LogFile(f, inodes', written')
  <2>1. f.ino \in 1..inodes' /\ Len(f.lines) \in Nat /\ Len(f.lines) <= written'
    BY <1>1, <1>2 DEF LogFile
  <2>2. f = [ino |-> f.ino, torn |-> f.torn, lines |-> f.lines] /\ f.torn \in BOOLEAN /\ f.lines \in Seq(1..MaxLogLines)
    BY <1>2 DEF LogFile
  <2> QED BY <2>1, <2>2 DEF LogFile
<1>3. \A n \in Names : IsFile(n)' => LogFile(files'[n], inodes', written')
  BY <1>2 DEF ReaderShape
<1>4. \A n \in Names : known'[n] # Absent => known'[n].ino \in 1..inodes' /\ known'[n].offset \in 0..written'
  BY <1>1 DEF ReaderShape
<1>5. known' = [n \in Names |-> known'[n]] /\ folded' \subseteq 1..MaxLogLines
  BY DEF ReaderShape
<1> QED BY <1>3, <1>4, <1>5 DEF ReaderShape

\* A file whose lines and torn end are replaced.
LEMMA Rewritten ==
  ASSUME NEW f, NEW cut \in BOOLEAN, NEW lines \in Seq(1..MaxLogLines), NEW last \in Nat, NEW most \in Nat,
         NEW n \in Nat, LogFile(f, last, n), Len(lines) <= most
  PROVE  LET g == [f EXCEPT !.torn = cut, !.lines = lines]
         IN LogFile(g, last, most) /\ g.ino = f.ino /\ g.lines = lines
  BY DEF LogFile

\* A line is appended to the log, which may be a new file.
LEMMA WriteKeeps == ASSUME ReaderInv, NEW cut \in BOOLEAN, WriteLine(cut) PROVE ReaderInv'
<1> USE DEF ReaderInv
<1> DEFINE C == CurrentLog
<1>1. /\ C \in Names /\ ~shrunk /\ shrunk' = FALSE /\ fresh' = FALSE /\ UNCHANGED <<known, folded>>
      /\ written' \in 0..MaxLogLines /\ written <= written' /\ written \in Nat /\ written + 1 \in 1..MaxLogLines
      /\ cut = FALSE => written' = written + 1
      /\ shrunk' = shrunk /\ inodes \in Nat
  BY ReaderBounds DEF WriteLine, ReaderShape, Names
<1>2. CASE IsFile(C)
  <2> DEFINE longer == IF cut THEN files[C].lines ELSE Append(files[C].lines, written + 1)
             after == [files[C] EXCEPT !.torn = cut, !.lines = longer]
  <2>1. files' = [files EXCEPT ![C] = after] /\ inodes' = inodes
    BY <1>2 DEF WriteLine
  <2>2. LogFile(files[C], inodes, written) /\ files[C].lines \in Seq(1..MaxLogLines)
    BY <1>1, <1>2 DEF ReaderShape, LogFile
  <2>3. /\ longer \in Seq(1..MaxLogLines) /\ Len(longer) <= written'
        /\ Len(files[C].lines) <= Len(longer)
        /\ \A i \in 1..Len(files[C].lines) : longer[i] = files[C].lines[i]
    <3>1. CASE cut
      BY <1>1, <2>2, <3>1 DEF LogFile
    <3>2. CASE ~cut
      BY <1>1, <2>2, <3>2 DEF LogFile
    <3> QED BY <3>1, <3>2
  <2> HIDE DEF longer
  <2>4. LogFile(after, inodes', written') /\ after.ino = files[C].ino /\ after.lines = longer
    <3>1. written' \in Nat /\ inodes' \in Nat /\ LogFile(files[C], inodes', written) /\ written \in Nat
      BY <1>1, <2>1, <2>2
    <3>2. CASE cut
      <4>1. after = [files[C] EXCEPT !.torn = TRUE, !.lines = longer]
        BY <3>2
      <4> HIDE DEF after
      <4> QED BY <2>3, <3>1, <4>1, Rewritten
    <3>3. CASE ~cut
      <4>1. after = [files[C] EXCEPT !.torn = FALSE, !.lines = longer]
        BY <3>3
      <4> HIDE DEF after
      <4> QED BY <2>3, <3>1, <4>1, Rewritten
    <3> QED BY <3>2, <3>3
  <2> HIDE DEF after
  <2>5. files'[C] = after /\ \A n \in Names \ {C} : files'[n] = files[n]
    BY <1>1, <2>1 DEF ReaderShape
  <2>6. ReaderShape'
    <3>1. files' = [n \in Names |-> files'[n]]
      BY <2>1 DEF ReaderShape
    <3>2. inodes' \in 0..MaxInodes /\ inodes <= inodes'
      BY <1>1, <2>1 DEF ReaderShape
    <3> QED BY <1>1, <2>4, <2>5, <3>1, <3>2, ShapeStays DEF IsFile
  <2>7. OneName'
    BY <1>1, <1>2, <2>4, <2>5 DEF OneName, IsFile
  <2>8. ASSUME NEW n \in Names, IsFile(n)' PROVE \E k \in Names : Stays(k, n)
    <3>1. CASE n = C
      <4>1. Stays(C, C)
        BY <1>1, <1>2, <2>3, <2>4, <2>5 DEF Stays
      <4> QED BY <1>1, <3>1, <4>1
    <3>2. CASE n # C
      <4>1. Stays(n, n)
        BY <2>5, <2>8, <3>2 DEF Stays, IsFile, ReaderShape, LogFile
      <4> QED BY <4>1
    <3> QED BY <3>1, <3>2
  <2> QED BY <1>1, <2>6, <2>7, <2>8, FilesMove
<1>3. CASE ~IsFile(C)
  <2> DEFINE new == [ino |-> inodes + 1, torn |-> cut, lines |-> IF cut THEN <<>> ELSE <<written + 1>>]
  <2>1. files' = [files EXCEPT ![C] = new] /\ inodes' = inodes + 1 /\ inodes \in Nat /\ inodes' \in 0..MaxInodes
    BY <1>3, ReaderBounds DEF WriteLine, ReaderShape
  <2>2. LogFile(new, inodes', written') /\ new.ino = inodes + 1
    <3>1. CASE cut
      BY <1>1, <2>1, <3>1 DEF LogFile
    <3>2. CASE ~cut
      BY <1>1, <2>1, <3>2 DEF LogFile
    <3> QED BY <3>1, <3>2
  <2> HIDE DEF new
  <2>3. files'[C] = new /\ \A n \in Names \ {C} : files'[n] = files[n]
    BY <1>1, <2>1 DEF ReaderShape
  <2>4. ReaderShape'
    <3>1. files' = [n \in Names |-> files'[n]] /\ inodes <= inodes'
      BY <2>1 DEF ReaderShape
    <3> QED BY <1>1, <2>1, <2>2, <2>3, <3>1, ShapeStays DEF IsFile
  <2>5. OneName'
    BY <1>1, <2>1, <2>2, <2>3 DEF OneName, IsFile, ReaderShape, LogFile
  <2>6. ASSUME NEW n \in Names, IsFile(n)' PROVE files'[n].ino = inodes + 1 \/ \E k \in Names : Stays(k, n)
    <3>1. CASE n = C
      BY <2>2, <2>3, <3>1
    <3>2. CASE n # C
      <4>1. Stays(n, n)
        BY <2>3, <2>6, <3>2 DEF Stays, IsFile, ReaderShape, LogFile
      <4> QED BY <4>1
    <3> QED BY <3>1, <3>2
  <2> QED BY <1>1, <2>4, <2>5, <2>6, FilesMove
<1> QED BY <1>2, <1>3

\* The newline of a torn line arrives.
LEMMA CompleteKeeps == ASSUME ReaderInv, NEW n \in Names, Complete(n) PROVE ReaderInv'
<1> USE DEF ReaderInv
<1> DEFINE longer == Append(files[n].lines, written + 1)
           after == [files[n] EXCEPT !.torn = FALSE, !.lines = longer]
<1>1. /\ IsFile(n) /\ ~shrunk /\ shrunk' = shrunk /\ fresh' = FALSE /\ UNCHANGED <<known, folded, inodes>>
      /\ written' = written + 1 /\ written' \in 1..MaxLogLines /\ written \in Nat /\ inodes \in Nat
  BY ReaderBounds DEF Complete, ReaderShape
<1>0. files' = [files EXCEPT ![n] = after]
  BY DEF Complete
<1>2. LogFile(files[n], inodes, written) /\ files[n].lines \in Seq(1..MaxLogLines)
  BY <1>1 DEF ReaderShape, LogFile
<1>3. /\ longer \in Seq(1..MaxLogLines) /\ Len(longer) <= written'
      /\ Len(files[n].lines) <= Len(longer)
      /\ \A i \in 1..Len(files[n].lines) : longer[i] = files[n].lines[i]
  BY <1>1, <1>2 DEF LogFile
<1> HIDE DEF longer
<1>4. LogFile(after, inodes', written') /\ after.ino = files[n].ino /\ after.lines = longer
  <2>1. after = [files[n] EXCEPT !.torn = FALSE, !.lines = longer] /\ written' \in Nat /\ inodes' \in Nat
    BY <1>1
  <2> HIDE DEF after
  <2> QED BY <1>1, <1>2, <1>3, <2>1, Rewritten
<1> HIDE DEF after
<1>5. files'[n] = after /\ \A m \in Names \ {n} : files'[m] = files[m]
  BY <1>0 DEF ReaderShape
<1>6. ReaderShape'
  <2>1. files' = [m \in Names |-> files'[m]]
    BY <1>0 DEF ReaderShape
  <2>2. inodes' \in 0..MaxInodes /\ inodes <= inodes'
    BY <1>1 DEF ReaderShape
  <2>3. written' \in 0..MaxLogLines /\ written <= written'
    BY <1>1, ReaderBounds
  <2>4. shrunk' \in BOOLEAN /\ fresh' \in BOOLEAN
    BY <1>1 DEF ReaderShape
  <2> QED BY <1>1, <1>4, <1>5, <2>1, <2>2, <2>3, <2>4, ShapeStays DEF IsFile
<1>7. OneName'
  BY <1>1, <1>4, <1>5 DEF OneName, IsFile
<1>8. ASSUME NEW m \in Names, IsFile(m)' PROVE \E k \in Names : Stays(k, m)
  <2>1. CASE m = n
    <3>1. Stays(n, n)
      BY <1>1, <1>3, <1>4, <1>5 DEF Stays
    <3> QED BY <2>1, <3>1
  <2>2. CASE m # n
    <3>1. Stays(m, m)
      BY <1>5, <1>8, <2>2 DEF Stays, IsFile, ReaderShape, LogFile
    <3> QED BY <3>1
  <2> QED BY <2>1, <2>2
<1> QED BY <1>1, <1>6, <1>7, <1>8, FilesMove

\* A rotation gives the log a free name.
LEMMA RotateKeeps == ASSUME ReaderInv, NEW n \in Names, Rotate(n) PROVE ReaderInv'
<1> USE DEF ReaderInv
<1> DEFINE C == CurrentLog
<1>1. /\ n # C /\ C \in Names /\ IsFile(C) /\ ~IsFile(n) /\ ~shrunk /\ shrunk' = shrunk /\ fresh' = FALSE
      /\ UNCHANGED <<known, folded, inodes, written>>
      /\ files' = [files EXCEPT ![n] = files[C], ![C] = Absent]
  BY ReaderNames DEF Rotate, Names, ReaderShape
<1>2. files'[n] = files[C] /\ files'[C] = Absent /\ \A m \in Names \ {n, C} : files'[m] = files[m]
  BY <1>1 DEF ReaderShape
<1>3. ReaderShape'
  <2>1. files' = [m \in Names |-> files'[m]]
    BY <1>1 DEF ReaderShape
  <2> QED BY <1>1, <1>2, <2>1, ReaderBounds, ShapeStays DEF ReaderShape, IsFile
<1>4. OneName'
  <2>1. \A m \in Names : IsFile(m)' => /\ m # C /\ (m = n => files'[m] = files[C])
                                       /\ m # n => IsFile(m) /\ files'[m] = files[m]
    BY <1>1, <1>2 DEF IsFile
  <2> QED BY <1>1, <2>1 DEF OneName
<1>5. ASSUME NEW m \in Names, IsFile(m)' PROVE \E k \in Names : Stays(k, m)
  <2>1. PICK k \in Names : IsFile(k) /\ files'[m] = files[k]
    BY <1>1, <1>2, <1>5 DEF IsFile
  <2>2. Len(files[k].lines) \in Nat
    BY <2>1 DEF ReaderShape, LogFile
  <2>3. Stays(k, m)
    <3>1. IsFile(k) /\ files'[m].ino = files[k].ino
      BY <2>1
    <3>2. Len(files[k].lines) <= Len(files'[m].lines)
      BY <2>1, <2>2
    <3>3. \A i \in 1..Len(files[k].lines) : files'[m].lines[i] = files[k].lines[i]
      BY <2>1
    <3> QED BY <1>1, <3>1, <3>2, <3>3 DEF Stays
  <2> QED BY <2>3
<1> QED BY <1>1, <1>3, <1>4, <1>5, FilesMove

\* A file is removed: if it was known, all is read anew.
LEMMA RemoveKeeps == ASSUME ReaderInv, NEW n \in Names, RemoveFile(n) PROVE ReaderInv'
<1> USE DEF ReaderInv
<1>1. IsFile(n) /\ fresh' = FALSE /\ UNCHANGED <<known, folded, inodes, written, shrunk>>
  BY DEF RemoveFile
<1>2. files'[n] = Absent /\ \A m \in Names \ {n} : files'[m] = files[m]
  BY DEF RemoveFile, ReaderShape
<1>3. ReaderShape'
  <2>1. files' = [m \in Names |-> files'[m]]
    BY DEF RemoveFile, ReaderShape
  <2> QED BY <1>1, <1>2, <2>1, ReaderBounds, ShapeStays DEF ReaderShape, IsFile
<1>4. OneName'
  BY <1>1, <1>2 DEF OneName, IsFile
<1>5. ASSUME NEW m \in Names, IsFile(m)' PROVE \E k \in Names : Stays(k, m)
  <2>1. Stays(m, m)
    BY <1>2, <1>5 DEF Stays, IsFile, ReaderShape, LogFile
  <2> QED BY <2>1
<1> QED BY <1>1, <1>3, <1>4, <1>5, FilesMove

\* A file is emptied: it was read up to its offset, or nothing was read of it.
LEMMA EmptyKeeps == ASSUME ReaderInv, NEW n \in Names, EmptyFile(n) PROVE ReaderInv'
<1> USE DEF ReaderInv
<1> DEFINE after == [files[n] EXCEPT !.lines = <<>>, !.torn = FALSE]
<1>1. /\ IsFile(n) /\ shrunk' = TRUE /\ fresh' = FALSE /\ UNCHANGED <<known, folded, inodes, written>>
      /\ files' = [files EXCEPT ![n] = after]
      /\ \A m \in Names \ {n} : known[m] # Absent => known[m].ino # files[n].ino
  BY DEF EmptyFile
<1>2. LogFile(files[n], inodes, written) /\ written \in Nat /\ inodes \in Nat
  BY <1>1, ReaderBounds DEF ReaderShape
<1>3. LogFile(after, inodes', written') /\ after.ino = files[n].ino /\ after.lines = <<>>
  <2>1. after = [files[n] EXCEPT !.torn = FALSE, !.lines = <<>>]
    BY <1>2 DEF LogFile
  <2>2. <<>> \in Seq(1..MaxLogLines) /\ Len(<<>>) <= written
    BY <1>2
  <2> HIDE DEF after
  <2> QED BY <1>1, <1>2, <2>1, <2>2, Rewritten
<1> HIDE DEF after
<1>4. files'[n] = after /\ \A m \in Names \ {n} : files'[m] = files[m]
  BY <1>1 DEF ReaderShape
<1>5. ReaderShape'
  <2>1. files' = [m \in Names |-> files'[m]]
    BY <1>1 DEF ReaderShape
  <2> QED BY <1>1, <1>3, <1>4, <2>1, ReaderBounds, ShapeStays DEF ReaderShape, IsFile
<1>6. OneName'
  BY <1>1, <1>3, <1>4 DEF OneName, IsFile
<1>7. \A m, k \in Names : IsNow(m, k)' => IsNow(m, k) /\ (k = n => m = n)
  BY <1>1, <1>3, <1>4 DEF IsNow, IsFile
<1>8. OffsetsFit'
  BY <1>1, <1>4, <1>7 DEF OffsetsFit, IsNow
<1>9. FoldIsRead'
  <2> SUFFICES ASSUME ~Rebuilds', NEW x PROVE x \in folded <=> WasRead(x)'
    BY <1>1 DEF FoldIsRead
  <2>1. \A m \in Names : known[m] # Absent => \E k \in Names : IsNow(m, k)'
    BY <1>1, <1>6, RebuildsNext DEF HasLost
  <2>2. \A m, k \in Names : IsNow(m, k) => IsNow(m, k)'
    BY <1>7, <2>1 DEF IsNow, OneName
  <2>3. ASSUME IsNow(n, n) PROVE known[n].offset = 0
    <3>1. ~(Len(files'[n].lines) < known'[n].offset)
      BY <1>6, <2>2, <2>3, RebuildsNext DEF HasLost, IsNow
    <3>2. known[n].offset \in Nat /\ Len(files'[n].lines) = 0
      BY <1>3, <1>4, <2>3, <1>2 DEF ReaderShape, IsNow
    <3> QED BY <1>1, <3>1, <3>2
  <2>4. ~Rebuilds
    <3> SUFFICES ASSUME Rebuilds PROVE FALSE
      OBVIOUS
    <3>1. PICK m \in Names : known[m] # Absent /\ HasLost(m)
      BY RebuildsWhen
    <3>2. IsNow(m, m) /\ Len(files[m].lines) < known[m].offset
      BY <3>1, <2>1, <1>7 DEF HasLost
    <3>3. m # n
      BY <3>2, <2>3, <1>2 DEF LogFile
    <3>4. IsNow(m, m)' /\ Len(files'[m].lines) < known'[m].offset
      BY <1>1, <1>4, <2>2, <3>2, <3>3
    <3> QED BY <1>1, <1>6, <3>1, <3>4, RebuildsNext DEF HasLost
  <2>5. x \in folded <=> WasRead(x)
    BY <2>4 DEF FoldIsRead
  <2>6. ASSUME NEW m \in Names, NEW k \in Names, IsNow(m, k)
        PROVE  \A i \in 1..known[m].offset : files'[k].lines[i] = files[k].lines[i]
    BY <1>4, <1>7, <2>2, <2>3, <2>6
  <2> QED BY <1>1, <1>7, <2>2, <2>5, <2>6 DEF WasRead
<1> QED BY <1>1, <1>5, <1>6, <1>8, <1>9 DEF FoldIsWholeLog

\* A read: what it adds is what was appended, or everything when something may
\* have gone.
LEMMA ReadKeeps == ASSUME ReaderInv, ReadLogs PROVE ReaderInv'
<1> USE DEF ReaderInv
<1> DEFINE Present == {m \in Names : IsFile(m)}
<1>1. /\ folded' = (IF Rebuilds THEN {} ELSE folded) \cup UNION {ReadFrom(n) : n \in Present}
      /\ known' = [n \in Names |-> IF IsFile(n) THEN [ino |-> files[n].ino, offset |-> Len(files[n].lines)] ELSE Absent]
      /\ shrunk' = FALSE /\ fresh' = TRUE /\ UNCHANGED <<files, written, inodes>>
  BY DEF ReadLogs, EndOfLines
<1>2. ASSUME NEW n \in Names, IsFile(n)
      PROVE  LogFile(files[n], inodes, written) /\ Len(files[n].lines) \in Nat /\ Len(files[n].lines) <= written
             /\ \A x : x \in LogLinesOf(files[n]) <=> \E i \in 1..Len(files[n].lines) : x = files[n].lines[i]
             /\ LogLinesOf(files[n]) \subseteq 1..MaxLogLines
  <2>1. LogFile(files[n], inodes, written)
    BY <1>2 DEF ReaderShape
  <2>2. files[n].lines \in Seq(1..MaxLogLines) /\ Len(files[n].lines) <= written
    BY <2>1 DEF LogFile
  <2>3. /\ Len(files[n].lines) \in Nat /\ DOMAIN files[n].lines = 1..Len(files[n].lines)
        /\ \A i \in 1..Len(files[n].lines) : files[n].lines[i] \in 1..MaxLogLines
    BY <2>2, ElementOfSeq, LenProperties
  <2> QED BY <2>1, <2>2, <2>3 DEF LogLinesOf
<1>3. ASSUME NEW n \in Names, IsFile(n)
      PROVE  ReadFrom(n) \subseteq LogLinesOf(files[n])
             /\ LogLinesOf(files[n]) \subseteq (IF Rebuilds THEN {} ELSE folded) \cup ReadFrom(n)
  <2> DEFINE of == {k \in Names : known[k] # Absent /\ known[k].ino = files[n].ino}
  <2>1. CASE Rebuilds \/ of = {}
    <3>1. OffsetOf(n) = 0
      BY <2>1 DEF OffsetOf
    <3>2. \A x : x \in ReadFrom(n) <=> \E i \in 1..Len(files[n].lines) : x = files[n].lines[i]
      BY <3>1 DEF ReadFrom
    <3>3. \A x : x \in ReadFrom(n) <=> x \in LogLinesOf(files[n])
      BY <1>2, <1>3, <3>2
    <3> QED BY <3>3
  <2>2. CASE ~Rebuilds /\ of # {}
    <3>1. PICK k \in of : OffsetOf(n) = known[k].offset
      BY <2>2 DEF OffsetOf
    <3>2. IsNow(k, n) /\ known[k].offset \in Nat
      BY <1>3, <3>1 DEF IsNow, ReaderShape
    <3>3. \A i \in 1..known[k].offset : files[n].lines[i] \in folded
      BY <2>2, <3>1, <3>2 DEF FoldIsRead, WasRead
    <3>4. \A x : x \in ReadFrom(n) <=>
                   \E i \in known[k].offset + 1 .. Len(files[n].lines) : x = files[n].lines[i]
      BY <3>1 DEF ReadFrom
    <3>5. Len(files[n].lines) \in Nat
      BY <1>2, <1>3
    <3>6. ASSUME NEW i \in 1..Len(files[n].lines)
          PROVE  files[n].lines[i] \in folded \/ files[n].lines[i] \in ReadFrom(n)
      BY <3>2, <3>3, <3>4, <3>5
    <3>7. ASSUME NEW i \in known[k].offset + 1 .. Len(files[n].lines) PROVE i \in 1..Len(files[n].lines)
      BY <3>2, <3>5
    <3>8. ReadFrom(n) \subseteq LogLinesOf(files[n])
      <4> SUFFICES ASSUME NEW x \in ReadFrom(n) PROVE x \in LogLinesOf(files[n])
        OBVIOUS
      <4>1. PICK i \in known[k].offset + 1 .. Len(files[n].lines) : x = files[n].lines[i]
        BY <3>4
      <4>2. i \in 1..Len(files[n].lines)
        BY <3>7
      <4> QED BY <1>2, <1>3, <4>1, <4>2
    <3>9. LogLinesOf(files[n]) \subseteq folded \cup ReadFrom(n)
      BY <1>2, <1>3, <3>6
    <3> QED BY <2>2, <3>8, <3>9
  <2> QED BY <2>1, <2>2
<1>4. ~Rebuilds => folded \subseteq UNION {LogLinesOf(files[n]) : n \in Present}
  <2> SUFFICES ASSUME ~Rebuilds, NEW x \in folded PROVE \E n \in Present : x \in LogLinesOf(files[n])
    OBVIOUS
  <2>1. PICK m \in Names, n \in Names : IsNow(m, n) /\ \E i \in 1..known[m].offset : files[n].lines[i] = x
    BY DEF FoldIsRead, WasRead
  <2>2. known[m].offset <= Len(files[n].lines) /\ known[m].offset \in Nat
    BY <2>1, <1>2, RebuildsWhen DEF OffsetsFit, HasLost, IsNow, ReaderShape
  <2>3. PICK i \in 1..known[m].offset : files[n].lines[i] = x
    BY <2>1
  <2>4. IsFile(n) /\ Len(files[n].lines) \in Nat
    BY <1>2, <2>1 DEF IsNow
  <2>5. i \in 1..Len(files[n].lines)
    BY <2>2, <2>4
  <2> QED BY <1>2, <2>3, <2>4, <2>5
<1>5. folded' = UNION {LogLinesOf(files[n]) : n \in Present}
  <2>1. \A n \in Present : ReadFrom(n) \subseteq LogLinesOf(files[n])
    BY <1>3
  <2>2. \A n \in Present : LogLinesOf(files[n]) \subseteq (IF Rebuilds THEN {} ELSE folded) \cup ReadFrom(n)
    BY <1>3
  <2>3. (IF Rebuilds THEN {} ELSE folded) \subseteq UNION {LogLinesOf(files[n]) : n \in Present}
    BY <1>4
  <2> HIDE DEF Present
  <2> QED BY <1>1, <2>1, <2>2, <2>3
<1>6. \A n \in Names : IsFile(n) => [ino |-> files[n].ino, offset |-> Len(files[n].lines)] # Absent
  BY <1>2, ReaderBounds, AbsentAssumption DEF ReaderShape, LogFile
<1>7. \A n \in Names : /\ IsFile(n)' <=> IsFile(n)
                       /\ known'[n] # Absent <=> IsFile(n)
                       /\ IsFile(n) => known'[n].ino = files[n].ino /\ known'[n].offset = Len(files[n].lines)
  BY <1>1, <1>6 DEF IsFile
<1>8. ReaderShape'
  <2>1. folded' \subseteq 1..MaxLogLines
    BY <1>2, <1>5
  <2>2. \A n \in Names : known'[n] # Absent => known'[n].ino \in 1..inodes /\ known'[n].offset \in 0..written
    BY <1>2, <1>7, ReaderBounds DEF LogFile, ReaderShape
  <2> QED BY <1>1, <2>1, <2>2 DEF ReaderShape, IsFile
<1>9. OneName'
  BY <1>1, <1>7 DEF OneName
<1>10. \A m, n \in Names : IsNow(m, n)' <=> m = n /\ IsFile(n)
  BY <1>1, <1>7 DEF IsNow, OneName, IsFile
<1>11. OffsetsFit'
  BY <1>1, <1>2, <1>7, <1>10 DEF OffsetsFit
<1>12. FoldIsRead' /\ FoldIsWholeLog'
  <2>1. \A x : WasRead(x)' <=> \E n \in Present : x \in LogLinesOf(files[n])
    <3> SUFFICES ASSUME NEW x PROVE WasRead(x)' <=> \E n \in Present : x \in LogLinesOf(files[n])
      OBVIOUS
    <3>1. WasRead(x)' <=> \E n \in Names : IsFile(n) /\ \E i \in 1..known'[n].offset : files[n].lines[i] = x
      BY <1>1, <1>10 DEF WasRead
    <3>2. \A n \in Names : IsFile(n) =>
            ((\E i \in 1..known'[n].offset : files[n].lines[i] = x) <=> x \in LogLinesOf(files[n]))
      <4> SUFFICES ASSUME NEW n \in Names, IsFile(n)
                   PROVE (\E i \in 1..known'[n].offset : files[n].lines[i] = x) <=> x \in LogLinesOf(files[n])
        OBVIOUS
      <4>1. known'[n].offset = Len(files[n].lines)
        BY <1>7
      <4>2. x \in LogLinesOf(files[n]) <=> \E i \in 1..Len(files[n].lines) : x = files[n].lines[i]
        BY <1>2
      <4> QED BY <4>1, <4>2
    <3> QED BY <3>1, <3>2
  <2>2. \A x : x \in folded' <=> \E n \in Present : x \in LogLinesOf(files[n])
    BY <1>5
  <2>3. FoldIsRead'
    BY <2>1, <2>2 DEF FoldIsRead
  <2>4. FoldIsWholeLog'
    BY <1>1, <1>5 DEF FoldIsWholeLog, IsFile
  <2> QED BY <2>3, <2>4
<1> QED BY <1>8, <1>9, <1>11, <1>12

LEMMA ReaderInvHolds == ReaderSpec => []ReaderInv
<1>1. ReaderInv /\ [ReaderNext]_readerVars => ReaderInv'
  <2> SUFFICES ASSUME ReaderInv, [ReaderNext]_readerVars PROVE ReaderInv'
    OBVIOUS
  <2>1. CASE ReaderNext
    BY <2>1, WriteKeeps, CompleteKeeps, RotateKeeps, RemoveKeeps, EmptyKeeps, ReadKeeps DEF ReaderNext
  <2>2. CASE UNCHANGED readerVars
    <3> USE <2>2 DEF readerVars, ReaderInv
    <3>1. ReaderShape'
      BY DEF ReaderShape, IsFile
    <3>2. OneName'
      BY DEF OneName, IsFile
    <3>3. OffsetsFit'
      BY DEF OffsetsFit, IsNow, IsFile
    <3>4. Rebuilds' <=> Rebuilds
      BY DEF Rebuilds, NameNow, IsFile
    <3>5. \A x : WasRead(x)' <=> WasRead(x)
      BY DEF WasRead, IsNow, IsFile
    <3>6. FoldIsRead'
      BY <3>4, <3>5 DEF FoldIsRead
    <3>7. FoldIsWholeLog'
      BY DEF FoldIsWholeLog, IsFile
    <3> QED BY <3>1, <3>2, <3>3, <3>6, <3>7
  <2> QED BY <2>1, <2>2
<1> QED BY ReaderInitInv, <1>1, PTL DEF ReaderSpec

\* The reader's variables keep their types, and while nothing was emptied an
\* offset never points behind the complete lines of its file.
THEOREM ReaderTypeCorrect == ReaderSpec => []ReaderTypeOK
<1>1. ReaderInv => ReaderTypeOK
  BY ReaderBounds DEF ReaderInv, ReaderTypeOK, ReaderShape, LogFile, LogLinesOf, OffsetsFit, IsNow
<1> QED BY ReaderInvHolds, <1>1, PTL

\* After each read the fold holds the complete lines of the files there are, no
\* line lost to a rotation and none kept from a file that is gone.
THEOREM ReaderCorrect == ReaderSpec => []FoldIsWholeLog
<1>1. ReaderInv => FoldIsWholeLog
  BY DEF ReaderInv
<1> QED BY ReaderInvHolds, <1>1, PTL

-----------------------------------------------------------------------------
\* A set of numbers has a least one, and a bounded one a greatest.
LEMMA LeastNat == ASSUME NEW T, T \subseteq Nat, T # {} PROVE \E x \in T : \A y \in T : x <= y
<1> DEFINE R == OpToRel(<, Nat)
<1>1. IsWellFoundedOn(R, Nat)
  BY NatLessThanWellFounded
<1>2. \A x, y \in Nat : y < x => <<y, x>> \in R
  BY DEF OpToRel
<1> HIDE DEF R
<1>3. PICK x \in T : \A y \in T : ~(<<y, x>> \in R)
  BY <1>1, WFMin
<1>4. ASSUME NEW y \in T PROVE x <= y
  <2>1. x \in Nat /\ y \in Nat
    OBVIOUS
  <2>2. ~(y < x)
    BY <2>1, <1>2, <1>3
  <2> QED BY <2>1, <2>2
<1> QED BY <1>4

LEMMA GreatestNat ==
  ASSUME NEW N \in Nat, NEW T, T \subseteq 1..N, T # {} PROVE \E x \in T : \A y \in T : y <= x
<1> DEFINE U == {N - x : x \in T}
<1>1. U \subseteq Nat /\ U # {}
  <2>1. \A x \in T : N - x \in Nat
    OBVIOUS
  <2> QED BY <2>1
<1>2. PICK u \in U : \A w \in U : u <= w
  BY <1>1, LeastNat
<1>3. PICK x \in T : u = N - x
  OBVIOUS
<1>4. ASSUME NEW y \in T PROVE y <= x
  <2>1. u <= N - y
    BY <1>2
  <2> QED BY <1>3, <2>1
<1> QED BY <1>4

-----------------------------------------------------------------------------
\* The newest K of a set of turns are at most K, and the newest of all is one.
Newest(all, K) == {n \in all : Cardinality({m \in all : m > n}) < K}

LEMMA NewestAreFew ==
  ASSUME NEW N \in Nat, NEW all, all \subseteq 1..N, NEW K \in Nat \ {0}
  PROVE  /\ IsFiniteSet(Newest(all, K)) /\ Cardinality(Newest(all, K)) <= K
         /\ \A n \in all : \E m \in Newest(all, K) : n <= m
<1> DEFINE above(n) == {m \in all : m > n}
           few == Newest(all, K)
<1>1. IsFiniteSet(all)
  <2>1. IsFiniteSet(1..N)
    BY FS_Interval
  <2> QED BY <2>1, FS_Subset
<1>2. few \subseteq all /\ \A n \in all : n \in few <=> Cardinality(above(n)) < K
  BY DEF Newest
<1>3. IsFiniteSet(few)
  BY <1>1, <1>2, FS_Subset
<1>4. \A n \in all : IsFiniteSet(above(n)) /\ Cardinality(above(n)) \in Nat
  <2> SUFFICES ASSUME NEW n \in all PROVE IsFiniteSet(above(n)) /\ Cardinality(above(n)) \in Nat
    OBVIOUS
  <2>1. above(n) \in SUBSET all
    OBVIOUS
  <2> HIDE DEF above
  <2> QED BY <1>1, <2>1, FS_Subset, FS_CardinalityType
<1>5. Cardinality(few) <= K
  <2>1. CASE few = {}
    BY <2>1, FS_EmptySet
  <2>2. CASE few # {}
    <3>1. PICK l \in few : \A y \in few : l <= y
      <4>1. few \subseteq Nat
        <5> HIDE DEF few
        <5>1. all \subseteq Nat
          OBVIOUS
        <5> QED BY <1>2, <5>1
      <4> HIDE DEF few
      <4> QED BY <2>2, <4>1, LeastNat
    <3>2. few \subseteq above(l) \cup {l}
      <4> SUFFICES ASSUME NEW y \in few, y # l PROVE y \in above(l)
        OBVIOUS
      <4>1. y \in all /\ l \in all /\ l <= y
        BY <3>1, <1>2
      <4> QED BY <4>1
    <3>3. IsFiniteSet(above(l)) /\ Cardinality(above(l)) \in Nat /\ Cardinality(above(l)) < K
      BY <3>1, <1>2, <1>4
    <3> HIDE DEF above, few
    <3>4. IsFiniteSet(above(l) \cup {l}) /\ Cardinality(above(l) \cup {l}) <= Cardinality(above(l)) + 1
      BY <3>3, FS_AddElement
    <3>5. Cardinality(few) <= Cardinality(above(l) \cup {l})
      BY <3>2, <3>4, FS_Subset
    <3>6. Cardinality(few) \in Nat /\ Cardinality(above(l) \cup {l}) \in Nat
      BY <1>3, <3>4, FS_CardinalityType
    <3> QED BY <3>3, <3>4, <3>5, <3>6
  <2> QED BY <2>1, <2>2
<1>6. ASSUME NEW n \in all PROVE \E m \in few : n <= m
  <2>1. PICK x \in all : \A y \in all : y <= x
    BY <1>6, GreatestNat
  <2>2. above(x) = {}
    <3> SUFFICES ASSUME NEW y \in above(x) PROVE FALSE
      OBVIOUS
    <3>1. y \in Nat /\ x \in Nat /\ y <= x /\ y > x
      BY <2>1
    <3> QED BY <3>1
  <2>3. Cardinality(above(x)) < K
    BY <2>2, FS_EmptySet
  <2>4. x \in few
    BY <1>2, <2>1, <2>3
  <2> QED BY <2>1, <2>4
<1> QED BY <1>3, <1>5, <1>6

-----------------------------------------------------------------------------
\* The ledger of spend over one transcript.
LedgerShape ==
  /\ clock \in 0..MaxTime /\ torn \in BOOLEAN
  /\ transcript \in Seq([turn : Turns, ts : 0..MaxTime]) /\ Len(transcript) <= MaxRecords
  /\ torn => Len(transcript) > 0
  /\ offset \in 0..Size /\ seen \subseteq Turns /\ prevTick \in 0..MaxTime \cup {NoTick}
  /\ tallies \in [Turns -> Nat] /\ parsed \subseteq Turns
SeenIsSmall == Cardinality(seen) <= MaxSeenIds

\* Turns are written one after the other.
TurnsInOrder == \A i, j \in 1..Len(transcript) : i <= j => transcript[i].turn <= transcript[j].turn

\* What is remembered is no newer than what is yet to be read.
SeenIsBehind ==
  \A n \in seen : /\ n <= LastTurn
                  /\ \A i \in 1..Len(transcript) : 2 * (i - 1) >= offset => n <= transcript[i].turn

\* A turn that was counted is no newer than the newest remembered one.
CountedIsSeen == \A n \in Turns : tallies[n] > 0 => tallies[n] = 1 /\ \E m \in seen : n <= m

\* What the cursor has reached was read whole, or predates it.
BegunIsParsed == prevTick # NoTick => \A i \in 1..Len(transcript) : 2 * i - 1 <= offset => i \in parsed

NoneUncounted == prevTick = NoTick => \A n \in Turns : tallies[n] = 0

LedgerInv == NoneUncounted /\ LedgerShape /\ SeenIsSmall /\ TurnsInOrder /\ SeenIsBehind /\ CountedIsSeen /\ BegunIsParsed

LEMMA LedgerInitInv == LedgerInit => LedgerInv
<1> SUFFICES ASSUME LedgerInit PROVE LedgerInv
  OBVIOUS
<1>1. LedgerShape
  <2>1. /\ clock = 0 /\ transcript = <<>> /\ torn = FALSE /\ offset = 0 /\ seen = {} /\ prevTick = NoTick
        /\ tallies = [n \in Turns |-> 0] /\ parsed = {}
    BY DEF LedgerInit
  <2>2. transcript \in Seq([turn : Turns, ts : 0..MaxTime]) /\ Len(transcript) = 0 /\ Size = 0
    BY <2>1 DEF Size
  <2>3. torn \in BOOLEAN /\ (torn => Len(transcript) > 0)
    BY <2>1
  <2>4. tallies \in [Turns -> Nat]
    BY <2>1
  <2>5. clock \in 0..MaxTime /\ Len(transcript) <= MaxRecords /\ offset \in 0..Size
    BY <2>1, <2>2, LedgerBounds
  <2> QED BY <2>1, <2>2, <2>3, <2>4, <2>5 DEF LedgerShape
<1>2. SeenIsSmall
  BY LedgerBounds, FS_EmptySet DEF LedgerInit, SeenIsSmall
<1>3. TurnsInOrder /\ SeenIsBehind /\ CountedIsSeen /\ BegunIsParsed
  BY DEF LedgerInit, TurnsInOrder, SeenIsBehind, CountedIsSeen, BegunIsParsed
<1>4. NoneUncounted
  BY DEF LedgerInit, NoneUncounted
<1> QED BY <1>1, <1>2, <1>3, <1>4 DEF LedgerInv

\* A record is appended: a copy of the last turn, or the next turn.
LEMMA WriteRecordKeeps == ASSUME LedgerInv, WriteRecord PROVE LedgerInv'
<1> USE DEF LedgerInv
<1> DEFINE L == Len(transcript)
<1>1. PICK n \in {LastTurn, LastTurn + 1} \cap Turns : transcript' = Append(transcript, [turn |-> n, ts |-> clock])
  BY DEF WriteRecord
<1>2. /\ torn = FALSE /\ L < MaxRecords /\ torn' \in BOOLEAN
      /\ UNCHANGED <<clock, offset, seen, prevTick, tallies, parsed>>
  BY DEF WriteRecord, LedgerShape
<1>3. /\ [turn |-> n, ts |-> clock] \in [turn : Turns, ts : 0..MaxTime] /\ L \in Nat
      /\ transcript \in Seq([turn : Turns, ts : 0..MaxTime])
  BY DEF LedgerShape
<1>4. /\ transcript' \in Seq([turn : Turns, ts : 0..MaxTime]) /\ Len(transcript') = L + 1
      /\ transcript'[L + 1] = [turn |-> n, ts |-> clock]
      /\ \A i \in 1..L : transcript'[i] = transcript[i]
  BY <1>1, <1>3
<1>5. \A i \in 1..L : transcript[i].turn \in Turns
  <2> SUFFICES ASSUME NEW i \in 1..L PROVE transcript[i].turn \in Turns
    OBVIOUS
  <2>1. transcript[i] \in [turn : Turns, ts : 0..MaxTime]
    BY <1>3, ElementOfSeq
  <2> QED BY <2>1
<1>6. n \in Nat /\ LastTurn <= n /\ LastTurn \in Nat /\ Turns \subseteq Nat
  BY <1>1, <1>3, <1>5 DEF LastTurn, Turns
<1>7. LastTurn' = n
  BY <1>3, <1>4 DEF LastTurn
<1>8. LedgerShape'
  <2>1. Size <= Size' /\ Size \in Nat /\ Size' \in Nat
    BY <1>2, <1>3, <1>4 DEF Size, LedgerShape
  <2>2. offset' \in 0..Size' /\ (torn' => Len(transcript') > 0) /\ Len(transcript') <= MaxRecords
    BY <1>2, <1>3, <1>4, <2>1, LedgerBounds DEF LedgerShape
  <2> QED BY <1>2, <1>4, <2>2 DEF LedgerShape, Turns
<1>9. TurnsInOrder'
  <2> SUFFICES ASSUME NEW i \in 1..(L + 1), NEW j \in 1..(L + 1), i <= j
               PROVE  transcript'[i].turn <= transcript'[j].turn
    BY <1>4 DEF TurnsInOrder
  <2>1. CASE j \in 1..L
    <3>1. i \in 1..L /\ transcript[i].turn <= transcript[j].turn
      BY <1>3, <2>1 DEF TurnsInOrder
    <3> QED BY <1>4, <2>1, <3>1
  <2>2. CASE j = L + 1 /\ i = L + 1
    BY <1>4, <1>6, <2>2
  <2>3. CASE j = L + 1 /\ i \in 1..L
    <3>1. transcript[i].turn <= transcript[L].turn /\ transcript # <<>>
      BY <1>3, <2>3 DEF TurnsInOrder
    <3>2. transcript[i].turn <= LastTurn
      BY <3>1 DEF LastTurn
    <3>3. transcript[i].turn \in Nat
      BY <1>5, <1>6, <2>3
    <3>4. transcript'[i].turn = transcript[i].turn /\ transcript'[j].turn = n
      BY <1>4, <2>3
    <3> QED BY <1>6, <3>2, <3>3, <3>4
  <2> QED BY <1>3, <2>1, <2>2, <2>3
<1>10. SeenIsBehind'
  <2> SUFFICES ASSUME NEW m \in seen
               PROVE  m <= n /\ \A i \in 1..(L + 1) : 2 * (i - 1) >= offset => m <= transcript'[i].turn
    BY <1>2, <1>4, <1>7 DEF SeenIsBehind
  <2>1. m \in Nat /\ m <= LastTurn
    BY <1>6 DEF SeenIsBehind, LedgerShape
  <2>2. m <= n
    BY <1>6, <2>1
  <2>3. \A i \in 1..L : 2 * (i - 1) >= offset => m <= transcript'[i].turn
    BY <1>4 DEF SeenIsBehind
  <2>4. m <= transcript'[L + 1].turn
    BY <1>4, <2>2
  <2>5. \A i \in 1..(L + 1) : i \in 1..L \/ i = L + 1
    BY <1>3
  <2> QED BY <2>2, <2>3, <2>4, <2>5
<1>11. CountedIsSeen' /\ SeenIsSmall' /\ NoneUncounted'
  BY <1>2 DEF CountedIsSeen, SeenIsSmall, NoneUncounted
<1>12. BegunIsParsed'
  <2>1. ~(2 * (L + 1) - 1 <= offset)
    BY <1>2, <1>3 DEF LedgerShape, Size
  <2>2. \A i \in 1..(L + 1) : i \in 1..L \/ i = L + 1
    BY <1>3
  <2> QED BY <1>2, <1>4, <2>1, <2>2 DEF BegunIsParsed
<1> QED BY <1>8, <1>9, <1>10, <1>11, <1>12

\* Time passes, or is set back, and a record is finished: the cursor stays.
LEMMA RestKeeps ==
  ASSUME LedgerInv, UNCHANGED <<transcript, offset, seen, prevTick, tallies, parsed>>, clock' \in 0..MaxTime,
         torn' \in BOOLEAN, torn' => torn
  PROVE  LedgerInv'
<1> USE DEF LedgerInv
<1>1. LedgerShape'
  <2>1. transcript \in Seq([turn : Turns, ts : 0..MaxTime])
    BY DEF LedgerShape
  <2>2. Size <= Size' /\ Size \in Nat /\ Size' \in Nat
    BY <2>1 DEF LedgerShape, Size
  <2>3. offset' \in 0..Size'
    BY <2>2 DEF LedgerShape
  <2> QED BY <2>3 DEF LedgerShape, Turns
<1>2. SeenIsSmall' /\ TurnsInOrder' /\ SeenIsBehind' /\ CountedIsSeen' /\ BegunIsParsed' /\ NoneUncounted'
  BY DEF SeenIsSmall, TurnsInOrder, SeenIsBehind, CountedIsSeen, BegunIsParsed, LastTurn, NoneUncounted
<1> QED BY <1>1, <1>2

\* The first tick points the cursor at the end.
LEMMA SeedKeeps == ASSUME LedgerInv, SeedCursors PROVE LedgerInv'
<1> USE DEF LedgerInv
<1>1. /\ clock' \in 0..MaxTime /\ prevTick' = clock /\ seen' = {} /\ parsed' = 1..Len(transcript)
      /\ offset' = Size /\ UNCHANGED <<transcript, torn, tallies>> /\ prevTick = NoTick
  BY LedgerBounds DEF SeedCursors, TakesTime, LedgerShape
<1>2. Len(transcript) \in Nat /\ Size \in Nat /\ Size' = Size
  BY <1>1 DEF LedgerShape, Size
<1>3. LedgerShape'
  BY <1>1, <1>2, LedgerBounds DEF LedgerShape, Turns
<1>4. SeenIsSmall' /\ SeenIsBehind' /\ TurnsInOrder' /\ BegunIsParsed'
  BY <1>1, LedgerBounds, FS_EmptySet DEF SeenIsSmall, SeenIsBehind, TurnsInOrder, BegunIsParsed
<1>5. CountedIsSeen' /\ NoneUncounted'
  BY <1>1, LedgerBounds DEF CountedIsSeen, NoneUncounted, LedgerShape
<1> QED BY <1>3, <1>4, <1>5

\* Recording is turned off, or the server restarts.
LEMMA ForgetKeeps == ASSUME LedgerInv, Forget PROVE LedgerInv'
<1> USE DEF LedgerInv
<1>1. /\ prevTick' = NoTick /\ offset' = 0 /\ seen' = {} /\ tallies' = [n \in Turns |-> 0] /\ parsed' = {}
      /\ UNCHANGED <<clock, transcript, torn>>
  BY DEF Forget
<1>2. Size \in Nat /\ Size' = Size
  BY <1>1 DEF LedgerShape, Size
<1>3. LedgerShape'
  BY <1>1, <1>2 DEF LedgerShape, Turns
<1>4. SeenIsSmall' /\ SeenIsBehind' /\ TurnsInOrder' /\ BegunIsParsed' /\ CountedIsSeen' /\ NoneUncounted'
  BY <1>1, LedgerBounds, FS_EmptySet
     DEF SeenIsSmall, SeenIsBehind, TurnsInOrder, BegunIsParsed, CountedIsSeen, NoneUncounted
<1> QED BY <1>3, <1>4

\* A tick reads the whole records behind the cursor.  A turn it meets that is not
\* remembered was never counted: it is newer than all that is remembered.
LEMMA TickKeeps == ASSUME LedgerInv, RecordTick PROVE LedgerInv'
<1> USE DEF LedgerInv
<1> DEFINE L == Len(transcript)
<1>1. /\ clock' \in 0..MaxTime /\ prevTick' = clock /\ clock \in 0..MaxTime /\ prevTick # NoTick
      /\ offset' = NextOffset /\ seen' = Remembered /\ parsed' = parsed \cup Fresh
      /\ UNCHANGED <<transcript, torn>>
  BY LedgerBounds DEF RecordTick, TakesTime, LedgerShape
<1>2. /\ transcript \in Seq([turn : Turns, ts : 0..MaxTime]) /\ L \in Nat /\ L <= MaxRecords
      /\ MaxRecords \in Nat /\ Turns = 1..MaxRecords /\ torn \in BOOLEAN /\ (torn => L > 0)
  BY LedgerBounds DEF LedgerShape, Turns
<1>0. L \in Nat /\ L <= MaxRecords /\ MaxRecords \in Nat /\ Turns = 1..MaxRecords
  BY <1>2
<1>3. \A i \in 1..L : transcript[i].turn \in Turns
  <2> SUFFICES ASSUME NEW i \in 1..L PROVE transcript[i].turn \in Turns
    OBVIOUS
  <2>1. transcript[i] \in [turn : Turns, ts : 0..MaxTime]
    BY <1>2, ElementOfSeq
  <2> QED BY <2>1
<1>4. /\ offset \in Nat /\ Size \in Nat /\ LastNewline \in Nat /\ LastNewline <= Size /\ Size <= LastNewline + 1
      /\ Size' = Size /\ offset <= Size
  BY <1>1, <1>2 DEF LedgerShape, Size, LastNewline
<1>5. offset' \in 0..Size' /\ offset <= offset' /\ LastNewline <= offset' /\ (offset' = offset \/ offset' = LastNewline)
  BY <1>1, <1>4 DEF NextOffset
<1>6. NewTurns \subseteq Turns /\ \A n \in NewTurns : n \notin seen /\ \E i \in Fresh : n = transcript[i].turn
  BY <1>3 DEF NewTurns, Fresh, Known
<1>7. seen \subseteq Turns /\ seen \cup NewTurns \subseteq 1..MaxRecords /\ seen' = Newest(seen \cup NewTurns, MaxSeenIds)
  <2>1. Remembered = Newest(seen \cup NewTurns, MaxSeenIds)
    BY DEF Remembered, Newest
  <2>2. seen \subseteq Turns
    BY DEF LedgerShape
  <2> QED BY <1>0, <1>1, <1>6, <2>1, <2>2
<1>8. /\ Cardinality(seen') <= MaxSeenIds /\ seen' \subseteq seen \cup NewTurns
      /\ \A n \in seen \cup NewTurns : \E m \in seen' : n <= m
  <2> DEFINE all == seen \cup NewTurns
  <2>1. all \subseteq 1..MaxRecords /\ seen' = Newest(all, MaxSeenIds)
    BY <1>7
  <2> HIDE DEF all
  <2>2. Cardinality(seen') <= MaxSeenIds /\ \A n \in all : \E m \in seen' : n <= m
    BY <1>2, <2>1, NewestAreFew, LedgerBounds
  <2>3. seen' \subseteq all
    BY <2>1 DEF Newest
  <2> QED BY <2>2, <2>3 DEF all
<1>9. ASSUME NEW n \in NewTurns, NEW m \in seen PROVE m < n
  <2>1. PICK i \in Fresh : n = transcript[i].turn
    BY <1>6, <1>9
  <2>2. i \in 1..L /\ 2 * (i - 1) >= offset
    BY <2>1 DEF Fresh
  <2>3. m <= n /\ m # n
    BY <1>6, <1>9, <2>1, <2>2 DEF SeenIsBehind
  <2> QED BY <1>2, <1>6, <1>7, <2>3
<1>10. ASSUME NEW n \in NewTurns PROVE tallies[n] = 0
  <2>1. tallies[n] \in Nat /\ n \in Turns
    BY <1>6, <1>10 DEF LedgerShape
  <2>2. ~(\E m \in seen : n <= m)
    BY <1>2, <1>6, <1>7, <1>9, <1>10
  <2> QED BY <2>1, <2>2 DEF CountedIsSeen
<1>11. ASSUME NEW n \in Turns
       PROVE  tallies'[n] = tallies[n] \/ (n \in NewTurns /\ tallies'[n] = tallies[n] + 1)
  BY <1>11 DEF RecordTick, LedgerShape
<1>12. tallies' \in [Turns -> Nat]
  BY DEF RecordTick, LedgerShape
<1>13. CountedIsSeen'
  <2> SUFFICES ASSUME NEW n \in Turns, tallies'[n] > 0 PROVE tallies'[n] = 1 /\ \E m \in seen' : n <= m
    BY <1>2 DEF CountedIsSeen, Turns
  <2>1. CASE n \in NewTurns
    BY <1>8, <1>10, <1>11, <1>12, <2>1
  <2>2. CASE n \notin NewTurns
    <3>1. tallies'[n] = 1 /\ \E m \in seen : n <= m
      BY <1>11, <2>2 DEF CountedIsSeen
    <3>2. PICK m \in seen : n <= m
      BY <3>1
    <3>3. PICK k \in seen' : m <= k
      BY <1>8
    <3>4. n \in Nat /\ m \in Nat /\ k \in Nat
      <4>1. k \in seen \cup NewTurns
        BY <1>8
      <4>2. seen \cup NewTurns \subseteq Nat
        BY <1>0, <1>7
      <4> QED BY <1>0, <4>1, <4>2
    <3> QED BY <3>1, <3>2, <3>3, <3>4
  <2> QED BY <2>1, <2>2
<1>14. SeenIsBehind'
  <2> SUFFICES ASSUME NEW n \in seen'
               PROVE  n <= LastTurn /\ \A i \in 1..L : 2 * (i - 1) >= offset' => n <= transcript[i].turn
    BY <1>1 DEF SeenIsBehind, LastTurn
  <2>1. CASE n \in seen
    <3>1. \A i \in 1..L : 2 * (i - 1) >= offset' => 2 * (i - 1) >= offset
      BY <1>2, <1>4, <1>5
    <3> QED BY <2>1, <3>1 DEF SeenIsBehind
  <2>2. CASE n \in NewTurns
    <3>1. PICK j \in Fresh : n = transcript[j].turn
      BY <1>6, <2>2
    <3>2. j \in 1..L /\ 2 * j <= Size
      BY <3>1 DEF Fresh
    <3>3. n <= LastTurn
      <4>1. L \in 1..L /\ transcript # <<>> /\ j <= L
        BY <1>2, <3>2
      <4> QED BY <3>1, <3>2, <4>1 DEF TurnsInOrder, LastTurn
    <3>4. ASSUME NEW i \in 1..L, 2 * (i - 1) >= offset' PROVE n <= transcript[i].turn
      <4>1. j <= i
        BY <1>2, <1>4, <1>5, <3>2, <3>4
      <4> QED BY <3>1, <3>2, <4>1 DEF TurnsInOrder
    <3> QED BY <3>3, <3>4
  <2> QED BY <1>8, <2>1, <2>2
<1>15. BegunIsParsed'
  <2> SUFFICES ASSUME NEW i \in 1..L, 2 * i - 1 <= offset' PROVE i \in parsed \/ i \in Fresh
    BY <1>1 DEF BegunIsParsed
  <2>1. CASE 2 * i - 1 <= offset
    BY <1>1, <2>1 DEF BegunIsParsed
  <2>2. CASE ~(2 * i - 1 <= offset)
    <3>1. 2 * (i - 1) >= offset /\ 2 * i - 1 <= LastNewline
      BY <1>4, <1>5, <2>2
    <3>2. 2 * i <= LastNewline
      BY <1>2, <3>1 DEF LastNewline
    <3> QED BY <1>4, <3>1, <3>2 DEF Fresh
  <2> QED BY <2>1, <2>2
<1>16. LedgerShape'
  <2>1. Fresh \subseteq Turns
    <3>1. \A i \in 1..L : i \in Turns
      <4> HIDE DEF L
      <4> QED BY <1>0
    <3> QED BY <3>1 DEF Fresh
  <2>2. parsed' \subseteq Turns /\ seen' \subseteq Turns
    BY <1>1, <1>6, <1>7, <1>8, <2>1 DEF LedgerShape
  <2> QED BY <1>1, <1>2, <1>5, <1>12, <2>2 DEF LedgerShape, Turns
<1>17. TurnsInOrder' /\ SeenIsSmall' /\ NoneUncounted'
  BY <1>1, <1>8, LedgerBounds DEF TurnsInOrder, SeenIsSmall, NoneUncounted
<1> QED BY <1>13, <1>14, <1>15, <1>16, <1>17

LEMMA LedgerInvHolds == LedgerSpec => []LedgerInv
<1>1. LedgerInv /\ [LedgerNext]_spendVars => LedgerInv'
  <2> SUFFICES ASSUME LedgerInv, [LedgerNext]_spendVars PROVE LedgerInv'
    OBVIOUS
  <2>1. clock \in 0..MaxTime /\ torn \in BOOLEAN
    BY DEF LedgerInv, LedgerShape
  <2>2. CASE FinishRecord
    BY <2>1, <2>2, RestKeeps DEF FinishRecord
  <2>3. CASE PassTime
    BY <2>1, <2>3, LedgerBounds, RestKeeps DEF PassTime
  <2>4. CASE SetBack
    BY <2>1, <2>4, LedgerBounds, RestKeeps DEF SetBack
  <2>5. CASE UNCHANGED spendVars
    BY <2>1, <2>5, RestKeeps DEF spendVars
  <2> QED BY <2>2, <2>3, <2>4, <2>5, WriteRecordKeeps, SeedKeeps, TickKeeps, ForgetKeeps DEF LedgerNext
<1> QED BY LedgerInitInv, <1>1, PTL DEF LedgerSpec

\* The ledger's variables keep their types, its cursor is never past the end and it
\* remembers no more than its limit.
THEOREM LedgerTypeCorrect == LedgerSpec => []LedgerTypeOK
<1>1. LedgerInv => LedgerTypeOK
  BY DEF LedgerInv, LedgerShape, SeenIsSmall, LedgerTypeOK
<1> QED BY LedgerInvHolds, <1>1, PTL

\* The ledger of spend counts no turn twice and passes over no record.
THEOREM LedgerCorrect == LedgerSpec => []LedgerIsExact
<1>1. LedgerInv => CountedOnce
  <2> SUFFICES ASSUME LedgerInv, NEW n \in Turns PROVE tallies[n] <= 1
    BY DEF CountedOnce
  <2>1. tallies[n] \in Nat
    BY DEF LedgerInv, LedgerShape
  <2> QED BY <2>1 DEF LedgerInv, CountedIsSeen
<1>2. LedgerInv => WholeRecordsRead
  <2> SUFFICES ASSUME LedgerInv, NEW i \in 1..Len(transcript), prevTick # NoTick, 2 * i <= offset PROVE i \in parsed
    BY DEF WholeRecordsRead
  <2>1. 2 * i - 1 <= offset
    BY DEF LedgerInv, LedgerShape
  <2> QED BY <2>1 DEF LedgerInv, BegunIsParsed
<1> QED BY LedgerInvHolds, <1>1, <1>2, PTL DEF LedgerIsExact

-----------------------------------------------------------------------------
(* The duty profile: its types, and that it is the profile of what happened *)
(* but for the windows no reading saw.  The argument                        *)
(* describes a learned state by itself (IsHistory: each bucket's weight is  *)
(* a chain over the observed weeks, its pending week the last one told) and *)
(* shows that a slice keeps it, and what the last reading tells of the      *)
(* account since (ReadingTells), which is what makes a credit true.         *)
\* Integer division.
LEMMA DivNat == ASSUME NEW W \in Nat \ {0}, NEW t \in Nat PROVE t \div W \in Nat /\ (t \div W) * W <= t /\ t < (t \div W + 1) * W
OBVIOUS
LEMMA DivGrows == ASSUME NEW W \in Nat \ {0}, NEW s \in Nat, NEW t \in Nat, s <= t PROVE s \div W <= t \div W
<1> DEFINE a == s \div W
           b == t \div W
<1>1. a \in Nat /\ b \in Nat /\ a * W <= s /\ t < (b + 1) * W
  BY DivNat
<1> HIDE DEF a, b
<1>2. ~(b < a)
  <2> SUFFICES ASSUME b < a PROVE FALSE
    OBVIOUS
  <2>1. (b + 1) * W <= a * W
    BY <1>1
  <2> QED BY <1>1, <2>1
<1> QED BY <1>1, <1>2 DEF a, b

-----------------------------------------------------------------------------
\* The duty profile.
\* A learned state, by itself.
Ratios == Seq(Nat \X Nat)
AllWeeks == 0..WeekOf(MaxHour)
AllBuckets == 0..(Buckets - 1)
BucketType == [weight : Ratios, week : AllWeeks \cup {-1}, observed : Nat, active : Nat, lifetime : Nat]
StateType == [buckets : [AllBuckets -> BucketType], weeks : SUBSET AllWeeks, told : [Hours -> Seq({"active", "idle"})]]

ToldIn(s, b, w) == {h \in Hours : BucketOf(h) = b /\ WeekOf(h) = w /\ s.told[h] # <<>>}
ActiveIn(s, b, w) == {h \in ToldIn(s, b, w) : s.told[h] = <<"active">>}
ToldEver(s, b) == {h \in Hours : BucketOf(h) = b /\ s.told[h] # <<>>}
SeenWeeks(s, b) == {w \in s.weeks : ToldIn(s, b, w) # {}}
Earned(s, b, w) ==
  IF ToldIn(s, b, w) # {} THEN <<<<Cardinality(ActiveIn(s, b, w)), Cardinality(ToldIn(s, b, w))>>>>
  ELSE IF w \in s.weeks THEN Zeros(1) ELSE <<>>

\* What a bucket's weight is to be, week by week.
IsChain(f, s, b, first, last) ==
  f = [w \in first..last |-> IF w = first THEN <<>> ELSE f[w - 1] \o Earned(s, b, w - 1)]

ToldOnce(s) == \A h \in Hours : Len(s.told[h]) <= 1 /\ (s.told[h] # <<>> => WeekOf(h) \in s.weeks)
PendingIsLast(s) ==
  \A b \in AllBuckets :
    LET k == s.buckets[b].week IN
    IF k = -1 THEN SeenWeeks(s, b) = {} /\ s.buckets[b].weight = <<>> /\ s.buckets[b].observed = 0 /\ s.buckets[b].active = 0
    ELSE /\ k \in SeenWeeks(s, b) /\ \A w \in SeenWeeks(s, b) : w <= k
         /\ s.buckets[b].observed = Cardinality(ToldIn(s, b, k)) /\ s.buckets[b].active = Cardinality(ActiveIn(s, b, k))
LifetimeIsTold(s) == \A b \in AllBuckets : s.buckets[b].lifetime = Cardinality(ToldEver(s, b))
WeightIsEarned(s) ==
  \A b \in AllBuckets :
    \A first \in SeenWeeks(s, b) :
      (\A w \in SeenWeeks(s, b) : first <= w) =>
        \E f \in [first..s.buckets[b].week -> Ratios] :
          IsChain(f, s, b, first, s.buckets[b].week) /\ s.buckets[b].weight = f[s.buckets[b].week]
IsHistory(s) == s \in StateType /\ ToldOnce(s) /\ PendingIsLast(s) /\ LifetimeIsTold(s) /\ WeightIsEarned(s)
ToldBefore(s, n) == \A h \in Hours : s.told[h] # <<>> => h < n
CreditFits(s) ==
  \A h \in Hours : s.told[h] # <<>> =>
    IF s.told[h][1] = "active" THEN h \in worked ELSE h \in worked => h \in unseen

\* What a reading says of the account since: a unit worked in since then lies in
\* the window it saw, in the one open now, or in one that nobody saw.
InOld(a, h) == a.resetsAt # NoWindow /\ h < a.resetsAt
InNew(h) == resetsAt # NoWindow /\ h >= resetsAt - WindowSpan
AccountOK ==
  /\ hour \in 0..MaxHour /\ worked \subseteq 0..(hour - 1) /\ unseen \subseteq (1 - WindowSpan)..(hour - 1) /\ utilization \in Nat
  /\ resetsAt = NoWindow \/ (resetsAt \in Nat /\ resetsAt > hour /\ resetsAt <= hour + WindowSpan)
  /\ (resetsAt = NoWindow) <=> (utilization = 0)
Readings == [t : Nat, utilization : Nat, resetsAt : Nat \cup {NoWindow}]
ReadingIsPast(a) ==
  /\ a \in Readings /\ a.t <= hour
  /\ a.resetsAt # NoWindow => a.resetsAt > a.t /\ a.resetsAt <= a.t + WindowSpan
  /\ (a.resetsAt = NoWindow) <=> (a.utilization = 0)
  /\ a.t = hour => a.resetsAt = resetsAt /\ a.utilization = utilization
ReadingTells(a) ==
  /\ \A h \in worked : h >= a.t => InOld(a, h) \/ InNew(h) \/ h \in unseen
  /\ a.resetsAt # NoWindow => resetsAt = a.resetsAt \/ a.resetsAt <= hour
  /\ resetsAt # NoWindow /\ resetsAt # a.resetsAt => a.t <= resetsAt - WindowSpan
  /\ resetsAt # NoWindow /\ resetsAt = a.resetsAt =>
       /\ a.utilization <= utilization
       /\ (\E h \in worked : h >= a.t) => utilization > a.utilization + Epsilon
       /\ utilization > a.utilization + Epsilon /\ hour = a.t + 1 => a.t \in worked
RingOK == \A i \in 1..Len(activity) : activity[i].end <= hour
TellsTrue == lastSample # NoReading => ReadingIsPast(lastSample) /\ ReadingTells(lastSample)
KnownUntil == IF lastSample = NoReading THEN hour ELSE lastSample.t
ProfileInv ==
  /\ AccountOK /\ TellsTrue
  /\ IsHistory(profile) /\ IsHistory(profileFile)
  /\ ToldBefore(profile, KnownUntil) /\ ToldBefore(profileFile, hour)
  /\ CreditFits(profile) /\ CreditFits(profileFile)

\* What recursion over the naturals defines exists.
Unrolls(f, base, step, n) == f = [i \in 0..n |-> IF i = 0 THEN base ELSE step[<<i - 1, f[i - 1]>>]]
LEMMA Recursion ==
  ASSUME NEW S, NEW base \in S, NEW step \in [Nat \X S -> S], NEW n \in Nat
  PROVE  \E f \in [0..n -> S] : Unrolls(f, base, step, n)
<1> USE DEF Unrolls
<1> DEFINE Holds(m) == \E f \in [0..m -> S] : f = [i \in 0..m |-> IF i = 0 THEN base ELSE step[<<i - 1, f[i - 1]>>]]
           T == {m \in Nat : ~Holds(m)}
<1> SUFFICES ASSUME T # {} PROVE FALSE
  OBVIOUS
<1>1. PICK m \in T : \A y \in T : m <= y
  <2>1. T \subseteq Nat
    OBVIOUS
  <2> HIDE DEF T
  <2> QED BY <2>1, LeastNat
<1>2. m \in Nat /\ ~Holds(m)
  OBVIOUS
<1>3. CASE m = 0
  <2> DEFINE f == [i \in 0..0 |-> base]
  <2>1. f \in [0..0 -> S] /\ f = [i \in 0..0 |-> IF i = 0 THEN base ELSE step[<<i - 1, f[i - 1]>>]]
    OBVIOUS
  <2> QED BY <2>1, <1>2, <1>3
<1>4. CASE m # 0
  <2>1. m - 1 \in Nat /\ m - 1 \notin T
    <3>1. m - 1 \in Nat /\ ~(m <= m - 1)
      BY <1>2, <1>4
    <3> HIDE DEF T
    <3> QED BY <3>1, <1>1
  <2>2. Holds(m - 1)
    BY <2>1
  <2>3. PICK f \in [0..(m - 1) -> S] : f = [i \in 0..(m - 1) |-> IF i = 0 THEN base ELSE step[<<i - 1, f[i - 1]>>]]
    BY <2>2
  <2> DEFINE g == [i \in 0..m |-> IF i = m THEN step[<<m - 1, f[m - 1]>>] ELSE f[i]]
  <2>4. f[m - 1] \in S
    <3>1. m - 1 \in 0..(m - 1)
      BY <2>1
    <3> QED BY <3>1
  <2>5. step[<<m - 1, f[m - 1]>>] \in S
    BY <2>1, <2>4
  <2>6. g \in [0..m -> S]
    BY <2>3, <2>5, <1>2
  <2>7. ASSUME NEW i \in 0..m PROVE g[i] = IF i = 0 THEN base ELSE step[<<i - 1, g[i - 1]>>]
    <3>1. CASE i = m
      <4>1. g[i - 1] = f[m - 1]
        BY <3>1, <1>2, <1>4
      <4> QED BY <4>1, <3>1, <1>4
    <3>2. CASE i # m
      <4>1. i \in 0..(m - 1) /\ g[i] = f[i] /\ (i # 0 => g[i - 1] = f[i - 1])
        BY <3>2, <1>2
      <4>2. f[i] = IF i = 0 THEN base ELSE step[<<i - 1, f[i - 1]>>]
        BY <4>1, <2>3
      <4> QED BY <4>1, <4>2
    <3> QED BY <3>1, <3>2
  <2>8. g = [i \in 0..m |-> IF i = 0 THEN base ELSE step[<<i - 1, g[i - 1]>>]]
    <3> DEFINE k == [i \in 0..m |-> IF i = 0 THEN base ELSE step[<<i - 1, g[i - 1]>>]]
    <3> HIDE DEF g
    <3>1. \A i \in 0..m : g[i] = k[i]
      BY <2>7
    <3>2. k = [i \in 0..m |-> k[i]] /\ g = [i \in 0..m |-> g[i]]
      BY <2>6
    <3> QED BY <3>1, <3>2, Zenon
  <2> HIDE DEF g
  <2> QED BY <2>6, <2>8, <1>2
<1> QED BY <1>3, <1>4

LEMMA Calendar ==
  /\ Hours \subseteq Nat /\ IsFiniteSet(Hours) /\ AllWeeks \subseteq Nat
  /\ \A h \in Hours : WeekOf(h) \in AllWeeks /\ BucketOf(h) \in AllBuckets
  /\ \A g, h \in Hours : g <= h => WeekOf(g) <= WeekOf(h)
<1>1. Buckets \in Nat \ {0} /\ MaxHour \in Nat
  BY ProfileAssumption
<1>2. \A h \in Hours : h \in Nat /\ h <= MaxHour
  BY <1>1 DEF Hours
<1>3. IsFiniteSet(Hours)
  BY <1>1, FS_Interval DEF Hours
<1>4. \A g, h \in Nat : g <= h => WeekOf(g) <= WeekOf(h)
  BY <1>1, DivGrows DEF WeekOf
<1>5. \A h \in Nat : WeekOf(h) \in Nat
  BY <1>1, DivNat DEF WeekOf
<1>6. \A h \in Hours : WeekOf(h) \in AllWeeks
  BY <1>1, <1>2, <1>4, <1>5 DEF AllWeeks
<1>7. \A h \in Nat : BucketOf(h) \in AllBuckets
  BY <1>1 DEF BucketOf, AllBuckets
<1>8. AllWeeks \subseteq Nat
  BY <1>1, <1>5 DEF AllWeeks
<1> QED BY <1>2, <1>3, <1>4, <1>6, <1>7, <1>8

LEMMA ToldCounts ==
  ASSUME NEW s, NEW b, NEW w
  PROVE  /\ IsFiniteSet(ToldIn(s, b, w)) /\ IsFiniteSet(ActiveIn(s, b, w)) /\ IsFiniteSet(ToldEver(s, b))
         /\ Cardinality(ToldIn(s, b, w)) \in Nat /\ Cardinality(ActiveIn(s, b, w)) \in Nat /\ Cardinality(ToldEver(s, b)) \in Nat
<1>1. ToldIn(s, b, w) \subseteq Hours /\ ActiveIn(s, b, w) \subseteq Hours /\ ToldEver(s, b) \subseteq Hours
  BY DEF ToldIn, ActiveIn, ToldEver
<1>2. \A T : T \subseteq Hours => IsFiniteSet(T) /\ Cardinality(T) \in Nat
  BY Calendar, FS_Subset, FS_CardinalityType
<1> QED BY <1>1, <1>2

LEMMA ZerosType == ASSUME NEW n \in Nat PROVE Zeros(n) \in Ratios /\ Len(Zeros(n)) = n
<1>1. <<0, 1>> \in Nat \X Nat
  OBVIOUS
<1> QED BY <1>1 DEF Zeros, Ratios

LEMMA EarnedType == ASSUME NEW s, NEW b, NEW w PROVE Earned(s, b, w) \in Ratios
<1>1. <<Cardinality(ActiveIn(s, b, w)), Cardinality(ToldIn(s, b, w))>> \in Nat \X Nat
  BY ToldCounts
<1>2. <<<<Cardinality(ActiveIn(s, b, w)), Cardinality(ToldIn(s, b, w))>>>> \in Ratios
  BY <1>1 DEF Ratios
<1>3. <<>> \in Ratios /\ Zeros(1) \in Ratios
  BY ZerosType DEF Ratios
<1> QED BY <1>2, <1>3, Zenon DEF Earned

LEMMA ChainExists ==
  ASSUME NEW s, NEW b, NEW first \in Nat, NEW last \in Nat, first <= last
  PROVE  \E f \in [first..last -> Ratios] : IsChain(f, s, b, first, last)
<1> DEFINE step == [p \in Nat \X Ratios |-> p[2] \o Earned(s, b, first + p[1])]
           n == last - first
<1>1. n \in Nat /\ <<>> \in Ratios
  BY DEF Ratios
<1>2. step \in [Nat \X Ratios -> Ratios]
  <2>1. \A p \in Nat \X Ratios : p[2] \o Earned(s, b, first + p[1]) \in Ratios
    BY EarnedType DEF Ratios
  <2> QED BY <2>1
<1>3. \A i \in Nat, x \in Ratios : step[<<i, x>>] = x \o Earned(s, b, first + i)
  OBVIOUS
<1> HIDE DEF step, n
<1>4. PICK g \in [0..n -> Ratios] : Unrolls(g, <<>>, step, n)
  BY <1>1, <1>2, Recursion
<1> DEFINE f == [w \in first..last |-> g[w - first]]
<1>5. \A w \in first..last : w - first \in 0..n /\ (w # first => w - 1 \in first..last /\ w - first # 0 /\ w - first - 1 \in 0..n /\ w - 1 - first = w - first - 1)
  BY DEF n
<1>6. f \in [first..last -> Ratios]
  BY <1>5
<1>7. ASSUME NEW w \in first..last PROVE f[w] = IF w = first THEN <<>> ELSE f[w - 1] \o Earned(s, b, w - 1)
  <2>1. CASE w = first
    <3>1. f[w] = g[0] /\ 0 \in 0..n
      BY <2>1, <1>1
    <3>2. g[0] = <<>>
      BY <3>1, <1>4 DEF Unrolls
    <3> QED BY <3>1, <3>2, <2>1
  <2>2. CASE w # first
    <3> DEFINE i == w - first
    <3>0. i \in 0..n /\ i # 0 /\ i - 1 \in Nat /\ i - 1 \in 0..n /\ first + (i - 1) = w - 1 /\ w - 1 \in first..last /\ w - 1 - first = i - 1
      BY <2>2, <1>1, <1>5
    <3>1. f[w] = g[i] /\ f[w - 1] = g[i - 1]
      BY <3>0
    <3> HIDE DEF f, i
    <3>2. g[i] = step[<<i - 1, g[i - 1]>>]
      BY <3>0, <1>4 DEF Unrolls
    <3>3. g[i - 1] \in Ratios
      BY <3>0
    <3>4. step[<<i - 1, g[i - 1]>>] = g[i - 1] \o Earned(s, b, first + (i - 1))
      BY <3>0, <3>3, <1>3
    <3> QED BY <3>0, <3>1, <3>2, <3>4, <2>2
  <2> QED BY <2>1, <2>2
<1>8. IsChain(f, s, b, first, last)
  <2> DEFINE k == [w \in first..last |-> IF w = first THEN <<>> ELSE f[w - 1] \o Earned(s, b, w - 1)]
  <2> HIDE DEF f
  <2>1. \A w \in first..last : f[w] = k[w]
    BY <1>7
  <2>2. k = [w \in first..last |-> k[w]] /\ f = [w \in first..last |-> f[w]]
    BY <1>6
  <2>3. f = k
    BY <2>1, <2>2, Zenon
  <2> QED BY <2>3 DEF IsChain
<1> HIDE DEF f
<1> QED BY <1>6, <1>8

\* Two histories that agree on the weeks before `upto' earn the same weight there.
AgreeBefore(s, r, b, first, upto) == \A w \in first..(upto - 1) : Earned(s, b, w) = Earned(r, b, w)
LEMMA ChainsAgree ==
  ASSUME NEW f, NEW g, NEW s, NEW r, NEW b, NEW first \in Nat, NEW last \in Nat, NEW later \in Nat, NEW upto \in Nat,
         IsChain(f, s, b, first, last), IsChain(g, r, b, first, later), first <= upto, upto <= last, upto <= later,
         AgreeBefore(s, r, b, first, upto)
  PROVE  f[upto] = g[upto]
<1> DEFINE T == {w \in first..upto : f[w] # g[w]}
<1> SUFFICES ASSUME T # {} PROVE FALSE
  <2>1. upto \in first..upto
    OBVIOUS
  <2> QED BY <2>1
<1>1. T \subseteq Nat
  OBVIOUS
<1>2. PICK w \in T : \A v \in T : w <= v
  <2> HIDE DEF T
  <2> QED BY <1>1, LeastNat
<1>3. w \in first..upto /\ f[w] # g[w]
  OBVIOUS
<1>4. w \in first..last /\ w \in first..later
  BY <1>3
<1>5. /\ f[w] = IF w = first THEN <<>> ELSE f[w - 1] \o Earned(s, b, w - 1)
      /\ g[w] = IF w = first THEN <<>> ELSE g[w - 1] \o Earned(r, b, w - 1)
  BY <1>4, Zenon DEF IsChain
<1>6. w # first
  BY <1>3, <1>5
<1>7. w - 1 \in first..upto /\ ~(w <= w - 1) /\ w - 1 \in first..(upto - 1)
  BY <1>3, <1>6
<1>8. w - 1 \notin T
  <2> HIDE DEF T
  <2> QED BY <1>2, <1>7
<1>9. f[w - 1] = g[w - 1]
  BY <1>7, <1>8
<1>10. Earned(s, b, w - 1) = Earned(r, b, w - 1)
  BY <1>7 DEF AgreeBefore
<1> QED BY <1>3, <1>5, <1>6, <1>9, <1>10, Zenon

\* One slice, field by field.
FoldedWeight(bucket, week, weeks) ==
  Append(bucket.weight, <<bucket.active, bucket.observed>>) \o Zeros(Cardinality(SatOut(weeks, bucket.week, week)))

LEMMA SatOutCounts == ASSUME NEW weeks, weeks \subseteq AllWeeks, NEW from, NEW to
                      PROVE IsFiniteSet(SatOut(weeks, from, to)) /\ Cardinality(SatOut(weeks, from, to)) \in Nat
<1>1. WeekOf(MaxHour) \in Nat
  BY ProfileAssumption, DivNat DEF WeekOf
<1>2. IsFiniteSet(AllWeeks)
  BY <1>1, FS_Interval DEF AllWeeks
<1>3. SatOut(weeks, from, to) \subseteq AllWeeks
  BY DEF SatOut
<1> QED BY <1>2, <1>3, FS_Subset, FS_CardinalityType

LEMMA FoldedIs ==
  ASSUME NEW bucket \in BucketType, NEW week \in AllWeeks, NEW weeks, weeks \subseteq AllWeeks
  PROVE  LET f == Folded(bucket, week, weeks) IN
         /\ f \in BucketType /\ f.lifetime = bucket.lifetime
         /\ bucket.week \in {-1, week} => f = bucket
         /\ bucket.week \notin {-1, week} => f.weight = FoldedWeight(bucket, week, weeks) /\ f.observed = 0 /\ f.active = 0
<1> DEFINE f == Folded(bucket, week, weeks)
<1>1. CASE bucket.week \in {-1, week}
  BY <1>1 DEF Folded
<1>2. CASE bucket.week \notin {-1, week}
  <2> DEFINE weight == FoldedWeight(bucket, week, weeks)
  <2>1. bucket.weight \in Ratios /\ <<bucket.active, bucket.observed>> \in Nat \X Nat
    BY DEF BucketType
  <2>2. Append(bucket.weight, <<bucket.active, bucket.observed>>) \in Ratios
    BY <2>1 DEF Ratios
  <2>3. weight \in Ratios
    <3>1. Zeros(Cardinality(SatOut(weeks, bucket.week, week))) \in Ratios
      BY SatOutCounts, ZerosType
    <3>2. \A x, y \in Ratios : x \o y \in Ratios
      BY DEF Ratios
    <3> QED BY <2>2, <3>1, <3>2 DEF FoldedWeight
  <2>4. f = [bucket EXCEPT !.weight = weight, !.observed = 0, !.active = 0]
    BY <1>2 DEF Folded, FoldedWeight
  <2> HIDE DEF weight, f
  <2>5. f \in BucketType /\ f.lifetime = bucket.lifetime /\ f.weight = weight /\ f.observed = 0 /\ f.active = 0
    BY <2>3, <2>4 DEF BucketType
  <2> QED BY <2>5, <1>2 DEF f, weight
<1> QED BY <1>1, <1>2

LEMMA SliceIs ==
  ASSUME NEW s \in StateType, NEW h \in Hours, NEW kind \in {"active", "idle"}, s.told[h] = <<>>
  PROVE  LET n == Slice(s, h, kind)
             f == Folded(s.buckets[BucketOf(h)], WeekOf(h), s.weeks)
             k == n.buckets[BucketOf(h)]
         IN /\ n \in StateType /\ n.weeks = s.weeks \cup {WeekOf(h)}
            /\ n.told[h] = <<kind>> /\ \A g \in Hours \ {h} : n.told[g] = s.told[g]
            /\ \A c \in AllBuckets \ {BucketOf(h)} : n.buckets[c] = s.buckets[c]
            /\ k.weight = f.weight /\ k.week = WeekOf(h) /\ k.observed = f.observed + 1 /\ k.lifetime = f.lifetime + 1
            /\ k.active = f.active + IF kind = "active" THEN 1 ELSE 0
<1> DEFINE b == BucketOf(h)
           w == WeekOf(h)
           f == Folded(s.buckets[b], w, s.weeks)
           k == [f EXCEPT !.week = w, !.observed = @ + 1, !.lifetime = @ + 1, !.active = @ + IF kind = "active" THEN 1 ELSE 0]
           n == Slice(s, h, kind)
<1>1. b \in AllBuckets /\ w \in AllWeeks
  BY Calendar
<1>2. s.buckets \in [AllBuckets -> BucketType] /\ s.weeks \subseteq AllWeeks /\ s.told \in [Hours -> Seq({"active", "idle"})]
  BY DEF StateType
<1>3. f \in BucketType
  BY <1>1, <1>2, FoldedIs
<1>4. n = [buckets |-> [s.buckets EXCEPT ![b] = k], weeks |-> s.weeks \cup {w}, told |-> [s.told EXCEPT ![h] = Append(s.told[h], kind)]]
  BY DEF Slice
<1>5. Append(s.told[h], kind) = <<kind>> /\ <<kind>> \in Seq({"active", "idle"})
  OBVIOUS
<1> HIDE DEF f, b, w
<1>6. /\ k \in BucketType /\ k.weight = f.weight /\ k.week = w /\ k.observed = f.observed + 1 /\ k.lifetime = f.lifetime + 1
      /\ k.active = f.active + IF kind = "active" THEN 1 ELSE 0
  <2> DEFINE more == IF kind = "active" THEN 1 ELSE 0
  <2>1. more \in Nat
    OBVIOUS
  <2> HIDE DEF more
  <2>2. k = [f EXCEPT !.week = w, !.observed = f.observed + 1, !.lifetime = f.lifetime + 1, !.active = f.active + more]
    BY DEF more
  <2>3. f.observed + 1 \in Nat /\ f.lifetime + 1 \in Nat /\ f.active + more \in Nat /\ w \in AllWeeks \cup {-1}
    BY <1>1, <1>3, <2>1 DEF BucketType
  <2> HIDE DEF k
  <2>4. /\ k \in BucketType /\ k.weight = f.weight /\ k.week = w /\ k.observed = f.observed + 1 /\ k.lifetime = f.lifetime + 1
        /\ k.active = f.active + more
    BY <2>2, <2>3, <1>3 DEF BucketType
  <2> QED BY <2>4 DEF more
<1> HIDE DEF k, n
<1>7. n.buckets = [s.buckets EXCEPT ![b] = k] /\ n.weeks = s.weeks \cup {w} /\ n.told = [s.told EXCEPT ![h] = <<kind>>]
  BY <1>4, <1>5
<1>8. n.buckets \in [AllBuckets -> BucketType] /\ n.buckets[b] = k /\ \A c \in AllBuckets \ {b} : n.buckets[c] = s.buckets[c]
  BY <1>1, <1>2, <1>6, <1>7
<1>9. n.told \in [Hours -> Seq({"active", "idle"})] /\ n.told[h] = <<kind>> /\ \A g \in Hours \ {h} : n.told[g] = s.told[g]
  BY <1>2, <1>5, <1>7
<1>10. n = [buckets |-> n.buckets, weeks |-> n.weeks, told |-> n.told] /\ n.weeks \subseteq AllWeeks
  BY <1>1, <1>2, <1>4, <1>7
<1>11. n \in StateType
  BY <1>8, <1>9, <1>10 DEF StateType
<1> QED BY <1>6, <1>7, <1>8, <1>9, <1>11 DEF n, b, w, f

\* What a slice adds to what was told.
LEMMA SliceTells ==
  ASSUME NEW s \in StateType, NEW h \in Hours, NEW kind \in {"active", "idle"}, s.told[h] = <<>>, ToldOnce(s)
  PROVE  LET n == Slice(s, h, kind) IN
         /\ \A c \in AllBuckets : \A v : c # BucketOf(h) \/ v # WeekOf(h) => ToldIn(n, c, v) = ToldIn(s, c, v) /\ ActiveIn(n, c, v) = ActiveIn(s, c, v)
         /\ ToldIn(n, BucketOf(h), WeekOf(h)) = ToldIn(s, BucketOf(h), WeekOf(h)) \cup {h} /\ h \notin ToldIn(s, BucketOf(h), WeekOf(h))
         /\ ActiveIn(n, BucketOf(h), WeekOf(h)) = ActiveIn(s, BucketOf(h), WeekOf(h)) \cup (IF kind = "active" THEN {h} ELSE {})
         /\ \A c \in AllBuckets \ {BucketOf(h)} : ToldEver(n, c) = ToldEver(s, c) /\ SeenWeeks(n, c) = SeenWeeks(s, c)
         /\ ToldEver(n, BucketOf(h)) = ToldEver(s, BucketOf(h)) \cup {h} /\ h \notin ToldEver(s, BucketOf(h))
         /\ SeenWeeks(n, BucketOf(h)) = SeenWeeks(s, BucketOf(h)) \cup {WeekOf(h)}
         /\ ToldOnce(n)
<1> DEFINE n == Slice(s, h, kind)
           b == BucketOf(h)
           w == WeekOf(h)
<1>1. /\ n.weeks = s.weeks \cup {w} /\ n.told[h] = <<kind>> /\ \A g \in Hours \ {h} : n.told[g] = s.told[g]
      /\ n \in StateType /\ b \in AllBuckets
  BY SliceIs, Calendar
<1> HIDE DEF n
<1>2. n.told[h] # <<>> /\ (n.told[h] = <<"active">> <=> kind = "active")
  <2>1. <<kind>> # <<>> /\ (<<kind>> = <<"active">> <=> kind = "active")
    OBVIOUS
  <2> QED BY <1>1, <2>1
<1>3. ASSUME NEW c \in AllBuckets, NEW v, c # b \/ v # w PROVE ToldIn(n, c, v) = ToldIn(s, c, v) /\ ActiveIn(n, c, v) = ActiveIn(s, c, v)
  <2>1. \A g : g \in ToldIn(n, c, v) <=> g \in ToldIn(s, c, v)
    BY <1>1, <1>3 DEF ToldIn
  <2>2. ToldIn(n, c, v) = ToldIn(s, c, v) /\ h \notin ToldIn(s, c, v)
    BY <2>1, <1>3 DEF ToldIn
  <2>3. \A g : g \in ActiveIn(n, c, v) <=> g \in ActiveIn(s, c, v)
    <3>1. \A g \in ToldIn(s, c, v) : n.told[g] = s.told[g]
      BY <2>2, <1>1 DEF ToldIn
    <3> QED BY <2>2, <3>1 DEF ActiveIn
  <2> QED BY <2>2, <2>3
<1>4. ToldIn(n, b, w) = ToldIn(s, b, w) \cup {h} /\ h \notin ToldIn(s, b, w)
  <2>1. \A g : g \in ToldIn(n, b, w) <=> g \in ToldIn(s, b, w) \cup {h}
    BY <1>1, <1>2 DEF ToldIn
  <2>2. h \notin ToldIn(s, b, w)
    BY DEF ToldIn
  <2> QED BY <2>1, <2>2
<1>5. ActiveIn(n, b, w) = ActiveIn(s, b, w) \cup (IF kind = "active" THEN {h} ELSE {})
  <2>1. \A g : g \in ActiveIn(n, b, w) <=> g \in ActiveIn(s, b, w) \cup (IF kind = "active" THEN {h} ELSE {})
    <3>1. \A g \in ToldIn(s, b, w) : g # h /\ n.told[g] = s.told[g]
      BY <1>4, <1>1 DEF ToldIn
    <3> QED BY <3>1, <1>2, <1>4 DEF ActiveIn
  <2> QED BY <2>1
<1>6. ASSUME NEW c \in AllBuckets \ {b} PROVE ToldEver(n, c) = ToldEver(s, c) /\ SeenWeeks(n, c) = SeenWeeks(s, c)
  <2>1. \A g : g \in ToldEver(n, c) <=> g \in ToldEver(s, c)
    BY <1>1 DEF ToldEver
  <2>2. \A v : ToldIn(n, c, v) = ToldIn(s, c, v)
    BY <1>3
  <2>3. ToldIn(s, c, w) # {} => w \in s.weeks
    BY DEF ToldIn, ToldOnce
  <2>4. \A v : v \in SeenWeeks(n, c) <=> v \in SeenWeeks(s, c)
    BY <2>2, <2>3, <1>1 DEF SeenWeeks
  <2> QED BY <2>1, <2>4
<1>7. ToldEver(n, b) = ToldEver(s, b) \cup {h} /\ h \notin ToldEver(s, b)
  <2>1. \A g : g \in ToldEver(n, b) <=> g \in ToldEver(s, b) \cup {h}
    BY <1>1, <1>2 DEF ToldEver
  <2>2. h \notin ToldEver(s, b)
    BY DEF ToldEver
  <2> QED BY <2>1, <2>2
<1>8. SeenWeeks(n, b) = SeenWeeks(s, b) \cup {w}
  <2>1. \A v : v # w => ToldIn(n, b, v) = ToldIn(s, b, v)
    BY <1>1, <1>3
  <2>2. \A v : v \in SeenWeeks(n, b) <=> v \in SeenWeeks(s, b) \cup {w}
    BY <2>1, <1>1, <1>4 DEF SeenWeeks
  <2> QED BY <2>2
<1>9. ToldOnce(n)
  <2>1. Len(<<kind>>) <= 1
    OBVIOUS
  <2>2. ASSUME NEW g \in Hours PROVE Len(n.told[g]) <= 1 /\ (n.told[g] # <<>> => WeekOf(g) \in n.weeks)
    <3>1. CASE g = h
      BY <3>1, <2>1, <1>1
    <3>2. CASE g # h
      BY <3>2, <1>1 DEF ToldOnce
    <3> QED BY <3>1, <3>2
  <2> QED BY <2>2 DEF ToldOnce
<1> QED BY <1>3, <1>4, <1>5, <1>6, <1>7, <1>8, <1>9 DEF n

LEMMA ZerosAdd == ASSUME NEW x \in Ratios, NEW n \in Nat PROVE (x \o Zeros(n)) \o Zeros(1) = x \o Zeros(n + 1) /\ x \o Zeros(0) = x
<1>1. Zeros(n) \in Seq(Nat \X Nat) /\ Zeros(1) \in Seq(Nat \X Nat) /\ Zeros(n + 1) \in Seq(Nat \X Nat) /\ x \in Seq(Nat \X Nat)
  BY ZerosType DEF Ratios
<1>2. Zeros(n) \o Zeros(1) = Zeros(n + 1)
  <2>1. \A i \in 1..(n + 1) : (Zeros(n) \o Zeros(1))[i] = <<0, 1>>
    BY DEF Zeros
  <2>2. \A i \in 1..(n + 1) : Zeros(n + 1)[i] = <<0, 1>>
    BY DEF Zeros
  <2>3. Len(Zeros(n) \o Zeros(1)) = n + 1 /\ Len(Zeros(n + 1)) = n + 1 /\ Zeros(n) \o Zeros(1) \in Seq(Nat \X Nat)
    BY <1>1, ZerosType, ConcatProperties
  <2> QED BY <2>1, <2>2, <2>3, <1>1, SeqEqual
<1>3. (x \o Zeros(n)) \o Zeros(1) = x \o (Zeros(n) \o Zeros(1))
  <2> DEFINE S == Nat \X Nat
             y == Zeros(n)
             z == Zeros(1)
  <2>1. x \in Seq(S) /\ y \in Seq(S) /\ z \in Seq(S)
    BY <1>1
  <2> HIDE DEF S, y, z
  <2>2. (x \o y) \o z = x \o (y \o z)
    BY <2>1, ConcatAssociative
  <2> QED BY <2>2 DEF y, z
<1>4. Zeros(0) = <<>>
  <2>1. Zeros(0) \in Seq(Nat \X Nat) /\ Len(Zeros(0)) = 0
    BY ZerosType DEF Ratios
  <2> QED BY <2>1
<1>5. x \o <<>> = x
  BY <1>1
<1> QED BY <1>2, <1>3, <1>4, <1>5

\* The weeks a bucket sat out add a zero each, if they were observed.
NoneTold(s, b, from, last) == \A v \in (from + 1)..(last - 1) : ToldIn(s, b, v) = {}
Skips(s, b, g, first, last, from, x) ==
  /\ first \in Nat /\ last \in Nat /\ from \in Nat /\ x \in Ratios /\ first <= from /\ from < last
  /\ IsChain(g, s, b, first, last) /\ g[from + 1] = x /\ s.weeks \subseteq AllWeeks /\ NoneTold(s, b, from, last)
Lands(s, g, last, from, x) == g[last] = x \o Zeros(Cardinality(SatOut(s.weeks, from, last)))
LEMMA SkippedWeeks ==
  ASSUME NEW s, NEW b, NEW g, NEW first, NEW last, NEW from, NEW x, Skips(s, b, g, first, last, from, x)
  PROVE  Lands(s, g, last, from, x)
<1> USE DEF Lands
<1> DEFINE Z(v) == Zeros(Cardinality(SatOut(s.weeks, from, v)))
           T == {v \in (from + 1)..last : g[v] # x \o Z(v)}
<1>0. /\ first \in Nat /\ last \in Nat /\ from \in Nat /\ x \in Ratios /\ first <= from /\ from < last
      /\ IsChain(g, s, b, first, last) /\ g[from + 1] = x /\ s.weeks \subseteq AllWeeks /\ NoneTold(s, b, from, last)
      /\ s.weeks \subseteq Nat
  BY Calendar DEF Skips
<1> SUFFICES ASSUME T # {} PROVE FALSE
  <2>1. last \in (from + 1)..last
    BY <1>0
  <2> QED BY <2>1
<1>1. PICK v \in T : \A u \in T : v <= u
  <2>1. T \subseteq Nat
    BY <1>0
  <2> HIDE DEF T
  <2> QED BY <2>1, LeastNat
<1>2. v \in (from + 1)..last /\ g[v] # x \o Z(v)
  OBVIOUS
<1>3. CASE v = from + 1
  <2>1. SatOut(s.weeks, from, v) = {}
    BY <1>0, <1>3 DEF SatOut
  <2>2. Z(v) = Zeros(0)
    BY <2>1, FS_EmptySet
  <2> QED BY <2>2, <1>0, <1>2, <1>3, ZerosAdd
<1>4. CASE v # from + 1
  <2> DEFINE u == v - 1
  <2>1. u \in (from + 1)..last /\ ~(v <= u) /\ u \in (from + 1)..(last - 1) /\ v \in first..last /\ v # first /\ u \in Nat /\ v = u + 1
    BY <1>0, <1>2, <1>4
  <2>2. u \notin T
    <3> HIDE DEF T, u
    <3> QED BY <2>1, <1>1
  <2>3. g[u] = x \o Z(u)
    BY <2>1, <2>2
  <2>4. g[v] = g[u] \o Earned(s, b, u)
    BY <1>0, <2>1, Zenon DEF IsChain
  <2>5. ToldIn(s, b, u) = {}
    BY <1>0, <2>1 DEF NoneTold
  <2>6. Cardinality(SatOut(s.weeks, from, u)) \in Nat /\ IsFiniteSet(SatOut(s.weeks, from, u))
    BY <1>0, SatOutCounts
  <2>7. CASE u \in s.weeks
    <3>1. SatOut(s.weeks, from, v) = SatOut(s.weeks, from, u) \cup {u} /\ u \notin SatOut(s.weeks, from, u)
      <4>1. \A y : y \in SatOut(s.weeks, from, v) <=> y \in SatOut(s.weeks, from, u) \cup {u}
        BY <2>1, <2>7, <1>0 DEF SatOut
      <4>2. u \notin SatOut(s.weeks, from, u)
        BY <2>1 DEF SatOut
      <4> QED BY <4>1, <4>2
    <3>2. Cardinality(SatOut(s.weeks, from, v)) = Cardinality(SatOut(s.weeks, from, u)) + 1
      BY <3>1, <2>6, FS_AddElement
    <3>3. Earned(s, b, u) = Zeros(1)
      BY <2>5, <2>7 DEF Earned
    <3> DEFINE m == Cardinality(SatOut(s.weeks, from, u))
    <3>5. (x \o Zeros(m)) \o Zeros(1) = x \o Zeros(m + 1)
      BY <1>0, <2>6, ZerosAdd
    <3>6. g[v] = (x \o Zeros(m)) \o Zeros(1)
      BY <3>3, <2>3, <2>4
    <3>4. g[v] = x \o Z(v)
      BY <3>2, <3>5, <3>6
    <3> QED BY <3>4, <1>2
  <2>8. CASE u \notin s.weeks
    <3>1. SatOut(s.weeks, from, v) = SatOut(s.weeks, from, u)
      <4>1. \A y : y \in SatOut(s.weeks, from, v) <=> y \in SatOut(s.weeks, from, u)
        BY <2>1, <2>8, <1>0 DEF SatOut
      <4> QED BY <4>1
    <3>2. Earned(s, b, u) = <<>>
      BY <2>5, <2>8 DEF Earned
    <3>3. x \o Z(u) \in Seq(Nat \X Nat)
      BY <1>0, <2>6, ZerosType DEF Ratios
    <3>4. g[v] = x \o Z(v)
      <4>1. Z(v) = Z(u)
        BY <3>1
      <4>2. g[v] = (x \o Z(u)) \o <<>>
        BY <3>2, <2>3, <2>4
      <4> HIDE DEF Z
      <4>3. (x \o Z(u)) \o <<>> = x \o Z(u)
        <5> DEFINE y == x \o Z(u)
        <5>1. y \in Seq(Nat \X Nat)
          BY <3>3 DEF Z
        <5> HIDE DEF y
        <5>2. y \o <<>> = y
          BY <5>1
        <5> QED BY <5>2 DEF y
      <4> QED BY <4>1, <4>2, <4>3
    <3> QED BY <3>4, <1>2
  <2> QED BY <2>7, <2>8
<1> QED BY <1>3, <1>4

\* A slice after all that was told keeps the state the fold of its history.
LEMMA SliceWeight ==
  ASSUME NEW s, IsHistory(s), NEW h \in Hours, NEW kind \in {"active", "idle"}, ToldBefore(s, h)
  PROVE  WeightIsEarned(Slice(s, h, kind))
<1> DEFINE n == Slice(s, h, kind)
           b == BucketOf(h)
           w == WeekOf(h)
           old == s.buckets[b]
           f0 == Folded(old, w, s.weeks)
<1>1. /\ s \in StateType /\ ToldOnce(s) /\ PendingIsLast(s) /\ WeightIsEarned(s)
      /\ b \in AllBuckets /\ w \in AllWeeks /\ w \in Nat /\ old \in BucketType /\ s.weeks \subseteq AllWeeks
  BY Calendar DEF IsHistory, StateType
<1>2. s.told[h] = <<>>
  <2>1. h \in Nat
    BY Calendar
  <2> QED BY <2>1 DEF ToldBefore
<1>3. /\ n.weeks = s.weeks \cup {w} /\ \A c \in AllBuckets \ {b} : n.buckets[c] = s.buckets[c]
      /\ n.buckets[b].weight = f0.weight /\ n.buckets[b].week = w
  BY <1>1, <1>2, SliceIs
<1>4. /\ \A c \in AllBuckets : \A v : c # b \/ v # w => ToldIn(n, c, v) = ToldIn(s, c, v) /\ ActiveIn(n, c, v) = ActiveIn(s, c, v)
      /\ \A c \in AllBuckets \ {b} : SeenWeeks(n, c) = SeenWeeks(s, c)
      /\ SeenWeeks(n, b) = SeenWeeks(s, b) \cup {w}
  BY <1>1, <1>2, SliceTells
<1> HIDE DEF n, f0, old
<1>5. \A c \in AllBuckets : \A v \in SeenWeeks(s, c) : v \in Nat /\ v <= w
  <2> SUFFICES ASSUME NEW c \in AllBuckets, NEW v \in SeenWeeks(s, c) PROVE v \in Nat /\ v <= w
    OBVIOUS
  <2>1. PICK g \in Hours : v = WeekOf(g) /\ s.told[g] # <<>>
    BY DEF SeenWeeks, ToldIn
  <2>2. g <= h /\ g \in Nat /\ h \in Nat
    BY <2>1, Calendar DEF ToldBefore
  <2> QED BY <2>1, <2>2, Calendar
\* Before this week all earned the same.
<1>6. \A c \in AllBuckets : \A v \in Nat : v < w => Earned(n, c, v) = Earned(s, c, v)
  <2> SUFFICES ASSUME NEW c \in AllBuckets, NEW v \in Nat, v < w PROVE Earned(n, c, v) = Earned(s, c, v)
    OBVIOUS
  <2>1. v # w
    BY <1>1
  <2>2. ToldIn(n, c, v) = ToldIn(s, c, v) /\ ActiveIn(n, c, v) = ActiveIn(s, c, v) /\ (v \in n.weeks <=> v \in s.weeks)
    BY <2>1, <1>3, <1>4
  <2> QED BY <2>2 DEF Earned
<1> SUFFICES ASSUME NEW c \in AllBuckets, NEW first \in SeenWeeks(n, c), \A v \in SeenWeeks(n, c) : first <= v
             PROVE  \E f \in [first..n.buckets[c].week -> Ratios] :
                      IsChain(f, n, c, first, n.buckets[c].week) /\ n.buckets[c].weight = f[n.buckets[c].week]
  BY DEF WeightIsEarned, n
<1>7. first \in Nat /\ first <= w
  BY <1>1, <1>4, <1>5
\* The chain of a bucket that has told before.
<1>8. ASSUME first \in SeenWeeks(s, c), NEW k, k = s.buckets[c].week
      PROVE  /\ k \in Nat /\ k \in SeenWeeks(s, c) /\ first <= k /\ k <= w
             /\ \E f \in [first..k -> Ratios] : IsChain(f, s, c, first, k) /\ s.buckets[c].weight = f[k]
  <2>1. \A v \in SeenWeeks(s, c) : first <= v
    BY <1>4
  <2>2. k # -1
    BY <1>1, <1>8 DEF PendingIsLast
  <2>3. k \in SeenWeeks(s, c)
    BY <2>2, <1>1, <1>8 DEF PendingIsLast
  <2>4. \E f \in [first..k -> Ratios] : IsChain(f, s, c, first, k) /\ s.buckets[c].weight = f[k]
    BY <2>1, <1>1, <1>8 DEF WeightIsEarned
  <2> QED BY <2>1, <2>3, <2>4, <1>5
<1>9. CASE c # b
  <2> DEFINE k == s.buckets[c].week
  <2>1. first \in SeenWeeks(s, c) /\ n.buckets[c] = s.buckets[c]
    BY <1>3, <1>4, <1>9
  <2>2. PICK f \in [first..k -> Ratios] : IsChain(f, s, c, first, k) /\ s.buckets[c].weight = f[k]
    BY <2>1, <1>8
  <2>3. k \in Nat /\ first <= k /\ k <= w
    BY <2>1, <1>8
  <2> HIDE DEF k
  <2>4. PICK g \in [first..k -> Ratios] : IsChain(g, n, c, first, k)
    BY <2>3, <1>7, ChainExists
  <2>5. AgreeBefore(s, n, c, first, k)
    BY <2>3, <1>1, <1>6, <1>7 DEF AgreeBefore
  <2>6. f[k] = g[k]
    BY <2>2, <2>3, <2>4, <2>5, <1>7, ChainsAgree
  <2> QED BY <2>1, <2>2, <2>4, <2>6 DEF k
<1>10. CASE c = b
  <2>1. old.week \in {-1} \cup Nat /\ old \in BucketType
    BY <1>1, Calendar DEF BucketType
  <2>2. CASE old.week = -1
    <3>1. SeenWeeks(s, b) = {} /\ old.weight = <<>>
      BY <2>2, <1>1 DEF PendingIsLast, old
    <3>2. first = w
      BY <3>1, <1>4, <1>10
    <3>3. f0.weight = <<>>
      BY <2>2, <3>1, <1>1, FoldedIs DEF f0
    <3>4. PICK g \in [first..w -> Ratios] : IsChain(g, n, b, first, w)
      BY <3>2, <1>7, ChainExists
    <3>5. g[w] = <<>>
      <4>1. w \in first..w
        BY <3>2, <1>1
      <4> QED BY <4>1, <3>2, <3>4, Zenon DEF IsChain
    <3> QED BY <3>3, <3>4, <3>5, <1>3, <1>10
  <2>3. CASE old.week = w
    <3>1. w \in SeenWeeks(s, b)
      BY <2>1, <2>3, <1>1 DEF PendingIsLast, old
    <3>2. first \in SeenWeeks(s, b)
      BY <3>1, <1>4, <1>10
    <3>3. PICK f \in [first..w -> Ratios] : IsChain(f, s, b, first, w) /\ old.weight = f[w]
      BY <3>2, <2>3, <1>8, <1>10 DEF old
    <3>4. PICK g \in [first..w -> Ratios] : IsChain(g, n, b, first, w)
      BY <1>1, <1>7, ChainExists
    <3>5. AgreeBefore(s, n, b, first, w)
      BY <1>1, <1>6, <1>7 DEF AgreeBefore
    <3>6. f[w] = g[w]
      BY <3>3, <3>4, <3>5, <1>1, <1>7, ChainsAgree
    <3>7. f0.weight = old.weight
      BY <2>3, <1>1, FoldedIs DEF f0
    <3> QED BY <3>3, <3>4, <3>6, <3>7, <1>3, <1>10
  <2>4. CASE old.week \notin {-1, w}
    <3> DEFINE k == old.week
               x == Append(old.weight, <<old.active, old.observed>>)
    <3>1. k \in SeenWeeks(s, b) /\ (\A v \in SeenWeeks(s, b) : v <= k)
          /\ old.observed = Cardinality(ToldIn(s, b, k)) /\ old.active = Cardinality(ActiveIn(s, b, k))
      BY <2>4, <1>1 DEF PendingIsLast, old
    <3>2. k \in Nat /\ k < w
      BY <3>1, <2>4, <1>1, <1>5
    <3>3. first \in SeenWeeks(s, b)
      BY <3>1, <3>2, <1>1, <1>4, <1>10
    <3>4. PICK f \in [first..k -> Ratios] : IsChain(f, s, b, first, k) /\ old.weight = f[k]
      BY <3>3, <1>8, <1>10 DEF old
    <3>5. first <= k
      BY <3>3, <1>8, <1>10 DEF old
    <3>6. PICK g \in [first..w -> Ratios] : IsChain(g, n, b, first, w)
      BY <1>1, <1>7, ChainExists
    <3>7. AgreeBefore(s, n, b, first, k)
      BY <3>2, <1>1, <1>6, <1>7 DEF AgreeBefore
    <3> HIDE DEF k
    <3>8. f[k] = g[k]
      BY <3>2, <3>4, <3>5, <3>6, <3>7, <1>1, <1>7, ChainsAgree
    <3>9. ToldIn(n, b, k) = ToldIn(s, b, k) /\ ActiveIn(n, b, k) = ActiveIn(s, b, k) /\ ToldIn(s, b, k) # {}
      BY <3>1, <3>2, <1>1, <1>4 DEF SeenWeeks
    <3>10. Earned(n, b, k) = <<<<old.active, old.observed>>>>
      BY <3>1, <3>9 DEF Earned
    <3>11. g[k + 1] = g[k] \o Earned(n, b, k)
      <4>1. k + 1 \in first..w /\ k + 1 # first /\ (k + 1) - 1 = k
        BY <3>2, <3>5, <1>1, <1>7
      <4>2. g[k + 1] = g[(k + 1) - 1] \o Earned(n, b, (k + 1) - 1)
        BY <4>1, <3>6, Zenon DEF IsChain
      <4> QED BY <4>1, <4>2
    <3>12. old.weight \in Ratios /\ <<old.active, old.observed>> \in Nat \X Nat
      BY <2>1 DEF BucketType
    <3>13. x \in Ratios /\ g[k + 1] = x
      <4> DEFINE S == Nat \X Nat
                 p == <<old.active, old.observed>>
      <4>2. old.weight \in Seq(S) /\ p \in S
        BY <3>12 DEF Ratios
      <4> HIDE DEF S, p
      <4>3. Append(old.weight, p) = old.weight \o <<p>> /\ Append(old.weight, p) \in Seq(S)
        BY <4>2
      <4>1. x = old.weight \o <<<<old.active, old.observed>>>> /\ x \in Ratios
        BY <4>3 DEF Ratios, S, p
      <4> QED BY <4>1, <3>4, <3>8, <3>10, <3>11
    <3>14. NoneTold(n, b, k, w)
      <4> SUFFICES ASSUME NEW v \in (k + 1)..(w - 1) PROVE ToldIn(n, b, v) = {}
        BY DEF NoneTold
      <4>1. v # w /\ ~(v <= k)
        BY <3>2, <1>1
      <4>2. v \notin SeenWeeks(s, b) /\ ToldIn(n, b, v) = ToldIn(s, b, v)
        BY <4>1, <3>1, <1>1, <1>4
      <4>3. ToldIn(s, b, v) # {} => v \in s.weeks
        BY <1>1 DEF ToldOnce, ToldIn
      <4> QED BY <4>2, <4>3 DEF SeenWeeks
    <3>15. n.weeks \subseteq AllWeeks
      BY <1>1, <1>3
    <3> HIDE DEF x
    <3>16. g[w] = x \o Zeros(Cardinality(SatOut(n.weeks, k, w)))
      <4>1. w \in Nat /\ first \in Nat /\ k \in Nat /\ first <= k /\ k < w
        BY <3>2, <3>5, <1>1, <1>7
      <4>2. x \in Ratios /\ g[k + 1] = x
        BY <3>13
      <4>3. IsChain(g, n, b, first, w)
        BY <3>6
      <4> HIDE DEF w, b
      <4>4. Skips(n, b, g, first, w, k, x)
        BY <4>1, <4>2, <4>3, <3>14, <3>15 DEF Skips
      <4>5. Lands(n, g, w, k, x)
        BY <4>4, SkippedWeeks, Zenon
      <4> QED BY <4>5 DEF Lands
    <3>17. SatOut(n.weeks, k, w) = SatOut(s.weeks, k, w)
      <4>1. \A v : v \in SatOut(n.weeks, k, w) <=> v \in SatOut(s.weeks, k, w)
        BY <1>1, <1>3 DEF SatOut
      <4> QED BY <4>1
    <3>18. f0.weight = FoldedWeight(old, w, s.weeks)
      BY <2>4, <1>1, FoldedIs DEF f0
    <3>19. f0.weight = g[w]
      BY <3>16, <3>17, <3>18 DEF FoldedWeight, x, k
    <3> QED BY <3>6, <3>19, <1>3, <1>10
  <2> QED BY <2>1, <2>2, <2>3, <2>4
<1> QED BY <1>9, <1>10

LEMMA SliceKeeps ==
  ASSUME NEW s, IsHistory(s), NEW h \in Hours, NEW kind \in {"active", "idle"}, ToldBefore(s, h)
  PROVE  /\ IsHistory(Slice(s, h, kind)) /\ ToldBefore(Slice(s, h, kind), h + 1)
         /\ Slice(s, h, kind).told[h] = <<kind>> /\ \A g \in Hours \ {h} : Slice(s, h, kind).told[g] = s.told[g]
<1> DEFINE n == Slice(s, h, kind)
           b == BucketOf(h)
           w == WeekOf(h)
           old == s.buckets[b]
           f0 == Folded(old, w, s.weeks)
           more == IF kind = "active" THEN 1 ELSE 0
<1>1. /\ s \in StateType /\ ToldOnce(s) /\ PendingIsLast(s) /\ LifetimeIsTold(s) /\ WeightIsEarned(s)
      /\ b \in AllBuckets /\ w \in AllWeeks /\ w \in Nat /\ old \in BucketType /\ s.weeks \subseteq AllWeeks /\ h \in Nat
      /\ Hours \subseteq Nat
  BY Calendar DEF IsHistory, StateType
<1>2. s.told[h] = <<>>
  BY <1>1 DEF ToldBefore
<1>3. /\ n \in StateType /\ n.weeks = s.weeks \cup {w} /\ \A c \in AllBuckets \ {b} : n.buckets[c] = s.buckets[c]
      /\ n.told[h] = <<kind>> /\ \A g \in Hours \ {h} : n.told[g] = s.told[g]
      /\ n.buckets[b].week = w /\ n.buckets[b].observed = f0.observed + 1 /\ n.buckets[b].lifetime = f0.lifetime + 1
      /\ n.buckets[b].active = f0.active + more
  BY <1>1, <1>2, SliceIs
<1>4. /\ \A c \in AllBuckets : \A v : c # b \/ v # w => ToldIn(n, c, v) = ToldIn(s, c, v) /\ ActiveIn(n, c, v) = ActiveIn(s, c, v)
      /\ ToldIn(n, b, w) = ToldIn(s, b, w) \cup {h} /\ h \notin ToldIn(s, b, w)
      /\ ActiveIn(n, b, w) = ActiveIn(s, b, w) \cup (IF kind = "active" THEN {h} ELSE {})
      /\ \A c \in AllBuckets \ {b} : ToldEver(n, c) = ToldEver(s, c) /\ SeenWeeks(n, c) = SeenWeeks(s, c)
      /\ ToldEver(n, b) = ToldEver(s, b) \cup {h} /\ h \notin ToldEver(s, b)
      /\ SeenWeeks(n, b) = SeenWeeks(s, b) \cup {w}
      /\ ToldOnce(n)
  BY <1>1, <1>2, SliceTells
<1>5. /\ f0 \in BucketType /\ f0.lifetime = old.lifetime
      /\ old.week \in {-1, w} => f0 = old
      /\ old.week \notin {-1, w} => f0.observed = 0 /\ f0.active = 0
  BY <1>1, FoldedIs
<1>6. WeightIsEarned(n)
  BY SliceWeight
<1> HIDE DEF n, b, w, old, f0
<1>7. \A c \in AllBuckets : \A v \in SeenWeeks(s, c) : v \in Nat /\ v <= w
  <2> SUFFICES ASSUME NEW c \in AllBuckets, NEW v \in SeenWeeks(s, c) PROVE v \in Nat /\ v <= w
    OBVIOUS
  <2>1. PICK g \in Hours : v = WeekOf(g) /\ s.told[g] # <<>>
    BY DEF SeenWeeks, ToldIn
  <2>2. g <= h /\ g \in Nat /\ h \in Nat
    BY <2>1, Calendar DEF ToldBefore
  <2> QED BY <2>1, <2>2, Calendar DEF w
<1>8. ToldBefore(n, h + 1)
  <2> SUFFICES ASSUME NEW g \in Hours, n.told[g] # <<>> PROVE g < h + 1
    BY DEF ToldBefore
  <2>1. CASE g = h
    BY <2>1, <1>1
  <2>2. CASE g # h
    <3>1. s.told[g] # <<>>
      BY <2>2, <1>3
    <3> QED BY <3>1, <1>1 DEF ToldBefore
  <2> QED BY <2>1, <2>2
<1>9. LifetimeIsTold(n)
  <2> SUFFICES ASSUME NEW c \in AllBuckets PROVE n.buckets[c].lifetime = Cardinality(ToldEver(n, c))
    BY DEF LifetimeIsTold
  <2>1. CASE c = b
    <3>1. old.lifetime = Cardinality(ToldEver(s, b)) /\ IsFiniteSet(ToldEver(s, b)) /\ Cardinality(ToldEver(s, b)) \in Nat
      BY <1>1, ToldCounts DEF LifetimeIsTold, old
    <3>2. Cardinality(ToldEver(s, b) \cup {h}) = Cardinality(ToldEver(s, b)) + 1
      BY <3>1, <1>4, FS_AddElement
    <3> QED BY <2>1, <3>1, <3>2, <1>3, <1>4, <1>5
  <2>2. CASE c # b
    BY <2>2, <1>1, <1>3, <1>4 DEF LifetimeIsTold
  <2> QED BY <2>1, <2>2
\* What is pending was told this week, now with this unit.
<1>10. f0.observed = Cardinality(ToldIn(s, b, w)) /\ f0.active = Cardinality(ActiveIn(s, b, w))
  <2>0. ActiveIn(s, b, w) \subseteq ToldIn(s, b, w)
    BY DEF ActiveIn
  <2>1. CASE old.week = -1
    <3>1. SeenWeeks(s, b) = {} /\ old.observed = 0 /\ old.active = 0
      BY <2>1, <1>1 DEF PendingIsLast, old
    <3>2. ToldIn(s, b, w) = {}
      BY <3>1, <1>1 DEF SeenWeeks, ToldOnce, ToldIn
    <3>3. ActiveIn(s, b, w) = {}
      BY <3>2, <2>0
    <3> QED BY <2>1, <3>1, <3>2, <3>3, <1>5, FS_EmptySet
  <2>2. CASE old.week = w
    <3>1. old.observed = Cardinality(ToldIn(s, b, w)) /\ old.active = Cardinality(ActiveIn(s, b, w))
      BY <2>2, <1>1 DEF PendingIsLast, old
    <3> QED BY <2>2, <3>1, <1>5
  <2>3. CASE old.week \notin {-1, w}
    <3>1. \A v \in SeenWeeks(s, b) : v <= old.week
      BY <2>3, <1>1 DEF PendingIsLast, old
    <3>2. old.week \in SeenWeeks(s, b)
      BY <2>3, <1>1 DEF PendingIsLast, old
    <3>3. w \notin SeenWeeks(s, b)
      BY <3>1, <3>2, <2>3, <1>1, <1>7
    <3>4. ToldIn(s, b, w) = {}
      BY <3>3, <1>1 DEF SeenWeeks, ToldOnce, ToldIn
    <3>5. ActiveIn(s, b, w) = {}
      BY <3>4, <2>0
    <3> QED BY <2>3, <3>4, <3>5, <1>5, FS_EmptySet
  <2> QED BY <2>1, <2>2, <2>3
<1>11. PendingIsLast(n)
  <2> SUFFICES ASSUME NEW c \in AllBuckets
               PROVE  LET k == n.buckets[c].week IN
                      IF k = -1 THEN SeenWeeks(n, c) = {} /\ n.buckets[c].weight = <<>> /\ n.buckets[c].observed = 0 /\ n.buckets[c].active = 0
                      ELSE /\ k \in SeenWeeks(n, c) /\ \A v \in SeenWeeks(n, c) : v <= k
                           /\ n.buckets[c].observed = Cardinality(ToldIn(n, c, k)) /\ n.buckets[c].active = Cardinality(ActiveIn(n, c, k))
    BY DEF PendingIsLast
  <2>1. CASE c = b
    <3>1. w # -1 /\ w \in SeenWeeks(n, b) /\ \A v \in SeenWeeks(n, b) : v <= w
      BY <1>1, <1>4, <1>7
    <3>2. Cardinality(ToldIn(n, b, w)) = Cardinality(ToldIn(s, b, w)) + 1
      BY <1>4, ToldCounts, FS_AddElement
    <3>3. Cardinality(ActiveIn(n, b, w)) = Cardinality(ActiveIn(s, b, w)) + more
      <4>1. h \notin ActiveIn(s, b, w) /\ IsFiniteSet(ActiveIn(s, b, w)) /\ Cardinality(ActiveIn(s, b, w)) \in Nat
        BY <1>4, ToldCounts DEF ActiveIn
      <4>2. CASE kind = "active"
        <5>1. ActiveIn(n, b, w) = ActiveIn(s, b, w) \cup {h}
          BY <4>2, <1>4
        <5> QED BY <5>1, <4>1, <4>2, FS_AddElement
      <4>3. CASE kind # "active"
        <5>1. ActiveIn(n, b, w) = ActiveIn(s, b, w)
          BY <4>3, <1>4
        <5> QED BY <5>1, <4>1, <4>3
      <4> QED BY <4>2, <4>3
    <3> HIDE DEF more
    <3> QED BY <2>1, <3>1, <3>2, <3>3, <1>3, <1>10
  <2>2. CASE c # b
    <3>1. n.buckets[c] = s.buckets[c] /\ SeenWeeks(n, c) = SeenWeeks(s, c)
      BY <2>2, <1>3, <1>4
    <3>2. \A v : ToldIn(n, c, v) = ToldIn(s, c, v) /\ ActiveIn(n, c, v) = ActiveIn(s, c, v)
      BY <2>2, <1>4
    <3> QED BY <3>1, <3>2, <1>1 DEF PendingIsLast
  <2> QED BY <2>1, <2>2
<1> QED BY <1>3, <1>4, <1>6, <1>8, <1>9, <1>11 DEF IsHistory, n

LEMMA SliceType ==
  ASSUME NEW s \in StateType, NEW h \in Hours, NEW kind \in {"active", "idle"}
  PROVE  Slice(s, h, kind) \in StateType
<1> DEFINE b == BucketOf(h)
           w == WeekOf(h)
           f == Folded(s.buckets[b], w, s.weeks)
           more == IF kind = "active" THEN 1 ELSE 0
           k == [f EXCEPT !.week = w, !.observed = @ + 1, !.lifetime = @ + 1, !.active = @ + more]
<1>1. b \in AllBuckets /\ w \in AllWeeks
  BY Calendar
<1>2. s.buckets \in [AllBuckets -> BucketType] /\ s.weeks \subseteq AllWeeks /\ s.told \in [Hours -> Seq({"active", "idle"})]
  BY DEF StateType
<1>3. f \in BucketType
  BY <1>1, <1>2, FoldedIs
<1>4. Slice(s, h, kind) = [buckets |-> [s.buckets EXCEPT ![b] = k], weeks |-> s.weeks \cup {w}, told |-> [s.told EXCEPT ![h] = Append(s.told[h], kind)]]
  BY DEF Slice
<1>5. Append(s.told[h], kind) \in Seq({"active", "idle"})
  BY <1>2
<1> HIDE DEF f, b, w
<1>6. k \in BucketType
  <2>1. more \in Nat
    OBVIOUS
  <2> HIDE DEF more
  <2>2. k = [f EXCEPT !.week = w, !.observed = f.observed + 1, !.lifetime = f.lifetime + 1, !.active = f.active + more]
    OBVIOUS
  <2>3. f.observed + 1 \in Nat /\ f.lifetime + 1 \in Nat /\ f.active + more \in Nat /\ w \in AllWeeks \cup {-1}
    BY <1>1, <1>3, <2>1 DEF BucketType
  <2> HIDE DEF k
  <2> QED BY <2>2, <2>3, <1>3 DEF BucketType
<1> HIDE DEF k
<1>7. [s.buckets EXCEPT ![b] = k] \in [AllBuckets -> BucketType] /\ s.weeks \cup {w} \in SUBSET AllWeeks
  BY <1>1, <1>2, <1>6
<1>8. [s.told EXCEPT ![h] = Append(s.told[h], kind)] \in [Hours -> Seq({"active", "idle"})]
  BY <1>2, <1>5
<1> QED BY <1>4, <1>7, <1>8 DEF StateType

\* The slices in the order of time: what `after' of Accumulated satisfies.
IsSlicing(g, state, hours, kind) ==
  g = [i \in 0..MaxHour |->
         IF i = 0 THEN state
         ELSE IF i - 1 \in hours THEN Slice(g[i - 1], i - 1, kind) ELSE g[i - 1]]

LEMMA SlicingExists ==
  ASSUME NEW state \in StateType, NEW hours \in SUBSET Hours, NEW kind \in {"active", "idle"}
  PROVE  \E g \in [0..MaxHour -> StateType] : IsSlicing(g, state, hours, kind)
<1> DEFINE step == [p \in Nat \X StateType |-> IF p[1] \in hours THEN Slice(p[2], p[1], kind) ELSE p[2]]
<1>1. MaxHour \in Nat
  BY ProfileAssumption
<1>2. step \in [Nat \X StateType -> StateType]
  <2>1. \A p \in Nat \X StateType : (IF p[1] \in hours THEN Slice(p[2], p[1], kind) ELSE p[2]) \in StateType
    BY SliceType
  <2> QED BY <2>1
<1>3. \A i \in Nat, x \in StateType : step[<<i, x>>] = IF i \in hours THEN Slice(x, i, kind) ELSE x
  OBVIOUS
<1> HIDE DEF step
<1>4. PICK g \in [0..MaxHour -> StateType] : Unrolls(g, state, step, MaxHour)
  BY <1>1, <1>2, Recursion
<1> DEFINE k == [i \in 0..MaxHour |-> IF i = 0 THEN state ELSE IF i - 1 \in hours THEN Slice(g[i - 1], i - 1, kind) ELSE g[i - 1]]
<1>5. ASSUME NEW i \in 0..MaxHour PROVE g[i] = k[i]
  <2>1. CASE i = 0
    BY <2>1, <1>1, <1>4 DEF Unrolls
  <2>2. CASE i # 0
    <3>1. i - 1 \in Nat /\ i - 1 \in 0..MaxHour
      BY <2>2, <1>1
    <3>2. g[i] = step[<<i - 1, g[i - 1]>>]
      BY <2>2, <1>4 DEF Unrolls
    <3>3. g[i - 1] \in StateType
      BY <3>1
    <3> QED BY <3>1, <3>2, <3>3, <2>2, <1>3
  <2> QED BY <2>1, <2>2
<1>6. g = k
  <2>1. k = [i \in 0..MaxHour |-> k[i]] /\ g = [i \in 0..MaxHour |-> g[i]]
    OBVIOUS
  <2> HIDE DEF k
  <2> QED BY <2>1, <1>5, Zenon
<1> QED BY <1>6 DEF IsSlicing

\* Slices after all that was told.
Retells(n, s, hours, upto, kind) ==
  \A h \in Hours : n.told[h] = IF h \in hours /\ h < upto THEN <<kind>> ELSE s.told[h]
LEMMA SlicingKeeps ==
  ASSUME NEW s, IsHistory(s), NEW from \in Nat, NEW hours \in SUBSET Hours, \A h \in hours : from <= h,
         NEW kind \in {"active", "idle"}, ToldBefore(s, from), NEW g, IsSlicing(g, s, hours, kind)
  PROVE  IsHistory(g[MaxHour]) /\ Retells(g[MaxHour], s, hours, MaxHour, kind)
<1> DEFINE upto(i) == IF i <= from THEN from ELSE i
           J(i) == IsHistory(g[i]) /\ ToldBefore(g[i], upto(i)) /\ Retells(g[i], s, hours, i, kind)
           T == {i \in 0..MaxHour : ~J(i)}
<1>0. MaxHour \in Nat /\ Hours \subseteq Nat
  BY ProfileAssumption, Calendar
<1> SUFFICES ASSUME T # {} PROVE FALSE
  <2>1. MaxHour \in 0..MaxHour
    BY <1>0
  <2> QED BY <2>1
<1>1. PICK i \in T : \A y \in T : i <= y
  <2>1. T \subseteq Nat
    BY <1>0
  <2> HIDE DEF T
  <2> QED BY <2>1, LeastNat
<1>2. i \in 0..MaxHour /\ ~J(i)
  OBVIOUS
<1>3. g[i] = IF i = 0 THEN s ELSE IF i - 1 \in hours THEN Slice(g[i - 1], i - 1, kind) ELSE g[i - 1]
  BY <1>2, Zenon DEF IsSlicing
<1>4. CASE i = 0
  <2>1. g[i] = s
    BY <1>3, <1>4
  <2>2. upto(i) = from
    BY <1>4
  <2>3. Retells(s, s, hours, 0, kind)
    BY <1>0 DEF Retells
  <2> QED BY <2>1, <2>2, <2>3, <1>2, <1>4
<1>5. CASE i # 0
  <2> DEFINE j == i - 1
  <2>1. j \in 0..MaxHour /\ ~(i <= j) /\ j \in Nat /\ i = j + 1
    BY <1>0, <1>2, <1>5
  <2>2. J(j)
    <3>1. j \notin T
      <4> HIDE DEF T, j
      <4> QED BY <1>1, <2>1
    <3> QED BY <2>1, <3>1
  <2>3. CASE j \in hours
    <3>1. upto(j) = j /\ upto(i) = j + 1 /\ j \in Hours
      BY <2>1, <2>3
    <3>2. g[i] = Slice(g[j], j, kind)
      BY <1>3, <1>5, <2>3
    <3> HIDE DEF j, upto
    <3>3. IsHistory(g[j]) /\ ToldBefore(g[j], j)
      BY <2>2, <3>1
    <3>4. IsHistory(g[i]) /\ ToldBefore(g[i], j + 1) /\ g[i].told[j] = <<kind>> /\ \A h \in Hours \ {j} : g[i].told[h] = g[j].told[h]
      BY <3>1, <3>2, <3>3, SliceKeeps
    <3>5. Retells(g[i], s, hours, i, kind)
      <4> SUFFICES ASSUME NEW h \in Hours PROVE g[i].told[h] = IF h \in hours /\ h < i THEN <<kind>> ELSE s.told[h]
        BY DEF Retells
      <4>1. CASE h = j
        BY <4>1, <3>4, <2>1, <2>3
      <4>2. CASE h # j
        <5>1. g[i].told[h] = g[j].told[h] /\ h \in Nat
          BY <4>2, <3>4, <1>0
        <5>2. g[j].told[h] = IF h \in hours /\ h < j THEN <<kind>> ELSE s.told[h]
          BY <2>2 DEF Retells
        <5>3. h < j <=> h < i
          BY <4>2, <5>1, <2>1
        <5> QED BY <5>1, <5>2, <5>3
      <4> QED BY <4>1, <4>2
    <3>6. J(i)
      BY <3>1, <3>4, <3>5
    <3> QED BY <3>6, <1>2
  <2>4. CASE j \notin hours
    <3>1. g[i] = g[j]
      BY <1>3, <1>5, <2>4
    <3>2. ToldBefore(g[j], upto(i))
      <4>1. upto(j) <= upto(i) /\ upto(j) \in Nat /\ upto(i) \in Nat
        BY <2>1
      <4> HIDE DEF j, upto
      <4> QED BY <4>1, <2>2, <1>0 DEF ToldBefore
    <3>3. Retells(g[j], s, hours, i, kind)
      <4> SUFFICES ASSUME NEW h \in Hours PROVE g[j].told[h] = IF h \in hours /\ h < i THEN <<kind>> ELSE s.told[h]
        BY DEF Retells
      <4>2. g[j].told[h] = IF h \in hours /\ h < j THEN <<kind>> ELSE s.told[h]
        BY <2>2 DEF Retells
      <4>3. h \in hours => (h < j <=> h < i)
        BY <2>1, <2>4, <1>0
      <4> QED BY <4>2, <4>3
    <3>4. J(i)
      BY <2>2, <3>1, <3>2, <3>3
    <3> QED BY <3>4, <1>2
  <2> QED BY <2>3, <2>4
<1> QED BY <1>4, <1>5

LEMMA AccumulatedKeeps ==
  ASSUME NEW s, IsHistory(s), NEW from \in Nat, NEW hours \in SUBSET Hours, \A h \in hours : from <= h,
         NEW kind \in {"active", "idle"}, ToldBefore(s, from)
  PROVE  IsHistory(Accumulated(s, hours, kind)) /\ Retells(Accumulated(s, hours, kind), s, hours, MaxHour, kind)
<1> DEFINE g == CHOOSE g : IsSlicing(g, s, hours, kind)
<1>1. s \in StateType
  BY DEF IsHistory
<1>2. IsSlicing(g, s, hours, kind)
  <2>1. \E f : IsSlicing(f, s, hours, kind)
    BY <1>1, SlicingExists
  <2> QED BY <2>1
<1>3. Accumulated(s, hours, kind) = g[MaxHour]
  BY Zenon DEF Accumulated, IsSlicing
<1> HIDE DEF g
<1> QED BY <1>2, <1>3, SlicingKeeps

LEMMA EmptyIsHistory == IsHistory(EmptyState) /\ (\A n : ToldBefore(EmptyState, n)) /\ CreditFits(EmptyState)
<1> DEFINE e == EmptyState
<1>1. e.buckets = [b \in AllBuckets |-> NewBucket] /\ e.weeks = {} /\ e.told = [h \in Hours |-> <<>>]
  BY DEF EmptyState, AllBuckets
<1>2. NewBucket \in BucketType
  BY DEF NewBucket, BucketType, Ratios
<1>3. e \in StateType
  BY <1>1, <1>2 DEF EmptyState, StateType, AllBuckets
<1> HIDE DEF e
<1>4. \A h \in Hours : e.told[h] = <<>>
  BY <1>1
<1>5. \A b, w : ToldIn(e, b, w) = {}
  BY <1>4 DEF ToldIn
<1>6. \A b : ToldEver(e, b) = {} /\ SeenWeeks(e, b) = {}
  BY <1>1, <1>4 DEF ToldEver, SeenWeeks
<1>7. ToldOnce(e)
  BY <1>4 DEF ToldOnce
<1>8. PendingIsLast(e)
  BY <1>1, <1>6 DEF PendingIsLast, NewBucket
<1>9. LifetimeIsTold(e)
  <2>1. \A b \in AllBuckets : e.buckets[b] = NewBucket
    BY <1>1
  <2>2. NewBucket.lifetime = 0
    BY DEF NewBucket
  <2>3. \A b : Cardinality(ToldEver(e, b)) = 0
    BY <1>6, FS_EmptySet
  <2> QED BY <2>1, <2>2, <2>3 DEF LifetimeIsTold
<1>10. WeightIsEarned(e)
  BY <1>6 DEF WeightIsEarned
<1>11. \A n : ToldBefore(e, n)
  BY <1>4 DEF ToldBefore
<1>12. CreditFits(e)
  BY <1>4 DEF CreditFits
<1> QED BY <1>3, <1>7, <1>8, <1>9, <1>10, <1>11, <1>12 DEF IsHistory, e

LEMMA ProfileStart == ASSUME ProfileInit PROVE ProfileInv
<1>1. MaxHour \in Nat
  BY ProfileAssumption
<1>2. AccountOK
  BY <1>1 DEF ProfileInit, AccountOK
<1>3. TellsTrue
  BY DEF ProfileInit, TellsTrue
<1> QED BY <1>2, <1>3, EmptyIsHistory DEF ProfileInit, ProfileInv

\* An hour of the account.
OpensIn(points) == IF points > 0 /\ resetsAt = NoWindow THEN hour + WindowSpan ELSE resetsAt
LEMMA HourPasses ==
  ASSUME NEW points, PassHour(points)
  PROVE  /\ hour < MaxHour /\ hour' = hour + 1
         /\ worked' = IF points > Epsilon THEN worked \cup {hour} ELSE worked
         /\ OpensIn(points) = hour' =>
              /\ resetsAt' = NoWindow /\ utilization' = 0
              /\ lastSample # NoReading /\ lastSample.t <= hour' - WindowSpan => unseen' = unseen \cup (hour' - WindowSpan)..hour
              /\ ~(lastSample # NoReading /\ lastSample.t <= hour' - WindowSpan) => unseen' = unseen
         /\ OpensIn(points) # hour' => resetsAt' = OpensIn(points) /\ utilization' = utilization + points /\ unseen' = unseen
         /\ profile' = profile /\ profileFile' = profileFile /\ lastSample' = lastSample
<1>1. hour < MaxHour /\ hour' = hour + 1 /\ profile' = profile /\ profileFile' = profileFile /\ lastSample' = lastSample
  BY DEF PassHour
<1>2. worked' = IF points > Epsilon THEN worked \cup {hour} ELSE worked
  BY Zenon DEF PassHour
<1>3. IF OpensIn(points) = hour'
      THEN /\ resetsAt' = NoWindow /\ utilization' = 0
           /\ unseen' = IF lastSample # NoReading /\ lastSample.t <= hour' - WindowSpan
                        THEN unseen \cup (hour' - WindowSpan)..hour ELSE unseen
      ELSE resetsAt' = OpensIn(points) /\ utilization' = utilization + points /\ unseen' = unseen
  BY Zenon DEF PassHour, OpensIn
<1> QED BY <1>1, <1>2, <1>3, Zenon

\* Time passes: what was read still tells.
LEMMA PassKeepsAccount ==
  ASSUME AccountOK, NEW points \in Points, PassHour(points)
  PROVE  AccountOK'
<1>1. /\ hour \in 0..MaxHour /\ hour' = hour + 1 /\ hour < MaxHour /\ MaxHour \in Nat /\ WindowSpan \in Nat \ {0} /\ NoWindow \notin Int
      /\ points \in Nat
  BY ProfileAssumption DEF AccountOK, PassHour, Points, Epsilon
<1>2. worked' \subseteq 0..(hour' - 1) /\ unseen' \subseteq (1 - WindowSpan)..(hour' - 1)
  <2>1. worked \subseteq 0..(hour - 1) /\ unseen \subseteq (1 - WindowSpan)..(hour - 1)
    BY DEF AccountOK
  <2>2. worked' \subseteq worked \cup {hour} /\ unseen' \subseteq unseen \cup (hour + 1 - WindowSpan)..hour
    <3>1. worked' \subseteq worked \cup {hour}
      BY HourPasses
    <3>2. unseen' = unseen \/ unseen' = unseen \cup (hour' - WindowSpan)..hour
      BY HourPasses, Zenon
    <3> QED BY <1>1, <3>1, <3>2
  <2>3. \A h \in (hour + 1 - WindowSpan)..hour : h \in (1 - WindowSpan)..hour
    BY <1>1
  <2> QED BY <1>1, <2>1, <2>2, <2>3
<1> DEFINE opens == IF points > 0 /\ resetsAt = NoWindow THEN hour + WindowSpan ELSE resetsAt
<1>3. IF opens = hour + 1 THEN resetsAt' = NoWindow /\ utilization' = 0
      ELSE resetsAt' = opens /\ utilization' = utilization + points
  BY <1>1 DEF PassHour
<1>4. opens = NoWindow \/ (opens \in Nat /\ opens > hour /\ opens <= hour + WindowSpan)
  <2>1. resetsAt = NoWindow \/ (resetsAt \in Nat /\ resetsAt > hour /\ resetsAt <= hour + WindowSpan)
    BY DEF AccountOK
  <2>2. hour + WindowSpan \in Nat /\ hour + WindowSpan > hour /\ hour + WindowSpan <= hour + WindowSpan
    BY <1>1
  <2> QED BY <2>1, <2>2
<1>5. opens = NoWindow <=> resetsAt = NoWindow /\ ~(points > 0)
  BY <1>1
<1>6. utilization \in Nat /\ (resetsAt = NoWindow <=> utilization = 0)
  BY DEF AccountOK
<1> HIDE DEF opens
<1>7. CASE opens = hour + 1
  BY <1>1, <1>2, <1>3, <1>7 DEF AccountOK
<1>8. CASE opens # hour + 1
  <2>1. resetsAt' = NoWindow \/ (resetsAt' \in Nat /\ resetsAt' > hour' /\ resetsAt' <= hour' + WindowSpan)
    BY <1>1, <1>3, <1>4, <1>8
  <2>2. utilization' \in Nat /\ (resetsAt' = NoWindow <=> utilization' = 0)
    BY <1>1, <1>3, <1>5, <1>6, <1>8
  <2> QED BY <1>1, <1>2, <2>1, <2>2 DEF AccountOK
<1> QED BY <1>7, <1>8

LEMMA PassKeepsReading ==
  ASSUME AccountOK, NEW points \in Points, PassHour(points), lastSample # NoReading,
         ReadingIsPast(lastSample), ReadingTells(lastSample)
  PROVE  ReadingIsPast(lastSample)' /\ ReadingTells(lastSample)'
<1> DEFINE a == lastSample
<1>1. /\ hour \in Nat /\ hour' = hour + 1 /\ WindowSpan \in Nat \ {0} /\ NoWindow \notin Int /\ worked \subseteq 0..(hour - 1)
      /\ utilization \in Nat /\ (resetsAt = NoWindow \/ (resetsAt \in Nat /\ resetsAt > hour /\ resetsAt <= hour + WindowSpan))
      /\ (resetsAt = NoWindow <=> utilization = 0) /\ a' = a
  BY ProfileAssumption DEF AccountOK, PassHour
<1>2. /\ a.t \in Nat /\ a.t <= hour /\ a.utilization \in Nat /\ (a.resetsAt = NoWindow \/ a.resetsAt \in Nat)
      /\ a.resetsAt # NoWindow => a.resetsAt > a.t /\ a.resetsAt <= a.t + WindowSpan
      /\ (a.resetsAt = NoWindow <=> a.utilization = 0)
      /\ a.t = hour => a.resetsAt = resetsAt /\ a.utilization = utilization
  BY DEF ReadingIsPast, Readings
<1>3. ReadingIsPast(a)'
  BY <1>1, <1>2 DEF ReadingIsPast
<1>4. points \in Nat /\ Epsilon = 1 /\ (points > Epsilon => points >= 2) /\ (points > 0 /\ ~(points > Epsilon) => points = 1)
  BY DEF Points, Epsilon
<1>5. worked' = (IF points > Epsilon THEN worked \cup {hour} ELSE worked) /\ hour \notin worked
  BY <1>1 DEF PassHour
<1> DEFINE opens == IF points > 0 /\ resetsAt = NoWindow THEN hour + WindowSpan ELSE resetsAt
           opening == opens - WindowSpan
<1>6. /\ opens = hour + 1 =>
           /\ resetsAt' = NoWindow /\ utilization' = 0
           /\ unseen' = IF a.t <= hour + 1 - WindowSpan THEN unseen \cup (hour + 1 - WindowSpan)..hour ELSE unseen
      /\ opens # hour + 1 => resetsAt' = opens /\ utilization' = utilization + points /\ unseen' = unseen
  <2>1. opens = OpensIn(points) /\ (lastSample # NoReading)
    BY DEF OpensIn
  <2> HIDE DEF opens
  <2>2. opens # hour' => resetsAt' = opens /\ utilization' = utilization + points /\ unseen' = unseen
    BY <2>1, HourPasses
  <2>3. opens = hour' => resetsAt' = NoWindow /\ utilization' = 0
    BY <2>1, HourPasses
  <2>4. opens = hour' => unseen' = IF a.t <= hour' - WindowSpan THEN unseen \cup (hour' - WindowSpan)..hour ELSE unseen
    BY <2>1, HourPasses, Zenon
  <2>5. hour' - WindowSpan = hour + 1 - WindowSpan
    BY <1>1
  <2>6. opens = hour + 1 => unseen' = IF a.t <= hour + 1 - WindowSpan THEN unseen \cup (hour + 1 - WindowSpan)..hour ELSE unseen
    <3> DEFINE W(n) == unseen' = IF a.t <= n THEN unseen \cup n..hour ELSE unseen
    <3>1. opens = hour + 1 => W(hour' - WindowSpan)
      BY <2>4, <1>1
    <3> HIDE DEF W
    <3>2. opens = hour + 1 => W(hour + 1 - WindowSpan)
      BY <3>1, <2>5
    <3> QED BY <3>2 DEF W
  <2> QED BY <2>2, <2>3, <2>6, <1>1
<1>7. /\ \A h \in worked : h >= a.t => InOld(a, h) \/ InNew(h) \/ h \in unseen
      /\ a.resetsAt # NoWindow => resetsAt = a.resetsAt \/ a.resetsAt <= hour
      /\ resetsAt # NoWindow /\ resetsAt # a.resetsAt => a.t <= resetsAt - WindowSpan
      /\ resetsAt # NoWindow /\ resetsAt = a.resetsAt =>
           /\ a.utilization <= utilization
           /\ (\E h \in worked : h >= a.t) => utilization > a.utilization + Epsilon
           /\ utilization > a.utilization + Epsilon /\ hour = a.t + 1 => a.t \in worked
  BY DEF ReadingTells
<1>8. /\ opens = NoWindow \/ (opens \in Nat /\ opens > hour /\ opens <= hour + WindowSpan /\ opening \in Int)
      /\ resetsAt # NoWindow => opens = resetsAt
      /\ resetsAt = NoWindow /\ points > 0 => opens = hour + WindowSpan /\ opening = hour
      /\ opens = NoWindow <=> resetsAt = NoWindow /\ points = 0
  <2>1. CASE points > 0 /\ resetsAt = NoWindow
    BY <2>1, <1>1, <1>4
  <2>2. CASE resetsAt # NoWindow
    <3>1. opens = resetsAt
      BY <2>2
    <3> QED BY <3>1, <2>2, <1>1
  <2>3. CASE resetsAt = NoWindow /\ ~(points > 0)
    <3>1. opens = NoWindow /\ points = 0
      BY <2>3, <1>4
    <3> QED BY <3>1, <2>3, <1>1
  <2> QED BY <2>1, <2>2, <2>3
<1> HIDE DEF opens, opening
<1>20. opening = opens - WindowSpan
  BY DEF opening
\* The window open in this unit, if it is not the one the reading saw, opened after it.
<1>9. opens # NoWindow /\ opens # a.resetsAt => a.t <= opening
  <2>1. CASE resetsAt = NoWindow
    BY <1>2, <1>4, <1>8, <2>1
  <2>2. CASE resetsAt # NoWindow
    BY <1>7, <1>8, <1>20, <2>2
  <2> QED BY <2>1, <2>2
\* A window of another time has another end.
<1>10. opens # NoWindow /\ opens = a.resetsAt => resetsAt = opens
  <2> SUFFICES ASSUME opens # NoWindow, opens = a.resetsAt, resetsAt = NoWindow PROVE FALSE
    BY <1>8
  <2>1. opens = hour + WindowSpan
    BY <1>1, <1>4, <1>8
  <2>2. a.resetsAt <= a.t + WindowSpan
    BY <1>2
  <2>3. a.t = hour
    BY <1>1, <1>2, <2>1, <2>2
  <2> QED BY <1>2, <2>3
<1>11. ASSUME NEW h \in worked', h >= a.t
       PROVE  h \in Nat /\ h <= hour /\ (InOld(a, h) \/ (opens # NoWindow /\ h >= opening) \/ h \in unseen)
  <2>1. CASE h \in worked
    <3>1. h \in Nat /\ h <= hour
      BY <1>1, <2>1
    <3>2. InNew(h) => opens # NoWindow /\ h >= opening
      BY <1>8, <1>20 DEF InNew
    <3> QED BY <1>7, <1>11, <2>1, <3>1, <3>2
  <2>2. CASE h \notin worked
    <3>1. h = hour /\ points > Epsilon /\ points > 0
      BY <1>4, <1>5, <2>2
    <3>2. opens # NoWindow /\ hour >= opening
      BY <1>1, <1>4, <1>8, <1>20, <3>1
    <3> QED BY <1>1, <3>1, <3>2
  <2> QED BY <2>1, <2>2
<1>12. CASE opens = hour + 1
  <2>1. resetsAt' = NoWindow
    BY <1>6, <1>12
  <2>2. ASSUME NEW h \in worked', h >= a.t PROVE InOld(a, h) \/ h \in unseen'
    <3>1. h \in Nat /\ h <= hour /\ (InOld(a, h) \/ h >= opening \/ h \in unseen)
      BY <1>11, <2>2
    <3>2. unseen \subseteq unseen'
      BY <1>6, <1>12
    <3>3. ASSUME h >= opening PROVE InOld(a, h) \/ h \in unseen'
      <4>1. CASE opens = a.resetsAt
        BY <1>1, <1>8, <1>12, <3>1, <4>1 DEF InOld
      <4>2. CASE opens # a.resetsAt
        <5>1. opening = hour + 1 - WindowSpan /\ opens # NoWindow
          BY <1>1, <1>12, <1>20
        <5>2. a.t <= hour + 1 - WindowSpan
          BY <1>9, <4>2, <5>1
        <5>3. h \in (hour + 1 - WindowSpan)..hour
          BY <1>1, <3>1, <3>3, <5>1
        <5> QED BY <1>6, <1>12, <5>2, <5>3
      <4> QED BY <4>1, <4>2
    <3> QED BY <3>1, <3>2, <3>3
  <2>3. a.resetsAt # NoWindow => a.resetsAt <= hour + 1
    BY <1>1, <1>2, <1>7, <1>8, <1>12
  <2>4. \A h \in worked' : h >= a.t => InOld(a, h)' \/ h \in unseen'
    BY <1>1, <2>2 DEF InOld
  <2> QED BY <1>1, <1>3, <2>1, <2>3, <2>4 DEF ReadingTells
<1>13. CASE opens # hour + 1
  <2>1. resetsAt' = opens /\ utilization' = utilization + points /\ unseen' = unseen
    BY <1>6, <1>13
  <2>2. \A h \in worked' : h >= a.t => InOld(a, h)' \/ InNew(h)' \/ h \in unseen'
    BY <1>1, <1>11, <1>20, <2>1 DEF InOld, InNew
  <2>3. a.resetsAt # NoWindow => opens = a.resetsAt \/ a.resetsAt <= hour + 1
    BY <1>1, <1>2, <1>7, <1>8
  <2>4. opens # NoWindow /\ opens # a.resetsAt => a.t <= opens - WindowSpan
    BY <1>9, <1>20
  <2>5. ASSUME opens # NoWindow, opens = a.resetsAt
        PROVE  /\ a.utilization <= utilization'
               /\ (\E h \in worked' : h >= a.t) => utilization' > a.utilization + Epsilon
               /\ utilization' > a.utilization + Epsilon /\ hour + 1 = a.t + 1 => a.t \in worked'
    <3>1. resetsAt # NoWindow /\ resetsAt = a.resetsAt /\ a.utilization <= utilization
      BY <1>7, <1>10, <2>5
    <3>2. a.utilization <= utilization'
      BY <1>1, <1>2, <1>4, <2>1, <3>1
    <3>3. ASSUME NEW h \in worked', h >= a.t PROVE utilization' > a.utilization + Epsilon
      <4>1. CASE h \in worked
        <5>1. utilization > a.utilization + Epsilon
          BY <1>7, <3>1, <3>3, <4>1
        <5> QED BY <1>1, <1>2, <1>4, <2>1, <5>1
      <4>2. CASE h \notin worked
        <5>1. points > Epsilon
          BY <1>5, <4>2
        <5> QED BY <1>1, <1>2, <1>4, <2>1, <3>1, <5>1
      <4> QED BY <4>1, <4>2
    <3>4. ASSUME utilization' > a.utilization + Epsilon, hour + 1 = a.t + 1 PROVE a.t \in worked'
      <4>1. a.t = hour /\ a.utilization = utilization
        BY <1>1, <1>2, <3>4
      <4>2. points > Epsilon
        BY <1>1, <1>2, <1>4, <2>1, <3>4, <4>1
      <4> QED BY <1>5, <4>1, <4>2
    <3> QED BY <3>2, <3>3, <3>4
  <2>6. /\ resetsAt' # NoWindow /\ resetsAt' = a.resetsAt =>
             /\ a.utilization <= utilization'
             /\ (\E h \in worked' : h >= a.t) => utilization' > a.utilization + Epsilon
             /\ utilization' > a.utilization + Epsilon /\ hour' = a.t + 1 => a.t \in worked'
    BY <1>1, <2>1, <2>5
  <2>7. ReadingTells(a)'
    BY <1>1, <2>1, <2>2, <2>3, <2>4, <2>6 DEF ReadingTells, Epsilon
  <2> QED BY <1>3, <2>7
<1> QED BY <1>12, <1>13

LEMMA ToldBeforeGrows == ASSUME NEW s, NEW m \in Nat, NEW n \in Nat, m <= n, ToldBefore(s, m) PROVE ToldBefore(s, n)
<1>1. Hours \subseteq Nat
  BY Calendar
<1>2. ASSUME NEW h \in Hours, h < m PROVE h < n
  BY <1>1, <1>2
<1> QED BY <1>2, Zenon DEF ToldBefore

LEMMA PassKeeps == ASSUME ProfileInv, NEW points \in Points, PassHour(points) PROVE ProfileInv'
<1>1. AccountOK'
  BY PassKeepsAccount DEF ProfileInv
<1>2. /\ hour \in Nat /\ hour' = hour + 1 /\ worked' \subseteq worked \cup {hour} /\ worked \subseteq worked' /\ unseen \subseteq unseen'
      /\ profile' = profile /\ profileFile' = profileFile /\ lastSample' = lastSample /\ Hours \subseteq Nat
  <2>1. hour \in Nat /\ Hours \subseteq Nat
    BY ProfileAssumption, Calendar DEF ProfileInv, AccountOK
  <2>2. unseen' = unseen \/ unseen' = unseen \cup (hour' - WindowSpan)..hour
    BY HourPasses, Zenon
  <2> QED BY <2>1, <2>2, HourPasses
<1>3. TellsTrue'
  <2>1. CASE lastSample = NoReading
    BY <1>2, <2>1 DEF TellsTrue
  <2>2. CASE lastSample # NoReading
    <3>1. ReadingIsPast(lastSample)' /\ ReadingTells(lastSample)'
      BY <2>2, PassKeepsReading DEF ProfileInv, TellsTrue
    <3> QED BY <3>1 DEF TellsTrue
  <2> QED BY <2>1, <2>2
<1>4. KnownUntil <= hour /\ KnownUntil \in Nat /\ KnownUntil' \in Nat /\ KnownUntil <= KnownUntil'
  BY <1>2 DEF KnownUntil, ProfileInv, TellsTrue, ReadingIsPast, Readings
<1>5. ToldBefore(profile', KnownUntil') /\ ToldBefore(profileFile', hour')
  <2>1. ToldBefore(profile, KnownUntil) /\ ToldBefore(profileFile, hour) /\ hour' \in Nat /\ hour <= hour'
    BY <1>2 DEF ProfileInv
  <2> QED BY <2>1, <1>2, <1>4, ToldBeforeGrows
<1>6. ASSUME NEW s, ToldBefore(s, hour), CreditFits(s) PROVE CreditFits(s)'
  BY <1>2, <1>6 DEF ToldBefore, CreditFits
<1>7. ToldBefore(profile, hour)
  <2>1. ToldBefore(profile, KnownUntil)
    BY DEF ProfileInv
  <2> QED BY <2>1, <1>2, <1>4, ToldBeforeGrows
<1>8. CreditFits(profile)' /\ CreditFits(profileFile)'
  <2>1. PICK s, r : s = profile /\ r = profileFile
    OBVIOUS
  <2>2. CreditFits(s)' /\ CreditFits(r)'
    BY <2>1, <1>6, <1>7 DEF ProfileInv
  <2> QED BY <2>1, <2>2, <1>2 DEF CreditFits
<1>9. IsHistory(profile') /\ IsHistory(profileFile')
  BY <1>2 DEF ProfileInv
<1> QED BY <1>1, <1>3, <1>5, <1>8, <1>9 DEF ProfileInv

\* What a reading credits: units since the one before, active ones worked in and idle ones not.
LEMMA CreditIsSound ==
  ASSUME AccountOK, NEW a, ReadingIsPast(a), ReadingTells(a), hour # a.t, NEW b, b = ReadingNow
  PROVE  /\ \A h \in Credited(a, b) : h \in a.t..(hour - 1)
         /\ \A h \in Credited(a, b) : IF Classified(a, b) = "active" THEN h \in worked ELSE h \in worked => h \in unseen
<1>1. /\ hour \in Nat /\ WindowSpan \in Nat \ {0} /\ NoWindow \notin Int /\ worked \subseteq 0..(hour - 1)
      /\ utilization \in Nat /\ (resetsAt = NoWindow \/ (resetsAt \in Nat /\ resetsAt > hour /\ resetsAt <= hour + WindowSpan))
      /\ (resetsAt = NoWindow <=> utilization = 0)
  BY ProfileAssumption DEF AccountOK
<1>2. /\ a.t \in Nat /\ a.t <= hour /\ a.utilization \in Nat /\ (a.resetsAt = NoWindow \/ a.resetsAt \in Nat)
      /\ a.resetsAt # NoWindow => a.resetsAt > a.t /\ a.resetsAt <= a.t + WindowSpan
      /\ (a.resetsAt = NoWindow <=> a.utilization = 0)
  BY DEF ReadingIsPast, Readings
<1>3. b.t = hour /\ b.utilization = utilization /\ b.resetsAt = resetsAt
  BY DEF ReadingNow
<1>4. Epsilon = 1
  BY DEF Epsilon
<1>5. /\ \A h \in worked : h >= a.t => InOld(a, h) \/ InNew(h) \/ h \in unseen
      /\ resetsAt # NoWindow /\ resetsAt = a.resetsAt =>
           /\ a.utilization <= utilization
           /\ (\E h \in worked : h >= a.t) => utilization > a.utilization + Epsilon
           /\ utilization > a.utilization + Epsilon /\ hour = a.t + 1 => a.t \in worked
  BY DEF ReadingTells
<1>6. CASE a.resetsAt = resetsAt /\ utilization > a.utilization + Epsilon
  <2>1. Classified(a, b) = IF hour - a.t <= 1 THEN "active" ELSE "ambiguous"
    BY <1>1, <1>2, <1>3, <1>4, <1>6 DEF Classified, Attributable
  <2>2. CASE hour - a.t <= 1
    <3>1. Classified(a, b) = "active" /\ hour = a.t + 1
      BY <1>1, <1>2, <2>1, <2>2
    <3>2. Credited(a, b) = a.t..(hour - 1)
      BY <1>3, <3>1 DEF Credited
    <3>3. resetsAt # NoWindow
      BY <1>1, <1>2, <1>4, <1>6
    <3>4. \A h : h \in a.t..(hour - 1) <=> h = a.t
      BY <1>2, <3>1
    <3>5. a.t \in worked
      BY <1>5, <1>6, <3>1, <3>3
    <3> QED BY <3>1, <3>2, <3>4, <3>5
  <2>3. CASE ~(hour - a.t <= 1)
    <3>1. Classified(a, b) = "ambiguous"
      BY <2>1, <2>3
    <3>2. Credited(a, b) = {}
      BY <3>1 DEF Credited
    <3> QED BY <3>2
  <2> QED BY <2>2, <2>3
<1>7. CASE a.resetsAt = resetsAt /\ ~(utilization > a.utilization + Epsilon)
  <2>1. a.utilization <= utilization
    BY <1>1, <1>2, <1>5, <1>7
  <2>2. Classified(a, b) = "idle"
    BY <1>1, <1>2, <1>3, <1>4, <1>7, <2>1 DEF Classified
  <2>3. Credited(a, b) = a.t..(hour - 1)
    BY <1>3, <2>2 DEF Credited
  <2>4. ASSUME NEW h \in a.t..(hour - 1), h \in worked PROVE h \in unseen
    <3>1. h >= a.t
      BY <1>2, <2>4
    <3>2. resetsAt = NoWindow
      BY <1>5, <1>7, <2>4, <3>1
    <3> QED BY <1>5, <1>7, <2>4, <3>1, <3>2 DEF InOld, InNew
  <2> QED BY <2>2, <2>3, <2>4
<1>9. CASE a.resetsAt # resetsAt
  <2>1. Classified(a, b) = "reset"
    BY <1>3, <1>9 DEF Classified
  <2> DEFINE from == IF a.resetsAt = NoWindow \/ a.resetsAt < a.t THEN a.t ELSE a.resetsAt
             to == IF resetsAt = NoWindow \/ resetsAt - WindowSpan > hour THEN hour ELSE resetsAt - WindowSpan
  <2>2. Credited(a, b) = from..(to - 1)
    <3>1. Credited(a, b) = IdleSpan(a, b)
      BY <1>3, <1>9, <2>1 DEF Credited
    <3>2. IdleSpan(a, b) = from..(to - 1)
      BY <1>3, Zenon DEF IdleSpan
    <3> QED BY <3>1, <3>2
  <2>3. from \in Nat /\ from >= a.t /\ (a.resetsAt # NoWindow => from = a.resetsAt)
    BY <1>1, <1>2
  <2>4. to <= hour /\ to \in Int /\ (resetsAt # NoWindow => to <= resetsAt - WindowSpan)
    BY <1>1
  <2> HIDE DEF to, from
  <2>5. \A h \in from..(to - 1) : h \in a.t..(hour - 1)
    BY <1>1, <1>2, <2>3, <2>4
  <2>6. ASSUME NEW h \in from..(to - 1), h \in worked PROVE h \in unseen
    <3>1. h \in Int /\ h >= from /\ h < to
      BY <2>3, <2>4, <2>6
    <3>2. h >= a.t
      BY <1>2, <2>3, <3>1
    <3>3. ~InOld(a, h)
      BY <1>2, <2>3, <3>1 DEF InOld
    <3>4. ~InNew(h)
      BY <1>1, <2>4, <3>1 DEF InNew
    <3> QED BY <1>5, <2>6, <3>2, <3>3, <3>4
  <2> QED BY <2>1, <2>2, <2>5, <2>6
<1> QED BY <1>6, <1>7, <1>9

LEMMA ReadingLearns ==
  ASSUME ProfileInv
  PROVE  IsHistory(Learned) /\ ToldBefore(Learned, hour) /\ CreditFits(Learned)
<1> DEFINE a == lastSample
           b == ReadingNow
           kind == IF Classified(a, b) = "active" THEN "active" ELSE "idle"
           hours == Credited(a, b)
<1>1. hour \in Nat /\ hour <= MaxHour /\ MaxHour \in Nat /\ Hours \subseteq Nat
  BY ProfileAssumption, Calendar DEF ProfileInv, AccountOK
<1>2. IsHistory(profile) /\ ToldBefore(profile, KnownUntil) /\ CreditFits(profile)
  BY DEF ProfileInv
<1>3. CASE Gap = 0
  <2>1. KnownUntil <= hour /\ KnownUntil \in Nat
    BY <1>1 DEF KnownUntil, ProfileInv, TellsTrue, ReadingIsPast, Readings
  <2>2. Learned = profile
    BY <1>3 DEF Learned
  <2> QED BY <1>1, <1>2, <2>1, <2>2, ToldBeforeGrows
<1>4. CASE Gap # 0
  <2>1. a # NoReading /\ hour # a.t
    BY <1>1, <1>4 DEF Gap, ProfileInv, TellsTrue, ReadingIsPast, Readings
  <2>2. AccountOK /\ ReadingIsPast(a) /\ ReadingTells(a) /\ KnownUntil = a.t
    BY <2>1 DEF ProfileInv, TellsTrue, KnownUntil
  <2>3. a.t \in Nat
    BY <2>2 DEF ReadingIsPast, Readings
  <2>4. /\ \A h \in hours : h \in a.t..(hour - 1)
        /\ \A h \in hours : IF Classified(a, b) = "active" THEN h \in worked ELSE h \in worked => h \in unseen
    BY <2>1, <2>2, CreditIsSound
  <2>5. Learned = Accumulated(profile, hours, kind)
    BY <1>4 DEF Learned
  <2>6. kind \in {"active", "idle"}
    OBVIOUS
  <2>7. kind = "active" <=> Classified(a, b) = "active"
    OBVIOUS
  <2> HIDE DEF a, b, kind, hours
  <2>8. hours \in SUBSET Hours /\ \A h \in hours : a.t <= h /\ h < hour /\ h < MaxHour
    BY <1>1, <2>3, <2>4 DEF Hours
  <2>9. IsHistory(Learned) /\ Retells(Learned, profile, hours, MaxHour, kind)
    BY <1>2, <2>2, <2>3, <2>5, <2>6, <2>8, AccumulatedKeeps
  <2>10. \A h \in Hours : Learned.told[h] = IF h \in hours THEN <<kind>> ELSE profile.told[h]
    BY <2>8, <2>9 DEF Retells
  <2> HIDE DEF Learned
  <2>11. ToldBefore(profile, hour)
    BY <1>1, <1>2, <2>2, <2>3, ToldBeforeGrows DEF ReadingIsPast
  <2>12. ToldBefore(Learned, hour)
    BY <2>8, <2>10, <2>11 DEF ToldBefore
  <2>13. CreditFits(Learned)
    <3> SUFFICES ASSUME NEW h \in Hours, Learned.told[h] # <<>>
                 PROVE  IF Learned.told[h][1] = "active" THEN h \in worked ELSE h \in worked => h \in unseen
      BY DEF CreditFits
    <3>1. CASE h \in hours
      <4>1. Learned.told[h][1] = kind
        BY <3>1, <2>10
      <4> QED BY <4>1, <3>1, <2>4, <2>7
    <3>2. CASE h \notin hours
      BY <3>2, <2>10, <1>2 DEF CreditFits
    <3> QED BY <3>1, <3>2
  <2> QED BY <2>9, <2>12, <2>13
<1> QED BY <1>3, <1>4

LEMMA ProfileReadingKeeps == ASSUME ProfileInv, NEW ok \in BOOLEAN, RecordReading(ok) PROVE ProfileInv'
<1>1. /\ profile' = Learned /\ lastSample' = ReadingNow /\ accountVars' = accountVars
      /\ profileFile' \in {profile', profileFile}
  BY DEF RecordReading
<1>2. hour' = hour /\ worked' = worked /\ unseen' = unseen /\ resetsAt' = resetsAt /\ utilization' = utilization
  BY <1>1 DEF accountVars
<1>3. IsHistory(Learned) /\ ToldBefore(Learned, hour) /\ CreditFits(Learned)
  BY <1>1, ReadingLearns
<1>4. AccountOK /\ IsHistory(profileFile) /\ ToldBefore(profileFile, hour) /\ CreditFits(profileFile) /\ hour \in Nat
  BY ProfileAssumption DEF ProfileInv, AccountOK
<1>5. AccountOK'
  BY <1>2, <1>4 DEF AccountOK
<1> DEFINE b == ReadingNow
<1>6. b.t = hour /\ b.utilization = utilization /\ b.resetsAt = resetsAt /\ b = [t |-> hour, utilization |-> utilization, resetsAt |-> resetsAt]
  BY DEF ReadingNow
<1>7. lastSample'.t = hour /\ lastSample'.utilization = utilization /\ lastSample'.resetsAt = resetsAt /\ lastSample' \in Readings
  BY <1>1, <1>4, <1>6 DEF AccountOK, Readings
<1>8. (ReadingIsPast(lastSample) /\ ReadingTells(lastSample))'
  <2>1. resetsAt # NoWindow => resetsAt \in Nat /\ resetsAt > hour /\ resetsAt <= hour + WindowSpan
    BY <1>4 DEF AccountOK
  <2>2. ReadingIsPast(lastSample)'
    BY <1>2, <1>4, <1>7, <2>1 DEF ReadingIsPast, AccountOK
  <2>3. ReadingTells(lastSample)'
    <3>1. worked \subseteq 0..(hour - 1) /\ Epsilon = 1 /\ utilization \in Nat
      BY <1>4 DEF AccountOK, Epsilon
    <3>2. lastSample'.t = hour' /\ ~(hour' = lastSample'.t + 1)
      BY <1>2, <1>4, <1>7
    <3>3. \A h \in worked' : ~(h >= lastSample'.t)
      BY <1>2, <1>4, <1>7, <3>1
    <3>4. lastSample'.utilization <= utilization' /\ lastSample'.resetsAt = resetsAt'
      BY <1>2, <1>7, <3>1
    <3> QED BY <3>2, <3>3, <3>4 DEF ReadingTells
  <2> QED BY <2>2, <2>3
<1>9. KnownUntil' = hour
  <2>1. lastSample' # NoReading
    BY <1>7, ProfileAssumption DEF Readings
  <2> QED BY <2>1, <1>7 DEF KnownUntil
<1>10. CreditFits(profile)' /\ CreditFits(profileFile)'
  BY <1>1, <1>2, <1>3, <1>4 DEF CreditFits
<1>11. IsHistory(profile') /\ IsHistory(profileFile') /\ ToldBefore(profile', KnownUntil') /\ ToldBefore(profileFile', hour')
  BY <1>1, <1>2, <1>3, <1>4, <1>9
<1> QED BY <1>5, <1>8, <1>10, <1>11 DEF ProfileInv, TellsTrue

LEMMA ProfileRestartKeeps == ASSUME ProfileInv, ProfileRestart PROVE ProfileInv'
BY DEF ProfileInv, ProfileRestart, AccountOK, accountVars, TellsTrue, KnownUntil, CreditFits

\* The fold of a history is what the whole history gives.
LEMMA HistoryIsFolded == ASSUME IsHistory(profile) PROVE FoldIsHistory
<1> DEFINE s == profile
<1>1. \A b, w : Told(b, w) = ToldIn(s, b, w) /\ ToldActive(b, w) = ActiveIn(s, b, w)
  BY DEF Told, ToldIn, ToldActive, ActiveIn
<1>2. \A b : WeeksOf(b) = SeenWeeks(s, b)
  BY <1>1 DEF WeeksOf, SeenWeeks
<1>3. ToldOnce(s) /\ PendingIsLast(s) /\ LifetimeIsTold(s) /\ WeightIsEarned(s) /\ s \in StateType
  BY DEF IsHistory
<1>4. \A h \in Hours : Len(profile.told[h]) <= 1
  BY <1>3 DEF ToldOnce
<1> SUFFICES ASSUME NEW b \in AllBuckets
             PROVE  /\ profile.buckets[b].lifetime = Cardinality(UNION {Told(b, w) : w \in WeeksOf(b)})
                    /\ WeeksOf(b) # {} => profile.buckets[b].weight = WholeWeight(b)
  BY <1>4 DEF FoldIsHistory, AllBuckets
<1>5. UNION {Told(b, w) : w \in WeeksOf(b)} = ToldEver(s, b)
  <2>1. ASSUME NEW h PROVE h \in UNION {Told(b, w) : w \in WeeksOf(b)} <=> h \in ToldEver(s, b)
    <3>1. ASSUME h \in ToldEver(s, b) PROVE h \in UNION {Told(b, w) : w \in WeeksOf(b)}
      <4>1. h \in Hours /\ BucketOf(h) = b /\ s.told[h] # <<>> /\ WeekOf(h) \in s.weeks
        BY <3>1, <1>3 DEF ToldEver, ToldOnce
      <4>2. h \in ToldIn(s, b, WeekOf(h))
        BY <4>1 DEF ToldIn
      <4>3. WeekOf(h) \in WeeksOf(b) /\ h \in Told(b, WeekOf(h))
        BY <4>1, <4>2, <1>1, <1>2 DEF SeenWeeks
      <4> QED BY <4>3
    <3>2. ASSUME NEW w, h \in Told(b, w) PROVE h \in ToldEver(s, b)
      BY <3>2 DEF Told, ToldEver
    <3> QED BY <3>1, <3>2
  <2> QED BY <2>1
<1>6. profile.buckets[b].lifetime = Cardinality(ToldEver(s, b))
  BY <1>3 DEF LifetimeIsTold
<1>7. ASSUME SeenWeeks(s, b) # {} PROVE profile.buckets[b].weight = WholeWeight(b)
  <2> DEFINE first == CHOOSE w \in WeeksOf(b) : \A v \in WeeksOf(b) : w <= v
             last  == CHOOSE w \in WeeksOf(b) : \A v \in WeeksOf(b) : w >= v
             k == s.buckets[b].week
             g == CHOOSE g : IsChain(g, s, b, first, last)
  <2>1. SeenWeeks(s, b) \subseteq Nat
    BY <1>3, Calendar DEF SeenWeeks, StateType
  <2>2. k \in SeenWeeks(s, b) /\ \A w \in SeenWeeks(s, b) : w <= k
    BY <1>3, <1>7 DEF PendingIsLast
  <2>3. first \in SeenWeeks(s, b) /\ \A w \in SeenWeeks(s, b) : first <= w
    <3>1. \E w \in SeenWeeks(s, b) : \A v \in SeenWeeks(s, b) : w <= v
      BY <2>1, <1>7, LeastNat
    <3> QED BY <3>1, <1>2
  <2>4. last \in SeenWeeks(s, b) /\ \A w \in SeenWeeks(s, b) : last >= w
    <3>1. \E w \in SeenWeeks(s, b) : \A v \in SeenWeeks(s, b) : w >= v
      BY <2>1, <2>2
    <3> QED BY <3>1, <1>2
  <2>6. WholeWeight(b) = g[last]
    BY <1>1, Zenon DEF WholeWeight, IsChain, Earned
  <2> HIDE DEF first, last, k
  <2>5. last = k
    <3>1. last \in Nat /\ k \in Nat /\ last <= k /\ last >= k
      BY <2>1, <2>2, <2>4
    <3> QED BY <3>1
  <2>7. first \in Nat /\ last \in Nat /\ first <= last
    BY <2>1, <2>3, <2>4
  <2>8. PICK f \in [first..k -> Ratios] : IsChain(f, s, b, first, k) /\ s.buckets[b].weight = f[k]
    BY <1>3, <2>3 DEF WeightIsEarned, k
  <2>9. IsChain(g, s, b, first, last)
    <3>1. \E x : IsChain(x, s, b, first, last)
      BY <2>5, <2>8
    <3> QED BY <3>1
  <2> HIDE DEF g
  <2>10. AgreeBefore(s, s, b, first, last)
    BY DEF AgreeBefore
  <2>11. f[last] = g[last]
    BY <2>5, <2>7, <2>8, <2>9, <2>10, ChainsAgree
  <2> QED BY <2>5, <2>6, <2>8, <2>11
<1> QED BY <1>2, <1>5, <1>6, <1>7

\* The ring.
Spans(n) == [end : 0..n, span : Nat, kind : Kinds]
Own(i) == activity[i].end - activity[i].span
IsBack(f, n) ==
  f = [i \in 1..n |-> LET own == activity[i].end - activity[i].span
                      IN IF i = 1 THEN own ELSE IF activity[i - 1].end < own THEN own ELSE f[i - 1]]

LEMMA BackExists == ASSUME activity \in Seq(Spans(hour)), hour \in Nat, NEW n \in Nat, n = Len(activity), n > 0 PROVE \E f : IsBack(f, n)
<1>1. \A i \in 1..n : activity[i].end \in Int /\ activity[i].span \in Int /\ Own(i) \in Int
  <2>1. \A i \in 1..n : activity[i] \in Spans(hour)
    OBVIOUS
  <2> QED BY <2>1 DEF Spans, Own
<1> DEFINE step == [p \in Nat \X Int |-> IF p[1] + 2 <= n /\ activity[p[1] + 1].end < Own(p[1] + 2) THEN Own(p[1] + 2) ELSE p[2]]
<1>2. step \in [Nat \X Int -> Int]
  <2>1. ASSUME NEW p \in Nat \X Int PROVE (IF p[1] + 2 <= n /\ activity[p[1] + 1].end < Own(p[1] + 2) THEN Own(p[1] + 2) ELSE p[2]) \in Int
    <3>1. p[1] + 2 <= n => p[1] + 2 \in 1..n
      OBVIOUS
    <3> QED BY <3>1, <1>1
  <2> QED BY <2>1
<1>3. \A i \in Nat, x \in Int : step[<<i, x>>] = IF i + 2 <= n /\ activity[i + 1].end < Own(i + 2) THEN Own(i + 2) ELSE x
  OBVIOUS
<1> HIDE DEF step
<1>4. Own(1) \in Int
  BY <1>1
<1>5. PICK g \in [0..n -> Int] : Unrolls(g, Own(1), step, n)
  BY <1>2, <1>4, Recursion
<1> DEFINE f == [i \in 1..n |-> g[i - 1]]
           k == [i \in 1..n |-> IF i = 1 THEN Own(i) ELSE IF activity[i - 1].end < Own(i) THEN Own(i) ELSE f[i - 1]]
<1>6. ASSUME NEW i \in 1..n PROVE f[i] = k[i]
  <2>1. CASE i = 1
    <3>1. f[i] = g[0] /\ 0 \in 0..n
      BY <2>1
    <3> QED BY <3>1, <2>1, <1>5 DEF Unrolls
  <2>2. CASE i # 1
    <3> DEFINE j == i - 2
    <3>1. j \in Nat /\ j + 1 \in 0..n /\ j + 1 # 0 /\ (j + 1) - 1 = j /\ j \in 0..n /\ j + 2 = i /\ j + 1 = i - 1 /\ i - 1 \in 1..n /\ i <= n
      BY <2>2
    <3>2. f[i] = g[j + 1] /\ f[i - 1] = g[j]
      BY <3>1
    <3> HIDE DEF f, j
    <3>3. g[j + 1] = step[<<j, g[j]>>]
      BY <3>1, <1>5 DEF Unrolls
    <3>4. g[j] \in Int
      BY <3>1
    <3>5. step[<<j, g[j]>>] = IF activity[i - 1].end < Own(i) THEN Own(i) ELSE g[j]
      BY <3>1, <3>4, <1>3
    <3> QED BY <3>2, <3>3, <3>5, <2>2
  <2> QED BY <2>1, <2>2
<1>7. f = k
  <2>1. k = [i \in 1..n |-> k[i]] /\ f = [i \in 1..n |-> f[i]]
    OBVIOUS
  <2> HIDE DEF k, f
  <2> QED BY <2>1, <1>6, Zenon
<1>8. IsBack(f, n)
  BY <1>7 DEF IsBack, Own
<1> QED BY <1>8

LEMMA CoverIsWhole == ASSUME activity \in Seq(Spans(hour)), hour \in Nat PROVE ActiveTimeIsWhole
<1> DEFINE n == Len(activity)
           f == CHOOSE f : IsBack(f, n)
<1> SUFFICES ASSUME NEW since \in 0..hour, Covers(since), NEW h \in since..(activity[n].end - 1)
             PROVE  \E i \in 1..n : h \in (activity[i].end - activity[i].span)..(activity[i].end - 1)
  BY DEF ActiveTimeIsWhole
<1>1. n \in Nat /\ n > 0 /\ \A i \in 1..n : activity[i].end \in Int /\ activity[i].span \in Int /\ Own(i) \in Int
  <2>1. \A i \in 1..n : activity[i] \in Spans(hour)
    OBVIOUS
  <2> QED BY <2>1 DEF Spans, Own, Covers
<1>2. IsBack(f, n)
  <2>1. \E g : IsBack(g, n)
    BY <1>1, BackExists
  <2> QED BY <2>1
<1>3. CoveredFrom = f[n]
  BY Zenon DEF CoveredFrom, IsBack
<1> HIDE DEF f
<1> DEFINE Found(m) == \E i \in 1..m : h \in Own(i)..(activity[i].end - 1)
           T == {m \in 1..n : f[m] <= h /\ h <= activity[m].end - 1 /\ ~Found(m)}
<1>14. \A m \in 1..n : f[m] = IF m = 1 THEN Own(m) ELSE IF activity[m - 1].end < Own(m) THEN Own(m) ELSE f[m - 1]
  BY <1>2, Zenon DEF IsBack, Own
<1>15. f[n] \in Int
  <2> DEFINE U == {m \in 1..n : f[m] \notin Int}
  <2> SUFFICES ASSUME U # {} PROVE FALSE
    BY <1>1
  <2>1. PICK m \in U : \A y \in U : m <= y
    <3>1. U \subseteq Nat
      OBVIOUS
    <3> HIDE DEF U
    <3> QED BY <3>1, LeastNat
  <2>2. m \in 1..n /\ f[m] \notin Int
    OBVIOUS
  <2>3. m # 1 /\ f[m] = f[m - 1]
    BY <1>1, <1>14, <2>2
  <2>4. m - 1 \in 1..n /\ ~(m <= m - 1)
    BY <2>2, <2>3
  <2>5. m - 1 \in U
    BY <2>2, <2>3, <2>4
  <2> HIDE DEF U
  <2> QED BY <2>1, <2>4, <2>5
<1>4. h \in Int /\ f[n] <= h /\ h <= activity[n].end - 1 /\ n \in 1..n
  <2>1. since \in Int /\ since <= h /\ h \in Int /\ h <= activity[n].end - 1 /\ n \in 1..n
    BY <1>1
  <2>2. f[n] <= since
    BY <1>3 DEF Covers
  <2> QED BY <2>1, <2>2, <1>15
<1> SUFFICES ASSUME T # {} PROVE FALSE
  BY <1>4 DEF Own
<1>5. PICK m \in T : \A y \in T : m <= y
  <2>1. T \subseteq Nat
    OBVIOUS
  <2> HIDE DEF T
  <2> QED BY <2>1, LeastNat
<1>6. m \in 1..n /\ f[m] <= h /\ h <= activity[m].end - 1 /\ ~Found(m)
  OBVIOUS
<1>7. f[m] = IF m = 1 THEN Own(m) ELSE IF activity[m - 1].end < Own(m) THEN Own(m) ELSE f[m - 1]
  BY <1>6, <1>14
<1>8. h < Own(m)
  BY <1>1, <1>4, <1>6
<1>9. m # 1 /\ ~(activity[m - 1].end < Own(m)) /\ f[m] = f[m - 1]
  <2>1. f[m] # Own(m)
    <3> SUFFICES ASSUME f[m] = Own(m) PROVE FALSE
      OBVIOUS
    <3>1. Own(m) <= h /\ Own(m) \in Int
      BY <1>1, <1>6
    <3> QED BY <3>1, <1>4, <1>8
  <2> QED BY <1>7, <2>1
<1>10. m - 1 \in 1..n /\ ~(m <= m - 1)
  BY <1>6, <1>9
<1>11. f[m - 1] <= h /\ h <= activity[m - 1].end - 1
  <2>1. f[m - 1] <= h
    BY <1>6, <1>9
  <2>2. Own(m) \in Int /\ activity[m - 1].end \in Int /\ Own(m) <= activity[m - 1].end
    <3>1. Own(m) \in Int /\ activity[m - 1].end \in Int /\ ~(activity[m - 1].end < Own(m))
      BY <1>1, <1>6, <1>9, <1>10, Zenon
    <3> HIDE DEF Own
    <3> QED BY <3>1
  <2>3. h <= activity[m - 1].end - 1
    <3> HIDE DEF Own
    <3> QED BY <2>2, <1>4, <1>8
  <2> QED BY <2>1, <2>3
<1>12. ~Found(m - 1)
  BY <1>6, <1>10
<1>13. m - 1 \in T
  BY <1>10, <1>11, <1>12
<1> HIDE DEF T
<1> QED BY <1>5, <1>10, <1>13

\* The types, long gaps or not.
LEMMA AccumulatedType ==
  ASSUME NEW s \in StateType, NEW hours \in SUBSET Hours, NEW kind \in {"active", "idle"}
  PROVE  Accumulated(s, hours, kind) \in StateType
<1> DEFINE g == CHOOSE g : IsSlicing(g, s, hours, kind)
<1>1. IsSlicing(g, s, hours, kind)
  <2>1. \E f : IsSlicing(f, s, hours, kind)
    BY SlicingExists
  <2> QED BY <2>1
<1>2. Accumulated(s, hours, kind) = g[MaxHour]
  BY Zenon DEF Accumulated, IsSlicing
<1>3. MaxHour \in Nat
  BY ProfileAssumption
<1> HIDE DEF g
<1> DEFINE T == {i \in 0..MaxHour : g[i] \notin StateType}
<1> SUFFICES ASSUME T # {} PROVE FALSE
  BY <1>2, <1>3
<1>4. PICK i \in T : \A y \in T : i <= y
  <2>1. T \subseteq Nat
    BY <1>3
  <2> HIDE DEF T
  <2> QED BY <2>1, LeastNat
<1>5. i \in 0..MaxHour /\ g[i] \notin StateType
  OBVIOUS
<1>6. g[i] = IF i = 0 THEN s ELSE IF i - 1 \in hours THEN Slice(g[i - 1], i - 1, kind) ELSE g[i - 1]
  BY <1>1, <1>5, Zenon DEF IsSlicing
<1>7. i # 0
  BY <1>5, <1>6
<1>8. i - 1 \in 0..MaxHour /\ ~(i <= i - 1)
  BY <1>3, <1>5, <1>7
<1>9. i - 1 \notin T
  <2> HIDE DEF T
  <2> QED BY <1>4, <1>8
<1>10. g[i - 1] \in StateType
  BY <1>8, <1>9
<1>11. i - 1 \in hours => Slice(g[i - 1], i - 1, kind) \in StateType
  BY <1>10, SliceType
<1> QED BY <1>5, <1>6, <1>7, <1>10, <1>11

ReadingTyped(a) ==
  /\ a \in Readings /\ a.t <= hour
  /\ a.resetsAt # NoWindow => a.resetsAt > a.t /\ a.resetsAt <= a.t + WindowSpan
ProfileTypes ==
  /\ AccountOK /\ profile \in StateType /\ profileFile \in StateType
  /\ lastSample # NoReading => ReadingTyped(lastSample)
  /\ savedAt \in -1..hour /\ activity \in Seq(Spans(hour))

LEMMA CreditedType ==
  ASSUME AccountOK, NEW a, ReadingTyped(a)
  PROVE  Credited(a, ReadingNow) \in SUBSET Hours /\ Classified(a, ReadingNow) \in Kinds
<1> DEFINE b == ReadingNow
<1>1. /\ hour \in Nat /\ hour <= MaxHour /\ MaxHour \in Nat /\ WindowSpan \in Nat /\ NoWindow \notin Int
      /\ a.t \in Nat /\ a.t <= hour /\ (a.resetsAt = NoWindow \/ a.resetsAt \in Nat)
  BY ProfileAssumption DEF AccountOK, ReadingTyped, Readings
<1>2. b.t = hour /\ b.resetsAt = resetsAt
  BY DEF ReadingNow
<1>3. resetsAt = NoWindow \/ (resetsAt \in Nat /\ resetsAt <= hour + WindowSpan)
  BY DEF AccountOK
<1>4. Classified(a, b) \in Kinds
  BY DEF Classified, Kinds
<1> DEFINE from == IF a.resetsAt = NoWindow \/ a.resetsAt < a.t THEN a.t ELSE a.resetsAt
           opened == b.resetsAt - WindowSpan
           to == IF b.resetsAt = NoWindow \/ opened > b.t THEN b.t ELSE opened
<1>5. from \in Nat
  BY <1>1
<1>6. to \in Int /\ to <= hour
  BY <1>1, <1>2, <1>3
<1>7. IdleSpan(a, b) = from..(to - 1)
  BY DEF IdleSpan
<1> HIDE DEF from, to, b
<1>8. \A x \in Nat, y \in Int : y <= hour => x..(y - 1) \subseteq Hours
  BY <1>1 DEF Hours
<1>9. IdleSpan(a, b) \subseteq Hours
  BY <1>5, <1>6, <1>7, <1>8
<1>10. a.t..(b.t - 1) \subseteq Hours
  <2>1. a.t \in Nat /\ b.t \in Int /\ b.t <= hour
    BY <1>1, <1>2
  <2> QED BY <2>1, <1>8
<1>11. Credited(a, b) \subseteq Hours
  BY <1>9, <1>10 DEF Credited
<1> QED BY <1>4, <1>11 DEF b

LEMMA LearnedType == ASSUME ProfileTypes PROVE Learned \in StateType
<1>1. CASE Gap = 0
  BY <1>1 DEF Learned, ProfileTypes
<1>2. CASE Gap # 0
  <2> DEFINE kind == IF Classified(lastSample, ReadingNow) = "active" THEN "active" ELSE "idle"
             hours == Credited(lastSample, ReadingNow)
  <2>1. lastSample # NoReading
    BY <1>2 DEF Gap
  <2>2. hours \in SUBSET Hours
    BY <2>1, CreditedType DEF ProfileTypes
  <2>3. kind \in {"active", "idle"}
    OBVIOUS
  <2>4. Learned = Accumulated(profile, hours, kind)
    BY <1>2 DEF Learned
  <2> HIDE DEF kind, hours
  <2> QED BY <2>2, <2>3, <2>4, AccumulatedType DEF ProfileTypes
<1> QED BY <1>1, <1>2

LEMMA RecentType == ASSUME NEW n \in Nat, NEW ring \in Seq(Spans(n)) PROVE Recent(ring) \in Seq(Spans(n))
<1> DEFINE I == {i \in 1..Len(ring) : ring[i].end <= hour - RingLength}
<1>1. Len(ring) \in Nat /\ IsFiniteSet(1..Len(ring)) /\ Cardinality(1..Len(ring)) = Len(ring)
  <2>1. Len(ring) \in Nat
    OBVIOUS
  <2>2. \A m \in Nat : IsFiniteSet(1..m) /\ Cardinality(1..m) = m
    BY FS_Interval
  <2> QED BY <2>1, <2>2
<1>2. Cardinality(I) \in Nat /\ Cardinality(I) <= Len(ring)
  <2>1. I \subseteq 1..Len(ring)
    OBVIOUS
  <2> HIDE DEF I
  <2> QED BY <1>1, <2>1, FS_Subset, FS_CardinalityType
<1> DEFINE c == Cardinality(I)
<1>3. Recent(ring) = SubSeq(ring, c + 1, Len(ring))
  BY DEF Recent
<1> HIDE DEF I, c
<1>4. \A m \in Nat : m <= Len(ring) => SubSeq(ring, m + 1, Len(ring)) \in Seq(Spans(n))
  <2> SUFFICES ASSUME NEW m \in Nat, m <= Len(ring) PROVE SubSeq(ring, m + 1, Len(ring)) \in Seq(Spans(n))
    OBVIOUS
  <2> QED BY <1>1
<1> QED BY <1>2, <1>3, <1>4 DEF c

LEMMA ReadingTypes == ASSUME ProfileTypes, NEW ok \in BOOLEAN, RecordReading(ok) PROVE ProfileTypes'
<1>1. hour' = hour /\ worked' = worked /\ unseen' = unseen /\ resetsAt' = resetsAt /\ utilization' = utilization
  BY DEF RecordReading, accountVars
<1>2. AccountOK'
  BY <1>1 DEF ProfileTypes, AccountOK
<1>3. profile' \in StateType /\ profileFile' \in StateType
  BY LearnedType DEF RecordReading, ProfileTypes
<1>4. hour \in Nat /\ hour <= MaxHour
  BY ProfileAssumption DEF ProfileTypes, AccountOK
<1>5. lastSample'.t = hour /\ lastSample'.utilization = utilization /\ lastSample'.resetsAt = resetsAt /\ lastSample' \in Readings
  BY <1>4 DEF RecordReading, ReadingNow, ProfileTypes, AccountOK, Readings
<1>6. (lastSample # NoReading => ReadingTyped(lastSample))'
  BY <1>1, <1>4, <1>5 DEF ProfileTypes, AccountOK, ReadingTyped
<1>7. savedAt' \in -1..hour'
  BY <1>1, <1>4 DEF RecordReading, ProfileTypes
<1>8. activity' \in Seq(Spans(hour))
  <2>1. CASE Gap = 0
    BY <2>1 DEF RecordReading, ProfileTypes
  <2>2. CASE Gap # 0
    <3> DEFINE entry == [end |-> hour, span |-> Gap, kind |-> Classified(lastSample, ReadingNow)]
    <3>1. lastSample # NoReading /\ Gap \in Nat
      BY <2>2, <1>4 DEF Gap, ProfileTypes, ReadingTyped, Readings
    <3>2. Classified(lastSample, ReadingNow) \in Kinds
      BY <3>1, CreditedType DEF ProfileTypes
    <3>3. entry \in Spans(hour)
      BY <3>1, <3>2, <1>4 DEF Spans
    <3>4. activity' = Recent(Append(activity, entry))
      BY <2>2 DEF RecordReading
    <3> HIDE DEF entry
    <3>5. Append(activity, entry) \in Seq(Spans(hour))
      BY <3>3 DEF ProfileTypes
    <3> QED BY <3>4, <3>5, <1>4, RecentType
  <2> QED BY <2>1, <2>2
<1> QED BY <1>1, <1>2, <1>3, <1>6, <1>7, <1>8 DEF ProfileTypes

LEMMA PassTypes == ASSUME ProfileTypes, NEW points \in Points, PassHour(points) PROVE ProfileTypes'
<1>1. AccountOK'
  BY PassKeepsAccount DEF ProfileTypes
<1>2. hour' = hour + 1 /\ hour \in Nat /\ UNCHANGED <<profile, profileFile, lastSample, savedAt, activity>>
  BY ProfileAssumption DEF PassHour, ProfileTypes, AccountOK
<1>3. (lastSample # NoReading => ReadingTyped(lastSample))'
  BY <1>2 DEF ProfileTypes, ReadingTyped, Readings
<1>4. savedAt' \in -1..hour'
  BY <1>2 DEF ProfileTypes
<1>5. activity' \in Seq(Spans(hour + 1))
  <2>1. Spans(hour) \subseteq Spans(hour + 1)
    BY <1>2 DEF Spans
  <2>2. activity \in Seq(Spans(hour))
    BY DEF ProfileTypes
  <2>3. activity \in Seq(Spans(hour + 1))
    <3>1. \A S, T : S \subseteq T => \A q \in Seq(S) : q \in Seq(T)
      OBVIOUS
    <3> QED BY <2>1, <2>2, <3>1
  <2> QED BY <2>3, <1>2
<1> QED BY <1>1, <1>2, <1>3, <1>4, <1>5 DEF ProfileTypes

LEMMA ProfileIsTyped == ProfileSpec => []ProfileTypes
<1>1. ASSUME ProfileInit PROVE ProfileTypes
  <2>1. ProfileInv
    BY <1>1, ProfileStart
  <2> QED BY <1>1, <2>1, EmptyIsHistory DEF ProfileInv, IsHistory, ProfileTypes, ProfileInit
<1>2. ASSUME ProfileTypes, [ProfileNext]_profileVars PROVE ProfileTypes'
  <2>1. ASSUME NEW points \in Points, PassHour(points) PROVE ProfileTypes'
    BY <1>2, <2>1, PassTypes
  <2>2. ASSUME NEW b \in BOOLEAN, RecordReading(b) PROVE ProfileTypes'
    BY <1>2, <2>2, ReadingTypes
  <2>3. CASE ProfileRestart
    <3>1. hour \in Nat /\ hour' = hour
      BY <1>2, <2>3, ProfileAssumption DEF ProfileTypes, AccountOK, ProfileRestart, accountVars
    <3> QED BY <1>2, <2>3, <3>1 DEF ProfileTypes, AccountOK, ProfileRestart, accountVars
  <2>4. CASE UNCHANGED profileVars
    BY <1>2, <2>4 DEF ProfileTypes, AccountOK, ReadingTyped, profileVars, accountVars
  <2> QED BY <1>2, <2>1, <2>2, <2>3, <2>4 DEF ProfileNext
<1> QED BY <1>1, <1>2, PTL DEF ProfileSpec

\* The recorder keeps its state in its type, however far apart two readings
\* are and however the saves and restarts fall (usage-history.ts recordTick).
THEOREM ProfileTypeCorrect == ProfileSpec => []ProfileTypeOK
<1>1. ASSUME ProfileTypes PROVE ProfileTypeOK
  <2>1. hour \in 0..MaxHour /\ (resetsAt = NoWindow \/ (resetsAt > hour /\ resetsAt <= hour + WindowSpan))
    BY <1>1 DEF ProfileTypes, AccountOK
  <2>2. DOMAIN profile.buckets = 0..(Buckets - 1) /\ profile.weeks \subseteq 0..WeekOf(MaxHour)
    BY <1>1 DEF ProfileTypes, StateType, AllBuckets, AllWeeks
  <2>3. \A i \in 1..Len(activity) : activity[i].end <= hour /\ activity[i].kind \in Kinds
    <3>1. \A i \in 1..Len(activity) : activity[i] \in Spans(hour)
      BY <1>1 DEF ProfileTypes
    <3> QED BY <3>1 DEF Spans
  <2> QED BY <1>1, <2>1, <2>2, <2>3 DEF ProfileTypes, AccountOK, ProfileTypeOK, ReadingTyped
<1> QED BY <1>1, ProfileIsTyped, PTL

\* However far apart two readings are and however saves fail and restarts fall,
\* the profile is that of a history in which no unit is told twice; a unit
\* credited as active saw more than the epsilon spent, one credited as idle did
\* not, but for a window that nobody saw; and active time is given only for a
\* span watched throughout (usage-history.ts accumulate, foldBucket,
\* classifyInterval, provableIdleSpan, observedActiveMs).
THEOREM ProfileCorrect == ProfileSpec => []ProfileIsLearned
<1>1. ProfileInit => ProfileInv
  BY ProfileStart
<1>2. ASSUME ProfileInv, [ProfileNext]_profileVars PROVE ProfileInv'
  <2>1. ASSUME NEW points \in Points, PassHour(points) PROVE ProfileInv'
    BY <1>2, <2>1, PassKeeps
  <2>2. ASSUME NEW b \in BOOLEAN, RecordReading(b) PROVE ProfileInv'
    BY <1>2, <2>2, ProfileReadingKeeps
  <2>3. CASE ProfileRestart
    BY <1>2, <2>3, ProfileRestartKeeps
  <2>4. CASE UNCHANGED profileVars
    BY <1>2, <2>4 DEF ProfileInv, AccountOK, TellsTrue, ReadingIsPast, ReadingTells, KnownUntil, CreditFits, InOld, InNew, profileVars, accountVars
  <2> QED BY <1>2, <2>1, <2>2, <2>3, <2>4 DEF ProfileNext
<1>3. ProfileInv => FoldIsHistory /\ CreditIsTrue
  BY HistoryIsFolded DEF ProfileInv, CreditFits, CreditIsTrue
<1>4. ProfileTypes => ActiveTimeIsWhole
  BY CoverIsWhole, ProfileAssumption DEF ProfileTypes, AccountOK
<1>5. ProfileSpec => []ProfileInv
  BY <1>1, <1>2, PTL DEF ProfileSpec
<1> QED BY <1>3, <1>4, <1>5, ProfileIsTyped, PTL DEF ProfileIsLearned
=============================================================================
