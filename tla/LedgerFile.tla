----------------------------- MODULE LedgerFile -----------------------------
(***************************************************************************)
(* The ledger's file (server/lib/usage-ledger.ts): a line appended per     *)
(* tick, the rotation to the newest half, the backward read in chunks and  *)
(* the claim about where recording began.  Line n is stamped n and covers  *)
(* (n - 1, n]; a byte is the line it belongs to and its place in it.       *)
(***************************************************************************)
EXTENDS Naturals, Sequences, SequencesExt

CONSTANTS MaxBytes, ChunkBytes, LineLengths, MaxLines
ASSUME FileBounds == /\ MaxBytes \in Nat \ {0} /\ ChunkBytes \in Nat \ {0} /\ MaxLines \in Nat
                     /\ LineLengths \subseteq Nat \ {0}
                     \* A line is far shorter than the half a rotation keeps.
                     /\ \A len \in LineLengths : 2 * (len + 1) <= MaxBytes \div 2

VARIABLES
  ledger,   \* the file's bytes
  lengths,  \* the length of each line appended so far
  broken    \* a write was cut short, by a crash or a full disk

fileVars == <<ledger, lengths, broken>>

Newline == <<0, 0>>
LineBytes(n) == [j \in 1..lengths[n] |-> <<n, j>>]
Appended == Len(lengths)

FileTypeOK ==
  /\ lengths \in Seq(LineLengths) /\ Len(lengths) <= MaxLines /\ broken \in BOOLEAN
  /\ ledger \in Seq({Newline} \cup {<<n, j>> : n \in 1..MaxLines, j \in 1..(MaxBytes \div 4)})
  \* A tick leaves no more than the ceiling.
  /\ ~broken => Len(ledger) <= MaxBytes

FileInit == ledger = <<>> /\ lengths = <<>> /\ broken = FALSE

-----------------------------------------------------------------------------
(* rotateLedgerIfNeeded: the newest half, from its first newline on.         *)
Keep == MaxBytes \div 2

\* Mutant: the half is read from the file's start.
OldestHalf(bytes) == IF Len(bytes) <= MaxBytes THEN bytes ELSE SubSeq(bytes, 1, Keep)
Rotated(bytes) ==
  IF Len(bytes) <= MaxBytes THEN bytes
  ELSE LET half == SubSeq(bytes, Len(bytes) - Keep + 1, Len(bytes))
           ends == {i \in 1..Keep : half[i] = Newline}
           first == CHOOSE i \in ends : \A k \in ends : i <= k
       IN IF ends = {} THEN bytes ELSE SubSeq(half, first + 1, Keep)

\* recordLedgerTick: append, then rotate.
AppendLine ==
  /\ Appended < MaxLines
  /\ \E len \in LineLengths :
       /\ lengths' = Append(lengths, len)
       /\ ledger' = Rotated(ledger \o [j \in 1..len |-> <<Appended + 1, j>>] \o <<Newline>>)
  /\ UNCHANGED broken

\* The append stops half way: the next line continues the fragment.
CutAppend ==
  /\ Appended < MaxLines /\ ~broken /\ broken' = TRUE
  /\ \E len \in LineLengths : \E part \in 0..len :
       /\ lengths' = Append(lengths, len)
       /\ ledger' = ledger \o [j \in 1..part |-> <<Appended + 1, j>>]

FileNext == AppendLine \/ CutAppend

FileSpec == FileInit /\ [][FileNext]_fileVars

-----------------------------------------------------------------------------
(* parseLedgerLine: a line glued to a fragment, or cut, is junk.             *)
ParsesAs(n, bytes) == bytes = LineBytes(n)

Ascending(numbers, top) == SelectSeq([i \in 1..top |-> i], LAMBDA i : i \in numbers)
Newlines(bytes) == Ascending({i \in 1..Len(bytes) : bytes[i] = Newline}, Len(bytes))

\* What stands between the newlines, and what follows the last if anything does.
Segments(bytes) ==
  LET nls  == Newlines(bytes)
      from(k) == IF k = 1 THEN 1 ELSE nls[k - 1] + 1
      rest == SubSeq(bytes, from(Len(nls) + 1), Len(bytes))
  IN [k \in 1..Len(nls) |-> SubSeq(bytes, from(k), nls[k] - 1)] \o (IF rest = <<>> THEN <<>> ELSE <<rest>>)

\* The lines, newest first, of a chunk's segments down to the first stamped before `since`.
LinesOf(segments, since) ==
  FoldLeft(LAMBDA acc, segment :
             LET parsed == {n \in 1..Appended : ParsesAs(n, segment)}
             IN IF acc.done \/ parsed = {} THEN acc
                ELSE LET n == CHOOSE n \in parsed : TRUE
                     IN IF n < since THEN [acc EXCEPT !.done = TRUE]
                        ELSE [acc EXCEPT !.lines = Append(@, n)],
           [lines |-> <<>>, done |-> FALSE], Reverse(segments))

\* The part of a chunk that the one before it may continue.  Mutant: none.
CarriesNone(start, segments) == FALSE
Carries(start, segments) == start > 0 /\ segments # <<>>

(* readLedgerSince: backwards, in chunks.                                    *)
ReadSince(since) ==
  LET chunks == (Len(ledger) + ChunkBytes - 1) \div ChunkBytes
      step(acc, k) ==
        LET end      == Len(ledger) - (k - 1) * ChunkBytes
            start    == IF end > ChunkBytes THEN end - ChunkBytes ELSE 0
            segments == Segments(SubSeq(ledger, start + 1, end) \o acc.carry)
            carried  == Carries(start, segments)
            read     == LinesOf(IF carried THEN Tail(segments) ELSE segments, since)
        IN IF acc.done THEN acc
           ELSE [lines |-> acc.lines \o read.lines, done |-> read.done,
                 carry |-> IF carried THEN Head(segments) ELSE <<>>]
  IN Reverse(FoldLeft(step, [lines |-> <<>>, done |-> FALSE, carry |-> <<>>], [k \in 1..chunks |-> k]).lines)

-----------------------------------------------------------------------------
\* Line n stands whole between line ends somewhere in the file.
StandsWhole(n) ==
  \E i \in 1..Len(ledger) :
    /\ i + lengths[n] - 1 <= Len(ledger) /\ SubSeq(ledger, i, i + lengths[n] - 1) = LineBytes(n)
    /\ i = 1 \/ ledger[i - 1] = Newline
    /\ i + lengths[n] > Len(ledger) \/ ledger[i + lengths[n]] = Newline

Standing == {n \in 1..Appended : StandsWhole(n)}

(* However lines fall across chunks, a read returns every line that is      *)
(* whole in the file and as new as asked for, once, oldest first            *)
(* (readLedgerSince).                                                       *)
ReadsAllSince ==
  \A since \in 1..MaxLines :
    ReadSince(since) = Ascending(Standing \cap (since..Appended), Appended)

(* A rotation throws away only the oldest lines: what is readable after it  *)
(* is the newest of what was, and the line just written is among it.        *)
NewestSurvive ==
  [][~broken' => /\ \A n \in Standing' : \A m \in Standing : n < m => m \in Standing'
                 /\ Appended' \in Standing']_fileVars

(* No line is lost but by age: every read is whole and every cut is the     *)
(* oldest.                                                                  *)
LinesSurvive == []ReadsAllSince /\ NewestSurvive
=============================================================================
