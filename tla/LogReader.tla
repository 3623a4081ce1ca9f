----------------------------- MODULE LogReader ------------------------------
(***************************************************************************)
(* The incremental reader of the run log (server/lib/routine-log.ts        *)
(* createLogReader, rotateIfLarge): per file it keeps the inode and the    *)
(* offset behind the last complete line, reads only what was appended, and *)
(* folds it into state keyed by run, where reading twice changes nothing.  *)
(* A line is abstracted to a number and a fold to the set of lines in it;  *)
(* offsets count complete lines, and `torn` is a last line whose newline   *)
(* has not arrived.                                                        *)
(***************************************************************************)
EXTENDS Naturals, Sequences, FiniteSets

CONSTANTS
  CurrentLog,   \* <machine>.jsonl
  RotatedLogs,   \* the names a rotation may give
  Absent, MaxLogLines, MaxInodes

ASSUME ReaderNames == CurrentLog \notin RotatedLogs
ASSUME ReaderBounds == MaxLogLines \in Nat /\ MaxInodes \in Nat
ASSUME AbsentAssumption == \A i \in 1..MaxInodes, o \in 0..MaxLogLines : [ino |-> i, offset |-> o] # Absent

VARIABLES
  files,   \* each name's file: inode, lines and whether its last line is torn
  known,   \* the reader's inode and offset for each name
  folded,  \* the lines in the fold
  written, \* lines written so far
  inodes,  \* inodes used so far
  shrunk,  \* a file was emptied and the reader has not looked since
  fresh    \* nothing changed since the last read

readerVars == <<files, known, folded, written, inodes, shrunk, fresh>>

Names == RotatedLogs \cup {CurrentLog}
IsFile(n) == files[n] # Absent
LogLinesOf(f) == {f.lines[i] : i \in DOMAIN f.lines}

ReaderTypeOK ==
  /\ \A n \in Names : IsFile(n) =>
       files[n].ino \in 1..MaxInodes /\ files[n].torn \in BOOLEAN /\ LogLinesOf(files[n]) \subseteq 1..MaxLogLines
  /\ \A n \in Names : known[n] # Absent => known[n].ino \in 1..MaxInodes /\ known[n].offset \in 0..MaxLogLines
  /\ folded \subseteq 1..MaxLogLines /\ written \in 0..MaxLogLines /\ inodes \in 0..MaxInodes
  /\ shrunk \in BOOLEAN /\ fresh \in BOOLEAN
  \* An offset never points behind the complete lines of its file.
  /\ \A n, m \in Names : (IsFile(n) /\ known[m] # Absent /\ known[m].ino = files[n].ino)
       => shrunk \/ known[m].offset <= Len(files[n].lines)

ReaderInit ==
  /\ files = [n \in Names |-> Absent] /\ known = [n \in Names |-> Absent]
  /\ folded = {} /\ written = 0 /\ inodes = 0 /\ shrunk = FALSE /\ fresh = FALSE

-----------------------------------------------------------------------------
(* The log's writers.  An append is one write, of which a reader may see a  *)
(* part first.  Inodes are not reused between two reads, and a file a user   *)
(* empties was not renamed since the last read, and is read again before it  *)
(* grows or is rotated.                                                     *)
WriteLine(torn) ==
  /\ written < MaxLogLines /\ ~shrunk
  /\ IF IsFile(CurrentLog)
     THEN /\ ~files[CurrentLog].torn
          /\ files' = [files EXCEPT ![CurrentLog].torn = torn,
                                    ![CurrentLog].lines = IF torn THEN @ ELSE Append(@, written + 1)]
          /\ UNCHANGED inodes
     ELSE /\ inodes < MaxInodes /\ inodes' = inodes + 1
          /\ files' = [files EXCEPT ![CurrentLog] =
               [ino |-> inodes + 1, torn |-> torn, lines |-> IF torn THEN <<>> ELSE <<written + 1>>]]
  /\ written' = IF torn THEN written ELSE written + 1
  /\ fresh' = FALSE /\ UNCHANGED <<known, folded, shrunk>>

\* The newline arrives, also when the file was renamed meanwhile.
Complete(n) ==
  /\ IsFile(n) /\ files[n].torn /\ written < MaxLogLines /\ ~shrunk
  /\ files' = [files EXCEPT ![n].torn = FALSE, ![n].lines = Append(@, written + 1)]
  /\ written' = written + 1
  /\ fresh' = FALSE /\ UNCHANGED <<known, folded, inodes, shrunk>>

\* rotateIfLarge never renames over an earlier rotation.
Rotate(n) ==
  /\ n \in RotatedLogs /\ IsFile(CurrentLog) /\ ~IsFile(n) /\ ~shrunk
  /\ files' = [files EXCEPT ![n] = files[CurrentLog], ![CurrentLog] = Absent]
  /\ fresh' = FALSE /\ UNCHANGED <<known, folded, written, inodes, shrunk>>

\* A user removes or empties a file.
RemoveFile(n) ==
  /\ IsFile(n) /\ files' = [files EXCEPT ![n] = Absent]
  /\ fresh' = FALSE /\ UNCHANGED <<known, folded, written, inodes, shrunk>>

EmptyFile(n) ==
  /\ IsFile(n) /\ files[n].lines # <<>>
  /\ \A m \in Names \ {n} : (known[m] # Absent => known[m].ino # files[n].ino)
  /\ files' = [files EXCEPT ![n].lines = <<>>, ![n].torn = FALSE]
  /\ shrunk' = TRUE
  /\ fresh' = FALSE /\ UNCHANGED <<known, folded, written, inodes>>

-----------------------------------------------------------------------------
(* sync(): where each file the reader knows is now.  A file whose inode has *)
(* another name was renamed and keeps its offset.                           *)
NameNow(n) == {m \in Names : IsFile(m) /\ files[m].ino = known[n].ino}

\* One that is gone, or shrank in place, may have taken lines with it, and the
\* fold is rebuilt.  Mutant: only a missing file is noticed.
RebuildsGone == \E n \in Names : known[n] # Absent /\ NameNow(n) = {}
Rebuilds ==
  \E n \in Names :
    /\ known[n] # Absent
    /\ NameNow(n) = {} \/ (IsFile(n) /\ files[n].ino = known[n].ino
                           /\ Len(files[n].lines) < known[n].offset)

\* The offset to read from.
OffsetOf(n) ==
  LET of == {k \in Names : known[k] # Absent /\ known[k].ino = files[n].ino}
  IN IF Rebuilds \/ of = {} THEN 0 ELSE known[CHOOSE k \in of : TRUE].offset

ReadFrom(n) == {files[n].lines[i] : i \in OffsetOf(n) + 1 .. Len(files[n].lines)}

EndOfLines(f) == Len(f.lines)

ReadLogs ==
  /\ folded' = (IF Rebuilds THEN {} ELSE folded) \cup UNION {ReadFrom(n) : n \in {m \in Names : IsFile(m)}}
  /\ known' = [n \in Names |-> IF IsFile(n) THEN [ino |-> files[n].ino, offset |-> EndOfLines(files[n])] ELSE Absent]
  /\ shrunk' = FALSE /\ fresh' = TRUE
  /\ UNCHANGED <<files, written, inodes>>

ReaderNext ==
  \/ \E torn \in BOOLEAN : WriteLine(torn)
  \/ \E n \in Names : Complete(n) \/ Rotate(n) \/ RemoveFile(n) \/ EmptyFile(n)
  \/ ReadLogs

ReaderSpec == ReaderInit /\ [][ReaderNext]_readerVars

-----------------------------------------------------------------------------
(* Reading only what was appended gives what reading everything would: after *)
(* each read the fold holds the complete lines of the files there are, no    *)
(* line lost to a rotation and none kept from a file that is gone.           *)
FoldIsWholeLog ==
  fresh => folded = UNION {LogLinesOf(files[n]) : n \in {m \in Names : IsFile(m)}}
=============================================================================
