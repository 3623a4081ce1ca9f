---------------------------- MODULE RecordCache -----------------------------
(***************************************************************************)
(* The newest record of one kind in a growing transcript                   *)
(* (server/lib/record-cache.ts).  A poll reads the last Window bytes; when *)
(* they hold no such record, the cache answers if what it has searched     *)
(* runs into that window, and a search of the whole file does otherwise.   *)
(* A line is two bytes, of which a poll may see the first alone; `hits`    *)
(* are the whole lines that are such a record, with the marker in their    *)
(* second byte.                                                            *)
(***************************************************************************)
EXTENDS Naturals, FiniteSets

CONSTANTS Window, Chunk, Slack, MaxFile, NothingRead
\* A record fits in the slack, as RECORD_SLACK is meant to have it.
ASSUME CacheBounds == Window \in Nat \ {0} /\ Chunk \in Nat \ {0} /\ Slack \in Nat \ {0, 1} /\ MaxFile \in Nat

VARIABLES
  size,   \* bytes in the transcript
  hits,   \* its whole lines that are a record of the kind
  remembered,  \* what the cache remembers: the answer, and the size it was found at
  cut,    \* the file was cut since the last poll
  answer, \* the last poll's answer; 0 stands for null
  missed  \* history: what is remembered left out a record, see MissesOne and PollScanFails

cacheVars == <<size, hits, remembered, cut, answer, missed>>

LinesIn(bytes) == 1 .. (bytes \div 2)
Newest(set) == IF set = {} THEN 0 ELSE CHOOSE h \in set : \A g \in set : g <= h

CacheTypeOK ==
  /\ size \in 0..MaxFile /\ hits \subseteq LinesIn(MaxFile)
  /\ answer \in 0..MaxFile /\ cut \in BOOLEAN /\ missed \in BOOLEAN
  /\ remembered # NothingRead => remembered.size \in 0..MaxFile /\ remembered.value \in {0} \cup LinesIn(remembered.size)

CacheInit == size = 0 /\ hits = {} /\ remembered = NothingRead /\ cut = FALSE /\ answer = 0 /\ missed = FALSE

-----------------------------------------------------------------------------
\* Bytes are appended, any number between two polls; a file is only replaced
\* by one shorter than the last poll saw, and polled before that grows.
GrowByte(isHit) ==
  /\ size + 1 <= MaxFile /\ size' = size + 1 /\ ~cut
  /\ hits' = IF isHit /\ size' % 2 = 0 THEN hits \cup {size' \div 2} ELSE hits
  /\ UNCHANGED <<remembered, cut, answer, missed>>

TruncateFile(bytes) ==
  /\ bytes < size /\ cut' = TRUE
  /\ remembered # NothingRead => bytes < remembered.size
  /\ size' = bytes /\ hits' \in SUBSET LinesIn(bytes)
  /\ UNCHANGED <<remembered, answer, missed>>

\* Of a file longer than the window the tail drops its first line, whole or not.
TailStart == IF size > Window THEN size - Window ELSE 0
TailHits == {h \in hits : TailStart > 0 => 2 * (h - 1) > TailStart}

\* Mutant: a shrunk file keeps its answer.
KeptAlways == remembered # NothingRead
Kept == remembered # NothingRead /\ size >= remembered.size

Joins == remembered.size >= TailStart

\* scanBack: chunks below `end`, newest first, each read on into the slack, since
\* a record may begin below the window the caller searched and end in it.
\* Mutant: chunks do not overlap.
EndsAtChunk(end) == end
ReadEnd(end) == IF end + Slack < size THEN end + Slack ELSE size

ScanBack ==
  LET Marked(start, end) == {h \in hits : 2 * h - 1 >= start /\ 2 * h - 1 < ReadEnd(end)}
      Start(end) == IF end > Chunk THEN end - Chunk ELSE 0
      scan[end \in 0..MaxFile] ==
        IF end = 0 THEN 0
        ELSE IF Marked(Start(end), end) # {} THEN Newest(Marked(Start(end), end))
        ELSE scan[Start(end)]
  IN scan[TailStart]

\* The line the last poll saw no byte of, or half of, is the one this poll's
\* window begins in: it was searched by neither, and nothing looks back for it.
LineAt(bytes) == bytes \div 2 + 1
MissesOne ==
  /\ TailStart > 0 /\ 2 * (LineAt(remembered.size) - 1) <= TailStart
  /\ LineAt(remembered.size) \in hits

\* resolve().
Resolved ==
  IF TailHits # {} THEN Newest(TailHits)
  ELSE IF Kept /\ Joins THEN remembered.value
  ELSE IF TailStart = 0 THEN 0
  ELSE ScanBack

PollTail ==
  /\ answer' = Resolved
  /\ remembered' = [value |-> Resolved, size |-> size]
  /\ missed' = (TailHits = {} /\ Kept /\ Joins /\ (missed \/ MissesOne))
  /\ cut' = FALSE /\ UNCHANGED <<size, hits>>

Searches == TailHits = {} /\ ~(Kept /\ Joins) /\ TailStart > 0

\* The file cannot be opened now: what was known stands, and nothing is
\* remembered.
PollUnreadable ==
  /\ Searches
  /\ answer' = IF Kept THEN remembered.value ELSE 0
  /\ remembered' = IF Kept THEN remembered ELSE NothingRead
  /\ missed' = (Kept /\ missed)
  /\ cut' = FALSE /\ UNCHANGED <<size, hits>>

\* A read of the search fails: a chunk's ends it with null, a record's passes the
\* record over.  What it came to is remembered all the same.
PollScanFails(found) ==
  /\ Searches
  /\ answer' = found /\ remembered' = [value |-> found, size |-> size]
  /\ missed' = TRUE
  /\ cut' = FALSE /\ UNCHANGED <<size, hits>>

CacheNext ==
  \/ \E isHit \in BOOLEAN : GrowByte(isHit)
  \/ \E bytes \in 0..MaxFile : TruncateFile(bytes)
  \/ PollTail \/ PollUnreadable \/ \E found \in {0} \cup hits : PollScanFails(found)

CacheSpec == CacheInit /\ [][CacheNext]_cacheVars

-----------------------------------------------------------------------------
(* What the cache remembers is the newest record of the bytes it covered,   *)
(* however far the record sank below the window and however much was        *)
(* appended, as long as no window began in the very line the poll before    *)
(* ended at, and no read of a search failed, with nothing found since.      *)
RemembersNewest ==
  remembered # NothingRead /\ size >= remembered.size /\ ~missed =>
    remembered.value = Newest({h \in hits : 2 * h <= remembered.size})
=============================================================================
