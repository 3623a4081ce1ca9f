---------------------------- MODULE SpendLedger ----------------------------
(***************************************************************************)
(* The token ledger's recorder (server/lib/usage-ledger.ts) over one       *)
(* transcript: each tick consumes what was appended since the last one, up *)
(* to the last whole record, and counts the turns whose time falls in      *)
(* (prevT, t].  Records of one turn are adjacent copies of its usage.      *)
(* Offsets are in halves of a record, so that an end can fall inside one.  *)
(***************************************************************************)
EXTENDS Naturals, Sequences, FiniteSets

CONSTANTS MaxTime, MaxRecords, MaxSeenIds, NoTick, ClockGoesBack
ASSUME LedgerBounds == MaxTime \in Nat /\ MaxRecords \in Nat /\ MaxSeenIds \in Nat \ {0}
                     /\ ClockGoesBack \in BOOLEAN /\ NoTick \notin Nat

VARIABLES
  clock,      \* the time, in units of the tests' own
  transcript, \* its records: the turn and the time
  torn,       \* the last record is only half written
  offset,     \* the cursor: half records consumed
  seen,       \* the turns it remembers; turns are numbered as they are met
  prevTick,   \* prevTickMs, NoTick when null
  tallies,     \* history: how often this process counted each turn
  parsed      \* history: the records this process read whole, or that predate its seed

spendVars == <<clock, transcript, torn, offset, seen, prevTick, tallies, parsed>>

Turns == 1..MaxRecords
Size == 2 * Len(transcript) - (IF torn THEN 1 ELSE 0)

LedgerTypeOK ==
  /\ clock \in 0..MaxTime /\ torn \in BOOLEAN
  /\ transcript \in Seq([turn : Turns, ts : 0..MaxTime]) /\ Len(transcript) <= MaxRecords
  \* The cursor is never past the end, and remembers the newest turns only.
  /\ offset \in 0..Size /\ seen \subseteq Turns /\ Cardinality(seen) <= MaxSeenIds
  /\ prevTick \in 0..MaxTime \cup {NoTick} /\ tallies \in [Turns -> Nat] /\ parsed \subseteq Turns

LedgerInit ==
  /\ clock = 0 /\ transcript = <<>> /\ torn = FALSE /\ offset = 0 /\ seen = {} /\ prevTick = NoTick
  /\ tallies = [n \in Turns |-> 0] /\ parsed = {}

-----------------------------------------------------------------------------
(* Claude Code writes a copy of the last turn or a new one, perhaps in two  *)
(* parts.                                                                   *)
LastTurn == IF transcript = <<>> THEN 0 ELSE transcript[Len(transcript)].turn

WriteRecord ==
  /\ ~torn /\ Len(transcript) < MaxRecords
  /\ \E n \in {LastTurn, LastTurn + 1} \cap Turns : transcript' = Append(transcript, [turn |-> n, ts |-> clock])
  /\ torn' \in BOOLEAN
  /\ UNCHANGED <<clock, offset, seen, prevTick, tallies, parsed>>

FinishRecord ==
  /\ torn /\ torn' = FALSE
  /\ UNCHANGED <<clock, transcript, offset, seen, prevTick, tallies, parsed>>

PassTime ==
  /\ clock < MaxTime /\ clock' = clock + 1
  /\ UNCHANGED <<transcript, torn, offset, seen, prevTick, tallies, parsed>>

\* The system clock is set back.
SetBack ==
  /\ ClockGoesBack /\ clock > 0 /\ clock' = clock - 1
  /\ UNCHANGED <<transcript, torn, offset, seen, prevTick, tallies, parsed>>

-----------------------------------------------------------------------------
(* A tick, and the instant after it.  The first only points the cursor at   *)
(* the end.                                                                 *)
TakesTime == clock < MaxTime /\ clock' = clock + 1

SeedCursors ==
  /\ TakesTime /\ prevTick = NoTick /\ prevTick' = clock
  /\ offset' = Size /\ seen' = {} /\ parsed' = 1..Len(transcript)
  /\ UNCHANGED <<transcript, torn, tallies>>

\* The whole records between the cursor and the last newline; one the cursor
\* is inside of reads as junk.
Fresh == {i \in 1..Len(transcript) : 2 * (i - 1) >= offset /\ 2 * i <= Size}

\* Mutant: the end of what was read, whole or not.
NextAtEnd == Size
LastNewline == 2 * (Len(transcript) - (IF torn THEN 1 ELSE 0))
NextOffset == IF offset < LastNewline THEN LastNewline ELSE offset

\* A turn already counted is skipped; its id is remembered before its time is
\* looked at.  Mutant: only this tick's own turns are known.
KnownInTick(n) == FALSE
Known(n) == n \in seen

NewTurns == {transcript[i].turn : i \in Fresh} \ {n \in Turns : Known(n)}
FirstTs(n) == LET i == CHOOSE j \in Fresh : transcript[j].turn = n /\ \A k \in Fresh : transcript[k].turn = n => j <= k
              IN transcript[i].ts

InWindow(ts) == prevTick < ts /\ ts <= clock

\* The newest MaxSeenIds turns.
Remembered == LET all == seen \cup NewTurns
              IN {n \in all : Cardinality({m \in all : m > n}) < MaxSeenIds}

RecordTick ==
  /\ TakesTime /\ prevTick # NoTick /\ prevTick' = clock
  /\ offset' = NextOffset /\ seen' = Remembered
  /\ tallies' = [n \in Turns |->
       tallies[n] + (IF clock > prevTick /\ n \in NewTurns /\ InWindow(FirstTs(n)) THEN 1 ELSE 0)]
  /\ parsed' = parsed \cup Fresh
  /\ UNCHANGED <<transcript, torn>>

\* Recording is turned off, or the server restarts.
Forget ==
  /\ prevTick # NoTick /\ prevTick' = NoTick
  /\ offset' = 0 /\ seen' = {} /\ tallies' = [n \in Turns |-> 0] /\ parsed' = {}
  /\ UNCHANGED <<clock, transcript, torn>>

LedgerNext == WriteRecord \/ FinishRecord \/ PassTime \/ SetBack \/ SeedCursors \/ RecordTick \/ Forget

LedgerSpec == LedgerInit /\ [][LedgerNext]_spendVars

-----------------------------------------------------------------------------
(* A turn is counted at most once however a tick cuts its copies apart      *)
(* (usage-ledger.ts remember, MAX_SEEN_IDS).                                *)
CountedOnce == \A n \in Turns : tallies[n] <= 1

(* No record is passed over: what the cursor has left behind was read      *)
(* whole, also when a tick found it half written (collectEvents).          *)
WholeRecordsRead == \A i \in 1..Len(transcript) : prevTick # NoTick /\ 2 * i <= offset => i \in parsed

(* Every turn is read and none is counted twice.                            *)
LedgerIsExact == CountedOnce /\ WholeRecordsRead
=============================================================================
