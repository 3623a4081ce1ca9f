--------------------------- MODULE CodegraphStore ---------------------------
(***************************************************************************)
(* The codegraph status cache and the Sync / Reindex runs of one graph     *)
(* root (server/lib/codegraph-store.ts), shared by the pins on it.  A      *)
(* status read queues for one of Concurrency slots and looks at the        *)
(* database at some moment before it answers; a run's end, or a terminal's *)
(* rebuild found over, drops the root's entries.  The database is          *)
(* abstracted to a version.                                                *)
(***************************************************************************)
EXTENDS Naturals, Sequences, FiniteSets

CONSTANTS Pins, NoStatus, Concurrency, MaxDb
ASSUME GraphBounds == Concurrency \in Nat \ {0} /\ MaxDb \in Nat /\ IsFiniteSet(Pins)

VARIABLES
  db,        \* the database's version
  entry,     \* the version each pin's cache entry shows
  reading,   \* the read the map names for each pin, 0 when none
  step,     \* the up to two reads of a pin: idle, queued, running or seen
  saw,       \* the version a read saw
  waiters,   \* the limiter's queue
  active,    \* its slots in use
  starting,  \* pins between startCodegraphRun's entry and its record
  run,       \* the run recorded for the root
  launched,  \* CLI runs under way
  rebuild,   \* a terminal's rebuild is live
  seenRebuild,  \* seenRebuild holds the root
  get,       \* the GET under way: idle, live or dead (what the pid file said)
  floor,     \* history: the version at the last end of a run or rebuild that
             \* the store has noticed
  rebuilt    \* history: the version at the last rebuild's end

readVars == <<entry, reading, step, saw, waiters, active>>
graphVars == <<db, readVars, starting, run, launched, rebuild, seenRebuild, get, floor, rebuilt>>

Reads == Pins \X {1, 2}
DbVersions == 0..MaxDb

GraphTypeOK ==
  /\ db \in DbVersions /\ floor \in DbVersions /\ rebuilt \in DbVersions
  /\ entry \in [Pins -> DbVersions \cup {NoStatus}]
  /\ reading \in [Pins -> 0..2]
  /\ step \in [Reads -> {"idle", "queued", "running", "seen"}]
  /\ saw \in [Reads -> DbVersions]
  /\ waiters \in Seq(Reads) /\ active \in 0..Concurrency
  /\ starting \subseteq Pins /\ run \in BOOLEAN /\ launched \in 0..Cardinality(Pins)
  /\ rebuild \in BOOLEAN /\ seenRebuild \in BOOLEAN /\ get \in {"idle", "live", "dead"}

GraphInit ==
  /\ db = 0 /\ floor = 0 /\ rebuilt = 0
  /\ entry = [p \in Pins |-> NoStatus] /\ reading = [p \in Pins |-> 0]
  /\ step = [r \in Reads |-> "idle"] /\ saw = [r \in Reads |-> 0]
  /\ waiters = <<>> /\ active = 0
  /\ starting = {} /\ run = FALSE /\ launched = 0
  /\ rebuild = FALSE /\ seenRebuild = FALSE /\ get = "idle"

-----------------------------------------------------------------------------
(* A read.  startRead joins the one the map names; a superseded one may     *)
(* still be on its way (at most two of a pin, the bound of Reads).          *)
Free(p) == {i \in {1, 2} : step[<<p, i>>] = "idle"}
NewRead(p) == <<p, CHOOSE i \in Free(p) : \A j \in Free(p) : i <= j>>

\* A set in some order.
Orders(S) == {q \in [1..Cardinality(S) -> S] : \A i, j \in DOMAIN q : q[i] = q[j] => i = j}

\* One for each due pin that named, the map, has none for, in the pins' order,
\* whichever that is: the first ones fill the free slots, the others queue.
StartReads(due, named) ==
  LET wanted == {p \in due : named[p] = 0}
      free == Concurrency - active
  IN /\ \A p \in wanted : Free(p) # {}
     /\ \E new \in Orders({NewRead(p) : p \in wanted}) :
          LET room == IF free < Len(new) THEN free ELSE Len(new)
              At(from, to) == {new[i] : i \in from..to}
          IN /\ step' = [r \in Reads |-> IF r \in At(1, room) THEN "running"
                                        ELSE IF r \in At(room + 1, Len(new)) THEN "queued" ELSE step[r]]
             /\ active' = active + room
             /\ waiters' = waiters \o SubSeq(new, room + 1, Len(new))
     /\ reading' = [p \in Pins |-> IF p \in wanted THEN NewRead(p)[2] ELSE named[p]]

\* The CLI looks at the database.
Look(r) ==
  /\ step[r] = "running"
  /\ step' = [step EXCEPT ![r] = "seen"] /\ saw' = [saw EXCEPT ![r] = db]
  /\ UNCHANGED <<db, entry, reading, waiters, active, starting, run, launched, rebuild, seenRebuild, get, floor, rebuilt>>

\* A read fills the cache when the map still names it.
Current(r) == reading[r[1]] = r[2]

\* Its slot goes to the next waiter.  Mutant: it is only freed.
NobodyWoken == FALSE
Woken == waiters # <<>>

\* Mutant: a slot that is handed on is freed as well.
FreedToo == active - 1
LeftActive == IF Woken THEN active ELSE active - 1

EndRead(r) ==
  /\ step[r] = "seen"
  /\ entry' = IF Current(r) THEN [entry EXCEPT ![r[1]] = saw[r]] ELSE entry
  /\ reading' = IF reading[r[1]] = r[2] THEN [reading EXCEPT ![r[1]] = 0] ELSE reading
  /\ step' = [x \in Reads |-> IF x = r THEN "idle"
                               ELSE IF Woken /\ x = Head(waiters) THEN "running" ELSE step[x]]
  /\ saw' = [saw EXCEPT ![r] = 0]
  /\ waiters' = IF Woken THEN Tail(waiters) ELSE waiters
  /\ active' = LeftActive
  /\ UNCHANGED <<db, starting, run, launched, rebuild, seenRebuild, get, floor, rebuilt>>

NoStatuses == [p \in Pins |-> NoStatus]
NoReading == [p \in Pins |-> 0]

-----------------------------------------------------------------------------
(* A GET reads the pid files, then builds its rows in one step.             *)
ReadPids ==
  /\ get = "idle" /\ get' = (IF rebuild THEN "live" ELSE "dead")
  /\ UNCHANGED <<db, readVars, starting, run, launched, rebuild, seenRebuild, floor, rebuilt>>

\* A row without an entry reads, and so does one whose entry is past its TTL or
\* whose GET asks for a fresh one.  A rebuild seen live and now dead drops the
\* entries.
RebuildOver == get = "dead" /\ seenRebuild

Rows(old) ==
  /\ get \in {"live", "dead"} /\ get' = "idle"
  /\ seenRebuild' = (get = "live")
  /\ entry' = IF RebuildOver THEN NoStatuses ELSE entry
  /\ floor' = IF get = "dead" /\ seenRebuild /\ rebuilt > floor THEN rebuilt ELSE floor
  /\ StartReads(old \cup {p \in Pins : entry'[p] = NoStatus},
                IF RebuildOver THEN NoReading ELSE reading)
  /\ UNCHANGED <<db, saw, starting, run, launched, rebuild, rebuilt>>

-----------------------------------------------------------------------------
(* A run: the pid files are read across an await, the root's record is      *)
(* looked at and written in one step.                                       *)
GraphStartRun(p) ==
  /\ p \notin starting /\ starting' = starting \cup {p}
  /\ UNCHANGED <<db, readVars, run, launched, rebuild, seenRebuild, get, floor, rebuilt>>

\* Mutant: the pin's own mark is all that is looked at.
RunFreeByPin == TRUE
RunFree == ~run

Record(p) ==
  /\ p \in starting /\ starting' = starting \ {p}
  /\ \/ UNCHANGED <<run, launched>>    \* busy: a run, a rebuild, a lock; or no graph
     \/ RunFree /\ run' = TRUE /\ launched' = launched + 1
  /\ UNCHANGED <<db, readVars, rebuild, seenRebuild, get, floor, rebuilt>>

\* The database changes under a run, a rebuild or the watcher.
Change ==
  /\ db < MaxDb /\ db' = db + 1
  /\ UNCHANGED <<readVars, starting, run, launched, rebuild, seenRebuild, get, floor, rebuilt>>

\* Mutant: a read that began before the end may still fill the cache.
KeptReading == reading
DroppedReading == NoReading

GraphEndRun ==
  /\ launched > 0 /\ launched' = launched - 1
  /\ run' = FALSE /\ seenRebuild' = FALSE /\ floor' = db
  /\ entry' = NoStatuses /\ reading' = DroppedReading
  /\ UNCHANGED <<db, step, saw, waiters, active, starting, rebuild, get, rebuilt>>

Rebuild ==
  /\ rebuild' = ~rebuild
  /\ rebuilt' = IF rebuild THEN db ELSE rebuilt
  /\ UNCHANGED <<db, readVars, starting, run, launched, seenRebuild, get, floor>>

ReadStep(r) == Look(r) \/ EndRead(r)

GraphNext ==
  \/ \E r \in Reads : ReadStep(r)
  \/ \E p \in Pins : GraphStartRun(p) \/ Record(p)
  \/ ReadPids \/ (\E old \in SUBSET Pins : Rows(old))
  \/ Change \/ GraphEndRun \/ Rebuild

\* A status read has a timeout of its own.
GraphFairness == \A r \in Reads : WF_graphVars(ReadStep(r))

GraphSpec == GraphInit /\ [][GraphNext]_graphVars /\ GraphFairness

-----------------------------------------------------------------------------
(* What the cache shows is no older than the last run or rebuild the store  *)
(* saw end: a read that began before it never fills the cache after it      *)
(* (codegraph-store.ts dropEntry).                                          *)
EntriesAreCurrent == \A p \in Pins : entry[p] # NoStatus => entry[p] >= floor

(* A repository's pin racing its subdirectory's pin launches once           *)
(* (codegraph-store.ts startCodegraphRun).                                  *)
OneRunPerRoot == launched <= 1

(* The limiter neither exceeds its cap nor loses a slot, and a queued read  *)
(* gets one.                                                                *)
SlotsAreKept == active = Cardinality({r \in Reads : step[r] \in {"running", "seen"}})
QueuedIsRead == \A r \in Reads : step[r] = "queued" ~> step[r] = "running"

(* The store keeps up: nothing stale, nothing twice, no read left waiting.  *)
GraphKeepsUp == [](EntriesAreCurrent /\ OneRunPerRoot /\ SlotsAreKept) /\ QueuedIsRead
=============================================================================
