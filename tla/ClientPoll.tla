----------------------------- MODULE ClientPoll -----------------------------
(***************************************************************************)
(* A polled list of the dashboard's page (client hooks/useRoutines.ts,     *)
(* useSessions.ts, useRoutineRuns.ts over lib/pollSeq.ts): timed fetches   *)
(* skipped while one is out, a forced one after each of the page's own     *)
(* writes, and only the newest fetch's answer applied.  What the server    *)
(* would answer is a version that each write, of anybody, steps.           *)
(***************************************************************************)
EXTENDS Naturals, FiniteSets

CONSTANTS MaxVersion, MaxOut, Unread
ASSUME PollBounds == MaxVersion \in Nat /\ MaxOut \in Nat \ {0}

VARIABLES
  version,   \* the server's
  issued,    \* the number of the newest fetch, per mount
  inFlight,  \* the guard a timed fetch is skipped by
  out,       \* the fetches under way
  shown,     \* the version on the page
  failing,   \* the page says so
  own        \* history: the version of this page's last acknowledged write

pollVars == <<version, issued, inFlight, out, shown, failing, own>>

\* `has` is the version a fetch will answer with, `mounted` whether the effect
\* that issued it still lives.
Fetches == [seq : 1..MaxOut, has : 0..MaxVersion \cup {Unread}, mounted : BOOLEAN]

PollTypeOK ==
  /\ version \in 0..MaxVersion /\ shown \in 0..MaxVersion /\ own \in 0..version
  /\ issued \in 0..MaxOut /\ inFlight \in BOOLEAN /\ failing \in BOOLEAN
  /\ out \subseteq Fetches
  \* The guard stands exactly while the newest fetch is out.
  /\ inFlight <=> \E f \in out : f.mounted /\ f.seq = issued

PollInit ==
  /\ version = 0 /\ issued = 0 /\ inFlight = FALSE /\ out = {}
  /\ shown = 0 /\ failing = FALSE /\ own = 0

-----------------------------------------------------------------------------
(* createPollSeq.next.  Numbers restart when nothing is out, which only      *)
(* bounds them.                                                              *)
NextFetch ==
  LET seq == IF out = {} THEN 1 ELSE issued + 1
  IN /\ seq <= MaxOut /\ Cardinality(out) < MaxOut
     /\ issued' = seq /\ inFlight' = TRUE
     /\ out' = out \cup {[seq |-> seq, has |-> Unread, mounted |-> TRUE]}

\* The interval's tick, and the tab coming back.
PollTick ==
  /\ ~inFlight /\ NextFetch
  /\ UNCHANGED <<version, shown, failing, own>>

\* Mutant: a refresh is skipped like a tick.
RefreshIfIdle == IF inFlight THEN UNCHANGED <<issued, inFlight, out>> ELSE NextFetch
Refresh == NextFetch

\* A write of this page was acknowledged: useRoutineWrite's send.
WriteHere ==
  /\ version < MaxVersion /\ version' = version + 1 /\ own' = version + 1
  /\ Refresh
  /\ UNCHANGED <<shown, failing>>

WriteElsewhere == version < MaxVersion /\ version' = version + 1 /\ UNCHANGED <<issued, inFlight, out, shown, failing, own>>

ServerReads ==
  /\ \E f \in out : f.has = Unread /\ out' = (out \ {f}) \cup {[f EXCEPT !.has = version]}
  /\ UNCHANGED <<version, issued, inFlight, shown, failing, own>>

\* settle.  Mutant: any answer is applied.
AnySettles(f) == f.mounted
MaySettle(f) == f.mounted /\ f.seq = issued

Answered(f) ==
  /\ f \in out /\ f.has # Unread /\ out' = out \ {f}
  /\ IF MaySettle(f)
     THEN shown' = f.has /\ failing' = FALSE /\ inFlight' = FALSE
     ELSE UNCHANGED <<shown, failing, inFlight>>
  /\ UNCHANGED <<version, issued, own>>

\* A fetch fails, at the latest by pollFetch's timeout.  Mutant: only a read one can.
NoTimeout(f) == f.has # Unread
TimesOut(f) == TRUE

ReadFails(f) ==
  /\ f \in out /\ TimesOut(f) /\ out' = out \ {f}
  /\ IF MaySettle(f) THEN failing' = TRUE /\ inFlight' = FALSE ELSE UNCHANGED <<failing, inFlight>>
  /\ UNCHANGED <<version, issued, shown, own>>

EndsFetch(k) == \E f \in out : f.mounted /\ f.seq = k /\ (Answered(f) \/ ReadFails(f))

\* A setting restarts the effect: its fetches are orphans, and a new sequence starts.
Remount ==
  /\ Cardinality(out) < MaxOut
  /\ issued' = 1 /\ inFlight' = TRUE
  /\ out' = {[f EXCEPT !.mounted = FALSE] : f \in out}
            \cup {[seq |-> 1, has |-> Unread, mounted |-> TRUE]}
  /\ UNCHANGED <<version, shown, failing, own>>

PollNext ==
  \/ PollTick \/ WriteHere \/ WriteElsewhere \/ ServerReads \/ Remount
  \/ \E f \in out : Answered(f) \/ ReadFails(f)

\* The browser ends every fetch one way or the other (pollFetch's signal).
FairPoll == \A k \in 1..MaxOut : WF_pollVars(EndsFetch(k))
PollSpec == PollInit /\ [][PollNext]_pollVars /\ FairPoll

-----------------------------------------------------------------------------
(* The page never steps back to what the server answered before             *)
(* (pollSeq.ts: "an older fold resolving late can never overwrite a newer   *)
(* one").                                                                   *)
NeverStepsBack == [][shown' >= shown]_pollVars

(* Once the page is at rest after a write of its own, it shows that write:  *)
(* the fetch that was out when the write was made is not believed.          *)
OwnWriteIsShown == ~inFlight /\ ~failing => shown >= own

(* A fetch always leaves the guard: "one that never settles would stop the  *)
(* poll for good" (pollSeq.ts).                                             *)
GuardOpens == inFlight ~> ~inFlight

(* The page never goes back, not even behind its own write, and never stops *)
(* polling.                                                                 *)
PollKeepsUp == []OwnWriteIsShown /\ NeverStepsBack /\ GuardOpens
=============================================================================
