----------------------------- MODULE UsageCycle -----------------------------
(***************************************************************************)
(* The account's usage figures (server/lib/usage.ts refreshNow) and the    *)
(* renewal of an expired token (server/lib/token-refresh.ts).  A cycle     *)
(* reads the token and, with a usable one, asks the endpoint; a request    *)
(* that never gets a socket hangs, so a later call may abandon the flight; *)
(* in the model one hung request at a time.                                *)
(* An expired token makes the server run the CLI, which renews it or not.  *)
(* Time is counted in ticks of 15 s.                                       *)
(***************************************************************************)
EXTENDS Naturals

CONSTANTS
  Cycles, NoCycle, \* cycles that may be pending at once
  CacheTtl, Stall, \* CACHE_TTL_MS and REFRESH_STALL_MS
  BackoffBase, BackoffMax

ASSUME CycleAssumption == NoCycle \notin Cycles
ASSUME UsageTimes == CacheTtl \in Nat /\ Stall \in Nat \ {0}
                     /\ BackoffBase \in Nat \ {0} /\ BackoffMax \in Nat

VARIABLES
  store,      \* the token the credential stores resolve to
  noRenewal,  \* no more renewal can work: logged out for good, or no CLI
  cachedStatus, \* the status of the last reading
  age,        \* ticks since the cache was written, up to CacheTtl + 1
  flight,     \* the cycle `refreshing` holds
  flightAge,  \* ticks since it started, up to Stall
  latest,     \* cycleSeq
  asking,     \* cycles whose request is not answered
  hung,       \* those of them that may never be
  overtaken,  \* history: those older than a cycle that wrote the cache
  renewal,    \* off, status or turn: the CLI call under way
  failures,   \* the gate's consecutive failures, counted up to 3
  sinceTry,   \* ticks since its last attempt, up to BackoffMax
  disabled    \* no CLI on this host

cacheState == <<cachedStatus, age>>
cycleState == <<flight, flightAge, latest, asking, hung, overtaken>>
renewState == <<renewal, failures, sinceTry, disabled>>
usageVars == <<store, noRenewal, cacheState, cycleState, renewState>>

Tokens == {"ok", "expired", "signed-out", "missing"}
Statuses == {"ok", "token-expired", "signed-out", "unavailable"}

UsageTypeOK ==
  /\ store \in Tokens /\ noRenewal \in BOOLEAN
  /\ cachedStatus \in Statuses /\ age \in 0..CacheTtl + 1
  /\ flight \in Cycles \cup {NoCycle} /\ flightAge \in 0..Stall
  /\ latest \in Cycles \cup {NoCycle}
  /\ asking \subseteq Cycles /\ hung \subseteq asking /\ overtaken \subseteq asking
  /\ renewal \in {"off", "status", "turn"}
  /\ failures \in 0..3 /\ sinceTry \in 0..BackoffMax /\ disabled \in BOOLEAN
  \* The flight is the newest cycle while that is asking, and nothing else.
  /\ flight = IF latest \in asking THEN latest ELSE NoCycle

UsageInit ==
  /\ store \in Tokens /\ noRenewal = FALSE
  /\ cachedStatus = "unavailable" /\ age = CacheTtl + 1
  /\ flight = NoCycle /\ flightAge = 0 /\ latest = NoCycle
  /\ asking = {} /\ hung = {} /\ overtaken = {}
  /\ renewal = "off" /\ failures = 0 /\ sinceTry = BackoffMax /\ disabled = FALSE

-----------------------------------------------------------------------------
(* readToken and its stores: env, keychain, file.  An expired token in any  *)
(* of them outranks a blank one, since it renews itself.                    *)
Rank(t) == CASE t = "ok" -> 3 [] t = "expired" -> 2 [] t = "signed-out" -> 1 [] t = "missing" -> 0
PickTokenState(seen) ==
  IF seen = {} THEN "missing" ELSE CHOOSE t \in seen : \A s \in seen : Rank(s) <= Rank(t)

StatusForToken(t) ==
  CASE t = "expired" -> "token-expired" [] t = "missing" -> "unavailable" [] OTHER -> t

\* The stores as another process leaves them: the CLI at work, a login or a
\* logout, or an expiry.
StoresChange ==
  /\ ~noRenewal
  /\ \E seen \in SUBSET Tokens : store' = PickTokenState(seen) /\ store' # store
  /\ UNCHANGED <<noRenewal, cacheState, cycleState, renewState>>

\* From here on nobody logs in again.
StoresStay ==
  /\ ~noRenewal /\ noRenewal' = TRUE
  /\ UNCHANGED <<store, cacheState, cycleState, renewState>>

-----------------------------------------------------------------------------
(* The gate of a cycle: a flight holds it until it is stalled.  Mutant: it  *)
(* holds it for good.                                                       *)
NeverStalled == FALSE
Stalled == flightAge >= Stall
ShouldRefresh(force) ==
  IF flight # NoCycle THEN Stalled ELSE force \/ age > CacheTtl

\* backoffMs.
Backoff == IF failures = 0 THEN 0
           ELSE LET wait == BackoffBase * 2 ^ (failures - 1)
                IN IF wait > BackoffMax THEN BackoffMax ELSE wait
ShouldAutoRefresh == ~disabled /\ renewal = "off" /\ sinceTry >= Backoff

\* A cycle without a usable token settles at once; an expired one starts the
\* renewal, whose first probe has just failed.
RefreshNow(force) ==
  /\ ShouldRefresh(force)
  /\ \E c \in Cycles \ asking :
       /\ latest' = c
       /\ IF store = "ok"
          THEN /\ flight' = c /\ flightAge' = 0
               /\ asking' = asking \cup {c}
               /\ \E hangs \in BOOLEAN :
                    (hangs => hung = {}) /\ hung' = (IF hangs THEN {c} ELSE hung)
               /\ UNCHANGED <<cacheState, overtaken, renewState>>
          ELSE /\ cachedStatus' = StatusForToken(store) /\ age' = 0
               /\ flight' = NoCycle /\ flightAge' = 0
               /\ overtaken' = asking
               /\ IF store = "expired" /\ ShouldAutoRefresh
                  THEN renewal' = "status" /\ sinceTry' = 0 /\ UNCHANGED <<failures, disabled>>
                  ELSE UNCHANGED renewState
               /\ UNCHANGED <<asking, hung>>
  /\ UNCHANGED <<store, noRenewal>>

\* Only the newest cycle owns the cache.  Mutant: whoever answers.
AnyOwns(c) == TRUE
Owns(c) == c = latest

\* Mutant: an abandoned cycle that ends clears the newer one's flight.
AnyLeaves(c) == TRUE
Leaves(c) == flight = c

\* The request is answered, fails or times out.
Answer(c, limits) ==
  /\ c \in asking
  /\ asking' = asking \ {c} /\ hung' = hung \ {c}
  /\ IF Owns(c)
     THEN /\ cachedStatus' = (IF limits THEN "ok" ELSE "unavailable") /\ age' = 0
          /\ overtaken' = (IF c = latest THEN asking' ELSE overtaken \ {c})
     ELSE UNCHANGED cacheState /\ overtaken' = overtaken \ {c}
  /\ IF Leaves(c) THEN flight' = NoCycle /\ flightAge' = 0 ELSE UNCHANGED <<flight, flightAge>>
  /\ UNCHANGED <<store, noRenewal, latest, renewState>>

-----------------------------------------------------------------------------
(* The renewal.  Success is a store that reads ok, whatever the CLI says.   *)
Renewed ==
  /\ renewal # "off" /\ store = "ok"
  /\ renewal' = "off" /\ failures' = 0 /\ age' = CacheTtl + 1
  /\ UNCHANGED <<store, noRenewal, cachedStatus, cycleState, sinceTry, disabled>>

\* `claude auth status` ended: the turn follows.
StatusEnded ==
  /\ renewal = "status" /\ store # "ok" /\ renewal' = "turn"
  /\ UNCHANGED <<store, noRenewal, cacheState, cycleState, failures, sinceTry, disabled>>

\* The turn ended, too.  Two missing binaries disarm the renewal for good.
TurnEnded(missing) ==
  /\ renewal = "turn" /\ store # "ok"
  /\ renewal' = "off" /\ failures' = IF failures < 3 THEN failures + 1 ELSE failures
  /\ disabled' = (disabled \/ missing)
  /\ UNCHANGED <<store, noRenewal, cacheState, cycleState, sinceTry>>

\* The CLI of this renewal writes the store.
CliRenews ==
  /\ renewal # "off" /\ store = "expired" /\ ~noRenewal /\ store' = "ok"
  /\ UNCHANGED <<noRenewal, cacheState, cycleState, renewState>>

UsageTick ==
  /\ age' = IF age > CacheTtl THEN age ELSE age + 1
  /\ flightAge' = IF flight # NoCycle /\ flightAge < Stall THEN flightAge + 1 ELSE flightAge
  /\ sinceTry' = IF sinceTry < BackoffMax THEN sinceTry + 1 ELSE sinceTry
  /\ <<age, flightAge, sinceTry>>' # <<age, flightAge, sinceTry>>
  /\ UNCHANGED <<store, noRenewal, cachedStatus, flight, latest, asking, hung, overtaken, renewal, failures, disabled>>

RenewalStep == Renewed \/ StatusEnded \/ \E missing \in BOOLEAN : TurnEnded(missing)

UsageNext ==
  \/ StoresChange \/ StoresStay \/ CliRenews \/ RenewalStep \/ UsageTick
  \/ \E force \in BOOLEAN : RefreshNow(force)
  \/ \E c \in Cycles, limits \in BOOLEAN : Answer(c, limits)

\* The dashboard polls, the clock runs, the CLI's calls have timeouts, and a
\* request that has a socket is answered or times out.
UsageFairness ==
  /\ WF_usageVars(RefreshNow(FALSE)) /\ WF_usageVars(RenewalStep) /\ WF_usageVars(UsageTick)
  /\ \A c \in Cycles : WF_usageVars(c \notin hung /\ \E limits \in BOOLEAN : Answer(c, limits))

UsageSpec == UsageInit /\ [][UsageNext]_usageVars /\ UsageFairness

-----------------------------------------------------------------------------
(* The answer of an abandoned cycle never replaces what a newer one found   *)
(* (usage.ts refreshNow, `mine === cycleSeq`).                              *)
NoOldAnswer ==
  [][\A c \in overtaken : c \notin asking' => UNCHANGED cacheState]_usageVars

(* A hung request never freezes what is shown: the flight is given up       *)
(* (REFRESH_STALL_MS), and once no more renewal can work, an unusable token *)
(* that stays stored is what the status comes to say (usage.ts refreshNow). *)
FlightIsLeft == \A c \in Cycles : flight = c ~> flight # c
StatusFollowsStore ==
  \A t \in Tokens \ {"ok"} : (noRenewal /\ store = t) ~> (cachedStatus = StatusForToken(t) \/ renewal # "off" \/ store # t)

(* A cycle that hangs is left behind for good and freezes nothing.          *)
HungCycleIsLeft == NoOldAnswer /\ FlightIsLeft /\ StatusFollowsStore
=============================================================================
