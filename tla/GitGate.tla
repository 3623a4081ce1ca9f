------------------------------ MODULE GitGate ------------------------------
(***************************************************************************)
(* The gate between the two git writers of the dashboard server: the quick *)
(* pull or push of one repository (git-quick.ts) and fetch-all over every  *)
(* pinned one (git-fetch.ts), kept apart by one lock per git common dir    *)
(* (git-locks.ts) and by one in-flight promise.  Each action is one        *)
(* synchronous stretch between two awaits.  When the timer is due is the   *)
(* subject of FetchClock; here a tick is due at any time.                  *)
(***************************************************************************)
EXTENDS FiniteSets

CONSTANTS
  Ops,          \* slots for concurrent POST /api/git-quick requests
  Trees,        \* working trees (toplevels) that may be pinned
  Dirs,         \* git common dirs
  Common,       \* the common dir of each tree: linked worktrees share one
  NoOp

ASSUME CommonAssumption == Common \in [Trees -> Dirs]
ASSUME NoOpAssumption == NoOp \notin Ops

Verdicts == {"none", "ok", "auth"}

VARIABLES
  op,       \* idle, reading (before the lock), git (running under the lock)
  tree,     \* the tree a request names
  held,     \* the `held` map: who holds each common dir's lock
  fetch,    \* none, waiting (for locks), resolving, fetching, ended (not yet cleared)
  awaits,   \* the lock promises fetch-all still awaits
  pinned,   \* the stored pins
  resolved, \* the trees this run resolved
  groups,   \* the groups (common dirs) whose fetch has not ended
  verdict   \* the `lastFetch` map

op_vars == <<op, tree, held>>
run_vars == <<resolved, groups, verdict>>
vars == <<op_vars, fetch, awaits, pinned, run_vars>>

TypeOK ==
  /\ op \in [Ops -> {"idle", "reading", "git"}]
  /\ tree \in [Ops -> Trees]
  /\ held \in [Dirs -> Ops \cup {NoOp}]
  /\ fetch \in {"none", "waiting", "resolving", "fetching", "ended"}
  /\ awaits \subseteq Ops
  /\ pinned \subseteq Trees /\ resolved \subseteq Trees
  /\ groups \subseteq Dirs
  /\ verdict \in [Trees -> Verdicts]

Init ==
  /\ op = [o \in Ops |-> "idle"]
  /\ tree \in [Ops -> Trees]
  /\ held = [d \in Dirs |-> NoOp]
  /\ fetch = "none" /\ awaits = {}
  /\ pinned \in SUBSET Trees
  /\ resolved = {} /\ groups = {}
  /\ verdict = [t \in Trees |-> "none"]

-----------------------------------------------------------------------------
Dir(o) == Common[tree[o]]
Holders == {held[d] : d \in Dirs} \ {NoOp}

FetchInFlight == fetch # "none"

\* Mutant: linked worktrees lock apart.
CanLockTree(o) == \A p \in Ops : op[p] = "git" => tree[p] # tree[o]
CanLock(o) == held[Dir(o)] = NoOp

\* heldRepoLocks: one promise for each lock held now.  Mutants: none, and one
\* for every directory ever locked.
HeldLocksNone == {}
HeldLocksEver == {held[d] : d \in Dirs}
HeldLocks == Holders

\* Mutant: a refusal under the lock answers without the finally.
SettlesRarely(o) == awaits
Settles(o) == awaits \ {o}

-----------------------------------------------------------------------------
(* A quick pull or push.                                                    *)

\* serveGitQuick: the pin is looked up, then git is asked where the repo is.
Ask(o, t) ==
  /\ op[o] = "idle" /\ t \in pinned
  /\ op' = [op EXCEPT ![o] = "reading"]
  /\ tree' = [tree EXCEPT ![o] = t]
  /\ UNCHANGED <<held, fetch, awaits, pinned, run_vars>>

\* not-ok, no-origin, fetch-running, busy, or a git that cannot be spawned.
Refuse(o) ==
  /\ op[o] = "reading"
  /\ op' = [op EXCEPT ![o] = "idle"]
  /\ UNCHANGED <<tree, held, fetch, awaits, pinned, run_vars>>

\* The two checks and the lock, with no await between them.
Lock(o) ==
  /\ op[o] = "reading" /\ ~FetchInFlight /\ CanLock(o)
  /\ op' = [op EXCEPT ![o] = "git"]
  /\ held' = [held EXCEPT ![Dir(o)] = o]
  /\ UNCHANGED <<tree, fetch, awaits, pinned, run_vars>>

\* The finally: however the op ends, its own entry leaves the map and its
\* promise settles.
Release(o) ==
  /\ op[o] = "git"
  /\ op' = [op EXCEPT ![o] = "idle"]
  /\ held' = [held EXCEPT ![Dir(o)] = IF @ = o THEN NoOp ELSE @]
  /\ awaits' = Settles(o)
  /\ UNCHANGED <<tree, fetch, pinned, run_vars>>

-----------------------------------------------------------------------------
(* Fetch-all.                                                               *)

\* A call while one runs joins its promise, which changes nothing here.
FetchAll ==
  /\ fetch = "none"
  /\ fetch' = "waiting" /\ awaits' = HeldLocks
  /\ UNCHANGED <<op_vars, pinned, run_vars>>

\* The timer starts nothing while any lock is held.
Tick == Holders = {} /\ FetchAll

\* runFetch reads the pins and asks git about each.
StartRun ==
  /\ fetch = "waiting" /\ awaits = {}
  /\ fetch' = "resolving" /\ resolved' = pinned
  /\ UNCHANGED <<op_vars, awaits, pinned, groups, verdict>>

Pruned(live) == [t \in Trees |-> IF t \in live THEN verdict[t] ELSE "none"]

\* Those that resolved are grouped by common dir; the others lose their verdict.
Resolve(live) ==
  /\ fetch = "resolving" /\ live \subseteq resolved
  /\ fetch' = "fetching" /\ resolved' = live
  /\ groups' = {Common[t] : t \in live}
  /\ verdict' = Pruned(live)
  /\ UNCHANGED <<op_vars, awaits, pinned>>

\* The pin listing throws: no group runs and the verdicts stay.
ListingFails ==
  /\ fetch = "waiting" /\ awaits = {}
  /\ fetch' = "ended"
  /\ UNCHANGED <<op_vars, awaits, pinned, run_vars>>

\* fetchGroup: one verdict for every tree of the group; "none" is a skip.
GroupEnds(d, v) ==
  /\ fetch = "fetching" /\ d \in groups
  /\ groups' = groups \ {d}
  /\ verdict' = [t \in Trees |-> IF t \in resolved /\ Common[t] = d THEN v ELSE verdict[t]]
  /\ UNCHANGED <<op_vars, fetch, awaits, pinned, resolved>>

EndRun ==
  /\ fetch = "fetching" /\ groups = {}
  /\ fetch' = "ended"
  /\ UNCHANGED <<op_vars, awaits, pinned, run_vars>>

\* The promise's own finally, a microtask after the run's.
Clear ==
  /\ fetch = "ended"
  /\ fetch' = "none" /\ resolved' = {}
  /\ UNCHANGED <<op_vars, awaits, pinned, groups, verdict>>

\* setPinnedProject, from the Projects page.
Pin(t) ==
  /\ pinned' = IF t \in pinned THEN pinned \ {t} ELSE pinned \cup {t}
  /\ UNCHANGED <<op_vars, fetch, awaits, run_vars>>

QuickStep(o) == Refuse(o) \/ Lock(o) \/ Release(o)
FetchStep ==
  \/ StartRun \/ EndRun \/ Clear \/ ListingFails
  \/ \E live \in SUBSET Trees : Resolve(live)
  \/ \E d \in Dirs, v \in Verdicts : GroupEnds(d, v)

Next ==
  \/ \E o \in Ops, t \in Trees : Ask(o, t)
  \/ \E o \in Ops : QuickStep(o)
  \/ FetchAll \/ Tick \/ FetchStep
  \/ \E t \in Trees : Pin(t)

Spec == Init /\ [][Next]_vars

\* Every git call has a timeout (30 s or 60 s) that kills it and resolves.
FairSpec == Spec /\ WF_vars(FetchStep) /\ \A o \in Ops : WF_vars(QuickStep(o))

-----------------------------------------------------------------------------
(* While fetch-all runs git no quick op does and no lock is held: whatever  *)
(* order button, timer, requests and awaits come in, neither side meets the *)
(* other's ref lock (git-locks.ts, git-fetch.ts fetchAll).                  *)
FetchAlone ==
  fetch \in {"resolving", "fetching"} => Holders = {} /\ \A o \in Ops : op[o] # "git"

(* Two quick ops under way at once are in different common dirs, so two     *)
(* linked worktrees of one repository never move its refs together.         *)
OnePerDir ==
  \A o, p \in Ops : op[o] = "git" /\ op[p] = "git" /\ o # p => Dir(o) # Dir(p)

(* Both: no two git commands of the dashboard meet on one repository's refs. *)
GitIsExclusive == FetchAlone /\ OnePerDir

(* While fetch-all waits for locks the holders only become fewer, so it     *)
(* cannot be kept waiting by requests that come after it.                   *)
WaitOnlyShrinks ==
  [][fetch = "waiting" /\ fetch' = "waiting"
       => Holders' \subseteq Holders /\ awaits' \subseteq awaits]_vars

(* Fetch-all always ends, however many ops it found running, and every      *)
(* quick request is answered.                                               *)
EverythingAnswers ==
  /\ fetch # "none" ~> fetch = "none"
  /\ \A o \in Ops : op[o] # "idle" ~> op[o] = "idle"
=============================================================================
