------------------------------ MODULE SyncRun ------------------------------
(***************************************************************************)
(* One run of the git-sync skill (plugin/skills/git-sync/tools/            *)
(* git-sync.mjs) on a repository whose trunk and one branch two machines   *)
(* share: sync, survey and plan, verify, push-trunk, apply.  Meanwhile the *)
(* user works in another terminal and the other machine pushes, merges and *)
(* deletes.  A ref's tip is the set of the commits whose change it holds,  *)
(* so a merge proof (M1, M2, M3) is inclusion and so is an ancestor.       *)
(* The repository may push; worktrees, stashes and superseded branches are *)
(* left out.                                                               *)
(***************************************************************************)
EXTENDS Naturals, Sequences

CONSTANTS MaxCommits, NoRef
ASSUME SyncBounds == MaxCommits \in Nat \ {0}
ASSUME NoRefAssumption == \A t \in SUBSET (1..MaxCommits) : t # NoRef

VARIABLES
  local,     \* this machine's trunk, feat and carry branch
  origin,    \* the same on origin
  tracking,  \* refs/remotes/origin/*, as last fetched or pushed
  head,      \* the branch the main tree has checked out
  phase,     \* the last subcommand that ended, "over" after a stop or the end
  prOnly,    \* what the survey learns of the trunk's rules
  todo,      \* plan.json's actions still to run
  acting,    \* the action between its check and its git command, or its log line, or "none"
  verified,  \* verify.json: the tip it checked when it was not red, else NoRef
  made,      \* commits made so far
  deleted,   \* deleted.log: the tips
  results,   \* the tips of the deletions apply counts as done; apply.json has them when it ends
  killed,    \* the engine died, so there is no apply.json
  gone,      \* history: the tips deletions were run for
  published, \* history: the tips push-trunk pushed
  removed,   \* history: the tips deleted because they are merged
  late       \* history: commits the user made, or brought under HEAD, between
             \* an action's check and its git command

refVars == <<local, origin, tracking, head>>
recordVars == <<deleted, results, killed, gone>>
syncVars == <<refVars, phase, prOnly, todo, acting, verified, made, recordVars, published, removed, late>>

Commits == 1..MaxCommits
Tips == SUBSET Commits
Refs == {"trunk", "feat", "carry"}
Held(refs) == UNION {refs[b] : b \in {x \in Refs : refs[x] # NoRef}}

SyncActions ==
  [kind : {"push-branch", "delete-remote", "delete-local", "carry-trunk"}, tip : Tips, basis : {"merged", "picked", "none"}, byPr : BOOLEAN]

SyncTypeOK ==
  /\ local \in [Refs -> Tips \cup {NoRef}] /\ origin \in [Refs -> Tips \cup {NoRef}]
  /\ tracking \in [Refs -> Tips \cup {NoRef}] /\ head \in {"trunk", "feat"}
  /\ phase \in {"preflight", "sync", "plan", "verify", "apply", "over"} /\ prOnly \in BOOLEAN
  /\ todo \in Seq(SyncActions)
  /\ acting \in {"none", "push-trunk", "act", "log", "push-carry", "reset"}
  /\ verified \in Tips \cup {NoRef} /\ made \in 0..MaxCommits
  /\ deleted \subseteq Tips /\ results \subseteq Tips /\ gone \subseteq Tips /\ killed \in BOOLEAN
  /\ published \subseteq Tips /\ removed \subseteq Tips /\ late \subseteq Commits
  \* HEAD never names a branch that is gone, and the trunk is never deleted.
  /\ local[head] # NoRef /\ local["trunk"] # NoRef /\ origin["trunk"] # NoRef

\* feat holds commit 1; origin may have it too.
SyncInit ==
  /\ made = 1 /\ head \in {"trunk", "feat"} /\ prOnly \in BOOLEAN
  /\ local = [b \in Refs |-> IF b = "trunk" THEN {} ELSE IF b = "feat" THEN {1} ELSE NoRef]
  /\ origin \in {[b \in Refs |-> IF b = "trunk" THEN {} ELSE IF b = "feat" THEN f ELSE NoRef] : f \in {NoRef, {1}}}
  /\ tracking = origin /\ phase = "preflight" /\ todo = <<>> /\ acting = "none" /\ verified = NoRef
  /\ deleted = {} /\ results = {} /\ gone = {} /\ killed = FALSE /\ published = {} /\ removed = {} /\ late = {}

-----------------------------------------------------------------------------
(* Fetch and prune, check the trunk out, rebase it; a stop ends the run, a   *)
(* conflict with the rebase undone.                                          *)
Sync ==
  /\ phase = "preflight"
  /\ \/ phase' = "over" /\ UNCHANGED refVars
     \/ /\ tracking' = origin /\ head' = "trunk" /\ UNCHANGED origin
        /\ \/ phase' = "over" /\ UNCHANGED local
           \/ phase' = "sync" /\ local' = [local EXCEPT !["trunk"] = @ \cup origin["trunk"]]
  /\ UNCHANGED <<prOnly, todo, acting, verified, made, recordVars, published, removed, late>>

-----------------------------------------------------------------------------
(* The survey.  Merged is judged on the local trunk, which push-trunk        *)
(* publishes, or on origin's when only a pull request can; M4, the branch's  *)
(* pull request being merged, stands in for one unproven tip.                *)
SurveyRef == IF prOnly THEN tracking["trunk"] ELSE local["trunk"]
FeatTips == {t \in {local["feat"], tracking["feat"]} : t # NoRef}
UnprovenTips == {t \in FeatTips : ~(t \subseteq SurveyRef)}
PrMerged(t) == t \subseteq origin["trunk"]
FeatMerged(gh) == UnprovenTips = {} \/ (gh /\ \E t \in UnprovenTips : UnprovenTips = {t} /\ PrMerged(t))

\* The label of the local tip's proof, the remote's when there is no local.
FirstTip == IF local["feat"] # NoRef THEN local["feat"] ELSE tracking["feat"]

Deletions(basis, byPr) ==
  LET Act(kind, t) == IF t = NoRef THEN <<>> ELSE <<[kind |-> kind, tip |-> t, basis |-> basis, byPr |-> byPr]>>
  IN Act("delete-remote", tracking["feat"]) \o Act("delete-local", local["feat"])

Push == <<[kind |-> "push-branch", tip |-> local["feat"], basis |-> "none", byPr |-> FALSE]>>
CarryIt == <<[kind |-> "carry-trunk", tip |-> local["trunk"], basis |-> "none", byPr |-> FALSE]>>

TrunkAhead == ~(local["trunk"] \subseteq tracking["trunk"])
FeatAhead == tracking["feat"] # NoRef => ~(local["feat"] \subseteq tracking["feat"])

\* Every answer a question offers, in ACTION_RANK's order.  gh is whether the
\* pull requests can be looked up, age whether the branch is abandoned.
Answers(gh, age) ==
  LET branch == IF head = "feat" \/ FeatTips = {} THEN {<<>>}
                ELSE IF FeatMerged(gh) THEN {<<>>, Deletions("merged", ~(FirstTip \subseteq SurveyRef))}
                ELSE IF age THEN {<<>>, Deletions("picked", FALSE)}
                ELSE IF local["feat"] # NoRef /\ FeatAhead THEN {<<>>, Push} ELSE {<<>>}
      carry == IF prOnly /\ TrunkAhead THEN {<<>>, CarryIt} ELSE {<<>>}
  IN {b \o c : b \in branch, c \in carry}

PlanSync ==
  /\ phase = "sync" /\ phase' = "plan"
  /\ \E gh, age \in BOOLEAN : todo' \in Answers(gh, age)
  /\ UNCHANGED <<refVars, prOnly, acting, verified, made, recordVars, published, removed, late>>

\* The checks run on HEAD; the tip is read before them.
Verify ==
  /\ phase = "plan" /\ phase' = "verify"
  /\ verified' \in {local[head], NoRef}
  /\ UNCHANGED <<refVars, prOnly, todo, acting, made, recordVars, published, removed, late>>

\* push-trunk's gates.  Mutant: a tip that is not the verified one passes.
AnyTipPasses == ~prOnly /\ verified # NoRef
MayPush == ~prOnly /\ verified = local["trunk"]

Gate ==
  /\ phase = "verify" /\ acting = "none"
  /\ IF MayPush /\ TrunkAhead
     THEN acting' = "push-trunk" /\ UNCHANGED phase
     ELSE phase' = "apply" /\ UNCHANGED acting
  /\ UNCHANGED <<refVars, prOnly, todo, verified, made, recordVars, published, removed, late>>

\* A push is never forced: origin's tip must be in what is pushed.
PushTrunk ==
  /\ acting = "push-trunk" /\ acting' = "none" /\ phase' = "apply"
  /\ \/ UNCHANGED <<origin, tracking, published>>
     \/ /\ origin["trunk"] \subseteq local["trunk"]
        /\ origin' = [origin EXCEPT !["trunk"] = local["trunk"]]
        /\ tracking' = [tracking EXCEPT !["trunk"] = local["trunk"]]
        /\ published' = published \cup {local["trunk"]}
  /\ UNCHANGED <<local, head, prOnly, todo, verified, made, recordVars, removed, late>>

-----------------------------------------------------------------------------
(* Apply.  An action is checked against the live repository, then its git    *)
(* command runs; a check that fails skips it.                                *)
A == Head(todo)

\* Mutant: the proof is taken on the local trunk, as the survey's was.
MergedHere(t) == t \subseteq local["trunk"]
MergedOnOrigin(t) == t \subseteq tracking["trunk"] \/ (A.byPr /\ PrMerged(t))

OnTrunkAt(t) == head = "trunk" /\ local["trunk"] = t

Passes ==
  CASE A.kind = "push-branch" -> local["feat"] = A.tip
    [] A.kind = "delete-remote" -> A.basis = "merged" => MergedOnOrigin(A.tip)
    [] A.kind = "delete-local" ->
         /\ head # "feat" /\ local["feat"] = A.tip
         /\ A.basis = "merged" => MergedOnOrigin(A.tip)
    [] A.kind = "carry-trunk" ->
         /\ OnTrunkAt(A.tip) /\ tracking["trunk"] \subseteq A.tip
         /\ local["carry"] = NoRef /\ tracking["carry"] = NoRef

Check ==
  /\ phase = "apply" /\ acting = "none" /\ todo # <<>>
  /\ IF ~Passes THEN todo' = Tail(todo) /\ UNCHANGED <<local, acting>>
     ELSE IF A.kind = "carry-trunk"
          THEN acting' = "push-carry" /\ local' = [local EXCEPT !["carry"] = A.tip] /\ UNCHANGED todo
          ELSE acting' = "act" /\ UNCHANGED <<local, todo>>
  /\ UNCHANGED <<origin, tracking, head, phase, prOnly, verified, made, recordVars, published, removed, late>>

ActEnds == acting' = "none" /\ todo' = Tail(todo)

GitFails ==
  /\ acting = "act" /\ ActEnds
  /\ UNCHANGED <<refVars, phase, prOnly, verified, made, recordVars, published, removed, late>>

PushBranch ==
  /\ acting = "act" /\ A.kind = "push-branch" /\ local["feat"] # NoRef /\ ActEnds
  /\ origin["feat"] # NoRef => origin["feat"] \subseteq local["feat"]
  /\ origin' = [origin EXCEPT !["feat"] = local["feat"]]
  /\ tracking' = [tracking EXCEPT !["feat"] = local["feat"]]
  /\ UNCHANGED <<local, head, phase, prOnly, verified, made, recordVars, published, removed, late>>

\* The lease compares the surveyed tip with origin itself.  Mutant: with the
\* tracking ref.
TrackingLease == tracking["feat"] = A.tip
LeaseHolds == origin["feat"] = A.tip

RemovedFor(t) == IF A.basis = "merged" THEN removed \cup {t} ELSE removed

\* The command ran; its line in the log is a step of its own.
ToLog == acting' = "log" /\ gone' = gone \cup {A.tip} /\ UNCHANGED <<todo, deleted, results, killed>>

DeleteRemote ==
  /\ acting = "act" /\ A.kind = "delete-remote" /\ LeaseHolds /\ ToLog
  /\ origin' = [origin EXCEPT !["feat"] = NoRef] /\ tracking' = [tracking EXCEPT !["feat"] = NoRef]
  /\ removed' = RemovedFor(A.tip)
  /\ UNCHANGED <<local, head, phase, prOnly, verified, made, published, late>>

\* `branch -D` refuses the branch HEAD names, and deletes whatever tip it finds.
GitRefuses == head = "feat"

DeleteLocal ==
  /\ acting = "act" /\ A.kind = "delete-local" /\ ~GitRefuses /\ local["feat"] # NoRef /\ ToLog
  /\ local' = [local EXCEPT !["feat"] = NoRef]
  /\ removed' = RemovedFor(local["feat"])
  /\ UNCHANGED <<origin, tracking, head, phase, prOnly, verified, made, published, late>>

\* The line is appended, or that fails and is a warning; the deletion is done
\* either way.  Mutant: the failure takes the result with it.
DoneIfLogged(logged) == IF logged THEN results \cup {A.tip} ELSE results
Done(logged) == results \cup {A.tip}

LogDeletion(logged) ==
  /\ acting = "log" /\ ActEnds
  /\ deleted' = (IF logged THEN deleted \cup {A.tip} ELSE deleted) /\ results' = Done(logged)
  /\ UNCHANGED <<refVars, phase, prOnly, verified, made, killed, gone, published, removed, late>>

\* The carry branch is pushed, then HEAD is checked again.
StillOnTrunk == OnTrunkAt(A.tip)

PushCarry ==
  /\ acting = "push-carry"
  /\ \/ /\ local' = [local EXCEPT !["carry"] = NoRef] /\ ActEnds /\ UNCHANGED <<origin, tracking>>
     \/ /\ origin' = [origin EXCEPT !["carry"] = local["carry"]]
        /\ tracking' = [tracking EXCEPT !["carry"] = local["carry"]]
        /\ UNCHANGED local
        /\ IF StillOnTrunk THEN acting' = "reset" /\ UNCHANGED todo ELSE ActEnds
  /\ UNCHANGED <<head, phase, prOnly, verified, made, recordVars, published, removed, late>>

\* `reset --keep` moves the branch HEAD names.
ResetTrunk ==
  /\ acting = "reset" /\ ActEnds
  /\ local' = [local EXCEPT ![head] = tracking["trunk"]]
  /\ UNCHANGED <<origin, tracking, head, phase, prOnly, verified, made, recordVars, published, removed, late>>

\* A subcommand stops, or the plan ends, also early by an error outside every
\* action: apply.json then has what was done.
EndSync ==
  /\ phase # "over" /\ acting = "none" /\ phase' = "over" /\ todo' = <<>>
  /\ UNCHANGED <<refVars, prOnly, acting, verified, made, recordVars, published, removed, late>>

\* The engine is killed.
DieSync ==
  /\ phase # "over" /\ phase' = "over" /\ acting' = "none" /\ todo' = <<>> /\ killed' = TRUE
  /\ UNCHANGED <<refVars, prOnly, verified, made, deleted, results, gone, published, removed, late>>

-----------------------------------------------------------------------------
(* The user's other terminal.                                               *)
Arrives(commits) == late' = IF acting \in {"none", "log", "push-carry"} THEN late ELSE late \cup commits

UserCommits ==
  /\ made < MaxCommits /\ made' = made + 1
  /\ local' = [local EXCEPT ![head] = @ \cup {made'}] /\ Arrives({made'})
  /\ UNCHANGED <<origin, tracking, head, phase, prOnly, todo, acting, verified, recordVars, published, removed>>

UserChecksOut ==
  /\ \E b \in {"trunk", "feat"} \ {head} : local[b] # NoRef /\ head' = b /\ Arrives(local[b])
  /\ UNCHANGED <<local, origin, tracking, phase, prOnly, todo, acting, verified, made, recordVars, published, removed>>

UserMerges ==
  /\ head = "trunk" /\ local["feat"] # NoRef /\ ~(local["feat"] \subseteq local["trunk"])
  /\ local' = [local EXCEPT !["trunk"] = @ \cup local["feat"]] /\ Arrives(local["feat"])
  /\ UNCHANGED <<origin, tracking, head, phase, prOnly, todo, acting, verified, made, recordVars, published, removed>>

(* The other machine; it deletes a branch that its trunk holds.             *)
OtherMachine ==
  /\ \/ /\ made < MaxCommits /\ made' = made + 1
        /\ \E b \in {"trunk", "feat"} : origin[b] # NoRef /\ origin' = [origin EXCEPT ![b] = @ \cup {made'}]
     \/ /\ origin["feat"] # NoRef /\ origin' = [origin EXCEPT !["trunk"] = @ \cup origin["feat"]] /\ UNCHANGED made
     \/ /\ origin["feat"] # NoRef /\ origin["feat"] \subseteq origin["trunk"]
        /\ origin' = [origin EXCEPT !["feat"] = NoRef] /\ UNCHANGED made
  /\ UNCHANGED <<local, tracking, head, phase, prOnly, todo, acting, verified, recordVars, published, removed, late>>

SyncNext ==
  \/ Sync \/ PlanSync \/ Verify \/ Gate \/ PushTrunk
  \/ Check \/ GitFails \/ PushBranch \/ DeleteRemote \/ DeleteLocal \/ PushCarry \/ ResetTrunk
  \/ (\E logged \in BOOLEAN : LogDeletion(logged)) \/ EndSync \/ DieSync
  \/ UserCommits \/ UserChecksOut \/ UserMerges \/ OtherMachine

SyncSpec == SyncInit /\ [][SyncNext]_syncVars

-----------------------------------------------------------------------------
(* Every commit is on a branch of this machine or of origin, or under a tip *)
(* a deletion was run for, whatever either machine does meanwhile, unless   *)
(* the user made it or switched to it between an action's check and its git *)
(* command (git-sync.mjs apply, references/design.md section 10).           *)
NothingLost == (1..made) \subseteq Held(local) \cup Held(origin) \cup (UNION gone) \cup late

(* The tip of every deletion but the one at work is in deleted.log or, when *)
(* its line could not be written, in apply.json; only a kill loses one, the *)
(* deletion's whose line was next, and those apply.json alone was to have   *)
(* (logDeletion and its R36, apply).                                        *)
DeletionsAreRecorded ==
  /\ ~killed => gone \subseteq deleted \cup results \cup (IF acting = "log" THEN {A.tip} ELSE {})
  /\ \A s, t \in gone \ (deleted \cup results) : s = t

(* A tip deleted because it is merged is on origin's trunk, also when the   *)
(* trunk whose copy proved it was never pushed (mergedOnOrigin).            *)
MergedIsPublished == \A t \in removed : t \subseteq origin["trunk"] \cup late

(* push-trunk publishes only what the checks ran on (pushTrunk).            *)
PushedIsVerified == \A t \in published : t \subseteq verified \cup late

(* All four: a run of the skill loses nothing, records what it deletes,     *)
(* deletes as merged only what is published and publishes only what was     *)
(* checked.                                                                 *)
SyncIsSafe == NothingLost /\ DeletionsAreRecorded /\ MergedIsPublished /\ PushedIsVerified

(* The tip of every deleted branch is in deleted.log (references/design.md  *)
(* section 10, invariant 7), its line not yet written and unwritable aside. *)
EveryTipIsLogged == acting = "log" \/ killed \/ removed \subseteq deleted \cup results
=============================================================================
