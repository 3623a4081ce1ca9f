-------------------------- MODULE BackgroundProofs --------------------------
(***************************************************************************)
(* What is proved of the components that work with no page open: one run   *)
(* of the git-sync skill, for any number of commits; then the              *)
(* specification the background run checks.  Each behaviour of it is one   *)
(* of every component's own specification, so that what is proved here and *)
(* in ReaderProofs of one component holds of it too.                       *)
(***************************************************************************)
EXTENDS MCBackground, ReaderProofs

(* The git-sync skill: what one run loses, deletes and publishes.           *)
\* Where the run is while it works, and that an action then is at hand.
Pending ==
  /\ acting = "push-trunk" => phase = "verify"
  /\ acting \in {"act", "log", "push-carry", "reset"} => phase = "apply" /\ todo # <<>>

\* Origin's trunk only grows, and is fetched or pushed whole.
OriginIsAhead == tracking["trunk"] # NoRef /\ tracking["trunk"] \subseteq origin["trunk"]

\* The checks come before the first push.
VerifiedFirst == phase \in {"preflight", "sync", "plan"} => published = {}

\* What push-trunk is about to push was checked.
PushIsVerified ==
  acting = "push-trunk" => verified # NoRef /\ local["trunk"] \subseteq verified \cup late

\* What delete-local is about to delete is what was planned.
LocalIsPlanned ==
  acting = "act" /\ A.kind = "delete-local" /\ local["feat"] # NoRef => local["feat"] \subseteq A.tip \cup late

\* A merge that was proved stays proved.
ProofStands ==
  acting = "act" /\ A.kind \in {"delete-remote", "delete-local"} /\ A.basis = "merged"
    => A.tip \subseteq origin["trunk"]

\* Nobody else has a carry branch.  Before it is pushed origin has none, and
\* the trunk keeps what it holds until it is reset.
CarryIsTrunk ==
  /\ tracking["carry"] = origin["carry"]
  /\ acting = "push-carry" =>
       local["carry"] = A.tip /\ A.tip \subseteq local["trunk"] /\ origin["carry"] = NoRef
ResetIsCarried ==
  acting = "reset" => local["carry"] # NoRef /\ local[head] \subseteq local["carry"] \cup late

\* A killed run does nothing more.
KilledIsOver == killed => phase = "over"

SyncInv ==
  /\ SyncTypeOK /\ Pending /\ OriginIsAhead /\ VerifiedFirst /\ PushIsVerified
  /\ LocalIsPlanned /\ ProofStands /\ CarryIsTrunk /\ ResetIsCarried
  /\ NothingLost /\ DeletionsAreRecorded /\ KilledIsOver /\ MergedIsPublished /\ PushedIsVerified

-----------------------------------------------------------------------------
(* The operators of the model.                                              *)

\* What a set of refs holds, commit by commit.
LEMMA HeldBy ==
  ASSUME NEW refs, NEW c
  PROVE  c \in Held(refs) <=> \E b \in Refs : refs[b] # NoRef /\ c \in refs[b]
  BY DEF Held

\* The action to run, and the rest of the plan.
LEMMA NextAction ==
  ASSUME SyncTypeOK, todo # <<>>
  PROVE  A \in SyncActions /\ Tail(todo) \in Seq(SyncActions)
<1>1. todo \in Seq(SyncActions)
  BY DEF SyncTypeOK
<1> QED BY <1>1 DEF A

\* No tip is taken for the absence of one.
LEMMA TipsAreNoRef == NoRef \notin Tips
  BY NoRefAssumption DEF Tips, Commits

\* Every answer is a list of actions.
LEMMA AnswersType ==
  ASSUME SyncTypeOK, NEW gh \in BOOLEAN, NEW age \in BOOLEAN
  PROVE  Answers(gh, age) \subseteq Seq(SyncActions)
<1>1. /\ local["feat"] \in Tips \cup {NoRef} /\ tracking["feat"] \in Tips \cup {NoRef}
      /\ local["trunk"] \in Tips
  BY DEF SyncTypeOK, Refs
<1>2. ASSUME NEW basis \in {"merged", "picked"}, NEW byPr \in BOOLEAN
      PROVE  Deletions(basis, byPr) \in Seq(SyncActions)
  <2> DEFINE Act(kind, t) ==
        IF t = NoRef THEN <<>> ELSE <<[kind |-> kind, tip |-> t, basis |-> basis, byPr |-> byPr]>>
  <2>1. ASSUME NEW kind \in {"delete-remote", "delete-local"}, NEW t \in Tips \cup {NoRef}
        PROVE  Act(kind, t) \in Seq(SyncActions)
    <3>1. CASE t = NoRef
      BY <3>1
    <3>2. CASE t # NoRef
      <4>1. [kind |-> kind, tip |-> t, basis |-> basis, byPr |-> byPr] \in SyncActions
        BY <3>2 DEF SyncActions
      <4> QED BY <3>2, <4>1
    <3> QED BY <3>1, <3>2
  <2>2. Deletions(basis, byPr) = Act("delete-remote", tracking["feat"]) \o Act("delete-local", local["feat"])
    BY DEF Deletions
  <2>3. Act("delete-remote", tracking["feat"]) \in Seq(SyncActions)
    BY <1>1, <2>1
  <2>4. Act("delete-local", local["feat"]) \in Seq(SyncActions)
    BY <1>1, <2>1
  <2> HIDE DEF Act
  <2> QED BY <2>2, <2>3, <2>4
<1>3. local["feat"] # NoRef => Push \in Seq(SyncActions)
  BY <1>1 DEF Push, SyncActions
<1>4. CarryIt \in Seq(SyncActions)
  BY <1>1 DEF CarryIt, SyncActions
<1>5. (~(FirstTip \subseteq SurveyRef)) \in BOOLEAN
  <2>1. CASE FirstTip \subseteq SurveyRef
    BY <2>1
  <2>2. CASE ~(FirstTip \subseteq SurveyRef)
    BY <2>2
  <2> QED BY <2>1, <2>2
<1> DEFINE
     IsMerged == Deletions("merged", ~(FirstTip \subseteq SurveyRef))
     Picked == Deletions("picked", FALSE)
     Branch == IF head = "feat" \/ FeatTips = {} THEN {<<>>}
               ELSE IF FeatMerged(gh) THEN {<<>>, IsMerged}
               ELSE IF age THEN {<<>>, Picked}
               ELSE IF local["feat"] # NoRef /\ FeatAhead THEN {<<>>, Push} ELSE {<<>>}
     Carry == IF prOnly /\ TrunkAhead THEN {<<>>, CarryIt} ELSE {<<>>}
<1>6. ASSUME NEW b \in Branch PROVE b \in Seq(SyncActions)
  <2>1. IsMerged \in Seq(SyncActions)
    BY <1>2, <1>5
  <2>2. Picked \in Seq(SyncActions)
    BY <1>2
  <2>3. <<>> \in Seq(SyncActions)
    OBVIOUS
  <2> HIDE DEF IsMerged, Picked
  <2>4. b = <<>> \/ b = IsMerged \/ b = Picked \/ (local["feat"] # NoRef /\ b = Push)
    BY <1>6
  <2> QED BY <1>3, <2>1, <2>2, <2>3, <2>4
<1>7. ASSUME NEW c \in Carry PROVE c \in Seq(SyncActions)
  <2>1. c = <<>> \/ c = CarryIt
    BY <1>7
  <2>2. <<>> \in Seq(SyncActions)
    OBVIOUS
  <2> QED BY <1>4, <2>1, <2>2
<1>8. Answers(gh, age) = {b \o c : b \in Branch, c \in Carry}
  BY DEF Answers
<1> HIDE DEF Branch, Carry
<1>9. ASSUME NEW b \in Branch, NEW c \in Carry PROVE b \o c \in Seq(SyncActions)
  BY <1>6, <1>7, ConcatProperties
<1> SUFFICES ASSUME NEW x \in Answers(gh, age) PROVE x \in Seq(SyncActions)
  OBVIOUS
<1>10. \E b \in Branch, c \in Carry : x = b \o c
  BY <1>8
<1> QED BY <1>9, <1>10

\* Refs that only grow hold what they held.
LEMMA HeldGrows ==
  ASSUME NEW refs, NEW grown,
         \A b \in Refs : refs[b] # NoRef => grown[b] # NoRef /\ refs[b] \subseteq grown[b]
  PROVE  Held(refs) \subseteq Held(grown)
  BY HeldBy

\* Where one ref is replaced, only what it held can go.
LEMMA HeldBut ==
  ASSUME NEW refs, NEW after, NEW b \in Refs, \A x \in Refs \ {b} : after[x] = refs[x],
         NEW kept, refs[b] # NoRef => refs[b] \subseteq kept
  PROVE  Held(refs) \subseteq Held(after) \cup kept
  BY HeldBy

\* What is held stays held when every place that gives something up leaves it
\* in another.
LEMMA StillHeld ==
  ASSUME NothingLost, made' = made,
         Held(local) \subseteq Held(local)' \cup Held(origin)' \cup (UNION gone') \cup late',
         Held(origin) \subseteq Held(local)' \cup Held(origin)' \cup (UNION gone') \cup late',
         gone \subseteq gone', late \subseteq late'
  PROVE  NothingLost'
  BY DEF NothingLost

\* A commit the user or the other machine makes is on a branch.
LEMMA NewIsHeld ==
  ASSUME NothingLost, made \in Nat, made' = made + 1,
         Held(local) \subseteq Held(local)', Held(origin) \subseteq Held(origin)',
         made' \in Held(local)' \cup Held(origin)',
         gone \subseteq gone', late \subseteq late'
  PROVE  NothingLost'
<1>1. 1..made' = (1..made) \cup {made'}
  OBVIOUS
<1> QED BY <1>1 DEF NothingLost

\* A step that writes no record and leaves the log line to write, if any, where it
\* was keeps what is recorded.
LEMMA RecordsStand ==
  ASSUME DeletionsAreRecorded, KilledIsOver, UNCHANGED recordVars,
         acting = "log" => acting' = "log" /\ A' = A,
         phase = "over" => phase' = "over"
  PROVE  DeletionsAreRecorded' /\ KilledIsOver'
BY DEF DeletionsAreRecorded, KilledIsOver, recordVars

-----------------------------------------------------------------------------
LEMMA SyncInitInv == SyncInit => SyncInv
<1> SUFFICES ASSUME SyncInit PROVE SyncInv
  OBVIOUS
<1>1. SyncTypeOK
  <2>1. /\ {} \in Tips /\ {1} \in Tips /\ MaxCommits \in Nat \ {0} /\ {} # NoRef /\ {1} # NoRef
    BY SyncBounds, TipsAreNoRef DEF Tips, Commits
  <2>2. /\ local \in [Refs -> Tips \cup {NoRef}] /\ origin \in [Refs -> Tips \cup {NoRef}] /\ tracking = origin
        /\ local["trunk"] = {} /\ local["feat"] = {1} /\ origin["trunk"] = {}
    BY <2>1 DEF SyncInit, Refs
  <2>3. deleted \subseteq Tips /\ results \subseteq Tips /\ gone \subseteq Tips /\ published \subseteq Tips /\ removed \subseteq Tips
        /\ late \subseteq Commits /\ todo \in Seq(SyncActions) /\ made \in 0..MaxCommits
    BY <2>1 DEF SyncInit
  <2>4. local[head] # NoRef
    BY <2>1, <2>2 DEF SyncInit
  <2> QED BY <2>1, <2>2, <2>3, <2>4 DEF SyncInit, SyncTypeOK
<1>2. NothingLost
  <2>1. local["feat"] = {1} /\ "feat" \in Refs /\ {1} \in Tips
    BY SyncBounds DEF SyncInit, Refs, Tips, Commits
  <2>2. 1 \in Held(local)
    BY <2>1, HeldBy, TipsAreNoRef
  <2>3. 1..made = {1}
    BY DEF SyncInit
  <2> QED BY <2>2, <2>3 DEF NothingLost
<1>3. OriginIsAhead /\ CarryIsTrunk
  <2>1. tracking["trunk"] = {} /\ origin["trunk"] = {}
    BY DEF SyncInit, Refs
  <2> QED BY <2>1, TipsAreNoRef DEF SyncInit, OriginIsAhead, CarryIsTrunk, Tips
<1>4. VerifiedFirst /\ Pending /\ PushIsVerified /\ LocalIsPlanned /\ ProofStands
      /\ ResetIsCarried /\ MergedIsPublished /\ PushedIsVerified
  BY DEF SyncInit, VerifiedFirst, Pending, PushIsVerified, LocalIsPlanned, ProofStands,
         ResetIsCarried, MergedIsPublished, PushedIsVerified
<1>5. DeletionsAreRecorded /\ KilledIsOver
  BY DEF SyncInit, DeletionsAreRecorded, KilledIsOver
<1> QED BY <1>1, <1>2, <1>3, <1>4, <1>5 DEF SyncInv

\* Fetch and rebase: nothing runs yet, and the trunk grows.
LEMMA SyncKeeps == ASSUME SyncInv, Sync PROVE SyncInv'
<1>1. SyncTypeOK'
  BY TipsAreNoRef DEF SyncInv, SyncTypeOK, Sync, refVars, recordVars, Refs, Tips, Commits
<1>2. NothingLost'
  <2>1. Held(local) \subseteq Held(local')
    <3>1. \A b \in Refs : local[b] # NoRef => local'[b] # NoRef /\ local[b] \subseteq local'[b]
      BY TipsAreNoRef DEF SyncInv, SyncTypeOK, Sync, refVars, recordVars, Refs, Tips, Commits
    <3> QED BY <3>1, HeldGrows
  <2> QED BY <2>1, StillHeld DEF SyncInv, Sync, refVars, recordVars
<1>3. Pending' /\ OriginIsAhead' /\ VerifiedFirst' /\ PushIsVerified' /\ LocalIsPlanned' /\ ProofStands'
      /\ CarryIsTrunk' /\ ResetIsCarried' /\ MergedIsPublished' /\ PushedIsVerified'
  BY TipsAreNoRef DEF SyncInv, SyncTypeOK, Sync, refVars, recordVars, Refs, A,
         Pending, OriginIsAhead, VerifiedFirst, PushIsVerified, LocalIsPlanned, ProofStands,
         CarryIsTrunk, ResetIsCarried, MergedIsPublished, PushedIsVerified
<1>4. DeletionsAreRecorded' /\ KilledIsOver'
  BY RecordsStand DEF SyncInv, Sync, Pending, recordVars, A
<1> QED BY <1>1, <1>2, <1>3, <1>4 DEF SyncInv

\* The plan touches no ref.
LEMMA PlanKeeps == ASSUME SyncInv, PlanSync PROVE SyncInv'
<1>1. SyncTypeOK'
  BY AnswersType, TipsAreNoRef DEF SyncInv, SyncTypeOK, PlanSync, refVars, recordVars, Refs, Tips, Commits
<1>2. NothingLost'
  BY DEF SyncInv, PlanSync, refVars, recordVars, NothingLost, Held
<1>3. Pending' /\ OriginIsAhead' /\ VerifiedFirst' /\ PushIsVerified' /\ LocalIsPlanned' /\ ProofStands'
      /\ CarryIsTrunk' /\ ResetIsCarried' /\ MergedIsPublished' /\ PushedIsVerified'
  BY AnswersType, TipsAreNoRef DEF SyncInv, SyncTypeOK, PlanSync, refVars, recordVars, Refs, A,
         Pending, OriginIsAhead, VerifiedFirst, PushIsVerified, LocalIsPlanned, ProofStands,
         CarryIsTrunk, ResetIsCarried, MergedIsPublished, PushedIsVerified
<1>4. DeletionsAreRecorded' /\ KilledIsOver'
  BY RecordsStand DEF SyncInv, PlanSync, Pending, recordVars, A
<1> QED BY <1>1, <1>2, <1>3, <1>4 DEF SyncInv

\* Nothing was published before the checks.
LEMMA VerifyKeeps == ASSUME SyncInv, Verify PROVE SyncInv'
<1>1. SyncTypeOK'
  BY TipsAreNoRef DEF SyncInv, SyncTypeOK, Verify, refVars, recordVars, Refs, Tips, Commits
<1>2. NothingLost'
  BY DEF SyncInv, Verify, refVars, recordVars, NothingLost, Held
<1>3. Pending' /\ OriginIsAhead' /\ VerifiedFirst' /\ PushIsVerified' /\ LocalIsPlanned' /\ ProofStands'
      /\ CarryIsTrunk' /\ ResetIsCarried' /\ MergedIsPublished' /\ PushedIsVerified'
  BY TipsAreNoRef DEF SyncInv, SyncTypeOK, Verify, refVars, recordVars, Refs, A,
         Pending, OriginIsAhead, VerifiedFirst, PushIsVerified, LocalIsPlanned, ProofStands,
         CarryIsTrunk, ResetIsCarried, MergedIsPublished, PushedIsVerified
<1>4. DeletionsAreRecorded' /\ KilledIsOver'
  BY RecordsStand DEF SyncInv, Verify, Pending, recordVars, A
<1> QED BY <1>1, <1>2, <1>3, <1>4 DEF SyncInv

\* What passes the gate is the verified trunk.
LEMMA GateKeeps == ASSUME SyncInv, Gate PROVE SyncInv'
<1>1. SyncTypeOK'
  BY TipsAreNoRef DEF SyncInv, SyncTypeOK, Gate, MayPush, TrunkAhead, refVars, recordVars, Refs, Tips, Commits
<1>2. NothingLost'
  BY DEF SyncInv, Gate, MayPush, TrunkAhead, refVars, recordVars, NothingLost, Held
<1>3. Pending' /\ OriginIsAhead' /\ VerifiedFirst' /\ PushIsVerified' /\ LocalIsPlanned' /\ ProofStands'
      /\ CarryIsTrunk' /\ ResetIsCarried' /\ MergedIsPublished' /\ PushedIsVerified'
  BY TipsAreNoRef DEF SyncInv, SyncTypeOK, Gate, MayPush, TrunkAhead, refVars, recordVars, Refs, A,
         Pending, OriginIsAhead, VerifiedFirst, PushIsVerified, LocalIsPlanned, ProofStands,
         CarryIsTrunk, ResetIsCarried, MergedIsPublished, PushedIsVerified
<1>4. DeletionsAreRecorded' /\ KilledIsOver'
  BY RecordsStand DEF SyncInv, Gate, Pending, recordVars, A
<1> QED BY <1>1, <1>2, <1>3, <1>4 DEF SyncInv

\* Origin's trunk grows to what was checked.
LEMMA PushTrunkKeeps == ASSUME SyncInv, PushTrunk PROVE SyncInv'
<1>1. SyncTypeOK'
  <2>1. local["trunk"] \in Tips /\ local["trunk"] # NoRef
    BY DEF SyncInv, SyncTypeOK, Refs
  <2>2. /\ origin' \in [Refs -> Tips \cup {NoRef}] /\ tracking' \in [Refs -> Tips \cup {NoRef}]
        /\ origin'["trunk"] # NoRef /\ published' \subseteq Tips
    BY <2>1 DEF SyncInv, SyncTypeOK, PushTrunk, Refs
  <2> QED BY <2>2 DEF SyncInv, SyncTypeOK, PushTrunk, recordVars
<1>2. NothingLost'
  <2>1. Held(origin) \subseteq Held(origin')
    <3>1. \A b \in Refs : origin[b] # NoRef => origin'[b] # NoRef /\ origin[b] \subseteq origin'[b]
      BY TipsAreNoRef DEF SyncInv, SyncTypeOK, PushTrunk, Refs, Tips, Commits
    <3> QED BY <3>1, HeldGrows
  <2> QED BY <2>1, StillHeld DEF SyncInv, PushTrunk, recordVars
<1>3. Pending' /\ OriginIsAhead' /\ VerifiedFirst' /\ PushIsVerified' /\ LocalIsPlanned' /\ ProofStands'
      /\ CarryIsTrunk' /\ ResetIsCarried' /\ MergedIsPublished' /\ PushedIsVerified'
  BY TipsAreNoRef DEF SyncInv, SyncTypeOK, PushTrunk, refVars, recordVars, Refs, A,
         Pending, OriginIsAhead, VerifiedFirst, PushIsVerified, LocalIsPlanned, ProofStands,
         CarryIsTrunk, ResetIsCarried, MergedIsPublished, PushedIsVerified
<1>4. DeletionsAreRecorded' /\ KilledIsOver'
  BY RecordsStand DEF SyncInv, PushTrunk, Pending, recordVars, A
<1> QED BY <1>1, <1>2, <1>3, <1>4 DEF SyncInv

\* What a check sees holds when the command runs: the proof on origin's trunk,
\* the tip of the local branch, the carry branch in the trunk.
LEMMA CheckKeeps == ASSUME SyncInv, Check PROVE SyncInv'
<1>1. SyncTypeOK'
  <2>1. todo \in Seq(SyncActions) /\ todo # <<>> /\ A \in SyncActions /\ Tail(todo) \in Seq(SyncActions)
    BY NextAction DEF SyncInv, SyncTypeOK, Pending, Check
  <2>2. local' \in [Refs -> Tips \cup {NoRef}] /\ local'[head] # NoRef /\ local'["trunk"] # NoRef /\ acting' \in {"none", "push-carry", "act"} /\ todo' \in Seq(SyncActions)
    BY <2>1, TipsAreNoRef DEF SyncInv, SyncTypeOK, Check, refVars, recordVars, Refs, SyncActions
  <2> QED BY <2>1, <2>2 DEF SyncInv, SyncTypeOK, ActEnds, Check, refVars, recordVars
<1>2. NothingLost'
  <2>1. Held(local) \subseteq Held(local')
    <3>1. local["carry"] = NoRef \/ local' = local
      BY DEF Check, Passes
    <3>2. \A b \in Refs : local[b] # NoRef => local'[b] # NoRef /\ local[b] \subseteq local'[b]
      BY <3>1 DEF SyncInv, SyncTypeOK, Check, Refs
    <3> QED BY <3>2, HeldGrows
  <2> QED BY <2>1, StillHeld DEF SyncInv, Check, recordVars
<1>3. Pending' /\ OriginIsAhead' /\ VerifiedFirst' /\ PushIsVerified' /\ LocalIsPlanned' /\ ProofStands'
      /\ CarryIsTrunk' /\ ResetIsCarried' /\ MergedIsPublished' /\ PushedIsVerified'
  <2>1. todo \in Seq(SyncActions) /\ A \in SyncActions /\ A.tip \in Tips /\ A.tip # NoRef
    BY NextAction, TipsAreNoRef DEF SyncInv, SyncTypeOK, Pending, Check, SyncActions
  <2>2. Pending' /\ OriginIsAhead' /\ VerifiedFirst' /\ PushIsVerified' /\ ResetIsCarried'
        /\ MergedIsPublished' /\ PushedIsVerified'
    BY DEF SyncInv, Check, Pending, OriginIsAhead, VerifiedFirst, PushIsVerified, ResetIsCarried,
           MergedIsPublished, PushedIsVerified
  <2>3. LocalIsPlanned'
    BY <2>1 DEF SyncInv, Check, Passes, LocalIsPlanned, A
  <2>4. ProofStands'
    <3>1. CASE acting' = "act" /\ A.kind \in {"delete-remote", "delete-local"} /\ A.basis = "merged"
      <4>1. MergedOnOrigin(A.tip)
        BY <3>1 DEF Check, Passes
      <4> QED BY <4>1, <3>1 DEF SyncInv, Check, OriginIsAhead, MergedOnOrigin, PrMerged, ProofStands, A
    <3>2. CASE ~(acting' = "act" /\ A.kind \in {"delete-remote", "delete-local"} /\ A.basis = "merged")
      BY <3>2 DEF Check, ProofStands, A
    <3> QED BY <3>1, <3>2
  <2>5. CarryIsTrunk'
    <3>1. CASE acting' = "push-carry"
      <4>1. /\ local["trunk"] = A.tip /\ tracking["carry"] = NoRef /\ todo' = todo
            /\ local' = [local EXCEPT !["carry"] = A.tip]
        BY <3>1 DEF Check, Passes, OnTrunkAt
      <4> QED BY <3>1, <4>1 DEF SyncInv, SyncTypeOK, Check, CarryIsTrunk, A, Refs
    <3>2. CASE acting' # "push-carry"
      BY <3>2 DEF SyncInv, Check, CarryIsTrunk
    <3> QED BY <3>1, <3>2
  <2> QED BY <2>2, <2>3, <2>4, <2>5
<1>4. DeletionsAreRecorded' /\ KilledIsOver'
  BY RecordsStand DEF SyncInv, Check, Pending, recordVars, A
<1> QED BY <1>1, <1>2, <1>3, <1>4 DEF SyncInv

\* A git command that fails changes nothing.
LEMMA FailKeeps == ASSUME SyncInv, GitFails PROVE SyncInv'
<1>1. SyncTypeOK'
  <2>1. todo \in Seq(SyncActions) /\ todo # <<>> /\ A \in SyncActions /\ Tail(todo) \in Seq(SyncActions)
    BY NextAction DEF SyncInv, SyncTypeOK, Pending, GitFails
  <2>2. UNCHANGED <<refVars, recordVars>>
    BY <2>1, TipsAreNoRef DEF SyncInv, SyncTypeOK, GitFails, refVars, recordVars, Refs, SyncActions
  <2> QED BY <2>1, <2>2 DEF SyncInv, SyncTypeOK, ActEnds, GitFails, refVars, recordVars
<1>2. NothingLost'
  BY DEF SyncInv, GitFails, refVars, recordVars, NothingLost, Held
<1>3. Pending' /\ OriginIsAhead' /\ VerifiedFirst' /\ PushIsVerified' /\ LocalIsPlanned' /\ ProofStands'
      /\ CarryIsTrunk' /\ ResetIsCarried' /\ MergedIsPublished' /\ PushedIsVerified'
  <2>1. todo \in Seq(SyncActions) /\ A \in SyncActions
    BY NextAction DEF SyncInv, SyncTypeOK, Pending, GitFails
  <2> QED BY <2>1, TipsAreNoRef
    DEF SyncInv, SyncTypeOK, GitFails, refVars, recordVars, Refs, SyncActions, ActEnds,
        Pending, OriginIsAhead, VerifiedFirst, PushIsVerified, LocalIsPlanned, ProofStands,
        CarryIsTrunk, ResetIsCarried, MergedIsPublished, PushedIsVerified
<1>4. DeletionsAreRecorded' /\ KilledIsOver'
  BY RecordsStand DEF SyncInv, GitFails, Pending, recordVars, A
<1> QED BY <1>1, <1>2, <1>3, <1>4 DEF SyncInv

\* Origin's branch is replaced by one that holds it.
LEMMA PushBranchKeeps == ASSUME SyncInv, PushBranch PROVE SyncInv'
<1>1. SyncTypeOK'
  <2>1. todo \in Seq(SyncActions) /\ todo # <<>> /\ A \in SyncActions /\ Tail(todo) \in Seq(SyncActions)
    BY NextAction DEF SyncInv, SyncTypeOK, Pending, PushBranch
  <2>2. origin' \in [Refs -> Tips \cup {NoRef}] /\ tracking' \in [Refs -> Tips \cup {NoRef}] /\ origin'["trunk"] # NoRef
    BY <2>1, TipsAreNoRef DEF SyncInv, SyncTypeOK, PushBranch, refVars, recordVars, Refs, SyncActions
  <2> QED BY <2>1, <2>2 DEF SyncInv, SyncTypeOK, ActEnds, PushBranch, refVars, recordVars
<1>2. NothingLost'
  <2>1. Held(origin) \subseteq Held(origin')
    <3>1. \A b \in Refs : origin[b] # NoRef => origin'[b] # NoRef /\ origin[b] \subseteq origin'[b]
      BY DEF SyncInv, SyncTypeOK, PushBranch, Refs
    <3> QED BY <3>1, HeldGrows
  <2> QED BY <2>1, StillHeld DEF SyncInv, PushBranch, recordVars
<1>3. Pending' /\ OriginIsAhead' /\ VerifiedFirst' /\ PushIsVerified' /\ LocalIsPlanned' /\ ProofStands'
      /\ CarryIsTrunk' /\ ResetIsCarried' /\ MergedIsPublished' /\ PushedIsVerified'
  <2>1. todo \in Seq(SyncActions) /\ A \in SyncActions
    BY NextAction DEF SyncInv, SyncTypeOK, Pending, PushBranch
  <2> QED BY <2>1, TipsAreNoRef
    DEF SyncInv, SyncTypeOK, PushBranch, refVars, recordVars, Refs, SyncActions, ActEnds,
        Pending, OriginIsAhead, VerifiedFirst, PushIsVerified, LocalIsPlanned, ProofStands,
        CarryIsTrunk, ResetIsCarried, MergedIsPublished, PushedIsVerified
<1>4. DeletionsAreRecorded' /\ KilledIsOver'
  BY RecordsStand DEF SyncInv, PushBranch, Pending, recordVars, A
<1> QED BY <1>1, <1>2, <1>3, <1>4 DEF SyncInv

\* The lease: what origin's branch held is in deleted.log, and on origin's trunk
\* when that is why it went.
LEMMA DeleteRemoteKeeps == ASSUME SyncInv, DeleteRemote PROVE SyncInv'
<1>1. SyncTypeOK'
  <2>1. todo \in Seq(SyncActions) /\ todo # <<>> /\ A \in SyncActions /\ Tail(todo) \in Seq(SyncActions)
    BY NextAction DEF SyncInv, SyncTypeOK, Pending, DeleteRemote
  <2>2. origin' \in [Refs -> Tips \cup {NoRef}] /\ tracking' \in [Refs -> Tips \cup {NoRef}] /\ origin'["trunk"] # NoRef /\ gone' \subseteq Tips /\ removed' \subseteq Tips
    BY <2>1, TipsAreNoRef DEF SyncInv, SyncTypeOK, DeleteRemote, refVars, recordVars, Refs, SyncActions, RemovedFor, ToLog
  <2> QED BY <2>1, <2>2 DEF SyncInv, SyncTypeOK, ToLog, DeleteRemote, refVars, recordVars
<1>2. NothingLost'
  <2>1. Held(origin) \subseteq Held(origin') \cup A.tip
    <3>1. \A x \in Refs \ {"feat"} : origin'[x] = origin[x]
      BY DEF SyncInv, SyncTypeOK, DeleteRemote, Refs
    <3> QED BY <3>1, HeldBut DEF DeleteRemote, LeaseHolds, Refs
  <2>2. A.tip \subseteq UNION gone'
    BY DEF DeleteRemote, ToLog
  <2> QED BY <2>1, <2>2, StillHeld DEF SyncInv, ToLog, DeleteRemote, recordVars
<1>3. Pending' /\ OriginIsAhead' /\ VerifiedFirst' /\ PushIsVerified' /\ LocalIsPlanned' /\ ProofStands'
      /\ CarryIsTrunk' /\ ResetIsCarried' /\ MergedIsPublished' /\ PushedIsVerified'
  <2>1. todo \in Seq(SyncActions) /\ A \in SyncActions
    BY NextAction DEF SyncInv, SyncTypeOK, Pending, DeleteRemote
  <2> QED BY <2>1, TipsAreNoRef
    DEF SyncInv, SyncTypeOK, DeleteRemote, RemovedFor, LeaseHolds, refVars, recordVars, Refs, SyncActions, ToLog,
        Pending, OriginIsAhead, VerifiedFirst, PushIsVerified, LocalIsPlanned, ProofStands,
        CarryIsTrunk, ResetIsCarried, MergedIsPublished, PushedIsVerified
<1>4. DeletionsAreRecorded' /\ KilledIsOver'
  <2>1. acting = "act" /\ phase = "apply" /\ acting' = "log" /\ phase' = phase /\ gone' = gone \cup {A.tip} /\ A' = A
        /\ deleted' = deleted /\ results' = results /\ killed' = killed
    BY DEF SyncInv, DeleteRemote, ToLog, Pending, A
  <2>2. ~killed /\ gone \subseteq deleted \cup results
    BY <2>1 DEF SyncInv, KilledIsOver, DeletionsAreRecorded
  <2> QED BY <2>1, <2>2 DEF DeletionsAreRecorded, KilledIsOver
<1> QED BY <1>1, <1>2, <1>3, <1>4 DEF SyncInv

\* What the local branch held is in deleted.log, and on origin's trunk when that
\* is why it went, but for what came while the action ran.
LEMMA DeleteLocalKeeps == ASSUME SyncInv, DeleteLocal PROVE SyncInv'
<1>1. SyncTypeOK'
  <2>1. todo \in Seq(SyncActions) /\ todo # <<>> /\ A \in SyncActions /\ Tail(todo) \in Seq(SyncActions)
    BY NextAction DEF SyncInv, SyncTypeOK, Pending, DeleteLocal
  <2>2. local' \in [Refs -> Tips \cup {NoRef}] /\ local'[head] # NoRef /\ local'["trunk"] # NoRef /\ gone' \subseteq Tips /\ removed' \subseteq Tips
    BY <2>1, TipsAreNoRef DEF SyncInv, SyncTypeOK, DeleteLocal, refVars, recordVars, Refs, SyncActions, RemovedFor, ToLog, GitRefuses
  <2> QED BY <2>1, <2>2 DEF SyncInv, SyncTypeOK, ToLog, DeleteLocal, refVars, recordVars
<1>2. NothingLost'
  <2>1. Held(local) \subseteq Held(local') \cup A.tip \cup late
    <3>1. \A x \in Refs \ {"feat"} : local'[x] = local[x]
      BY DEF SyncInv, SyncTypeOK, DeleteLocal, Refs
    <3>2. local["feat"] \subseteq A.tip \cup late
      BY DEF SyncInv, LocalIsPlanned, DeleteLocal
    <3>3. Held(local) \subseteq Held(local') \cup (A.tip \cup late)
      BY <3>1, <3>2, HeldBut DEF Refs
    <3> QED BY <3>3
  <2>2. A.tip \subseteq UNION gone'
    BY DEF DeleteLocal, ToLog
  <2> QED BY <2>1, <2>2, StillHeld DEF SyncInv, ToLog, DeleteLocal, recordVars
<1>3. Pending' /\ OriginIsAhead' /\ VerifiedFirst' /\ PushIsVerified' /\ LocalIsPlanned' /\ ProofStands'
      /\ CarryIsTrunk' /\ ResetIsCarried' /\ MergedIsPublished' /\ PushedIsVerified'
  <2>1. todo \in Seq(SyncActions) /\ A \in SyncActions
    BY NextAction DEF SyncInv, SyncTypeOK, Pending, DeleteLocal
  <2> QED BY <2>1, TipsAreNoRef
    DEF SyncInv, SyncTypeOK, DeleteLocal, RemovedFor, GitRefuses, refVars, recordVars, Refs, SyncActions, ToLog,
        Pending, OriginIsAhead, VerifiedFirst, PushIsVerified, LocalIsPlanned, ProofStands,
        CarryIsTrunk, ResetIsCarried, MergedIsPublished, PushedIsVerified
<1>4. DeletionsAreRecorded' /\ KilledIsOver'
  <2>1. acting = "act" /\ phase = "apply" /\ acting' = "log" /\ phase' = phase /\ gone' = gone \cup {A.tip} /\ A' = A
        /\ deleted' = deleted /\ results' = results /\ killed' = killed
    BY DEF SyncInv, DeleteLocal, ToLog, Pending, A
  <2>2. ~killed /\ gone \subseteq deleted \cup results
    BY <2>1 DEF SyncInv, KilledIsOver, DeletionsAreRecorded
  <2> QED BY <2>1, <2>2 DEF DeletionsAreRecorded, KilledIsOver
<1> QED BY <1>1, <1>2, <1>3, <1>4 DEF SyncInv

\* The deletion at work is among what apply did, and in the log if it can be.
LEMMA LogKeeps == ASSUME SyncInv, NEW logged \in BOOLEAN, LogDeletion(logged) PROVE SyncInv'
<1>1. todo \in Seq(SyncActions) /\ todo # <<>> /\ A \in SyncActions /\ Tail(todo) \in Seq(SyncActions) /\ A.tip \in Tips
  BY NextAction DEF SyncInv, SyncTypeOK, Pending, LogDeletion, SyncActions
<1>2. /\ acting = "log" /\ acting' = "none" /\ phase' = phase /\ todo' = Tail(todo) /\ UNCHANGED <<refVars, killed, gone, late, made>>
      /\ results' = results \cup {A.tip} /\ (deleted' = deleted \/ deleted' = deleted \cup {A.tip})
  BY DEF LogDeletion, ActEnds, Done
<1>3. SyncTypeOK'
  BY <1>1, <1>2 DEF SyncInv, SyncTypeOK, LogDeletion, refVars
<1>4. NothingLost'
  BY <1>2 DEF SyncInv, refVars, NothingLost, Held
<1>5. Pending' /\ OriginIsAhead' /\ VerifiedFirst' /\ PushIsVerified' /\ LocalIsPlanned' /\ ProofStands'
      /\ CarryIsTrunk' /\ ResetIsCarried' /\ MergedIsPublished' /\ PushedIsVerified'
  BY <1>2 DEF SyncInv, LogDeletion, refVars,
         Pending, OriginIsAhead, VerifiedFirst, PushIsVerified, LocalIsPlanned, ProofStands,
         CarryIsTrunk, ResetIsCarried, MergedIsPublished, PushedIsVerified
<1>6. DeletionsAreRecorded' /\ KilledIsOver'
  <2>1. phase = "apply" /\ ~killed /\ gone \subseteq deleted \cup results \cup {A.tip}
    BY <1>2 DEF SyncInv, Pending, KilledIsOver, DeletionsAreRecorded
  <2> QED BY <1>2, <2>1 DEF DeletionsAreRecorded, KilledIsOver
<1> QED BY <1>3, <1>4, <1>5, <1>6 DEF SyncInv

\* The carry branch is on origin, or the trunk still has what it had.
LEMMA PushCarryKeeps == ASSUME SyncInv, PushCarry PROVE SyncInv'
<1>1. SyncTypeOK'
  <2>1. todo \in Seq(SyncActions) /\ todo # <<>> /\ A \in SyncActions /\ Tail(todo) \in Seq(SyncActions)
    BY NextAction DEF SyncInv, SyncTypeOK, Pending, PushCarry
  <2>2. local' \in [Refs -> Tips \cup {NoRef}] /\ local'[head] # NoRef /\ local'["trunk"] # NoRef
        /\ origin' \in [Refs -> Tips \cup {NoRef}] /\ tracking' \in [Refs -> Tips \cup {NoRef}] /\ origin'["trunk"] # NoRef /\ acting' \in {"none", "reset"} /\ todo' \in Seq(SyncActions)
    BY <2>1, TipsAreNoRef DEF SyncInv, SyncTypeOK, PushCarry, refVars, recordVars, Refs, SyncActions, CarryIsTrunk, ActEnds
  <2> QED BY <2>1, <2>2 DEF SyncInv, SyncTypeOK, ActEnds, PushCarry, refVars, recordVars
<1>2. NothingLost'
  <2>1. CASE local' = [local EXCEPT !["carry"] = NoRef] /\ UNCHANGED origin
    <3>1. Held(local) \subseteq Held(local')
      <4>1. \A x \in Refs \ {"carry"} : local'[x] = local[x]
        BY <2>1 DEF SyncInv, SyncTypeOK, Refs
      <4>2. local["carry"] \subseteq local["trunk"]
        BY DEF SyncInv, CarryIsTrunk, PushCarry
      <4>3. local["trunk"] \subseteq Held(local')
        BY <4>1, HeldBy DEF SyncInv, SyncTypeOK, Refs
      <4> QED BY <4>1, <4>2, <4>3, HeldBut DEF Refs
    <3> QED BY <2>1, <3>1, StillHeld DEF SyncInv, PushCarry, recordVars
  <2>2. CASE origin' = [origin EXCEPT !["carry"] = local["carry"]] /\ UNCHANGED local
    <3>1. Held(origin) \subseteq Held(origin')
      <4>1. origin["carry"] = NoRef
        BY DEF SyncInv, CarryIsTrunk, PushCarry
      <4>2. \A b \in Refs : origin[b] # NoRef => origin'[b] # NoRef /\ origin[b] \subseteq origin'[b]
        BY <2>2, <4>1 DEF SyncInv, SyncTypeOK, Refs
      <4> QED BY <4>2, HeldGrows
    <3> QED BY <2>2, <3>1, StillHeld DEF SyncInv, PushCarry, recordVars
  <2> QED BY <2>1, <2>2 DEF PushCarry
<1>3. Pending' /\ OriginIsAhead' /\ VerifiedFirst' /\ PushIsVerified' /\ LocalIsPlanned' /\ ProofStands'
      /\ CarryIsTrunk' /\ ResetIsCarried' /\ MergedIsPublished' /\ PushedIsVerified'
  <2>1. todo \in Seq(SyncActions) /\ A \in SyncActions
    BY NextAction DEF SyncInv, SyncTypeOK, Pending, PushCarry
  <2> QED BY <2>1, TipsAreNoRef
    DEF SyncInv, SyncTypeOK, PushCarry, StillOnTrunk, OnTrunkAt, refVars, recordVars, Refs, SyncActions, ActEnds,
        Pending, OriginIsAhead, VerifiedFirst, PushIsVerified, LocalIsPlanned, ProofStands,
        CarryIsTrunk, ResetIsCarried, MergedIsPublished, PushedIsVerified
<1>4. DeletionsAreRecorded' /\ KilledIsOver'
  BY RecordsStand DEF SyncInv, PushCarry, Pending, recordVars, A
<1> QED BY <1>1, <1>2, <1>3, <1>4 DEF SyncInv

\* What the reset takes off the trunk is on the carry branch.
LEMMA ResetKeeps == ASSUME SyncInv, ResetTrunk PROVE SyncInv'
<1>1. SyncTypeOK'
  <2>1. todo \in Seq(SyncActions) /\ todo # <<>> /\ A \in SyncActions /\ Tail(todo) \in Seq(SyncActions)
    BY NextAction DEF SyncInv, SyncTypeOK, Pending, ResetTrunk
  <2>2. local' \in [Refs -> Tips \cup {NoRef}] /\ local'[head] # NoRef /\ local'["trunk"] # NoRef
    BY <2>1, TipsAreNoRef DEF SyncInv, SyncTypeOK, ResetTrunk, refVars, recordVars, Refs, SyncActions, OriginIsAhead
  <2> QED BY <2>1, <2>2 DEF SyncInv, SyncTypeOK, ActEnds, ResetTrunk, refVars, recordVars
<1>2. NothingLost'
  <2>1. Held(local) \subseteq Held(local') \cup late
    <3>1. head \in Refs /\ head # "carry"
      BY DEF SyncInv, SyncTypeOK, Refs
    <3>2. \A x \in Refs \ {head} : local'[x] = local[x]
      BY <3>1 DEF SyncInv, SyncTypeOK, ResetTrunk, Refs
    <3>3. local[head] \subseteq local["carry"] \cup late /\ local["carry"] # NoRef
      BY DEF SyncInv, ResetIsCarried, ResetTrunk
    <3>4. local["carry"] \subseteq Held(local')
      BY <3>1, <3>2, <3>3, HeldBy DEF Refs
    <3>5. Held(local) \subseteq Held(local') \cup (Held(local') \cup late)
      BY <3>1, <3>2, <3>3, <3>4, HeldBut
    <3> QED BY <3>5
  <2> QED BY <2>1, StillHeld DEF SyncInv, ResetTrunk, recordVars
<1>3. Pending' /\ OriginIsAhead' /\ VerifiedFirst' /\ PushIsVerified' /\ LocalIsPlanned' /\ ProofStands'
      /\ CarryIsTrunk' /\ ResetIsCarried' /\ MergedIsPublished' /\ PushedIsVerified'
  <2>1. todo \in Seq(SyncActions) /\ A \in SyncActions
    BY NextAction DEF SyncInv, SyncTypeOK, Pending, ResetTrunk
  <2> QED BY <2>1, TipsAreNoRef
    DEF SyncInv, SyncTypeOK, ResetTrunk, refVars, recordVars, Refs, SyncActions, ActEnds,
        Pending, OriginIsAhead, VerifiedFirst, PushIsVerified, LocalIsPlanned, ProofStands,
        CarryIsTrunk, ResetIsCarried, MergedIsPublished, PushedIsVerified
<1>4. DeletionsAreRecorded' /\ KilledIsOver'
  BY RecordsStand DEF SyncInv, ResetTrunk, Pending, recordVars, A
<1> QED BY <1>1, <1>2, <1>3, <1>4 DEF SyncInv

\* The run ends.
LEMMA EndKeeps == ASSUME SyncInv, EndSync PROVE SyncInv'
<1>1. SyncTypeOK'
  BY TipsAreNoRef DEF SyncInv, SyncTypeOK, EndSync, refVars, recordVars, Refs, Tips, Commits
<1>2. NothingLost'
  BY DEF SyncInv, EndSync, refVars, recordVars, NothingLost, Held
<1>3. Pending' /\ OriginIsAhead' /\ VerifiedFirst' /\ PushIsVerified' /\ LocalIsPlanned' /\ ProofStands'
      /\ CarryIsTrunk' /\ ResetIsCarried' /\ MergedIsPublished' /\ PushedIsVerified'
  BY TipsAreNoRef DEF SyncInv, SyncTypeOK, EndSync, refVars, recordVars, Refs, A,
         Pending, OriginIsAhead, VerifiedFirst, PushIsVerified, LocalIsPlanned, ProofStands,
         CarryIsTrunk, ResetIsCarried, MergedIsPublished, PushedIsVerified
<1>4. DeletionsAreRecorded' /\ KilledIsOver'
  BY RecordsStand DEF SyncInv, EndSync, Pending, recordVars, A
<1> QED BY <1>1, <1>2, <1>3, <1>4 DEF SyncInv

\* The engine dies, and what it had still to log is all that is not recorded.
LEMMA DieKeeps == ASSUME SyncInv, DieSync PROVE SyncInv'
<1>1. SyncTypeOK'
  BY TipsAreNoRef DEF SyncInv, SyncTypeOK, DieSync, refVars, Refs, Tips, Commits
<1>2. NothingLost'
  BY DEF SyncInv, DieSync, refVars, NothingLost, Held
<1>3. Pending' /\ OriginIsAhead' /\ VerifiedFirst' /\ PushIsVerified' /\ LocalIsPlanned' /\ ProofStands'
      /\ CarryIsTrunk' /\ ResetIsCarried' /\ MergedIsPublished' /\ PushedIsVerified'
  BY TipsAreNoRef DEF SyncInv, SyncTypeOK, DieSync, refVars, Refs, A,
         Pending, OriginIsAhead, VerifiedFirst, PushIsVerified, LocalIsPlanned, ProofStands,
         CarryIsTrunk, ResetIsCarried, MergedIsPublished, PushedIsVerified
<1>4. DeletionsAreRecorded' /\ KilledIsOver'
  BY DEF SyncInv, DieSync, DeletionsAreRecorded, KilledIsOver
<1> QED BY <1>1, <1>2, <1>3, <1>4 DEF SyncInv

\* The user's commit is on the branch HEAD names, and late if an action runs.
LEMMA UserCommitKeeps == ASSUME SyncInv, UserCommits PROVE SyncInv'
<1>1. SyncTypeOK'
  <2>1. made' \in 0..MaxCommits /\ local[head] \in Tips /\ head \in Refs
    BY SyncBounds DEF SyncInv, SyncTypeOK, UserCommits, Refs, recordVars
  <2>2. local[head] \cup {made'} \in Tips /\ late' \subseteq Commits
    BY <2>1, SyncBounds DEF SyncInv, SyncTypeOK, UserCommits, Arrives, Tips, Commits, recordVars
  <2>3. local' \in [Refs -> Tips \cup {NoRef}] /\ local'[head] # NoRef /\ local'["trunk"] # NoRef
    <3>1. local' = [local EXCEPT ![head] = local[head] \cup {made'}]
      BY DEF UserCommits
    <3>2. local \in [Refs -> Tips \cup {NoRef}] /\ local["trunk"] # NoRef /\ "trunk" \in Refs
      BY DEF SyncInv, SyncTypeOK, Refs
    <3> QED BY <2>1, <2>2, <3>1, <3>2, TipsAreNoRef
  <2> QED BY <2>1, <2>2, <2>3 DEF SyncInv, SyncTypeOK, UserCommits, recordVars
<1>2. NothingLost'
  <2>1. head \in Refs /\ local[head] \in Tips /\ local[head] # NoRef /\ made \in Nat /\ made' = made + 1
        /\ made' \in Commits
    BY SyncBounds DEF SyncInv, SyncTypeOK, UserCommits, Refs, Commits, recordVars
  <2>2. local'[head] = local[head] \cup {made'} /\ local'[head] # NoRef
    BY <2>1, TipsAreNoRef DEF SyncInv, SyncTypeOK, UserCommits, Tips, recordVars
  <2>3. \A b \in Refs : local[b] # NoRef => local'[b] # NoRef /\ local[b] \subseteq local'[b]
    BY <2>1, <2>2 DEF SyncInv, SyncTypeOK, UserCommits, recordVars
  <2>4. made' \in Held(local')
    BY <2>1, <2>2, HeldBy
  <2>5. gone \subseteq gone' /\ late \subseteq late' /\ origin' = origin
    BY DEF UserCommits, Arrives, recordVars
  <2> QED BY <2>1, <2>3, <2>4, <2>5, HeldGrows, NewIsHeld DEF SyncInv
<1>3. Pending' /\ OriginIsAhead' /\ VerifiedFirst' /\ PushIsVerified' /\ LocalIsPlanned' /\ ProofStands'
      /\ CarryIsTrunk' /\ ResetIsCarried' /\ MergedIsPublished' /\ PushedIsVerified'
  BY TipsAreNoRef DEF SyncInv, SyncTypeOK, UserCommits, Arrives, refVars, recordVars, Refs, A,
         Pending, OriginIsAhead, VerifiedFirst, PushIsVerified, LocalIsPlanned, ProofStands,
         CarryIsTrunk, ResetIsCarried, MergedIsPublished, PushedIsVerified
<1>4. DeletionsAreRecorded' /\ KilledIsOver'
  BY RecordsStand DEF SyncInv, UserCommits, Pending, recordVars, A
<1> QED BY <1>1, <1>2, <1>3, <1>4 DEF SyncInv

\* HEAD moves, and what it moves to is late if an action runs.
LEMMA UserChecksOutKeeps == ASSUME SyncInv, UserChecksOut PROVE SyncInv'
<1>1. SyncTypeOK'
  BY TipsAreNoRef DEF SyncInv, SyncTypeOK, UserChecksOut, Arrives, refVars, recordVars, Refs, Tips, Commits
<1>2. NothingLost'
  BY DEF SyncInv, UserChecksOut, Arrives, refVars, recordVars, NothingLost, Held
<1>3. Pending' /\ OriginIsAhead' /\ VerifiedFirst' /\ PushIsVerified' /\ LocalIsPlanned' /\ ProofStands'
      /\ CarryIsTrunk' /\ ResetIsCarried' /\ MergedIsPublished' /\ PushedIsVerified'
  BY TipsAreNoRef DEF SyncInv, SyncTypeOK, UserChecksOut, Arrives, refVars, recordVars, Refs, A,
         Pending, OriginIsAhead, VerifiedFirst, PushIsVerified, LocalIsPlanned, ProofStands,
         CarryIsTrunk, ResetIsCarried, MergedIsPublished, PushedIsVerified
<1>4. DeletionsAreRecorded' /\ KilledIsOver'
  BY RecordsStand DEF SyncInv, UserChecksOut, Pending, recordVars, A
<1> QED BY <1>1, <1>2, <1>3, <1>4 DEF SyncInv

\* The trunk takes the branch in, which is late if an action runs.
LEMMA UserMergesKeeps == ASSUME SyncInv, UserMerges PROVE SyncInv'
<1>1. SyncTypeOK'
  <2>1. local["trunk"] \in Tips /\ local["feat"] \in Tips
    BY DEF SyncInv, SyncTypeOK, UserMerges, Refs
  <2>2. local["trunk"] \cup local["feat"] \in Tips /\ late' \subseteq Commits
    BY <2>1 DEF SyncInv, SyncTypeOK, UserMerges, Arrives, Tips
  <2>3. local' \in [Refs -> Tips \cup {NoRef}] /\ local'[head] # NoRef /\ local'["trunk"] # NoRef
    BY <2>1, <2>2, TipsAreNoRef DEF SyncInv, SyncTypeOK, UserMerges, Refs
  <2> QED BY <2>2, <2>3 DEF SyncInv, SyncTypeOK, UserMerges, recordVars
<1>2. NothingLost'
  <2>1. \A b \in Refs : local[b] # NoRef => local'[b] # NoRef /\ local[b] \subseteq local'[b]
    BY TipsAreNoRef DEF SyncInv, SyncTypeOK, UserMerges, Refs, Tips
  <2>2. gone \subseteq gone' /\ late \subseteq late'
    BY DEF UserMerges, Arrives, recordVars
  <2>3. Held(local) \subseteq Held(local')
    BY <2>1, HeldGrows
  <2> QED BY <2>2, <2>3, StillHeld DEF SyncInv, UserMerges, recordVars
<1>3. Pending' /\ OriginIsAhead' /\ VerifiedFirst' /\ PushIsVerified' /\ LocalIsPlanned' /\ ProofStands'
      /\ CarryIsTrunk' /\ ResetIsCarried' /\ MergedIsPublished' /\ PushedIsVerified'
  BY TipsAreNoRef DEF SyncInv, SyncTypeOK, UserMerges, Arrives, refVars, recordVars, Refs, A,
         Pending, OriginIsAhead, VerifiedFirst, PushIsVerified, LocalIsPlanned, ProofStands,
         CarryIsTrunk, ResetIsCarried, MergedIsPublished, PushedIsVerified
<1>4. DeletionsAreRecorded' /\ KilledIsOver'
  BY RecordsStand DEF SyncInv, UserMerges, Pending, recordVars, A
<1> QED BY <1>1, <1>2, <1>3, <1>4 DEF SyncInv

\* The other machine adds to origin, and takes from it only a branch its trunk
\* holds.
LEMMA OtherMachineKeeps == ASSUME SyncInv, OtherMachine PROVE SyncInv'
<1>1. /\ \A b \in Refs : origin[b] \in Tips \cup {NoRef}
      /\ origin["trunk"] \in Tips /\ origin["trunk"] # NoRef /\ made \in Nat
  BY DEF SyncInv, SyncTypeOK, Refs
<1>2. ASSUME origin' \in [Refs -> Tips \cup {NoRef}], origin["trunk"] \subseteq origin'["trunk"],
             origin'["trunk"] # NoRef, origin'["carry"] = origin["carry"], made' \in 0..MaxCommits, NothingLost'
      PROVE  SyncInv'
  <2>1. SyncTypeOK'
    BY <1>2 DEF SyncInv, SyncTypeOK, OtherMachine, recordVars
  <2>2. Pending' /\ OriginIsAhead' /\ VerifiedFirst' /\ PushIsVerified' /\ LocalIsPlanned' /\ ProofStands'
        /\ CarryIsTrunk' /\ ResetIsCarried' /\ MergedIsPublished' /\ PushedIsVerified'
    BY <1>2 DEF SyncInv, SyncTypeOK, OtherMachine, recordVars, A, Pending, OriginIsAhead, VerifiedFirst, PushIsVerified,
                LocalIsPlanned, ProofStands, CarryIsTrunk, ResetIsCarried, MergedIsPublished, PushedIsVerified
  <2>3. DeletionsAreRecorded' /\ KilledIsOver'
    BY RecordsStand DEF SyncInv, OtherMachine, recordVars, A
  <2> QED BY <1>2, <2>1, <2>2, <2>3 DEF SyncInv
<1>3. ASSUME made < MaxCommits, made' = made + 1, NEW b \in {"trunk", "feat"}, origin[b] # NoRef,
             origin' = [origin EXCEPT ![b] = @ \cup {made'}]
      PROVE  SyncInv'
  <2>1. made' \in 0..MaxCommits /\ made' \in Commits /\ b \in Refs
    BY <1>1, <1>3, SyncBounds DEF Refs, Commits
  <2>2. origin[b] \cup {made'} \in Tips
    BY <1>1, <1>3, <2>1 DEF Tips
  <2>3. origin'[b] = origin[b] \cup {made'} /\ origin'[b] # NoRef /\ origin' \in [Refs -> Tips \cup {NoRef}]
    BY <1>3, <2>1, <2>2, TipsAreNoRef DEF SyncInv, SyncTypeOK
  <2>4. \A x \in Refs : origin[x] # NoRef => origin'[x] # NoRef /\ origin[x] \subseteq origin'[x]
    BY <1>3, <2>1, <2>3 DEF SyncInv, SyncTypeOK
  <2>5. made' \in Held(origin')
    BY <2>1, <2>3, HeldBy
  <2>6. gone' = gone /\ late' = late /\ local' = local
    BY DEF OtherMachine, recordVars
  <2>7. NothingLost'
    <3>1. Held(origin) \subseteq Held(origin')
      BY <2>4, HeldGrows
    <3> QED BY <1>1, <1>3, <2>5, <2>6, <3>1, NewIsHeld DEF SyncInv
  <2>8. origin'["carry"] = origin["carry"]
    BY <1>3, <2>1 DEF SyncInv, SyncTypeOK, Refs
  <2> QED BY <1>1, <1>2, <2>1, <2>3, <2>4, <2>7, <2>8 DEF Refs
<1>4. CASE origin["feat"] # NoRef /\ origin' = [origin EXCEPT !["trunk"] = @ \cup origin["feat"]] /\ UNCHANGED made
  <2>1. origin' \in [Refs -> Tips \cup {NoRef}] /\ origin'["trunk"] = origin["trunk"] \cup origin["feat"]
        /\ origin'["trunk"] \in Tips
    BY <1>1, <1>4 DEF SyncInv, SyncTypeOK, Refs, Tips
  <2>2. \A x \in Refs : origin[x] # NoRef => origin'[x] # NoRef /\ origin[x] \subseteq origin'[x]
    BY <1>1, <1>4, <2>1, TipsAreNoRef DEF SyncInv, SyncTypeOK
  <2>3. NothingLost'
    <3>1. Held(origin) \subseteq Held(origin')
      BY <2>2, HeldGrows
    <3> QED BY <1>4, <3>1, StillHeld DEF SyncInv, OtherMachine, recordVars
  <2>4. origin'["carry"] = origin["carry"] /\ made' \in 0..MaxCommits
    BY <1>4 DEF SyncInv, SyncTypeOK, Refs
  <2> QED BY <1>1, <1>2, <2>1, <2>2, <2>3, <2>4 DEF Refs
<1>5. CASE origin["feat"] # NoRef /\ origin["feat"] \subseteq origin["trunk"]
           /\ origin' = [origin EXCEPT !["feat"] = NoRef] /\ UNCHANGED made
  <2>1. \A x \in Refs \ {"feat"} : origin'[x] = origin[x]
    BY <1>5 DEF SyncInv, SyncTypeOK, Refs
  <2>2. origin["feat"] \subseteq Held(origin')
    BY <1>1, <1>5, <2>1, HeldBy DEF Refs
  <2>3. Held(origin) \subseteq Held(origin')
    BY <2>1, <2>2, HeldBut DEF Refs
  <2>4. NothingLost'
    BY <1>5, <2>3, StillHeld DEF SyncInv, OtherMachine, recordVars
  <2>5. origin' \in [Refs -> Tips \cup {NoRef}] /\ made' \in 0..MaxCommits
    BY <1>5 DEF SyncInv, SyncTypeOK, Refs
  <2> QED BY <1>1, <1>2, <2>1, <2>4, <2>5 DEF Refs
<1> QED BY <1>3, <1>4, <1>5 DEF OtherMachine

-----------------------------------------------------------------------------
(* The inductive invariant holds throughout a run.                          *)
LEMMA SyncInvHolds == SyncSpec => []SyncInv
<1>1. SyncInv /\ [SyncNext]_syncVars => SyncInv'
  <2> SUFFICES ASSUME SyncInv, [SyncNext]_syncVars PROVE SyncInv'
    OBVIOUS
  <2>1. CASE SyncNext
    BY <2>1, SyncKeeps, PlanKeeps, VerifyKeeps, GateKeeps, PushTrunkKeeps, CheckKeeps, FailKeeps, PushBranchKeeps,
       DeleteRemoteKeeps, DeleteLocalKeeps, LogKeeps, PushCarryKeeps, ResetKeeps, EndKeeps, DieKeeps, UserCommitKeeps,
       UserChecksOutKeeps, UserMergesKeeps, OtherMachineKeeps
       DEF SyncNext
  <2>2. CASE UNCHANGED syncVars
    BY <2>2 DEF syncVars, refVars, recordVars, DeletionsAreRecorded, KilledIsOver, SyncInv, SyncTypeOK, A, Pending, OriginIsAhead, VerifiedFirst, PushIsVerified,
                LocalIsPlanned, ProofStands, CarryIsTrunk, ResetIsCarried, NothingLost, Held,
                MergedIsPublished, PushedIsVerified
  <2> QED BY <2>1, <2>2
<1> QED BY SyncInitInv, <1>1, PTL DEF SyncSpec

\* The refs, the plan and the histories are what they should be; HEAD never
\* names a deleted branch and no step deletes a trunk.
THEOREM SyncTypeCorrect == SyncSpec => []SyncTypeOK
<1>1. SyncInv => SyncTypeOK
  BY DEF SyncInv
<1> QED BY SyncInvHolds, <1>1, PTL

(* A run of the skill, whatever is done beside it, loses no commit, deletes *)
(* as merged only what origin's trunk holds and publishes only what was     *)
(* checked; and every deletion is in deleted.log or, when that cannot be    *)
(* written, among the results, but for one when it is killed                *)
(* (git-sync.mjs apply, logDeletion).                                       *)
THEOREM SyncSafety == SyncSpec => []SyncIsSafe
<1>1. SyncInv => SyncIsSafe
  BY DEF SyncInv, SyncIsSafe
<1> QED BY SyncInvHolds, <1>1, PTL

-----------------------------------------------------------------------------
(* The bundle.                                                              *)
\* A behaviour of the run is one of each component.
LEMMA ReaderRuns == MCSpec => ReaderSpec
<1>1. MCInit => ReaderInit
  BY DEF MCInit
<1>2. [MCNext]_mcVars => [ReaderNext]_readerVars
  BY DEF MCNext, mcVars
<1> QED BY <1>1, <1>2, PTL DEF MCSpec, ReaderSpec

LEMMA SpendRuns == MCSpec => LedgerSpec
<1>1. MCInit => LedgerInit
  BY DEF MCInit
<1>2. [MCNext]_mcVars => [LedgerNext]_spendVars
  BY DEF MCNext, mcVars
<1> QED BY <1>1, <1>2, PTL DEF MCSpec, LedgerSpec

LEMMA SyncRuns == MCSpec => SyncSpec
<1>1. MCInit => SyncInit
  BY DEF MCInit
<1>2. [MCNext]_mcVars => [SyncNext]_syncVars
  BY DEF MCNext, mcVars
<1> QED BY <1>1, <1>2, PTL DEF MCSpec, SyncSpec

LEMMA LockRuns == MCSpec => LockInit /\ [][LockNext]_lockVars
<1>1. MCInit => LockInit
  BY DEF MCInit
<1>2. [MCNext]_mcVars => [LockNext]_lockVars
  BY DEF MCNext, mcVars
<1> QED BY <1>1, <1>2, PTL DEF MCSpec

LEMMA PushRuns == MCSpec => PushInit /\ [][PushNext]_pushVars
<1>1. MCInit => PushInit
  BY DEF MCInit
<1>2. [MCNext]_mcVars => [PushNext]_pushVars
  BY DEF MCNext, mcVars
<1> QED BY <1>1, <1>2, PTL DEF MCSpec

LEMMA StepRuns == MCSpec => StepInit /\ [][StepNext]_stepVars
<1>1. MCInit => StepInit
  BY DEF MCInit
<1>2. [MCNext]_mcVars => [StepNext]_stepVars
  BY DEF MCNext, mcVars
<1> QED BY <1>1, <1>2, PTL DEF MCSpec

LEMMA ReconcileRuns == MCSpec => ReconcileSpec
<1>1. MCInit => ReconcileInit
  BY DEF MCInit
<1>2. [MCNext]_mcVars => [ReconcileNext]_recVars
  BY DEF MCNext, mcVars
<1> QED BY <1>1, <1>2, PTL DEF MCSpec, ReconcileSpec

LEMMA ProfileRuns == MCSpec => ProfileSpec
<1>1. MCInit => ProfileInit
  BY DEF MCInit
<1>2. [MCNext]_mcVars => [ProfileNext]_profileVars
  BY DEF MCNext, mcVars
<1> QED BY <1>1, <1>2, PTL DEF MCSpec, ProfileSpec

-----------------------------------------------------------------------------
\* What is read piece by piece while it is appended to comes out whole, and once.
THEOREM ReadersReadOnce == MCSpec => []ReadersAreExact
BY ReaderRuns, ReaderCorrect, SpendRuns, LedgerCorrect, PTL DEF ReadersAreExact

(* In the run that checks it, too, the sync skill deletes nothing that is    *)
(* not kept or, unless it is killed, recorded (git-sync.mjs apply).         *)
THEOREM NoCommitIsLost == MCSpec => []SyncIsSafe
BY SyncRuns, SyncSafety, PTL

-----------------------------------------------------------------------------
\* The lock of a job.  Before its last attempt a wrapper has one left, and as long
\* as no lock of a live wrapper was renamed aside, a free lock has no holder.
Trying == {"off", "link", "read", "rename", "check"}
Holding == RunPhases \cup {"unlock", "unlink"}
AttemptsLeft == \A w \in Wrappers : wpc[w] \in Trying => attempts[w] < MaxAttempts
LockInv == LockTypeOK /\ AttemptsLeft /\ RunnerIsNamed

LEMMA LockInitInv == LockInit => LockInv
<1> SUFFICES ASSUME LockInit PROVE LockInv
  OBVIOUS
<1>1. LockTypeOK
  <2>1. lock \in Texts /\ records \subseteq Wrappers \X RecordKinds /\ moved \in BOOLEAN
    BY DEF LockInit, Texts
  <2>2. wpc \in [LockProcs -> Phases] /\ judged \in [LockProcs -> Texts] /\ aside \in [LockProcs -> Texts]
    BY DEF LockInit, Texts, Phases, GonePhases
  <2>3. attempts \in [Wrappers -> 0..MaxAttempts]
    BY LockBoundsAssumption DEF LockInit
  <2> QED BY <2>1, <2>2, <2>3 DEF LockTypeOK
<1>2. AttemptsLeft
  BY LockBoundsAssumption DEF LockInit, AttemptsLeft
<1>3. RunnerIsNamed
  BY DEF LockInit, RunnerIsNamed, LockHolders, RunPhases, LockProcs
<1> QED BY <1>1, <1>2, <1>3 DEF LockInv

\* A process goes on, and neither it nor anybody else changes the lock.
LEMMA QuietMove ==
  ASSUME LockInv, NEW p \in LockProcs, NEW stop \in Phases, Goto(p, stop), UNCHANGED <<lock, attempts, moved>>,
         judged' \in [LockProcs -> Texts], aside' \in [LockProcs -> Texts], records' \subseteq Wrappers \X RecordKinds,
         stop \in Trying => wpc[p] \in Trying, stop \in Holding => wpc[p] \in Holding
  PROVE  LockInv'
<1>1. wpc' \in [LockProcs -> Phases] /\ wpc'[p] = stop /\ \A q \in LockProcs \ {p} : wpc'[q] = wpc[q]
  BY DEF LockInv, LockTypeOK, Goto
<1>2. LockTypeOK'
  BY <1>1 DEF LockInv, LockTypeOK, Texts
<1>3. AttemptsLeft'
  BY <1>1 DEF LockInv, AttemptsLeft, LockProcs
<1>4. LockHolders' \subseteq LockHolders
  BY <1>1 DEF LockHolders, Holding, LockProcs
<1>5. RunnerIsNamed'
  BY <1>4 DEF LockInv, RunnerIsNamed
<1> QED BY <1>2, <1>3, <1>5 DEF LockInv

\* A takeover attempt is over.
LEMMA Retries ==
  ASSUME LockInv, NEW p \in LockProcs, wpc[p] \in Trying, NextAttempt(p)
  PROVE  /\ wpc' \in [LockProcs -> Phases] /\ attempts' \in [Wrappers -> 0..MaxAttempts] /\ AttemptsLeft'
         /\ LockHolders' \subseteq LockHolders
<1> USE LockBoundsAssumption, LockNamesAssumption
<1>1. PICK stop \in {"exited", "link", "last"} : Goto(p, stop)
  BY DEF NextAttempt
<1>2. wpc' \in [LockProcs -> Phases] /\ wpc'[p] = stop /\ \A q \in LockProcs \ {p} : wpc'[q] = wpc[q]
  BY <1>1 DEF LockInv, LockTypeOK, Goto, Phases, GonePhases
<1>3. LockHolders' \subseteq LockHolders
  BY <1>2 DEF LockHolders, RunPhases, LockProcs
<1>4. CASE p = Sweeper
  BY <1>2, <1>3, <1>4 DEF NextAttempt, AttemptsLeft, LockInv, LockTypeOK, LockProcs
<1>5. CASE p # Sweeper
  <2>1. p \in Wrappers /\ attempts[p] \in 0..MaxAttempts /\ attempts[p] < MaxAttempts
    BY <1>5 DEF LockInv, LockTypeOK, AttemptsLeft, LockProcs
  <2>2. attempts' = [attempts EXCEPT ![p] = attempts[p] + 1] /\ (wpc'[p] \in Trying => attempts[p] + 1 < MaxAttempts)
    BY <1>2, <1>5 DEF NextAttempt, Goto, Trying, LockInv, LockTypeOK
  <2>3. attempts' \in [Wrappers -> 0..MaxAttempts]
    BY <2>1, <2>2 DEF LockInv, LockTypeOK
  <2>4. AttemptsLeft'
    BY <1>2, <2>1, <2>2 DEF AttemptsLeft, LockInv, LockTypeOK, LockProcs
  <2> QED BY <1>2, <1>3, <2>3, <2>4
<1> QED BY <1>4, <1>5

\* While none was moved, only a free lock is replaced, and it has no holder.
LEMMA FreeHasNoHolder == ASSUME LockInv, lock \notin Wrappers PROVE moved \/ LockHolders = {}
BY DEF LockInv, RunnerIsNamed, LockHolders

LEMMA LinkKeeps == ASSUME LockInv, NEW w \in Wrappers, Link(w) PROVE LockInv'
<1> USE LockNamesAssumption
<1>0. w \in LockProcs
  BY DEF LockProcs
<1>1. CASE lock # NoText
  BY <1>0, <1>1, QuietMove DEF Link, LockInv, LockTypeOK, Phases, Trying, Holding, RunPhases
<1>2. CASE lock = NoText
  <2>1. lock' = w /\ Goto(w, "locked") /\ UNCHANGED <<attempts, judged, aside, records, moved>>
    BY <1>2 DEF Link
  <2>2. wpc' \in [LockProcs -> Phases] /\ wpc'[w] = "locked" /\ \A q \in LockProcs \ {w} : wpc'[q] = wpc[q]
    BY <1>0, <2>1 DEF LockInv, LockTypeOK, Goto, Phases, RunPhases
  <2>3. LockTypeOK' /\ AttemptsLeft'
    BY <2>1, <2>2 DEF LockInv, LockTypeOK, AttemptsLeft, Trying, LockProcs, Texts
  <2>4. moved \/ LockHolders' \subseteq {w}
    BY <1>2, <2>2, FreeHasNoHolder DEF LockHolders, LockProcs
  <2> QED BY <2>1, <2>3, <2>4 DEF LockInv, RunnerIsNamed
<1> QED BY <1>1, <1>2

LEMMA TakeoverKeeps == ASSUME LockInv, NEW p \in LockProcs, TakeoverStep(p) PROVE LockInv'
<1> USE LockNamesAssumption DEF LockFiles
<1>1. CASE ReadNothing(p) \/ RenameNothing(p)
  <2>1. wpc[p] \in Trying /\ NextAttempt(p) /\ UNCHANGED <<lock, judged, aside, records, moved>>
    BY <1>1 DEF ReadNothing, RenameNothing, Trying
  <2> QED BY <2>1, Retries DEF LockInv, LockTypeOK, RunnerIsNamed, Texts
<1>2. CASE ReadLive(p)
  <2>1. PICK stop \in {"exited", "refused"} : Goto(p, stop)
    BY <1>2 DEF ReadLive
  <2>2. records' \subseteq Wrappers \X RecordKinds
    BY <1>2 DEF ReadLive, Logs, LockInv, LockTypeOK, LockProcs, RecordKinds
  <2> QED BY <1>2, <2>1, <2>2, QuietMove
          DEF ReadLive, LockInv, LockTypeOK, Phases, GonePhases, Trying, Holding, RunPhases
<1>3. CASE ReadStale(p)
  <2>1. judged' \in [LockProcs -> Texts]
    BY <1>3 DEF ReadStale, LockInv, LockTypeOK
  <2> QED BY <1>3, <2>1, QuietMove DEF ReadStale, LockInv, LockTypeOK, Phases, Trying, Holding, RunPhases
<1>4. CASE RenameAside(p)
  <2>1. /\ wpc[p] = "rename" /\ lock # NoText /\ lock' = NoText /\ aside' = [aside EXCEPT ![p] = lock]
        /\ moved' = (moved \/ Alive(lock)) /\ Goto(p, "check") /\ UNCHANGED <<judged, attempts, records>>
    BY <1>4 DEF RenameAside
  <2>2. wpc' \in [LockProcs -> Phases] /\ wpc'[p] = "check" /\ \A q \in LockProcs \ {p} : wpc'[q] = wpc[q]
    BY <2>1 DEF LockInv, LockTypeOK, Goto, Phases
  <2>3. LockHolders' \subseteq LockHolders
    BY <2>2 DEF LockHolders, RunPhases, LockProcs
  <2>4. moved' \in BOOLEAN /\ (moved' <=> moved \/ Alive(lock))
    BY <2>1 DEF LockInv, LockTypeOK
  <2>5. LockTypeOK'
    BY <2>1, <2>2, <2>4 DEF LockInv, LockTypeOK, Texts
  <2>6. AttemptsLeft'
    BY <2>1, <2>2 DEF LockInv, AttemptsLeft, Trying, LockProcs
  <2>7. ASSUME NEW w \in LockHolders, ~moved PROVE Alive(lock)
    BY <2>7 DEF LockInv, RunnerIsNamed, LockHolders, Alive, GonePhases, RunPhases
  <2>8. RunnerIsNamed'
    BY <2>3, <2>4, <2>7 DEF RunnerIsNamed
  <2> QED BY <2>5, <2>6, <2>8 DEF LockInv
<1>5. CASE CheckAside(p)
  <2>1. wpc[p] \in Trying /\ NextAttempt(p) /\ UNCHANGED <<judged, records, moved>> /\ (lock' = lock \/ lock = NoText)
    BY <1>5 DEF CheckAside, Trying
  <2>2. aside' \in [LockProcs -> Texts] /\ lock' \in Texts
    BY <1>5 DEF CheckAside, LockInv, LockTypeOK, Texts
  <2>3. RunnerIsNamed'
    BY <2>1, Retries, FreeHasNoHolder DEF LockInv, RunnerIsNamed
  <2> QED BY <2>1, <2>2, <2>3, Retries DEF LockInv, LockTypeOK, Texts
<1> QED BY <1>1, <1>2, <1>3, <1>4, <1>5 DEF TakeoverStep

LEMMA WrapperKeeps == ASSUME LockInv, NEW w \in Wrappers, WrapperStep(w) PROVE LockInv'
<1> USE DEF LockFiles, RecordKinds
<1>0. w \in LockProcs /\ judged \in [LockProcs -> Texts] /\ aside \in [LockProcs -> Texts]
      /\ records \subseteq Wrappers \X RecordKinds
  BY DEF LockProcs, LockInv, LockTypeOK
<1>1. CASE GiveUp(w)
  BY <1>0, <1>1, QuietMove DEF GiveUp, Logs, Phases, GonePhases, Trying, Holding, RunPhases
<1>2. CASE Begin(w)
  BY <1>0, <1>2, QuietMove DEF Begin, Logs, Phases, Trying, Holding, RunPhases
<1>3. ASSUME NEW kind \in {"ok", "failed", "stopped"}, FinishRun(w, kind) PROVE LockInv'
  BY <1>0, <1>3, QuietMove DEF FinishRun, Logs, Phases, Trying, Holding, RunPhases
<1>4. CASE Throw(w)
  BY <1>0, <1>4, QuietMove DEF Throw, Phases, Trying, Holding, RunPhases
<1>5. CASE ReadOwn(w)
  <2>1. PICK stop \in {"unlink", "exiting"} : Goto(w, stop)
    BY <1>5 DEF ReadOwn
  <2> QED BY <1>0, <1>5, <2>1, QuietMove DEF ReadOwn, Phases, Trying, Holding, RunPhases
<1>6. CASE LeaveLock(w)
  BY <1>0, <1>6, QuietMove DEF LeaveLock, Phases, GonePhases, Trying, Holding, RunPhases
<1>7. CASE Unlink(w)
  <2>1. wpc[w] = "unlink" /\ lock' = NoText /\ Goto(w, "exiting") /\ UNCHANGED <<attempts, judged, aside, records, moved>>
    BY <1>7 DEF Unlink
  <2>2. wpc' \in [LockProcs -> Phases] /\ wpc'[w] = "exiting" /\ \A q \in LockProcs \ {w} : wpc'[q] = wpc[q]
    BY <1>0, <2>1 DEF LockInv, LockTypeOK, Goto, Phases
  <2>3. LockTypeOK'
    BY <2>1, <2>2 DEF LockInv, LockTypeOK, Texts
  <2>4. AttemptsLeft'
    BY <2>1, <2>2 DEF LockInv, AttemptsLeft, Trying, LockProcs
  <2>5. moved \/ LockHolders \subseteq {w}
    BY <2>1 DEF LockInv, RunnerIsNamed, LockHolders
  <2>6. moved \/ LockHolders' = {}
    BY <2>2, <2>5 DEF LockHolders, RunPhases, LockProcs
  <2> QED BY <2>1, <2>3, <2>4, <2>6 DEF LockInv, RunnerIsNamed
<1> QED BY <1>1, <1>2, <1>3, <1>4, <1>5, <1>6, <1>7, LinkKeeps DEF WrapperStep

LEMMA LockInvHolds == LockInit /\ [][LockNext]_lockVars => []LockInv
<1>1. LockInv /\ [LockNext]_lockVars => LockInv'
  <2> SUFFICES ASSUME LockInv, [LockNext]_lockVars PROVE LockInv'
    OBVIOUS
  <2>0. /\ judged \in [LockProcs -> Texts] /\ aside \in [LockProcs -> Texts] /\ records \subseteq Wrappers \X RecordKinds
        /\ Sweeper \in LockProcs /\ Wrappers \subseteq LockProcs
    BY DEF LockProcs, LockInv, LockTypeOK
  <2>1. ASSUME NEW w \in Wrappers, Fire(w) PROVE LockInv'
    BY <2>0, <2>1, QuietMove DEF Fire, LockFiles, Phases, Trying, Holding, RunPhases
  <2>2. ASSUME NEW w \in Wrappers, FireRefused(w) PROVE LockInv'
    BY <2>0, <2>2, QuietMove DEF FireRefused, Logs, LockFiles, RecordKinds, Phases, GonePhases, Trying, Holding, RunPhases
  <2>3. ASSUME NEW p \in LockProcs, KillProc(p) PROVE LockInv'
    BY <2>0, <2>3, QuietMove DEF KillProc, LockFiles, Phases, GonePhases, Trying, Holding, RunPhases
  <2>4. CASE StartSweep
    BY <2>0, <2>4, QuietMove DEF StartSweep, LockFiles, Phases, Trying, Holding, RunPhases
  <2>5. CASE UNCHANGED lockVars
    BY <2>5 DEF lockVars, LockInv, LockTypeOK, AttemptsLeft, RunnerIsNamed, LockHolders, Texts
  <2> QED BY <2>1, <2>2, <2>3, <2>4, <2>5, WrapperKeeps, TakeoverKeeps DEF LockNext
<1> QED BY LockInitInv, <1>1, PTL

-----------------------------------------------------------------------------
\* The steps of a run.
Tallied == counts["ok"] + counts["failed"] + counts["skipped"]
StepShape ==
  /\ total \in 0..MaxSteps /\ at \in 0..total /\ (stage = "child" => at > 0)
  /\ counts \in [{"ok", "failed", "skipped"} -> Nat]
  /\ stage \in {"between", "child", "over"} /\ stopping \in BOOLEAN
  /\ leader \in {"none", "alive", "exited", "signalled"} /\ others \in {"none", "quiet", "piped"}
  /\ heard \in {"none", "exit", "second"} /\ noted \in BOOLEAN /\ outcome \in {"none", "timeout", "stopped"}
  /\ grace \in {"off", "armed", "over"} /\ groupSignal \in {"none", "TERM", "KILL"}
StepInv == StepShape /\ LockOutlivesGroup /\ EveryStepTallied

\* A step is tallied under one of the three heads.
LEMMA TallyAddsOne ==
  ASSUME StepShape, NEW k \in {"ok", "failed", "skipped"}, Tally(k)
  PROVE  counts' \in [{"ok", "failed", "skipped"} -> Nat] /\ Tallied' = Tallied + 1
<1>1. /\ counts["ok"] \in Nat /\ counts["failed"] \in Nat /\ counts["skipped"] \in Nat
      /\ counts' = [counts EXCEPT ![k] = counts[k] + 1]
  BY DEF StepShape, Tally
<1>2. /\ counts' \in [{"ok", "failed", "skipped"} -> Nat]
      /\ \A j \in {"ok", "failed", "skipped"} : counts'[j] = IF j = k THEN counts[j] + 1 ELSE counts[j]
  BY <1>1 DEF StepShape
<1>3. CASE k = "ok"
  BY <1>1, <1>2, <1>3 DEF Tallied
<1>4. CASE k = "failed"
  BY <1>1, <1>2, <1>4 DEF Tallied
<1>5. CASE k = "skipped"
  BY <1>1, <1>2, <1>5 DEF Tallied
<1> QED BY <1>3, <1>4, <1>5

LEMMA StepInitInv == StepInit => StepInv
<1> SUFFICES ASSUME StepInit PROVE StepInv
  OBVIOUS
<1>1. StepShape
  <2>1. total \in 0..MaxSteps /\ at \in 0..total /\ (stage = "child" => at > 0)
    BY MaxStepsAssumption DEF StepInit
  <2>2. counts \in [{"ok", "failed", "skipped"} -> Nat]
    BY DEF StepInit
  <2> QED BY <2>1, <2>2 DEF StepInit, StepShape
<1>2. LockOutlivesGroup /\ EveryStepTallied
  BY DEF StepInit, LockOutlivesGroup, EveryStepTallied
<1> QED BY <1>1, <1>2 DEF StepInv

\* The loop begins a step, or passes over one, or ends.
LEMMA LoopKeeps == ASSUME StepInv, LoopStep PROVE StepInv'
<1> USE DEF StepInv, childVars
<1>1. total \in Nat /\ at \in Nat
  BY MaxStepsAssumption DEF StepShape
<1>2. CASE SpawnStep
  <2>1. StepShape'
    <3>1. total' \in 0..MaxSteps /\ at' \in 0..total' /\ (stage' = "child" => at' > 0)
      BY <1>1, <1>2 DEF SpawnStep, StepShape, Loops
    <3>2. stage' = "child" /\ UNCHANGED <<counts, stopping>>
      BY <1>2 DEF SpawnStep
    <3> QED BY <1>2, <3>1, <3>2 DEF SpawnStep, StepShape
  <2>2. LockOutlivesGroup' /\ EveryStepTallied'
    BY <1>1, <1>2 DEF SpawnStep, LockOutlivesGroup, EveryStepTallied
  <2> QED BY <2>1, <2>2
<1>3. ASSUME NEW k \in {"skipped", "failed"}, NothingSpawned(k) PROVE StepInv'
  <2>1. Tallied' = Tallied + 1 /\ counts' \in [{"ok", "failed", "skipped"} -> Nat]
    BY <1>3, TallyAddsOne DEF NothingSpawned
  <2>2. StepShape'
    BY <1>1, <1>3, <2>1 DEF NothingSpawned, StepShape, Loops
  <2>3. EveryStepTallied'
    BY <1>1, <1>3, <2>1 DEF NothingSpawned, EveryStepTallied, Tallied
  <2>4. LockOutlivesGroup'
    BY <1>3 DEF NothingSpawned, LockOutlivesGroup, GroupAlive, LeaderGone
  <2> QED BY <2>2, <2>3, <2>4
<1>4. CASE FinishLoop
  <2>1. StepShape' /\ EveryStepTallied'
    BY <1>4 DEF FinishLoop, StepShape, EveryStepTallied
  <2>2. LockOutlivesGroup'
    BY <1>4 DEF FinishLoop, LockOutlivesGroup, GroupAlive, LeaderGone
  <2> QED BY <2>1, <2>2
<1> QED BY <1>2, <1>3, <1>4 DEF LoopStep

\* What goes on while a child runs leaves the tallies alone.
LEMMA ChildKeeps ==
  ASSUME StepInv, StepShape', UNCHANGED <<total, at, stage, counts>>, LockOutlivesGroup'
  PROVE  StepInv'
BY DEF StepInv, EveryStepTallied

LEMMA ProcessesKeep ==
  ASSUME StepInv, (\E how \in {"exited", "signalled"} : LeaderEnds(how)) \/ OthersEnd PROVE StepInv'
<1>1. StepShape' /\ UNCHANGED <<total, at, stage, counts>>
  BY DEF StepInv, StepShape, LeaderEnds, OthersEnd
<1>2. LockOutlivesGroup'
  BY DEF StepInv, LeaderEnds, OthersEnd, LockOutlivesGroup, GroupAlive, LeaderGone
<1> QED BY <1>1, <1>2, ChildKeeps

\* A step resolves.
LEMMA ResolveKeeps ==
  ASSUME StepInv, NEW k \in {"ok", "failed"}, Resolves(k), stage = "child",
         noted' \in BOOLEAN, grace' = "off", leader' = leader, others' \in {"none", others},
         groupSignal' \in {groupSignal, "KILL"}, LockOutlivesGroup'
  PROVE  StepInv'
<1> USE DEF StepInv, Resolves
<1>1. Tallied' = Tallied + 1 /\ counts' \in [{"ok", "failed", "skipped"} -> Nat]
  BY TallyAddsOne
<1>2. StepShape'
  BY <1>1 DEF StepShape
<1>3. at \in Nat /\ at' = at /\ stage' = "between"
  BY MaxStepsAssumption DEF StepShape
<1>4. EveryStepTallied'
  BY <1>1, <1>3 DEF EveryStepTallied, Tallied
<1> QED BY <1>2, <1>4

LEMMA HearsKeeps == ASSUME StepInv, WrapperHears PROVE StepInv'
<1> USE DEF StepInv
<1>1. CASE OnExit \/ Second \/ SettleEnded \/ KillTimer
  <2>1. UNCHANGED <<total, at, stage, counts>> /\ stage = "child"
    BY <1>1 DEF OnExit, Second, SettleEnded, SettledNow, KillTimer
  <2>2. CASE OnExit
    BY <2>1, <2>2, ChildKeeps DEF OnExit, StepShape, LockOutlivesGroup
  <2>3. CASE Second
    BY <2>1, <2>3, ChildKeeps DEF Second, StepShape, LockOutlivesGroup
  <2>4. CASE SettleEnded
    BY <2>1, <2>4, ChildKeeps DEF SettleEnded, StepShape, LockOutlivesGroup
  <2>5. CASE KillTimer
    BY <2>1, <2>5, ChildKeeps DEF KillTimer, KillGroup, StepShape, LockOutlivesGroup
  <2> QED BY <1>1, <2>2, <2>3, <2>4, <2>5
<1>2. ASSUME NEW k \in {"ok", "failed"}, Settle(k) PROVE StepInv'
  <2>1. stage = "child" /\ outcome = "none" /\ outcome' = "none"
    BY <1>2 DEF Settle, SettledNow, Resolves
  <2>2. LockOutlivesGroup'
    BY <2>1 DEF LockOutlivesGroup
  <2> QED BY <1>2, <2>1, <2>2, ResolveKeeps DEF Settle
<1>3. CASE PollGone
  <2>1. LockOutlivesGroup'
    BY <1>3 DEF PollGone, MayResolve, LockOutlivesGroup, GroupAlive, LeaderGone
  <2>2. noted' \in BOOLEAN
    BY <1>3 DEF PollGone, StepShape
  <2> QED BY <1>3, <2>1, <2>2, ResolveKeeps DEF PollGone
<1>4. CASE PollLate
  <2>1. LockOutlivesGroup'
    BY <1>4 DEF PollLate, KillGroup, LockOutlivesGroup
  <2>2. noted' \in BOOLEAN
    BY <1>4 DEF PollLate, StepShape
  <2> QED BY <1>4, <2>1, <2>2, ResolveKeeps DEF PollLate, KillGroup
<1> QED BY <1>1, <1>2, <1>3, <1>4 DEF WrapperHears

LEMMA EndsKeep == ASSUME StepInv, Timeout \/ StopSignal PROVE StepInv'
<1> USE DEF StepInv
<1>1. CASE Timeout
  BY <1>1, ChildKeeps DEF Timeout, EndStep, MayEnd, StepShape, LockOutlivesGroup
<1>2. CASE StopSignal
  <2>1. StepShape' /\ UNCHANGED <<total, at, stage, counts, leader, others>>
    BY <1>2 DEF StopSignal, EndStep, StepShape
  <2>2. LockOutlivesGroup'
    BY <1>2 DEF StopSignal, EndStep, MayEnd, LockOutlivesGroup, GroupAlive, LeaderGone
  <2> QED BY <2>1, <2>2, ChildKeeps
<1> QED BY <1>1, <1>2

LEMMA StepInvHolds == StepInit /\ [][StepNext]_stepVars => []StepInv
<1>1. StepInv /\ [StepNext]_stepVars => StepInv'
  <2> SUFFICES ASSUME StepInv, [StepNext]_stepVars PROVE StepInv'
    OBVIOUS
  <2>1. CASE UNCHANGED stepVars
    BY <2>1 DEF stepVars, childVars, StepInv, StepShape, LockOutlivesGroup, GroupAlive, LeaderGone, EveryStepTallied
  <2> QED BY <2>1, LoopKeeps, ProcessesKeep, HearsKeeps, EndsKeep DEF StepNext
<1> QED BY StepInitInv, <1>1, PTL

\* A result that came on its own stays, whatever ends the step afterwards.
LEMMA ResultsStay == StepInit /\ [][StepNext]_stepVars => ExitKeepsResult
<1>1. [StepNext]_stepVars => [outcome = "none" /\ outcome' # "none" /\ heard # "none" => leader = "signalled"]_stepVars
  BY DEF StepNext, LoopStep, SpawnStep, FinishLoop, NothingSpawned, LeaderEnds, OthersEnd, WrapperHears, OnExit, Second,
     SettleEnded, PollGone, PollLate, KillTimer, Settle, Resolves, Timeout, StopSignal, EndStep, MayEnd, stepVars, childVars
<1> QED BY <1>1, PTL DEF ExitKeepsResult

\* After a signal no step begins.
LEMMA NoneBegins == StepInit /\ [][StepNext]_stepVars => StopBeginsNothing
<1>1. [StepNext]_stepVars => [stopping => at' = at]_stepVars
  BY DEF StepNext, LoopStep, Loops, SpawnStep, FinishLoop, NothingSpawned, LeaderEnds, OthersEnd, WrapperHears, OnExit,
     Second, SettleEnded, PollGone, PollLate, KillTimer, Settle, Resolves, Timeout, StopSignal, stepVars, childVars
<1> QED BY <1>1, PTL DEF StopBeginsNothing

-----------------------------------------------------------------------------
\* The pushes of the owning server.  While every write of the ledger succeeded the
\* file knows what the memory knows, and a run was pushed or declined only once it
\* was sighted.
PushShape ==
  /\ wrapperOf \in [Runs -> {"none", "alive", "gone"}]
  /\ runLog \in [Runs -> Logged] /\ fold \in [Runs -> Logged]
  /\ aged \subseteq Runs /\ old \subseteq Runs /\ underRead \in BOOLEAN /\ booting \in BOOLEAN
  /\ sighted \subseteq Runs /\ onFile \subseteq sighted /\ hasFile \in BOOLEAN /\ policy \in BOOLEAN
  /\ pushes \in [Runs -> 0..2] /\ declined \subseteq Runs /\ unsaved \in BOOLEAN
  /\ runsWatch \in {"off", "due", "armed"} /\ event \in BOOLEAN /\ page \in BOOLEAN /\ unheard \subseteq Runs
FileIsSaved == onFile # {} => hasFile
FileIsMemory == unsaved \/ onFile = sighted
DealtOnce ==
  unsaved \/ \A r \in Runs : /\ r \notin sighted => pushes[r] = 0 /\ r \notin declined
                             /\ r \in declined => pushes[r] = 0
                             /\ pushes[r] <= 1

\* A failure is final.
FoldIsFinal == \A r \in Runs : fold[r] \in {"failed", "refused"} => runLog[r] = fold[r]
PushInv == PushShape /\ FileIsSaved /\ FileIsMemory /\ DealtOnce /\ FoldIsFinal

LEMMA PushInitInv == PushInit => PushInv
<1> SUFFICES ASSUME PushInit PROVE PushInv
  OBVIOUS
<1>1. wrapperOf \in [Runs -> {"none", "alive", "gone"}] /\ runLog \in [Runs -> Logged] /\ fold \in [Runs -> Logged]
  BY DEF PushInit, Logged
<1>2. pushes \in [Runs -> 0..2]
  BY DEF PushInit
<1>3. PushShape
  BY <1>1, <1>2 DEF PushInit, PushShape
<1> QED BY <1>3 DEF PushInit, PushInv, FileIsSaved, FileIsMemory, DealtOnce, FoldIsFinal

\* What wakes the fold changes nothing of what was folded, and no step of the
\* wrappers or the watch does more to it than this.
Woken ==
  /\ runsWatch' \in {"off", "due", "armed"} /\ event' \in BOOLEAN
  /\ page' \in BOOLEAN /\ unheard' \subseteq Runs

LEMMA WakesKeep ==
  ASSUME PushInv, Woken, UNCHANGED <<procVars, fold, underRead, booting, ledgerVars, policy>>
  PROVE  PushInv'
<1> USE DEF procVars, ledgerVars
<1>1. PushShape'
  BY DEF PushInv, PushShape, Woken
<1>2. FileIsSaved' /\ FileIsMemory' /\ DealtOnce' /\ FoldIsFinal'
  BY DEF PushInv, FileIsSaved, FileIsMemory, DealtOnce, FoldIsFinal
<1> QED BY <1>1, <1>2 DEF PushInv

\* The wrappers leave the server's side alone, and a failure stays one.
LEMMA RunKeeps == ASSUME PushInv, NEW r \in Runs, RunStep(r) PROVE PushInv'
<1> USE DEF PushInv, ledgerVars
<1>1. UNCHANGED <<fold, underRead, booting, sighted, hasFile, onFile, pushes, declined, unsaved, policy>>
  BY DEF RunStep, RunStarts, RunRefused, RunGone, TimePasses, RunEnds
<1>2. /\ runLog' \in [Runs -> Logged]
      /\ \A q \in Runs : runLog[q] \in {"failed", "refused"} => runLog'[q] = runLog[q]
  BY DEF RunStep, RunStarts, RunRefused, RunGone, TimePasses, RunEnds, PushShape, Logged, Endings
<1>3. wrapperOf' \in [Runs -> {"none", "alive", "gone"}] /\ aged' \subseteq Runs /\ old' \subseteq Runs
  BY DEF RunStep, RunStarts, RunRefused, RunGone, TimePasses, RunEnds, PushShape
<1>w. Woken
  BY DEF RunStep, RunStarts, RunRefused, RunGone, TimePasses, RunEnds, Appended, wakeVars, Woken, PushShape
<1>4. PushShape'
  BY <1>1, <1>2, <1>3, <1>w DEF PushShape, Logged, Woken
<1>5. FoldIsFinal'
  BY <1>1, <1>2 DEF FoldIsFinal
<1>6. FileIsSaved' /\ FileIsMemory' /\ DealtOnce'
  BY <1>1 DEF FileIsSaved, FileIsMemory, DealtOnce
<1> QED BY <1>4, <1>5, <1>6

\* What a judgement of the fold did.
Judged(blind, due, seeded, sent, saved, writes) ==
  /\ blind \subseteq {r \in Runs : wrapperOf[r] = "alive"} /\ saved \in BOOLEAN
  /\ due = Pushable(blind) \ sighted /\ seeded = Seed(due)
  /\ sent = (IF policy THEN {r \in due \ seeded : fold[r] # "stopped"} ELSE {})
  /\ writes = (due # {} \/ (booting /\ ~hasFile))
  /\ sighted' = sighted \cup Marked(due, sent) \cup seeded
  /\ pushes' = [r \in Runs |-> IF r \in sent /\ pushes[r] < 2 THEN pushes[r] + 1 ELSE pushes[r]]
  /\ declined' = declined \cup (due \ sent)
  /\ onFile' = (IF writes /\ saved THEN sighted' ELSE onFile)
  /\ hasFile' = (hasFile \/ (writes /\ saved))
  /\ unsaved' = (unsaved \/ (writes /\ ~saved))

LEMMA JudgeDoes ==
  ASSUME Judge
  PROVE  \E blind, due, seeded, sent, saved, writes : Judged(blind, due, seeded, sent, saved, writes)
<1>1. PICK blind \in SUBSET {r \in Runs : wrapperOf[r] = "alive"}, saved \in BOOLEAN :
        LET due == Pushable(blind) \ sighted
            seeded == Seed(due)
            sent == IF policy THEN {r \in due \ seeded : fold[r] # "stopped"} ELSE {}
            writes == due # {} \/ (booting /\ ~hasFile)
        IN Judged(blind, due, seeded, sent, saved, writes)
  BY DEF Judge, Judged
<1> QED BY <1>1

LEMMA JudgeKeeps == ASSUME PushInv, Judge PROVE PushInv'
<1> USE DEF PushInv
<1>1. UNCHANGED <<wrapperOf, runLog, aged, old, fold, policy>> /\ underRead' = FALSE /\ booting' = FALSE
  BY DEF Judge, procVars
<1>w. Woken
  BY DEF Judge, AfterFold, Woken, PushShape
<1>2. PICK blind, due, seeded, sent, saved, writes : Judged(blind, due, seeded, sent, saved, writes)
  BY JudgeDoes
<1>3. /\ due \subseteq Runs /\ due \cap sighted = {} /\ sent \subseteq due /\ seeded \subseteq due
      /\ sighted' = sighted \cup due
  BY <1>2 DEF Judged, Pushable, Vanished, Seed, Marked
<1>4. pushes \in [Runs -> 0..2] /\ pushes' = [r \in Runs |-> IF r \in sent /\ pushes[r] < 2 THEN pushes[r] + 1 ELSE pushes[r]]
  BY <1>2 DEF Judged, PushShape
<1>5. /\ pushes' \in [Runs -> 0..2]
      /\ \A r \in Runs : r \notin sent => pushes'[r] = pushes[r]
      /\ \A r \in sent : pushes[r] = 0 => pushes'[r] = 1
  <2>1. \A r \in Runs : pushes[r] \in 0..2
    BY <1>4
  <2> QED BY <1>3, <1>4, <2>1
<1>6. declined' = declined \cup (due \ sent)
  BY <1>2 DEF Judged
<1>7. onFile' = sighted' \/ onFile' = onFile
  BY <1>2 DEF Judged
<1>8. hasFile' \in BOOLEAN /\ unsaved' \in BOOLEAN /\ (hasFile => hasFile') /\ (unsaved => unsaved')
  BY <1>2 DEF Judged, PushShape
<1>9. PushShape'
  BY <1>1, <1>3, <1>5, <1>6, <1>7, <1>8, <1>w DEF PushShape, Woken
<1>10. FileIsSaved'
  BY <1>2, <1>8 DEF FileIsSaved, Judged
<1>11. FileIsMemory'
  <2>1. CASE due = {}
    BY <1>3, <1>7, <1>8, <2>1 DEF FileIsMemory
  <2>2. CASE due # {}
    BY <1>2, <2>2 DEF FileIsMemory, Judged
  <2> QED BY <2>1, <2>2
<1>12. DealtOnce'
  <2> SUFFICES ASSUME ~unsaved', NEW r \in Runs
               PROVE  /\ r \notin sighted' => pushes'[r] = 0 /\ r \notin declined'
                      /\ r \in declined' => pushes'[r] = 0
                      /\ pushes'[r] <= 1
    BY DEF DealtOnce
  <2>1. /\ r \notin sighted => pushes[r] = 0 /\ r \notin declined
        /\ r \in declined => pushes[r] = 0
        /\ pushes[r] <= 1
    BY <1>8 DEF DealtOnce
  <2>2. CASE r \in sent
    BY <1>3, <1>5, <1>6, <2>1, <2>2
  <2>3. CASE r \notin sent
    BY <1>3, <1>5, <1>6, <2>1, <2>3
  <2> QED BY <2>2, <2>3
<1>13. FoldIsFinal'
  BY <1>1 DEF FoldIsFinal
<1> QED BY <1>9, <1>10, <1>11, <1>12, <1>13

LEMMA PushInvHolds == PushInit /\ [][PushNext]_pushVars => []PushInv
<1>1. PushInv /\ [PushNext]_pushVars => PushInv'
  <2> SUFFICES ASSUME PushInv, [PushNext]_pushVars PROVE PushInv'
    OBVIOUS
  <2> USE DEF PushInv, procVars, ledgerVars
  <2>1. ASSUME SyncNotify, event' \in BOOLEAN PROVE PushInv'
    <3>1. PushShape' /\ FileIsSaved' /\ FileIsMemory' /\ DealtOnce'
      BY <2>1 DEF SyncNotify, PushShape, FileIsSaved, FileIsMemory, DealtOnce
    <3>2. FoldIsFinal'
      BY <2>1 DEF SyncNotify, FoldIsFinal
    <3> QED BY <3>1, <3>2
  <2>2. CASE PushRestart
    <3>1. PushShape'
      BY <2>2 DEF PushRestart, KnownAtStart, PushShape, Logged
    <3>2. FileIsSaved' /\ FileIsMemory' /\ DealtOnce'
      BY <2>2 DEF PushRestart, KnownAtStart, FileIsSaved, FileIsMemory, DealtOnce
    <3>3. FoldIsFinal'
      BY <2>2 DEF PushRestart, FoldIsFinal
    <3> QED BY <3>1, <3>2, <3>3
  <2>3. CASE TogglePush
    BY <2>3 DEF TogglePush, wakeVars, PushShape, FileIsSaved, FileIsMemory, DealtOnce, FoldIsFinal
  <2>4. CASE UNCHANGED pushVars
    BY <2>4 DEF pushVars, wakeVars, PushShape, FileIsSaved, FileIsMemory, DealtOnce, FoldIsFinal
  <2>5. CASE BootRead \/ Polled \/ WatchTold
    BY <2>1, <2>5 DEF BootRead, Polled, WatchTold, PushShape
  <2>6. CASE ArmWatch \/ WatchFails \/ OpenOrLeavePage
    <3>1. Woken
      BY <2>6 DEF ArmWatch, WatchFails, OpenOrLeavePage, Woken, PushShape
    <3> QED BY <2>6, <3>1, WakesKeep DEF ArmWatch, WatchFails, OpenOrLeavePage
  <2> QED BY <2>2, <2>3, <2>4, <2>5, <2>6, RunKeeps, JudgeKeeps DEF PushNext
<1> QED BY PushInitInv, <1>1, PTL

\* No run is pushed by a step that does not judge.
LEMMA OnlyJudgePushes == [PushNext]_pushVars => Judge \/ pushes' = pushes
BY DEF PushNext, RunStep, RunStarts, RunRefused, RunGone, TimePasses, RunEnds, SyncNotify, BootRead, Polled,
   WatchTold, ArmWatch, WatchFails, OpenOrLeavePage, PushRestart, TogglePush, pushVars, ledgerVars

\* What is pushed is due, and on a first start nothing old is.
LEMMA PushesAreDue ==
  ASSUME PushInv, Judge, NEW r \in Runs, pushes'[r] > pushes[r]
  PROVE  /\ runLog[r] \in {"failed", "refused"} \/ wrapperOf[r] = "gone" \/ r \in aged
         /\ r \in old => hasFile \/ ~booting
<1>1. PICK blind, due, seeded, sent, saved, writes : Judged(blind, due, seeded, sent, saved, writes)
  BY JudgeDoes
<1>2. r \in sent
  <2>1. pushes[r] \in 0..2
    BY DEF PushInv, PushShape
  <2>2. pushes' = [q \in Runs |-> IF q \in sent /\ pushes[q] < 2 THEN pushes[q] + 1 ELSE pushes[q]]
    BY <1>1 DEF Judged
  <2> QED BY <2>1, <2>2
<1>3. r \in due \ seeded /\ fold[r] # "stopped"
  BY <1>1, <1>2 DEF Judged
<1>4. fold[r] \in {"failed", "refused"} \/ wrapperOf[r] = "gone" \/ r \in aged
  BY <1>1, <1>3 DEF Judged, Pushable, Vanished
<1>5. r \in old => hasFile \/ ~booting
  BY <1>1, <1>3 DEF Judged, Seed
<1> QED BY <1>4, <1>5 DEF PushInv, FoldIsFinal

LEMMA PushesAreQuiet == PushInit /\ [][PushNext]_pushVars => FirstStartIsQuiet
<1>1. PushInv /\ [PushNext]_pushVars
        => [\A r \in old : pushes'[r] > pushes[r] => hasFile \/ unsaved \/ ~booting]_pushVars
  <2> SUFFICES ASSUME PushInv, [PushNext]_pushVars, NEW r \in old, pushes'[r] > pushes[r]
               PROVE  hasFile \/ unsaved \/ ~booting
    OBVIOUS
  <2>1. r \in Runs /\ pushes[r] \in 0..2
    BY DEF PushInv, PushShape
  <2>2. Judge
    BY <2>1, OnlyJudgePushes
  <2> QED BY <2>1, <2>2, PushesAreDue
<1> QED BY <1>1, PushInvHolds, PTL DEF FirstStartIsQuiet

LEMMA PushesHaveCauses == PushInit /\ [][PushNext]_pushVars => PushHasCause
<1>1. PushInv /\ [PushNext]_pushVars
        => [\A r \in Runs : pushes'[r] > pushes[r] =>
              runLog[r] \in {"failed", "refused"} \/ wrapperOf[r] = "gone" \/ r \in aged]_pushVars
  <2> SUFFICES ASSUME PushInv, [PushNext]_pushVars, NEW r \in Runs, pushes'[r] > pushes[r]
               PROVE  runLog[r] \in {"failed", "refused"} \/ wrapperOf[r] = "gone" \/ r \in aged
    OBVIOUS
  <2>1. pushes[r] \in 0..2
    BY DEF PushInv, PushShape
  <2>2. Judge
    BY <2>1, OnlyJudgePushes
  <2> QED BY <2>2, PushesAreDue
<1> QED BY <1>1, PushInvHolds, PTL DEF PushHasCause

LEMMA SettledAtMostOnce == PushInv => SettledOnce
<1> SUFFICES ASSUME PushInv, NEW r \in Runs, ~unsaved PROVE pushes[r] + Cardinality(declined \cap {r}) <= 1
  BY DEF SettledOnce
<1>1. pushes[r] \in 0..2 /\ pushes[r] <= 1 /\ (r \in declined => pushes[r] = 0)
  BY DEF PushInv, PushShape, DealtOnce
<1>2. CASE r \in declined
  <2>1. declined \cap {r} = {r}
    BY <1>2
  <2>2. Cardinality({r}) = 1
    BY FS_Singleton
  <2> QED BY <1>1, <1>2, <2>1, <2>2
<1>3. CASE r \notin declined
  <2>1. declined \cap {r} = {}
    BY <1>3
  <2>2. Cardinality({}) = 0
    BY FS_EmptySet
  <2> QED BY <1>1, <2>1, <2>2
<1> QED BY <1>2, <1>3

-----------------------------------------------------------------------------
\* The reconcile.  What it is on its way to is what the job file says, or somebody
\* changed that meanwhile and has armed the timer or queued a trailing run.
RecShape ==
  /\ want \in PlistTexts /\ plist \in PlistTexts /\ loaded \in PlistTexts
  /\ job \in {"none", "started", "locked", "ended"} /\ manual \in BOOLEAN /\ sinceLook \in BOOLEAN
  /\ rec \in {"none", "printing", "bootout", "bootstrap", "reprinting"}
  /\ act \in {"none", "install", "update", "remove", "pending"}
  /\ report \in {"none", "in-sync", "pending", "drift", "failed"}
  /\ text \in PlistTexts /\ failed \in BOOLEAN /\ deferred \in BOOLEAN
  /\ heldBack \in BOOLEAN /\ upset \in BOOLEAN /\ queued \in BOOLEAN /\ debounce \in BOOLEAN
  /\ edits \in 0..MaxEdits /\ fires \in 0..MaxFires
RestsClean == rec = "none" => act = "none" /\ text = Nothing /\ ~queued

Changed == debounce \/ queued
Installed(v) == plist = v /\ (loaded = Nothing <=> v = Nothing)
IsOnItsWay == rec \in {"printing", "bootout", "bootstrap"} => Changed \/ text = want
ActsOnPlan ==
  /\ rec = "bootout" => \/ act = "remove" /\ text = Nothing
                        \/ act \in {"install", "update"} /\ text # Nothing /\ plist = text
  /\ rec = "bootstrap" => text # Nothing /\ plist = text
Arrived == rec \in {"none", "reprinting"} => Changed \/ failed \/ heldBack \/ Installed(want)

\* What is loaded is the plist's text but between a plan that rewrites it and the
\* bootout that follows.
LoadsThePlist ==
  upset \/ ((rec = "bootstrap" => loaded = Nothing) /\ (rec # "bootout" => loaded \in {plist, Nothing}))

\* A run the plan could see is not loaded when it is to be killed.
SparesTheSeen == rec = "bootout" /\ job \in {"locked", "ended"} => sinceLook \/ loaded = Nothing

RecInv == RecShape /\ RestsClean /\ LoadedHasPlist /\ IsOnItsWay /\ ActsOnPlan /\ Arrived /\ LoadsThePlist /\ SparesTheSeen

LEMMA RecInitInv == ReconcileInit => RecInv
<1> SUFFICES ASSUME ReconcileInit PROVE RecInv
  OBVIOUS
<1>1. RecShape
  <2>1. edits \in 0..MaxEdits /\ fires \in 0..MaxFires
    BY ReconcileBounds DEF ReconcileInit
  <2>2. want \in PlistTexts /\ plist \in PlistTexts /\ loaded \in PlistTexts /\ text \in PlistTexts
    BY DEF ReconcileInit, PlistTexts
  <2> QED BY <2>1, <2>2 DEF ReconcileInit, RecShape
<1> QED BY <1>1 DEF ReconcileInit, RecInv, RestsClean, LoadedHasPlist, IsOnItsWay, ActsOnPlan, Arrived, Installed,
                    LoadsThePlist, SparesTheSeen

\* A call starts a run or queues one.
LEMMA AskKeeps ==
  ASSUME RecInv, NEW v \in PlistTexts, want' = v, Ask(v), debounce' \in BOOLEAN, (debounce' \/ v = want),
         edits' \in 0..MaxEdits, UNCHANGED <<osVars, jobVars, act, failed, reportVars, upset, fires>>
  PROVE  RecInv'
<1> USE DEF RecInv, osVars, jobVars, reportVars
<1>1. CASE rec = "none"
  <2>1. rec' = "printing" /\ text' = want' /\ queued' = queued
    BY <1>1 DEF Ask, StartsNow
  <2>2. RecShape'
    BY <2>1 DEF RecShape, PlistTexts
  <2>3. RestsClean' /\ LoadedHasPlist' /\ IsOnItsWay' /\ ActsOnPlan' /\ Arrived' /\ SparesTheSeen'
    BY <2>1 DEF RestsClean, LoadedHasPlist, IsOnItsWay, ActsOnPlan, Arrived, SparesTheSeen
  <2>4. LoadsThePlist'
    BY <1>1, <2>1 DEF LoadsThePlist
  <2> QED BY <2>2, <2>3, <2>4
<1>2. CASE rec # "none"
  <2>1. queued' = TRUE /\ UNCHANGED <<rec, text>>
    BY <1>2 DEF Ask, Queues
  <2>2. RecShape'
    BY <2>1 DEF RecShape, PlistTexts
  <2>3. RestsClean' /\ LoadedHasPlist' /\ IsOnItsWay' /\ ActsOnPlan' /\ Arrived' /\ SparesTheSeen'
    BY <1>2, <2>1 DEF RestsClean, LoadedHasPlist, IsOnItsWay, ActsOnPlan, Arrived, SparesTheSeen, Changed
  <2>4. LoadsThePlist'
    BY <1>2, <2>1 DEF LoadsThePlist
  <2> QED BY <2>2, <2>3, <2>4
<1> QED BY <1>1, <1>2

LEMMA EditsKeep == ASSUME RecInv, NEW v \in PlistTexts, SaveJob(v) \/ PullJob(v) \/ Debounced PROVE RecInv'
<1>1. want \in PlistTexts /\ edits \in Nat /\ MaxEdits \in Nat /\ edits \in 0..MaxEdits
  BY ReconcileBounds DEF RecInv, RecShape
<1>2. CASE SaveJob(v)
  <2>1. edits' \in 0..MaxEdits /\ debounce' = TRUE
    BY <1>1, <1>2 DEF SaveJob
  <2> QED BY <1>2, <2>1, AskKeeps DEF SaveJob
<1>3. CASE Debounced
  <2>1. edits' = edits /\ debounce' = FALSE /\ want' = want
    BY <1>3 DEF Debounced
  <2> QED BY <1>1, <1>3, <2>1, AskKeeps DEF Debounced
<1>4. CASE PullJob(v)
  <2> USE DEF RecInv, osVars, jobVars, planVars, reportVars
  <2>1. /\ want' = v /\ debounce' = TRUE /\ edits' \in 0..MaxEdits
        /\ UNCHANGED <<plist, loaded, job, manual, sinceLook, rec, act, text, failed, report, deferred, heldBack, upset, queued, fires>>
    BY <1>1, <1>4 DEF PullJob
  <2>2. RecShape'
    BY <2>1 DEF RecShape, PlistTexts
  <2> QED BY <2>1, <2>2 DEF RestsClean, LoadedHasPlist, IsOnItsWay, ActsOnPlan, Arrived, LoadsThePlist, SparesTheSeen, Changed
<1> QED BY <1>2, <1>3, <1>4

\* The job's own steps arm the timer at most; a lock it takes comes after the look.
LEMMA JobKeeps ==
  ASSUME RecInv, (\E byHand \in BOOLEAN : Fires(byHand)) \/ Locks \/ JobEnds \/ JobLeaves
  PROVE  RecInv'
<1> USE DEF RecInv
<1>1. /\ UNCHANGED <<want, plist, loaded, rec, act, text, failed, report, deferred, heldBack, upset, queued, edits>>
      /\ job' \in {"none", "started", "locked", "ended"}
      /\ job' \in {"locked", "ended"} => sinceLook' \/ (job \in {"locked", "ended"} /\ sinceLook' = sinceLook)
  BY DEF Fires, Locks, JobEnds, JobLeaves, JobOnly, osVars, planVars, reportVars
<1>0. debounce => debounce'
  BY DEF Fires, Locks, JobEnds, JobLeaves, LogWrite
<1>2. manual' \in BOOLEAN /\ sinceLook' \in BOOLEAN
  BY DEF Fires, Locks, JobEnds, JobLeaves, RecShape
<1>3. debounce' \in BOOLEAN
  BY DEF Fires, Locks, JobEnds, JobLeaves, LogWrite, RecShape
<1>4. fires' \in 0..MaxFires
  BY ReconcileBounds DEF Fires, Locks, JobEnds, JobLeaves, RecShape
<1>5. RecShape'
  BY <1>1, <1>2, <1>3, <1>4 DEF RecShape, PlistTexts
<1>6. RestsClean' /\ LoadedHasPlist' /\ ActsOnPlan' /\ LoadsThePlist' /\ SparesTheSeen'
  BY <1>1 DEF RestsClean, LoadedHasPlist, ActsOnPlan, LoadsThePlist, SparesTheSeen
<1>7. IsOnItsWay' /\ Arrived'
  BY <1>0, <1>1 DEF IsOnItsWay, Arrived, Installed, Changed
<1> QED BY <1>5, <1>6, <1>7

\* What a plan decides, and what is so then.
LEMMA Decisions ==
  ASSUME RecInv, NEW isLoaded \in BOOLEAN, MayPrint(isLoaded)
  PROVE  /\ Decision(isLoaded) \in {"none", "install", "update", "remove", "pending"}
         /\ Decision(isLoaded) \in {"install", "update"} => text # Nothing
         /\ Decision(isLoaded) = "remove" => text = Nothing
         /\ Decision(isLoaded) = "none" => Installed(text)
         /\ Decision(isLoaded) \in {"install", "update", "remove"} /\ LockHeld => loaded = Nothing
BY NothingAssumption DEF RecInv, Decision, Deferred, MayPrint, Installed, LoadedHasPlist, RecShape, PlistTexts

LEMMA DecideKeeps == ASSUME RecInv, NEW isLoaded \in BOOLEAN, Decide(isLoaded) PROVE RecInv'
<1> USE DEF RecInv
<1>1. /\ rec = "printing" /\ MayPrint(isLoaded) /\ act' = Decision(isLoaded) /\ sinceLook' = FALSE /\ failed' = FALSE
      /\ heldBack' = (act' = "pending")
      /\ plist' = (IF act' \in {"install", "update"} THEN text ELSE plist)
      /\ rec' = (IF Reloads(act') THEN "bootout" ELSE "reprinting")
      /\ text' = (IF rec' = "reprinting" THEN want ELSE text)
      /\ UNCHANGED <<want, loaded, job, manual, report, deferred, upset, queued, debounce, edits, fires>>
  BY DEF Decide
<1>2. /\ act' \in {"none", "install", "update", "remove", "pending"}
      /\ act' \in {"install", "update"} => text # Nothing
      /\ act' = "remove" => text = Nothing
      /\ act' = "none" => Installed(text)
      /\ act' \in {"install", "update", "remove"} /\ LockHeld => loaded = Nothing
  BY <1>1, Decisions
<1>3. RecShape'
  <2>1. heldBack' \in BOOLEAN /\ text' \in PlistTexts /\ plist' \in PlistTexts
        /\ rec' \in {"none", "printing", "bootout", "bootstrap", "reprinting"}
    BY <1>1 DEF RecShape
  <2> QED BY <1>1, <1>2, <2>1 DEF RecShape, PlistTexts
<1>4. RestsClean' /\ LoadedHasPlist' /\ IsOnItsWay' /\ ActsOnPlan'
  BY <1>1, <1>2 DEF RestsClean, LoadedHasPlist, IsOnItsWay, ActsOnPlan, Reloads, Changed
<1>5. Arrived'
  BY <1>1, <1>2 DEF Arrived, IsOnItsWay, Installed, Reloads, Changed
<1>6. LoadsThePlist' /\ SparesTheSeen'
  BY <1>1, <1>2 DEF LoadsThePlist, SparesTheSeen, LockHeld, Reloads
<1> QED BY <1>3, <1>4, <1>5, <1>6

LEMMA BootOutKeeps == ASSUME RecInv, NEW works \in BOOLEAN, BootOut(works) PROVE RecInv'
<1> USE DEF RecInv
<1>1. /\ rec = "bootout" /\ loaded' = (IF works THEN Nothing ELSE loaded)
      /\ job' = (IF works /\ loaded # Nothing /\ ~manual THEN "none" ELSE job)
      /\ UNCHANGED <<want, manual, sinceLook, act, report, deferred, heldBack, queued, debounce, edits, fires>>
      /\ upset' \in BOOLEAN /\ (upset' <=> upset \/ ~works)
  BY DEF BootOut, reportVars, RecShape
<1>2. CASE act = "remove"
  <2>1. /\ plist' = (IF loaded' = Nothing THEN Nothing ELSE plist) /\ rec' = "reprinting" /\ text' = want
        /\ failed' \in BOOLEAN /\ (failed' <=> failed \/ ~works)
    BY <1>2 DEF BootOut, MayDelete, RecShape
  <2>2. RecShape'
    BY <1>1, <2>1 DEF RecShape, PlistTexts
  <2>3. RestsClean' /\ LoadedHasPlist' /\ IsOnItsWay' /\ ActsOnPlan' /\ SparesTheSeen' /\ LoadsThePlist'
    BY <1>1, <2>1 DEF RestsClean, LoadedHasPlist, IsOnItsWay, ActsOnPlan, SparesTheSeen, LoadsThePlist
  <2>4. Arrived'
    BY <1>1, <1>2, <2>1 DEF Arrived, Installed, IsOnItsWay, ActsOnPlan, Changed
  <2> QED BY <2>2, <2>3, <2>4
<1>3. CASE act # "remove"
  <2>1. rec' = "bootstrap" /\ UNCHANGED <<plist, failed, text>>
    BY <1>3 DEF BootOut
  <2>2. RecShape'
    BY <1>1, <2>1 DEF RecShape, PlistTexts
  <2>3. RestsClean' /\ LoadedHasPlist' /\ IsOnItsWay' /\ ActsOnPlan' /\ SparesTheSeen' /\ Arrived'
    BY <1>1, <1>3, <2>1 DEF RestsClean, LoadedHasPlist, IsOnItsWay, ActsOnPlan, SparesTheSeen, Arrived, Changed
  <2>4. LoadsThePlist'
    BY <1>1, <2>1 DEF LoadsThePlist
  <2> QED BY <2>2, <2>3, <2>4
<1> QED BY <1>2, <1>3

LEMMA BootStrapKeeps == ASSUME RecInv, NEW works \in BOOLEAN, BootStrap(works) PROVE RecInv'
<1> USE DEF RecInv
<1>1. /\ rec = "bootstrap" /\ (works => loaded = Nothing) /\ loaded' = (IF works THEN plist ELSE loaded)
      /\ rec' = "reprinting" /\ text' = want
      /\ UNCHANGED <<want, plist, job, manual, sinceLook, act, report, deferred, heldBack, queued, debounce, edits, fires>>
      /\ failed' \in BOOLEAN /\ (failed' <=> failed \/ ~works) /\ upset' \in BOOLEAN /\ (upset' <=> upset \/ ~works)
  BY DEF BootStrap, jobVars, reportVars, RecShape
<1>2. RecShape'
  BY <1>1 DEF RecShape, PlistTexts
<1>3. RestsClean' /\ LoadedHasPlist' /\ IsOnItsWay' /\ ActsOnPlan' /\ SparesTheSeen' /\ LoadsThePlist'
  BY <1>1 DEF RestsClean, LoadedHasPlist, IsOnItsWay, ActsOnPlan, SparesTheSeen, LoadsThePlist
<1>4. Arrived'
  BY <1>1 DEF Arrived, Installed, IsOnItsWay, ActsOnPlan, Changed
<1> QED BY <1>2, <1>3, <1>4

LEMMA ReportKeeps == ASSUME RecInv, NEW isLoaded \in BOOLEAN, Report(isLoaded) PROVE RecInv'
<1> USE DEF RecInv
<1>1. /\ rec = "reprinting" /\ deferred' \in BOOLEAN /\ heldBack' \in BOOLEAN /\ (heldBack => heldBack')
      /\ act' = "none" /\ queued' = FALSE
      /\ report' \in {"none", "in-sync", "pending", "drift", "failed"}
      /\ UNCHANGED <<want, plist, loaded, job, manual, sinceLook, failed, upset, debounce, edits, fires>>
  BY DEF Report, Trails, Summary, osVars, jobVars, RecShape
<1>2. \/ queued /\ rec' = "printing" /\ text' = want
      \/ ~queued /\ rec' = "none" /\ text' = Nothing
  BY DEF Report, Trails, StartsNow
<1>3. RecShape'
  BY <1>1, <1>2 DEF RecShape, PlistTexts
<1>4. RestsClean' /\ LoadedHasPlist' /\ IsOnItsWay' /\ ActsOnPlan' /\ SparesTheSeen' /\ LoadsThePlist'
  BY <1>1, <1>2 DEF RestsClean, LoadedHasPlist, IsOnItsWay, ActsOnPlan, SparesTheSeen, LoadsThePlist
<1>5. Arrived'
  BY <1>1, <1>2 DEF Arrived, Installed, Changed
<1> QED BY <1>3, <1>4, <1>5

LEMMA RecRestartKeeps == ASSUME RecInv, ReconcileRestart PROVE RecInv'
<1> USE DEF RecInv
<1>1. /\ rec' = "printing" /\ text' = want /\ act' = "none" /\ failed' = FALSE /\ queued' = FALSE /\ debounce' = FALSE
      /\ report' = "none" /\ deferred' = FALSE
      /\ UNCHANGED <<want, plist, loaded, job, manual, sinceLook, heldBack, edits, fires>>
      /\ upset' \in BOOLEAN /\ (upset' <=> upset \/ rec # "none")
  BY DEF ReconcileRestart, StartsNow, osVars, jobVars, RecShape
<1>2. RecShape'
  BY <1>1 DEF RecShape, PlistTexts
<1> QED BY <1>1, <1>2 DEF RestsClean, LoadedHasPlist, IsOnItsWay, ActsOnPlan, Arrived, SparesTheSeen, LoadsThePlist

LEMMA RecInvHolds == ReconcileSpec => []RecInv
<1>1. RecInv /\ [ReconcileNext]_recVars => RecInv'
  <2> SUFFICES ASSUME RecInv, [ReconcileNext]_recVars PROVE RecInv'
    OBVIOUS
  <2>1. CASE UNCHANGED recVars
    <3> USE <2>1 DEF RecInv, recVars, osVars, jobVars, planVars, reportVars
    <3>1. RecShape'
      BY DEF RecShape, PlistTexts
    <3> QED BY <3>1 DEF RestsClean, LoadedHasPlist, IsOnItsWay, ActsOnPlan, Arrived, Installed, LoadsThePlist,
                        SparesTheSeen, Changed
  <2>2. CASE Debounced
    BY <2>2, EditsKeep DEF RecInv, RecShape
  <2> QED BY <2>1, <2>2, EditsKeep, JobKeeps, DecideKeeps, BootOutKeeps, BootStrapKeeps, ReportKeeps, RecRestartKeeps
          DEF ReconcileNext
<1> QED BY RecInitInv, <1>1, PTL DEF ReconcileSpec

\* Only a bootout and a run's own end make a job go.
LEMMA KillsAreLate == ReconcileSpec => KillsOnlyLateStarts
<1>1. RecInv /\ [ReconcileNext]_recVars
        => [rec = "bootout" /\ rec' # "bootout" /\ job \in {"locked", "ended"} /\ job' = "none" => sinceLook]_recVars
  <2> SUFFICES ASSUME RecInv, ReconcileNext, rec = "bootout", rec' # "bootout", job \in {"locked", "ended"}, job' = "none"
               PROVE  sinceLook
    BY DEF recVars
  <2>1. \E works \in BOOLEAN : BootOut(works)
    BY DEF ReconcileNext, SaveJob, PullJob, Debounced, Ask, StartsNow, Fires, Locks, JobEnds, JobLeaves, JobOnly,
           ReconcileRestart, Decide, BootStrap, Report, jobVars
  <2>2. loaded # Nothing
    BY <2>1 DEF BootOut
  <2> QED BY <2>2 DEF RecInv, SparesTheSeen
<1> QED BY <1>1, RecInvHolds, PTL DEF ReconcileSpec, KillsOnlyLateStarts

LEMMA ReconcileCorrect == ReconcileSpec => LaunchdFollows
<1>1. RecInv => LoadedHasPlist /\ QuietIsInSync /\ LoadedIsPlist
  BY DEF RecInv, QuietIsInSync, Quiet, LoadedIsPlist, LoadsThePlist, Arrived, Installed, Changed, RestsClean
<1> QED BY <1>1, RecInvHolds, KillsAreLate, PTL DEF LaunchdFollows

-----------------------------------------------------------------------------
\* The run of a job: unless a lock of a live wrapper was renamed aside, whoever runs it is
\* named by its lock; every step is told once and nothing of it outlives the lock; an exit
\* keeps its result and a stop begins nothing (run-routine.mjs).
THEOREM JobsAreOrderly == MCSpec => WrapperIsOrderly
<1>1. LockInv => RunnerIsNamed
  BY DEF LockInv
<1>2. StepInv => LockOutlivesGroup /\ EveryStepTallied
  BY DEF StepInv
<1> QED BY <1>1, <1>2, LockRuns, LockInvHolds, StepRuns, StepInvHolds, ResultsStay, NoneBegins, PTL DEF WrapperIsOrderly, RunsEndClean

\* A run is dealt with once over every restart of the server, the first start replays
\* nothing, and each push has its cause (routine-notify.ts).
THEOREM FailuresArePushedOnce == MCSpec => PushedOnceWhenDue
BY PushRuns, PushInvHolds, SettledAtMostOnce, PushesAreQuiet, PushesHaveCauses, PTL DEF PushedOnceWhenDue

\* What launchd holds is what the routine's file says once the reconcile rests, and the
\* reconcile kills no run it could have seen (routine-reconcile.ts).
THEOREM LaunchdKeepsUp == MCSpec => LaunchdFollows
BY ReconcileRuns, ReconcileCorrect, PTL

\* What the recorder learns of the account is what happened, as far as a reading can show it:
\* a window that went by unseen, or a rise of at most MOVE_EPSILON, is all that may be missed
\* (usage-history.ts).
THEOREM ProfileIsOfWhatHappened == MCSpec => []ProfileIsLearned
BY ProfileRuns, ProfileCorrect, PTL

\* The component at work keeps its variables in their types, whatever happens to it.
THEOREM BackgroundTypeCorrect == MCSpec => []TypesOK
<1>1. LockInv => LockTypeOK
  BY DEF LockInv
<1>2. PushInv => PushTypeOK
  BY DEF PushInv, PushShape, FileIsSaved, FileIsMemory, PushTypeOK
<1>3. ASSUME StepInv PROVE StepTypeOK
  <2>1. /\ total \in 0..MaxSteps /\ at \in 0..total /\ counts["ok"] \in Nat /\ counts["failed"] \in Nat /\ counts["skipped"] \in Nat
        /\ counts["ok"] + counts["failed"] + counts["skipped"] <= at /\ MaxSteps \in Nat
    BY <1>3, MaxStepsAssumption DEF StepInv, StepShape, EveryStepTallied
  <2>2. \A k \in {"ok", "failed", "skipped"} : counts[k] \in 0..MaxSteps
    BY <2>1
  <2>3. counts \in [{"ok", "failed", "skipped"} -> Nat]
    BY <1>3 DEF StepInv, StepShape
  <2>4. counts \in [{"ok", "failed", "skipped"} -> 0..MaxSteps] /\ at \in 0..MaxSteps
    BY <2>1, <2>2, <2>3
  <2> QED BY <1>3, <2>4, Zenon DEF StepInv, StepShape, StepTypeOK
<1>4. RecInv => ReconcileTypeOK
  BY DEF RecInv, RecShape, RestsClean, ReconcileTypeOK
<1>5. MCSpec => [](LockTypeOK /\ PushTypeOK)
  BY <1>1, <1>2, LockRuns, LockInvHolds, PushRuns, PushInvHolds, PTL
<1>6. MCSpec => [](StepTypeOK /\ ReconcileTypeOK)
  BY <1>3, <1>4, StepRuns, StepInvHolds, ReconcileRuns, RecInvHolds, PTL
<1>7. MCSpec => [](ReaderTypeOK /\ LedgerTypeOK)
  BY ReaderRuns, ReaderTypeCorrect, SpendRuns, LedgerTypeCorrect, PTL
<1>8. MCSpec => [](SyncTypeOK /\ ProfileTypeOK)
  BY SyncRuns, SyncTypeCorrect, ProfileRuns, ProfileTypeCorrect, PTL
<1>9. LockTypeOK /\ PushTypeOK /\ StepTypeOK /\ ReconcileTypeOK /\ ReaderTypeOK /\ LedgerTypeOK /\ SyncTypeOK /\ ProfileTypeOK => TypesOK
  BY Zenon DEF TypesOK
<1> QED BY <1>5, <1>6, <1>7, <1>8, <1>9, PTL
=============================================================================
