------------------------------ MODULE PagesProofs ------------------------------
(***************************************************************************)
(* What is proved of a page of the dashboard: the polled list, the reply   *)
(* panel, the cycle of usage readings, and the types of the bundle they    *)
(* run in with the launches.  For any number of fetches out, of versions,  *)
(* replies and cycles.                                                     *)
(***************************************************************************)
EXTENDS MCPages, LaunchStoreProofs

(* The polled list.  A mounted fetch has a number of its own, at most the   *)
(* newest's; what the newest has read is as new as what is shown, and as    *)
(* this page's last write.                                                  *)
SeqsAreOwn ==
  \A f \in out : f.mounted => /\ f.seq <= issued
                              /\ \A g \in out : g.mounted /\ g.seq = f.seq => g = f
NewestIsNew ==
  \A f \in out : f.mounted /\ f.seq = issued /\ f.has # Unread => f.has >= shown /\ f.has >= own

ReadsArePast == \A f \in out : f.has # Unread => f.has <= version

PollInv == PollTypeOK /\ SeqsAreOwn /\ NewestIsNew /\ ReadsArePast /\ shown <= version /\ OwnWriteIsShown

\* The fields of a fetch.
LEMMA FetchFields ==
  ASSUME NEW f \in Fetches
  PROVE  /\ f.seq \in 1..MaxOut /\ f.seq \in Nat /\ f.mounted \in BOOLEAN
         /\ f.has \in 0..MaxVersion \cup {Unread}
BY PollBounds DEF Fetches

\* Issuing a fetch, from a tick or a write of the page.
LEMMA NextFetchKeeps ==
  ASSUME PollInv, NextFetch,
         version' \in {version, version + 1}, version' \in 0..MaxVersion, own' \in {own, version'},
         UNCHANGED <<shown, failing>>
  PROVE  PollInv'
<1> DEFINE s == IF out = {} THEN 1 ELSE issued + 1
           n == [seq |-> s, has |-> Unread, mounted |-> TRUE]
<1>1. /\ s <= MaxOut /\ issued' = s /\ inFlight' = TRUE /\ out' = out \cup {n}
      /\ issued \in 0..MaxOut /\ out \subseteq Fetches /\ shown \in 0..MaxVersion /\ own \in 0..version
      /\ version \in 0..MaxVersion /\ failing \in BOOLEAN
  BY DEF NextFetch, PollInv, PollTypeOK
<1>2. s \in 1..MaxOut /\ s \in Nat /\ n \in Fetches /\ n.seq = s /\ n.mounted /\ n.has = Unread
  BY <1>1, PollBounds DEF Fetches
<1>3. \A f \in out : f.mounted => f.seq < s
  <2> SUFFICES ASSUME NEW f \in out, f.mounted PROVE f.seq < s
    OBVIOUS
  <2>1. f.seq <= issued /\ f.seq \in Nat /\ s = issued + 1
    BY <1>1, FetchFields DEF PollInv, SeqsAreOwn
  <2> QED BY <2>1, <1>1, PollBounds
<1> HIDE DEF s, n
<1>4. SeqsAreOwn'
  <2> SUFFICES ASSUME NEW f \in out', f.mounted
               PROVE  f.seq <= s /\ \A g \in out' : g.mounted /\ g.seq = f.seq => g = f
    BY <1>1 DEF SeqsAreOwn
  <2>1. f.seq \in Nat /\ \A g \in out' : g.seq \in Nat
    BY <1>1, <1>2, FetchFields
  <2>2. CASE f = n
    BY <2>1, <2>2, <1>1, <1>2, <1>3
  <2>3. CASE f # n
    <3>1. f \in out /\ f.seq < s
      BY <2>3, <1>1, <1>3
    <3> QED BY <3>1, <2>1, <1>1, <1>2 DEF PollInv, SeqsAreOwn
  <2> QED BY <2>2, <2>3
<1>5. NewestIsNew'
  <2> SUFFICES ASSUME NEW f \in out', f.mounted, f.seq = s PROVE f.has = Unread
    BY <1>1 DEF NewestIsNew
  <2>1. f = n
    BY <1>1, <1>2, <1>3, FetchFields
  <2> QED BY <2>1, <1>2
<1>6. PollTypeOK'
  BY <1>1, <1>2, PollBounds DEF PollTypeOK
<1>7. (shown <= version)' /\ OwnWriteIsShown'
  BY <1>1, PollBounds DEF PollInv, OwnWriteIsShown
<1>8. ReadsArePast'
  <2> SUFFICES ASSUME NEW f \in out', f.has # Unread PROVE f.has <= version'
    BY DEF ReadsArePast
  <2>1. f \in out /\ f.has \in 0..MaxVersion
    BY <1>1, <1>2, FetchFields
  <2> QED BY <2>1, <1>1, PollBounds DEF PollInv, ReadsArePast
<1> QED BY <1>4, <1>5, <1>6, <1>7, <1>8 DEF PollInv

\* A fetch ends, answered or not.
LEMMA EndKeeps ==
  ASSUME PollInv, NEW f \in out, Answered(f) \/ ReadFails(f)
  PROVE  PollInv' /\ (shown' >= shown)
<1>1. /\ out' = out \ {f} /\ UNCHANGED <<version, issued, own>>
      /\ issued \in 0..MaxOut /\ out \subseteq Fetches /\ shown \in 0..MaxVersion /\ own \in 0..version
      /\ version \in 0..MaxVersion /\ failing \in BOOLEAN /\ inFlight \in BOOLEAN
  BY DEF Answered, ReadFails, PollInv, PollTypeOK
<1>2. SeqsAreOwn'
  BY <1>1 DEF PollInv, SeqsAreOwn
<1>9. ReadsArePast'
  BY <1>1 DEF PollInv, ReadsArePast
<1>3. CASE ~MaySettle(f)
  <2>1. UNCHANGED <<shown, failing, inFlight>>
    BY <1>3 DEF Answered, ReadFails
  <2>2. (\E g \in out : g.mounted /\ g.seq = issued) <=> \E g \in out' : g.mounted /\ g.seq = issued
    BY <1>1, <1>3 DEF MaySettle
  <2>3. PollTypeOK'
    BY <1>1, <2>1, <2>2 DEF PollInv, PollTypeOK
  <2> QED BY <1>1, <1>2, <1>9, <2>1, <2>3, PollBounds DEF PollInv, NewestIsNew, OwnWriteIsShown
<1>4. CASE MaySettle(f)
  <2>1. f.mounted /\ f.seq = issued /\ inFlight' = FALSE
    BY <1>4 DEF MaySettle, Answered, ReadFails
  <2>2. ~ \E g \in out' : g.mounted /\ g.seq = issued
    BY <1>1, <2>1 DEF PollInv, SeqsAreOwn
  <2>3. NewestIsNew'
    BY <1>1, <2>2 DEF NewestIsNew
  <2>4. CASE Answered(f)
    <3>1. f.has # Unread /\ shown' = f.has /\ failing' = FALSE
      BY <1>4, <2>4 DEF Answered
    <3>2. f.has >= shown /\ f.has >= own /\ f.has \in 0..MaxVersion
      BY <1>1, <2>1, <3>1, FetchFields DEF PollInv, NewestIsNew
    <3>3. f.has <= version
      BY <3>1 DEF PollInv, ReadsArePast
    <3> QED BY <1>1, <1>2, <1>9, <2>1, <2>2, <2>3, <3>1, <3>2, <3>3, PollBounds DEF PollInv, PollTypeOK, OwnWriteIsShown
  <2>5. CASE ReadFails(f)
    <3>1. failing' = TRUE /\ shown' = shown
      BY <1>4, <2>5 DEF ReadFails
    <3>2. PollTypeOK'
      BY <1>1, <2>1, <2>2, <3>1 DEF PollTypeOK
    <3>3. OwnWriteIsShown' /\ (shown <= version)' /\ (shown' >= shown)
      BY <1>1, <3>1, PollBounds DEF PollInv, OwnWriteIsShown
    <3> QED BY <1>2, <1>9, <2>3, <3>2, <3>3 DEF PollInv
  <2> QED BY <2>4, <2>5
<1> QED BY <1>3, <1>4


\* The server reads for a fetch.
LEMMA ReadKeeps ==
  ASSUME PollInv, ServerReads
  PROVE  PollInv'
<1>1. PICK f \in out : f.has = Unread /\ out' = (out \ {f}) \cup {[f EXCEPT !.has = version]}
  BY DEF ServerReads
<1> DEFINE n == [f EXCEPT !.has = version]
<1>2. /\ UNCHANGED <<version, issued, inFlight, shown, failing, own>>
      /\ issued \in 0..MaxOut /\ out \subseteq Fetches /\ shown \in 0..MaxVersion /\ own \in 0..version
      /\ version \in 0..MaxVersion /\ shown <= version
  BY DEF ServerReads, PollInv, PollTypeOK
<1>3. n \in Fetches /\ n.seq = f.seq /\ n.mounted = f.mounted /\ n.has = version
  BY <1>2 DEF Fetches
<1>4. out' = (out \ {f}) \cup {n}
  BY <1>1
<1> HIDE DEF n
<1>5. SeqsAreOwn'
  BY <1>1, <1>2, <1>3, <1>4 DEF PollInv, SeqsAreOwn
<1>6. NewestIsNew' /\ ReadsArePast'
  BY <1>1, <1>2, <1>3, <1>4, PollBounds DEF PollInv, NewestIsNew, ReadsArePast
<1>7. (\E g \in out : g.mounted /\ g.seq = issued) <=> \E g \in out' : g.mounted /\ g.seq = issued
  BY <1>1, <1>2, <1>3, <1>4
<1>8. PollTypeOK'
  BY <1>1, <1>2, <1>3, <1>4, <1>7 DEF PollInv, PollTypeOK
<1> QED BY <1>2, <1>5, <1>6, <1>8 DEF PollInv, OwnWriteIsShown

\* A setting changes: what is out is an orphan, and numbers restart.
LEMMA RemountKeeps ==
  ASSUME PollInv, Remount
  PROVE  PollInv'
<1> DEFINE n == [seq |-> 1, has |-> Unread, mounted |-> TRUE]
           orphans == {[f EXCEPT !.mounted = FALSE] : f \in out}
<1>0. inFlight' = TRUE /\ failing' = failing /\ failing \in BOOLEAN
  BY DEF Remount, PollInv, PollTypeOK
<1>1. /\ issued' = 1 /\ out' = orphans \cup {n} /\ UNCHANGED <<version, shown, own>>
      /\ out \subseteq Fetches /\ shown \in 0..MaxVersion /\ own \in 0..version
      /\ version \in 0..MaxVersion
  BY DEF Remount, PollInv, PollTypeOK
<1>2. n \in Fetches /\ n.seq = 1 /\ n.mounted /\ n.has = Unread
  BY PollBounds DEF Fetches
<1>3. \A f \in orphans : /\ f \in Fetches /\ ~f.mounted
                         /\ f.has # Unread => f.has <= version
  <2> SUFFICES ASSUME NEW g \in out
               PROVE  /\ [g EXCEPT !.mounted = FALSE] \in Fetches
                      /\ ~[g EXCEPT !.mounted = FALSE].mounted
                      /\ [g EXCEPT !.mounted = FALSE].has = g.has
    BY DEF PollInv, ReadsArePast
  <2> QED BY <1>1 DEF Fetches
<1> HIDE DEF n, orphans
<1>4. \A f \in out' : f.mounted => f = n
  BY <1>1, <1>3
<1>5. out' \subseteq Fetches /\ n \in out'
  BY <1>1, <1>2, <1>3
<1>6. SeqsAreOwn' /\ NewestIsNew' /\ ReadsArePast'
  BY <1>1, <1>2, <1>3, <1>4 DEF SeqsAreOwn, NewestIsNew, ReadsArePast
<1>7. issued' \in 0..MaxOut
  BY <1>1, PollBounds
<1>8. PollTypeOK'
  BY <1>0, <1>1, <1>2, <1>5, <1>7 DEF PollTypeOK
<1>9. shown' <= version' /\ OwnWriteIsShown'
  BY <1>0, <1>1 DEF PollInv, OwnWriteIsShown
<1> QED BY <1>6, <1>8, <1>9 DEF PollInv

LEMMA FetchStep ==
  ASSUME PollInv, [PollNext]_pollVars
  PROVE  PollInv' /\ (shown' >= shown)
<1> USE PollBounds
<1>0. shown \in Nat /\ version \in 0..MaxVersion /\ own \in 0..version
  BY DEF PollInv, PollTypeOK
<1>1. CASE PollTick
  BY <1>0, <1>1, NextFetchKeeps DEF PollTick
<1>2. CASE WriteHere
  BY <1>0, <1>2, NextFetchKeeps DEF WriteHere, Refresh
<1>3. CASE WriteElsewhere
  <2>1. PollTypeOK' /\ SeqsAreOwn' /\ NewestIsNew'
    BY <1>0, <1>3 DEF WriteElsewhere, PollInv, PollTypeOK, SeqsAreOwn, NewestIsNew
  <2>2. ReadsArePast'
    <3> SUFFICES ASSUME NEW f \in out, f.has # Unread PROVE f.has <= version + 1
      BY <1>3 DEF WriteElsewhere, ReadsArePast
    <3>1. f.has <= version /\ f.has \in 0..MaxVersion
      BY FetchFields DEF PollInv, PollTypeOK, ReadsArePast
    <3> QED BY <3>1, <1>0
  <2>3. shown' = shown /\ (shown <= version)' /\ OwnWriteIsShown'
    BY <1>0, <1>3 DEF WriteElsewhere, PollInv, OwnWriteIsShown
  <2> QED BY <1>0, <2>1, <2>2, <2>3 DEF PollInv
<1>4. CASE ServerReads
  BY <1>0, <1>4, ReadKeeps DEF ServerReads
<1>5. CASE Remount
  BY <1>0, <1>5, RemountKeeps DEF Remount
<1>6. CASE \E f \in out : Answered(f) \/ ReadFails(f)
  BY <1>6, EndKeeps
<1>7. CASE UNCHANGED pollVars
  BY <1>0, <1>7 DEF pollVars, PollInv, PollTypeOK, SeqsAreOwn, NewestIsNew, ReadsArePast, OwnWriteIsShown
<1> QED BY <1>1, <1>2, <1>3, <1>4, <1>5, <1>6, <1>7 DEF PollNext

LEMMA PollStart == ASSUME PollInit PROVE PollInv
<1>0. issued \in 0..MaxOut /\ {version, shown} \subseteq 0..MaxVersion /\ own \in 0..version
  BY PollBounds DEF PollInit
<1>1. PollTypeOK
  BY <1>0 DEF PollInit, PollTypeOK
<1>2. out = {} /\ shown = 0 /\ version = 0 /\ own = 0
  BY DEF PollInit
<1> QED BY <1>1, <1>2 DEF PollInv, SeqsAreOwn, NewestIsNew, ReadsArePast, OwnWriteIsShown

(* The list's variables keep their types, and the guard a timed fetch is    *)
(* skipped by stands exactly while the newest fetch is out.                 *)
THEOREM PollTypeCorrect == PollInit /\ [][PollNext]_pollVars => []PollTypeOK
<1>1. PollInit => PollInv
  BY PollStart
<1>2. PollInv /\ [PollNext]_pollVars => PollInv'
  BY FetchStep
<1>3. PollInv => PollTypeOK
  BY DEF PollInv
<1> QED BY <1>1, <1>2, <1>3, PTL

(* The page never goes back to what it showed before, nor behind a write of *)
(* its own (pollSeq.ts settle).                                             *)
THEOREM PageIsMonotone == PollInit /\ [][PollNext]_pollVars => []OwnWriteIsShown /\ NeverStepsBack
<1>1. PollInit => PollInv
  BY PollStart
<1>2. PollInv /\ [PollNext]_pollVars => PollInv'
  BY FetchStep
<1>3. PollInv => OwnWriteIsShown
  BY DEF PollInv
<1>4. PollInv /\ [PollNext]_pollVars => [shown' >= shown]_pollVars
  BY FetchStep
<1>5. PollInit /\ [][PollNext]_pollVars => []OwnWriteIsShown
  BY <1>1, <1>2, <1>3, PTL
<1>6. PollInit /\ [][PollNext]_pollVars => NeverStepsBack
  BY <1>1, <1>2, <1>4, PTL DEF NeverStepsBack
<1> QED BY <1>5, <1>6

-----------------------------------------------------------------------------
(* The reply panel.                                                         *)
ReplyInv == ReplyTypeOK /\ AcceptedAsTyped

\* The fields of a post.
LEMMA PostFields ==
  ASSUME NEW p \in Posts
  PROVE  /\ p.reply \in Replies /\ p.dismiss \in BOOLEAN /\ p.outcome \in Outcomes \cup {"unread"}
         /\ p.reply # NoReply
         /\ \A o \in Outcomes : /\ [p EXCEPT !.outcome = o] \in Posts
                                 /\ [p EXCEPT !.outcome = o].reply = p.reply
BY ReplyBounds DEF Posts, Replies

\* The server's part of a post.
LEMMA ServedKeeps ==
  ASSUME ReplyInv, NEW p \in posts, ServerTakes(p) \/ ServerRefuses(p) \/ PostFails(p)
  PROVE  ReplyInv'
<1>1. p \in Posts /\ posts \subseteq Posts
  BY DEF ReplyInv, ReplyTypeOK
<1>2. PICK o \in Outcomes : posts' = (posts \ {p}) \cup {[p EXCEPT !.outcome = o]}
  BY DEF ServerTakes, ServerRefuses, PostFails, Outcome, Outcomes
<1>3. posts' \subseteq Posts /\ \A q \in posts : \E r \in posts' : r.reply = q.reply
  BY <1>1, <1>2, PostFields
<1>4. UNCHANGED <<asked, panelVars, polls>> /\ waiting' \in {waiting, NoReply}
  BY DEF ServerTakes, ServerRefuses, PostFails, serverVars
<1>5. accepted' = accepted \/ (waiting = p.reply /\ accepted' = accepted \cup {<<waiting, p.reply>>})
  BY DEF ServerTakes, ServerRefuses, PostFails, serverVars, Takes
<1>6. accepted' \subseteq Replies \X Replies /\ AcceptedAsTyped'
  BY <1>1, <1>5, PostFields DEF ReplyInv, ReplyTypeOK, AcceptedAsTyped
<1>7. phase' = "submitting" => \E q \in posts' : q.reply = phaseFor'
  BY <1>3, <1>4 DEF panelVars, ReplyInv, ReplyTypeOK
<1> QED BY <1>3, <1>4, <1>6, <1>7 DEF panelVars, ReplyInv, ReplyTypeOK, MaybeReply

LEMMA ReplyStep ==
  ASSUME ReplyInv, [ReplyNext]_replyVars
  PROVE  ReplyInv'
<1> USE ReplyBounds DEF ReplyInv, AcceptedAsTyped
<1>1. CASE AskReply
  BY <1>1 DEF AskReply, ReplyTypeOK, MaybeReply, Replies, panelVars
<1>2. CASE WaitEnds
  BY <1>2 DEF WaitEnds, ReplyTypeOK, MaybeReply, panelVars
<1>3. CASE PollReads
  BY <1>3 DEF PollReads, ReplyTypeOK, serverVars, panelVars
<1>4. ASSUME NEW next \in MaybeReply, PollLands(next) PROVE ReplyInv'
  <2>1. /\ polls' \subseteq polls /\ pending' = next /\ phase' = NextPhase(next, phase)
        /\ phaseFor' = (IF next = NoReply THEN phaseFor ELSE next)
        /\ UNCHANGED <<waiting, asked, accepted, posts>>
    BY <1>4 DEF PollLands, serverVars
  <2>2. phase' \in {"idle", phase}
    BY <2>1 DEF NextPhase
  <2>3. phase' = "submitting" => \E q \in posts' : q.reply = phaseFor'
    BY <2>1 DEF NextPhase, ReplyTypeOK
  <2> QED BY <2>1, <2>2, <2>3 DEF ReplyTypeOK
<1>5. ASSUME NEW d \in BOOLEAN, Submit(d) PROVE ReplyInv'
  <2> DEFINE p == [reply |-> pending, dismiss |-> d, outcome |-> "unread"]
  <2>1. /\ pending # NoReply /\ phase' = "submitting" /\ posts' = posts \cup {p}
        /\ UNCHANGED <<waiting, asked, accepted, pending, phaseFor, polls>>
    BY <1>5 DEF Submit, serverVars
  <2>2. p \in Posts /\ p.reply = phaseFor
    BY <2>1 DEF ReplyTypeOK, MaybeReply, Posts
  <2> QED BY <2>1, <2>2 DEF ReplyTypeOK
<1>6. ASSUME NEW p \in posts, ServerTakes(p) \/ ServerRefuses(p) \/ PostFails(p) PROVE ReplyInv'
  BY <1>6, ServedKeeps
<1>7. ASSUME NEW p \in posts, PostLands(p) PROVE ReplyInv'
  <2>1. PhaseAfter(p) \in {"gone", "sent", "idle"}
    BY DEF PhaseAfter
  <2> QED BY <1>7, <2>1 DEF PostLands, ReplyTypeOK, serverVars, MaybeReply
<1>8. CASE UNCHANGED replyVars
  BY <1>8 DEF replyVars, serverVars, panelVars, ReplyTypeOK
<1> QED BY <1>1, <1>2, <1>3, <1>4, <1>5, <1>6, <1>7, <1>8 DEF ReplyNext, PostStep

(* The panel keeps its types; it is busy only while a post of the reply it  *)
(* shows is under way, and a post ends.                                     *)
THEOREM ReplyTypeCorrect == ReplyInit /\ [][ReplyNext]_replyVars => []ReplyTypeOK
<1>1. ReplyInit => ReplyInv
  BY ReplyBounds DEF ReplyInit, ReplyInv, ReplyTypeOK, AcceptedAsTyped, MaybeReply
<1>2. ReplyInv /\ [ReplyNext]_replyVars => ReplyInv'
  BY ReplyStep
<1>3. ReplyInv => ReplyTypeOK
  BY DEF ReplyInv
<1> QED BY <1>1, <1>2, <1>3, PTL

\* A reply is accepted only for the wait it was typed for (the answer routes' 409).
THEOREM RepliesAreAnswers == ReplyInit /\ [][ReplyNext]_replyVars => []AcceptedAsTyped
<1>1. ReplyInit => ReplyInv
  BY ReplyBounds DEF ReplyInit, ReplyInv, ReplyTypeOK, AcceptedAsTyped, MaybeReply
<1>2. ReplyInv /\ [ReplyNext]_replyVars => ReplyInv'
  BY ReplyStep
<1>3. ReplyInv => AcceptedAsTyped
  BY DEF ReplyInv
<1> QED BY <1>1, <1>2, <1>3, PTL

-----------------------------------------------------------------------------
(* The usage cycle.  The newest cycle is not among those overtaken.         *)
UsageInv == UsageTypeOK /\ latest \notin overtaken

\* The best of some stores is the state of one of them.
LEMMA PickIsToken == ASSUME NEW seen \in SUBSET Tokens PROVE PickTokenState(seen) \in Tokens
<1>1. CASE seen = {}
  BY <1>1 DEF PickTokenState, Tokens
<1>2. CASE seen # {}
  <2>1. /\ Rank("ok") = 3 /\ Rank("expired") = 2 /\ Rank("signed-out") = 1 /\ Rank("missing") = 0
    BY DEF Rank
  <2>2. \E t \in seen : \A s \in seen : Rank(s) <= Rank(t)
    <3>1. \A s \in seen : s \in {"ok", "expired", "signed-out", "missing"}
      BY DEF Tokens
    <3>2. CASE "ok" \in seen
      BY <2>1, <3>1, <3>2
    <3>3. CASE "ok" \notin seen /\ "expired" \in seen
      BY <2>1, <3>1, <3>3
    <3>4. CASE "ok" \notin seen /\ "expired" \notin seen /\ "signed-out" \in seen
      BY <2>1, <3>1, <3>4
    <3>5. CASE seen = {"missing"}
      BY <2>1, <3>5
    <3> QED BY <1>2, <3>1, <3>2, <3>3, <3>4, <3>5
  <2> QED BY <1>2, <2>2 DEF PickTokenState
<1> QED BY <1>1, <1>2

LEMMA UsageStep ==
  ASSUME UsageInv, [UsageNext]_usageVars
  PROVE  UsageInv' /\ \A c \in overtaken : c \notin asking' => UNCHANGED cacheState
<1> USE CycleAssumption, UsageTimes
<1> USE DEF UsageInv, UsageTypeOK, cacheState, cycleState, renewState
<1>1. CASE StoresChange
  BY <1>1, PickIsToken DEF StoresChange
<1>2. CASE StoresStay
  BY <1>2 DEF StoresStay
<1>3. CASE CliRenews
  BY <1>3 DEF CliRenews, Tokens
<1>4. CASE RenewalStep
  BY <1>4 DEF RenewalStep, Renewed, StatusEnded, TurnEnded
<1>5. CASE UsageTick
  BY <1>5 DEF UsageTick
<1>6. ASSUME NEW force \in BOOLEAN, RefreshNow(force) PROVE UsageInv' /\ \A c \in overtaken : c \in asking'
  <2>1. StatusForToken(store) \in Statuses
    BY DEF StatusForToken, Statuses, Tokens
  <2>2. CASE store = "ok"
    BY <1>6, <2>2 DEF RefreshNow
  <2>3. CASE store # "ok"
    BY <1>6, <2>1, <2>3 DEF RefreshNow
  <2> QED BY <2>2, <2>3
<1>7. ASSUME NEW c \in Cycles, NEW limits \in BOOLEAN, Answer(c, limits)
      PROVE  UsageInv' /\ \A d \in overtaken : d \notin asking' => UNCHANGED cacheState
  <2>1. CASE c = latest
    BY <1>7, <2>1 DEF Answer, Owns, Leaves, Statuses
  <2>2. CASE c # latest
    BY <1>7, <2>2 DEF Answer, Owns, Leaves
  <2> QED BY <2>1, <2>2
<1>8. CASE UNCHANGED usageVars
  BY <1>8 DEF usageVars
<1> QED BY <1>1, <1>2, <1>3, <1>4, <1>5, <1>6, <1>7, <1>8 DEF UsageNext

LEMMA UsageStart == ASSUME UsageInit PROVE UsageInv
<1>1. /\ store \in Tokens /\ noRenewal \in BOOLEAN /\ cachedStatus \in Statuses
      /\ renewal \in {"off", "status", "turn"} /\ disabled \in BOOLEAN
  BY DEF UsageInit, Statuses
<1>2. age \in 0..CacheTtl + 1 /\ flightAge \in 0..Stall /\ failures \in 0..3 /\ sinceTry \in 0..BackoffMax
  BY UsageTimes DEF UsageInit
<1>3. /\ flight = NoCycle /\ latest = NoCycle /\ asking \subseteq Cycles /\ hung \subseteq asking
      /\ overtaken \subseteq asking /\ latest \notin asking /\ latest \notin overtaken
  BY DEF UsageInit
<1> QED BY <1>1, <1>2, <1>3 DEF UsageInv, UsageTypeOK

(* The cycle keeps its types: the flight is the newest cycle while that is  *)
(* asking, and nothing else.                                                *)
THEOREM UsageTypeCorrect == UsageInit /\ [][UsageNext]_usageVars => []UsageTypeOK
<1>1. UsageInit => UsageInv
  BY UsageStart
<1>2. UsageInv /\ [UsageNext]_usageVars => UsageInv'
  BY UsageStep
<1>3. UsageInv => UsageTypeOK
  BY DEF UsageInv
<1> QED BY <1>1, <1>2, <1>3, PTL

(* The answer of an abandoned cycle never replaces what a newer one found   *)
(* (usage.ts refreshNow, `mine === cycleSeq`).                              *)
THEOREM FiguresAreNewest == UsageInit /\ [][UsageNext]_usageVars => NoOldAnswer
<1>1. UsageInit => UsageInv
  BY UsageStart
<1>2. UsageInv /\ [UsageNext]_usageVars => UsageInv'
  BY UsageStep
<1>3. UsageInv /\ [UsageNext]_usageVars
      => [\A c \in overtaken : c \notin asking' => UNCHANGED cacheState]_usageVars
  BY UsageStep
<1> QED BY <1>1, <1>2, <1>3, PTL DEF NoOldAnswer

-----------------------------------------------------------------------------
(* The bundle.  A behaviour of it is one of each component, which either    *)
(* works or rests.                                                          *)
LEMMA PollRuns == MCSpec => PollInit /\ [][PollNext]_pollVars
<1>1. MCInit => PollInit
  BY DEF MCInit
<1>2. [MCNext]_mcVars => [PollNext]_pollVars
  BY DEF MCNext, mcVars
<1> QED BY <1>1, <1>2, PTL DEF MCSpec

LEMMA ReplyRuns == MCSpec => ReplyInit /\ [][ReplyNext]_replyVars
<1>1. MCInit => ReplyInit
  BY DEF MCInit
<1>2. [MCNext]_mcVars => [ReplyNext]_replyVars
  BY DEF MCNext, mcVars
<1> QED BY <1>1, <1>2, PTL DEF MCSpec

LEMMA RailRuns == MCSpec => Spec
<1>1. MCInit => Init
  BY DEF MCInit
<1>2. [MCNext]_mcVars => [Next]_vars
  BY DEF MCNext, mcVars
<1> QED BY <1>1, <1>2, PTL DEF MCSpec, Spec

LEMMA CycleRuns == MCSpec => UsageInit /\ [][UsageNext]_usageVars
<1>1. MCInit => UsageInit
  BY DEF MCInit
<1>2. [MCNext]_mcVars => [UsageNext]_usageVars
  BY DEF MCNext, mcVars
<1> QED BY <1>1, <1>2, PTL DEF MCSpec

\* Every variable of the component at work keeps its type.
THEOREM PagesTypeCorrect == MCSpec => []TypesOK
<1>1. PollTypeOK /\ ReplyTypeOK /\ TypeOK /\ UsageTypeOK => TypesOK
  BY DEF TypesOK
<1> QED BY <1>1, PollRuns, ReplyRuns, RailRuns, CycleRuns, PollTypeCorrect, ReplyTypeCorrect, LaunchTypeCorrect, UsageTypeCorrect, PTL

\* What a page shows is never older than it showed, nor than its own writes; what
\* it answers is what was asked; and no abandoned cycle tells its figures.
THEOREM PagesAreSafe == MCSpec => [](OwnWriteIsShown /\ AcceptedAsTyped) /\ NeverStepsBack /\ NoOldAnswer
BY PollRuns, ReplyRuns, CycleRuns, PageIsMonotone, RepliesAreAnswers, FiguresAreNewest, PTL
=============================================================================
