----------------------------- MODULE ReplyPanel -----------------------------
(***************************************************************************)
(* The chat drawer's reply panel (client usePendingReply.ts and            *)
(* lib/pendingReply.ts), from mount to unmount: the drawer is keyed by its *)
(* session.  It polls what the session waits for, posts the user's reply,  *)
(* and keeps a phase for the reply on screen.  Polls are not sequenced, so *)
(* their answers may land in any order.  The server's side is HeldWait's,  *)
(* reduced to the reply the session waits for.                             *)
(***************************************************************************)
EXTENDS Naturals, FiniteSets

CONSTANTS MaxReplies, MaxPosts, NoReply
ASSUME ReplyBounds == MaxReplies \in Nat /\ MaxPosts \in Nat /\ NoReply \notin Nat

VARIABLES
  waiting,   \* server: the reply the session waits for
  asked,     \* the replies ever waited for
  accepted,  \* history: <<the reply that was waited for, the reply it was typed for>>
  pending, phase, phaseFor,
  polls,     \* poll answers on their way to the page
  posts      \* the page's writes under way

serverVars == <<waiting, asked, accepted>>
panelVars == <<pending, phase, phaseFor>>
replyVars == <<serverVars, panelVars, polls, posts>>

Replies == 1..MaxReplies
MaybeReply == Replies \cup {NoReply}
Outcomes == {"ok", "gone", "error"}   \* "error" stands for "token" and "read-only" too: the phase is the same
Posts == [reply : Replies, dismiss : BOOLEAN, outcome : Outcomes \cup {"unread"}]

ReplyTypeOK ==
  /\ waiting \in MaybeReply /\ asked \in 0..MaxReplies
  /\ accepted \subseteq Replies \X Replies
  /\ pending \in MaybeReply /\ phaseFor \in MaybeReply
  /\ phase \in {"idle", "submitting", "sent", "gone"}
  /\ polls \subseteq MaybeReply /\ posts \subseteq Posts
  \* What is on screen is what the phase refers to, and only a post keeps it waiting.
  /\ pending # NoReply => pending = phaseFor
  /\ phase = "submitting" => \E p \in posts : p.reply = phaseFor

ReplyInit ==
  /\ waiting = NoReply /\ asked = 0 /\ accepted = {}
  /\ pending = NoReply /\ phase = "idle" /\ phaseFor = NoReply
  /\ polls = {} /\ posts = {}

-----------------------------------------------------------------------------
\* A hook holds a new reply open, or ends one: HeldWait's register and settle.
AskReply ==
  /\ asked < MaxReplies /\ asked' = asked + 1 /\ waiting' = asked + 1
  /\ UNCHANGED <<accepted, panelVars, polls, posts>>

WaitEnds ==
  /\ waiting # NoReply /\ waiting' = NoReply
  /\ UNCHANGED <<asked, accepted, panelVars, polls, posts>>

PollReads ==
  /\ polls' = polls \cup {waiting}
  /\ UNCHANGED <<serverVars, panelVars, posts>>

-----------------------------------------------------------------------------
(* afterPoll.                                                                 *)
NextPhase(next, cur) ==
  IF next = NoReply THEN IF phaseFor # NoReply /\ cur # "sent" THEN "idle" ELSE cur
  ELSE IF phaseFor # next THEN "idle" ELSE cur

\* Mutant: a poll is not looked at while a reply is out or was accepted.
LandsWhenIdle(next) ==
  /\ next \in polls /\ polls' = polls \ {next}
  /\ pending' = IF phase = "idle" THEN next ELSE pending
  /\ phaseFor' = IF phase = "idle" /\ next # NoReply THEN next ELSE phaseFor
  /\ UNCHANGED <<phase, serverVars, posts>>
PollLands(next) ==
  /\ next \in polls /\ polls' = polls \ {next}
  /\ pending' = next /\ phase' = NextPhase(next, phase)
  /\ phaseFor' = IF next = NoReply THEN phaseFor ELSE next
  /\ UNCHANGED <<serverVars, posts>>

-----------------------------------------------------------------------------
\* send and dismiss: canSend allows any phase but "submitting", the panels draw
\* the form, with its buttons, in "idle" and "submitting" only.
Submit(dismiss) ==
  /\ pending # NoReply /\ phase = "idle" /\ Cardinality(posts) < MaxPosts
  /\ phase' = "submitting"
  /\ posts' = posts \cup {[reply |-> pending, dismiss |-> dismiss, outcome |-> "unread"]}
  /\ UNCHANGED <<serverVars, pending, phaseFor, polls>>

\* The answer routes' 404 and 409.  Mutant: the newest wait takes any answer.
TakesAny(p) == waiting # NoReply
Takes(p) == waiting = p.reply

Outcome(p, o) == posts' = (posts \ {p}) \cup {[p EXCEPT !.outcome = o]}

ServerTakes(p) ==
  /\ p.outcome = "unread" /\ Takes(p)
  /\ waiting' = NoReply
  /\ accepted' = IF p.dismiss THEN accepted ELSE accepted \cup {<<waiting, p.reply>>}
  /\ \E o \in {"ok", "error"} : Outcome(p, o)      \* the reply of the server may be lost
  /\ UNCHANGED <<asked, panelVars, polls>>

ServerRefuses(p) ==
  /\ p.outcome = "unread" /\ ~Takes(p) /\ Outcome(p, "gone")
  /\ UNCHANGED <<serverVars, panelVars, polls>>

PostFails(p) ==
  /\ p.outcome = "unread" /\ Outcome(p, "error")
  /\ UNCHANGED <<serverVars, panelVars, polls>>

\* afterSend and afterDismiss.  Mutant: an error leaves the phase.
LeavesOnError(p) == IF p.outcome = "error" THEN phase ELSE IF p.outcome = "gone" THEN "gone" ELSE "sent"
PhaseAfter(p) ==
  IF p.outcome = "gone" THEN "gone"
  ELSE IF p.outcome = "ok" /\ ~p.dismiss THEN "sent" ELSE "idle"

PostLands(p) ==
  /\ p.outcome # "unread" /\ posts' = posts \ {p}
  /\ phase' = PhaseAfter(p)
  /\ pending' = IF p.outcome = "ok" /\ p.dismiss THEN NoReply ELSE pending
  /\ UNCHANGED <<serverVars, phaseFor, polls>>

PostStep(p) == ServerTakes(p) \/ ServerRefuses(p) \/ PostFails(p) \/ PostLands(p)

ReplyNext ==
  \/ AskReply \/ WaitEnds \/ PollReads \/ \E r \in MaybeReply : PollLands(r)
  \/ \E d \in BOOLEAN : Submit(d)
  \/ \E p \in posts : PostStep(p)

\* The interval polls, and the browser answers every request.
FairReply ==
  /\ WF_replyVars(PollReads /\ polls' # polls)
  /\ \A r \in MaybeReply : WF_replyVars(PollLands(r))
  /\ \A p \in Posts : WF_replyVars(p \in posts /\ PostStep(p))

ReplySpec == ReplyInit /\ [][ReplyNext]_replyVars /\ FairReply

-----------------------------------------------------------------------------
(* A reply is accepted only for the wait it was typed for: an answer that    *)
(* crosses a newer question is refused (409), it does not answer that one.   *)
AcceptedAsTyped == \A a \in accepted : a[1] = a[2]

(* The panel follows the session: what waits is shown, and a reply that is   *)
(* over goes away ("The poll is also how a panel disappears").               *)
PanelFollows == \A w \in MaybeReply : waiting = w ~> (pending = w \/ waiting # w)

(* A panel never stays on a submission: whatever becomes of the POST, its    *)
(* buttons come back or a banner says what happened.                         *)
SubmitEnds == phase = "submitting" ~> phase # "submitting"

(* A reply lands where it was meant to, and the panel is never stuck on     *)
(* what is over or on a submission.                                         *)
RepliesLand == []AcceptedAsTyped /\ PanelFollows /\ SubmitEnds
=============================================================================
