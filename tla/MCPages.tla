------------------------------ MODULE MCPages -------------------------------
(***************************************************************************)
(* One run for what a page of the dashboard shows and asks for: a polled   *)
(* list, the reply panel, the rail of launches with its stop, and the      *)
(* cycle of usage readings. They share no variable: a behaviour of the run *)
(* is one of one component and the others rest.                            *)
(***************************************************************************)
EXTENDS ClientPoll, ReplyPanel, LaunchStore, UsageCycle

VARIABLE part   \* the component this behaviour is of

(* What a tab shows keeps up with what is written, by its own user and by      *)
(* others (pollSeq.ts and the polls; usePendingReply.ts).                      *)
TabKeepsUp == PollKeepsUp /\ RepliesLand

mcVars == <<part, pollVars, replyVars, vars, usageVars>>

\* A component that is not at work rests in one of its initial states.
MCInit ==
  /\ part \in {"poll", "reply", "rail", "cycle"}
  /\ PollInit
  /\ ReplyInit
  /\ Init /\ (part = "rail" \/ onDisk = {})
  /\ UsageInit /\ (part = "cycle" \/ store = "ok")

MCNext ==
  \/ /\ part = "poll" /\ PollNext
     /\ UNCHANGED <<part, replyVars, vars, usageVars>>
  \/ /\ part = "reply" /\ ReplyNext
     /\ UNCHANGED <<part, pollVars, vars, usageVars>>
  \/ /\ part = "rail" /\ Next
     /\ UNCHANGED <<part, pollVars, replyVars, usageVars>>
  \/ /\ part = "cycle" /\ UsageNext
     /\ UNCHANGED <<part, pollVars, replyVars, vars>>

\* Each component's own fairness.
MCFairness ==
  /\ \A k \in 1..MaxOut : WF_pollVars(part = "poll" /\ EndsFetch(k))
  /\ WF_replyVars(part = "reply" /\ PollReads /\ polls' # polls)
  /\ \A r \in MaybeReply : WF_replyVars(part = "reply" /\ PollLands(r))
  /\ \A p \in Posts : WF_replyVars(part = "reply" /\ p \in posts /\ PostStep(p))
  /\ WF_usageVars(part = "cycle" /\ RefreshNow(FALSE))
  /\ WF_usageVars(part = "cycle" /\ RenewalStep)
  /\ WF_usageVars(part = "cycle" /\ UsageTick)
  /\ \A c \in Cycles : WF_usageVars(part = "cycle" /\ c \notin hung /\ \E limits \in BOOLEAN : Answer(c, limits))

MCSpec == MCInit /\ [][MCNext]_mcVars /\ MCFairness

\* The variables of the component at work stay in their types; the others rest
\* where it started in other behaviours.
TypesOK ==
  /\ part = "poll" => PollTypeOK
  /\ part = "reply" => ReplyTypeOK
  /\ part = "rail" => TypeOK
  /\ part = "cycle" => UsageTypeOK
=============================================================================
