---------------------------- MODULE MCWaitStore -----------------------------
(* Instances of WaitStore for TLC: two calls, and in any one behaviour      *)
(* either one session and every store, or two sessions and one store.       *)
EXTENDS WaitStore, TLC

CONSTANT FirstSession

VARIABLE scope

InScope ==
  \A c \in Calls : req[c] # NoReq =>
    \/ scope = "stores" /\ req[c].session = FirstSession
    \/ scope = "sessions" /\ req[c].kind = "question"

MCInit == Init /\ scope \in {"stores", "sessions"}
MCNext == scope' = scope /\ Next /\ InScope'

MCSpec == MCInit /\ [][MCNext]_<<vars, scope>>
=============================================================================
