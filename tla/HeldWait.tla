------------------------------ MODULE HeldWait ------------------------------
(***************************************************************************)
(* What the remote-answer wait stores promise, with no map, timer, reaper  *)
(* or socket in sight: a held call waits in a slot (one hook kind of one   *)
(* session), a slot holds one call, a newcomer supersedes it, and a call   *)
(* meets at most one fate.  WaitStore is shown to implement this module.   *)
(***************************************************************************)
CONSTANTS Calls, Slots, NoSlot

\* The user's own act reaches the hook: a pick or reply, a plan sent back.
Acted == {"answered", "rejected"}

\* The wait is handed back to the terminal.
HandedBack == {"timeout", "released", "dismissed"}

\* "lost" is a call that never got a result: turned away, or nobody to tell.
Fates == Acted \cup HandedBack \cup {"new", "waiting", "superseded", "lost"}

VARIABLES fate, slot
vars == <<fate, slot>>

TypeOK == /\ fate \in [Calls -> Fates]
          /\ slot \in [Calls -> Slots \cup {NoSlot}]

Init == /\ fate = [c \in Calls |-> "new"]
        /\ slot = [c \in Calls |-> NoSlot]

\* Every call of S meets fate f and waits no longer.
Meet(S, f) == /\ fate' = [c \in Calls |-> IF c \in S THEN f ELSE fate[c]]
              /\ slot' = [c \in Calls |-> IF c \in S THEN NoSlot ELSE slot[c]]

\* A call takes slot s; whoever waits there is superseded.
Begin(c, s) ==
  LET out == {d \in Calls : slot[d] = s} IN
  /\ fate[c] = "new"
  /\ fate' = [d \in Calls |-> IF d = c THEN "waiting"
                              ELSE IF d \in out THEN "superseded" ELSE fate[d]]
  /\ slot' = [d \in Calls |-> IF d = c THEN s
                              ELSE IF d \in out THEN NoSlot ELSE slot[d]]

\* The same for a call whose peer is gone already: it clears the slot and is lost.
Flash(c, s) ==
  LET out == {d \in Calls : slot[d] = s} IN
  /\ fate[c] = "new"
  /\ fate' = [d \in Calls |-> IF d = c THEN "lost"
                              ELSE IF d \in out THEN "superseded" ELSE fate[d]]
  /\ slot' = [d \in Calls |-> IF d \in out THEN NoSlot ELSE slot[d]]

\* The user acts on one waiting call.
Act(c) == /\ fate[c] = "waiting"
          /\ \E f \in Acted : Meet({c}, f)

\* Waiting calls go back to the terminal together, for one reason.
HandBack(S) == /\ \A c \in S : fate[c] = "waiting"
               /\ \E f \in HandedBack : Meet(S, f)

\* Calls are turned away, or their peers or the server go.
Lose(S) == /\ \A c \in S : fate[c] \in {"new", "waiting"}
           /\ Meet(S, "lost")

Next == \/ \E S \in SUBSET Calls : HandBack(S) \/ Lose(S)
        \/ \E c \in Calls : \/ Act(c)
                            \/ \E s \in Slots : Begin(c, s) \/ Flash(c, s)

Spec == Init /\ [][Next]_vars
=============================================================================
