------------------------------ MODULE MCPolled ------------------------------
(***************************************************************************)
(* One run for what works on a schedule or on the pinned repositories: the *)
(* gate of quick git operations and fetch-all, the fetch schedule, the     *)
(* codegraph store and the minutes a routine fires at. They share no       *)
(* variable: a behaviour of the run is one of one component and the others *)
(* rest. Three trees, the first two linked worktrees of one repository;    *)
(* the schedule's unit is 15 s: the intervals 30 s, 60 s and 120 s, a      *)
(* grace of 90 s.                                                          *)
(***************************************************************************)
EXTENDS GitGate, FetchClock, CodegraphStore, CronSlots, TLC

CONSTANTS t1, t2, t3, d1, d2

VARIABLE part   \* the component this behaviour is of

MCCommon == (t1 :> d1) @@ (t2 :> d1) @@ (t3 :> d2)
MCIntervals == {2, 4, 8}
\* Sets a jump has to leave, at each level; changes in the middle of a month, at
\* midnight and in the day, either way, and none.
MCCrons ==
  [minute : {{1}, {0, 1}}, hour : {{0}, {2}, 0..2}, dom : {{1}, 1..3}, month : {{1}, 1..2}, dow : {{0}, 0..1},
   domRestricted : BOOLEAN, dowRestricted : BOOLEAN]
MCChanges == [at : {16, 18, 20}, shift : {-2, 2}] \cup {[at |-> 0, shift |-> 0]}

mcVars == <<part, vars, clockVars, graphVars, cronVars>>

\* A component that is not at work rests in one of its initial states.
MCInit ==
  /\ part \in {"gate", "clock", "graph", "cron"}
  /\ Init /\ (part = "gate" \/ (pinned = {} /\ tree = [o \in Ops |-> t1]))
  /\ ClockInit /\ (part = "clock" \/ secs = 0)
  /\ GraphInit
  /\ CronInit /\ (part = "cron" \/ (origin = LastMinute /\ direction = "next" /\ change.shift = 0 /\ cron = CHOOSE c \in Crons : TRUE))

MCNext ==
  \/ /\ part = "gate" /\ Next
     /\ UNCHANGED <<part, clockVars, graphVars, cronVars>>
  \/ /\ part = "clock" /\ ClockNext
     /\ UNCHANGED <<part, vars, graphVars, cronVars>>
  \/ /\ part = "graph" /\ GraphNext
     /\ UNCHANGED <<part, vars, clockVars, cronVars>>
  \/ /\ part = "cron" /\ CronNext
     /\ UNCHANGED <<part, vars, clockVars, graphVars>>

\* Each component's own fairness.
MCFairness ==
  /\ WF_vars(part = "gate" /\ FetchStep)
  /\ \A o \in Ops : WF_vars(part = "gate" /\ QuickStep(o))
  /\ WF_clockVars(part = "clock" /\ TickPlan)
  /\ WF_clockVars(part = "clock" /\ Pass)
  /\ WF_clockVars(part = "clock" /\ End)
  /\ \A r \in Reads : WF_graphVars(part = "graph" /\ ReadStep(r))
  /\ WF_cronVars(part = "cron" /\ CronNext)

MCSpec == MCInit /\ [][MCNext]_mcVars /\ MCFairness

\* The variables of the component at work stay in their types; the others rest
\* where it started in other behaviours.
TypesOK ==
  /\ part = "gate" => TypeOK
  /\ part = "clock" => ClockTypeOK
  /\ part = "graph" => GraphTypeOK
  /\ part = "cron" => CronTypeOK
=============================================================================
