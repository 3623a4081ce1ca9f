----------------------------- MODULE MCSessions -----------------------------
(***************************************************************************)
(* One run for what the server keeps between polls about the sessions and  *)
(* their limits: the marks and watches of the desktop hand-over, the       *)
(* permission flag, the newest-record cache and the record of the usage    *)
(* alerts.  They share no variable: a behaviour of the run is one of one   *)
(* component and the others rest.  Two sessions and a rail of one place    *)
(* for the hand-over.                                                      *)
(***************************************************************************)
EXTENDS HandOver, PermissionFlag, RecordCache, UsageAlerts

VARIABLE part   \* the component this behaviour is of

mcVars == <<part, vars, permVars, cacheVars, alertVars>>

\* A component that is not at work rests in one of its initial states.
MCInit ==
  /\ part \in {"handover", "flag", "cache", "alerts"}
  /\ Init
  /\ PermInit
  /\ CacheInit
  /\ AlertInit /\ (part = "alerts" \/ ~stamped)

MCNext ==
  \/ /\ part = "handover" /\ Next
     /\ UNCHANGED <<part, permVars, cacheVars, alertVars>>
  \/ /\ part = "flag" /\ PermNext
     /\ UNCHANGED <<part, vars, cacheVars, alertVars>>
  \/ /\ part = "cache" /\ CacheNext
     /\ UNCHANGED <<part, vars, permVars, alertVars>>
  \/ /\ part = "alerts" /\ AlertNext
     /\ UNCHANGED <<part, vars, permVars, cacheVars>>

\* Each component's own fairness.
MCFairness ==
  /\ \A i \in Sessions : WF_vars(part = "handover" /\ Poll(i))
  /\ \A i \in Sessions : WF_vars(part = "handover" /\ AppRecord(i))
  /\ \A i \in Sessions : WF_vars(part = "handover" /\ proc[i] = "deciding" /\ ChildStep(i))
  /\ \A m \in Slots : WF_vars(part = "handover" /\ (OpenOk(m) \/ OpenFails(m)))
  /\ \A m \in Slots : WF_vars(part = "handover" /\ Expire(m))

MCSpec == MCInit /\ [][MCNext]_mcVars /\ MCFairness

\* The variables of the component at work stay in their types; the others rest
\* where it started in other behaviours.
TypesOK ==
  /\ part = "handover" => TypeOK
  /\ part = "flag" => PermTypeOK
  /\ part = "cache" => CacheTypeOK
  /\ part = "alerts" => AlertTypeOK
=============================================================================
