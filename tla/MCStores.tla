------------------------------ MODULE MCStores ------------------------------
(***************************************************************************)
(* One run for what needs no fairness: the launches with their processes,  *)
(* the subagents of a session, and what is written to outlive the process  *)
(* (the ledger's file, the pinned rows). They share no variable: a         *)
(* behaviour of the run is one of one component and the others rest.       *)
(***************************************************************************)
EXTENDS LaunchStore, AgentLedger, LedgerFile, PinRows, TLC

VARIABLE part   \* the component this behaviour is of

\* Sessions, and children, are interchangeable.
Symm == Permutations(Ids) \cup Permutations(Children)

mcVars == <<part, vars, agentVars, fileVars, pinVars>>

\* A component that is not at work rests in one of its initial states.
MCInit ==
  /\ part \in {"launch", "agents", "file", "pins"}
  /\ Init /\ (part = "launch" \/ onDisk = {})
  /\ AgentInit
  /\ FileInit
  /\ PinInit /\ (part = "pins" \/ pinned = <<>>)

MCNext ==
  \/ /\ part = "launch" /\ Next
     /\ UNCHANGED <<part, agentVars, fileVars, pinVars>>
  \/ /\ part = "agents" /\ AgentNext
     /\ UNCHANGED <<part, vars, fileVars, pinVars>>
  \/ /\ part = "file" /\ FileNext
     /\ UNCHANGED <<part, vars, agentVars, pinVars>>
  \/ /\ part = "pins" /\ PinNext
     /\ UNCHANGED <<part, vars, agentVars, fileVars>>

MCSpec == MCInit /\ [][MCNext]_mcVars

\* The variables of the component at work stay in their types; the others rest
\* where it started in other behaviours.
TypesOK ==
  /\ part = "launch" => TypeOK
  /\ part = "agents" => AgentTypeOK
  /\ part = "file" => FileTypeOK
  /\ part = "pins" => PinTypeOK
=============================================================================
