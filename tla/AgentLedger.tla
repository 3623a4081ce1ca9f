---------------------------- MODULE AgentLedger -----------------------------
(***************************************************************************)
(* The subagents of a session (server/lib/agents.ts), listed from its      *)
(* transcript by an incremental reader (agents-cache.ts, jsonl-tail.ts).   *)
(* Claude Code appends a record of each call, of its result and, possibly  *)
(* several times, of the end of a background run; a compaction may append  *)
(* any of them again.  Offsets are in halves of a record.                  *)
(***************************************************************************)
EXTENDS Integers, Sequences, FiniteSets

CONSTANTS
  Agents,        \* agentIds
  MaxCalls,      \* bound: Agent and SendMessage calls, numbered as issued
  MaxAgentRecords, \* bound: records of the transcript
  LateRepeats,   \* whether the end of a run is told again after a resume
  NoAgent,
  NoRecord       \* no record is half written

ASSUME LedgerOfAgents ==
  /\ MaxCalls \in Nat /\ MaxAgentRecords \in Nat /\ LateRepeats \in BOOLEAN /\ NoAgent \notin Agents

VARIABLES
  recorded,  \* the transcript's whole records
  half,      \* the record whose first half alone is there
  issued,    \* calls so far
  openCalls, \* the calls that have no result yet, with their tool
  runOf,     \* the call that began each agent's last run, 0 before the first
  alive,     \* the agents at work
  began,     \* the calls that began a run
  ended,     \* the calls whose run is recorded as completed
  launchOf,  \* the call each agent was launched by
  scan,      \* the cache entry's ScanState
  readTo, partial, \* its tail: bytes consumed, and those of them kept for later
  jobs,      \* the last answer
  emptied    \* no poll has seen the emptied file yet

sessionVars == <<issued, openCalls, runOf, alive, began, ended, launchOf>>
readerOfAgents == <<scan, readTo, partial, jobs>>
agentVars == <<recorded, half, emptied, sessionVars, readerOfAgents>>

Calls == 1..MaxCalls
Whats == {"launch", "send", "sync", "ack", "resumed", "told", "completed", "failed"}
Record(w, c, a) == [what |-> w, call |-> c, agent |-> a]
Records == [what : Whats, call : Calls, agent : Agents \cup {NoAgent}]
ASSUME HalfIsNone == NoRecord \notin Records
FileSize == 2 * Len(recorded) + IF half = NoRecord THEN 0 ELSE 1

\* byAgentId has an entry for each agent that a completion is awaited of.
EmptyScan == [launches |-> <<>>, byToolUseId |-> {}, byAgentId |-> [a \in Agents |-> 0], sends |-> {}, seen |-> {}]

AgentTypeOK ==
  /\ recorded \in Seq(Records) /\ half \in Records \cup {NoRecord}
  /\ issued \in 0..MaxCalls /\ ended \subseteq began /\ began \subseteq Calls /\ alive \subseteq Agents
  /\ runOf \in [Agents -> 0..MaxCalls] /\ launchOf \in [Agents -> 0..MaxCalls]
  /\ partial = readTo % 2 /\ readTo \in 0..(2 * MaxAgentRecords + 1) /\ emptied \in BOOLEAN
  /\ scan.byToolUseId \cup scan.sends \subseteq scan.seen
  /\ \A a \in Agents : scan.byAgentId[a] \in {0} \cup scan.seen

AgentInit ==
  /\ recorded = <<>> /\ half = NoRecord
  /\ issued = 0 /\ openCalls = {} /\ alive = {} /\ began = {} /\ ended = {}
  /\ runOf = [a \in Agents |-> 0] /\ launchOf = [a \in Agents |-> 0]
  /\ scan = EmptyScan /\ readTo = 0 /\ partial = 0 /\ jobs = <<>> /\ emptied = FALSE

-----------------------------------------------------------------------------
(* Claude Code.  A record is written in two halves.                         *)
\* A file shortened since the last poll does not outgrow what was read of it.
Begins(record) ==
  /\ half = NoRecord /\ Len(recorded) < MaxAgentRecords /\ (emptied => FileSize + 1 < readTo)
  /\ half' = record
  /\ UNCHANGED <<recorded, emptied, readerOfAgents>>

Ends ==
  /\ half # NoRecord /\ (emptied => FileSize + 1 < readTo)
  /\ recorded' = Append(recorded, half) /\ half' = NoRecord
  /\ UNCHANGED <<emptied, sessionVars, readerOfAgents>>

\* A SendMessage names an agent it knows.
Calling(what) ==
  /\ what = "send" => \E a \in Agents : runOf[a] # 0
  /\ issued < MaxCalls /\ issued' = issued + 1
  /\ Begins(Record(what, issued', NoAgent))
  /\ openCalls' = openCalls \cup {<<issued', what>>}
  /\ UNCHANGED <<runOf, alive, began, ended, launchOf>>

RunsAs(c, a) == runOf' = [runOf EXCEPT ![a] = c] /\ began' = began \cup {c}

\* The result of a launch: the agent's own, or an ack.
Launched(c, a, what) ==
  /\ <<c, "launch">> \in openCalls /\ openCalls' = openCalls \ {<<c, "launch">>}
  /\ runOf[a] = 0 /\ RunsAs(c, a) /\ launchOf' = [launchOf EXCEPT ![a] = c]
  /\ alive' = alive \cup IF what = "ack" THEN {a} ELSE {}
  /\ ended' = ended \cup IF what = "sync" THEN {c} ELSE {}
  /\ Begins(Record(what, c, a)) /\ UNCHANGED issued

\* The result of a SendMessage: it resumed a stopped agent, or it did not.
Resumed(c, a) ==
  /\ <<c, "send">> \in openCalls /\ openCalls' = openCalls \ {<<c, "send">>}
  /\ runOf[a] # 0 /\ a \notin alive /\ RunsAs(c, a) /\ alive' = alive \cup {a}
  /\ Begins(Record("resumed", c, a)) /\ UNCHANGED <<issued, ended, launchOf>>
ToldOnly(c) ==
  /\ <<c, "send">> \in openCalls /\ openCalls' = openCalls \ {<<c, "send">>}
  /\ Begins(Record("told", c, NoAgent)) /\ UNCHANGED <<issued, runOf, alive, began, ended, launchOf>>

\* A task-notification of the run that began with its call.
AgentStops(a, what) ==
  /\ a \in alive /\ alive' = alive \ {a}
  /\ ended' = ended \cup IF what = "completed" THEN {runOf[a]} ELSE {}
  /\ Begins(Record(what, runOf[a], a)) /\ UNCHANGED <<issued, openCalls, runOf, began, launchOf>>

\* A compaction's copy, or one of the three records of a notification.
Repeats(i) ==
  /\ recorded[i].what \in {"completed", "failed"} => LateRepeats \/ runOf[recorded[i].agent] = recorded[i].call
  /\ Begins(recorded[i]) /\ UNCHANGED sessionVars

\* The transcript starts again as another, shorter one.
Emptied ==
  /\ readTo > 0 /\ recorded' = <<>> /\ half' = NoRecord /\ emptied' = TRUE
  /\ issued' = 0 /\ openCalls' = {} /\ alive' = {} /\ began' = {} /\ ended' = {}
  /\ runOf' = [a \in Agents |-> 0] /\ launchOf' = runOf' /\ UNCHANGED readerOfAgents

-----------------------------------------------------------------------------
(* applyEvent.                                                              *)

\* Mutant: a replayed launch opens another row.
SeenOnlyOpen(s, r) == r.call \in s.byToolUseId \cup s.sends
SeenCall(s, r) == r.call \in s.seen

Row(c, a, origin) == [call |-> c, agent |-> a, origin |-> origin, ended |-> FALSE]
WithRow(s, c, a, over) ==
  [s EXCEPT !.launches = [i \in DOMAIN @ |-> IF @[i].call = c THEN [@[i] EXCEPT !.agent = a, !.ended = over] ELSE @[i]]]

Launch(s, r) ==
  [s EXCEPT !.launches = Append(@, Row(r.call, NoAgent, r.call)),
            !.byToolUseId = @ \cup {r.call}, !.seen = @ \cup {r.call}]
Send(s, r) == [s EXCEPT !.sends = @ \cup {r.call}, !.seen = @ \cup {r.call}]

\* The first result of a launch; an ack's run awaits its notification.
LaunchResult(s, r) ==
  LET named == WithRow(s, r.call, r.agent, r.what = "sync")
  IN [named EXCEPT !.byToolUseId = @ \ {r.call},
                   !.byAgentId[r.agent] = IF r.what = "ack" /\ @ = 0 THEN r.call ELSE @]

\* applyResume: a row of its own, with the launch's type, that takes over the
\* agent's notifications.  Mutant: the first run keeps them.
KeepsAgent(s, r) == s.byAgentId[r.agent] = 0
TakesOver(s, r) == TRUE
OriginOf(s, a) ==
  LET its == {i \in DOMAIN s.launches : s.launches[i].agent = a /\ s.launches[i].origin = s.launches[i].call}
  IN IF its = {} THEN 0 ELSE s.launches[CHOOSE i \in its : \A j \in its : i <= j].call
SendResult(s, r) ==
  LET heard == [s EXCEPT !.sends = @ \ {r.call}]
  IN IF r.what # "resumed" THEN heard
     ELSE [heard EXCEPT !.launches = Append(@, Row(r.call, r.agent, OriginOf(s, r.agent))),
                        !.byAgentId[r.agent] = IF TakesOver(s, r) THEN r.call ELSE @]

Notify(s, r) ==
  LET done == WithRow(s, s.byAgentId[r.agent], r.agent, TRUE)
  IN [done EXCEPT !.byAgentId[r.agent] = 0]

ApplyEvent(s, r) ==
  CASE r.what = "launch" /\ ~SeenCall(s, r) -> Launch(s, r)
    [] r.what = "send" /\ ~SeenCall(s, r) -> Send(s, r)
    [] r.what \in {"sync", "ack"} /\ r.call \in s.byToolUseId -> LaunchResult(s, r)
    [] r.what \in {"resumed", "told"} /\ r.call \in s.sends -> SendResult(s, r)
    [] r.what = "completed" /\ s.byAgentId[r.agent] # 0 -> Notify(s, r)
    [] OTHER -> s

-----------------------------------------------------------------------------
(* The cache.                                                               *)
\* The records that start at or after the byte `from`, applied to s.
Scanned(s, from) ==
  LET upTo[k \in 0..Len(recorded)] ==
        IF k = 0 THEN s ELSE IF 2 * (k - 1) < from THEN upTo[k - 1] ELSE ApplyEvent(upTo[k - 1], recorded[k])
  IN upTo[Len(recorded)]

\* followJsonl: what was kept is read with what was appended.
\* Mutant: it is not.
ReadsAppended == readTo
ReadsFrom == readTo - partial

\* Mutant: a shorter file is read on.
NeverTruncated == FALSE
Truncated == FileSize < readTo

\* readAgentsCached.
PollAgents ==
  /\ scan' = IF Truncated THEN Scanned(EmptyScan, 0) ELSE Scanned(scan, ReadsFrom)
  /\ readTo' = FileSize /\ partial' = FileSize % 2 /\ jobs' = scan'.launches /\ emptied' = FALSE
  /\ UNCHANGED <<recorded, half, sessionVars>>

\* The entry goes: evictIfNeeded, or a failed read, which the whole file answers.
DropEntry ==
  /\ readTo > 0 /\ scan' = EmptyScan /\ readTo' = 0 /\ partial' = 0 /\ jobs' = <<>> /\ emptied' = FALSE
  /\ UNCHANGED <<recorded, half, sessionVars>>

AgentNext ==
  \/ Calling("launch") \/ Calling("send") \/ Ends \/ Emptied
  \/ \E c \in Calls, a \in Agents : Launched(c, a, "sync") \/ Launched(c, a, "ack") \/ Resumed(c, a)
  \/ \E c \in Calls : ToldOnly(c)
  \/ \E a \in Agents : AgentStops(a, "completed") \/ AgentStops(a, "failed")
  \/ \E i \in 1..Len(recorded) : Repeats(i)
  \/ PollAgents \/ DropEntry

AgentSpec == AgentInit /\ [][AgentNext]_agentVars

-----------------------------------------------------------------------------
\* The launches that are written down, with or without a result.
WrittenLaunches == {recorded[i].call : i \in {j \in DOMAIN recorded : recorded[j].what = "launch"}}

\* "A compaction can replay earlier records verbatim": there is one row for each
\* launch and each resume, however often it is told, of its agent's type.
RowsAreRuns ==
  LET ids == {jobs[i].call : i \in DOMAIN jobs} IN
  /\ Cardinality(ids) = Len(jobs) /\ ids = WrittenLaunches \cup began
  /\ \A i \in DOMAIN jobs : jobs[i].agent # NoAgent => jobs[i].origin = launchOf[jobs[i].agent]

\* The row of a run is done when that run's own end was told, and running
\* before.  With LateRepeats the code breaks "the repeats are no-ops": see the
\* run `late_notice`.
OwnEndOnly == \A i \in DOMAIN jobs : jobs[i].ended <=> jobs[i].call \in ended

\* The answer from a part of the file is the answer from the whole of it.
PartIsWhole == jobs = Scanned(EmptyScan, 0).launches

\* Every answer about a file that has no half record lists its runs, whatever
\* was read when (readAgentsCached against readAgents; applyEvent).
Answered == half = NoRecord /\ readTo = FileSize
AgentsAreListed == Answered => RowsAreRuns /\ OwnEndOnly /\ PartIsWhole
LateNoticesAreNoOps == Answered => OwnEndOnly
=============================================================================
