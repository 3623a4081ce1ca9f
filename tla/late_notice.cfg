SPECIFICATION AgentSpec
CONSTANTS
 Agents = {a1}
 MaxCalls = 2
 MaxAgentRecords = 6
 LateRepeats = TRUE
 NoAgent = NoAgent
 NoRecord = NoRecord
INVARIANTS LateNoticesAreNoOps
CHECK_DEADLOCK FALSE
