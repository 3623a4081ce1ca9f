SPECIFICATION MCSpec
CONSTANTS
  Ids = {i1, i2}
  Children = {c1, c2}
  NoChild = NoChild
  NoId = NoId
  NoEntry = NoEntry
  MaxLaunching = 1
  Agents = {a1, a2}
  MaxCalls = 2
  MaxAgentRecords = 6
  LateRepeats = FALSE
  NoAgent = NoAgent
  NoRecord = NoRecord
  MaxBytes = 16
  ChunkBytes = 4
  LineLengths = {1, 3}
  MaxLines = 8
  Dirs = {d1, d2, d3}
  MaxPins = 3
  Idle = Idle
SYMMETRY Symm
INVARIANTS TypesOK OneWriter HandleHeld RailHolds AgentsAreListed
PROPERTIES NoPhantomFailure LinesSurvive PinsAreShared
CHECK_DEADLOCK FALSE
