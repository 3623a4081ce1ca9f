SPECIFICATION SyncSpec
CONSTANTS
  MaxCommits = 3
  NoRef = NoRef
INVARIANT EveryTipIsLogged
CHECK_DEADLOCK FALSE
