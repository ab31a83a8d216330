SPECIFICATION Spec
CONSTANTS
  NumCells = 2
  MaxAsks = 2
  MaxPending = 1
  MaxPipe = 2
  MaxChildRuns = 1
  TokenCap = 1
  CallTokens <- MCCallTokens
  Sizes <- MCSizes
  MaxArtifactBytes = 2
INVARIANTS KernelIsContained BudgetHolds
PROPERTIES CancelStopsStarts ExecuteReturns
CHECK_DEADLOCK FALSE
