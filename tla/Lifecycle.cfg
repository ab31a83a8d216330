SPECIFICATION Spec
CONSTANTS
  r1 = r1  r2 = r2
  adapt = adapt  v1 = v1  v2 = v2  f1 = f1
  Runners = {r1, r2}
  Cells = {adapt, v1, v2, f1}
  Panels <- MCPanels
  Concurrent = {2}
  Gated = 2
  Retries <- MCRetries
  Children <- MCChildren
  Itemised = {adapt}
  Width = 2
  MaxAttempts = 6
  MaxUsage = 5
  Estimate = 1
  Usages = {1}
  SoloModes = {TRUE, FALSE}
SYMMETRY RunnersInterchangeable
INVARIANTS WorkIsBounded StagesAreBacked NothingRecordedIsFree NoRunnerIsStuck
PROPERTY ExhaustedStartsNothing
CHECK_DEADLOCK FALSE
