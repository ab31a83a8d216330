SPECIFICATION Spec
CONSTANTS
  s1 = s1  d1 = d1  d2 = d2  d3 = d3  d4 = d4  b1 = b1  b2 = b2  o1 = o1  o2 = o2
  f1 = f1  f2 = f2  t1 = t1  t2 = t2  u1 = u1  None = None
  Drivers = {s1, d1, d2, d3, d4}
  Smokes = {s1}
  Bench <- MCBench
  Owner <- MCOwner
  Inputs <- MCInputs
  Benchmarks = {b1, b2}
  Panels <- MCPanels
  SmokePanel <- MCSmokePanel
  Ready = {b2}
  Outcomes <- MCOutcomes
  Rots = {t1}
  Killable = {d1}
INVARIANTS CellsAreExclusive PanelsAreGuarded HistoryIsAuditable 
CHECK_DEADLOCK FALSE
