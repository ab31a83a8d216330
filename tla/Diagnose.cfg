SPECIFICATION DiagnosticSpec
CONSTANTS
  p1 = p1  p2 = p2  p3 = p3  l1 = l1  l2 = l2  l3 = l3  k1 = k1  NoOwner = NoOwner
  Managers = {p1, p2, p3}
  Launches = {l1, l2, l3}
  Cancels = {k1}
  Home <- MCHome
  Cells = {c1, c2}
  Width = 2
  Outdated = {p3}
  MayRot = TRUE
  Crashing = {p1}
INVARIANT CellsAreOwned
PROPERTIES EndsAndCancelsStand OwnedRunEnds
CHECK_DEADLOCK FALSE
