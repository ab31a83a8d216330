SPECIFICATION Spec
CONSTANTS
  c1 = c1  c2 = c2
  e1 = e1  e2 = e2
  g1 = g1  r1 = r1  r2 = r2
  Candidates = {c1, c2}
  Evaluations = {e1, e2}
  Gates = {g1}
  Rollbacks = {r1}
  MaxCrashes = 1
  Genesis = Genesis
  None = None
SYMMETRY Interchangeable
INVARIANT DecisionsAreAudited
PROPERTY ActivePointerSpec
CHECK_DEADLOCK FALSE
