SPECIFICATION Spec
CONSTANTS
  l1 = l1  l2 = l2
  c1 = c1  c2 = c2
  a1 = a1  s1 = s1  s2 = s2
  Launchers = {l1, l2}
  Cancellers = {c1}
  Approvers = {a1}
  Streams = {}
  LibraryStreams = {}
  MaxTurns = 1
  MaxCrashes = 1
  ProviderMayRaise = TRUE
  None = None
SYMMETRY Interchangeable
INVARIANT ExecutionIsSound
PROPERTY StatusIsFinal
CHECK_DEADLOCK FALSE
