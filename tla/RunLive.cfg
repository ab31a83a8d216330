SPECIFICATION FairSpec
CONSTANTS
  l1 = l1  l2 = l2
  c1 = c1  c2 = c2
  a1 = a1  s1 = s1  s2 = s2
  Launchers = {l1}
  Cancellers = {c1}
  Approvers = {}
  Streams = {s1, s2}
  LibraryStreams = {s2}
  MaxTurns = 0
  MaxCrashes = 0
  ProviderMayRaise = FALSE
  None = None
PROPERTIES  StreamsEnd
CHECK_DEADLOCK FALSE
