SPECIFICATION CellSpec
CONSTANTS
  r1 = r1  r2 = r2  r3 = r3  r4 = r4
  p1 = p1  p2 = p2
  Requests = {r1, r2, r3, r4}
  Payloads = {p1, p2}
  None = None
  MaxExecutors = 3
  MaxOverlaps = 2
  MaxUnlike = 1
  MaxResponses = 2
  MaxCrashes = 1
SYMMETRY Interchangeable
INVARIANTS RecoveryIsExact CellIsPaidOnce ReceiptsAreComplete
PROPERTY LateRequestsAreServed
CHECK_DEADLOCK FALSE
