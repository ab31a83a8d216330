SPECIFICATION Spec
CONSTANTS
  q1 = q1  q2 = q2
  d1 = d1
  r1 = r1  r2 = r2
  e1 = e1  e2 = e2  e3 = e3
  None = None
  Requests = {q1, q2}
  Runs = {r1, r2}
  Docs = {d1}
  Saved = {e2}
  EventsOf <- MCEventsOf
  Usages <- MCUsages
  Declared <- MCDeclared
  MaxCompactions = 1
  MaxRestarts = 1
  TokenCap = 2
  MaxPromotions = 1
INVARIANTS  RequestsAreSeparate
PROPERTIES EvidenceRowsStay CandidateIsBacked
CHECK_DEADLOCK FALSE
