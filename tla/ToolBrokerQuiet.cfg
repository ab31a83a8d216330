SPECIFICATION Spec
CONSTANTS
  c1 = c1  c2 = c2  c3 = c3
  k1 = k1  k2 = k2
  w1 = w1  w2 = w2  w3 = w3  rd = rd
  Calls = {c1, c2, c3}
  Keys = {k1}
  Payloads = {w1, w2, w3}
  WritePayloads = {w1, w2, w3}
  Tools = {"update", "delete"}
  ToolOf <- ToolOfPayload
  Modes = {"live", "dry_run"}
  OnlineReconcile = FALSE
  ProviderKnows = FALSE
  MaxCrashes = 1
  None = None
SYMMETRY CallsInterchangeable
INVARIANTS WritesAreSafe LedgerIsHonest
PROPERTY LedgerSpec
CHECK_DEADLOCK FALSE
