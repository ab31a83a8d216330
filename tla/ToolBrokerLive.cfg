SPECIFICATION FairSpec
CONSTANTS
  c1 = c1  c2 = c2  c3 = c3
  k1 = k1  k2 = k2
  w1 = w1  w2 = w2  w3 = w3  rd = rd
  Calls = {c1, c2}
  Keys = {k1, k2}
  Payloads = {w1, rd}
  WritePayloads = {w1}
  Tools = {"update", "read"}
  ToolOf <- ToolOfPayload
  Modes = {"live"}
  OnlineReconcile = TRUE
  ProviderKnows = FALSE
  MaxCrashes = 1
  None = None
PROPERTY ReconcileSettles
CHECK_DEADLOCK FALSE
