SPECIFICATION EvidenceSpec
CONSTANTS
  v1 = v1  v2 = v2  f1 = f1  c1 = c1  c2 = c2  g = g  p1 = p1  p2 = p2  k1 = k1  k2 = k2
  fin = fin  sup = sup  lab = lab  t1 = t1  t2 = t2  NoValue = NoValue
  Known = {fin, sup}
  Sealed = lab
  TasksOf <- MCTasksOf
  Seeds = {1}
  Observed <- MCObserved
  SafetyCases = {k1, k2}
  Jobs = {v1, v2, f1}
  FromQueue = {v1, v2}
  Phase <- MCPhase
  Bundle <- MCCandidate
  Genesis = g
  Releases <- MCReleases
  Track1 = p2
  Config <- MCConfig
  Scenes <- MCScenes
  Probes <- MCProbes
INVARIANTS FinalPassIsHeldOut GateIsMonotone TrustIsMeasured
PROPERTIES PromotionIsEarned TrustStays ChecksAgree
CHECK_DEADLOCK FALSE
