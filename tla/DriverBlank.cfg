CONSTANTS
  c1 = c1
  c2 = c2
  c3 = c3
  Claims = {c2}
  Instances = {i1}
  Prefix <- DistinctPrefix
  Config <- TakingConfig
  HostLink <- ExistingLink
  NoClaim = NoClaim
  NoInst = NoInst
  Absent = Absent
  Torn = Torn
  MaxDowns = 0
  MaxFaults = 0
  FaultKinds = {}
  CrashAt = {}
  HandOver = FALSE
  GoBack = TRUE
SPECIFICATION Spec
INVARIANTS
  AnswersNameDevice
