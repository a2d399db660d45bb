CONSTANTS
  c1 = c1
  c2 = c2
  c3 = c3
  Claims = {c1}
  Instances = {i1, i2}
  Prefix <- DistinctPrefix
  Config <- CreatingConfig
  HostLink <- ExistingLink
  NoClaim = NoClaim
  NoInst = NoInst
  Absent = Absent
  Torn = Torn
  MaxDowns = 1
  MaxFaults = 0
  FaultKinds = {}
  CrashAt = {}
  HandOver = FALSE
  GoBack = TRUE
SPECIFICATION Spec
INVARIANTS
  GrantUsable
