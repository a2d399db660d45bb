CONSTANTS
  c1 = c1
  c2 = c2
  c3 = c3
  Claims = {c1, c2, c3}
  Instances = {i1}
  Prefix <- SharedPrefix
  Config <- TakingConfig
  HostLink <- ExistingLink
  NoClaim = NoClaim
  NoInst = NoInst
  Absent = Absent
  Torn = Torn
  MaxDowns = 1
  MaxFaults = 1
  FaultKinds = {"setup", "del", "find", "cdi", "alloc", "reply"}
  CrashAt = {"saveAlloc", "rmAlloc"}
  HandOver = FALSE
  GoBack = TRUE
SPECIFICATION Spec
INVARIANTS
  Intact
  GrantUsable
