CONSTANTS
  c1 = c1
  c2 = c2
  c3 = c3
  Claims = {c2}
  Instances = {i1, i2}
  Prefix <- DistinctPrefix
  Config <- CreatingConfig
  HostLink <- ExistingLink
  NoClaim = NoClaim
  NoInst = NoInst
  Absent = Absent
  Torn = Torn
  MaxDowns = 2
  MaxFaults = 2
  FaultKinds = {"add", "setup", "del", "find", "cdi", "alloc", "rmcdi", "rmalloc", "read", "reply"}
  CrashAt = {"pick", "linkUp", "writeCDI", "rollback", "saveAlloc", "rmCDI", "rmAlloc"}
  HandOver = TRUE
  GoBack = TRUE
SPECIFICATION FairSpec
INVARIANTS
  ReleasedClean
  Inductive
PROPERTIES
  EventuallyReleased
  EventuallyGranted
  ImplementsLifecycle
  RecordedOnce
