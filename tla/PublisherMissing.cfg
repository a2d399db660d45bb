CONSTANTS
  vfA = vfA
  vfB = vfB
  rdC = rdC
  roC = roC
  Claims = {vfA, roC}
  Kind <- ClaimKind
  Selects <- ClaimSelects
  Creates <- ClaimCreates
  PodName <- KeptPodName
  Interfaces = {"eth0", "eth1", "vf0", "mvf00", "net1", "dev9"}
  SkippedNames = {"eth0"}
  VFs = {"vf0"}
  Physical = {"eth0", "eth1"}
  KernelNames = {"dev9"}
  AllocatableNames = {"vf0", "mvf00"}
  Uverbs = {"uverbs0"}
  Exclusive = TRUE
  NoName = "no name"
  Slots = 1
  MaxDowns = 1
  MaxFaults = 0
  FaultKinds = {}
SPECIFICATION Spec
INVARIANTS
  EnumeratedOnce
