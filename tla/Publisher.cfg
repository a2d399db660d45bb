CONSTANTS
  vfA = vfA
  vfB = vfB
  rdC = rdC
  roC = roC
  Claims = {vfA, vfB, rdC, roC}
  Kind <- ClaimKind
  Selects <- ClaimSelects
  Creates <- ClaimCreates
  PodName <- ClaimPodName
  Interfaces = {"eth0", "eth1", "vf0", "mvf00", "net1", "dev9"}
  SkippedNames = {"eth0"}
  VFs = {"vf0"}
  Physical = {"eth0", "eth1"}
  KernelNames = {"dev9"}
  AllocatableNames = {"vf0", "mvf00"}
  Uverbs = {"uverbs0"}
  Exclusive = TRUE
  NoName = "no name"
  Slots = 1
  MaxDowns = 1
  MaxFaults = 1
  FaultKinds = {"mode", "net", "rdma", "pool", "publish"}
SPECIFICATION FairSpec
INVARIANTS
  TypeOK
  HeldOnce
  Inductive
PROPERTIES
  VfServed
