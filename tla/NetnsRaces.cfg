CONSTANTS
  a = a
  b = b
  c = c
  p = p
  q = q
  d = d
  e = e
  Claims = {a, b, c}
  Pods = {p, q}
  Devices = {d, e}
  PodOf <- MCPodOf
  Dev <- MCDev
  Host = Host
  NoPod = NoPod
  NoClaim = NoClaim
  MaxDowns = 1
  MaxFaults = 1
  FaultKinds = {"mode", "resolve", "record", "undo", "netns", "move", "return", "reply", "nri", "sandbox"}
SPECIFICATION Spec
INVARIANTS
  TypeOK
  TrackedAway
  Inductive
  RunningHasDevice
  ReleasedInHost
  GivenBack
PROPERTIES
  ImplementsLoans
