CONSTANTS
  a = a
  b = b
  c = c
  p = p
  q = q
  d = d
  e = e
  Claims = {a, c}
  Pods = {p, q}
  Devices = {d}
  PodOf <- HandedOver
  Dev <- OneDevice
  Host = Host
  NoPod = NoPod
  NoClaim = NoClaim
  MaxDowns = 1
  MaxFaults = 0
  FaultKinds = {}
SPECIFICATION Spec
PROPERTIES
  MovesRegistered
