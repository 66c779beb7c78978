\* Two CPUs, one flow opened by a container, expiry, collection and reuse of
\* elements.
SPECIFICATION HSpec
CONSTANTS
  alice = alice
  bob = bob
  server = server
  nic = nic
  alias = alias
  s1 = s1
  s2 = s2
  s3 = s3
  s4 = s4
  Containers = {alice}
  Remotes = {server}
  NicIP = nic
  NicAddrs = {nic}
  Ports = {1, 2}
  Egress <- AliceOut
  Ingress <- ServerIn
  Exposable = {}
  Cpus = {1, 2}
  Slots = {s1, s2}
  TIMEOUT_NEW = 1
  TIMEOUT_EST = 2
  THRESHOLD_NS = 0
  MaxNow = 2
SYMMETRY SlotSymmetry
INVARIANTS TypeOK TimeoutBounded HalvesAgree
PROPERTIES TableSpec LifetimeNeverShortened
