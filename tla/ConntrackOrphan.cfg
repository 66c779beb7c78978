\* One CPU, one flow opened by a container, with expiry and collection.
SPECIFICATION Spec
CONSTANTS
  alice = alice
  bob = bob
  server = server
  nic = nic
  s1 = s1
  s2 = s2
  s3 = s3
  Containers = {alice}
  Remotes = {server}
  NicIP = nic
  NicAddrs = {nic}
  Ports = {1, 2}
  Egress <- AliceOut
  Ingress <- ServerIn
  Exposable = {}
  Cpus = {1}
  Slots = {s1, s2}
  TIMEOUT_NEW = 1
  TIMEOUT_EST = 2
  THRESHOLD_NS = 0
  MaxNow = 3
INVARIANT LiveFlowIsWhole
