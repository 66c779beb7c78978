\* Two containers send from the same port number to the same server.
SPECIFICATION Spec
CONSTANTS
  alice = alice
  bob = bob
  server = server
  nic = nic
  s1 = s1
  s2 = s2
  s3 = s3
  Containers = {alice, bob}
  Remotes = {server}
  NicIP = nic
  NicAddrs = {nic}
  Ports = {1, 2}
  Egress <- BothOut
  Ingress <- ServerIn
  Exposable = {}
  Cpus = {1}
  Slots = {s1, s2, s3}
  TIMEOUT_NEW = 1
  TIMEOUT_EST = 2
  THRESHOLD_NS = 0
  MaxNow = 2
SYMMETRY SlotSymmetry
INVARIANT ReplyReturnsToSender
