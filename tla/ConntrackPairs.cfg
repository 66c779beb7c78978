\* Two CPUs, a port that is exposed for either of two endpoints and reached by the
\* NIC's second address, both of which also speak first; nothing
\* expires and there is room for all tuples.
SPECIFICATION HSpec
CONSTANTS
  alice = alice
  bob = bob
  server = server
  nic = nic
  alias = alias
  s1 = s1
  s2 = s2
  s3 = s3
  s4 = s4
  Containers = {alice, bob}
  Remotes = {server}
  NicIP = nic
  NicAddrs = {nic, alias}
  Ports = {1, 2, 3}
  Egress <- BothOut
  Ingress <- TwoIn
  Exposable <- EitherExposed
  Cpus = {1, 2}
  Slots = {s1, s2, s3, s4}
  TIMEOUT_NEW = 1
  TIMEOUT_EST = 2
  THRESHOLD_NS = 0
  MaxNow = 0
SYMMETRY SlotSymmetry
INVARIANTS PairComplete Provenance AnswersLeadBack ResponsesKeepAddress
