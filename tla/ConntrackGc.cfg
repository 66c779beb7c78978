\* One CPU, two containers that send from one port number: every expired entry is
\* collected or revived, and what is left of a flow misleads no answer.
SPECIFICATION HFairSpec
CONSTANTS
  alice = alice
  bob = bob
  server = server
  nic = nic
  alias = alias
  s1 = s1
  s2 = s2
  s3 = s3
  s4 = s4
  Containers = {alice, bob}
  Remotes = {server}
  NicIP = nic
  NicAddrs = {nic}
  Ports = {1, 2}
  Egress <- BothOut
  Ingress <- ServerIn
  Exposable = {}
  Cpus = {1}
  Slots = {s1, s2}
  TIMEOUT_NEW = 1
  TIMEOUT_EST = 2
  THRESHOLD_NS = 0
  MaxNow = 2
INVARIANTS AnswersLeadBack
PROPERTY ExpiredIsCollected
