\* One CPU, one client, one port that is not the containers' own: two endpoints
\* exposed, taken back, rolled back and exposed again, with a second life.
SPECIFICATION Spec
CONSTANTS
  alice = alice
  bob = bob
  ghost = ghost
  server = server
  nic = nic
  alias = alias
  Clients = {1}
  Lower = 3
  Upper = 3
  Targets <- AllTargets
  Known <- KnownTargets
  MapCapacity = 1
  CommandsFail = TRUE
  MayCrash = TRUE
  MaxLives = 2
  Containers = {alice, bob}
  Remotes = {server}
  NicIP = nic
  NicAddrs = {nic, alias}
  Ports = {1, 2, 3}
  Egress <- BobOut
  Ingress <- ClientIn
  Cpus = {1}
  Slots = {s1, s2, s3}
  TIMEOUT_NEW = 2
  TIMEOUT_EST = 4
  THRESHOLD_NS = 0
  MaxNow = 1
SYMMETRY SlotSymmetry
INVARIANTS HalvesAgree ResponsesKeepAddress Provenance
PROPERTIES TrackerContract LifetimeNeverShortened
CHECK_DEADLOCK FALSE
