\* A clean stop while a request is served, and a second start: no command
\* fails and nothing crashes.
SPECIFICATION Spec
CONSTANTS
  web = web
  dns = dns
  ghost = ghost
  ann = ann
  ben = ben
  Clients = {ann, ben}
  Lower = 10000
  Upper = 10002
  Targets = {web, dns, ghost}
  Known = {web, dns}
  MapCapacity = 2
  CommandsFail = FALSE
  MayCrash = FALSE
  MaxLives = 2
SYMMETRY Symmetry
INVARIANT TcpFollowsUdp
CHECK_DEADLOCK FALSE
