\* Two clients, three ports, a map with room for two, commands that fail, a
\* crash and a restart.
SPECIFICATION FairSpec
CONSTANTS
  web = web
  dns = dns
  ghost = ghost
  ann = ann
  ben = ben
  Clients = {ann, ben}
  Lower = 10000
  Upper = 10002
  Targets = {web, dns, ghost}
  Known = {web, dns}
  MapCapacity = 2
  CommandsFail = TRUE
  MayCrash = TRUE
  MaxLives = 2
INVARIANTS TypeOK PortsPartitioned TcpMatchesUdp ExposedHasRule
PROPERTIES ServiceSpec Answered
CHECK_DEADLOCK FALSE
