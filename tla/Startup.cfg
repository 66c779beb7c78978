\* Two containers that come and go, calls that fail, room for all keys.
SPECIFICATION FairSpec
CONSTANTS
  alice = alice
  bob = bob
  Containers = {alice, bob}
  Nic = nic
  Zero = zero
  Nobody = nobody
  DevmapCapacity = 3
INVARIANTS TypeOK TranslatedIsRedirected FlowsHaveNic StubsComplete
PROPERTY StartupEnds
