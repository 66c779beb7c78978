\* A container is started after the network was listed.
SPECIFICATION Spec
CONSTANTS
  alice = alice
  bob = bob
  Containers = {alice, bob}
  Nic = nic
  Zero = zero
  Nobody = nobody
  DevmapCapacity = 3
INVARIANT KnowsRunning
