\* Datagrams sent without a UDP checksum are in the traffic.
SPECIFICATION Spec
CONSTANTS
  Base = 4
  Addrs = {3, 5}
  PortNumbers = {1, 2}
  MaxRewrites = 1
INVARIANT PortTranslated
CHECK_DEADLOCK FALSE
