\* Words of three bits, addresses around the carries, two translations; whole
\* datagrams, a train of fragments, and frames that are none of the program's.
SPECIFICATION PathSpec
CONSTANTS
  Base = 8
  Addrs = {0, 7, 8, 27, 56, 63}
  PortNumbers = {1, 6, 7}
  MaxRewrites = 2
  Trains <- SmallTrains
INVARIANTS IpChecksumValid UdpChecksumValid NeverTorn RewritesOnlyUdp
CHECK_DEADLOCK FALSE
