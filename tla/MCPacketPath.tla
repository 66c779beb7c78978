----------------------------- MODULE MCPacketPath ----------------------------
(***************************************************************************)
(* Small instances of PacketPath for TLC.                                  *)
(***************************************************************************)
EXTENDS PacketPath

Frame(len, proto, ihl, mf, offset) ==
  [len |-> len, ether_type |-> "ipv4", proto |-> proto, ihl |-> ihl,
   mf |-> mf, offset |-> offset]

\* A datagram without data; one with an IP option; ones cut short by a byte; a
\* train of three fragments, the last of them short; what is not UDP.
SmallTrains ==
  { {Frame(42, "udp", 5, FALSE, 0)},
    {Frame(46, "udp", 6, FALSE, 0)},
    {Frame(41, "udp", 5, FALSE, 0)},
    {Frame(33, "udp", 5, FALSE, 0)},
    {Frame(60, "udp", 5, TRUE, 0), Frame(60, "udp", 5, TRUE, 3),
     Frame(42, "udp", 5, FALSE, 6)},
    {Frame(54, "tcp", 5, FALSE, 0)},
    {Frame(42, "icmp", 5, FALSE, 0)},
    {[Frame(42, "udp", 5, FALSE, 0) EXCEPT !.ether_type = "other"]} }
=============================================================================
