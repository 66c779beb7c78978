--------------------------- MODULE MCUdpConntrack ---------------------------
(***************************************************************************)
(* Small instances of UdpConntrack for TLC.                                *)
(***************************************************************************)
EXTENDS UdpConntrack, TLC

CONSTANTS alice, bob, server, nic, s1, s2, s3

\* alice's endpoint 1 talks to the server's port 2.
AliceOut == {ConnectionTuple(alice, server, 1, 2)}
ServerIn == {ConnectionTuple(server, nic, 2, 1)}

\* bob sends from the very port number alice uses, to the same server.
BothOut == AliceOut \cup {ConnectionTuple(bob, server, 1, 2)}

SlotSymmetry == Permutations(Slots)
=============================================================================
