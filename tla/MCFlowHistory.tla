---------------------------- MODULE MCFlowHistory ----------------------------
(***************************************************************************)
(* Small instances of FlowHistory for TLC.                                 *)
(***************************************************************************)
EXTENDS FlowHistory, TLC

CONSTANTS alice, bob, server, nic, alias, s1, s2, s3, s4

\* alice's endpoint 1 talks to the server's port 2; so does bob's, in BothOut.
AliceOut == {ConnectionTuple(alice, server, 1, 2)}
BothOut == AliceOut \cup {ConnectionTuple(bob, server, 1, 2)}

\* The server answers to the NIC's port 1, and reaches port 3 by the second address.
ServerIn == {ConnectionTuple(server, nic, 2, 1)}
ClientIn == {ConnectionTuple(server, alias, 2, 3)}
TwoIn == ServerIn \cup ClientIn

\* Port 3 may be exposed for either container, whose own port is another.
EitherExposed ==
  {[port |-> 3, target |-> NATData(alice, 1)], [port |-> 3, target |-> NATData(bob, 1)]}

SlotSymmetry == Permutations(Slots)
=============================================================================
