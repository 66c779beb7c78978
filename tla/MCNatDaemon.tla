----------------------------- MODULE MCNatDaemon -----------------------------
(***************************************************************************)
(* Small instances of NatDaemon for TLC.                                   *)
(***************************************************************************)
EXTENDS NatDaemon, TLC

CONSTANTS alice, bob, ghost, server, nic, alias

\* Port 3 may be exposed for port 1 of either container, and bob's speaks first
\* from there; ghost was not discovered.  The client uses the NIC's second address.
\* TLC replaces constants by these definitions, which therefore name no operator
\* of the instances that the constants go into.
Endpoint(addr, port) == [nat_addr |-> addr, nat_port |-> port]
KnownTargets == {Endpoint(bob, 1), Endpoint(alice, 1)}
AllTargets == KnownTargets \cup {Endpoint(ghost, 1)}

BobOut == {[src_addr |-> bob, dst_addr |-> server, src_port |-> 1, dst_port |-> 2]}
ClientIn == {[src_addr |-> server, dst_addr |-> alias, src_port |-> 2, dst_port |-> 3]}

SlotSymmetry == Permutations(Slots)
=============================================================================
