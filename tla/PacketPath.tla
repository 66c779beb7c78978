------------------------------ MODULE PacketPath -----------------------------
(***************************************************************************)
(* The way of a packet through try_xdp_redirect: it is passed on untouched *)
(* unless it is a whole UDP datagram over IPv4 without options and has a   *)
(* translation; then its headers are rewritten.  IP may cut a datagram     *)
(* into fragments, of which only the first carries the ports, and which    *)
(* arrive in any order, as frames of their own.                            *)
(***************************************************************************)
EXTENDS HeaderRewrite, FiniteSets

CONSTANT Trains   \* each the set of frames that one datagram arrives in

EthLen == 14
Ipv4Len == 20
UdpLen == 8

\* What the program looks at: the length of the frame, the two protocol fields,
\* the header length in words, and the flag and the offset of a fragment.
Frames == [len : Nat, ether_type : {"ipv4", "other"},
           proto : {"udp", "tcp", "icmp", "other"},
           ihl : 5..15, mf : BOOLEAN, offset : Nat]

\* IP sends a datagram whole or in fragments: all but the last say that more
\* follow, all but the first have an offset.
ASSUME TrainAssumption ==
  /\ Trains \subseteq SUBSET Frames
  /\ \A t \in Trains : \A f \in t : t = {f} \/ f.mf \/ f.offset # 0

VARIABLES
  train,       \* the frames of the datagram
  waiting,     \* those that are still to come
  translated   \* those that were translated

pathVars == <<vars, train, waiting, translated>>
-----------------------------------------------------------------------------
\* Mutants: the last fragment counts as whole; options are not noticed.
IsFragmentNoOffset(f) == f.mf

HasOptionsNever(f) == FALSE

\* frag_off & (IP_MF | IP_OFFSET) # 0
IsFragment(f) == f.mf \/ f.offset # 0

HasOptions(f) == f.ihl # 5

\* The checks in front of the handlers.
IsPlainUdp(f) ==
  /\ EthLen + Ipv4Len <= f.len
  /\ f.ether_type = "ipv4"
  /\ ~ HasOptions(f)
  /\ ~ IsFragment(f)
  /\ f.proto = "udp"
  /\ EthLen + Ipv4Len + UdpLen <= f.len
-----------------------------------------------------------------------------
PathInit ==
  /\ Init
  /\ train \in Trains
  /\ waiting = train
  /\ translated = {}

\* XDP_PASS: by the checks, or because there is no translation.
Pass(f) ==
  /\ f \in waiting
  /\ waiting' = waiting \ {f}
  /\ UNCHANGED <<vars, train, translated>>

Translate(f, nat) ==
  /\ f \in waiting
  /\ IsPlainUdp(f)
  /\ Snat(nat) \/ Dnat(nat)
  /\ waiting' = waiting \ {f}
  /\ translated' = translated \cup {f}
  /\ UNCHANGED train

\* The next host: the frames travel on as they are.
Hop ==
  /\ waiting = {}
  /\ rewrites < MaxRewrites
  /\ waiting' = train
  /\ translated' = {}
  /\ UNCHANGED <<vars, train>>

PathNext ==
  \/ \E f \in waiting : Pass(f) \/ \E nat \in Nats : Translate(f, nat)
  \/ Hop

PathSpec == PathInit /\ [][PathNext]_pathVars
-----------------------------------------------------------------------------
\* All frames of a datagram share its fate: never is one translated and another
\* passed on, or the receiver puts a datagram together from two addresses
\* (the fragment mask of try_xdp_redirect).
NeverTorn == translated = {} \/ translated = train \ waiting

\* Where the header of UDP really is in a frame, if it has one.
UdpAt(f) == EthLen + 4 * f.ihl
CarriesUdpHeader(f) ==
  f.ether_type = "ipv4" /\ f.proto = "udp" /\ f.offset = 0
    /\ UdpAt(f) + UdpLen <= f.len

\* What the handlers take for ports and a checksum are the ports and the
\* checksum: the eight bytes behind 34 are a UDP header, and within the frame
\* (the casts to Ipv4Hdr and UdpHdr at fixed offsets).
RewritesOnlyUdp ==
  \A f \in translated : CarriesUdpHeader(f) /\ UdpAt(f) = EthLen + Ipv4Len
=============================================================================
