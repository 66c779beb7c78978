---------------------------- MODULE HeaderRewrite ---------------------------
(***************************************************************************)
(* The rewriting of a datagram: apply_ip_snat and apply_ip_dnat, which     *)
(* replace an address and a port and correct the IP and UDP checksums      *)
(* incrementally, on the words the code works on.  A 16-bit word is a      *)
(* number below Base (65536 in the code) and an address, or a checksum     *)
(* being computed, a 32-bit number below Base * Base; TLC takes a smaller  *)
(* Base and checks the results against the checksum computed anew.  The    *)
(* byte order of the words plays no part in a ones' complement sum.        *)
(*                                                                         *)
(* A datagram is rewritten more than once on its way: the host of the      *)
(* sender translates its source, the host of the receiver its destination. *)
(***************************************************************************)
EXTENDS Integers

CONSTANTS
  Base,           \* number of values of a 16-bit word
  Addrs,          \* addresses, numbers below Base * Base
  PortNumbers,    \* UDP ports
  MaxRewrites     \* bound on the translations of one datagram

Words == 0..(Base - 1)
Wide == 0..(Base * Base - 1)
Nats == [nat_addr : Addrs, nat_port : PortNumbers]

ASSUME HeaderAssumption ==
  /\ Base \in Nat /\ Base > 1
  /\ Addrs \subseteq Wide
  /\ PortNumbers \subseteq Words
  /\ MaxRewrites \in Nat

VARIABLES
  datagram,       \* its headers; rest sums up every other word of each sum
  translation,    \* the last translation, and the side it was applied to
  rewrites        \* how many there were

vars == <<datagram, translation, rewrites>>
-----------------------------------------------------------------------------
(***************************************************************************)
(* The 32-bit arithmetic of helpers.rs, wrapping where the code wraps.     *)
(***************************************************************************)
WrappingAdd(a, b) == (a + b) % (Base * Base)
NotWide(a) == Base * Base - 1 - a

csum_add(csum, addend) ==
  LET res == WrappingAdd(csum, addend)
  IN WrappingAdd(res, IF res < addend THEN 1 ELSE 0)

FoldOnce(csum) == WrappingAdd(csum % Base, csum \div Base)

\* Mutant: folded once, so that the cast to a word cuts a carry off.
csum_foldOnce(csum) == Base - 1 - (FoldOnce(csum) % Base)

csum_fold(csum) == Base - 1 - (FoldOnce(FoldOnce(csum)) % Base)

csum_replace4(csum, from, to) ==
  csum_fold(csum_add(csum_add(NotWide(csum), NotWide(from)), to))
-----------------------------------------------------------------------------
\* Mutant: a computed zero is sent as it is.
UdpCheckZero(check, port, addr, nat) ==
  IF check = 0 THEN 0
  ELSE csum_replace4(csum_replace4(check, port, nat.nat_port), addr, nat.nat_addr)

(***************************************************************************)
(* What the handlers make of a datagram.  A UDP checksum of zero stands    *)
(* for none, and a computed zero is sent as all ones.                      *)
(***************************************************************************)
UdpCheck(check, port, addr, nat) ==
  LET c == csum_replace4(csum_replace4(check, port, nat.nat_port),
                         addr, nat.nat_addr)
  IN IF check = 0 THEN 0 ELSE IF c = 0 THEN Base - 1 ELSE c

\* The port is only written inside the branch that corrects the checksum.
NewPort(check, port, nat) == IF check = 0 THEN port ELSE nat.nat_port

apply_ip_snat(d, nat) ==
  [d EXCEPT
     !.udp_check = UdpCheck(d.udp_check, d.src_port, d.src_addr, nat),
     !.src_port  = NewPort(d.udp_check, d.src_port, nat),
     !.ip_check  = csum_replace4(d.ip_check, d.src_addr, nat.nat_addr),
     !.src_addr  = nat.nat_addr]

apply_ip_dnat(d, nat) ==
  [d EXCEPT
     !.udp_check = UdpCheck(d.udp_check, d.dst_port, d.dst_addr, nat),
     !.dst_port  = NewPort(d.udp_check, d.dst_port, nat),
     !.ip_check  = csum_replace4(d.ip_check, d.dst_addr, nat.nat_addr),
     !.dst_addr  = nat.nat_addr]
-----------------------------------------------------------------------------
(***************************************************************************)
(* The reference: the ones' complement sum of all words, with its carries  *)
(* folded back, and the checksum a sender computes.                        *)
(***************************************************************************)
OnesSum(n) == IF n = 0 THEN 0 ELSE ((n - 1) % (Base - 1)) + 1

AddressWords(addr) == (addr \div Base) + (addr % Base)

IpSum(d) == AddressWords(d.src_addr) + AddressWords(d.dst_addr) + d.rest
UdpSum(d) == IpSum(d) + d.src_port + d.dst_port

Checksum(n) == Base - 1 - OnesSum(n)
SentChecksum(n) == IF Checksum(n) = 0 THEN Base - 1 ELSE Checksum(n)
-----------------------------------------------------------------------------
\* A sender fills in both checksums, or leaves the one of UDP out.
Sent(d, checked) ==
  [d EXCEPT !.checked = checked,
            !.ip_check = Checksum(IpSum(d)),
            !.udp_check = IF checked THEN SentChecksum(UdpSum(d)) ELSE 0]

Blank == [src_addr : Addrs, dst_addr : Addrs,
          src_port : PortNumbers, dst_port : PortNumbers,
          rest : Words \ {0}, checked : {FALSE}, ip_check : {0}, udp_check : {0}]

Init ==
  /\ \E d \in Blank, checked \in BOOLEAN : datagram = Sent(d, checked)
  /\ translation = [side |-> "none"]
  /\ rewrites = 0

Snat(nat) ==
  /\ rewrites < MaxRewrites
  /\ datagram' = apply_ip_snat(datagram, nat)
  /\ translation' = [side |-> "source", nat |-> nat]
  /\ rewrites' = rewrites + 1

Dnat(nat) ==
  /\ rewrites < MaxRewrites
  /\ datagram' = apply_ip_dnat(datagram, nat)
  /\ translation' = [side |-> "destination", nat |-> nat]
  /\ rewrites' = rewrites + 1

Next == \E nat \in Nats : Snat(nat) \/ Dnat(nat)

Spec == Init /\ [][Next]_vars
-----------------------------------------------------------------------------
\* The headers stay within their widths.
TypeOK ==
  /\ datagram \in [src_addr : Addrs, dst_addr : Addrs,
                   src_port : PortNumbers, dst_port : PortNumbers,
                   rest : Words \ {0}, checked : BOOLEAN,
                   ip_check : Words, udp_check : Words]
  /\ translation \in [side : {"none"}] \cup [side : {"source", "destination"}, nat : Nats]
  /\ rewrites \in 0..MaxRewrites

\* The receiver of a rewritten datagram finds the IP checksum right: all words
\* and the checksum add up to all ones (csum_replace4, RFC 1624).
IpChecksumValid == OnesSum(IpSum(datagram) + datagram.ip_check) = Base - 1

\* It finds the UDP checksum right as well, two corrections in a row and the
\* zero that means "none" included: a checksum never gets lost and is never
\* made up.
UdpChecksumValid ==
  IF datagram.checked
  THEN /\ datagram.udp_check # 0
       /\ OnesSum(UdpSum(datagram) + datagram.udp_check) = Base - 1
  ELSE datagram.udp_check = 0

\* "Stateful translation of UDP traffic" to "translate IP and UDP headers": the
\* translated side carries the port of the translation, whatever its checksum.
PortTranslated ==
  /\ translation.side = "source" => datagram.src_port = translation.nat.nat_port
  /\ translation.side = "destination"
       => datagram.dst_port = translation.nat.nat_port
=============================================================================
