----------------------------- MODULE FlowHistory -----------------------------
(***************************************************************************)
(* The tracker of UdpConntrack with a record of what has happened to it.   *)
(* The code neither has nor reads these variables, and every step of the   *)
(* tracker remains possible: they are what properties of the tracker's     *)
(* flows refer to.                                                         *)
(*                                                                         *)
(* A flow is what a handler decides on a miss: an inside endpoint, an      *)
(* endpoint of the NIC that stands for it, and a remote endpoint.  It has  *)
(* two tuples, and the two inserts that follow are meant to put both into  *)
(* the map.  Several things can come between: another flow that uses one   *)
(* of the tuples, a full map, the collector, a second CPU at work on the   *)
(* flow, a handler whose element was given away.  A flow one of them has   *)
(* happened to counts as disturbed, for as long as anything is left of it. *)
(***************************************************************************)
EXTENDS UdpConntrack

VARIABLES
  granted,    \* the entries EXPOSE_MAP has held since the process started
  opened,     \* the flows that were opened and of which something is left
  disturbed   \* those among them that did not go undisturbed

history == <<granted, opened, disturbed>>
hvars == <<vars, history>>

Flows == [inside : [nat_addr : Containers, nat_port : Ports],
          host : [nat_addr : NicAddrs, nat_port : Ports],
          remote : [nat_addr : Remotes, nat_port : Ports]]

\* What the container sends and what answers it, in the terms of the two programs.
InsideTuple(f) == ConnectionTuple(f.inside.nat_addr, f.remote.nat_addr,
                                  f.inside.nat_port, f.remote.nat_port)
OutsideTuple(f) == ConnectionTuple(f.remote.nat_addr, f.host.nat_addr,
                                   f.remote.nat_port, f.host.nat_port)

Tuples(f) == {InsideTuple(f), OutsideTuple(f)}

\* Two flows cannot both have the tuple they share.
Shared(k) == \E f, g \in opened : f # g /\ k \in Tuples(f) \cap Tuples(g)

\* The flow that a first packet with this translation opens.
FlowOf(pkt, nat) ==
  LET source == NATData(pkt.key.src_addr, pkt.key.src_port)
      target == NATData(pkt.key.dst_addr, pkt.key.dst_port)
  IN IF pkt.prog = "snat"
     THEN [inside |-> source, host |-> nat, remote |-> target]
     ELSE [inside |-> nat, host |-> target, remote |-> source]

Opening == {FlowOf(run[c].pkt, run[c].nat) : c \in {d \in Cpus : run[d].pc = "insert"}}

(***************************************************************************)
(* The tuples a handler has in its hands: the packet's, the other half's   *)
(* once it is computed, and what its pointer has come to point at.         *)
(***************************************************************************)
OtherHalf(phase) ==
  CASE phase.pc \in {"reverse", "insert", "insertReply"} ->
         {ReverseKey(phase.pkt, phase.nat)}
    [] phase.pc = "copy" -> {phase.key}
    [] OTHER -> {}

Work(phase) ==
  IF phase.pc = "idle" THEN {} ELSE {phase.pkt.key} \cup OtherHalf(phase)

WorksOn(c, f) == Work(run[c]) \cap Tuples(f) # {}

\* The tuple a handler looked its element up for.
LookedUp(phase) == IF phase.pc = "copy" THEN phase.key ELSE phase.pkt.key

\* The element is not, or no longer, that tuple's.
Strayed(phase) ==
  /\ phase.pc \in {"load", "store", "reverse", "copy"}
  /\ ~ (LookedUp(phase) \in Linked /\ index[LookedUp(phase)] = phase.slot)

Hit(phase) == {k \in Linked : index[k] = phase.slot}

(***************************************************************************)
(* What disturbs a flow.                                                   *)
(***************************************************************************)
TwoAtWork(f) == \E c, d \in Cpus : c # d /\ WorksOn(c, f) /\ WorksOn(d, f)

StrayAtWork(f) ==
  \E c \in Cpus : /\ Strayed(run[c])
                  /\ (Work(run[c]) \cup Hit(run[c])) \cap Tuples(f) # {}

Crossed(f) == \E g \in opened \ {f} : Tuples(g) \cap Tuples(f) # {}

Collected(f) == \E k \in Tuples(f) : k \in Linked /\ k \notin Linked'

\* The insert of one half found no room.
Refused(f) ==
  \E c \in Cpus :
    \/ /\ run[c].pc = "insert" /\ run'[c].pc # "insert"
       /\ run[c].pkt.key \in Tuples(f) /\ run[c].pkt.key \notin Linked'
    \/ /\ run[c].pc = "insertReply" /\ run'[c].pc # "insertReply"
       /\ OtherHalf(run[c]) \cap Tuples(f) # {}
       /\ OtherHalf(run[c]) \cap Linked' = {}

Left(f) == Tuples(f) \cap Linked # {} \/ \E c \in Cpus : WorksOn(c, f)

Record ==
  /\ granted' = granted \cup exposed'
  /\ opened' = {f \in opened \cup Opening' : Left(f)'}
  /\ disturbed' = {f \in opened' :
                     \/ f \in disturbed
                     \/ Collected(f)
                     \/ Refused(f)
                     \/ (TwoAtWork(f) \/ StrayAtWork(f) \/ Crossed(f))'}
-----------------------------------------------------------------------------
HInit ==
  /\ Init
  /\ granted = {}
  /\ opened = {}
  /\ disturbed = {}

HNext == Next /\ Record

HSpec == HInit /\ [][HNext]_hvars

HFairSpec ==
  /\ HSpec
  /\ WF_vars(Gc)
  /\ \A c \in Cpus : WF_vars(Handle(c))
  /\ WF_vars(Tick)
-----------------------------------------------------------------------------
(***************************************************************************)
(* Properties.                                                             *)
(***************************************************************************)
Undisturbed == opened \ disturbed

\* A container opens a flow from its own port; a client opens one to the
\* endpoint its port has been exposed for in this life of the daemon.
Founded(f) ==
  \/ /\ InsideTuple(f) \in Egress
     /\ f.host = NATData(NicIP, f.inside.nat_port)
  \/ /\ OutsideTuple(f) \in Ingress
     /\ [port |-> f.host.nat_port, target |-> f.inside] \in granted

\* A tuple and its translation, as the flow says.
HalfOf(k, nat, f) ==
  \/ k = InsideTuple(f) /\ nat = f.host
  \/ k = OutsideTuple(f) /\ nat = f.inside

\* Every translation in force was decided for a datagram a container sent, or for
\* one that came for a port that really had been exposed for that endpoint, and
\* with it its counterpart was decided: through port reuse, expiry, collection
\* and recycled elements no entry mixes two flows or outlives its exposure's life
\* (FirstNat and the two inserts of process_udp_snat and process_udp_dnat).
Provenance ==
  /\ \A f \in opened : Founded(f)
  /\ \A k \in Linked : \E f \in opened : HalfOf(k, Entry(k).nat, f)

\* An answer leads to another endpoint than the one that sent only when a second
\* flow, of which something is left, uses the same tuple of the NIC (host_port =
\* src_port at ebpf main.rs 226, and a port exposed for others).
AnswersLeadBack ==
  \A k \in Linked \cap InsideKeys :
    AnswerTo(k) \in Linked /\ ~ Shared(AnswerTo(k)) =>
      Entry(AnswerTo(k)).nat = NATData(k.src_addr, k.src_port)

\* What a container answers to a datagram leaves from the very address and port
\* the datagram came for, unless a second flow uses the container's tuple: the
\* same endpoint on two ports or two addresses, or the container's own flow to
\* that client (ebpf main.rs 376-380).
ResponsesKeepAddress ==
  \A k \in Linked \cap OutsideKeys :
    ResponseTo(k) \in Linked /\ ~ Shared(ResponseTo(k)) =>
      Entry(ResponseTo(k)).nat = NATData(k.dst_addr, k.dst_port)

\* An undisturbed flow that nobody works on has both halves, and they agree on
\* the reply and on the timeout, on any number of CPUs and whatever happens to
\* other flows: the two inserts and the copy at the end of the hit path miss
\* nothing.
HalvesAgree ==
  \A f \in Undisturbed :
    (\A c \in Cpus : ~ WorksOn(c, f)) =>
      LET in == InsideTuple(f)
          out == OutsideTuple(f)
      IN /\ in \in Linked /\ out \in Linked
         /\ Entry(in).seen_reply = Entry(out).seen_reply
         /\ Entry(in).timeout = Entry(out).timeout

\* No step takes life away from a half that stays, or forgets its reply.
NoLifeLost(f) ==
  \A k \in Tuples(f) \cap Linked :
    k \in DOMAIN index' =>
      /\ cells'[index'[k]].timeout >= Entry(k).timeout
      /\ Entry(k).seen_reply => cells'[index'[k]].seen_reply

\* The refresh and its copy never shorten the life of an undisturbed flow and
\* never forget its reply, although times are read before entries and elements
\* are reused around it (Load, Store, CopyToReverse).
LifetimeNeverShortened == [][\A f \in Undisturbed : NoLifeLost(f)]_hvars
=============================================================================
