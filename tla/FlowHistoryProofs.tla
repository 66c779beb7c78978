-------------------------- MODULE FlowHistoryProofs --------------------------
(***************************************************************************)
(* Theorems about the flows of the tracker, for any number of CPUs, any    *)
(* traffic, ports and exposures, any size of the map and any timeouts:     *)
(* where every translation comes from, where it leads back to, and that    *)
(* the two halves of a flow that goes undisturbed agree and lose no life.  *)
(***************************************************************************)
EXTENDS FlowHistory, UdpConntrackFlows

(***************************************************************************)
(* Lemmas about the data.                                                  *)
(***************************************************************************)
\* No tuple is both a container's and the NIC's.
LEMMA SidesDiffer == InsideKeys \cap OutsideKeys = {}
BY AddressAssumption DEF InsideKeys, OutsideKeys

\* A packet belongs to the side of its program.
LEMMA PacketSide ==
  ASSUME NEW pkt \in Packets
  PROVE  \/ pkt.prog = "snat" /\ pkt.key \in Egress /\ pkt.key \in InsideKeys
         \/ pkt.prog = "dnat" /\ pkt.key \in Ingress /\ pkt.key \in OutsideKeys
BY TrafficAssumption DEF Packets

\* The two tuples of a flow, and what they consist of.
LEMMA FlowTuples ==
  ASSUME NEW f \in Flows
  PROVE  /\ InsideTuple(f) \in InsideKeys /\ OutsideTuple(f) \in OutsideKeys
         /\ InsideTuple(f).src_addr = f.inside.nat_addr
         /\ InsideTuple(f).src_port = f.inside.nat_port
         /\ InsideTuple(f).dst_addr = f.remote.nat_addr
         /\ InsideTuple(f).dst_port = f.remote.nat_port
         /\ OutsideTuple(f).src_addr = f.remote.nat_addr
         /\ OutsideTuple(f).src_port = f.remote.nat_port
         /\ OutsideTuple(f).dst_addr = f.host.nat_addr
         /\ OutsideTuple(f).dst_port = f.host.nat_port
         /\ f.inside = NATData(f.inside.nat_addr, f.inside.nat_port)
         /\ f.host = NATData(f.host.nat_addr, f.host.nat_port)
<1>1. /\ f.inside \in [nat_addr : Containers, nat_port : Ports]
      /\ f.host \in [nat_addr : NicAddrs, nat_port : Ports]
      /\ f.remote \in [nat_addr : Remotes, nat_port : Ports]
  BY DEF Flows
<1>2. InsideTuple(f) = ConnectionTuple(f.inside.nat_addr, f.remote.nat_addr,
                                       f.inside.nat_port, f.remote.nat_port)
  BY DEF InsideTuple
<1>3. OutsideTuple(f) = ConnectionTuple(f.remote.nat_addr, f.host.nat_addr,
                                        f.remote.nat_port, f.host.nat_port)
  BY DEF OutsideTuple
<1>4. InsideTuple(f) \in InsideKeys /\ OutsideTuple(f) \in OutsideKeys
  BY <1>1, <1>2, <1>3 DEF ConnectionTuple, InsideKeys, OutsideKeys
<1>5. ASSUME NEW A, NEW x \in [nat_addr : A, nat_port : Ports]
      PROVE  x = NATData(x.nat_addr, x.nat_port)
  BY DEF NATData
<1> QED BY <1>1, <1>2, <1>3, <1>4, <1>5 DEF ConnectionTuple

\* A tuple is made of its four parts.
LEMMA TupleParts ==
  ASSUME NEW k \in Keys
  PROVE  k = ConnectionTuple(k.src_addr, k.dst_addr, k.src_port, k.dst_port)
BY DEF Keys, InsideKeys, OutsideKeys, ConnectionTuple

\* What a first packet is given to open is a flow; the packet is one half of it
\* and what the handler computes for the answers is the other.
LEMMA OpenedFlow ==
  ASSUME NEW pkt \in Packets, NEW nat \in PossibleNat(pkt)
  PROVE  /\ FlowOf(pkt, nat) \in Flows
         /\ HalfOf(pkt.key, nat, FlowOf(pkt, nat))
         /\ HalfOf(ReverseKey(pkt, nat), ReverseNat(pkt), FlowOf(pkt, nat))
         /\ Tuples(FlowOf(pkt, nat)) = {pkt.key, ReverseKey(pkt, nat)}
<1> DEFINE f == FlowOf(pkt, nat)
           source == NATData(pkt.key.src_addr, pkt.key.src_port)
           target == NATData(pkt.key.dst_addr, pkt.key.dst_port)
<1>1. pkt.key = ConnectionTuple(pkt.key.src_addr, pkt.key.dst_addr,
                                pkt.key.src_port, pkt.key.dst_port)
  BY BothHalvesAdmissible, TupleParts
<1>2. CASE pkt.prog = "snat"
  <2>1. pkt.key \in InsideKeys
    BY <1>2, PacketSide
  <2>2. f = [inside |-> source, host |-> nat, remote |-> target]
    BY <1>2 DEF FlowOf
  <2>3. nat = NATData(NicIP, pkt.key.src_port)
    BY <1>2 DEF PossibleNat
  <2>4. f \in Flows
    BY <2>1, <2>2, <2>3, AddressAssumption DEF Flows, NATData, InsideKeys
  <2>5. InsideTuple(f) = pkt.key
    BY <1>1, <2>2 DEF InsideTuple, NATData
  <2>6. OutsideTuple(f) = ReverseKey(pkt, nat)
    BY <1>2, <2>2 DEF OutsideTuple, ReverseKey, NATData
  <2>7. f.host = nat /\ f.inside = ReverseNat(pkt)
    BY <1>2, <2>2 DEF ReverseNat
  <2> QED BY <2>4, <2>5, <2>6, <2>7 DEF HalfOf, Tuples
<1>3. CASE pkt.prog = "dnat"
  <2>1. pkt.key \in OutsideKeys
    BY <1>3, PacketSide
  <2>2. f = [inside |-> nat, host |-> target, remote |-> source]
    BY <1>3 DEF FlowOf
  <2>3. nat \in [nat_addr : Containers, nat_port : Ports]
    BY <1>3, TrafficAssumption DEF PossibleNat
  <2>4. f \in Flows
    BY <2>1, <2>2, <2>3 DEF Flows, NATData, OutsideKeys
  <2>5. OutsideTuple(f) = pkt.key
    BY <1>1, <2>2 DEF OutsideTuple, NATData
  <2>6. InsideTuple(f) = ReverseKey(pkt, nat)
    BY <1>3, <2>2 DEF InsideTuple, ReverseKey, NATData
  <2>7. f.inside = nat /\ f.host = ReverseNat(pkt)
    BY <1>3, <2>2 DEF ReverseNat
  <2> QED BY <2>4, <2>5, <2>6, <2>7 DEF HalfOf, Tuples
<1> QED BY <1>2, <1>3, PacketSide

\* From an entry of the flow, a handler computes the flow's other half.
LEMMA OtherTuple ==
  ASSUME NEW f \in Flows, NEW pkt \in Packets, NEW nat, HalfOf(pkt.key, nat, f)
  PROVE  Tuples(f) = {pkt.key, ReverseKey(pkt, nat)}
<1>1. CASE pkt.prog = "snat"
  <2>1. pkt.key = InsideTuple(f) /\ nat = f.host
    BY <1>1, PacketSide, FlowTuples, SidesDiffer DEF HalfOf
  <2>2. ReverseKey(pkt, nat) = OutsideTuple(f)
    BY <1>1, <2>1, FlowTuples DEF ReverseKey, OutsideTuple
  <2> QED BY <2>1, <2>2 DEF Tuples
<1>2. CASE pkt.prog = "dnat"
  <2>1. pkt.key = OutsideTuple(f) /\ nat = f.inside
    BY <1>2, PacketSide, FlowTuples, SidesDiffer DEF HalfOf
  <2>2. ReverseKey(pkt, nat) = InsideTuple(f)
    BY <1>2, <2>1, FlowTuples DEF ReverseKey, InsideTuple
  <2> QED BY <2>1, <2>2 DEF Tuples
<1> QED BY <1>1, <1>2, PacketSide

\* A flow opened by a first packet has its reason (FirstNat).
LEMMA OpenedFlowFounded ==
  ASSUME NEW pkt \in Packets, NEW nat \in FirstNat(pkt),
         exposed \subseteq Exposable, exposed \subseteq granted
  PROVE  nat \in PossibleNat(pkt) /\ Founded(FlowOf(pkt, nat))
<1>1. nat \in PossibleNat(pkt)
  BY DEF FirstNat, PossibleNat
<1> DEFINE f == FlowOf(pkt, nat)
<1>2. f \in Flows /\ HalfOf(pkt.key, nat, f)
  BY <1>1, OpenedFlow
<1>3. CASE pkt.prog = "snat"
  <2>1. f.inside = NATData(pkt.key.src_addr, pkt.key.src_port) /\ f.host = nat
    BY <1>3 DEF FlowOf
  <2>2. InsideTuple(f) = pkt.key /\ pkt.key \in Egress
    BY <1>2, <1>3, PacketSide, FlowTuples, SidesDiffer DEF HalfOf
  <2>3. nat = NATData(NicIP, pkt.key.src_port)
    BY <1>3 DEF FirstNat
  <2> QED BY <1>1, <2>1, <2>2, <2>3 DEF Founded, NATData
<1>4. CASE pkt.prog = "dnat"
  <2>1. f.inside = nat
        /\ f.host = NATData(pkt.key.dst_addr, pkt.key.dst_port)
    BY <1>4 DEF FlowOf
  <2>2. OutsideTuple(f) = pkt.key /\ pkt.key \in Ingress
    BY <1>2, <1>4, PacketSide, FlowTuples, SidesDiffer DEF HalfOf
  <2>3. PICK e \in exposed : e.port = pkt.key.dst_port /\ nat = e.target
    BY <1>4 DEF FirstNat
  <2>4. e = [port |-> pkt.key.dst_port, target |-> nat]
    BY <2>3, TrafficAssumption
  <2>5. f.host.nat_port = pkt.key.dst_port
    BY <2>1 DEF NATData
  <2>6. [port |-> f.host.nat_port, target |-> f.inside] \in granted
    BY <2>1, <2>3, <2>4, <2>5
  <2> QED BY <1>1, <2>2, <2>6 DEF Founded
<1> QED BY <1>3, <1>4, PacketSide
-----------------------------------------------------------------------------
(***************************************************************************)
(* The inductive invariant.  First, where the entries come from: a handler *)
(* on its way to the inserts has its flow on record, and so has every      *)
(* entry.                                                                  *)
(***************************************************************************)
Recorded ==
  /\ exposed \subseteq granted
  /\ opened \subseteq Flows
  /\ \A f \in opened : Founded(f)
  /\ \A c \in Cpus : run[c].pc \in {"insert", "insertReply"} =>
       FlowOf(run[c].pkt, run[c].nat) \in opened
  /\ \A k \in Linked : \E f \in opened : HalfOf(k, Entry(k).nat, f)

\* Nothing comes between an undisturbed flow and the one handler at work on it.
Calm(f) == ~ TwoAtWork(f) /\ ~ StrayAtWork(f) /\ ~ Crossed(f)

Whole(f) == Tuples(f) \subseteq Linked

\* Between two datagrams.
Settled(f) ==
  Whole(f) /\ \A j, k \in Tuples(f) : /\ Entry(j).seen_reply = Entry(k).seen_reply
                                      /\ Entry(j).timeout = Entry(k).timeout

\* The half k is refreshed and the other one is not yet.
Ahead(f, k) ==
  Whole(f) /\ \A j \in Tuples(f) : /\ Entry(j).timeout <= Entry(k).timeout
                                   /\ Entry(j).seen_reply => Entry(k).seen_reply

\* What a handler at work on the flow knows of it, at each point of its way.
Status(f, r) ==
  /\ r.pkt.key \in Tuples(f)
  /\ r.pc # "resolve"
  /\ r.pc = "insert" => FlowOf(r.pkt, r.nat) = f /\ Tuples(f) \cap Linked = {}
  /\ r.pc = "insertReply" =>
       /\ FlowOf(r.pkt, r.nat) = f
       /\ Tuples(f) \cap Linked = {r.pkt.key}
       /\ Entry(r.pkt.key).timeout = r.timeout
       /\ ~ Entry(r.pkt.key).seen_reply
  /\ r.pc = "load" =>
       Settled(f) /\ Entry(r.pkt.key).timeout <= r.time + TIMEOUT_EST
  /\ r.pc = "store" => Settled(f) /\ Entry(r.pkt.key).timeout <= r.timeout
  /\ r.pc = "reverse" => Ahead(f, r.pkt.key) /\ r.nat = Entry(r.pkt.key).nat
  /\ r.pc = "copy" =>
       /\ Ahead(f, r.pkt.key)
       /\ Tuples(f) = {r.pkt.key, r.key}
       /\ r.seen_reply = Entry(r.pkt.key).seen_reply
       /\ r.timeout = Entry(r.pkt.key).timeout

FlowOK(f) ==
  /\ \A c \in Cpus : WorksOn(c, f) => Status(f, run[c])
  /\ (\A c \in Cpus : ~ WorksOn(c, f)) => Settled(f)

HInv ==
  /\ IInv
  /\ TimeInv
  /\ Recorded
  /\ \A f \in Undisturbed : Calm(f) /\ FlowOK(f)
-----------------------------------------------------------------------------
(***************************************************************************)
(* What a handler has in its hands.                                        *)
(***************************************************************************)
\* The tuples a handler works on, point by point.
LEMMA WorkByPc ==
  ASSUME NEW r
  PROVE  /\ r.pc = "idle" => Work(r) = {}
         /\ r.pc \in {"load", "store", "resolve"} => Work(r) = {r.pkt.key}
         /\ r.pc \in {"reverse", "insert", "insertReply"} =>
              Work(r) = {r.pkt.key, ReverseKey(r.pkt, r.nat)}
         /\ r.pc = "copy" => Work(r) = {r.pkt.key, r.key}
         /\ r.pc # "idle" => r.pkt.key \in Work(r)
BY DEF Work, OtherHalf

\* What a handler works on after a step is what its new phase says.
LEMMA WorksOnNext ==
  ASSUME NEW c \in Cpus, NEW f, NEW r, run'[c] = r
  PROVE  WorksOn(c, f)' <=> Work(r) \cap Tuples(f) # {}
BY DEF WorksOn, Tuples, InsideTuple, OutsideTuple, Work, OtherHalf, ReverseKey

\* Every phase is one of those points, and its parts are typed.
LEMMA PhaseParts ==
  ASSUME NEW r \in Phases
  PROVE  /\ r.pc \in {"idle", "load", "store", "reverse", "copy", "resolve",
                      "insert", "insertReply"}
         /\ r.pc # "idle" => r.pkt \in Packets
BY DEF Phases, Idle, Loading, Storing, Reversing, Copying, Resolving, Inserting

\* Nobody else is at work on a calm flow.
LEMMA AloneAtWork ==
  ASSUME NEW f, Calm(f), NEW c \in Cpus, WorksOn(c, f)
  PROVE  \A d \in Cpus : d # c => ~ WorksOn(d, f)
BY DEF Calm, TwoAtWork

\* The element a handler at work on it writes is that of its own tuple.
LEMMA OwnElement ==
  ASSUME NEW f, Calm(f), NEW c \in Cpus, WorksOn(c, f),
         run[c].pc \in {"load", "store", "reverse", "copy"}
  PROVE  /\ LookedUp(run[c]) \in Linked
         /\ index[LookedUp(run[c])] = run[c].slot
         /\ Entry(LookedUp(run[c])) = cells[run[c].slot]
BY DEF Calm, StrayAtWork, Strayed, WorksOn, Entry

\* Nobody else writes the flow's elements.
LEMMA OnlyOwnWrites ==
  ASSUME IInv, NEW f, Calm(f), NEW c \in Cpus,
         run[c].pc \in {"load", "store", "reverse", "copy"},
         NEW k \in Tuples(f) \cap Linked, index[k] = run[c].slot
  PROVE  WorksOn(c, f) /\ k = LookedUp(run[c])
<1>1. k \in Hit(run[c])
  BY DEF Hit
<1>2. ~ Strayed(run[c])
  BY <1>1 DEF Calm, StrayAtWork
<1>3. LookedUp(run[c]) \in Linked /\ index[LookedUp(run[c])] = index[k]
  BY <1>2 DEF Strayed
<1>4. k = LookedUp(run[c])
  BY <1>3 DEF IInv, TypeOK
<1>5. LookedUp(run[c]) \in Work(run[c])
  BY WorkByPc DEF LookedUp
<1> QED BY <1>4, <1>5 DEF WorksOn

\* What the entries of a calm flow say was decided for that flow.
LEMMA BackedByItself ==
  ASSUME Recorded, NEW f \in opened, Calm(f), NEW k \in Tuples(f) \cap Linked
  PROVE  HalfOf(k, Entry(k).nat, f)
<1>1. PICK g \in opened : HalfOf(k, Entry(k).nat, g)
  BY DEF Recorded
<1>2. k \in Tuples(g)
  BY <1>1 DEF HalfOf, Tuples
<1>3. g = f
  BY <1>2 DEF Calm, Crossed
<1> QED BY <1>1, <1>3

\* A packet of another flow computes none of its tuples.
LEMMA OthersStayAway ==
  ASSUME Recorded, NEW f \in opened, Calm(f),
         NEW pkt \in Packets, pkt.key \in Linked, pkt.key \notin Tuples(f)
  PROVE  ReverseKey(pkt, Entry(pkt.key).nat) \notin Tuples(f)
<1>1. PICK g \in opened : HalfOf(pkt.key, Entry(pkt.key).nat, g)
  BY DEF Recorded
<1>2. g \in Flows
  BY DEF Recorded
<1>3. Tuples(g) = {pkt.key, ReverseKey(pkt, Entry(pkt.key).nat)}
  BY <1>1, <1>2, OtherTuple
<1>4. g # f
  BY <1>3
<1> QED BY <1>3, <1>4 DEF Calm, Crossed

\* The handler that is about to insert opens a flow whose tuples it works on.
LEMMA InsertingWork ==
  ASSUME NEW r, r.pc \in {"insert", "insertReply"},
         r.pkt \in Packets, r.nat \in PossibleNat(r.pkt)
  PROVE  /\ FlowOf(r.pkt, r.nat) \in Flows
         /\ HalfOf(r.pkt.key, r.nat, FlowOf(r.pkt, r.nat))
         /\ HalfOf(ReverseKey(r.pkt, r.nat), ReverseNat(r.pkt), FlowOf(r.pkt, r.nat))
         /\ Tuples(FlowOf(r.pkt, r.nat)) = Work(r)
         /\ r.pkt.key \in Work(r)
BY WorkByPc, OpenedFlow

\* So does every handler at one of the inserts.
LEMMA InsertingFlow ==
  ASSUME IInv, NEW c \in Cpus, run[c].pc \in {"insert", "insertReply"}
  PROVE  /\ FlowOf(run[c].pkt, run[c].nat) \in Flows
         /\ HalfOf(run[c].pkt.key, run[c].nat, FlowOf(run[c].pkt, run[c].nat))
         /\ HalfOf(ReverseKey(run[c].pkt, run[c].nat), ReverseNat(run[c].pkt),
                   FlowOf(run[c].pkt, run[c].nat))
         /\ Tuples(FlowOf(run[c].pkt, run[c].nat)) = Work(run[c])
         /\ run[c].pkt.key \in Work(run[c])
BY InsertingState, InsertingWork

-----------------------------------------------------------------------------
(***************************************************************************)
(* What a step does to the entries and to a handler's way.                 *)
(***************************************************************************)
\* The first insert adds the entry of the packet's own tuple, or nothing.
LEMMA InsertOriginalMap ==
  ASSUME IInv, NEW c \in Cpus, InsertOriginal(c)
  PROVE  /\ Linked \subseteq Linked'
         /\ \A j \in Linked : index'[j] = index[j] /\ Entry(j)' = Entry(j)
         /\ \A j \in Linked' \ Linked :
              /\ j = run[c].pkt.key
              /\ Entry(j)' = FlowState(run[c].nat, "original", run[c].timeout)
<1>1. /\ run[c].pkt \in Packets /\ run[c].nat \in PossibleNat(run[c].pkt)
      /\ run[c].timeout \in Nat
  BY InsertingState DEF InsertOriginal
<1>2. run[c].pkt.key \in Keys /\ run[c].nat \in Nats
  BY <1>1, BothHalvesAdmissible
<1>3. FlowState(run[c].nat, "original", run[c].timeout) \in FlowStates
  BY <1>1, <1>2, FlowStateType DEF Directions
<1>4. MapOK
  BY DEF IInv, TypeOK, MapOK
<1> QED BY <1>2, <1>3, <1>4, InsertEffect DEF InsertOriginal

\* The second one that of the answers' tuple, or nothing.
LEMMA InsertReplyMap ==
  ASSUME IInv, NEW c \in Cpus, InsertReply(c)
  PROVE  /\ Linked \subseteq Linked'
         /\ \A j \in Linked : index'[j] = index[j] /\ Entry(j)' = Entry(j)
         /\ \A j \in Linked' \ Linked :
              /\ j = ReverseKey(run[c].pkt, run[c].nat)
              /\ Entry(j)' = FlowState(ReverseNat(run[c].pkt), "reply", run[c].timeout)
<1>1. /\ run[c].pkt \in Packets /\ run[c].nat \in PossibleNat(run[c].pkt)
      /\ run[c].timeout \in Nat
  BY InsertingState DEF InsertReply
<1>2. ReverseKey(run[c].pkt, run[c].nat) \in Keys /\ ReverseNat(run[c].pkt) \in Nats
  BY <1>1, BothHalvesAdmissible
<1>3. FlowState(ReverseNat(run[c].pkt), "reply", run[c].timeout) \in FlowStates
  BY <1>1, <1>2, FlowStateType DEF Directions
<1>4. MapOK
  BY DEF IInv, TypeOK, MapOK
<1> QED BY <1>2, <1>3, <1>4, InsertEffect DEF InsertReply

\* A handler is about to insert because it has just resolved a first packet, and
\* makes the second insert for the packet of the first.
LEMMA OpeningMoves ==
  ASSUME IInv, [Next]_vars, NEW c \in Cpus
  PROVE  /\ run'[c].pc = "insert" =>
              \/ run'[c] = run[c]
              \/ /\ run[c].pc = "resolve" /\ run[c].pkt \in Packets
                 /\ run'[c].pkt = run[c].pkt
                 /\ run'[c].nat \in FirstNat(run[c].pkt)
         /\ run'[c].pc = "insertReply" =>
              \/ run'[c] = run[c]
              \/ /\ run[c].pc = "insert"
                 /\ run'[c].pkt = run[c].pkt /\ run'[c].nat = run[c].nat
<1>1. CASE Handle(c)
  <2>1. ASSUME NEW phase, Goto(c, phase)
        PROVE  run'[c] = phase
    BY <2>1 DEF Goto, IInv, TypeOK
  <2>2. CASE Resolve(c)
    <3>1. run[c].pc = "resolve" /\ run[c].pkt \in Packets
      BY <2>2, PhaseByPc DEF Resolve, Resolving, IInv, TypeOK
    <3>2. CASE Goto(c, Idle)
      BY <2>1, <3>2 DEF Idle
    <3>3. ASSUME NEW nat \in FirstNat(run[c].pkt),
                 Goto(c, [pc |-> "insert", pkt |-> run[c].pkt, nat |-> nat,
                          timeout |-> now + TIMEOUT_NEW])
          PROVE  /\ run'[c].pc = "insert"
                 /\ run'[c].pkt = run[c].pkt /\ run'[c].nat \in FirstNat(run[c].pkt)
      BY <2>1, <3>3
    <3> QED BY <2>2, <3>1, <3>2, <3>3 DEF Resolve
  <2>3. CASE ~ Resolve(c)
    <3>1. run'[c].pc # "insert"
      <4>1. ASSUME NEW phase, Goto(c, phase), phase.pc # "insert"
            PROVE  run'[c].pc # "insert"
        BY <2>1, <4>1
      <4>2. CASE InsertOriginal(c)
        <5>1. run[c] \in Inserting
          BY <4>2, InsertingState DEF InsertOriginal
        <5>2. [run[c] EXCEPT !.pc = "insertReply"].pc = "insertReply"
          BY <5>1 DEF Inserting
        <5> QED BY <4>1, <4>2, <5>2 DEF InsertOriginal
      <4> QED BY <1>1, <2>3, <4>1, <4>2
              DEF Handle, Load, Store, LookupReverse, CopyToReverse, InsertReply, Idle
    <3> QED BY <1>1, <3>1, HandlerMoves
  <2> QED BY <2>2, <2>3
<1>2. ASSUME NEW pkt \in Packets, Receive(c, pkt)
      PROVE  run'[c].pc \in {"load", "resolve"}
  BY <1>2 DEF Receive, Goto, IInv, TypeOK
<1>3. ASSUME NEW d \in Cpus, d # c, Handle(d) \/ \E pkt \in Packets : Receive(d, pkt)
      PROVE  run'[c] = run[c]
  <2>1. CASE Handle(d)
    BY <1>3, <2>1, OneHandlerMoves
  <2>2. CASE \E pkt \in Packets : Receive(d, pkt)
    BY <1>3, <2>2 DEF Receive, Goto, IInv, TypeOK
  <2> QED BY <1>3, <2>1, <2>2
<1>4. CASE Gc \/ (\E e \in Exposable : Expose(e) \/ Unexpose(e)) \/ Tick
             \/ UNCHANGED vars
  <2>1. UNCHANGED run
    BY <1>4 DEF Gc, GcTick, GcVisit, GcCollected, GcRemove, GcDone, Expose,
                Unexpose, Tick, vars
  <2> QED BY <2>1
<1> QED BY <1>1, <1>2, <1>3, <1>4 DEF Next

\* An entry says what it said, or it comes from a handler's insert.
LEMMA EntryMoves ==
  ASSUME IInv, [Next]_vars, NEW k \in Linked'
  PROVE  \/ k \in Linked /\ Entry(k)'.nat = Entry(k).nat
         \/ \E c \in Cpus :
              /\ run[c].pc \in {"insert", "insertReply"}
              /\ HalfOf(k, Entry(k)'.nat, FlowOf(run[c].pkt, run[c].nat))
<1>1. ASSUME UNCHANGED <<index, cells>>
      PROVE  k \in Linked /\ Entry(k)'.nat = Entry(k).nat
  BY <1>1 DEF Linked, Entry
<1>2. ASSUME NEW c \in Cpus, InsertOriginal(c), k \notin Linked
      PROVE  /\ run[c].pc \in {"insert", "insertReply"}
             /\ HalfOf(k, Entry(k)'.nat, FlowOf(run[c].pkt, run[c].nat))
  <2>1. run[c].pc = "insert"
    BY <1>2 DEF InsertOriginal
  <2>2. k = run[c].pkt.key
        /\ Entry(k)' = FlowState(run[c].nat, "original", run[c].timeout)
    BY <1>2, InsertOriginalMap
  <2>3. Entry(k)'.nat = run[c].nat
    BY <2>2 DEF FlowState
  <2> QED BY <2>1, <2>2, <2>3, InsertingFlow
<1>3. ASSUME NEW c \in Cpus, InsertReply(c), k \notin Linked
      PROVE  /\ run[c].pc \in {"insert", "insertReply"}
             /\ HalfOf(k, Entry(k)'.nat, FlowOf(run[c].pkt, run[c].nat))
  <2>1. run[c].pc = "insertReply"
    BY <1>3 DEF InsertReply
  <2>2. k = ReverseKey(run[c].pkt, run[c].nat)
        /\ Entry(k)' = FlowState(ReverseNat(run[c].pkt), "reply", run[c].timeout)
    BY <1>3, InsertReplyMap
  <2>3. Entry(k)'.nat = ReverseNat(run[c].pkt)
    BY <2>2 DEF FlowState
  <2> QED BY <2>1, <2>2, <2>3, InsertingFlow
<1>4. ASSUME NEW c \in Cpus, InsertOriginal(c) \/ InsertReply(c), k \in Linked
      PROVE  Entry(k)'.nat = Entry(k).nat
  BY <1>4, InsertOriginalMap, InsertReplyMap
<1>5. ASSUME NEW c \in Cpus, Store(c) \/ CopyToReverse(c)
      PROVE  k \in Linked /\ Entry(k)'.nat = Entry(k).nat
  BY <1>5, WritesKeepFlows
<1>6. ASSUME NEW c \in Cpus, Load(c) \/ LookupReverse(c) \/ Resolve(c)
      PROVE  k \in Linked /\ Entry(k)'.nat = Entry(k).nat
  BY <1>1, <1>6 DEF Load, LookupReverse, Resolve
<1>7. ASSUME NEW c \in Cpus, NEW pkt \in Packets, Receive(c, pkt)
      PROVE  k \in Linked /\ Entry(k)'.nat = Entry(k).nat
  BY <1>1, <1>7 DEF Receive
<1>8. ASSUME NEW j \in Keys, GcRemove(j)
      PROVE  k \in Linked /\ Entry(k)'.nat = Entry(k).nat
  <2>1. MapOK /\ j \in Linked /\ Remove(j)
    BY <1>8 DEF IInv, TypeOK, MapOK, GcRemove
  <2> QED BY <2>1, RemoveEffect
<1>9. CASE \/ GcTick \/ (\E j \in Keys : GcVisit(j)) \/ GcCollected \/ GcDone
           \/ (\E e \in Exposable : Expose(e) \/ Unexpose(e)) \/ Tick \/ UNCHANGED vars
  BY <1>1, <1>9 DEF GcTick, GcVisit, GcCollected, GcDone, Expose, Unexpose, Tick, vars
<1>10. ASSUME NEW c \in Cpus, Handle(c)
       PROVE  \/ k \in Linked /\ Entry(k)'.nat = Entry(k).nat
              \/ \E d \in Cpus :
                   /\ run[d].pc \in {"insert", "insertReply"}
                   /\ HalfOf(k, Entry(k)'.nat, FlowOf(run[d].pkt, run[d].nat))
  BY <1>2, <1>3, <1>4, <1>5, <1>6, <1>10 DEF Handle
<1> QED BY <1>7, <1>8, <1>9, <1>10 DEF Next, Gc
-----------------------------------------------------------------------------
(***************************************************************************)
(* Where the entries come from.                                            *)
(***************************************************************************)
\* A flow stays on record as long as an entry or a handler is left of it.
LEMMA StaysOpened ==
  ASSUME Record, NEW f, f \in opened \cup Opening',
         \/ \E k \in Tuples(f) : k \in Linked'
         \/ \E c \in Cpus : WorksOn(c, f)'
  PROVE  f \in opened'
BY DEF Record, Left, Tuples, InsideTuple, OutsideTuple

\* A flow's reason remains.
LEMMA FoundedStays ==
  ASSUME NEW f, Founded(f), granted \subseteq granted'
  PROVE  Founded(f)'
BY DEF Founded, InsideTuple, OutsideTuple, ConnectionTuple

\* The record of what was opened and granted is kept over every step.
LEMMA NextRecorded ==
  ASSUME IInv, IInv', Recorded, [Next]_vars, Record
  PROVE  Recorded'
<1>1. exposed' \subseteq granted' /\ granted \subseteq granted'
  BY DEF Record
<1>2. ASSUME NEW c \in Cpus, NEW f, run'[c].pc = "insert",
             f = FlowOf(run'[c].pkt, run'[c].nat)
      PROVE  f \in Flows /\ Founded(f)
  <2>1. CASE run'[c] = run[c]
    <3>1. run[c].pc = "insert" /\ f = FlowOf(run[c].pkt, run[c].nat)
      BY <1>2, <2>1
    <3> QED BY <3>1 DEF Recorded
  <2>2. CASE run'[c] # run[c]
    <3>1. /\ run[c].pkt \in Packets /\ run'[c].pkt = run[c].pkt
          /\ run'[c].nat \in FirstNat(run[c].pkt)
      BY <1>2, <2>2, OpeningMoves
    <3>2. exposed \subseteq Exposable /\ exposed \subseteq granted
      BY DEF IInv, TypeOK, Recorded
    <3>3. run'[c].nat \in PossibleNat(run[c].pkt)
          /\ Founded(FlowOf(run[c].pkt, run'[c].nat))
      BY <3>1, <3>2, OpenedFlowFounded
    <3>4. FlowOf(run[c].pkt, run'[c].nat) \in Flows
      BY <3>1, <3>3, OpenedFlow
    <3> QED BY <1>2, <3>1, <3>3, <3>4
  <2> QED BY <2>1, <2>2
<1>3. opened' \subseteq Flows /\ \A f \in opened' : Founded(f)'
  <2> SUFFICES ASSUME NEW f \in opened'
               PROVE  f \in Flows /\ Founded(f)'
    OBVIOUS
  <2>1. f \in opened \cup Opening'
    BY DEF Record
  <2>2. CASE f \in opened
    BY <1>1, <2>2, FoundedStays DEF Recorded
  <2>3. CASE f \in Opening'
    <3>1. PICK c \in Cpus : run'[c].pc = "insert" /\ f = FlowOf(run'[c].pkt, run'[c].nat)
      BY <2>3 DEF Opening
    <3> QED BY <1>1, <1>2, <3>1, FoundedStays
  <2> QED BY <2>1, <2>2, <2>3
<1>4. ASSUME NEW c \in Cpus, NEW r, r = run'[c], r.pc \in {"insert", "insertReply"}
      PROVE  FlowOf(r.pkt, r.nat) \in opened'
  <2>1. WorksOn(c, FlowOf(r.pkt, r.nat))'
    <3>1. r \in Phases /\ r.nat \in PossibleNat(r.pkt)
      BY <1>4 DEF IInv, TypeOK, PendingInsert, PossibleNat
    <3>2. r.pkt \in Packets
      BY <1>4, <3>1, PhaseParts
    <3>3. /\ Tuples(FlowOf(r.pkt, r.nat)) = Work(r)
          /\ r.pkt.key \in Work(r)
      BY <1>4, <3>1, <3>2, InsertingWork
    <3>4. Work(r) \cap Tuples(FlowOf(r.pkt, r.nat)) # {}
      BY <3>3
    <3> QED BY <1>4, <3>4, WorksOnNext
  <2>2. CASE r.pc = "insert"
    <3>1. FlowOf(r.pkt, r.nat) \in Opening'
      BY <1>4, <2>2 DEF Opening, FlowOf
    <3> QED BY <2>1, <3>1, StaysOpened
  <2>3. CASE r.pc = "insertReply"
    <3>1. /\ run[c].pc \in {"insert", "insertReply"}
          /\ r.pkt = run[c].pkt /\ r.nat = run[c].nat
      BY <1>4, <2>3, OpeningMoves
    <3>2. FlowOf(r.pkt, r.nat) \in opened
      BY <3>1 DEF Recorded
    <3> QED BY <2>1, <3>2, StaysOpened
  <2> QED BY <1>4, <2>2, <2>3
<1>5. ASSUME NEW k \in Linked'
      PROVE  \E f \in opened' : HalfOf(k, Entry(k)'.nat, f)
  <2>1. PICK f \in opened : HalfOf(k, Entry(k)'.nat, f)
    <3>1. CASE k \in Linked /\ Entry(k)'.nat = Entry(k).nat
      BY <3>1 DEF Recorded
    <3>2. CASE ~ (k \in Linked /\ Entry(k)'.nat = Entry(k).nat)
      BY <3>2, EntryMoves DEF Recorded
    <3> QED BY <3>1, <3>2
  <2>2. k \in Tuples(f)
    BY <2>1 DEF HalfOf, Tuples
  <2>3. f \in opened'
    BY <2>2, StaysOpened
  <2> QED BY <2>1, <2>3
<1>6. \A c \in Cpus : run'[c].pc \in {"insert", "insertReply"} =>
        FlowOf(run'[c].pkt, run'[c].nat) \in opened'
  BY <1>4
<1> QED BY <1>1, <1>3, <1>5, <1>6 DEF Recorded, HalfOf, InsideTuple, OutsideTuple, FlowOf
-----------------------------------------------------------------------------
(***************************************************************************)
(* How a flow stays in order.                                              *)
(***************************************************************************)
\* A flow is the same before and after a step.
LEMMA TuplesRigid ==
  ASSUME NEW f
  PROVE  Tuples(f)' = Tuples(f)
BY DEF Tuples, InsideTuple, OutsideTuple

\* The order of a flow, from the phases its handlers have come to.
LEMMA FlowOKNext ==
  ASSUME NEW f,
         \A c \in Cpus : Work(run'[c]) \cap Tuples(f) # {} =>
           \E r : r = run'[c] /\ Status(f, r)',
         (\A c \in Cpus : Work(run'[c]) \cap Tuples(f) = {}) => Settled(f)'
  PROVE  FlowOK(f)'
<1>1. ASSUME NEW c \in Cpus, WorksOn(c, f)'
      PROVE  Status(f, run[c])'
  <2>1. PICK r : r = run'[c]
    OBVIOUS
  <2>2. Work(r) \cap Tuples(f) # {}
    BY <1>1, <2>1, WorksOnNext
  <2>3. Status(f, r)'
    BY <2>1, <2>2
  <2> QED BY <2>1, <2>3 DEF Status, FlowOf
<1>2. ASSUME \A c \in Cpus : ~ WorksOn(c, f)'
      PROVE  Settled(f)'
  <2>1. ASSUME NEW c \in Cpus
        PROVE  Work(run'[c]) \cap Tuples(f) = {}
    <3>1. PICK r : r = run'[c]
      OBVIOUS
    <3> QED BY <1>2, <3>1, WorksOnNext
  <2> QED BY <2>1
<1> QED BY <1>1, <1>2 DEF FlowOK

\* The entries of the flow are left alone.
Untouched(f) ==
  /\ Tuples(f) \cap Linked' = Tuples(f) \cap Linked
  /\ \A k \in Tuples(f) \cap Linked : Entry(k)' = Entry(k)

\* Then what was known of it still is.
LEMMA UntouchedStatus ==
  ASSUME NEW f, Untouched(f)
  PROVE  /\ Settled(f) => Settled(f)'
         /\ \A r : Status(f, r) => Status(f, r)'
<1>1. Settled(f) => Settled(f)'
  BY TuplesRigid DEF Settled, Whole, Untouched
<1>2. ASSUME NEW k \in Tuples(f), Ahead(f, k)
      PROVE  Ahead(f, k)'
  BY <1>2, TuplesRigid DEF Ahead, Whole, Untouched
<1>3. ASSUME NEW r, Status(f, r)
      PROVE  Status(f, r)'
  <2>1. r.pkt.key \in Tuples(f)
    BY <1>3 DEF Status
  <2>2. r.pkt.key \in Linked => Entry(r.pkt.key)' = Entry(r.pkt.key)
    BY <2>1 DEF Untouched
  <2>3. Settled(f) \/ Ahead(f, r.pkt.key) => r.pkt.key \in Linked
    BY <2>1 DEF Settled, Ahead, Whole
  <2>4. Tuples(f) \cap Linked = {r.pkt.key} => r.pkt.key \in Linked
    OBVIOUS
  <2>5. Tuples(f)' = Tuples(f) /\ Tuples(f)' \cap Linked' = Tuples(f) \cap Linked
    BY TuplesRigid DEF Untouched
  <2>6. Ahead(f, r.pkt.key) => Ahead(f, r.pkt.key)'
    BY <1>2, <2>1
  <2>7. FlowOf(r.pkt, r.nat)' = FlowOf(r.pkt, r.nat)
    BY DEF FlowOf
  <2> QED BY <1>1, <1>3, <2>2, <2>3, <2>4, <2>5, <2>6, <2>7 DEF Status
<1> QED BY <1>1, <1>3

\* A step that neither touches the flow nor moves a handler to or from it.
LEMMA SameFlow ==
  ASSUME NEW f, FlowOK(f), Untouched(f),
         \A c \in Cpus : \/ run'[c] = run[c]
                         \/ /\ Work(run[c]) \cap Tuples(f) = {}
                            /\ Work(run'[c]) \cap Tuples(f) = {}
  PROVE  FlowOK(f)'
<1>1. ASSUME NEW c \in Cpus, Work(run'[c]) \cap Tuples(f) # {}
      PROVE  \E r : r = run'[c] /\ Status(f, r)'
  <2>1. run'[c] = run[c] /\ Status(f, run[c])
    BY <1>1 DEF FlowOK, WorksOn
  <2>2. PICK r : r = run[c]
    OBVIOUS
  <2>3. Status(f, r)'
    BY <2>1, <2>2, UntouchedStatus
  <2> QED BY <2>1, <2>2, <2>3
<1>2. ASSUME \A c \in Cpus : Work(run'[c]) \cap Tuples(f) = {}
      PROVE  Settled(f)'
  <2>1. \A c \in Cpus : ~ WorksOn(c, f)
    BY <1>2 DEF WorksOn
  <2> QED BY <2>1, UntouchedStatus DEF FlowOK
<1> QED BY <1>1, <1>2, FlowOKNext

\* A handler's step that takes its CPU from or to the flow: no other CPU is at
\* work on the flow, and its new phase knows what it has to.
LEMMA OwnStep ==
  ASSUME NEW f, NEW c \in Cpus, \A d \in Cpus : d # c => run'[d] = run[d],
         \A d \in Cpus : d # c => ~ WorksOn(d, f),
         NEW r, r = run'[c],
         Work(r) \cap Tuples(f) # {} => Status(f, r)',
         Work(r) \cap Tuples(f) = {} => Settled(f)'
  PROVE  FlowOK(f)'
<1>1. \A d \in Cpus : d # c => Work(run'[d]) \cap Tuples(f) = {}
  BY DEF WorksOn
<1> QED BY <1>1, FlowOKNext

\* A step that leaves the flow undisturbed.
Ongoing(f) ==
  /\ IInv /\ IInv' /\ TimeInv /\ Recorded /\ Recorded'
  /\ f \in opened /\ f \in opened'
  /\ Calm(f) /\ Calm(f)' /\ FlowOK(f)
  /\ ~ Collected(f) /\ ~ Refused(f)

\* After it, too, at most one handler is at work on the flow,
LEMMA AloneNext ==
  ASSUME NEW f, Calm(f)', NEW c \in Cpus, Work(run'[c]) \cap Tuples(f) # {}
  PROVE  \A d \in Cpus : d # c => Work(run'[d]) \cap Tuples(f) = {}
<1>1. \A d \in Cpus : \A r : r = run'[d] =>
        (WorksOn(d, f)' <=> Work(r) \cap Tuples(f) # {})
  BY WorksOnNext
<1>2. \A d \in Cpus : WorksOn(d, f)' <=> Work(run'[d]) \cap Tuples(f) # {}
  BY <1>1
<1>3. WorksOn(c, f)'
  BY <1>2
<1>4. \A d \in Cpus : d # c => ~ WorksOn(d, f)'
  BY <1>3 DEF Calm, TwoAtWork
<1> QED BY <1>2, <1>4

\* its element is its own,
LEMMA OwnElementNext ==
  ASSUME NEW f, Calm(f)', NEW c \in Cpus, NEW r, r = run'[c],
         Work(r) \cap Tuples(f) # {}, r.pc \in {"load", "store", "reverse", "copy"}
  PROVE  LookedUp(r) \in Linked' /\ index'[LookedUp(r)] = r.slot
<1>1. ~ (Strayed(run[c]) /\ (Work(run[c]) \cup Hit(run[c])) \cap Tuples(f) # {})'
  BY DEF Calm, StrayAtWork
<1>2. WorksOn(c, f)'
  BY WorksOnNext
<1>3. ~ Strayed(run[c])'
  BY <1>1, <1>2 DEF WorksOn
<1> QED BY <1>3 DEF Strayed, LookedUp

\* and no other flow has its tuples.
LEMMA ApartNext ==
  ASSUME NEW f, Calm(f)', NEW g \in opened', g # f
  PROVE  Tuples(g) \cap Tuples(f) = {}
BY TuplesRigid DEF Calm, Crossed

\* The lookup of a datagram's tuple finds the flow's entry.
LEMMA ReceiveFlow ==
  ASSUME NEW f, Ongoing(f), NEW c \in Cpus, NEW pkt \in Packets, Receive(c, pkt)
  PROVE  FlowOK(f)'
<1>1. Untouched(f)
  BY DEF Receive, Untouched, Linked, Entry
<1>2. /\ \A d \in Cpus : d # c => run'[d] = run[d]
      /\ Work(run[c]) = {}
  BY WorkByPc DEF Receive, Goto, Ongoing, IInv, TypeOK
<1>3. PICK r : r = run'[c]
  OBVIOUS
<1>4. \/ /\ pkt.key \in Linked
         /\ r = [pc |-> "load", pkt |-> pkt, slot |-> index[pkt.key], time |-> now]
      \/ /\ pkt.key \notin Linked
         /\ r = [pc |-> "resolve", pkt |-> pkt]
  BY <1>3 DEF Receive, Goto, Ongoing, IInv, TypeOK
<1>5. /\ r.pkt = pkt /\ Work(r) = {pkt.key}
      /\ \/ r.pc = "load" /\ r.time = now
         \/ r.pc = "resolve" /\ pkt.key \notin Linked
  BY <1>4, WorkByPc
<1>6. CASE pkt.key \notin Tuples(f)
  <2>1. Work(r) \cap Tuples(f) = {}
    BY <1>5, <1>6
  <2> QED BY <1>1, <1>2, <1>3, <2>1, SameFlow DEF Ongoing
<1>7. CASE pkt.key \in Tuples(f)
  <2>1. Work(r) \cap Tuples(f) # {}
    BY <1>5, <1>7
  <2>2. \A d \in Cpus : d # c => ~ WorksOn(d, f)
    BY <1>2, <1>3, <2>1, AloneNext DEF Ongoing, WorksOn
  <2>3. Settled(f)
    BY <1>2, <2>2 DEF Ongoing, FlowOK, WorksOn
  <2>4. pkt.key \in Linked
    BY <1>7, <2>3 DEF Settled, Whole
  <2>5. Entry(pkt.key).timeout <= now + TIMEOUT_EST
    BY <2>4, TimeInvBounds DEF Ongoing, TimeoutBounded
  <2>6. Status(f, r)
    BY <1>5, <1>7, <2>3, <2>4, <2>5 DEF Status
  <2> QED BY <1>1, <1>2, <1>3, <2>1, <2>2, <2>6, UntouchedStatus, OwnStep
<1> QED BY <1>6, <1>7

\* A time computed from a reading of the clock is not before the one in the entry
\* when the entry is to be updated.
LEMMA UpdateIsLater ==
  ASSUME NEW state \in FlowStates, NEW time \in Nat,
         state.timeout <= time + TIMEOUT_EST, NeedsUpdate(state, time)
  PROVE  state.timeout <= ExpectedTimeout(state, time)
<1>1. state.timeout \in Nat /\ ExpectedTimeout(state, time) \in Nat
  BY ExpectedTimeoutType DEF FlowStates
<1>2. CASE state.direction = "reply"
  BY <1>2 DEF ExpectedTimeout
<1>3. CASE state.direction # "reply"
  BY <1>1, <1>3 DEF NeedsUpdate
<1> QED BY <1>2, <1>3

\* The handler reads the flow's own entry.
LEMMA LoadFlow ==
  ASSUME NEW f, Ongoing(f), NEW c \in Cpus, Load(c)
  PROVE  FlowOK(f)'
<1>1. Untouched(f)
  BY DEF Load, Untouched, Linked, Entry
<1>2. /\ \A d \in Cpus : d # c => run'[d] = run[d]
      /\ run[c].pc = "load" /\ Work(run[c]) = {run[c].pkt.key}
      /\ run[c] \in Loading
  BY OneHandlerMoves, WorkByPc, PhaseByPc DEF Load, Handle, Ongoing, IInv, TypeOK
<1>3. PICK r : r = run'[c]
  OBVIOUS
<1> DEFINE state == cells[run[c].slot]
           time == run[c].time
<1>4. \/ r = Idle
      \/ /\ NeedsUpdate(state, time)
         /\ r = [pc |-> "store", pkt |-> run[c].pkt, slot |-> run[c].slot,
                 direction |-> state.direction,
                 timeout |-> ExpectedTimeout(state, time)]
  BY <1>3 DEF Load, Goto, Ongoing, IInv, TypeOK
<1>5. \/ r.pc = "idle" /\ Work(r) = {}
      \/ /\ r.pc = "store" /\ r.pkt = run[c].pkt /\ Work(r) = {run[c].pkt.key}
         /\ NeedsUpdate(state, time) /\ r.timeout = ExpectedTimeout(state, time)
  BY <1>4, WorkByPc DEF Idle
<1>6. CASE ~ WorksOn(c, f)
  <2>1. Work(run[c]) \cap Tuples(f) = {} /\ Work(r) \cap Tuples(f) = {}
    BY <1>2, <1>5, <1>6 DEF WorksOn
  <2> QED BY <1>1, <1>2, <1>3, <2>1, SameFlow DEF Ongoing
<1>7. CASE WorksOn(c, f)
  <2>1. \A d \in Cpus : d # c => ~ WorksOn(d, f)
    BY <1>7, AloneAtWork DEF Ongoing
  <2>2. /\ run[c].pkt.key \in Tuples(f) /\ Settled(f)
        /\ Entry(run[c].pkt.key).timeout <= time + TIMEOUT_EST
    BY <1>2, <1>7 DEF Ongoing, FlowOK, Status
  <2>3. Entry(run[c].pkt.key) = state
    BY <1>2, <1>7, OwnElement DEF LookedUp, Ongoing
  <2>4. state \in FlowStates /\ time \in Nat
    BY <1>2, Pointed DEF Ongoing, Loading
  <2>5. r.pc = "store" => Status(f, r)
    <3> HIDE DEF state, time
    <3> SUFFICES ASSUME r.pc = "store" PROVE Status(f, r)
      OBVIOUS
    <3>1. /\ r.pkt = run[c].pkt /\ NeedsUpdate(state, time)
          /\ r.timeout = ExpectedTimeout(state, time)
      BY <1>5
    <3>2. state.timeout <= r.timeout
      BY <2>2, <2>3, <2>4, <3>1, UpdateIsLater
    <3> QED BY <2>2, <2>3, <3>1, <3>2 DEF Status
  <2>6. r.pc = "store" => Status(f, r)'
    BY <1>1, <2>5, UntouchedStatus
  <2>7. Settled(f)'
    BY <1>1, <2>2, UntouchedStatus
  <2>8. Work(r) \cap Tuples(f) # {} => r.pc = "store"
    BY <1>5
  <2> QED BY <1>2, <1>3, <2>1, <2>6, <2>7, <2>8, OwnStep
<1> QED BY <1>6, <1>7

\* A write through a pointer that is not to the flow leaves its entries alone.
LEMMA OtherWrites ==
  ASSUME NEW f, Ongoing(f), NEW c \in Cpus, Store(c) \/ CopyToReverse(c),
         ~ WorksOn(c, f)
  PROVE  Untouched(f)
<1>1. /\ run[c].pc \in {"store", "copy"} /\ UNCHANGED index
      /\ \E flag, timeout : Write(run[c].slot, flag, timeout)
  BY DEF Store, CopyToReverse
<1>2. \A k \in Tuples(f) \cap Linked : index[k] # run[c].slot
  BY <1>1, OnlyOwnWrites DEF Ongoing
<1>3. index \in [Linked -> Slots] /\ cells \in [Slots -> FlowStates \cup {Vacant}]
  BY DEF Ongoing, IInv, TypeOK
<1>4. \A s \in Slots : s # run[c].slot => cells'[s] = cells[s]
  BY <1>1, <1>3 DEF Write
<1> QED BY <1>1, <1>2, <1>3, <1>4 DEF Untouched, Linked, Entry

\* The store puts the packet's half of the flow ahead of the other one.
LEMMA StoreFlow ==
  ASSUME NEW f, Ongoing(f), NEW c \in Cpus, Store(c)
  PROVE  FlowOK(f)'
<1>1. /\ \A d \in Cpus : d # c => run'[d] = run[d]
      /\ run[c].pc = "store" /\ Work(run[c]) = {run[c].pkt.key}
      /\ run[c] \in Storing /\ run[c].pkt \in Packets
  BY OneHandlerMoves, WorkByPc, PhaseByPc
     DEF Store, Handle, Ongoing, IInv, TypeOK, Storing
<1>2. PICK s : s = run[c].slot
  OBVIOUS
<1>3. PICK k : k = run[c].pkt.key
  OBVIOUS
<1>4. PICK nat : nat = cells[s].nat
  OBVIOUS
<1>5. PICK r : r = run'[c]
  OBVIOUS
<1>6. r = [pc |-> "reverse", pkt |-> run[c].pkt, slot |-> s, nat |-> nat]
  BY <1>2, <1>4, <1>5 DEF Store, Goto, Ongoing, IInv, TypeOK
<1>7. /\ r.pc = "reverse" /\ r.pkt = run[c].pkt /\ r.slot = s /\ r.nat = nat
      /\ Work(r) = {k, ReverseKey(run[c].pkt, nat)} /\ LookedUp(r) = k
  BY <1>3, <1>6, WorkByPc DEF LookedUp
<1>8. CASE ~ WorksOn(c, f)
  <2>1. Untouched(f)
    BY <1>8, OtherWrites
  <2>2. Work(run[c]) \cap Tuples(f) = {} /\ k \notin Tuples(f)
    BY <1>1, <1>3, <1>8 DEF WorksOn
  <2>3. Work(r) \cap Tuples(f) = {}
    <3> SUFFICES ASSUME Work(r) \cap Tuples(f) # {} PROVE FALSE
      OBVIOUS
    <3>1. k \in Linked' /\ index'[k] = s
      BY <1>5, <1>7, OwnElementNext DEF Ongoing
    <3>2. k \in Linked /\ index[k] = s
      BY <3>1 DEF Store, Linked
    <3>3. nat = Entry(k).nat
      BY <1>4, <3>2 DEF Entry
    <3>4. ReverseKey(run[c].pkt, nat) \notin Tuples(f)
      BY <1>1, <1>3, <2>2, <3>2, <3>3, OthersStayAway DEF Ongoing
    <3> QED BY <1>7, <2>2, <3>4
  <2> QED BY <1>1, <1>5, <2>1, <2>2, <2>3, SameFlow DEF Ongoing
<1>9. CASE WorksOn(c, f)
  <2>1. \A d \in Cpus : d # c => ~ WorksOn(d, f)
    BY <1>9, AloneAtWork DEF Ongoing
  <2>2. k \in Tuples(f) /\ Settled(f) /\ Entry(k).timeout <= run[c].timeout
    BY <1>1, <1>3, <1>9 DEF Ongoing, FlowOK, Status
  <2>3. k \in Linked /\ index[k] = s /\ Entry(k) = cells[s]
    BY <1>1, <1>2, <1>3, <1>9, OwnElement DEF LookedUp, Ongoing
  <2>4. /\ index \in [Linked -> Slots] /\ cells \in [Slots -> FlowStates \cup {Vacant}]
        /\ \A i, j \in Linked : index[i] = index[j] => i = j
    BY DEF Ongoing, IInv, TypeOK
  <2>5. Linked' = Linked /\ index' = index
    BY DEF Store, Linked
  <2> DEFINE flag == cells[s].seen_reply \/ run[c].direction = "reply"
  <2>6. /\ Entry(k)' = [nat |-> cells[s].nat, direction |-> cells[s].direction,
                        seen_reply |-> flag, timeout |-> run[c].timeout]
        /\ \A j \in Linked \ {k} : Entry(j)' = Entry(j)
    BY <1>2, <2>3, <2>4, <2>5 DEF Store, Write, Entry
  <2>7. /\ Entry(k)'.nat = nat /\ Entry(k)'.timeout = run[c].timeout
        /\ Entry(k).seen_reply => Entry(k)'.seen_reply
    <3>1. Entry(k).seen_reply => flag
      BY <2>3
    <3> HIDE DEF flag
    <3> QED BY <1>4, <2>6, <3>1
  <2>8. run[c].timeout \in Nat
    BY <1>1 DEF Storing
  <2>9. Ahead(f, k)'
    <3>1. \A j \in Tuples(f) : j \in Linked
      BY <2>2 DEF Settled, Whole
    <3>2. ASSUME NEW j \in Tuples(f)
          PROVE  /\ Entry(j)'.timeout <= Entry(k)'.timeout
                 /\ Entry(j)'.seen_reply => Entry(k)'.seen_reply
      <4>1. CASE j = k
        BY <2>7, <2>8, <4>1
      <4>2. CASE j # k
        <5>1. /\ Entry(j)' = Entry(j) /\ Entry(j).timeout = Entry(k).timeout
              /\ Entry(j).seen_reply = Entry(k).seen_reply
          BY <2>2, <2>6, <3>1, <4>2 DEF Settled
        <5> QED BY <2>2, <2>7, <5>1
      <4> QED BY <4>1, <4>2
    <3>3. Whole(f)'
      BY <2>5, <3>1, TuplesRigid DEF Whole
    <3> QED BY <3>2, <3>3, TuplesRigid DEF Ahead
  <2>10. Status(f, r)'
    <3>1. r.pkt.key = k
      BY <1>3, <1>7
    <3> QED BY <1>7, <2>2, <2>7, <2>9, <3>1, TuplesRigid DEF Status
  <2>11. Work(r) \cap Tuples(f) # {}
    BY <1>7, <2>2
  <2> QED BY <1>1, <1>5, <2>1, <2>10, <2>11, OwnStep
<1> QED BY <1>8, <1>9

\* The lookup of the other half finds the flow's.
LEMMA LookupReverseFlow ==
  ASSUME NEW f, Ongoing(f), NEW c \in Cpus, LookupReverse(c)
  PROVE  FlowOK(f)'
<1>1. Untouched(f)
  BY DEF LookupReverse, Untouched, Linked, Entry
<1>2. PICK reverse : reverse = ReverseKey(run[c].pkt, run[c].nat)
  OBVIOUS
<1>3. /\ \A d \in Cpus : d # c => run'[d] = run[d]
      /\ run[c].pc = "reverse" /\ Work(run[c]) = {run[c].pkt.key, reverse}
      /\ run[c].pkt \in Packets
  <2>1. run[c].pc = "reverse" /\ IInv /\ run[c] \in Phases /\ Handle(c)
    BY DEF LookupReverse, Handle, Ongoing, IInv, TypeOK
  <2>2. Work(run[c]) = {run[c].pkt.key, reverse}
    BY <1>2, <2>1, WorkByPc
  <2> QED BY <2>1, <2>2, OneHandlerMoves, PhaseParts
<1>4. PICK r : r = run'[c]
  OBVIOUS
<1>5. r = IF reverse \in Linked
          THEN [pc |-> "copy", pkt |-> run[c].pkt, key |-> reverse,
                slot |-> index[reverse],
                seen_reply |-> cells[run[c].slot].seen_reply,
                timeout |-> cells[run[c].slot].timeout]
          ELSE Idle
  BY <1>2, <1>4 DEF LookupReverse, Goto, Ongoing, IInv, TypeOK
<1>6. reverse \in Linked =>
        /\ r.pc = "copy" /\ r.pkt = run[c].pkt /\ r.key = reverse
        /\ r.seen_reply = cells[run[c].slot].seen_reply
        /\ r.timeout = cells[run[c].slot].timeout
        /\ Work(r) = {run[c].pkt.key, reverse}
  BY <1>5, WorkByPc
<1>7. reverse \notin Linked => Work(r) = {}
  BY <1>5, WorkByPc DEF Idle
<1>8. CASE ~ WorksOn(c, f)
  <2>1. Work(run[c]) \cap Tuples(f) = {} /\ Work(r) \cap Tuples(f) = {}
    BY <1>3, <1>6, <1>7, <1>8 DEF WorksOn
  <2> QED BY <1>1, <1>3, <1>4, <2>1, SameFlow DEF Ongoing
<1>9. CASE WorksOn(c, f)
  <2>1. \A d \in Cpus : d # c => ~ WorksOn(d, f)
    BY <1>9, AloneAtWork DEF Ongoing
  <2>2. /\ run[c].pkt.key \in Tuples(f) /\ Ahead(f, run[c].pkt.key)
        /\ run[c].nat = Entry(run[c].pkt.key).nat
    BY <1>3, <1>9 DEF Ongoing, FlowOK, Status
  <2>3. run[c].pkt.key \in Linked /\ Entry(run[c].pkt.key) = cells[run[c].slot]
    BY <1>3, <1>9, OwnElement DEF LookedUp, Ongoing
  <2>4. Tuples(f) = {run[c].pkt.key, reverse}
    <3>1. HalfOf(run[c].pkt.key, run[c].nat, f)
      BY <2>2, <2>3, BackedByItself DEF Ongoing
    <3> QED BY <1>2, <1>3, <3>1, OtherTuple DEF Ongoing, Recorded
  <2>5. reverse \in Linked
    BY <2>2, <2>4 DEF Ahead, Whole
  <2>6. Status(f, r)
    BY <1>6, <2>2, <2>3, <2>4, <2>5 DEF Status
  <2>7. Status(f, r)'
    BY <1>1, <2>6, UntouchedStatus
  <2>8. Work(r) \cap Tuples(f) # {}
    BY <1>6, <2>2, <2>5
  <2> QED BY <1>3, <1>4, <2>1, <2>7, <2>8, OwnStep
<1> QED BY <1>8, <1>9

\* The copy brings the other half level.
LEMMA CopyToReverseFlow ==
  ASSUME NEW f, Ongoing(f), NEW c \in Cpus, CopyToReverse(c)
  PROVE  FlowOK(f)'
<1>1. /\ \A d \in Cpus : d # c => run'[d] = run[d]
      /\ run[c].pc = "copy" /\ run[c] \in Copying /\ Handle(c)
  BY OneHandlerMoves, PhaseByPc DEF CopyToReverse, Handle, Ongoing, IInv, TypeOK
<1>2. PICK s : s = run[c].slot
  OBVIOUS
<1>3. PICK k : k = run[c].pkt.key
  OBVIOUS
<1>4. PICK other : other = run[c].key
  OBVIOUS
<1>5. PICK r : r = run'[c]
  OBVIOUS
<1>6. r = Idle
  BY <1>5 DEF CopyToReverse, Goto, Ongoing, IInv, TypeOK
<1>7. Work(r) = {} /\ LookedUp(run[c]) = other
  BY <1>1, <1>4, <1>6, WorkByPc DEF Idle, LookedUp
<1>8. CASE ~ WorksOn(c, f)
  <2>1. Untouched(f)
    BY <1>8, OtherWrites
  <2>2. Work(run[c]) \cap Tuples(f) = {} /\ Work(r) \cap Tuples(f) = {}
    BY <1>7, <1>8 DEF WorksOn
  <2> QED BY <1>1, <1>5, <2>1, <2>2, SameFlow DEF Ongoing
<1>9. CASE WorksOn(c, f)
  <2>1. \A d \in Cpus : d # c => ~ WorksOn(d, f)
    BY <1>9, AloneAtWork DEF Ongoing
  <2>2. /\ k \in Tuples(f) /\ Ahead(f, k) /\ Tuples(f) = {k, other}
        /\ run[c].seen_reply = Entry(k).seen_reply
        /\ run[c].timeout = Entry(k).timeout
    BY <1>1, <1>3, <1>4, <1>9 DEF Ongoing, FlowOK, Status
  <2>3. other \in Linked /\ index[other] = s
    BY <1>1, <1>2, <1>7, <1>9, OwnElement DEF Ongoing
  <2>4. k \in Linked
    BY <2>2 DEF Ahead, Whole
  <2>5. /\ index \in [Linked -> Slots] /\ cells \in [Slots -> FlowStates \cup {Vacant}]
        /\ \A i, j \in Linked : index[i] = index[j] => i = j
    BY DEF Ongoing, IInv, TypeOK
  <2>6. Linked' = Linked /\ index' = index
    BY DEF CopyToReverse, Linked
  <2>7. /\ Entry(other)' = [nat |-> cells[s].nat, direction |-> cells[s].direction,
                            seen_reply |-> run[c].seen_reply, timeout |-> run[c].timeout]
        /\ \A j \in Linked \ {other} : Entry(j)' = Entry(j)
    BY <1>2, <2>3, <2>5, <2>6 DEF CopyToReverse, Write, Entry
  <2>8. \A j \in Tuples(f) : /\ Entry(j)'.seen_reply = Entry(k).seen_reply
                             /\ Entry(j)'.timeout = Entry(k).timeout
    BY <2>2, <2>4, <2>7
  <2>9. Whole(f)'
    BY <2>2, <2>3, <2>4, <2>6, TuplesRigid DEF Whole
  <2>10. Settled(f)'
    BY <2>8, <2>9, TuplesRigid DEF Settled
  <2> QED BY <1>1, <1>5, <1>7, <2>1, <2>10, OwnStep
<1> QED BY <1>8, <1>9

\* A miss is not on a flow that goes undisturbed, and opens another one.
LEMMA ResolveFlow ==
  ASSUME NEW f, Ongoing(f), NEW c \in Cpus, Resolve(c)
  PROVE  FlowOK(f)'
<1>1. Untouched(f)
  BY DEF Resolve, Untouched, Linked, Entry
<1>2. /\ \A d \in Cpus : d # c => run'[d] = run[d]
      /\ run[c].pc = "resolve" /\ run[c].pkt.key \in Work(run[c])
  BY OneHandlerMoves, WorkByPc DEF Resolve, Handle, Ongoing
<1>3. ~ WorksOn(c, f)
  BY <1>2 DEF Ongoing, FlowOK, Status
<1>4. Work(run[c]) \cap Tuples(f) = {} /\ run[c].pkt.key \notin Tuples(f)
  BY <1>2, <1>3 DEF WorksOn
<1>5. PICK r : r = run'[c]
  OBVIOUS
<1>6. CASE Goto(c, Idle)
  <2>1. r = Idle
    BY <1>5, <1>6 DEF Goto, Ongoing, IInv, TypeOK
  <2>2. Work(r) = {}
    BY <2>1, WorkByPc DEF Idle
  <2> QED BY <1>1, <1>2, <1>4, <1>5, <2>2, SameFlow DEF Ongoing
<1>7. ASSUME NEW nat \in FirstNat(run[c].pkt),
             Goto(c, [pc |-> "insert", pkt |-> run[c].pkt, nat |-> nat,
                      timeout |-> now + TIMEOUT_NEW])
      PROVE  FlowOK(f)'
  <2>1. r.pc = "insert" /\ r.pkt = run[c].pkt /\ r.nat = nat
    BY <1>5, <1>7 DEF Goto, Ongoing, IInv, TypeOK
  <2>2. r \in Phases /\ r.nat \in PossibleNat(r.pkt)
    BY <1>5, <2>1 DEF Ongoing, IInv, TypeOK, PendingInsert, PossibleNat
  <2>3. Tuples(FlowOf(r.pkt, r.nat)) = Work(r) /\ r.pkt.key \in Work(r)
    BY <2>1, <2>2, PhaseParts, InsertingWork
  <2>4. FlowOf(r.pkt, r.nat) \in opened'
    BY <1>5, <2>1 DEF Ongoing, Recorded, FlowOf
  <2>5. FlowOf(r.pkt, r.nat) # f
    BY <1>4, <2>1, <2>3
  <2>6. Work(r) \cap Tuples(f) = {}
    BY <2>3, <2>4, <2>5, ApartNext DEF Ongoing
  <2> QED BY <1>1, <1>2, <1>4, <1>5, <2>6, SameFlow DEF Ongoing
<1> QED BY <1>6, <1>7 DEF Resolve

\* The first insert finds room for the packet's half of the flow.
LEMMA InsertOriginalFlow ==
  ASSUME NEW f, Ongoing(f), NEW c \in Cpus, InsertOriginal(c)
  PROVE  FlowOK(f)'
<1>1. /\ \A d \in Cpus : d # c => run'[d] = run[d]
      /\ run[c].pc = "insert" /\ run[c] \in Inserting /\ IInv
  BY OneHandlerMoves, InsertingState DEF InsertOriginal, Handle, Ongoing
<1>2. PICK r : r = run'[c]
  OBVIOUS
<1>3. r = [run[c] EXCEPT !.pc = "insertReply"]
  BY <1>2 DEF InsertOriginal, Goto, Ongoing, IInv, TypeOK
<1>4. /\ r.pc = "insertReply" /\ r.pkt = run[c].pkt
      /\ r.nat = run[c].nat /\ r.timeout = run[c].timeout
  BY <1>1, <1>3 DEF Inserting
<1>5. Work(r) = Work(run[c])
  BY <1>1, <1>4, WorkByPc
<1>6. PICK k : k = run[c].pkt.key
  OBVIOUS
<1>7. /\ k \in Work(run[c])
      /\ Tuples(FlowOf(run[c].pkt, run[c].nat)) = Work(run[c])
  BY <1>1, <1>6, InsertingFlow
<1>8. /\ Linked \subseteq Linked' /\ \A j \in Linked : Entry(j)' = Entry(j)
      /\ \A j \in Linked' \ Linked :
           j = k /\ Entry(j)' = FlowState(run[c].nat, "original", run[c].timeout)
  BY <1>1, <1>6, InsertOriginalMap
<1>9. CASE ~ WorksOn(c, f)
  <2>1. Work(run[c]) \cap Tuples(f) = {} /\ k \notin Tuples(f)
    BY <1>7, <1>9 DEF WorksOn
  <2>2. Untouched(f)
    BY <1>8, <2>1 DEF Untouched
  <2> QED BY <1>1, <1>2, <1>5, <2>1, <2>2, SameFlow DEF Ongoing
<1>10. CASE WorksOn(c, f)
  <2>1. \A d \in Cpus : d # c => ~ WorksOn(d, f)
    BY <1>10, AloneAtWork DEF Ongoing
  <2>2. /\ k \in Tuples(f) /\ FlowOf(run[c].pkt, run[c].nat) = f
        /\ Tuples(f) \cap Linked = {}
    BY <1>1, <1>6, <1>10 DEF Ongoing, FlowOK, Status
  <2>3. k \in Linked'
    BY <1>1, <1>2, <1>4, <1>6, <2>2 DEF Ongoing, Refused
  <2>4. Tuples(f) \cap Linked' = {k}
    BY <1>8, <2>2, <2>3
  <2>5. Entry(k)' = FlowState(run[c].nat, "original", run[c].timeout)
    BY <1>8, <2>2, <2>3
  <2>6. Entry(k)'.timeout = run[c].timeout /\ ~ Entry(k)'.seen_reply
    BY <2>5 DEF FlowState
  <2>7. Status(f, r)'
    <3>1. r.pkt.key = k /\ FlowOf(r.pkt, r.nat) = f
      BY <1>4, <1>6, <2>2
    <3> QED BY <1>4, <2>2, <2>4, <2>6, <3>1, TuplesRigid DEF Status, FlowOf
  <2>8. Work(r) \cap Tuples(f) # {}
    BY <1>5, <1>7, <2>2
  <2> QED BY <1>1, <1>2, <2>1, <2>7, <2>8, OwnStep
<1> QED BY <1>9, <1>10

\* The second one completes it.
LEMMA InsertReplyFlow ==
  ASSUME NEW f, Ongoing(f), NEW c \in Cpus, InsertReply(c)
  PROVE  FlowOK(f)'
<1>1. /\ \A d \in Cpus : d # c => run'[d] = run[d]
      /\ run[c].pc = "insertReply" /\ IInv
  BY OneHandlerMoves DEF InsertReply, Handle, Ongoing
<1>2. PICK r : r = run'[c]
  OBVIOUS
<1>3. r = Idle
  BY <1>2 DEF InsertReply, Goto, Ongoing, IInv, TypeOK
<1>4. Work(r) = {} /\ r.pc = "idle"
  BY <1>3, WorkByPc DEF Idle
<1>5. PICK k : k = run[c].pkt.key
  OBVIOUS
<1>6. PICK reverse : reverse = ReverseKey(run[c].pkt, run[c].nat)
  OBVIOUS
<1>7. /\ Work(run[c]) = {k, reverse}
      /\ Tuples(FlowOf(run[c].pkt, run[c].nat)) = Work(run[c])
  BY <1>1, <1>5, <1>6, InsertingFlow, WorkByPc
<1>8. /\ Linked \subseteq Linked' /\ \A j \in Linked : Entry(j)' = Entry(j)
      /\ \A j \in Linked' \ Linked :
           /\ j = reverse
           /\ Entry(j)' = FlowState(ReverseNat(run[c].pkt), "reply", run[c].timeout)
  BY <1>1, <1>6, InsertReplyMap
<1>9. CASE ~ WorksOn(c, f)
  <2>1. Work(run[c]) \cap Tuples(f) = {} /\ reverse \notin Tuples(f)
    BY <1>7, <1>9 DEF WorksOn
  <2>2. Untouched(f)
    BY <1>8, <2>1 DEF Untouched
  <2>3. Work(r) \cap Tuples(f) = {}
    BY <1>4
  <2> QED BY <1>1, <1>2, <2>1, <2>2, <2>3, SameFlow DEF Ongoing
<1>10. CASE WorksOn(c, f)
  <2>1. \A d \in Cpus : d # c => ~ WorksOn(d, f)
    BY <1>10, AloneAtWork DEF Ongoing
  <2>2. /\ FlowOf(run[c].pkt, run[c].nat) = f /\ Tuples(f) \cap Linked = {k}
        /\ Entry(k).timeout = run[c].timeout /\ ~ Entry(k).seen_reply
    BY <1>1, <1>5, <1>10 DEF Ongoing, FlowOK, Status
  <2>3. Tuples(f) = {k, reverse} /\ OtherHalf(run[c]) = {reverse}
    BY <1>1, <1>6, <1>7, <2>2 DEF OtherHalf
  <2>4. reverse \in Linked'
    BY <1>1, <1>2, <1>4, <2>3 DEF Ongoing, Refused
  <2>5. k \in Linked /\ Entry(k)' = Entry(k) /\ Entry(k).seen_reply = FALSE
    <3>1. k \in Linked /\ Entry(k)' = Entry(k)
      BY <1>8, <2>2
    <3>2. Entry(k) \in FlowStates
      BY <1>1, <3>1 DEF IInv, TypeOK, Entry
    <3> QED BY <2>2, <3>1, <3>2 DEF FlowStates
  <2>6. ASSUME NEW j \in Tuples(f)
        PROVE  Entry(j)'.seen_reply = FALSE /\ Entry(j)'.timeout = run[c].timeout
    <3>1. CASE j = k
      BY <2>2, <2>5, <3>1
    <3>2. CASE j # k
      <4>1. j \in Linked' \ Linked
        BY <2>2, <2>3, <2>4, <3>2
      <4>2. Entry(j)' = FlowState(ReverseNat(run[c].pkt), "reply", run[c].timeout)
        BY <1>8, <4>1
      <4> QED BY <4>2 DEF FlowState
    <3> QED BY <3>1, <3>2
  <2>7. Whole(f)'
    BY <1>8, <2>3, <2>4, <2>5, TuplesRigid DEF Whole
  <2>8. Settled(f)'
    BY <2>6, <2>7, TuplesRigid DEF Settled
  <2>9. Work(r) \cap Tuples(f) = {}
    BY <1>4
  <2> QED BY <1>1, <1>2, <2>1, <2>8, <2>9, OwnStep
<1> QED BY <1>9, <1>10


\* What the record says of a flow that is undisturbed after a step.
LEMMA RecordCalm ==
  ASSUME Record, NEW f, f \in opened', f \notin disturbed'
  PROVE  /\ f \in opened \cup Opening' /\ f \notin disturbed
         /\ ~ Collected(f) /\ ~ Refused(f)
         /\ Calm(f)'
<1>1. f \in opened \cup Opening'
  BY DEF Record
<1>2. ~ (\/ f \in disturbed
         \/ Collected(f)
         \/ Refused(f)
         \/ (TwoAtWork(f) \/ StrayAtWork(f) \/ Crossed(f))')
  BY DEF Record
<1> QED BY <1>1, <1>2 DEF Calm

\* A flow that has just been opened has no entry yet, and one handler.
LEMMA OpenedFlowOK ==
  ASSUME IInv, IInv', Recorded, Recorded', [Next]_vars, Record,
         NEW f, f \in Opening', f \notin opened, f \in opened', Calm(f)'
  PROVE  FlowOK(f)'
<1>1. PICK c \in Cpus : run'[c].pc = "insert" /\ f = FlowOf(run'[c].pkt, run'[c].nat)
  BY DEF Opening, FlowOf
<1>2. PICK r : r = run'[c]
  OBVIOUS
<1>3. r.pc = "insert" /\ f = FlowOf(r.pkt, r.nat)
  BY <1>1, <1>2
<1>4. r \in Phases /\ r.nat \in PossibleNat(r.pkt)
  BY <1>2, <1>3 DEF IInv, TypeOK, PendingInsert, PossibleNat
<1>5. Tuples(f) = Work(r) /\ r.pkt.key \in Tuples(f)
  BY <1>3, <1>4, PhaseParts, InsertingWork
<1>6. ASSUME NEW k \in Tuples(f) \cap Linked'
      PROVE  FALSE
  <2>1. PICK h \in opened : HalfOf(k, Entry(k)'.nat, h)
    BY <1>6, EntryMoves DEF Recorded
  <2>2. k \in Tuples(h)
    BY <2>1 DEF HalfOf, Tuples
  <2>3. h \in opened'
    BY <1>6, <2>2, StaysOpened
  <2> QED BY <1>6, <2>1, <2>2, <2>3, ApartNext
<1>7. Tuples(f) \cap Linked' = {}
  BY <1>6
<1>8. Status(f, r)'
  BY <1>3, <1>5, <1>7, TuplesRigid DEF Status, FlowOf
<1>9. Work(r) \cap Tuples(f) # {}
  BY <1>5
<1>10. \A d \in Cpus : d # c => Work(run'[d]) \cap Tuples(f) = {}
  BY <1>2, <1>9, AloneNext
<1> QED BY <1>2, <1>8, <1>9, <1>10, FlowOKNext

\* A step of the collector, of the control plane or of the clock leaves an
\* undisturbed flow as it is.
LEMMA QuietFlow ==
  ASSUME NEW f, Ongoing(f),
         Gc \/ (\E e \in Exposable : Expose(e) \/ Unexpose(e)) \/ Tick \/ UNCHANGED vars
  PROVE  FlowOK(f)'
<1>1. UNCHANGED run
  BY DEF Gc, GcTick, GcVisit, GcCollected, GcRemove, GcDone, Expose, Unexpose,
         Tick, vars
<1>2. ASSUME NEW j \in Keys, GcRemove(j)
      PROVE  Untouched(f)
  <2>1. MapOK /\ j \in Linked /\ Remove(j)
    BY <1>2 DEF IInv, TypeOK, MapOK, GcRemove, Ongoing
  <2>2. Linked' = Linked \ {j} /\ \A k \in Linked' : Entry(k)' = Entry(k)
    BY <2>1, RemoveEffect
  <2>3. j \notin Tuples(f)
    BY <2>1, <2>2 DEF Ongoing, Collected
  <2> QED BY <2>2, <2>3 DEF Untouched
<1>3. ASSUME UNCHANGED <<index, cells>>
      PROVE  Untouched(f)
  BY <1>3 DEF Untouched, Linked, Entry
<1>4. Untouched(f)
  BY <1>2, <1>3 DEF Gc, GcTick, GcVisit, GcCollected, GcDone, Expose, Unexpose,
                    Tick, vars
<1> QED BY <1>1, <1>4, SameFlow DEF Ongoing

\* Every step keeps an undisturbed flow in order.
LEMMA OngoingFlow ==
  ASSUME NEW f, Ongoing(f), [Next]_vars
  PROVE  FlowOK(f)'
<1>1. ASSUME NEW c \in Cpus, Handle(c) \/ \E pkt \in Packets : Receive(c, pkt)
      PROVE  FlowOK(f)'
  BY <1>1, ReceiveFlow, LoadFlow, StoreFlow, LookupReverseFlow, CopyToReverseFlow,
     ResolveFlow, InsertOriginalFlow, InsertReplyFlow DEF Handle
<1> QED BY <1>1, QuietFlow DEF Next

\* The invariant is kept by every step of the tracker that is put on record.
LEMMA RecordedStep ==
  ASSUME HInv, [Next]_vars, Record
  PROVE  HInv'
<1>1. IInv' /\ TimeInv'
  BY NextIInv, NextTimeInv DEF HInv
<1>2. Recorded'
  BY <1>1, NextRecorded DEF HInv
<1>3. ASSUME NEW f, f \in opened', f \notin disturbed'
      PROVE  Calm(f)' /\ FlowOK(f)'
  <2>1. /\ f \in opened \cup Opening' /\ f \notin disturbed
        /\ ~ Collected(f) /\ ~ Refused(f)
        /\ Calm(f)'
    BY <1>3, RecordCalm
  <2>2. CASE f \in opened
    <3>1. Calm(f) /\ FlowOK(f)
      BY <2>1, <2>2 DEF HInv, Undisturbed
    <3>2. Ongoing(f)
      BY <1>1, <1>2, <1>3, <2>1, <2>2, <3>1 DEF HInv, Ongoing
    <3> QED BY <2>1, <3>2, OngoingFlow
  <2>3. CASE f \notin opened
    BY <1>1, <1>2, <1>3, <2>1, <2>3, OpenedFlowOK DEF HInv
  <2> QED BY <2>1, <2>2, <2>3
<1>4. \A f \in Undisturbed' : Calm(f)' /\ FlowOK(f)'
  BY <1>3 DEF Undisturbed
<1> QED BY <1>1, <1>2, <1>4 DEF HInv


\* So does a step that changes nothing.
LEMMA StutteringStep ==
  ASSUME HInv, UNCHANGED hvars
  PROVE  HInv'
<1>1. UNCHANGED <<now, index, cells, exposed, run, gc>> /\ UNCHANGED vars
      /\ granted' = granted /\ opened' = opened /\ disturbed' = disturbed
  BY DEF hvars, vars, history
<1>2. IInv' /\ TimeInv'
  BY <1>1, NextIInv, NextTimeInv DEF HInv
<1>3. Linked' = Linked /\ \A k \in Linked : Entry(k)' = Entry(k)
  BY <1>1 DEF Linked, Entry
<1>4. Recorded'
  <2>1. \A f \in opened : Founded(f)'
    BY <1>1, FoundedStays DEF HInv, Recorded
  <2>2. \A k \in Linked : \E f \in opened : HalfOf(k, Entry(k)'.nat, f)
    BY <1>3 DEF HInv, Recorded
  <2>3. \A c \in Cpus : run[c].pc \in {"insert", "insertReply"} =>
          FlowOf(run[c].pkt, run[c].nat) \in opened
    BY DEF HInv, Recorded
  <2>4. exposed \subseteq granted /\ opened \subseteq Flows
    BY DEF HInv, Recorded
  <2> QED BY <1>1, <1>3, <2>1, <2>2, <2>3, <2>4
          DEF Recorded, HalfOf, InsideTuple, OutsideTuple, FlowOf
<1>5. ASSUME NEW f \in opened, f \notin disturbed
      PROVE  Calm(f)' /\ FlowOK(f)'
  <2>1. Calm(f) /\ FlowOK(f)
    BY <1>5 DEF HInv, Undisturbed
  <2>2. Calm(f)'
    <3>1. \A c \in Cpus : WorksOn(c, f)' <=> WorksOn(c, f)
      BY <1>1, WorksOnNext DEF WorksOn
    <3>2. \A c \in Cpus : /\ Strayed(run[c])' <=> Strayed(run[c])
                          /\ Hit(run[c])' = Hit(run[c])
      BY <1>1, <1>3 DEF Strayed, LookedUp, Hit
    <3>3. \A c \in Cpus : Work(run[c])' = Work(run[c])
      BY <1>1 DEF Work, OtherHalf, ReverseKey
    <3>4. Tuples(f)' = Tuples(f) /\ \A g \in opened : Tuples(g)' = Tuples(g)
      BY TuplesRigid
    <3> QED BY <1>1, <2>1, <3>1, <3>2, <3>3, <3>4
            DEF Calm, TwoAtWork, StrayAtWork, Crossed
  <2>3. Untouched(f)
    BY <1>3 DEF Untouched
  <2> QED BY <1>1, <2>1, <2>2, <2>3, SameFlow
<1>6. \A f \in Undisturbed' : Calm(f)' /\ FlowOK(f)'
  BY <1>1, <1>5 DEF Undisturbed
<1> QED BY <1>2, <1>4, <1>6 DEF HInv

NoHistory == granted = {} /\ opened = {} /\ disturbed = {}

\* The invariant holds wherever nothing has happened yet, whatever the time.
LEMMA NoFlowsHInv ==
  ASSUME NoFlows, NoHistory, now \in Nat, exposed = {}
  PROVE  HInv
<1>1. IInv /\ TimeInv
  BY NoFlowsIInv, NoFlowsTimeInv
<1>2. Linked = {} /\ \A c \in Cpus : run[c].pc = "idle"
  BY DEF NoFlows, Linked, Idle
<1>3. Recorded
  BY <1>2 DEF NoHistory, Recorded
<1> QED BY <1>1, <1>3 DEF HInv, NoHistory, Undisturbed

\* So it holds of a process that has just started ...
LEMMA InitHInv == HInit => HInv
BY InitNoFlows, NoFlowsHInv DEF HInit, NoHistory

\* ... and every step of the handlers, the collector, the control plane and the
\* clock keeps it.
LEMMA NextHInv == HInv /\ [HNext]_hvars => HInv'
BY RecordedStep, StutteringStep DEF HNext
-----------------------------------------------------------------------------
(***************************************************************************)
(* What it says of the flows.                                              *)
(***************************************************************************)
\* Where the entries come from.
LEMMA RecordedProvenance == Recorded => Provenance
BY DEF Recorded, Provenance

\* Where the answers to what a container sends go.
LEMMA RecordedAnswers == IInv /\ Recorded => AnswersLeadBack
<1> SUFFICES ASSUME IInv, Recorded, NEW k \in Linked \cap InsideKeys,
                    NEW a, a = AnswerTo(k), a \in Linked, ~ Shared(a)
             PROVE  Entry(a).nat = NATData(k.src_addr, k.src_port)
  BY DEF AnswersLeadBack
<1>1. PICK f \in opened : HalfOf(k, Entry(k).nat, f)
  BY DEF Recorded
<1>2. f \in Flows
  BY DEF Recorded
<1>3. k = InsideTuple(f) /\ Entry(k).nat = f.host
  BY <1>1, <1>2, FlowTuples, SidesDiffer DEF HalfOf
<1>4. a = OutsideTuple(f)
  BY <1>2, <1>3, FlowTuples DEF AnswerTo, OutsideTuple
<1>5. PICK g \in opened : HalfOf(a, Entry(a).nat, g)
  BY DEF Recorded
<1>6. g = f
  BY <1>4, <1>5 DEF Shared, HalfOf, Tuples
<1>7. Entry(a).nat = f.inside
  BY <1>2, <1>4, <1>5, <1>6, FlowTuples, SidesDiffer DEF HalfOf
<1> QED BY <1>2, <1>3, <1>7, FlowTuples

\* What a container's response to a datagram leaves with.
LEMMA RecordedResponses == IInv /\ Recorded => ResponsesKeepAddress
<1> SUFFICES ASSUME IInv, Recorded, NEW k \in Linked \cap OutsideKeys,
                    NEW a, a = ResponseTo(k), a \in Linked, ~ Shared(a)
             PROVE  Entry(a).nat = NATData(k.dst_addr, k.dst_port)
  BY DEF ResponsesKeepAddress
<1>1. PICK f \in opened : HalfOf(k, Entry(k).nat, f)
  BY DEF Recorded
<1>2. f \in Flows
  BY DEF Recorded
<1>3. k = OutsideTuple(f) /\ Entry(k).nat = f.inside
  BY <1>1, <1>2, FlowTuples, SidesDiffer DEF HalfOf
<1>4. a = InsideTuple(f)
  BY <1>2, <1>3, FlowTuples DEF ResponseTo, InsideTuple
<1>5. PICK g \in opened : HalfOf(a, Entry(a).nat, g)
  BY DEF Recorded
<1>6. g = f
  BY <1>4, <1>5 DEF Shared, HalfOf, Tuples
<1>7. Entry(a).nat = f.host
  BY <1>2, <1>4, <1>5, <1>6, FlowTuples, SidesDiffer DEF HalfOf
<1> QED BY <1>2, <1>3, <1>7, FlowTuples

\* A flow in order agrees with itself.
LEMMA HInvHalves == HInv => HalvesAgree
<1> SUFFICES ASSUME HInv, NEW f \in Undisturbed, \A c \in Cpus : ~ WorksOn(c, f)
             PROVE  /\ InsideTuple(f) \in Linked /\ OutsideTuple(f) \in Linked
                    /\ Entry(InsideTuple(f)).seen_reply = Entry(OutsideTuple(f)).seen_reply
                    /\ Entry(InsideTuple(f)).timeout = Entry(OutsideTuple(f)).timeout
  BY DEF HalvesAgree
<1>1. Settled(f)
  BY DEF HInv, FlowOK
<1> QED BY <1>1 DEF Settled, Whole, Tuples


\* A refresh of an undisturbed flow writes a time and a flag that are no less.
LEMMA RefreshLosesNothing ==
  ASSUME HInv, NEW f \in Undisturbed, NEW c \in Cpus, Store(c) \/ CopyToReverse(c),
         NEW k \in Tuples(f) \cap Linked
  PROVE  /\ cells'[index[k]].timeout >= Entry(k).timeout
         /\ Entry(k).seen_reply => cells'[index[k]].seen_reply
<1>1. /\ IInv /\ Calm(f) /\ FlowOK(f)
      /\ index \in [Linked -> Slots] /\ cells \in [Slots -> FlowStates \cup {Vacant}]
      /\ Entry(k) \in FlowStates
  BY DEF HInv, IInv, TypeOK, Entry
<1>2. Entry(k).timeout \in Nat
  BY <1>1 DEF FlowStates
<1>3. CASE index[k] # run[c].slot
  <2>1. cells'[index[k]] = Entry(k)
    BY <1>1, <1>3 DEF Store, CopyToReverse, Write, Entry
  <2> QED BY <1>2, <2>1
<1>4. CASE index[k] = run[c].slot
  <2>1. run[c].pc \in {"load", "store", "reverse", "copy"}
    BY DEF Store, CopyToReverse
  <2>2. WorksOn(c, f) /\ k = LookedUp(run[c]) /\ Status(f, run[c])
    BY <1>1, <1>4, <2>1, OnlyOwnWrites DEF FlowOK
  <2>3. CASE Store(c)
    <3>1. run[c].pc = "store"
      BY <2>3 DEF Store
    <3>2. Entry(k).timeout <= run[c].timeout
      BY <2>2, <3>1 DEF Status, LookedUp
    <3>3. run[c].timeout \in Nat
      BY <1>1, <3>1, PhaseByPc DEF IInv, TypeOK, Storing
    <3> DEFINE flag == cells[run[c].slot].seen_reply \/ run[c].direction = "reply"
    <3>4. cells'[index[k]] = [nat |-> Entry(k).nat, direction |-> Entry(k).direction,
                              seen_reply |-> flag, timeout |-> run[c].timeout]
      BY <1>1, <1>4, <2>3 DEF Store, Write, Entry
    <3>5. Entry(k).seen_reply => flag
      BY <1>4 DEF Entry
    <3> HIDE DEF flag
    <3> QED BY <1>2, <3>2, <3>3, <3>4, <3>5
  <2>4. CASE CopyToReverse(c)
    <3>1. run[c].pc = "copy" /\ k = run[c].key
      BY <2>2, <2>4 DEF CopyToReverse, LookedUp
    <3>2. /\ Entry(k).timeout <= run[c].timeout
          /\ Entry(k).seen_reply => run[c].seen_reply
      BY <2>2, <3>1 DEF Status, Ahead
    <3>3. run[c].timeout \in Nat
      BY <1>1, <3>1, PhaseByPc DEF IInv, TypeOK, Copying
    <3>4. /\ cells'[index[k]].seen_reply = run[c].seen_reply
          /\ cells'[index[k]].timeout = run[c].timeout
      BY <1>1, <1>4, <2>4 DEF CopyToReverse, Write
    <3> QED BY <1>2, <3>2, <3>3, <3>4
  <2> QED BY <2>3, <2>4
<1> QED BY <1>3, <1>4

\* No other step takes anything from an entry that stays.
LEMMA NothingLost == HInv /\ [Next]_vars => \A f \in Undisturbed : NoLifeLost(f)
<1> SUFFICES ASSUME HInv, [Next]_vars, NEW f \in Undisturbed,
                    NEW k \in Tuples(f) \cap Linked, k \in DOMAIN index'
             PROVE  /\ cells'[index'[k]].timeout >= Entry(k).timeout
                    /\ Entry(k).seen_reply => cells'[index'[k]].seen_reply
  BY DEF NoLifeLost
<1>1. IInv /\ Entry(k) \in FlowStates
  BY DEF HInv, IInv, TypeOK, Entry
<1>2. Entry(k).timeout \in Nat
  BY <1>1 DEF FlowStates
<1>3. ASSUME cells'[index'[k]] = Entry(k)
      PROVE  /\ cells'[index'[k]].timeout >= Entry(k).timeout
             /\ Entry(k).seen_reply => cells'[index'[k]].seen_reply
  BY <1>2, <1>3
<1>4. ASSUME UNCHANGED <<index, cells>>
      PROVE  cells'[index'[k]] = Entry(k)
  BY <1>4 DEF Entry
<1>5. ASSUME NEW c \in Cpus, InsertOriginal(c) \/ InsertReply(c)
      PROVE  cells'[index'[k]] = Entry(k)
  BY <1>1, <1>5, InsertOriginalMap, InsertReplyMap DEF Entry
<1>6. ASSUME NEW c \in Cpus, Store(c) \/ CopyToReverse(c)
      PROVE  /\ cells'[index'[k]].timeout >= Entry(k).timeout
             /\ Entry(k).seen_reply => cells'[index'[k]].seen_reply
  <2>1. index' = index
    BY <1>6 DEF Store, CopyToReverse
  <2> QED BY <1>6, <2>1, RefreshLosesNothing
<1>7. ASSUME NEW c \in Cpus, Load(c) \/ LookupReverse(c) \/ Resolve(c)
      PROVE  cells'[index'[k]] = Entry(k)
  BY <1>4, <1>7 DEF Load, LookupReverse, Resolve
<1>8. ASSUME NEW c \in Cpus, NEW pkt \in Packets, Receive(c, pkt)
      PROVE  cells'[index'[k]] = Entry(k)
  BY <1>4, <1>8 DEF Receive
<1>9. ASSUME NEW j \in Keys, GcRemove(j)
      PROVE  cells'[index'[k]] = Entry(k)
  BY <1>9 DEF GcRemove, Remove, Linked, Entry
<1>10. ASSUME \/ GcTick \/ (\E j \in Keys : GcVisit(j)) \/ GcCollected \/ GcDone
              \/ (\E e \in Exposable : Expose(e) \/ Unexpose(e)) \/ Tick
              \/ UNCHANGED vars
       PROVE  cells'[index'[k]] = Entry(k)
  BY <1>4, <1>10 DEF GcTick, GcVisit, GcCollected, GcDone, Expose, Unexpose, Tick, vars
<1>11. ASSUME NEW c \in Cpus, Handle(c)
       PROVE  /\ cells'[index'[k]].timeout >= Entry(k).timeout
              /\ Entry(k).seen_reply => cells'[index'[k]].seen_reply
  BY <1>3, <1>5, <1>6, <1>7, <1>11 DEF Handle
<1> QED BY <1>3, <1>8, <1>9, <1>10, <1>11 DEF Next, Gc

(***************************************************************************)
(* Every translation in force, whatever races, expiry, full maps and       *)
(* reused elements have gone before, was decided for a container's own     *)
(* datagram or for one that came for a port really exposed for that        *)
(* endpoint in this life of the daemon; no entry mixes two flows.          *)
(***************************************************************************)
THEOREM TranslationsFounded == HSpec => []Provenance
<1>1. HInv => Provenance
  BY RecordedProvenance DEF HInv
<1> QED BY InitHInv, NextHInv, <1>1, PTL DEF HSpec

(***************************************************************************)
(* An answer that is translated leads back to the endpoint that sent,      *)
(* unless a second flow that uses its tuple of the NIC has been opened and *)
(* is not gone.  No condition on who sends from which port.                *)
(***************************************************************************)
THEOREM AnswersReturn == HSpec => []AnswersLeadBack
<1>1. HInv => AnswersLeadBack
  BY RecordedAnswers DEF HInv
<1> QED BY InitHInv, NextHInv, <1>1, PTL DEF HSpec

(***************************************************************************)
(* A container's response leaves from the address and port of the NIC its  *)
(* client wrote to, unless a second flow uses the response's tuple.  Any   *)
(* port may be exposed for any other, at any address of the NIC.           *)
(***************************************************************************)
THEOREM ResponsesKeep == HSpec => []ResponsesKeepAddress
<1>1. HInv => ResponsesKeepAddress
  BY RecordedResponses DEF HInv
<1> QED BY InitHInv, NextHInv, <1>1, PTL DEF HSpec

(***************************************************************************)
(* The halves of an undisturbed flow agree between two datagrams, on any   *)
(* number of CPUs, while other flows race, expire and fill the map.        *)
(***************************************************************************)
THEOREM HalvesAlwaysAgree == HSpec => []HalvesAgree
<1> QED BY InitHInv, NextHInv, HInvHalves, PTL DEF HSpec

(***************************************************************************)
(* No step of any handler, the collector or the clock shortens the life of *)
(* an undisturbed flow or makes it forget its reply.                       *)
(***************************************************************************)
THEOREM LifeIsKept == HSpec => LifetimeNeverShortened
<1>1. HInv /\ [HNext]_hvars => [\A f \in Undisturbed : NoLifeLost(f)]_hvars
  BY NothingLost DEF HNext
<1> QED BY InitHInv, NextHInv, <1>1, PTL DEF HSpec, LifetimeNeverShortened
=============================================================================
