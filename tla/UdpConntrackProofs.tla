------------------------- MODULE UdpConntrackProofs -------------------------
(***************************************************************************)
(* Theorems about UdpConntrack, for every set of addresses, ports, CPUs    *)
(* and elements and every value of the timeouts.                           *)
(***************************************************************************)
EXTENDS UdpConntrack, TLAPS

(***************************************************************************)
(* Lemmas about the data.                                                  *)
(***************************************************************************)
\* A handler's phase is known from its program counter.
LEMMA PhaseByPc ==
  ASSUME NEW x \in Phases
  PROVE  /\ x.pc = "load" => x \in Loading
         /\ x.pc = "store" => x \in Storing
         /\ x.pc = "reverse" => x \in Reversing
         /\ x.pc = "copy" => x \in Copying
         /\ x.pc = "resolve" => x \in Resolving
         /\ x.pc \in {"insert", "insertReply"} => x \in Inserting
BY DEF Phases, Idle, Loading, Storing, Reversing, Copying, Resolving, Inserting

\* A used element is told from an unused one.
LEMMA UsedElement ==
  ASSUME NEW x \in FlowStates
  PROVE  x # Vacant
<1>1. DOMAIN x = {"nat", "direction", "seen_reply", "timeout"}
  BY DEF FlowStates
<1>2. DOMAIN Vacant = {"vacant"}
  BY DEF Vacant
<1> QED BY <1>1, <1>2

\* The translations a handler may hold for a packet it is about to insert,
\* whatever EXPOSE_MAP has become since it was read.
PossibleNat(pkt) ==
  IF pkt.prog = "snat"
  THEN {NATData(NicIP, pkt.key.src_port)}
  ELSE {e.target : e \in {x \in Exposable : x.port = pkt.key.dst_port}}

\* The two entries a first packet inserts are well typed and admissible.
LEMMA BothHalvesAdmissible ==
  ASSUME NEW pkt \in Packets, NEW nat \in PossibleNat(pkt)
  PROVE  /\ pkt.key \in Keys
         /\ nat \in Nats
         /\ Admissible(pkt.key, nat)
         /\ ReverseKey(pkt, nat) \in Keys
         /\ ReverseNat(pkt) \in Nats
         /\ Admissible(ReverseKey(pkt, nat), ReverseNat(pkt))
<1>1. CASE pkt.prog = "snat"
  <2>1. pkt.key \in Egress /\ pkt.key \in InsideKeys
    BY <1>1, TrafficAssumption DEF Packets
  <2>2. nat = NATData(NicIP, pkt.key.src_port)
    BY <1>1 DEF PossibleNat
  <2>3. NATData(pkt.key.src_addr, pkt.key.src_port) \in Owners(pkt.key.src_port)
    BY <2>1 DEF Owners
  <2>4. ReverseKey(pkt, nat) = ConnectionTuple(pkt.key.dst_addr, NicIP,
                                               pkt.key.dst_port, pkt.key.src_port)
    BY <1>1, <2>2 DEF ReverseKey, NATData
  <2>5. ReverseKey(pkt, nat) \in OutsideKeys
    BY <2>1, <2>4, AddressAssumption DEF ConnectionTuple, OutsideKeys, InsideKeys
  <2>6. ReverseNat(pkt) = NATData(pkt.key.src_addr, pkt.key.src_port)
    BY <1>1 DEF ReverseNat
  <2>7. ReverseKey(pkt, nat).dst_port = pkt.key.src_port
    BY <2>4 DEF ConnectionTuple
  <2>8. Admissible(ReverseKey(pkt, nat), ReverseNat(pkt))
    BY <2>3, <2>5, <2>6, <2>7 DEF Admissible
  <2>9. nat \in [nat_addr : NicAddrs, nat_port : Ports] /\ nat.nat_port = pkt.key.src_port
    BY <2>1, <2>2, AddressAssumption DEF NATData, InsideKeys
  <2>10. Admissible(pkt.key, nat)
    BY <2>1, <2>3, <2>9 DEF Admissible
  <2>11. nat \in Nats /\ ReverseNat(pkt) \in Nats
    BY <2>1, <2>6, <2>9 DEF Nats, NATData, InsideKeys
  <2> QED BY <2>1, <2>5, <2>8, <2>10, <2>11 DEF Keys
<1>2. CASE pkt.prog = "dnat"
  <2>1. pkt.key \in Ingress /\ pkt.key \in OutsideKeys
    BY <1>2, TrafficAssumption DEF Packets
  <2>2. PICK e \in Exposable : e.port = pkt.key.dst_port /\ nat = e.target
    BY <1>2 DEF PossibleNat
  <2>3. nat \in [nat_addr : Containers, nat_port : Ports]
    BY <2>2, TrafficAssumption
  <2>4. nat \in Owners(pkt.key.dst_port)
    BY <2>2 DEF Owners
  <2>5. ReverseKey(pkt, nat) = ConnectionTuple(nat.nat_addr, pkt.key.src_addr,
                                               nat.nat_port, pkt.key.src_port)
    BY <1>2 DEF ReverseKey
  <2>6. ReverseKey(pkt, nat) \in InsideKeys
    BY <2>1, <2>3, <2>5 DEF ConnectionTuple, OutsideKeys, InsideKeys
  <2>7. ReverseNat(pkt) = NATData(pkt.key.dst_addr, pkt.key.dst_port)
    BY <1>2, <2>1 DEF ReverseNat
  <2>8. nat = NATData(nat.nat_addr, nat.nat_port)
    BY <2>3 DEF NATData
  <2>9. NATData(ReverseKey(pkt, nat).src_addr, ReverseKey(pkt, nat).src_port) = nat
    BY <2>5, <2>8 DEF ConnectionTuple
  <2>10. /\ ReverseNat(pkt) \in [nat_addr : NicAddrs, nat_port : Ports]
         /\ ReverseNat(pkt).nat_port = pkt.key.dst_port
    BY <2>1, <2>7 DEF NATData, OutsideKeys
  <2>11. Admissible(ReverseKey(pkt, nat), ReverseNat(pkt))
    BY <2>4, <2>6, <2>9, <2>10 DEF Admissible
  <2>12. Admissible(pkt.key, nat)
    BY <2>1, <2>4 DEF Admissible
  <2>13. nat \in Nats /\ ReverseNat(pkt) \in Nats
    BY <2>3, <2>10 DEF Nats
  <2> QED BY <2>1, <2>6, <2>11, <2>12, <2>13 DEF Keys
<1> QED BY <1>1, <1>2 DEF Packets
-----------------------------------------------------------------------------
(***************************************************************************)
(* Lemmas about the map.                                                   *)
(***************************************************************************)
\* The part of TypeOK about the buckets and the elements.
MapOK ==
  /\ Linked \subseteq Keys
  /\ index \in [Linked -> Slots]
  /\ \A j, k \in Linked : index[j] = index[k] => j = k
  /\ cells \in [Slots -> FlowStates \cup {Vacant}]
  /\ \A k \in Linked : Entry(k) # Vacant

\* An insert adds its own entry or nothing: every entry that was there stays
\* as it was, and no used element becomes unused.
LEMMA InsertEffect ==
  ASSUME MapOK, NEW k \in Keys, NEW state \in FlowStates,
         InsertNoExist(k, state)
  PROVE  /\ MapOK'
         /\ Linked \subseteq Linked'
         /\ \A j \in Linked : index'[j] = index[j] /\ Entry(j)' = Entry(j)
         /\ \A j \in Linked' \ Linked : j = k /\ Entry(j)' = state
         /\ \A s \in Slots : cells[s] # Vacant => cells'[s] # Vacant
         /\ \A s \in Slots : cells'[s] = cells[s] \/ cells'[s] = state
<1>1. CASE UNCHANGED <<index, cells>>
  BY <1>1 DEF MapOK, Linked, Entry
<1>2. CASE ~ UNCHANGED <<index, cells>>
  <2>1. k \notin Linked
    BY <1>2 DEF InsertNoExist
  <2>2. PICK s \in FreeSlots :
          /\ index' = [x \in Linked \cup {k} |-> IF x = k THEN s ELSE index[x]]
          /\ cells' = [cells EXCEPT ![s] = state]
    BY <1>2 DEF InsertNoExist
  <2>3. s \in Slots /\ \A j \in Linked : index[j] # s
    BY <2>2 DEF FreeSlots
  <2>4. Linked' = Linked \cup {k}
    BY <2>2 DEF Linked
  <2>5. index'[k] = s /\ \A j \in Linked : index'[j] = index[j]
    BY <2>1, <2>2
  <2>6. /\ cells' \in [Slots -> FlowStates \cup {Vacant}]
        /\ cells'[s] = state
        /\ \A r \in Slots : r # s => cells'[r] = cells[r]
    BY <2>2, <2>3 DEF MapOK
  <2>7. state # Vacant
    BY UsedElement
  <2>8. \A j \in Linked : index[j] \in Slots /\ Entry(j)' = Entry(j)
    BY <2>3, <2>5, <2>6 DEF MapOK, Entry
  <2>9. Entry(k)' = state
    BY <2>5, <2>6 DEF Entry
  <2>10. index' \in [Linked' -> Slots]
    BY <2>2, <2>3, <2>4, <2>8
  <2>11. \A i, j \in Linked' : index'[i] = index'[j] => i = j
    BY <2>3, <2>4, <2>5 DEF MapOK
  <2>12. \A j \in Linked' : Entry(j)' # Vacant
    BY <2>4, <2>7, <2>8, <2>9 DEF MapOK
  <2>13. MapOK'
    BY <2>4, <2>6, <2>10, <2>11, <2>12 DEF MapOK
  <2> QED BY <2>4, <2>5, <2>6, <2>7, <2>8, <2>9, <2>13
<1> QED BY <1>1, <1>2

\* A write of an element's flag and timeout changes no translation, no
\* direction and no bucket.
LEMMA WriteEffect ==
  ASSUME MapOK, NEW s \in Slots, cells[s] # Vacant,
         NEW flag \in BOOLEAN, NEW timeout \in Nat,
         Write(s, flag, timeout), UNCHANGED index
  PROVE  /\ MapOK'
         /\ Linked' = Linked
         /\ \A r \in Slots : cells[r] # Vacant => cells'[r] # Vacant
         /\ \A k \in Linked : /\ Entry(k)'.nat = Entry(k).nat
                              /\ Entry(k)'.direction = Entry(k).direction
         /\ \A r \in Slots : cells'[r] = cells[r]
                            \/ (cells'[r] \in FlowStates /\ cells'[r].timeout = timeout)
<1>1. cells[s] \in FlowStates
  BY DEF MapOK
<1> DEFINE new == [nat |-> cells[s].nat, direction |-> cells[s].direction,
                   seen_reply |-> flag, timeout |-> timeout]
<1>2. /\ new \in FlowStates
      /\ new.nat = cells[s].nat
      /\ new.direction = cells[s].direction
      /\ new.timeout = timeout
  BY <1>1 DEF FlowStates
<1>3. /\ cells' \in [Slots -> FlowStates \cup {Vacant}]
      /\ cells'[s] = new
      /\ \A r \in Slots : r # s => cells'[r] = cells[r]
  BY <1>2 DEF MapOK, Write
<1> HIDE DEF new
<1>4. new # Vacant
  BY <1>2, UsedElement
<1>5. Linked' = Linked
  BY DEF Linked
<1>6. \A k \in Linked : index[k] \in Slots /\ index'[k] = index[k]
  BY DEF MapOK
<1>7. \A k \in Linked : /\ Entry(k)'.nat = Entry(k).nat
                       /\ Entry(k)'.direction = Entry(k).direction
                       /\ Entry(k)' # Vacant
  BY <1>2, <1>3, <1>4, <1>6 DEF Entry, MapOK, Linked
<1>8. MapOK'
  BY <1>3, <1>5, <1>6, <1>7 DEF MapOK
<1> QED BY <1>2, <1>3, <1>4, <1>5, <1>7, <1>8

\* A removal forgets one tuple and leaves the elements alone.
LEMMA RemoveEffect ==
  ASSUME MapOK, NEW k \in Linked, Remove(k)
  PROVE  /\ MapOK'
         /\ Linked' = Linked \ {k}
         /\ \A j \in Linked' : Entry(j)' = Entry(j)
         /\ UNCHANGED cells
BY DEF MapOK, Remove, Linked, Entry
-----------------------------------------------------------------------------
(***************************************************************************)
(* The inductive invariant.  TypeOK is not inductive alone: what the next  *)
(* insert puts in the map depends on the translation the handler holds.    *)
(* AllAdmissible needs the same fact about that translation.               *)
(***************************************************************************)
PendingInsert ==
  \A c \in Cpus : run[c].pc \in {"insert", "insertReply"}
                    => run[c].nat \in PossibleNat(run[c].pkt)

IInv == TypeOK /\ PendingInsert /\ AllAdmissible

\* The part of TypeOK about the handlers.
RunOK ==
  /\ run \in [Cpus -> Phases]
  /\ \A c \in Cpus : run[c].pc \in {"load", "store", "reverse", "copy"}
                      => cells[run[c].slot] # Vacant

\* The maps of a process that has just started: nothing in them, and nobody at
\* work on them.
NoFlows ==
  /\ index = [k \in {} |-> {}]
  /\ cells = [s \in Slots |-> Vacant]
  /\ run = [c \in Cpus |-> Idle]
  /\ gc = [phase |-> "sleep", unvisited |-> {}, to_remove |-> {}]

\* They meet the invariant at any time and whatever EXPOSE_MAP holds.
LEMMA NoFlowsIInv == NoFlows /\ now \in Nat /\ exposed \subseteq Exposable => IInv
<1> SUFFICES ASSUME NoFlows, now \in Nat, exposed \subseteq Exposable PROVE IInv
  OBVIOUS
<1>1. Linked = {}
  BY DEF NoFlows, Linked
<1>2. TypeOK
  <2>1. run \in [Cpus -> Phases] /\ \A c \in Cpus : run[c].pc = "idle"
    BY DEF NoFlows, Idle, Phases
  <2>2. index \in [Linked -> Slots] /\ cells \in [Slots -> FlowStates \cup {Vacant}]
    BY <1>1 DEF NoFlows
  <2>3. /\ gc \in Collector /\ gc.unvisited \cup gc.to_remove \subseteq Linked
        /\ gc.unvisited = {}
    BY DEF NoFlows, Collector
  <2> QED BY <1>1, <2>1, <2>2, <2>3 DEF TypeOK
<1>3. PendingInsert
  BY DEF NoFlows, PendingInsert, Idle
<1>4. AllAdmissible
  BY <1>1 DEF AllAdmissible
<1> QED BY <1>2, <1>3, <1>4 DEF IInv

\* The tracker starts with empty maps.
LEMMA InitNoFlows == Init => NoFlows /\ now = 0 /\ exposed = {}
BY DEF Init, NoFlows

\* So the invariant holds at the start.
LEMMA InitIInv == Init => IInv
BY InitNoFlows, NoFlowsIInv

\* A handler's move to another phase keeps RunOK when that phase is typed and
\* points at a used element, and no used element becomes unused.
LEMMA GotoOK ==
  ASSUME RunOK, NEW c \in Cpus, NEW phase \in Phases, Goto(c, phase),
         cells \in [Slots -> FlowStates \cup {Vacant}],
         \A s \in Slots : cells[s] # Vacant => cells'[s] # Vacant,
         phase.pc \in {"load", "store", "reverse", "copy"}
           => cells'[phase.slot] # Vacant
  PROVE  RunOK'
<1>1. run' \in [Cpus -> Phases] /\ run'[c] = phase
  BY DEF RunOK, Goto
<1>2. SUFFICES ASSUME NEW d \in Cpus,
                      run'[d].pc \in {"load", "store", "reverse", "copy"}
               PROVE  cells'[run'[d].slot] # Vacant
  BY <1>1 DEF RunOK
<1>3. CASE d = c
  BY <1>1, <1>2, <1>3
<1>4. CASE d # c
  <2>1. run'[d] = run[d] /\ run[d] \in Phases
    BY <1>4 DEF RunOK, Goto
  <2>2. run[d].slot \in Slots
    BY <1>2, <2>1, PhaseByPc DEF Loading, Storing, Reversing, Copying
  <2> QED BY <1>2, <2>1, <2>2 DEF RunOK
<1> QED BY <1>3, <1>4

\* What a handler's move to another phase does to PendingInsert.
LEMMA GotoPending ==
  ASSUME PendingInsert, run \in [Cpus -> Phases],
         NEW c \in Cpus, NEW phase \in Phases, Goto(c, phase),
         phase.pc \in {"insert", "insertReply"}
           => phase.nat \in PossibleNat(phase.pkt)
  PROVE  PendingInsert'
<1>1. \A d \in Cpus : run'[d] = IF d = c THEN phase ELSE run[d]
  BY DEF Goto
<1>2. \A d \in Cpus : d # c =>
        (run'[d].pc \in {"insert", "insertReply"}
           => run'[d].nat \in PossibleNat(run'[d].pkt))
  BY <1>1 DEF PendingInsert
<1>3. \A x, y : x = y => PossibleNat(x)' = PossibleNat(y)
  BY DEF PossibleNat
<1> QED BY <1>1, <1>2, <1>3 DEF PendingInsert

\* A step of a handler that leaves the map alone.
LEMMA PhaseOnly ==
  ASSUME IInv, NEW c \in Cpus, NEW phase \in Phases, Goto(c, phase),
         UNCHANGED <<now, index, cells, exposed, gc>>,
         phase.pc \in {"load", "store", "reverse", "copy"}
           => cells[phase.slot] # Vacant,
         phase.pc \in {"insert", "insertReply"}
           => phase.nat \in PossibleNat(phase.pkt)
  PROVE  IInv'
<1>1. RunOK'
  BY GotoOK DEF IInv, TypeOK, RunOK
<1>2. PendingInsert'
  BY GotoPending DEF IInv, TypeOK
<1>3. TypeOK' /\ AllAdmissible'
  BY <1>1 DEF IInv, TypeOK, RunOK, AllAdmissible, Linked, Entry
<1> QED BY <1>2, <1>3 DEF IInv

\* The lookup of a handler keeps the pointer it returns.
LEMMA ReceiveStep ==
  ASSUME IInv, NEW c \in Cpus, NEW pkt \in Packets, Receive(c, pkt)
  PROVE  IInv'
<1>1. CASE pkt.key \in Linked
  <2> DEFINE phase == [pc |-> "load", pkt |-> pkt,
                       slot |-> index[pkt.key], time |-> now]
  <2>1. Goto(c, phase)
    BY <1>1 DEF Receive
  <2>2. phase \in Phases
    BY <1>1 DEF IInv, TypeOK, Phases, Loading
  <2>3. cells[phase.slot] # Vacant
    BY <1>1 DEF IInv, TypeOK, Entry
  <2>4. phase.pc = "load"
    OBVIOUS
  <2> HIDE DEF phase
  <2> QED BY <2>1, <2>2, <2>3, <2>4, PhaseOnly DEF Receive
<1>2. CASE pkt.key \notin Linked
  <2> DEFINE phase == [pc |-> "resolve", pkt |-> pkt]
  <2>1. Goto(c, phase)
    BY <1>2 DEF Receive
  <2>2. phase \in Phases /\ phase.pc = "resolve"
    BY DEF Phases, Resolving
  <2> HIDE DEF phase
  <2> QED BY <2>1, <2>2, PhaseOnly DEF Receive
<1> QED BY <1>1, <1>2

\* A handler at rest holds nothing.
LEMMA IdlePhase == Idle \in Phases /\ Idle.pc = "idle"
BY DEF Idle, Phases

\* The timeout a handler computes is a number of nanoseconds.
LEMMA ExpectedTimeoutType ==
  ASSUME NEW state \in FlowStates, NEW time \in Nat
  PROVE  /\ ExpectedTimeout(state, time) \in Nat
         /\ ExpectedTimeout(state, time) <= time + TIMEOUT_EST
BY TimeAssumption DEF ExpectedTimeout

\* The element a handler points at holds an entry.
LEMMA Pointed ==
  ASSUME IInv, NEW c \in Cpus, run[c].pc \in {"load", "store", "reverse", "copy"}
  PROVE  run[c].slot \in Slots /\ cells[run[c].slot] \in FlowStates
<1>1. run[c] \in Phases
  BY DEF IInv, TypeOK
<1>2. run[c].slot \in Slots
  BY <1>1, PhaseByPc DEF Loading, Storing, Reversing, Copying
<1> QED BY <1>2 DEF IInv, TypeOK

\* Reading an entry and deciding keeps the pointer and the packet.
LEMMA LoadStep ==
  ASSUME IInv, NEW c \in Cpus, Load(c)
  PROVE  IInv'
<1>1. run[c] \in Loading /\ run[c].pc = "load"
  BY PhaseByPc DEF IInv, TypeOK, Load
<1>2. run[c].slot \in Slots /\ cells[run[c].slot] \in FlowStates
  BY <1>1, Pointed
<1> DEFINE state == cells[run[c].slot]
           phase == [pc |-> "store", pkt |-> run[c].pkt, slot |-> run[c].slot,
                     direction |-> state.direction,
                     timeout |-> ExpectedTimeout(state, run[c].time)]
<1>3. CASE NeedsUpdate(state, run[c].time)
  <2>1. Goto(c, phase)
    BY <1>3 DEF Load
  <2>2. phase \in Phases
    BY <1>1, <1>2, ExpectedTimeoutType DEF Phases, Storing, Loading, FlowStates
  <2>3. phase.pc = "store" /\ phase.slot = run[c].slot
    OBVIOUS
  <2>4. cells[phase.slot] # Vacant
    BY <1>2, <2>3, UsedElement
  <2> HIDE DEF phase
  <2> QED BY <2>1, <2>2, <2>3, <2>4, PhaseOnly DEF Load
<1>4. CASE ~ NeedsUpdate(state, run[c].time)
  <2>1. Goto(c, Idle)
    BY <1>4 DEF Load
  <2> QED BY <2>1, IdlePhase, PhaseOnly DEF Load
<1> QED BY <1>3, <1>4

\* The lookup of the other half changes the pointer, to a used element.
LEMMA LookupReverseStep ==
  ASSUME IInv, NEW c \in Cpus, LookupReverse(c)
  PROVE  IInv'
<1>1. run[c] \in Reversing /\ run[c].pc = "reverse"
  BY PhaseByPc DEF IInv, TypeOK, LookupReverse
<1>2. run[c].slot \in Slots /\ cells[run[c].slot] \in FlowStates
  BY <1>1, Pointed
<1> DEFINE reverse == ReverseKey(run[c].pkt, run[c].nat)
           state == cells[run[c].slot]
           phase == [pc |-> "copy", pkt |-> run[c].pkt, key |-> reverse,
                     slot |-> index[reverse],
                     seen_reply |-> state.seen_reply, timeout |-> state.timeout]
<1>3. CASE reverse \in Linked
  <2>1. Goto(c, phase)
    BY <1>3 DEF LookupReverse
  <2>2. index[reverse] \in Slots /\ cells[index[reverse]] # Vacant
    BY <1>3 DEF IInv, TypeOK, Entry
  <2>3. reverse \in Keys /\ run[c].pkt \in Packets
    BY <1>1, <1>3 DEF IInv, TypeOK, Reversing
  <2>4. phase \in Phases
    <3> HIDE DEF reverse
    <3> QED BY <1>2, <2>2, <2>3 DEF Phases, Copying, FlowStates
  <2>5. phase.pc = "copy" /\ cells[phase.slot] # Vacant
    BY <2>2
  <2> HIDE DEF phase
  <2> QED BY <2>1, <2>4, <2>5, PhaseOnly DEF LookupReverse
<1>4. CASE reverse \notin Linked
  <2>1. Goto(c, Idle)
    BY <1>4 DEF LookupReverse
  <2> QED BY <2>1, IdlePhase, PhaseOnly DEF LookupReverse
<1> QED BY <1>3, <1>4

\* What is to be inserted is decided here, and it is admissible: the source port of
\* the container, or what EXPOSE_MAP holds for the port.
LEMMA ResolveStep ==
  ASSUME IInv, NEW c \in Cpus, Resolve(c)
  PROVE  IInv'
<1>1. run[c] \in Resolving
  BY PhaseByPc DEF IInv, TypeOK, Resolve
<1>2. CASE Goto(c, Idle)
  BY <1>2, IdlePhase, PhaseOnly DEF Resolve
<1>3. ASSUME NEW nat \in FirstNat(run[c].pkt),
             Goto(c, [pc |-> "insert", pkt |-> run[c].pkt, nat |-> nat,
                      timeout |-> now + TIMEOUT_NEW])
      PROVE  IInv'
  <2> DEFINE phase == [pc |-> "insert", pkt |-> run[c].pkt, nat |-> nat,
                       timeout |-> now + TIMEOUT_NEW]
  <2>1. run[c].pkt \in Packets
    BY <1>1 DEF Resolving
  <2>2. nat \in PossibleNat(run[c].pkt)
    BY <1>3 DEF FirstNat, PossibleNat, IInv, TypeOK
  <2>3. nat \in Nats
    BY <2>1, <2>2, BothHalvesAdmissible
  <2>4. phase \in Phases
    BY <2>1, <2>3, TimeAssumption DEF Phases, Inserting, IInv, TypeOK
  <2>5. phase.pc = "insert" /\ phase.nat \in PossibleNat(phase.pkt)
    BY <2>2
  <2>6. Goto(c, phase)
    BY <1>3
  <2> HIDE DEF phase
  <2> QED BY <2>4, <2>5, <2>6, PhaseOnly DEF Resolve
<1> QED BY <1>2, <1>3 DEF Resolve

\* AllAdmissible looks at the translations of the linked entries only.
LEMMA SameNats ==
  ASSUME AllAdmissible, Linked' \subseteq Linked,
         \A k \in Linked' : Entry(k)'.nat = Entry(k).nat
  PROVE  AllAdmissible'
BY DEF AllAdmissible, Admissible, Owners

\* A store through any pointer, dangling or not, leaves all translations alone.
LEMMA StoreStep ==
  ASSUME IInv, NEW c \in Cpus, Store(c)
  PROVE  IInv'
<1>1. run[c] \in Storing /\ run[c].pc = "store"
  BY PhaseByPc DEF IInv, TypeOK, Store
<1>2. run[c].slot \in Slots /\ cells[run[c].slot] \in FlowStates
  BY <1>1, Pointed
<1> DEFINE s == run[c].slot
           flag == cells[s].seen_reply \/ run[c].direction = "reply"
           phase == [pc |-> "reverse", pkt |-> run[c].pkt, slot |-> s,
                     nat |-> cells[s].nat]
<1>3. MapOK /\ s \in Slots /\ cells[s] # Vacant
  BY <1>2, UsedElement DEF IInv, TypeOK, MapOK
<1>4. flag \in BOOLEAN /\ run[c].timeout \in Nat
  BY <1>1, <1>2 DEF Storing, FlowStates
<1>5. Write(s, flag, run[c].timeout) /\ Goto(c, phase)
      /\ UNCHANGED <<now, index, exposed, gc>>
  BY DEF Store
<1>6. phase \in Phases /\ phase.pc = "reverse" /\ phase.slot = s
  BY <1>1, <1>2 DEF Phases, Reversing, Storing, FlowStates
<1> HIDE DEF flag, phase, s
<1>7. /\ MapOK'
      /\ Linked' = Linked
      /\ \A r \in Slots : cells[r] # Vacant => cells'[r] # Vacant
      /\ \A k \in Linked : Entry(k)'.nat = Entry(k).nat
  BY <1>3, <1>4, <1>5, WriteEffect
<1>8. RunOK'
  BY <1>3, <1>5, <1>6, <1>7, GotoOK DEF IInv, TypeOK, RunOK
<1>9. PendingInsert'
  BY <1>5, <1>6, GotoPending DEF IInv, TypeOK
<1>10. AllAdmissible'
  BY <1>7, SameNats DEF IInv
<1>11. TypeOK'
  BY <1>5, <1>7, <1>8 DEF IInv, TypeOK, MapOK, RunOK
<1> QED BY <1>9, <1>10, <1>11 DEF IInv

\* So does the copy into the other half.
LEMMA CopyToReverseStep ==
  ASSUME IInv, NEW c \in Cpus, CopyToReverse(c)
  PROVE  IInv'
<1>1. run[c] \in Copying /\ run[c].pc = "copy"
  BY PhaseByPc DEF IInv, TypeOK, CopyToReverse
<1>2. run[c].slot \in Slots /\ cells[run[c].slot] \in FlowStates
  BY <1>1, Pointed
<1>3. MapOK /\ cells[run[c].slot] # Vacant
  BY <1>2, UsedElement DEF IInv, TypeOK, MapOK
<1>4. run[c].seen_reply \in BOOLEAN /\ run[c].timeout \in Nat
  BY <1>1 DEF Copying
<1>5. Write(run[c].slot, run[c].seen_reply, run[c].timeout) /\ Goto(c, Idle)
      /\ UNCHANGED <<now, index, exposed, gc>>
  BY DEF CopyToReverse
<1>6. /\ MapOK'
      /\ Linked' = Linked
      /\ \A r \in Slots : cells[r] # Vacant => cells'[r] # Vacant
      /\ \A k \in Linked : Entry(k)'.nat = Entry(k).nat
  BY <1>2, <1>3, <1>4, <1>5, WriteEffect
<1>7. RunOK'
  BY <1>5, <1>6, IdlePhase, GotoOK DEF IInv, TypeOK, RunOK
<1>8. PendingInsert'
  BY <1>5, IdlePhase, GotoPending DEF IInv, TypeOK
<1>9. AllAdmissible'
  BY <1>6, SameNats DEF IInv
<1>10. TypeOK'
  BY <1>5, <1>6, <1>7 DEF IInv, TypeOK, MapOK, RunOK
<1> QED BY <1>8, <1>9, <1>10 DEF IInv

\* What the two inserts share: a typed and admissible entry, and a next phase
\* that keeps what is pending.
LEMMA InsertStep ==
  ASSUME IInv, NEW c \in Cpus, NEW k \in Keys, NEW state \in FlowStates,
         Admissible(k, state.nat), InsertNoExist(k, state),
         NEW phase \in Phases, Goto(c, phase),
         phase.pc \in {"idle", "insertReply"},
         phase.pc = "insertReply" => phase.nat \in PossibleNat(phase.pkt),
         UNCHANGED <<now, exposed, gc>>
  PROVE  IInv'
<1>1. MapOK
  BY DEF IInv, TypeOK, MapOK
<1>2. /\ MapOK'
      /\ Linked \subseteq Linked'
      /\ \A j \in Linked : Entry(j)' = Entry(j)
      /\ \A j \in Linked' \ Linked : j = k /\ Entry(j)' = state
      /\ \A s \in Slots : cells[s] # Vacant => cells'[s] # Vacant
  BY <1>1, InsertEffect
<1>3. RunOK'
  BY <1>2, GotoOK DEF IInv, TypeOK, RunOK
<1>4. PendingInsert'
  BY GotoPending DEF IInv, TypeOK
<1>5. AllAdmissible'
  <2> SUFFICES ASSUME NEW j \in Linked' PROVE Admissible(j, Entry(j)'.nat)
    BY DEF AllAdmissible, Admissible, Owners
  <2>1. CASE j \in Linked
    BY <1>2, <2>1 DEF IInv, AllAdmissible
  <2>2. CASE j \notin Linked
    BY <1>2, <2>2
  <2> QED BY <2>1, <2>2
<1>6. TypeOK'
  BY <1>2, <1>3 DEF IInv, TypeOK, MapOK, RunOK
<1> QED BY <1>4, <1>5, <1>6 DEF IInv

\* The handler that is about to insert holds a translation of its packet.
LEMMA InsertingState ==
  ASSUME IInv, NEW c \in Cpus, run[c].pc \in {"insert", "insertReply"}
  PROVE  /\ run[c] \in Inserting
         /\ run[c].pkt \in Packets
         /\ run[c].nat \in PossibleNat(run[c].pkt)
         /\ run[c].timeout \in Nat
<1>1. run[c] \in Inserting
  BY PhaseByPc DEF IInv, TypeOK
<1> QED BY <1>1 DEF Inserting, IInv, PendingInsert

\* What is inserted is a state of a flow.
LEMMA FlowStateType ==
  ASSUME NEW nat \in Nats, NEW direction \in Directions, NEW timeout \in Nat
  PROVE  /\ FlowState(nat, direction, timeout) \in FlowStates
         /\ FlowState(nat, direction, timeout).nat = nat
         /\ FlowState(nat, direction, timeout).direction = direction
         /\ FlowState(nat, direction, timeout).timeout = timeout
BY DEF FlowState, FlowStates

\* The first insert brings in an admissible translation.
LEMMA InsertOriginalStep ==
  ASSUME IInv, NEW c \in Cpus, InsertOriginal(c)
  PROVE  IInv'
<1>1. /\ run[c] \in Inserting /\ run[c].pkt \in Packets
      /\ run[c].nat \in PossibleNat(run[c].pkt) /\ run[c].timeout \in Nat
  BY InsertingState DEF InsertOriginal
<1>2. run[c].pkt.key \in Keys /\ run[c].nat \in Nats
      /\ Admissible(run[c].pkt.key, run[c].nat)
  BY <1>1, BothHalvesAdmissible
<1> DEFINE state == FlowState(run[c].nat, "original", run[c].timeout)
           phase == [run[c] EXCEPT !.pc = "insertReply"]
<1>3. state \in FlowStates /\ state.nat = run[c].nat
  BY <1>1, <1>2, FlowStateType DEF Directions
<1>4. phase \in Inserting /\ phase.pc = "insertReply"
      /\ phase.nat = run[c].nat /\ phase.pkt = run[c].pkt
  BY <1>1 DEF Inserting
<1>5. phase \in Phases
  BY <1>4 DEF Phases
<1>6. InsertNoExist(run[c].pkt.key, state) /\ Goto(c, phase)
      /\ UNCHANGED <<now, exposed, gc>>
  BY DEF InsertOriginal
<1> HIDE DEF state, phase
<1> QED BY <1>1, <1>2, <1>3, <1>4, <1>5, <1>6, InsertStep

\* And so does the second one.
LEMMA InsertReplyStep ==
  ASSUME IInv, NEW c \in Cpus, InsertReply(c)
  PROVE  IInv'
<1>1. /\ run[c].pkt \in Packets
      /\ run[c].nat \in PossibleNat(run[c].pkt) /\ run[c].timeout \in Nat
  BY InsertingState DEF InsertReply
<1> DEFINE k == ReverseKey(run[c].pkt, run[c].nat)
           state == FlowState(ReverseNat(run[c].pkt), "reply", run[c].timeout)
<1>2. k \in Keys /\ ReverseNat(run[c].pkt) \in Nats
      /\ Admissible(k, ReverseNat(run[c].pkt))
  BY <1>1, BothHalvesAdmissible
<1>3. state \in FlowStates /\ state.nat = ReverseNat(run[c].pkt)
  BY <1>1, <1>2, FlowStateType DEF Directions
<1>4. InsertNoExist(k, state) /\ Goto(c, Idle) /\ UNCHANGED <<now, exposed, gc>>
  BY DEF InsertReply
<1> HIDE DEF k, state
<1> QED BY <1>2, <1>3, <1>4, IdlePhase, InsertStep

\* Hence every step of a handler keeps the invariant.
LEMMA HandleStep ==
  ASSUME IInv, NEW c \in Cpus, Handle(c)
  PROVE  IInv'
BY LoadStep, StoreStep, LookupReverseStep, CopyToReverseStep, ResolveStep,
   InsertOriginalStep, InsertReplyStep DEF Handle

\* A step that touches neither the map nor the handlers.
LEMMA QuietStep ==
  ASSUME IInv, UNCHANGED <<index, cells, run>>,
         now' \in Nat, exposed' \subseteq Exposable, gc' \in Collector,
         gc'.unvisited \cup gc'.to_remove \subseteq Linked,
         gc'.phase # "scan" => gc'.unvisited = {}
  PROVE  IInv'
<1>1. Linked' = Linked /\ \A k \in Linked : Entry(k)' = Entry(k)
  BY DEF Linked, Entry
<1>2. TypeOK'
  BY <1>1 DEF IInv, TypeOK, Linked, Entry
<1>3. PendingInsert'
  BY DEF IInv, PendingInsert, PossibleNat
<1>4. AllAdmissible'
  BY <1>1, SameNats DEF IInv
<1> QED BY <1>2, <1>3, <1>4 DEF IInv

\* The collector forgets tuples and looks for no others.
LEMMA GcStep ==
  ASSUME IInv, Gc
  PROVE  IInv'
<1>1. gc \in Collector /\ gc.unvisited \cup gc.to_remove \subseteq Linked
      /\ (gc.phase # "scan" => gc.unvisited = {})
      /\ Linked \subseteq Keys /\ now \in Nat /\ exposed \subseteq Exposable
  BY DEF IInv, TypeOK
<1>2. CASE GcTick
  BY <1>1, <1>2, QuietStep DEF GcTick, Collector
<1>3. ASSUME NEW k \in Keys, GcVisit(k)
      PROVE  IInv'
  <2> DEFINE expired == {x \in {k} : Entry(x).timeout <= now}
  <2>1. gc' = [phase |-> "scan", unvisited |-> gc.unvisited \ {k},
               to_remove |-> gc.to_remove \cup expired]
    BY <1>3 DEF GcVisit
  <2>2. expired \subseteq {k} /\ k \in gc.unvisited
    BY <1>3 DEF GcVisit
  <2> HIDE DEF expired
  <2>3. gc' \in Collector /\ gc'.unvisited \cup gc'.to_remove \subseteq Linked
        /\ gc'.phase = "scan"
    BY <1>1, <2>1, <2>2 DEF Collector
  <2> QED BY <1>1, <1>3, <2>3, QuietStep DEF GcVisit
<1>4. CASE GcCollected
  BY <1>1, <1>4, QuietStep DEF GcCollected, Collector
<1>5. ASSUME NEW k \in Keys, GcRemove(k)
      PROVE  IInv'
  <2>1. MapOK /\ k \in Linked
    BY <1>1, <1>5 DEF GcRemove, IInv, TypeOK, MapOK
  <2>2. /\ MapOK'
        /\ Linked' = Linked \ {k}
        /\ \A j \in Linked' : Entry(j)' = Entry(j)
        /\ UNCHANGED <<cells, now, exposed, run>>
    BY <1>5, <2>1, RemoveEffect DEF GcRemove
  <2>3. gc' = [phase |-> gc.phase, unvisited |-> gc.unvisited,
               to_remove |-> gc.to_remove \ {k}]
    BY <1>1, <1>5 DEF GcRemove, Collector
  <2>4. gc' \in Collector /\ gc'.to_remove \subseteq Linked'
    BY <1>1, <2>2, <2>3 DEF Collector
  <2>5. gc'.unvisited \subseteq Linked' /\ (gc'.phase # "scan" => gc'.unvisited = {})
    BY <1>1, <1>5, <2>3 DEF GcRemove
  <2>6. AllAdmissible'
    BY <2>2, SameNats DEF IInv
  <2>7. PendingInsert'
    BY <2>2 DEF IInv, PendingInsert, PossibleNat
  <2>8. TypeOK'
    BY <2>2, <2>4, <2>5 DEF IInv, TypeOK, MapOK
  <2> QED BY <2>6, <2>7, <2>8 DEF IInv
<1>6. CASE GcDone
  BY <1>1, <1>6, QuietStep DEF GcDone, Collector
<1> QED BY <1>2, <1>3, <1>4, <1>5, <1>6 DEF Gc

\* The invariant is inductive.
LEMMA NextIInv == IInv /\ [Next]_vars => IInv'
<1> SUFFICES ASSUME IInv, [Next]_vars PROVE IInv'
  OBVIOUS
<1>1. /\ now \in Nat /\ exposed \subseteq Exposable /\ gc \in Collector
      /\ gc.unvisited \cup gc.to_remove \subseteq Linked
      /\ (gc.phase # "scan" => gc.unvisited = {})
  BY DEF IInv, TypeOK
<1>2. ASSUME NEW c \in Cpus, Handle(c) \/ \E pkt \in Packets : Receive(c, pkt)
      PROVE  IInv'
  BY <1>2, HandleStep, ReceiveStep
<1>3. CASE Gc
  BY <1>3, GcStep
<1>4. ASSUME NEW e \in Exposable, Expose(e) \/ Unexpose(e)
      PROVE  IInv'
  <2>1. exposed' \subseteq Exposable /\ UNCHANGED <<now, index, cells, run, gc>>
    BY <1>1, <1>4 DEF Expose, Unexpose
  <2> QED BY <1>1, <2>1, QuietStep
<1>5. CASE Tick
  <2>1. now' \in Nat /\ UNCHANGED <<index, cells, exposed, run, gc>>
    BY <1>1, <1>5 DEF Tick
  <2> QED BY <1>1, <2>1, QuietStep
<1>6. CASE UNCHANGED vars
  <2>1. UNCHANGED <<now, index, cells, exposed, run, gc>>
    BY <1>6 DEF vars
  <2> QED BY <1>1, <2>1, QuietStep
<1> QED BY <1>2, <1>3, <1>4, <1>5, <1>6 DEF Next

(***************************************************************************)
(* The state stays well typed: in particular a pointer a handler holds,    *)
(* dangling or not, is to an element that has been used, and what the      *)
(* collector is about to visit or remove is in the map.                    *)
(***************************************************************************)
THEOREM TypeCorrect == Spec => []TypeOK
<1>1. IInv => TypeOK
  BY DEF IInv
<1> QED BY InitIInv, NextIInv, <1>1, PTL DEF Spec
=============================================================================
