-------------------------- MODULE UdpConntrackFlows --------------------------
(***************************************************************************)
(* The two halves of a flow, while nothing expires: both get into the map  *)
(* whatever the first packets of all CPUs do to each other.                *)
(***************************************************************************)
EXTENDS UdpConntrackRefinement, Functions, FiniteSetTheorems

(***************************************************************************)
(* What a step of a handler does.                                          *)
(***************************************************************************)
\* A handler moves its own CPU only.
LEMMA OneHandlerMoves ==
  ASSUME IInv, NEW c \in Cpus, Handle(c)
  PROVE  \A d \in Cpus : d # c => run'[d] = run[d]
<1>1. ASSUME NEW phase, Goto(c, phase)
      PROVE  \A d \in Cpus : d # c => run'[d] = run[d]
  BY <1>1 DEF Goto, IInv, TypeOK
<1> QED BY <1>1 DEF Handle, Load, Store, LookupReverse, CopyToReverse, Resolve,
                    InsertOriginal, InsertReply

\* Where the step takes it, and the timeout it then holds (Load, LookupReverse,
\* Resolve and InsertOriginal are the steps that hold one).
LEMMA HandlerMoves ==
  ASSUME IInv, NEW c \in Cpus, Handle(c)
  PROVE  /\ run'[c].pc = "store" =>
              /\ run[c].pc = "load"
              /\ run'[c].timeout = ExpectedTimeout(cells[run[c].slot], run[c].time)
         /\ run'[c].pc = "copy" =>
              /\ run[c].pc = "reverse"
              /\ run'[c].timeout = cells[run[c].slot].timeout
         /\ run'[c].pc = "insert" => run'[c].timeout = now + TIMEOUT_NEW
         /\ run'[c].pc = "insertReply" =>
              /\ run[c].pc = "insert"
              /\ run'[c].pkt = run[c].pkt
              /\ run'[c].nat = run[c].nat
              /\ run'[c].timeout = run[c].timeout
         /\ run'[c].pc # "load"
<1>1. run[c] \in Phases
  BY DEF IInv, TypeOK
<1>2. ASSUME NEW phase, Goto(c, phase)
      PROVE  run'[c] = phase
  BY <1>2 DEF Goto, IInv, TypeOK
<1>3. CASE Load(c)
  <2>1. \/ run'[c] = Idle
        \/ run'[c] = [pc |-> "store", pkt |-> run[c].pkt, slot |-> run[c].slot,
                      direction |-> cells[run[c].slot].direction,
                      timeout |-> ExpectedTimeout(cells[run[c].slot], run[c].time)]
    BY <1>2, <1>3 DEF Load
  <2> QED BY <1>3, <2>1 DEF Load, Idle
<1>4. CASE Store(c)
  <2>1. run'[c].pc = "reverse"
    BY <1>2, <1>4 DEF Store
  <2> QED BY <2>1
<1>5. CASE LookupReverse(c)
  <2>1. \/ run'[c] = Idle
        \/ run'[c] = [pc |-> "copy", pkt |-> run[c].pkt,
                      key |-> ReverseKey(run[c].pkt, run[c].nat),
                      slot |-> index[ReverseKey(run[c].pkt, run[c].nat)],
                      seen_reply |-> cells[run[c].slot].seen_reply,
                      timeout |-> cells[run[c].slot].timeout]
    BY <1>2, <1>5 DEF LookupReverse
  <2> QED BY <1>5, <2>1 DEF LookupReverse, Idle
<1>6. CASE CopyToReverse(c) \/ InsertReply(c)
  <2>1. run'[c].pc = "idle"
    BY <1>2, <1>6 DEF CopyToReverse, InsertReply, Idle
  <2> QED BY <2>1
<1>7. CASE Resolve(c)
  <2>1. CASE Goto(c, Idle)
    BY <1>2, <2>1 DEF Idle
  <2>2. ASSUME NEW nat,
               Goto(c, [pc |-> "insert", pkt |-> run[c].pkt, nat |-> nat,
                        timeout |-> now + TIMEOUT_NEW])
        PROVE  run'[c].pc = "insert" /\ run'[c].timeout = now + TIMEOUT_NEW
    BY <1>2, <2>2
  <2> QED BY <1>7, <2>1, <2>2 DEF Resolve
<1>8. CASE InsertOriginal(c)
  <2>1. run[c] \in Inserting /\ run[c].pc = "insert"
    BY <1>8, InsertingState DEF InsertOriginal
  <2>2. run'[c] = [run[c] EXCEPT !.pc = "insertReply"]
    BY <1>2, <1>8 DEF InsertOriginal
  <2> QED BY <2>1, <2>2 DEF Inserting
<1> QED BY <1>3, <1>4, <1>5, <1>6, <1>7, <1>8 DEF Handle

\* What it leaves in the elements: a used element is as it was, or it has the
\* timeout the handler held.
LEMMA HandlerWrites ==
  ASSUME IInv, NEW c \in Cpus, Handle(c), NEW s \in Slots
  PROVE  \/ cells'[s] = cells[s]
         \/ /\ run[c].pc \in {"store", "copy", "insert", "insertReply"}
            /\ cells'[s].timeout = run[c].timeout
<1>1. MapOK /\ cells \in [Slots -> FlowStates \cup {Vacant}]
  BY DEF IInv, TypeOK, MapOK
<1>2. CASE Store(c) \/ CopyToReverse(c)
  <2>1. run[c].slot \in Slots /\ run[c].pc \in {"store", "copy"}
    BY <1>2, Pointed DEF Store, CopyToReverse
  <2>2. cells'[s] = cells[s] \/ cells'[s].timeout = run[c].timeout
    BY <1>1, <1>2, <2>1 DEF Store, CopyToReverse, Write
  <2> QED BY <2>1, <2>2
<1>3. CASE InsertOriginal(c)
  <2>1. /\ run[c].pkt \in Packets /\ run[c].nat \in PossibleNat(run[c].pkt)
        /\ run[c].timeout \in Nat /\ run[c].pc = "insert"
    BY <1>3, InsertingState DEF InsertOriginal
  <2>2. run[c].pkt.key \in Keys /\ run[c].nat \in Nats
    BY <2>1, BothHalvesAdmissible
  <2> DEFINE state == FlowState(run[c].nat, "original", run[c].timeout)
  <2>3. state \in FlowStates /\ state.timeout = run[c].timeout
    BY <2>1, <2>2, FlowStateType DEF Directions
  <2>4. InsertNoExist(run[c].pkt.key, state)
    BY <1>3 DEF InsertOriginal
  <2> HIDE DEF state
  <2>5. cells'[s] = cells[s] \/ cells'[s] = state
    BY <1>1, <2>2, <2>3, <2>4, InsertEffect
  <2> QED BY <2>1, <2>3, <2>5
<1>4. CASE InsertReply(c)
  <2>1. /\ run[c].pkt \in Packets /\ run[c].nat \in PossibleNat(run[c].pkt)
        /\ run[c].timeout \in Nat /\ run[c].pc = "insertReply"
    BY <1>4, InsertingState DEF InsertReply
  <2>2. ReverseKey(run[c].pkt, run[c].nat) \in Keys /\ ReverseNat(run[c].pkt) \in Nats
    BY <2>1, BothHalvesAdmissible
  <2> DEFINE state == FlowState(ReverseNat(run[c].pkt), "reply", run[c].timeout)
  <2>3. state \in FlowStates /\ state.timeout = run[c].timeout
    BY <2>1, <2>2, FlowStateType DEF Directions
  <2>4. InsertNoExist(ReverseKey(run[c].pkt, run[c].nat), state)
    BY <1>4 DEF InsertReply
  <2> HIDE DEF state
  <2>5. cells'[s] = cells[s] \/ cells'[s] = state
    BY <1>1, <2>2, <2>3, <2>4, InsertEffect
  <2> QED BY <2>1, <2>3, <2>5
<1>5. CASE Load(c) \/ LookupReverse(c) \/ Resolve(c)
  BY <1>5 DEF Load, LookupReverse, Resolve
<1> QED BY <1>2, <1>3, <1>4, <1>5 DEF Handle
-----------------------------------------------------------------------------
(***************************************************************************)
(* While nothing expires: every life given reaches beyond the last moment  *)
(* of the clock, so the collector finds nothing to remove.                 *)
(***************************************************************************)
NothingExpires == MaxNow < TIMEOUT_NEW

LastingCells == \A s \in Slots : cells[s] # Vacant => cells[s].timeout > MaxNow

LastingPhase(phase) ==
  phase.pc \in {"store", "copy", "insert", "insertReply"} => phase.timeout > MaxNow

Lasting ==
  /\ now <= MaxNow
  /\ LastingCells
  /\ \A c \in Cpus : LastingPhase(run[c])
  /\ gc.to_remove = {}

\* Every life a handler reads, computes or writes reaches that far (the timeouts
\* of Load and Resolve, the copy).
LEMMA HandleLasting ==
  ASSUME NothingExpires, IInv, Lasting, NEW c \in Cpus, Handle(c)
  PROVE  Lasting'
<1>1. /\ now \in Nat /\ run[c] \in Phases /\ UNCHANGED <<now, gc>>
      /\ cells \in [Slots -> FlowStates \cup {Vacant}]
  BY DEF IInv, TypeOK, Handle, Load, Store, LookupReverse, CopyToReverse,
         Resolve, InsertOriginal, InsertReply
<1>2. LastingPhase(run[c]) /\ LastingCells
  BY DEF Lasting
<1>3. LastingCells'
  <2> SUFFICES ASSUME NEW s \in Slots, cells'[s] # Vacant
               PROVE  cells'[s].timeout > MaxNow
    BY DEF LastingCells
  <2> QED BY <1>2, HandlerWrites DEF LastingCells, LastingPhase
<1>4. LastingPhase(run'[c])
  <2>1. CASE run'[c].pc = "store"
    <3>1. run[c].pc = "load"
          /\ run'[c].timeout = ExpectedTimeout(cells[run[c].slot], run[c].time)
      BY <2>1, HandlerMoves
    <3>2. run[c].time \in Nat
      BY <1>1, <3>1, PhaseByPc DEF Loading
    <3> QED BY <3>1, <3>2, TimeAssumption
            DEF NothingExpires, ExpectedTimeout, LastingPhase
  <2>2. CASE run'[c].pc = "copy"
    <3>1. run[c].pc = "reverse" /\ run'[c].timeout = cells[run[c].slot].timeout
      BY <2>2, HandlerMoves
    <3>2. run[c].slot \in Slots /\ cells[run[c].slot] # Vacant
      BY <3>1, Pointed, UsedElement
    <3> QED BY <1>2, <3>1, <3>2 DEF LastingCells, LastingPhase
  <2>3. CASE run'[c].pc = "insert"
    <3>1. run'[c].timeout = now + TIMEOUT_NEW
      BY <2>3, HandlerMoves
    <3> QED BY <1>1, <3>1, TimeAssumption DEF NothingExpires, LastingPhase
  <2>4. CASE run'[c].pc = "insertReply"
    BY <1>2, <2>4, HandlerMoves DEF LastingPhase
  <2> QED BY <2>1, <2>2, <2>3, <2>4 DEF LastingPhase
<1>5. \A d \in Cpus : LastingPhase(run'[d])
  BY <1>4, OneHandlerMoves DEF Lasting
<1> QED BY <1>1, <1>3, <1>5 DEF Lasting

\* Neither a handler, nor the collector, nor the clock gives or leaves a shorter one.
LEMMA NextLasting ==
  ASSUME NothingExpires
  PROVE  IInv /\ Lasting /\ [Next]_vars => Lasting'
<1> SUFFICES ASSUME IInv, Lasting, [Next]_vars PROVE Lasting'
  OBVIOUS
<1>1. ASSUME UNCHANGED <<now, cells, run>>, gc'.to_remove = {}
      PROVE  Lasting'
  BY <1>1 DEF Lasting, LastingCells, LastingPhase
<1>2. ASSUME NEW c \in Cpus, NEW pkt \in Packets, Receive(c, pkt)
      PROVE  Lasting'
  <2>1. run \in [Cpus -> Phases] /\ UNCHANGED <<now, cells, gc>>
    BY <1>2 DEF IInv, TypeOK, Receive
  <2>2. LastingPhase(run'[c])
    BY <1>2, <2>1 DEF Receive, Goto, LastingPhase
  <2>3. \A d \in Cpus : d # c => run'[d] = run[d]
    BY <1>2, <2>1 DEF Receive, Goto
  <2> QED BY <2>1, <2>2, <2>3 DEF Lasting, LastingCells
<1>3. ASSUME NEW k \in Keys, GcVisit(k)
      PROVE  Lasting'
  <2>1. k \in Linked /\ now \in Nat
    BY <1>3 DEF GcVisit, IInv, TypeOK
  <2>2. Entry(k) \in FlowStates /\ Entry(k).timeout > MaxNow /\ now <= MaxNow
    BY <2>1 DEF IInv, TypeOK, Lasting, LastingCells, Entry
  <2>3. ~ (Entry(k).timeout <= now)
    BY <2>1, <2>2, TimeAssumption DEF FlowStates
  <2>4. {x \in {k} : Entry(x).timeout <= now} = {}
    BY <2>3
  <2>5. gc'.to_remove = {} /\ UNCHANGED <<now, cells, run>>
    BY <1>3, <2>4 DEF GcVisit, Lasting
  <2> QED BY <1>1, <2>5
<1>4. CASE GcTick \/ GcCollected \/ GcDone
  <2>1. gc'.to_remove = {} /\ UNCHANGED <<now, cells, run>>
    BY <1>4 DEF GcTick, GcCollected, GcDone, Lasting, IInv, TypeOK, Collector
  <2> QED BY <1>1, <2>1
<1>5. ASSUME NEW k \in Keys, GcRemove(k)
      PROVE  FALSE
  BY <1>5 DEF GcRemove, Lasting
<1>6. CASE \E e \in Exposable : Expose(e) \/ Unexpose(e)
  BY <1>1, <1>6 DEF Expose, Unexpose, Lasting
<1>7. CASE Tick
  <2>1. now' <= MaxNow /\ UNCHANGED <<cells, run, gc>>
    BY <1>7, TimeAssumption DEF Tick, IInv, TypeOK
  <2> QED BY <2>1 DEF Lasting, LastingCells, LastingPhase
<1>8. CASE UNCHANGED vars
  BY <1>1, <1>8 DEF vars, Lasting
<1> QED BY <1>2, <1>3, <1>4, <1>5, <1>6, <1>7, <1>8, HandleLasting DEF Next, Gc

\* A process that has just started has given no life yet.
LEMMA NoFlowsLasting == NoFlows /\ now <= MaxNow => Lasting
<1> SUFFICES ASSUME NoFlows, now <= MaxNow PROVE Lasting
  OBVIOUS
<1>1. LastingCells /\ gc.to_remove = {}
  BY DEF NoFlows, LastingCells
<1>2. \A c \in Cpus : run[c].pc = "idle"
  BY DEF NoFlows, Idle
<1> QED BY <1>1, <1>2 DEF Lasting, LastingPhase

\* So it holds at the start.
LEMMA InitLasting == Init => Lasting
BY InitNoFlows, NoFlowsLasting, TimeAssumption

\* The collector only looks.
LEMMA NothingCollected ==
  ASSUME Lasting, Gc
  PROVE  UNCHANGED <<now, index, cells, exposed, run>>
BY DEF Lasting, Gc, GcTick, GcVisit, GcCollected, GcRemove, GcDone
-----------------------------------------------------------------------------
(***************************************************************************)
(* The two tuples of a flow.                                               *)
(***************************************************************************)
\* The tuple the other direction of a flow has, from the one and its translation.
OtherOf(k, nat) ==
  IF k \in InsideKeys
  THEN ConnectionTuple(k.dst_addr, nat.nat_addr, k.dst_port, nat.nat_port)
  ELSE ConnectionTuple(nat.nat_addr, k.src_addr, nat.nat_port, k.src_port)

Other(k) == OtherOf(k, Entry(k).nat)

\* It is the one the handler computes for the packet (ReverseKey).
LEMMA ReverseIsOther ==
  ASSUME NEW pkt \in Packets, NEW nat
  PROVE  ReverseKey(pkt, nat) = OtherOf(pkt.key, nat)
<1>1. CASE pkt.prog = "snat"
  <2>1. pkt.key \in InsideKeys
    BY <1>1, TrafficAssumption DEF Packets
  <2> QED BY <1>1, <2>1 DEF ReverseKey, OtherOf
<1>2. CASE pkt.prog = "dnat"
  <2>1. pkt.key \in OutsideKeys
    BY <1>2, TrafficAssumption DEF Packets
  <2>2. pkt.key \notin InsideKeys
    BY <2>1, AddressAssumption DEF InsideKeys, OutsideKeys
  <2> QED BY <1>2, <2>2 DEF ReverseKey, OtherOf
<1> QED BY <1>1, <1>2 DEF Packets

\* The tuples a first packet may bring into the map.
FlowKeys ==
  {k \in Keys : \E pkt \in Packets : \E nat \in PossibleNat(pkt) :
                  k \in {pkt.key, ReverseKey(pkt, nat)}}

\* There is an element for each of them.
Room ==
  /\ IsFiniteSet(Slots) /\ IsFiniteSet(FlowKeys)
  /\ Cardinality(FlowKeys) <= Cardinality(Slots)

\* So the map is not full while one of them is missing.
LEMMA RoomLeft ==
  ASSUME Room, IInv, Linked \subseteq FlowKeys, NEW k \in FlowKeys, k \notin Linked
  PROVE  FreeSlots # {}
<1> SUFFICES ASSUME FreeSlots = {} PROVE FALSE
  OBVIOUS
<1>1. index \in [Linked -> Slots]
  BY DEF IInv, TypeOK
<1>2. \A s \in Slots : \E j \in Linked : index[j] = s
  BY DEF FreeSlots
<1>3. index \in Surjection(Linked, Slots)
  BY <1>1, <1>2 DEF Surjection
<1>4. /\ IsFiniteSet(FlowKeys \ {k})
      /\ Cardinality(FlowKeys \ {k}) = Cardinality(FlowKeys) - 1
  BY FS_RemoveElement DEF Room
<1>5. Linked \in SUBSET (FlowKeys \ {k})
  OBVIOUS
<1>6. IsFiniteSet(Linked) /\ Cardinality(Linked) <= Cardinality(FlowKeys \ {k})
  BY <1>4, <1>5, FS_Subset
<1>7. Cardinality(Slots) <= Cardinality(Linked)
  BY <1>3, <1>6, FS_Surjection
<1>8. /\ Cardinality(Slots) \in Nat /\ Cardinality(FlowKeys) \in Nat
      /\ Cardinality(Linked) \in Nat
  BY <1>6, FS_CardinalityType DEF Room
<1> QED BY <1>4, <1>6, <1>7, <1>8 DEF Room
-----------------------------------------------------------------------------
(***************************************************************************)
(* Every flow gets both halves.  PairComplete speaks of the moments at     *)
(* which no handler runs; between the two inserts of a handler, the half   *)
(* that is missing is the one it is about to insert.  A handler whose own  *)
(* first insert fails, because another CPU was faster, does not matter.    *)
(***************************************************************************)
Coming(k) == \E c \in Cpus : /\ run[c].pc = "insertReply"
                             /\ ReverseKey(run[c].pkt, run[c].nat) = k

PairInv ==
  /\ Linked \subseteq FlowKeys
  /\ \A k \in Linked :
       Entry(k).direction = "original" => Other(k) \in Linked \/ Coming(Other(k))

\* A step that leaves the tuples, their translations and what is coming alone.
LEMMA SamePairs ==
  ASSUME PairInv, Linked' = Linked,
         \A k \in Linked : /\ Entry(k)'.nat = Entry(k).nat
                           /\ Entry(k)'.direction = Entry(k).direction,
         \A c \in Cpus : run[c].pc = "insertReply" => run'[c] = run[c]
  PROVE  PairInv'
<1>1. \A k \in Linked : Other(k)' = Other(k)
  BY DEF Other, OtherOf
<1>2. \A k : Coming(k) => Coming(k)'
  BY DEF Coming
<1>3. FlowKeys' = FlowKeys
  BY DEF FlowKeys, PossibleNat
<1> QED BY <1>1, <1>2, <1>3 DEF PairInv

\* The tuples a handler inserts are among FlowKeys.
LEMMA InsertedKeys ==
  ASSUME NEW pkt \in Packets, NEW nat \in PossibleNat(pkt)
  PROVE  pkt.key \in FlowKeys /\ ReverseKey(pkt, nat) \in FlowKeys
BY BothHalvesAdmissible DEF FlowKeys

\* The first insert, whether it succeeds or finds the tuple taken, leaves the
\* other half to the second one of some handler.
LEMMA InsertOriginalPairs ==
  ASSUME IInv, PairInv, NEW c \in Cpus, InsertOriginal(c)
  PROVE  PairInv'
<1>1. /\ run[c] \in Inserting /\ run[c].pkt \in Packets
      /\ run[c].nat \in PossibleNat(run[c].pkt)
      /\ run[c].timeout \in Nat /\ run[c].pc = "insert"
  BY InsertingState DEF InsertOriginal
<1>2. /\ run[c].pkt.key \in Keys /\ run[c].nat \in Nats
      /\ run[c].pkt.key \in FlowKeys
  BY <1>1, BothHalvesAdmissible, InsertedKeys
<1> DEFINE k == run[c].pkt.key
           state == FlowState(run[c].nat, "original", run[c].timeout)
<1>3. state \in FlowStates /\ state.nat = run[c].nat
  BY <1>1, <1>2, FlowStateType DEF Directions
<1>4. InsertNoExist(k, state)
  BY DEF InsertOriginal
<1>5. run'[c] = [run[c] EXCEPT !.pc = "insertReply"]
      /\ \A d \in Cpus : d # c => run'[d] = run[d]
  BY DEF InsertOriginal, Goto, IInv, TypeOK
<1>6. /\ run'[c].pc = "insertReply"
      /\ run'[c].pkt = run[c].pkt /\ run'[c].nat = run[c].nat
  BY <1>1, <1>5 DEF Inserting
<1>7. ReverseKey(run[c].pkt, run[c].nat) = OtherOf(k, state.nat)
  BY <1>1, <1>3, ReverseIsOther
<1> HIDE DEF k, state
<1>8. MapOK
  BY DEF IInv, TypeOK, MapOK
<1>9. /\ Linked \subseteq Linked'
      /\ \A j \in Linked : Entry(j)' = Entry(j)
      /\ \A j \in Linked' \ Linked : j = k /\ Entry(j)' = state
  BY <1>2, <1>3, <1>4, <1>8, InsertEffect DEF k
<1>10. \A j : Coming(j) => Coming(j)'
  BY <1>1, <1>5 DEF Coming
<1>11. \A j \in Linked : Other(j)' = Other(j)
  BY <1>9 DEF Other, OtherOf
<1>12. ReverseKey(run'[c].pkt, run'[c].nat) = OtherOf(k, state.nat)
  BY <1>6, <1>7
<1>13. FlowKeys' = FlowKeys
  BY DEF FlowKeys, PossibleNat
<1>14. Linked' \subseteq FlowKeys'
  BY <1>2, <1>9, <1>13 DEF PairInv, k
<1>15. ASSUME NEW j \in Linked', Entry(j)'.direction = "original"
       PROVE  Other(j)' \in Linked' \/ Coming(Other(j))'
  <2>1. CASE j \in Linked
    BY <1>9, <1>10, <1>11, <1>15, <2>1 DEF PairInv
  <2>2. CASE j \notin Linked
    <3>1. j = k /\ Entry(j)' = state
      BY <1>9, <2>2
    <3>2. Other(j)' = OtherOf(j, Entry(j)'.nat)
      BY DEF Other, OtherOf
    <3>3. ReverseKey(run'[c].pkt, run'[c].nat) = Other(j)'
      BY <1>12, <3>1, <3>2
    <3> QED BY <1>6, <3>3 DEF Coming, ReverseKey
  <2> QED BY <2>1, <2>2
<1> QED BY <1>14, <1>15 DEF PairInv

\* The second insert brings in the half that was missing, or finds it there.
LEMMA InsertReplyPairs ==
  ASSUME Room, IInv, PairInv, NEW c \in Cpus, InsertReply(c)
  PROVE  PairInv'
<1>1. /\ run[c].pkt \in Packets
      /\ run[c].nat \in PossibleNat(run[c].pkt)
      /\ run[c].timeout \in Nat /\ run[c].pc = "insertReply"
  BY InsertingState DEF InsertReply
<1> DEFINE k == ReverseKey(run[c].pkt, run[c].nat)
           state == FlowState(ReverseNat(run[c].pkt), "reply", run[c].timeout)
<1>2. k \in Keys /\ k \in FlowKeys /\ ReverseNat(run[c].pkt) \in Nats
  BY <1>1, BothHalvesAdmissible, InsertedKeys
<1>3. state \in FlowStates /\ state.direction = "reply"
  BY <1>1, <1>2, FlowStateType DEF Directions
<1>4. InsertNoExist(k, state)
  BY DEF InsertReply
<1>5. \A j : Coming(j) => j = k \/ Coming(j)'
  BY <1>1 DEF Coming, InsertReply, Goto, IInv, TypeOK, ReverseKey
<1> HIDE DEF k, state
<1>6. MapOK
  BY DEF IInv, TypeOK, MapOK
<1>7. /\ Linked \subseteq Linked'
      /\ \A j \in Linked : Entry(j)' = Entry(j)
      /\ \A j \in Linked' \ Linked : j = k /\ Entry(j)' = state
  BY <1>2, <1>3, <1>4, <1>6, InsertEffect
<1>8. k \in Linked'
  <2>1. CASE k \in Linked
    BY <1>7, <2>1
  <2>2. CASE k \notin Linked
    <3>1. FreeSlots # {}
      BY <1>2, <2>2, RoomLeft DEF PairInv
    <3> QED BY <1>4, <2>2, <3>1 DEF InsertNoExist, Linked
  <2> QED BY <2>1, <2>2
<1>9. \A j \in Linked : Other(j)' = Other(j)
  BY <1>7 DEF Other, OtherOf
<1>10. FlowKeys' = FlowKeys
  BY DEF FlowKeys, PossibleNat
<1>11. Linked' \subseteq FlowKeys'
  BY <1>2, <1>7, <1>10 DEF PairInv
<1>12. ASSUME NEW j \in Linked', Entry(j)'.direction = "original"
       PROVE  Other(j)' \in Linked' \/ Coming(Other(j))'
  <2>1. j \in Linked
    BY <1>3, <1>7, <1>12
  <2>2. Other(j) \in Linked \/ Coming(Other(j))
    BY <1>7, <1>12, <2>1 DEF PairInv
  <2> QED BY <1>5, <1>7, <1>8, <1>9, <2>1, <2>2
<1> QED BY <1>11, <1>12 DEF PairInv

\* A handler's writes leave tuples, translations and directions as they are.
LEMMA WritesKeepFlows ==
  ASSUME IInv, NEW c \in Cpus, Store(c) \/ CopyToReverse(c)
  PROVE  /\ Linked' = Linked
         /\ \A k \in Linked : /\ Entry(k)'.nat = Entry(k).nat
                               /\ Entry(k)'.direction = Entry(k).direction
<1>1. MapOK
  BY DEF IInv, TypeOK, MapOK
<1>2. run[c].slot \in Slots /\ cells[run[c].slot] # Vacant
      /\ cells[run[c].slot] \in FlowStates
  BY Pointed, UsedElement DEF Store, CopyToReverse
<1>3. run[c] \in Phases
  BY DEF IInv, TypeOK
<1>4. CASE Store(c)
  <2>1. run[c].timeout \in Nat
    BY <1>3, <1>4, PhaseByPc DEF Store, Storing
  <2> DEFINE flag == cells[run[c].slot].seen_reply \/ run[c].direction = "reply"
  <2>2. flag \in BOOLEAN
    OBVIOUS
  <2>3. Write(run[c].slot, flag, run[c].timeout) /\ UNCHANGED index
    BY <1>4 DEF Store
  <2> HIDE DEF flag
  <2> QED BY <1>1, <1>2, <2>1, <2>2, <2>3, WriteEffect
<1>5. CASE CopyToReverse(c)
  <2>1. run[c].timeout \in Nat /\ run[c].seen_reply \in BOOLEAN
    BY <1>3, <1>5, PhaseByPc DEF CopyToReverse, Copying
  <2>2. Write(run[c].slot, run[c].seen_reply, run[c].timeout) /\ UNCHANGED index
    BY <1>5 DEF CopyToReverse
  <2> QED BY <1>1, <1>2, <2>1, <2>2, WriteEffect
<1> QED BY <1>4, <1>5

\* No step of any CPU, of the collector or of the control plane leaves a half alone
\* for which no insert is to come.
LEMMA NextPairInv ==
  ASSUME Room
  PROVE  IInv /\ Lasting /\ PairInv /\ [Next]_vars => PairInv'
<1> SUFFICES ASSUME IInv, Lasting, PairInv, [Next]_vars PROVE PairInv'
  OBVIOUS
<1>1. ASSUME UNCHANGED <<index, cells>>,
             \A c \in Cpus : run[c].pc = "insertReply" => run'[c] = run[c]
      PROVE  PairInv'
  BY <1>1, SamePairs DEF Linked, Entry
<1>2. ASSUME NEW c \in Cpus, Handle(c)
      PROVE  PairInv'
  <2>1. \A d \in Cpus : d # c => run'[d] = run[d]
    BY <1>2, OneHandlerMoves
  <2>2. CASE Load(c) \/ LookupReverse(c) \/ Resolve(c)
    BY <1>1, <2>1, <2>2 DEF Load, LookupReverse, Resolve
  <2>3. CASE Store(c) \/ CopyToReverse(c)
    <3>1. \A d \in Cpus : run[d].pc = "insertReply" => run'[d] = run[d]
      BY <2>1, <2>3 DEF Store, CopyToReverse
    <3> QED BY <2>3, <3>1, WritesKeepFlows, SamePairs
  <2> QED BY <1>2, <2>2, <2>3, InsertOriginalPairs, InsertReplyPairs DEF Handle
<1>3. ASSUME NEW c \in Cpus, NEW pkt \in Packets, Receive(c, pkt)
      PROVE  PairInv'
  BY <1>1, <1>3 DEF Receive, Goto, IInv, TypeOK
<1>4. CASE Gc
  BY <1>1, <1>4, NothingCollected
<1>5. CASE \E e \in Exposable : Expose(e) \/ Unexpose(e)
  BY <1>1, <1>5 DEF Expose, Unexpose
<1>6. CASE Tick \/ UNCHANGED vars
  BY <1>1, <1>6 DEF Tick, vars
<1> QED BY <1>2, <1>3, <1>4, <1>5, <1>6 DEF Next

\* An empty map has no half.
LEMMA NoFlowsPairInv == NoFlows => PairInv
BY DEF NoFlows, PairInv, Linked

\* When no handler runs no insert is to come.
LEMMA PairInvWhole == PairInv => PairComplete
BY DEF PairInv, PairComplete, Coming, Other, OtherOf, AnswerTo, ResponseTo

(***************************************************************************)
(* As long as nothing expires and the map has room, no race of first       *)
(* packets on any number of CPUs leaves a flow with the half it was opened *)
(* by alone (the two inserts of process_udp_snat and process_udp_dnat and  *)
(* their discarded results).                                               *)
(***************************************************************************)
THEOREM FlowsAreWhole ==
  ASSUME NothingExpires, Room
  PROVE  Spec => []PairComplete
<1>1. Init => PairInv
  BY InitNoFlows, NoFlowsPairInv
<1> QED BY InitIInv, NextIInv, InitLasting, NextLasting, NextPairInv, PairInvWhole,
           <1>1, PTL DEF Spec
=============================================================================
