----------------------- MODULE UdpConntrackRefinement -----------------------
(***************************************************************************)
(* UdpConntrack implements NatTable, and no entry is given more life than  *)
(* TIMEOUT_EST.  Both rest on the inductive invariant of                   *)
(* UdpConntrackProofs.                                                     *)
(***************************************************************************)
EXTENDS UdpConntrackProofs

\* The table is the same when the tuples, their translations and their
\* directions are.
LEMMA SameTable ==
  ASSUME Linked' = Linked,
         \A k \in Linked : /\ Entry(k)'.nat = Entry(k).nat
                           /\ Entry(k)'.direction = Entry(k).direction
  PROVE  InForce' = InForce
<1>1. \A k \in Linked : Binding(k)' = Binding(k)
  BY DEF Binding
<1> QED BY <1>1 DEF InForce

\* A record the abstract table may hold.
LEMMA BindingAdmissible ==
  ASSUME NEW k \in Keys, NEW state \in FlowStates, Admissible(k, state.nat)
  PROVE  [key |-> k, nat |-> state.nat, direction |-> state.direction]
           \in AllBindings
BY DEF AllBindings, FlowStates

\* An insert establishes its binding or changes nothing.
LEMMA InsertRefines ==
  ASSUME IInv, IInv', NEW k \in Keys, NEW state \in FlowStates,
         InsertNoExist(k, state)
  PROVE  Table!Next \/ UNCHANGED InForce
<1>1. MapOK
  BY DEF IInv, TypeOK, MapOK
<1>2. /\ Linked \subseteq Linked'
      /\ \A j \in Linked : Entry(j)' = Entry(j)
      /\ \A j \in Linked' \ Linked : j = k
  BY <1>1, InsertEffect
<1>3. CASE Linked' = Linked
  BY <1>2, <1>3, SameTable
<1>4. CASE Linked' # Linked
  <2>1. k \in Linked' /\ k \notin Linked /\ Linked' = Linked \cup {k}
    BY <1>2, <1>4
  <2>2. Binding(k)' \in AllBindings
    <3>1. Entry(k)' \in FlowStates
      BY <2>1 DEF IInv, TypeOK, Entry
    <3>2. Admissible(k, Entry(k)'.nat)
      BY <2>1 DEF IInv, AllAdmissible, Admissible, Owners
    <3> QED BY <3>1, <3>2, BindingAdmissible DEF Binding
  <2>3. \A j \in Linked : Binding(j)' = Binding(j) /\ Binding(j).key = j
    BY <1>2 DEF Binding
  <2>4. InForce' = InForce \cup {Binding(k)'}
    BY <2>1, <2>3 DEF InForce
  <2>5. Binding(k)'.key = k
    BY DEF Binding
  <2>6. \A other \in InForce : other.key # Binding(k)'.key
    BY <2>1, <2>3, <2>5 DEF InForce
  <2> QED BY <2>2, <2>4, <2>6 DEF Table!Next, Table!Establish
<1> QED BY <1>3, <1>4

\* A write through a pointer, dangling or not, is invisible in the table.
LEMMA WriteRefines ==
  ASSUME IInv, NEW c \in Cpus, Store(c) \/ CopyToReverse(c)
  PROVE  UNCHANGED InForce
<1>1. MapOK
  BY DEF IInv, TypeOK, MapOK
<1>2. run[c] \in Storing \cup Copying
  BY PhaseByPc DEF IInv, TypeOK, Store, CopyToReverse
<1>3. run[c].slot \in Slots /\ cells[run[c].slot] \in FlowStates
  BY Pointed DEF Store, CopyToReverse
<1>4. cells[run[c].slot] # Vacant
  BY <1>3, UsedElement
<1>5. \E flag \in BOOLEAN, timeout \in Nat : Write(run[c].slot, flag, timeout)
  <2>1. CASE Store(c)
    <3>1. run[c] \in Storing
      BY <2>1, PhaseByPc DEF IInv, TypeOK, Store
    <3>2. (cells[run[c].slot].seen_reply \/ run[c].direction = "reply") \in BOOLEAN
      OBVIOUS
    <3> QED BY <2>1, <3>1, <3>2 DEF Store, Storing
  <2>2. CASE CopyToReverse(c)
    <3>1. run[c] \in Copying
      BY <2>2, PhaseByPc DEF IInv, TypeOK, CopyToReverse
    <3> QED BY <2>2, <3>1 DEF CopyToReverse, Copying
  <2> QED BY <2>1, <2>2
<1>6. UNCHANGED index
  BY DEF Store, CopyToReverse
<1>7. /\ Linked' = Linked
      /\ \A k \in Linked : /\ Entry(k)'.nat = Entry(k).nat
                           /\ Entry(k)'.direction = Entry(k).direction
  BY <1>1, <1>3, <1>4, <1>5, <1>6, WriteEffect
<1> QED BY <1>7, SameTable

\* A removal forgets one binding.
LEMMA RemoveRefines ==
  ASSUME IInv, IInv', NEW k \in Linked, Remove(k)
  PROVE  Table!Next
<1>1. MapOK
  BY DEF IInv, TypeOK, MapOK
<1>2. Linked' = Linked \ {k} /\ \A j \in Linked' : Entry(j)' = Entry(j)
  BY <1>1, RemoveEffect
<1>3. \A j \in Linked' : Binding(j)' = Binding(j)
  BY <1>2 DEF Binding
<1>4. \A j \in Linked : Binding(j).key = j
  BY DEF Binding
<1>5. InForce' = InForce \ {Binding(k)}
  BY <1>2, <1>3, <1>4 DEF InForce
<1>6. Binding(k) \in AllBindings
  <2>1. k \in Keys /\ Entry(k) \in FlowStates /\ Admissible(k, Entry(k).nat)
    BY DEF IInv, TypeOK, AllAdmissible, Entry
  <2> QED BY <2>1, BindingAdmissible DEF Binding
<1>7. Binding(k) \in InForce
  BY DEF InForce
<1> QED BY <1>5, <1>6, <1>7 DEF Table!Next, Table!Forget

\* Every step of the tracker is one of the table, or leaves the bindings alone.
LEMMA StepRefines == IInv /\ IInv' /\ [Next]_vars => [Table!Next]_InForce
<1> SUFFICES ASSUME IInv, IInv', [Next]_vars
             PROVE  Table!Next \/ UNCHANGED InForce
  OBVIOUS
<1>1. ASSUME UNCHANGED <<index, cells>>
      PROVE  UNCHANGED InForce
  BY <1>1 DEF InForce, Binding, Linked, Entry
<1>2. ASSUME NEW c \in Cpus, Handle(c)
      PROVE  Table!Next \/ UNCHANGED InForce
  <2>1. CASE InsertOriginal(c)
    <3>1. /\ run[c].pkt \in Packets /\ run[c].nat \in PossibleNat(run[c].pkt)
          /\ run[c].timeout \in Nat
      BY <2>1, InsertingState DEF InsertOriginal
    <3>2. run[c].pkt.key \in Keys /\ run[c].nat \in Nats
      BY <3>1, BothHalvesAdmissible
    <3>3. FlowState(run[c].nat, "original", run[c].timeout) \in FlowStates
      BY <3>1, <3>2, FlowStateType DEF Directions
    <3> QED BY <2>1, <3>2, <3>3, InsertRefines DEF InsertOriginal
  <2>2. CASE InsertReply(c)
    <3>1. /\ run[c].pkt \in Packets /\ run[c].nat \in PossibleNat(run[c].pkt)
          /\ run[c].timeout \in Nat
      BY <2>2, InsertingState DEF InsertReply
    <3>2. /\ ReverseKey(run[c].pkt, run[c].nat) \in Keys
          /\ ReverseNat(run[c].pkt) \in Nats
      BY <3>1, BothHalvesAdmissible
    <3>3. FlowState(ReverseNat(run[c].pkt), "reply", run[c].timeout) \in FlowStates
      BY <3>1, <3>2, FlowStateType DEF Directions
    <3> QED BY <2>2, <3>2, <3>3, InsertRefines DEF InsertReply
  <2>3. CASE Store(c) \/ CopyToReverse(c)
    BY <2>3, WriteRefines
  <2>4. CASE Load(c) \/ LookupReverse(c) \/ Resolve(c)
    BY <1>1, <2>4 DEF Load, LookupReverse, Resolve
  <2> QED BY <1>2, <2>1, <2>2, <2>3, <2>4 DEF Handle
<1>3. ASSUME NEW c \in Cpus, NEW pkt \in Packets, Receive(c, pkt)
      PROVE  UNCHANGED InForce
  BY <1>1, <1>3 DEF Receive
<1>4. ASSUME NEW k \in Keys, GcRemove(k)
      PROVE  Table!Next
  BY <1>4, RemoveRefines DEF GcRemove, IInv, TypeOK
<1>5. CASE GcTick \/ (\E k \in Keys : GcVisit(k)) \/ GcCollected \/ GcDone
  BY <1>1, <1>5 DEF GcTick, GcVisit, GcCollected, GcDone
<1>6. CASE \E e \in Exposable : Expose(e) \/ Unexpose(e)
  BY <1>1, <1>6 DEF Expose, Unexpose
<1>7. CASE Tick \/ UNCHANGED vars
  BY <1>1, <1>7 DEF Tick, vars
<1> QED BY <1>2, <1>3, <1>4, <1>5, <1>6, <1>7 DEF Next, Gc

(***************************************************************************)
(* The tracker implements the abstract table: from an empty map, a tuple   *)
(* gets a translation only while it has none (BPF_NOEXIST), it is an       *)
(* admissible one, and no refresh, whichever element it ends up writing,   *)
(* changes what a tuple translates to.                                     *)
(***************************************************************************)
THEOREM Refinement == Spec => TableSpec
<1>1. Init => Table!Init
  BY DEF Init, Table!Init, InForce, Linked
<1> QED BY <1>1, InitIInv, NextIInv, StepRefines, PTL
        DEF Spec, TableSpec, Table!Spec
-----------------------------------------------------------------------------
(***************************************************************************)
(* Time.  The bound has to hold of the elements no bucket names as well,   *)
(* since a handler may still copy a timeout out of one, and of every time  *)
(* a handler has computed and not yet written.                             *)
(***************************************************************************)
CellsInTime == \A s \in Slots : cells[s] # Vacant
                                 => cells[s].timeout <= now + TIMEOUT_EST

PhaseInTime(phase, time) ==
  /\ phase.pc = "load" => phase.time <= time
  /\ phase.pc \in {"store", "copy", "insert", "insertReply"}
       => phase.timeout <= time + TIMEOUT_EST

TimeInv == CellsInTime /\ \A c \in Cpus : PhaseInTime(run[c], now)

\* The entry a first packet inserts.
LEMMA InsertInTime ==
  ASSUME IInv, CellsInTime, NEW k \in Keys, NEW state \in FlowStates,
         state.timeout <= now + TIMEOUT_EST, InsertNoExist(k, state), UNCHANGED now
  PROVE  CellsInTime'
<1>1. MapOK
  BY DEF IInv, TypeOK, MapOK
<1>2. \A s \in Slots : cells'[s] = cells[s] \/ cells'[s] = state
  BY <1>1, InsertEffect
<1> QED BY <1>2 DEF CellsInTime

\* A write of a timeout that is itself in time.
LEMMA WriteInTime ==
  ASSUME IInv, CellsInTime, NEW c \in Cpus, Store(c) \/ CopyToReverse(c),
         run[c].timeout <= now + TIMEOUT_EST
  PROVE  CellsInTime'
<1>1. /\ run[c].slot \in Slots /\ cells[run[c].slot] # Vacant
      /\ cells \in [Slots -> FlowStates \cup {Vacant}]
  BY Pointed, UsedElement DEF Store, CopyToReverse, IInv, TypeOK
<1>2. \A s \in Slots : cells'[s] = cells[s] \/ cells'[s].timeout = run[c].timeout
  BY <1>1 DEF Store, CopyToReverse, Write
<1>3. UNCHANGED now
  BY DEF Store, CopyToReverse
<1>4. \A s \in Slots : s # run[c].slot => cells'[s] = cells[s]
  BY <1>1 DEF Store, CopyToReverse, Write
<1> QED BY <1>1, <1>2, <1>3, <1>4 DEF CellsInTime

\* No handler writes or holds a time further ahead, late as its reading may be.
LEMMA HandleInTime ==
  ASSUME IInv, TimeInv, NEW c \in Cpus, Handle(c)
  PROVE  TimeInv'
<1>1. /\ now \in Nat /\ run \in [Cpus -> Phases]
      /\ PhaseInTime(run[c], now) /\ CellsInTime
      /\ UNCHANGED now
  BY DEF IInv, TypeOK, TimeInv, Handle, Load, Store, LookupReverse,
         CopyToReverse, Resolve, InsertOriginal, InsertReply
<1>2. ASSUME NEW phase, Goto(c, phase), PhaseInTime(phase, now)
      PROVE  \A d \in Cpus : PhaseInTime(run'[d], now')
  <2>1. \A d \in Cpus : run'[d] = IF d = c THEN phase ELSE run[d]
    BY <1>1, <1>2 DEF Goto
  <2> QED BY <1>1, <1>2, <2>1 DEF TimeInv
<1>3. PhaseInTime(Idle, now)
  BY DEF PhaseInTime, Idle
<1>4. CASE Load(c)
  <2>1. run[c] \in Loading /\ cells[run[c].slot] \in FlowStates
    BY <1>1, <1>4, PhaseByPc, Pointed DEF Load
  <2>2. /\ run[c].time \in Nat /\ run[c].time <= now
        /\ ExpectedTimeout(cells[run[c].slot], run[c].time) \in Nat
        /\ ExpectedTimeout(cells[run[c].slot], run[c].time)
             <= run[c].time + TIMEOUT_EST
    BY <1>1, <1>4, <2>1, ExpectedTimeoutType DEF PhaseInTime, Load, Loading
  <2>3. ExpectedTimeout(cells[run[c].slot], run[c].time) <= now + TIMEOUT_EST
    BY <1>1, <2>2, TimeAssumption
  <2>4. \A d \in Cpus : PhaseInTime(run'[d], now')
    <3>1. CASE Goto(c, Idle)
      BY <1>2, <1>3, <3>1
    <3>2. CASE ~ Goto(c, Idle)
      <4> DEFINE phase == [pc |-> "store", pkt |-> run[c].pkt,
                           slot |-> run[c].slot,
                           direction |-> cells[run[c].slot].direction,
                           timeout |-> ExpectedTimeout(cells[run[c].slot],
                                                       run[c].time)]
      <4>1. Goto(c, phase)
        BY <1>4, <3>2 DEF Load
      <4>2. PhaseInTime(phase, now)
        BY <2>3 DEF PhaseInTime
      <4> HIDE DEF phase
      <4> QED BY <1>2, <4>1, <4>2
    <3> QED BY <3>1, <3>2
  <2>5. CellsInTime'
    BY <1>1, <1>4 DEF Load, CellsInTime
  <2> QED BY <2>4, <2>5 DEF TimeInv
<1>5. CASE Store(c)
  <2> DEFINE phase == [pc |-> "reverse", pkt |-> run[c].pkt,
                       slot |-> run[c].slot, nat |-> cells[run[c].slot].nat]
  <2>1. Goto(c, phase) /\ PhaseInTime(phase, now)
    BY <1>5 DEF Store, PhaseInTime
  <2> HIDE DEF phase
  <2>2. CellsInTime'
    BY <1>1, <1>5, WriteInTime DEF PhaseInTime, Store
  <2> QED BY <1>2, <2>1, <2>2 DEF TimeInv
<1>6. CASE LookupReverse(c)
  <2>1. cells[run[c].slot].timeout <= now + TIMEOUT_EST
    BY <1>1, <1>6, Pointed, UsedElement DEF LookupReverse, CellsInTime
  <2>2. \A d \in Cpus : PhaseInTime(run'[d], now')
    <3>1. CASE Goto(c, Idle)
      BY <1>2, <1>3, <3>1
    <3>2. CASE ~ Goto(c, Idle)
      <4> DEFINE phase == [pc |-> "copy", pkt |-> run[c].pkt,
                           key |-> ReverseKey(run[c].pkt, run[c].nat),
                           slot |-> index[ReverseKey(run[c].pkt, run[c].nat)],
                           seen_reply |-> cells[run[c].slot].seen_reply,
                           timeout |-> cells[run[c].slot].timeout]
      <4>1. Goto(c, phase)
        BY <1>6, <3>2 DEF LookupReverse
      <4>2. PhaseInTime(phase, now)
        BY <2>1 DEF PhaseInTime
      <4> HIDE DEF phase
      <4> QED BY <1>2, <4>1, <4>2
    <3> QED BY <3>1, <3>2
  <2>3. CellsInTime'
    BY <1>1, <1>6 DEF LookupReverse, CellsInTime
  <2> QED BY <2>2, <2>3 DEF TimeInv
<1>7. CASE CopyToReverse(c)
  <2>1. CellsInTime'
    BY <1>1, <1>7, WriteInTime DEF PhaseInTime, CopyToReverse
  <2>2. Goto(c, Idle)
    BY <1>7 DEF CopyToReverse
  <2> QED BY <1>2, <1>3, <2>1, <2>2 DEF TimeInv
<1>8. CASE Resolve(c)
  <2>1. ASSUME NEW nat,
               Goto(c, [pc |-> "insert", pkt |-> run[c].pkt, nat |-> nat,
                        timeout |-> now + TIMEOUT_NEW])
        PROVE  \A d \in Cpus : PhaseInTime(run'[d], now')
    <3> DEFINE phase == [pc |-> "insert", pkt |-> run[c].pkt, nat |-> nat,
                         timeout |-> now + TIMEOUT_NEW]
    <3>1. PhaseInTime(phase, now)
      BY <1>1, TimeAssumption DEF PhaseInTime
    <3>2. Goto(c, phase)
      BY <2>1
    <3> HIDE DEF phase
    <3> QED BY <1>2, <3>1, <3>2
  <2>2. CellsInTime'
    BY <1>1, <1>8 DEF Resolve, CellsInTime
  <2> QED BY <1>2, <1>3, <1>8, <2>1, <2>2 DEF TimeInv, Resolve
<1>9. CASE InsertOriginal(c)
  <2>1. /\ run[c] \in Inserting /\ run[c].pkt \in Packets
        /\ run[c].nat \in PossibleNat(run[c].pkt) /\ run[c].timeout \in Nat
    BY <1>9, InsertingState DEF InsertOriginal
  <2>2. run[c].pkt.key \in Keys /\ run[c].nat \in Nats
    BY <2>1, BothHalvesAdmissible
  <2>3. /\ FlowState(run[c].nat, "original", run[c].timeout) \in FlowStates
        /\ FlowState(run[c].nat, "original", run[c].timeout).timeout = run[c].timeout
    BY <2>1, <2>2, FlowStateType DEF Directions
  <2>4. run[c].timeout <= now + TIMEOUT_EST
    BY <1>1, <1>9 DEF PhaseInTime, InsertOriginal
  <2>5. CellsInTime'
    BY <1>1, <1>9, <2>2, <2>3, <2>4, InsertInTime DEF InsertOriginal
  <2> DEFINE phase == [run[c] EXCEPT !.pc = "insertReply"]
  <2>6. Goto(c, phase)
    BY <1>9 DEF InsertOriginal
  <2>7. phase.pc = "insertReply" /\ phase.timeout = run[c].timeout
    BY <2>1 DEF Inserting
  <2> HIDE DEF phase
  <2>8. PhaseInTime(phase, now)
    BY <2>4, <2>7 DEF PhaseInTime
  <2> QED BY <1>2, <2>5, <2>6, <2>8 DEF TimeInv
<1>10. CASE InsertReply(c)
  <2>1. /\ run[c].pkt \in Packets
        /\ run[c].nat \in PossibleNat(run[c].pkt) /\ run[c].timeout \in Nat
    BY <1>10, InsertingState DEF InsertReply
  <2>2. /\ ReverseKey(run[c].pkt, run[c].nat) \in Keys
        /\ ReverseNat(run[c].pkt) \in Nats
    BY <2>1, BothHalvesAdmissible
  <2>3. /\ FlowState(ReverseNat(run[c].pkt), "reply", run[c].timeout) \in FlowStates
        /\ FlowState(ReverseNat(run[c].pkt), "reply", run[c].timeout).timeout
             = run[c].timeout
    BY <2>1, <2>2, FlowStateType DEF Directions
  <2>4. run[c].timeout <= now + TIMEOUT_EST
    BY <1>1, <1>10 DEF PhaseInTime, InsertReply
  <2>5. CellsInTime'
    BY <1>1, <1>10, <2>2, <2>3, <2>4, InsertInTime DEF InsertReply
  <2>6. Goto(c, Idle)
    BY <1>10 DEF InsertReply
  <2> QED BY <1>2, <1>3, <2>5, <2>6 DEF TimeInv
<1> QED BY <1>4, <1>5, <1>6, <1>7, <1>8, <1>9, <1>10 DEF Handle

\* Nor does any other step, and the clock only brings the bound closer.
LEMMA NextTimeInv == IInv /\ TimeInv /\ [Next]_vars => TimeInv'
<1> SUFFICES ASSUME IInv, TimeInv, [Next]_vars PROVE TimeInv'
  OBVIOUS
<1>1. ASSUME UNCHANGED <<cells, run, now>>
      PROVE  TimeInv'
  BY <1>1 DEF TimeInv, CellsInTime, PhaseInTime
<1>2. ASSUME NEW c \in Cpus, NEW pkt \in Packets, Receive(c, pkt)
      PROVE  TimeInv'
  <2>1. now \in Nat /\ run \in [Cpus -> Phases] /\ UNCHANGED <<now, cells>>
    BY <1>2 DEF IInv, TypeOK, Receive
  <2>2. PhaseInTime(run'[c], now)
    BY <1>2, <2>1 DEF Receive, Goto, PhaseInTime
  <2>3. \A d \in Cpus : d # c => run'[d] = run[d]
    BY <1>2, <2>1 DEF Receive, Goto
  <2> QED BY <2>1, <2>2, <2>3 DEF TimeInv, CellsInTime
<1>3. CASE Gc
  BY <1>1, <1>3 DEF Gc, GcTick, GcVisit, GcCollected, GcRemove, GcDone, Remove
<1>4. CASE \E e \in Exposable : Expose(e) \/ Unexpose(e)
  BY <1>1, <1>4 DEF Expose, Unexpose
<1>5. CASE Tick
  <2>1. now \in Nat /\ now' = now + 1 /\ UNCHANGED <<cells, run>>
    BY <1>5 DEF Tick, IInv, TypeOK
  <2>2. CellsInTime'
    <3>1. SUFFICES ASSUME NEW s \in Slots, cells[s] # Vacant
                   PROVE  cells[s].timeout <= now + 1 + TIMEOUT_EST
      BY <2>1 DEF CellsInTime
    <3>2. cells[s].timeout \in Nat /\ cells[s].timeout <= now + TIMEOUT_EST
      BY <3>1 DEF TimeInv, CellsInTime, IInv, TypeOK, FlowStates
    <3> QED BY <2>1, <3>2, TimeAssumption
  <2>3. ASSUME NEW c \in Cpus
        PROVE  PhaseInTime(run[c], now + 1)
    <3>1. run[c] \in Phases /\ PhaseInTime(run[c], now)
      BY DEF IInv, TypeOK, TimeInv
    <3>2. CASE run[c].pc = "load"
      <4>1. run[c].time \in Nat
        BY <3>1, <3>2, PhaseByPc DEF Loading
      <4> QED BY <2>1, <3>1, <3>2, <4>1 DEF PhaseInTime
    <3>3. CASE run[c].pc \in {"store", "copy", "insert", "insertReply"}
      <4>1. run[c].timeout \in Nat
        BY <3>1, <3>3, PhaseByPc DEF Storing, Copying, Inserting
      <4> QED BY <2>1, <3>1, <3>3, <4>1, TimeAssumption DEF PhaseInTime
    <3> QED BY <3>2, <3>3 DEF PhaseInTime
  <2> QED BY <2>1, <2>2, <2>3 DEF TimeInv
<1>6. CASE UNCHANGED vars
  BY <1>1, <1>6 DEF vars
<1> QED BY <1>2, <1>3, <1>4, <1>5, <1>6, HandleInTime DEF Next

\* An empty map holds no time.
LEMMA NoFlowsTimeInv == NoFlows => TimeInv
BY DEF NoFlows, TimeInv, CellsInTime, PhaseInTime, Idle

\* The bound on all elements is one on the entries of the map.
LEMMA TimeInvBounds == IInv /\ TimeInv => TimeoutBounded
BY DEF IInv, TypeOK, TimeInv, CellsInTime, TimeoutBounded, Entry

(***************************************************************************)
(* No entry is ever more than TIMEOUT_EST away from expiring, in spite of  *)
(* times read early and written late and of writes into reused elements.   *)
(***************************************************************************)
THEOREM LifetimeBounded == Spec => []TimeoutBounded
<1>1. Init => TimeInv
  BY InitNoFlows, NoFlowsTimeInv
<1> QED BY InitIInv, NextIInv, NextTimeInv, TimeInvBounds, <1>1, PTL DEF Spec
=============================================================================
