----------------------------- MODULE UdpConntrack ----------------------------
(***************************************************************************)
(* The UDP connection tracker of xdp-natd: the hash map UDP_CONNTRACK, the *)
(* two XDP programs that fill and refresh it on every CPU                  *)
(* (process_udp_snat on the containers' veth interfaces, process_udp_dnat  *)
(* on the physical NIC) and the daemon's task that collects expired        *)
(* entries.  Nothing locks an entry, so a step here is one map operation,  *)
(* one burst of loads or one burst of stores of the code, and the steps of *)
(* the CPUs, of the collector and of the clock interleave freely.          *)
(*                                                                         *)
(* The map is preallocated: a lookup returns a pointer to an element, and  *)
(* an element that is deleted can be handed out again while another CPU    *)
(* still holds the pointer.  The elements are therefore kept apart         *)
(* (`cells') from the hash buckets that name them (`index').               *)
(*                                                                         *)
(* Left out of a translation: the MAC addresses, and the devmap key, which *)
(* its address determines (0, the NIC, or the container's address).        *)
(***************************************************************************)
EXTENDS Integers, FiniteSets

CONSTANTS
  Containers,     \* addresses of the containers on the Docker network
  Remotes,        \* addresses reached through the NIC
  NicIP,          \* the address of the physical NIC that PNIC_ARRAY holds
  NicAddrs,       \* every address datagrams reach the NIC with
  Ports,          \* UDP ports
  Egress,         \* connection tuples of the datagrams containers send
  Ingress,        \* connection tuples of the datagrams that reach the NIC
  Exposable,      \* [port, target]: the entries EXPOSE_MAP may be given
  Cpus,           \* CPUs that run the XDP programs
  Slots,          \* preallocated elements of UDP_CONNTRACK
  TIMEOUT_NEW,    \* life of an entry that has seen no reply
  TIMEOUT_EST,    \* life of an entry that has seen a reply
  THRESHOLD_NS,   \* a timeout is only rewritten when it moves by more than this
  MaxNow          \* bound on the clock

(***************************************************************************)
(* ConnectionTuple::new, and the part of NATData::new that is kept.        *)
(***************************************************************************)
ConnectionTuple(src_addr, dst_addr, src_port, dst_port) ==
  [src_addr |-> src_addr, dst_addr |-> dst_addr,
   src_port |-> src_port, dst_port |-> dst_port]

NATData(nat_addr, nat_port) == [nat_addr |-> nat_addr, nat_port |-> nat_port]

\* Tuples as a container's veth sees them, and as the NIC sees them.
InsideKeys == [src_addr : Containers, dst_addr : Remotes,
               src_port : Ports, dst_port : Ports]
OutsideKeys == [src_addr : Remotes, dst_addr : NicAddrs,
                src_port : Ports, dst_port : Ports]
Keys == InsideKeys \cup OutsideKeys

Nats == [nat_addr : Containers \cup NicAddrs, nat_port : Ports]
Directions == {"original", "reply"}
FlowStates == [nat : Nats, direction : Directions,
               seen_reply : BOOLEAN, timeout : Nat]

Packets == [prog : {"snat"}, key : Egress] \cup [prog : {"dnat"}, key : Ingress]

ASSUME AddressAssumption ==
  /\ Containers \cap Remotes = {}
  /\ NicIP \in NicAddrs
  /\ NicAddrs \cap (Containers \cup Remotes) = {}

ASSUME TrafficAssumption ==
  /\ Egress \subseteq InsideKeys
  /\ Ingress \subseteq OutsideKeys
  /\ Exposable \subseteq [port : Ports,
                          target : [nat_addr : Containers, nat_port : Ports]]

ASSUME TimeAssumption ==
  /\ TIMEOUT_NEW \in Nat \ {0}
  /\ TIMEOUT_EST \in Nat
  /\ TIMEOUT_NEW <= TIMEOUT_EST
  /\ THRESHOLD_NS \in Nat
  /\ MaxNow \in Nat

VARIABLES
  now,       \* the coarse monotonic clock all parts read
  index,     \* hash buckets: the tuples in the map, and the element of each
  cells,     \* contents of every element, also of those no bucket names
  exposed,   \* EXPOSE_MAP
  run,       \* per CPU, how far its handler has got and what it holds
  gc         \* the collector: its phase, keys to look at, keys to remove

vars == <<now, index, cells, exposed, run, gc>>
-----------------------------------------------------------------------------
(***************************************************************************)
(* Pure parts of the handlers.                                             *)
(***************************************************************************)
\* Mutant: the two ports of the response's tuple are exchanged.
ReverseKeyPortsSwapped(pkt, nat) ==
  IF pkt.prog = "snat"
  THEN ConnectionTuple(pkt.key.dst_addr, nat.nat_addr,
                       pkt.key.dst_port, nat.nat_port)
  ELSE ConnectionTuple(nat.nat_addr, pkt.key.src_addr,
                       pkt.key.src_port, nat.nat_port)

\* The tuple of the other half of the flow, as the handler computes it.
ReverseKey(pkt, nat) ==
  IF pkt.prog = "snat"
  THEN ConnectionTuple(pkt.key.dst_addr, nat.nat_addr,
                       pkt.key.dst_port, nat.nat_port)
  ELSE ConnectionTuple(nat.nat_addr, pkt.key.src_addr,
                       nat.nat_port, pkt.key.src_port)

\* Mutants: the destination's port for the sender's; the address of PNIC_ARRAY
\* for the one the datagram came for.
ReverseNatOtherPort(pkt) ==
  IF pkt.prog = "snat"
  THEN NATData(pkt.key.src_addr, pkt.key.dst_port)
  ELSE NATData(pkt.key.dst_addr, pkt.key.dst_port)

ReverseNatFirstAddress(pkt) ==
  IF pkt.prog = "snat"
  THEN NATData(pkt.key.src_addr, pkt.key.src_port)
  ELSE NATData(NicIP, pkt.key.dst_port)

\* The translation of the other half: back to what the packet carried.
ReverseNat(pkt) ==
  IF pkt.prog = "snat"
  THEN NATData(pkt.key.src_addr, pkt.key.src_port)
  ELSE NATData(pkt.key.dst_addr, pkt.key.dst_port)

\* Mutant: what the port may be exposed for, whatever EXPOSE_MAP holds.
FirstNatUnasked(pkt) ==
  IF pkt.prog = "snat"
  THEN {NATData(NicIP, pkt.key.src_port)}
  ELSE {e.target : e \in {x \in Exposable : x.port = pkt.key.dst_port}}

\* The translations a first packet may be given: the NIC's address with the
\* container's own source port, or the container the port is exposed for.
FirstNat(pkt) ==
  IF pkt.prog = "snat"
  THEN {NATData(NicIP, pkt.key.src_port)}
  ELSE {e.target : e \in {x \in exposed : x.port = pkt.key.dst_port}}

\* Mutant: the life is added to what is left of it.
ExpectedTimeoutAdded(state, time) ==
  state.timeout + IF state.direction = "original" /\ ~state.seen_reply
                  THEN TIMEOUT_NEW ELSE TIMEOUT_EST

ExpectedTimeout(state, time) ==
  time + IF state.direction = "original" /\ ~state.seen_reply
         THEN TIMEOUT_NEW ELSE TIMEOUT_EST

\* "lazy temporal update every second"; the first reply is always recorded.
NeedsUpdate(state, time) ==
  \/ state.direction = "reply" /\ ~state.seen_reply
  \/ /\ ExpectedTimeout(state, time) > state.timeout
     /\ ExpectedTimeout(state, time) - state.timeout > THRESHOLD_NS

\* FlowState::new
FlowState(nat, direction, timeout) ==
  [nat |-> nat, direction |-> direction, seen_reply |-> FALSE, timeout |-> timeout]
-----------------------------------------------------------------------------
(***************************************************************************)
(* The hash map (external: the kernel's preallocated BPF hash).            *)
(***************************************************************************)
Linked == DOMAIN index
FreeSlots == Slots \ {index[k] : k \in Linked}
Entry(k) == cells[index[k]]

\* An element no CPU has used yet.
Vacant == [vacant |-> TRUE]

(***************************************************************************)
(* insert(key, state, BPF_NOEXIST).  It fails when the key is there or no  *)
(* element is left, and every caller discards the result.                  *)
(***************************************************************************)
InsertNoExist(k, state) ==
  IF k \in Linked \/ FreeSlots = {}
  THEN UNCHANGED <<index, cells>>
  ELSE \E s \in FreeSlots :
         /\ index' = [x \in Linked \cup {k} |-> IF x = k THEN s ELSE index[x]]
         /\ cells' = [cells EXCEPT ![s] = state]

\* Mutant: an entry that has seen a reply is turned into a reply entry.
WriteDirectionToo(s, seen_reply, timeout) ==
  cells' = [cells EXCEPT ![s] = [nat |-> @.nat,
              direction |-> IF seen_reply THEN "reply" ELSE @.direction,
              seen_reply |-> seen_reply, timeout |-> timeout]]

\* A pointer returned by a lookup lets a handler write the flag and the timeout
\* of whatever entry its element holds by now.
Write(s, seen_reply, timeout) ==
  cells' = [cells EXCEPT ![s] = [nat |-> @.nat, direction |-> @.direction,
                                 seen_reply |-> seen_reply, timeout |-> timeout]]

\* remove(key): the element keeps its contents until it is used again.
Remove(k) ==
  /\ index' = [x \in Linked \ {k} |-> index[x]]
  /\ UNCHANGED cells
-----------------------------------------------------------------------------
(***************************************************************************)
(* How far a handler has got.  The handler of a packet holds a pointer     *)
(* (slot), a time it has read, or the entry it is about to insert.         *)
(***************************************************************************)
Idle == [pc |-> "idle"]

Loading    == [pc : {"load"}, pkt : Packets, slot : Slots, time : Nat]
Storing    == [pc : {"store"}, pkt : Packets, slot : Slots,
               direction : Directions, timeout : Nat]
Reversing  == [pc : {"reverse"}, pkt : Packets, slot : Slots, nat : Nats]
Copying    == [pc : {"copy"}, pkt : Packets, key : Keys, slot : Slots,
               seen_reply : BOOLEAN, timeout : Nat]
Resolving  == [pc : {"resolve"}, pkt : Packets]
Inserting  == [pc : {"insert", "insertReply"}, pkt : Packets,
               nat : Nats, timeout : Nat]

Phases == {Idle} \cup Loading \cup Storing \cup Reversing \cup Copying
            \cup Resolving \cup Inserting

Collector == [phase : {"sleep", "scan", "remove"},
              unvisited : SUBSET Keys, to_remove : SUBSET Keys]
-----------------------------------------------------------------------------
Init ==
  /\ now = 0
  /\ index = [k \in {} |-> {}]
  /\ cells = [s \in Slots |-> Vacant]
  /\ exposed = {}
  /\ run = [c \in Cpus |-> Idle]
  /\ gc = [phase |-> "sleep", unvisited |-> {}, to_remove |-> {}]

Goto(c, phase) == run' = [run EXCEPT ![c] = phase]

(***************************************************************************)
(* A datagram reaches a CPU: look its tuple up and, on a hit, read the     *)
(* clock.                                                                  *)
(***************************************************************************)
Receive(c, pkt) ==
  /\ run[c].pc = "idle"
  /\ Goto(c, IF pkt.key \in Linked
             THEN [pc |-> "load", pkt |-> pkt,
                   slot |-> index[pkt.key], time |-> now]
             ELSE [pc |-> "resolve", pkt |-> pkt])
  /\ UNCHANGED <<now, index, cells, exposed, gc>>

(***************************************************************************)
(* Read the element's direction, flag and timeout, and decide.  A handler  *)
(* that has nothing to update only translates the packet.                  *)
(***************************************************************************)
Load(c) ==
  /\ run[c].pc = "load"
  /\ LET state == cells[run[c].slot]
         time == run[c].time
     IN Goto(c, IF NeedsUpdate(state, time)
                THEN [pc |-> "store", pkt |-> run[c].pkt, slot |-> run[c].slot,
                      direction |-> state.direction,
                      timeout |-> ExpectedTimeout(state, time)]
                ELSE Idle)
  /\ UNCHANGED <<now, index, cells, exposed, gc>>

\* Mutant: each branch writes the flag, the original's branch FALSE.
StoreForgetsReply(c) ==
  /\ run[c].pc = "store"
  /\ LET s == run[c].slot
     IN /\ Write(s, run[c].direction = "reply", run[c].timeout)
        /\ Goto(c, [pc |-> "reverse", pkt |-> run[c].pkt, slot |-> s,
                    nat |-> cells[s].nat])
  /\ UNCHANGED <<now, index, exposed, gc>>

(***************************************************************************)
(* Write the element: the timeout, and in the reply branch the flag too.   *)
(* Then read the translation, which also gives the other half's tuple.     *)
(***************************************************************************)
Store(c) ==
  /\ run[c].pc = "store"
  /\ LET s == run[c].slot
     IN /\ Write(s, cells[s].seen_reply \/ run[c].direction = "reply",
                 run[c].timeout)
        /\ Goto(c, [pc |-> "reverse", pkt |-> run[c].pkt, slot |-> s,
                    nat |-> cells[s].nat])
  /\ UNCHANGED <<now, index, exposed, gc>>

(***************************************************************************)
(* Look the other half up and, if it is there, read again what this half   *)
(* now holds: `state' points into the map, not at a copy.                  *)
(***************************************************************************)
LookupReverse(c) ==
  /\ run[c].pc = "reverse"
  /\ LET reverse == ReverseKey(run[c].pkt, run[c].nat)
         state == cells[run[c].slot]
     IN Goto(c, IF reverse \in Linked
                THEN [pc |-> "copy", pkt |-> run[c].pkt, key |-> reverse,
                      slot |-> index[reverse],
                      seen_reply |-> state.seen_reply, timeout |-> state.timeout]
                ELSE Idle)
  /\ UNCHANGED <<now, index, cells, exposed, gc>>

\* Mutants: the flag is not copied, or is reset.
CopyTimeoutOnly(c) ==
  /\ run[c].pc = "copy"
  /\ Write(run[c].slot, cells[run[c].slot].seen_reply, run[c].timeout)
  /\ Goto(c, Idle)
  /\ UNCHANGED <<now, index, exposed, gc>>

CopyResetsFlag(c) ==
  /\ run[c].pc = "copy"
  /\ Write(run[c].slot, FALSE, run[c].timeout)
  /\ Goto(c, Idle)
  /\ UNCHANGED <<now, index, exposed, gc>>

CopyToReverse(c) ==
  /\ run[c].pc = "copy"
  /\ Write(run[c].slot, run[c].seen_reply, run[c].timeout)
  /\ Goto(c, Idle)
  /\ UNCHANGED <<now, index, exposed, gc>>

(***************************************************************************)
(* A miss: find the translation (PNIC_ARRAY, or EXPOSE_MAP), ask the FIB   *)
(* for a route and read the clock.  Without a translation or a route the   *)
(* packet is passed on as it came.                                         *)
(***************************************************************************)
Resolve(c) ==
  /\ run[c].pc = "resolve"
  /\ \/ \E nat \in FirstNat(run[c].pkt) :
          Goto(c, [pc |-> "insert", pkt |-> run[c].pkt, nat |-> nat,
                   timeout |-> now + TIMEOUT_NEW])
     \/ Goto(c, Idle)
  /\ UNCHANGED <<now, index, cells, exposed, gc>>

\* The half the packet belongs to ...
InsertOriginal(c) ==
  /\ run[c].pc = "insert"
  /\ InsertNoExist(run[c].pkt.key,
                   FlowState(run[c].nat, "original", run[c].timeout))
  /\ Goto(c, [run[c] EXCEPT !.pc = "insertReply"])
  /\ UNCHANGED <<now, exposed, gc>>

\* ... and the half its answers belong to, whatever became of the first.
InsertReply(c) ==
  /\ run[c].pc = "insertReply"
  /\ InsertNoExist(ReverseKey(run[c].pkt, run[c].nat),
                   FlowState(ReverseNat(run[c].pkt), "reply", run[c].timeout))
  /\ Goto(c, Idle)
  /\ UNCHANGED <<now, exposed, gc>>
-----------------------------------------------------------------------------
(***************************************************************************)
(* The collector wakes and iterates over the map.  An entry that appears   *)
(* during the iteration is left for the next one.                          *)
(***************************************************************************)
GcTick ==
  /\ gc.phase = "sleep"
  /\ gc' = [phase |-> "scan", unvisited |-> Linked, to_remove |-> {}]
  /\ UNCHANGED <<now, index, cells, exposed, run>>

\* Mutant: only entries that have seen a reply are collected.
GcVisitAnswered(k) ==
  /\ gc.phase = "scan"
  /\ k \in gc.unvisited
  /\ gc' = [phase |-> "scan", unvisited |-> gc.unvisited \ {k},
            to_remove |-> gc.to_remove \cup
              {x \in {k} : Entry(x).seen_reply /\ Entry(x).timeout <= now}]
  /\ UNCHANGED <<now, index, cells, exposed, run>>

\* Entry by entry: its timeout against the clock of that moment.
GcVisit(k) ==
  /\ gc.phase = "scan"
  /\ k \in gc.unvisited
  /\ gc' = [phase |-> "scan", unvisited |-> gc.unvisited \ {k},
            to_remove |-> gc.to_remove \cup {x \in {k} : Entry(x).timeout <= now}]
  /\ UNCHANGED <<now, index, cells, exposed, run>>

GcCollected ==
  /\ gc.phase = "scan"
  /\ gc.unvisited = {}
  /\ gc' = [gc EXCEPT !.phase = "remove"]
  /\ UNCHANGED <<now, index, cells, exposed, run>>

\* Mutant: the key stays in the list after its removal.
GcRemoveKeepsKey(k) ==
  /\ gc.phase = "remove"
  /\ k \in gc.to_remove
  /\ Remove(k)
  /\ UNCHANGED <<now, exposed, run, gc>>

\* The removal goes by key alone: the timeout is not looked at again.
GcRemove(k) ==
  /\ gc.phase = "remove"
  /\ k \in gc.to_remove
  /\ Remove(k)
  /\ gc' = [gc EXCEPT !.to_remove = @ \ {k}]
  /\ UNCHANGED <<now, exposed, run>>

GcDone ==
  /\ gc.phase = "remove"
  /\ gc.to_remove = {}
  /\ gc' = [gc EXCEPT !.phase = "sleep"]
  /\ UNCHANGED <<now, index, cells, exposed, run>>
-----------------------------------------------------------------------------
(***************************************************************************)
(* The environment: the control plane edits EXPOSE_MAP, the clock ticks.   *)
(***************************************************************************)
Expose(e) ==
  /\ \A x \in exposed : x.port # e.port
  /\ exposed' = exposed \cup {e}
  /\ UNCHANGED <<now, index, cells, run, gc>>

Unexpose(e) ==
  /\ e \in exposed
  /\ exposed' = exposed \ {e}
  /\ UNCHANGED <<now, index, cells, run, gc>>

Tick ==
  /\ now < MaxNow
  /\ now' = now + 1
  /\ UNCHANGED <<index, cells, exposed, run, gc>>
-----------------------------------------------------------------------------
\* A handler that has started runs to its end.
Handle(c) ==
  \/ Load(c)
  \/ Store(c)
  \/ LookupReverse(c)
  \/ CopyToReverse(c)
  \/ Resolve(c)
  \/ InsertOriginal(c)
  \/ InsertReply(c)

Gc ==
  \/ GcTick
  \/ \E k \in Keys : GcVisit(k)
  \/ GcCollected
  \/ \E k \in Keys : GcRemove(k)
  \/ GcDone

Next ==
  \/ \E c \in Cpus : Handle(c) \/ \E pkt \in Packets : Receive(c, pkt)
  \/ Gc
  \/ \E e \in Exposable : Expose(e) \/ Unexpose(e)
  \/ Tick

Spec == Init /\ [][Next]_vars

(***************************************************************************)
(* The collector's task is polled again and again by the runtime, and an   *)
(* XDP program always runs to its end.  No packet has to arrive and the    *)
(* control plane owes nothing.                                             *)
(***************************************************************************)
FairSpec ==
  /\ Spec
  /\ WF_vars(Gc)
  /\ \A c \in Cpus : WF_vars(Handle(c))
  /\ WF_vars(Tick)
-----------------------------------------------------------------------------
(***************************************************************************)
(* Properties.                                                             *)
(***************************************************************************)
\* The state stays within the types of the code, no two tuples share an
\* element, and the collector only ever holds tuples that are in the map: it
\* alone removes (main.rs, the task spawned by setup_pnic).
TypeOK ==
  /\ now \in Nat
  /\ Linked \subseteq Keys
  /\ index \in [Linked -> Slots]
  /\ \A j, k \in Linked : index[j] = index[k] => j = k
  /\ cells \in [Slots -> FlowStates \cup {Vacant}]
  /\ \A k \in Linked : Entry(k) # Vacant
  /\ exposed \subseteq Exposable
  /\ run \in [Cpus -> Phases]
  /\ \A c \in Cpus : run[c].pc \in {"load", "store", "reverse", "copy"}
                      => cells[run[c].slot] # Vacant
  /\ gc \in Collector
  /\ gc.unvisited \cup gc.to_remove \subseteq Linked
  /\ gc.phase # "scan" => gc.unvisited = {}

(***************************************************************************)
(* The inside endpoints that stand behind a port of the NIC: the           *)
(* containers that send from that port number, since the source port is    *)
(* kept, and the endpoint the port may be exposed for.                     *)
(***************************************************************************)
Owners(port) ==
  {NATData(t.src_addr, t.src_port) : t \in {x \in Egress : x.src_port = port}}
    \cup {e.target : e \in {x \in Exposable : x.port = port}}

\* What an entry may say: an inside tuple leaves from a port its source owns,
\* an outside tuple reaches an owner of the port it came for.
Admissible(k, nat) ==
  \/ /\ k \in InsideKeys
     /\ nat \in [nat_addr : NicAddrs, nat_port : Ports]
     /\ NATData(k.src_addr, k.src_port) \in Owners(nat.nat_port)
  \/ /\ k \in OutsideKeys
     /\ nat \in Owners(k.dst_port)

\* Every translation in the map is one the traffic and the control plane admit,
\* through every race of handlers, collector and reuse of elements.
AllAdmissible == \A k \in Linked : Admissible(k, Entry(k).nat)

\* The tuple an answer to the inside tuple k arrives with, and the one a
\* container's response to the outside tuple k leaves with.
AnswerTo(k) == ConnectionTuple(k.dst_addr, Entry(k).nat.nat_addr,
                               k.dst_port, Entry(k).nat.nat_port)
ResponseTo(k) == ConnectionTuple(Entry(k).nat.nat_addr, k.src_addr,
                                 Entry(k).nat.nat_port, k.src_port)

\* An answer goes back to the endpoint that sent: following an inside tuple
\* out and its answer back in leads to the same container and port.  The code
\* relies on it and does not ensure it: the source port is kept.
ReplyReturnsToSender ==
  \A k \in Linked \cap InsideKeys :
    AnswerTo(k) \in Linked =>
      Entry(AnswerTo(k)).nat = NATData(k.src_addr, k.src_port)

\* No entry ever outlives TIMEOUT_EST without traffic, whatever stale times
\* and recycled elements the handlers write (Load, Store, CopyToReverse).
TimeoutBounded == \A k \in Linked : Entry(k).timeout <= now + TIMEOUT_EST

\* When no handler runs, the half a flow was opened by has its other half: no
\* race of two first packets leaves one half alone (the two inserts and their
\* discarded results).  It needs room in the map and that nothing expires.
PairComplete ==
  (\A c \in Cpus : run[c].pc = "idle") =>
    \A k \in Linked :
      Entry(k).direction = "original" =>
        (IF k \in InsideKeys THEN AnswerTo(k) ELSE ResponseTo(k)) \in Linked

\* "Stateful translation of UDP traffic": when no handler runs and the collector
\* sleeps, a flow that is alive still has the half its answers need, so that a
\* datagram that leaves translated can be answered.
LiveFlowIsWhole ==
  (\A c \in Cpus : run[c].pc = "idle") /\ gc.phase = "sleep" =>
    \A k \in Linked :
      Entry(k).direction = "original" /\ Entry(k).timeout > now =>
        (IF k \in InsideKeys THEN AnswerTo(k) ELSE ResponseTo(k)) \in Linked

\* An expired entry does not stay: it is removed, or traffic revives it.
ExpiredIsCollected ==
  \A k \in Keys :
    (k \in Linked /\ Entry(k).timeout <= now)
      ~> (k \notin Linked \/ Entry(k).timeout > now)

(***************************************************************************)
(* The map implements the abstract table over the admissible bindings: an  *)
(* insert establishes a binding for a free tuple, a removal forgets one,   *)
(* and nothing else, in particular no refresh through a dangling pointer,  *)
(* changes what a tuple translates to.                                     *)
(***************************************************************************)
AllBindings == {b \in [key : Keys, nat : Nats, direction : Directions] :
                  Admissible(b.key, b.nat)}

Binding(k) == [key |-> k, nat |-> Entry(k).nat, direction |-> Entry(k).direction]

InForce == {Binding(k) : k \in Linked}

Table == INSTANCE NatTable WITH Bindings <- AllBindings, table <- InForce

\* No binding ever changes; it is established for a free tuple, or forgotten.
TableSpec == Table!Spec
=============================================================================
