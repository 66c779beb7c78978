------------------------------ MODULE NatDaemon ------------------------------
(***************************************************************************)
(* The running daemon: the control plane and the connection tracker over   *)
(* one EXPOSE_MAP.  What the tracker alone takes for its environment, an   *)
(* entry of EXPOSE_MAP that comes and goes, is here what the handlers of   *)
(* the control plane do: an entry that is taken back because its iptables  *)
(* command failed, a port that is exposed again, the end of the process    *)
(* and the start of another.                                               *)
(*                                                                         *)
(* The handlers take no notice of the tracker, nor the tracker of them: a  *)
(* datagram may come between any two steps of a handler.  The maps and the *)
(* collecting task go when the process goes; the clock goes on.            *)
(***************************************************************************)
EXTENDS Integers, Sequences, FiniteSets

\* Of the control plane.
CONSTANTS Clients, Lower, Upper, Targets, Known, MapCapacity, CommandsFail,
          MayCrash, MaxLives

\* Of the tracker.
CONSTANTS Containers, Remotes, NicIP, NicAddrs, Ports, Egress, Ingress, Cpus,
          Slots, TIMEOUT_NEW, TIMEOUT_EST, THRESHOLD_NS, MaxNow

VARIABLES ports, expose_map, rules, handler, lock, daemon, lives
VARIABLES now, index, cells, run, gc

\* What happened to the tracker's flows in this life of the process.
VARIABLES granted, opened, disturbed

CP == INSTANCE ControlPlane

\* EXPOSE_MAP as the tracker reads it, and what the control plane may put there.
Exposures == {[port |-> p, target |-> expose_map[p]] : p \in DOMAIN expose_map}
MayExpose == [port : CP!HostPorts, target : Known]

CT == INSTANCE FlowHistory WITH exposed <- Exposures, Exposable <- MayExpose

ASSUME ControlAssumption == CP!ControlPlaneAssumption

\* The pool and the containers are among what the tracker may see.
ASSUME TrackerAssumption ==
  /\ CT!AddressAssumption
  /\ CT!TrafficAssumption
  /\ CT!TimeAssumption

control == <<ports, expose_map, rules, handler, lock, daemon, lives>>
tracker == <<index, cells, run, gc>>
history == <<granted, opened, disturbed>>
vars == <<control, now, tracker, history>>
ctvars == <<now, index, cells, Exposures, run, gc>>
-----------------------------------------------------------------------------
Init ==
  /\ CP!Init
  /\ now = 0
  /\ index = [k \in {} |-> {}]
  /\ cells = [s \in Slots |-> CT!Vacant]
  /\ run = [c \in Cpus |-> CT!Idle]
  /\ gc = [phase |-> "sleep", unvisited |-> {}, to_remove |-> {}]
  /\ granted = {} /\ opened = {} /\ disturbed = {}

\* Mutant: the connection table is pinned and outlives the process.
TableIsPinned ==
  /\ run' = [c \in Cpus |-> CT!Idle]
  /\ gc' = [phase |-> "sleep", unvisited |-> {}, to_remove |-> {}]
  /\ granted' = {}
  /\ UNCHANGED <<index, cells, opened, disturbed>>

\* The maps are gone with the process, and what worked on them.
TableIsGone ==
  /\ index' = [k \in {} |-> {}]
  /\ cells' = [s \in Slots |-> CT!Vacant]
  /\ run' = [c \in Cpus |-> CT!Idle]
  /\ gc' = [phase |-> "sleep", unvisited |-> {}, to_remove |-> {}]
  /\ granted' = {} /\ opened' = {} /\ disturbed' = {}

Control ==
  /\ CP!Next
  /\ UNCHANGED now
  /\ IF daemon' = "down" THEN TableIsGone ELSE UNCHANGED tracker /\ CT!Record

\* The programs and the collector work as long as the process exists, also
\* while main is already in clean_up.
DataPath ==
  /\ CP!Serving
  /\ UNCHANGED control
  /\ \/ \E c \in Cpus : CT!Handle(c) \/ \E pkt \in CT!Packets : CT!Receive(c, pkt)
     \/ CT!Gc
  /\ CT!Record

Clock == UNCHANGED control /\ CT!Tick /\ CT!Record

Next == Control \/ DataPath \/ Clock

Spec == Init /\ [][Next]_vars
-----------------------------------------------------------------------------
\* What the tracker relies on is what the control plane does: as long as the
\* process lives, every step of the daemon is a step of the tracker in its
\* environment.  In particular EXPOSE_MAP changes by one entry at a time, for
\* a free port and a container that was discovered (expose_port, its rollback,
\* unexpose_port).
TrackerContract == [][daemon' # "down" => [CT!Next]_ctvars]_vars

\* Every translation was decided for a datagram of a container, or for one that
\* came for a port this life of the daemon had exposed for that endpoint; a flow
\* that outlives its exposure, or whose port is given to others in between, keeps
\* to the endpoint it was opened for.
Provenance == CT!Provenance

\* The two halves of an undisturbed flow agree, through every exposure, rollback
\* and restart in the middle of a refresh.
HalvesAgree == CT!HalvesAgree

\* No step of a live daemon takes life from an undisturbed flow.
LifetimeNeverShortened == [][\A f \in CT!Undisturbed : CT!NoLifeLost(f)]_vars

\* What a container answers to a datagram that came for a port of the NIC leaves
\* from that very port and address, although the port is given to others in
\* between, unless another flow uses the container's tuple.
ResponsesKeepAddress == CT!ResponsesKeepAddress
=============================================================================
