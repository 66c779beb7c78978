---------------------------- MODULE ControlPlane ----------------------------
(***************************************************************************)
(* The control plane of xdp-natd: the HTTP handlers expose_port and        *)
(* unexpose_port, the port allocator and EXPOSE_MAP they share behind one  *)
(* fair read-write lock, the iptables rules that carry the TCP half of an  *)
(* exposure, and the life of the daemon around them: signal, clean_up,     *)
(* exit, crash and restart.                                                *)
(*                                                                         *)
(* A handler takes the lock at its only await, so handlers do not          *)
(* interleave with each other.  They do interleave with what needs no      *)
(* lock: the data path, which reads EXPOSE_MAP, the clean_up of main,      *)
(* which flushes the rules, and a crash.  A handler is split where it      *)
(* runs the iptables command.                                              *)
(***************************************************************************)
EXTENDS Integers, Sequences, FiniteSets, SequencesExt

CONSTANTS
  Clients,        \* connections that carry one request at a time
  Lower, Upper,   \* PORT_RANGE
  Targets,        \* endpoints a client may name in a request
  Known,          \* those whose container the daemon discovered at startup
  MapCapacity,    \* entries EXPOSE_MAP can hold
  CommandsFail,   \* whether an iptables command may fail for its own reasons
  MayCrash,       \* whether the daemon may be killed
  MaxLives        \* bound on the number of times the daemon is started

HostPorts == Lower..Upper

ASSUME ControlPlaneAssumption ==
  /\ Lower \in Nat /\ Upper \in Nat /\ Lower <= Upper
  /\ Known \subseteq Targets
  /\ MapCapacity \in Nat
  /\ CommandsFail \in BOOLEAN /\ MayCrash \in BOOLEAN
  /\ MaxLives \in Nat \ {0}

VARIABLES
  ports,          \* PortAllocator: the free ports, oldest first
  expose_map,     \* EXPOSE_MAP: a function from exposed ports to endpoints
  rules,          \* the PREROUTING chain of the nat table, in order
  handler,        \* per client, how far its request has got
  lock,           \* who holds the lock (the head) and who waits, in order
  daemon,         \* the daemon's own state
  lives           \* how often it was started

vars == <<ports, expose_map, rules, handler, lock, daemon, lives>>

Requests == [op : {"expose"}, target : Targets]
              \cup [op : {"unexpose"}, port : HostPorts]

Idle == [at |-> "idle"]

Handlers ==
  {Idle}
    \cup [at : {"queued"}, request : Requests]
    \cup [at : {"addRule", "removeMap"}, port : HostPorts]

Exposed == DOMAIN expose_map
Rule(port, target) == [port |-> port, target |-> target]

\* PortAllocator::new collects the range in ascending order.
FreshPorts == [i \in 1..(Upper - Lower + 1) |-> Lower + i - 1]

NoExposure == [p \in {} |-> {}]
-----------------------------------------------------------------------------
Init ==
  /\ ports = FreshPorts
  /\ expose_map = NoExposure
  /\ rules = <<>>
  /\ handler = [c \in Clients |-> Idle]
  /\ lock = <<>>
  /\ daemon = "up"
  /\ lives = 1

\* The server runs until main returns and drops the runtime.
Serving == daemon \in {"up", "stopping", "cleaned", "uncleaned"}

\* Mutant: the last to come is the first to get the lock.
RequestJumpsQueue(c, request) ==
  /\ Serving
  /\ handler[c].at = "idle"
  /\ handler' = [handler EXCEPT ![c] = [at |-> "queued", request |-> request]]
  /\ lock' = IF \E d \in Clients : handler[d].at \in {"addRule", "removeMap"}
             THEN <<Head(lock), c>> \o Tail(lock)
             ELSE <<c>> \o lock
  /\ UNCHANGED <<ports, expose_map, rules, daemon, lives>>

\* A request arrives and queues for the write lock.
Request(c, request) ==
  /\ Serving
  /\ handler[c].at = "idle"
  /\ handler' = [handler EXCEPT ![c] = [at |-> "queued", request |-> request]]
  /\ lock' = Append(lock, c)
  /\ UNCHANGED <<ports, expose_map, rules, daemon, lives>>

\* Mutant: a handler that is dropped keeps its place in the queue.
DisconnectKeepsPlace(c) ==
  /\ Serving
  /\ handler[c].at = "queued"
  /\ handler' = [handler EXCEPT ![c] = Idle]
  /\ UNCHANGED <<ports, expose_map, rules, lock, daemon, lives>>

\* The client gives up while its handler waits: the future is dropped.
Disconnect(c) ==
  /\ Serving
  /\ handler[c].at = "queued"
  /\ handler' = [handler EXCEPT ![c] = Idle]
  /\ lock' = RemoveFirst(lock, c)
  /\ UNCHANGED <<ports, expose_map, rules, daemon, lives>>

\* The handler at the head of the queue has the lock and starts on its request.
Starts(c, op) ==
  /\ Serving
  /\ lock # <<>> /\ c = Head(lock)
  /\ handler[c].at = "queued"
  /\ handler[c].request.op = op

\* It answers, and the guard it held is dropped.
Answer(c) ==
  /\ handler' = [handler EXCEPT ![c] = Idle]
  /\ lock' = Tail(lock)

Proceed(c, phase) ==
  /\ handler' = [handler EXCEPT ![c] = phase]
  /\ UNCHANGED lock
-----------------------------------------------------------------------------
(***************************************************************************)
(* expose_port, up to the iptables command: it may end early because the   *)
(* container is unknown, because no port is left, or because EXPOSE_MAP    *)
(* refuses the entry; in the last case the port goes to the back of the    *)
(* queue.                                                                  *)
(***************************************************************************)
ExposeRefused(c) ==
  /\ Starts(c, "expose")
  /\ handler[c].request.target \notin Known \/ ports = <<>>
  /\ Answer(c)
  /\ UNCHANGED <<ports, expose_map, rules, daemon, lives>>

MapRefuses(port) ==
  port \in Exposed \/ Cardinality(Exposed) >= MapCapacity

\* Mutant: the port is not given back.
ExposeMapFailsLeaks(c) ==
  /\ Starts(c, "expose")
  /\ handler[c].request.target \in Known
  /\ ports # <<>>
  /\ MapRefuses(Head(ports))
  /\ ports' = Tail(ports)
  /\ Answer(c)
  /\ UNCHANGED <<expose_map, rules, daemon, lives>>

ExposeMapFails(c) ==
  /\ Starts(c, "expose")
  /\ handler[c].request.target \in Known
  /\ ports # <<>>
  /\ MapRefuses(Head(ports))
  /\ ports' = Append(Tail(ports), Head(ports))
  /\ Answer(c)
  /\ UNCHANGED <<expose_map, rules, daemon, lives>>

\* Mutant: the container is not looked up.
ExposeInsertUnknown(c) ==
  /\ Starts(c, "expose")
  /\ ports # <<>>
  /\ ~ MapRefuses(Head(ports))
  /\ LET port == Head(ports)
     IN /\ expose_map' = [p \in Exposed \cup {port} |->
                            IF p = port THEN handler[c].request.target
                                        ELSE expose_map[p]]
        /\ Proceed(c, [at |-> "addRule", port |-> port])
  /\ ports' = Tail(ports)
  /\ UNCHANGED <<rules, daemon, lives>>

ExposeInsert(c) ==
  /\ Starts(c, "expose")
  /\ handler[c].request.target \in Known
  /\ ports # <<>>
  /\ ~ MapRefuses(Head(ports))
  /\ LET port == Head(ports)
     IN /\ expose_map' = [p \in Exposed \cup {port} |->
                            IF p = port THEN handler[c].request.target
                                        ELSE expose_map[p]]
        /\ Proceed(c, [at |-> "addRule", port |-> port])
  /\ ports' = Tail(ports)
  /\ UNCHANGED <<rules, daemon, lives>>

\* iptables -A, and the answer 200.
ExposeAddRule(c) ==
  /\ Serving
  /\ handler[c].at = "addRule"
  /\ rules' = Append(rules, Rule(handler[c].port, expose_map[handler[c].port]))
  /\ Answer(c)
  /\ UNCHANGED <<ports, expose_map, daemon, lives>>

\* Mutant: only the port is taken back.
ExposeRollbackKeepsMap(c) ==
  /\ Serving
  /\ CommandsFail
  /\ handler[c].at = "addRule"
  /\ ports' = Append(ports, handler[c].port)
  /\ Answer(c)
  /\ UNCHANGED <<expose_map, rules, daemon, lives>>

\* The command failed: take the map entry and the port back.
ExposeRollback(c) ==
  /\ Serving
  /\ CommandsFail
  /\ handler[c].at = "addRule"
  /\ expose_map' = [p \in Exposed \ {handler[c].port} |-> expose_map[p]]
  /\ ports' = Append(ports, handler[c].port)
  /\ Answer(c)
  /\ UNCHANGED <<rules, daemon, lives>>
-----------------------------------------------------------------------------
(***************************************************************************)
(* unexpose_port: nothing to do when the port is not exposed; when the     *)
(* rule cannot be removed (the command failed, or the rule is not there)   *)
(* the port stays exposed; otherwise the rule goes first.                  *)
(***************************************************************************)
RuleOf(port) == Rule(port, expose_map[port])
HasRule(port) == port \in Exposed /\ RuleOf(port) \in ToSet(rules)

UnexposeRefused(c) ==
  /\ Starts(c, "unexpose")
  /\ ~ HasRule(handler[c].request.port) \/ CommandsFail
  /\ Answer(c)
  /\ UNCHANGED <<ports, expose_map, rules, daemon, lives>>

\* Mutant: the rule is found and not deleted.
UnexposeKeepsRule(c) ==
  /\ Starts(c, "unexpose")
  /\ LET port == handler[c].request.port
     IN /\ HasRule(port)
        /\ Proceed(c, [at |-> "removeMap", port |-> port])
  /\ UNCHANGED <<ports, expose_map, rules, daemon, lives>>

UnexposeDeleteRule(c) ==
  /\ Starts(c, "unexpose")
  /\ LET port == handler[c].request.port
     IN /\ HasRule(port)
        /\ rules' = RemoveFirst(rules, RuleOf(port))
        /\ Proceed(c, [at |-> "removeMap", port |-> port])
  /\ UNCHANGED <<ports, expose_map, daemon, lives>>

\* Then the map entry, and the port goes to the back of the queue.
UnexposeRemove(c) ==
  /\ Serving
  /\ handler[c].at = "removeMap"
  /\ expose_map' = [p \in Exposed \ {handler[c].port} |-> expose_map[p]]
  /\ ports' = Append(ports, handler[c].port)
  /\ Answer(c)
  /\ UNCHANGED <<rules, daemon, lives>>
-----------------------------------------------------------------------------
(***************************************************************************)
(* The daemon: a signal ends the wait of main, clean_up flushes the whole  *)
(* chain, or reports that it could not, and main returns.  Only then does  *)
(* the runtime go, once the handlers that are running, not waiting, have   *)
(* finished.  Its maps go with it; the rules stay.                         *)
(***************************************************************************)
Signal ==
  /\ daemon = "up"
  /\ daemon' = "stopping"
  /\ UNCHANGED <<ports, expose_map, rules, handler, lock, lives>>

CleanUp ==
  /\ daemon = "stopping"
  /\ \/ rules' = <<>> /\ daemon' = "cleaned"
     \/ CommandsFail /\ rules' = rules /\ daemon' = "uncleaned"
  /\ UNCHANGED <<ports, expose_map, handler, lock, lives>>

Gone ==
  /\ daemon' = "down"
  /\ ports' = FreshPorts
  /\ expose_map' = NoExposure
  /\ handler' = [c \in Clients |-> Idle]
  /\ lock' = <<>>
  /\ UNCHANGED <<rules, lives>>

Exit ==
  /\ daemon \in {"cleaned", "uncleaned"}
  /\ \A c \in Clients : handler[c].at \in {"idle", "queued"}
  /\ Gone

Crash == MayCrash /\ Serving /\ Gone

Restart ==
  /\ daemon = "down"
  /\ lives < MaxLives
  /\ daemon' = "up"
  /\ lives' = lives + 1
  /\ UNCHANGED <<ports, expose_map, rules, handler, lock>>
-----------------------------------------------------------------------------
Handle(c) ==
  \/ ExposeRefused(c)
  \/ ExposeMapFails(c)
  \/ ExposeInsert(c)
  \/ ExposeAddRule(c)
  \/ ExposeRollback(c)
  \/ UnexposeRefused(c)
  \/ UnexposeDeleteRule(c)
  \/ UnexposeRemove(c)

Next ==
  \/ \E c \in Clients :
       \/ \E request \in Requests : Request(c, request)
       \/ Disconnect(c)
       \/ Handle(c)
  \/ Signal
  \/ CleanUp
  \/ Exit
  \/ Crash
  \/ Restart

Spec == Init /\ [][Next]_vars

(***************************************************************************)
(* The lock is fair and a handler that has it runs to its end: that is all *)
(* the progress the code owes.  Nobody has to send a request, stop the     *)
(* daemon or start it again.                                               *)
(***************************************************************************)
FairSpec == Spec /\ \A c \in Clients : WF_vars(Handle(c))
-----------------------------------------------------------------------------
\* Ports a handler is in the middle of exposing or taking back.
InProgress == {handler[c].port : c \in {x \in Clients :
                                       handler[x].at \in {"addRule", "removeMap"}}}

\* The state stays within the types of the code, and the lock is held by one
\* handler at a time, the one at the head of the queue (state.write().await).
TypeOK ==
  /\ ports \in Seq(HostPorts)
  /\ Exposed \subseteq HostPorts
  /\ expose_map \in [Exposed -> Known]
  /\ rules \in Seq([port : HostPorts, target : Known])
  /\ handler \in [Clients -> Handlers]
  /\ lock \in Seq(Clients)
  /\ daemon \in {"up", "stopping", "cleaned", "uncleaned", "down"}
  /\ lives \in 1..MaxLives
  /\ IsInjective(lock)
  /\ ToSet(lock) = {c \in Clients : handler[c].at # "idle"}
  /\ \A c \in Clients : handler[c].at \in {"addRule", "removeMap"}
                         => c = Head(lock) /\ handler[c].port \in Exposed

\* No port is lost or handed out twice: each is free exactly once or exposed,
\* through every refusal, rollback, repeated unexpose and restart (the
\* allocate_next and deallocate calls of expose_port and unexpose_port).
PortsPartitioned ==
  /\ IsInjective(ports)
  /\ ToSet(ports) \cap Exposed = {}
  /\ ToSet(ports) \cup Exposed = HostPorts

\* As long as the daemon has not been stopped or restarted, the rules are those
\* of the exposures, one each, except for the port being worked on: TCP and
\* UDP agree on what is exposed after every error path.
TcpMatchesUdp ==
  lives = 1 /\ daemon = "up" =>
    /\ IsInjective(rules)
    /\ \A p \in Exposed \ InProgress : RuleOf(p) \in ToSet(rules)
    /\ \A r \in ToSet(rules) : r.port \in Exposed /\ r = RuleOf(r.port)
    /\ \A p \in InProgress : RuleOf(p) \notin ToSet(rules)

\* In every life of the daemon, what is exposed has its rule, until clean_up
\* flushes it.
ExposedHasRule ==
  daemon \in {"up", "stopping"} =>
    \A p \in Exposed \ InProgress : RuleOf(p) \in ToSet(rules)

\* "For compatibility, TCP traffic falls back to the standard kernel netfilter
\* stack via iptables": a TCP connection to an exposed port follows the first
\* rule for the port, which should lead where EXPOSE_MAP leads.
TcpFollowsUdp ==
  daemon = "up" =>
    \A p \in Exposed \ InProgress :
      LET first == SelectInSeq(rules, LAMBDA r : r.port = p)
      IN first # 0 /\ rules[first].target = expose_map[p]

\* Every request that waits for the lock is answered, or its client leaves, or
\* the daemon goes: nobody waits for ever behind others.
Answered ==
  \A c \in Clients : handler[c].at = "queued" ~> handler[c].at = "idle"

(***************************************************************************)
(* The handlers implement the service: an exposure exists from the step    *)
(* that adds its rule to the step that deletes it.                         *)
(***************************************************************************)
Service == INSTANCE ExposeService WITH
             Targets <- Known,
             exposures <- {RuleOf(p) : p \in Exposed \ InProgress}

\* A port stands for one endpoint from its exposure to its withdrawal.
ServiceSpec == Service!Spec
=============================================================================
