------------------------------ MODULE Startup -------------------------------
(***************************************************************************)
(* The life of the daemon around its parts: main discovers the containers  *)
(* of one Docker network, attaches the XDP programs, fills REDIRECT_MAP,   *)
(* runs one thread per container to put xdp_stub into its network          *)
(* namespace, sets the NIC up, reserves the port range, starts the server  *)
(* and waits for a signal.  Almost every call ends main when it fails.     *)
(*                                                                         *)
(* The programs work from the moment they are attached, while main is      *)
(* still filling the maps they read, and containers come and go all the    *)
(* time.  The connection table is kept as abstract as NatTable: a binding  *)
(* is the address it translates to and the REDIRECT_MAP key of its         *)
(* packets.                                                                *)
(***************************************************************************)
EXTENDS Integers, FiniteSets

CONSTANTS
  Containers,      \* containers that may be on the network
  Nic,             \* the key of the NIC in REDIRECT_MAP (0), and its address
  Zero,            \* the address in an element of PNIC_ARRAY nobody has set
  Nobody,          \* the holder of a free mutex
  DevmapCapacity   \* entries REDIRECT_MAP can hold

ASSUME StartupAssumption ==
  /\ Nic \notin Containers /\ Zero \notin Containers /\ Nobody \notin Containers
  /\ Zero # Nic
  /\ DevmapCapacity \in Nat

VARIABLES
  main,            \* the call main has got to
  todo,            \* containers the loop main is in has yet to visit
  with_nic,        \* whether the configuration names a NIC (pnic)
  running,         \* containers on the network now
  departed,        \* those that stopped since they were discovered
  metas,           \* container_metas: those discovered
  pids,            \* those discovered with a process id
  attached,        \* whose veth carries xdp_redirect_containers
  devmap,          \* keys of REDIRECT_MAP
  thread,          \* per container, how far its thread has got
  mutex,           \* who holds the second Ebpf object, protected_ebpf
  poisoned,        \* whether a thread has panicked while it held it
  loaded,          \* whether xdp_stub is loaded
  stubs,           \* containers whose eth0 carries xdp_stub
  faults,          \* those for which a call of their thread has failed
  nic_attached,    \* whether the NIC carries xdp_redirect_host
  pnic_array,      \* the address in PNIC_ARRAY
  reserved,        \* whether the kernel keeps PORT_RANGE for the service
  server,          \* the task of the control plane
  exposed,         \* containers an entry of EXPOSE_MAP points to
  table            \* bindings of UDP_CONNTRACK

loops  == <<main, todo>>
docker == <<running, departed>>
found  == <<metas, pids, with_nic>>
stubbing == <<thread, mutex, poisoned, loaded, stubs, faults>>
xdp    == <<attached, devmap, nic_attached, pnic_array, reserved>>
flows  == <<exposed, table>>

vars == <<loops, docker, found, stubbing, xdp, server, flows>>

Bindings == [container : Containers, nat_addr : Containers \cup {Nic, Zero},
             devmap_key : Containers \cup {Nic}]
-----------------------------------------------------------------------------
Init ==
  /\ main = "configure" /\ todo = {}
  /\ with_nic \in BOOLEAN
  /\ running \in SUBSET Containers /\ departed = {}
  /\ metas = {} /\ pids = {}
  /\ attached = {} /\ devmap = {} /\ nic_attached = FALSE /\ pnic_array = Zero
  /\ reserved \in BOOLEAN
  /\ thread = [c \in Containers |-> "none"]
  /\ mutex = Nobody /\ poisoned = FALSE /\ loaded = FALSE
  /\ stubs = {} /\ faults = {}
  /\ server = "off"
  /\ exposed = {} /\ table = {}

Goto(step) == main' = step /\ UNCHANGED todo
GotoLoop(step, set) == main' = step /\ todo' = set
Visit(c) == c \in todo /\ todo' = todo \ {c} /\ UNCHANGED main

\* The process is gone, and with it its programs, its maps and its threads.  The
\* reservation of the ports stays.
Gone ==
  /\ main' = "down" /\ todo' = {}
  /\ metas' = {} /\ pids' = {}
  /\ attached' = {} /\ devmap' = {} /\ nic_attached' = FALSE /\ pnic_array' = Zero
  /\ thread' = [c \in Containers |-> "none"]
  /\ mutex' = Nobody /\ poisoned' = FALSE /\ loaded' = FALSE
  /\ stubs' = {} /\ faults' = {} /\ departed' = {}
  /\ server' = "off"
  /\ exposed' = {} /\ table' = {}
  /\ UNCHANGED <<running, with_nic, reserved>>
-----------------------------------------------------------------------------
(***************************************************************************)
(* main, call by call.  The loops go over hash maps: in any order.         *)
(***************************************************************************)
\* The calls whose failure ends main (`?', expect).
Fallible == {"configure", "inspect", "discover", "mode", "attach", "devmap",
             "load stub", "nic key", "nic attach", "nic array", "reserve", "signals"}

Abort == main \in Fallible /\ Gone

Configure ==
  /\ main = "configure"
  /\ Goto("inspect")
  /\ UNCHANGED <<docker, found, stubbing, xdp, server, flows>>

\* The list of the network's containers is taken once.
Inspect ==
  /\ main = "inspect"
  /\ GotoLoop("discover", running)
  /\ UNCHANGED <<docker, found, stubbing, xdp, server, flows>>

\* A container answers the command run in it, or its output ends without an
\* answer and it is left out.
Discover(c) ==
  /\ main = "discover"
  /\ Visit(c)
  /\ \/ /\ c \in running
        /\ metas' = metas \cup {c}
        /\ pids' \in {pids, pids \cup {c}}
     \/ UNCHANGED <<metas, pids>>
  /\ UNCHANGED <<docker, with_nic, stubbing, xdp, server, flows>>

Mode ==
  /\ main = "discover" /\ todo = {}
  /\ Goto("mode")
  /\ UNCHANGED <<docker, found, stubbing, xdp, server, flows>>

StartAttaching ==
  /\ main = "mode"
  /\ GotoLoop("attach", metas)
  /\ UNCHANGED <<docker, found, stubbing, xdp, server, flows>>

AttachContainer(c) ==
  /\ main = "attach"
  /\ c \notin departed
  /\ Visit(c)
  /\ attached' = attached \cup {c}
  /\ UNCHANGED <<docker, found, stubbing, devmap, nic_attached, pnic_array, reserved, server,
                 flows>>

StartDevmap ==
  /\ main = "attach" /\ todo = {}
  /\ GotoLoop("devmap", metas)
  /\ UNCHANGED <<docker, found, stubbing, xdp, server, flows>>

\* Mutant: the entry is forgotten.
DevmapForgotten(c) ==
  /\ main = "devmap"
  /\ Visit(c)
  /\ UNCHANGED <<docker, found, stubbing, xdp, server, flows>>

SetupDevmap(c) ==
  /\ main = "devmap"
  /\ c \notin departed
  /\ Cardinality(devmap) < DevmapCapacity
  /\ Visit(c)
  /\ devmap' = devmap \cup {c}
  /\ UNCHANGED <<docker, found, stubbing, attached, nic_attached, pnic_array, reserved, server,
                 flows>>

LoadStub ==
  /\ main = "devmap" /\ todo = {}
  /\ Goto("load stub")
  /\ UNCHANGED <<docker, found, stubbing, xdp, server, flows>>

StartSpawning ==
  /\ main = "load stub"
  /\ GotoLoop("spawn", pids)
  /\ UNCHANGED <<docker, found, stubbing, xdp, server, flows>>

Spawn(c) ==
  /\ main = "spawn"
  /\ Visit(c)
  /\ thread' = [thread EXCEPT ![c] = "opening"]
  /\ UNCHANGED <<docker, found, mutex, poisoned, loaded, stubs, faults, xdp, server, flows>>

\* main waits for all threads and does not ask how they ended.
Join ==
  /\ main = "spawn" /\ todo = {}
  /\ \A c \in Containers : thread[c] \in {"none", "done", "panicked"}
  /\ Goto(IF with_nic THEN "nic key" ELSE "signals")
  /\ UNCHANGED <<docker, found, stubbing, xdp, server, flows>>
-----------------------------------------------------------------------------
(***************************************************************************)
(* setup_pnic and what follows it.                                         *)
(***************************************************************************)
\* Mutant: the address is published with the key, before the program is there.
NicKeySetsAddress ==
  /\ main = "nic key"
  /\ Cardinality(devmap) < DevmapCapacity
  /\ devmap' = devmap \cup {Nic}
  /\ pnic_array' = Nic
  /\ Goto("nic attach")
  /\ UNCHANGED <<docker, found, stubbing, attached, nic_attached, reserved, server, flows>>

NicKey ==
  /\ main = "nic key"
  /\ Cardinality(devmap) < DevmapCapacity
  /\ devmap' = devmap \cup {Nic}
  /\ Goto("nic attach")
  /\ UNCHANGED <<docker, found, stubbing, attached, nic_attached, pnic_array, reserved, server,
                 flows>>

NicAttach ==
  /\ main = "nic attach"
  /\ nic_attached' = TRUE
  /\ Goto("nic array")
  /\ UNCHANGED <<docker, found, stubbing, attached, devmap, pnic_array, reserved, server, flows>>

\* The result of the update is discarded.
NicArray ==
  /\ main = "nic array"
  /\ pnic_array' \in {pnic_array, Nic}
  /\ Goto("reserve")
  /\ UNCHANGED <<docker, found, stubbing, attached, devmap, nic_attached, reserved, server,
                 flows>>

\* PORT_RANGE is added to what the kernel does not hand out by itself.
Reserve ==
  /\ main = "reserve"
  /\ reserved' = TRUE
  /\ Goto("serve")
  /\ UNCHANGED <<docker, found, stubbing, attached, devmap, nic_attached, pnic_array, server,
                 flows>>

Serve ==
  /\ main = "serve"
  /\ server' = "binding"
  /\ Goto("signals")
  /\ UNCHANGED <<docker, found, stubbing, xdp, flows>>

Wait ==
  /\ main = "signals"
  /\ Goto("waiting")
  /\ UNCHANGED <<docker, found, stubbing, xdp, server, flows>>

\* A signal after that, or the default action of one before.
Terminate == main # "down" /\ Gone

\* The server's task binds its socket, or ends the process.
Bind ==
  /\ server = "binding"
  /\ server' = "serving"
  /\ UNCHANGED <<loops, docker, found, stubbing, xdp, flows>>

BindFails == server = "binding" /\ Gone
-----------------------------------------------------------------------------
(***************************************************************************)
(* A thread of attach_namespace_pass_programs.  A call that fails makes it *)
(* panic; when it holds the mutex then, the mutex is freed and poisoned,   *)
(* and the threads that come after panic on the poison.                    *)
(***************************************************************************)
Advance(c, state) == thread' = [thread EXCEPT ![c] = state]

OpenNamespace(c) ==
  /\ thread[c] = "opening"
  /\ c \notin departed
  /\ Advance(c, "locking")
  /\ UNCHANGED <<loops, docker, found, mutex, poisoned, loaded, stubs, faults, xdp,
                 server, flows>>

Lock(c) ==
  /\ thread[c] = "locking"
  /\ mutex = Nobody
  /\ IF poisoned THEN Advance(c, "panicked") /\ UNCHANGED mutex
                 ELSE Advance(c, "loading") /\ mutex' = c
  /\ UNCHANGED <<loops, docker, found, poisoned, loaded, stubs, faults, xdp,
                 server, flows>>

\* Mutant: a program that is loaded already is taken for a failure.
LoadOnlyOnce(c) ==
  /\ thread[c] = "loading"
  /\ loaded' = TRUE
  /\ IF loaded
     THEN Advance(c, "panicked") /\ mutex' = Nobody /\ poisoned' = TRUE
     ELSE Advance(c, "entering") /\ UNCHANGED <<mutex, poisoned>>
  /\ UNCHANGED <<loops, docker, found, stubs, faults, xdp, server, flows>>

\* The first thread loads the program; AlreadyLoaded is no failure.
Load(c) ==
  /\ thread[c] = "loading"
  /\ loaded' = TRUE
  /\ Advance(c, "entering")
  /\ UNCHANGED <<loops, docker, found, mutex, poisoned, stubs, faults, xdp, server, flows>>

\* Enter the namespace, attach to its eth0, drop the guard.
AttachStub(c) ==
  /\ thread[c] = "entering"
  /\ c \notin departed
  /\ stubs' = stubs \cup {c}
  /\ mutex' = Nobody
  /\ Advance(c, "done")
  /\ UNCHANGED <<loops, docker, found, poisoned, loaded, faults, xdp, server, flows>>

\* Mutant: a panic does not release the mutex.
PanicHoldsMutex(c) ==
  /\ thread[c] \in {"opening", "loading", "entering"}
  /\ faults' = faults \cup {c}
  /\ poisoned' = (poisoned \/ mutex = c)
  /\ Advance(c, "panicked")
  /\ UNCHANGED <<loops, docker, found, mutex, loaded, stubs, xdp, server, flows>>

Panic(c) ==
  /\ thread[c] \in {"opening", "loading", "entering"}
  /\ faults' = faults \cup {c}
  /\ poisoned' = (poisoned \/ mutex = c)
  /\ mutex' = IF mutex = c THEN Nobody ELSE mutex
  /\ Advance(c, "panicked")
  /\ UNCHANGED <<loops, docker, found, loaded, stubs, xdp, server, flows>>
-----------------------------------------------------------------------------
(***************************************************************************)
(* The environment: Docker starts and stops containers, and the kernel     *)
(* takes the interfaces of a stopped one out of REDIRECT_MAP.              *)
(***************************************************************************)
StartContainer(c) ==
  /\ c \notin running
  /\ running' = running \cup {c}
  /\ UNCHANGED <<loops, departed, found, stubbing, xdp, server, flows>>

StopContainer(c) ==
  /\ c \in running
  /\ running' = running \ {c}
  /\ departed' = departed \cup (metas \cap {c})
  /\ attached' = attached \ {c}
  /\ devmap' = devmap \ {c}
  /\ stubs' = stubs \ {c}
  /\ UNCHANGED <<loops, found, thread, mutex, poisoned, loaded, faults, nic_attached,
                 pnic_array, reserved, server, flows>>
-----------------------------------------------------------------------------
(***************************************************************************)
(* The service, and the programs: the first datagram of a flow enters both *)
(* halves, the collector forgets any of them.                              *)
(***************************************************************************)
Expose(c) ==
  /\ server = "serving"
  /\ c \in metas
  /\ exposed' = exposed \cup {c}
  /\ UNCHANGED <<loops, docker, found, stubbing, xdp, server, table>>

Unexpose(c) ==
  /\ c \in exposed
  /\ exposed' = exposed \ {c}
  /\ UNCHANGED <<loops, docker, found, stubbing, xdp, server, table>>

Halves(c, nic_addr) ==
  {[container |-> c, nat_addr |-> nic_addr, devmap_key |-> Nic],
   [container |-> c, nat_addr |-> c, devmap_key |-> c]}

\* An assumption about the kernel: its FIB finds no route for an interface of
\* index zero, which is what an element of PNIC_ARRAY holds, with the address
\* Zero, as long as nobody has set it.  The program then passes the packet on.
HasRoute(nic_addr) == nic_addr # Zero

\* process_udp_snat on a miss.
OpenFromContainer(c) ==
  /\ c \in attached
  /\ HasRoute(pnic_array)
  /\ table' = table \cup Halves(c, pnic_array)
  /\ UNCHANGED <<loops, docker, found, stubbing, xdp, server, exposed>>

\* process_udp_dnat on a miss: the NIC's address is the datagram's destination.
OpenFromNic(c) ==
  /\ nic_attached
  /\ c \in exposed
  /\ table' = table \cup Halves(c, Nic)
  /\ UNCHANGED <<loops, docker, found, stubbing, xdp, server, exposed>>

\* The collecting task, which setup_pnic spawns after the attachment.
Forget(b) ==
  /\ nic_attached
  /\ b \in table
  /\ table' = table \ {b}
  /\ UNCHANGED <<loops, docker, found, stubbing, xdp, server, exposed>>
-----------------------------------------------------------------------------
Main ==
  \/ Abort
  \/ Configure \/ Inspect \/ Mode \/ StartAttaching \/ StartDevmap
  \/ LoadStub \/ StartSpawning \/ Join
  \/ NicKey \/ NicAttach \/ NicArray \/ Reserve \/ Serve \/ Wait
  \/ \E c \in Containers :
       Discover(c) \/ AttachContainer(c) \/ SetupDevmap(c) \/ Spawn(c)

Thread(c) ==
  \/ OpenNamespace(c)
  \/ Lock(c)
  \/ Load(c)
  \/ AttachStub(c)
  \/ Panic(c)

Next ==
  \/ Main
  \/ Terminate
  \/ Bind \/ BindFails
  \/ \E c \in Containers :
       \/ Thread(c)
       \/ StartContainer(c) \/ StopContainer(c)
       \/ Expose(c) \/ Unexpose(c)
       \/ OpenFromContainer(c) \/ OpenFromNic(c)
  \/ \E b \in Bindings : Forget(b)

Spec == Init /\ [][Next]_vars

(***************************************************************************)
(* main and the threads run on: a call returns, with success or without.   *)
(* Nothing else is owed, in particular no thread has to succeed.  A thread *)
(* that waits for the mutex may be overtaken, so the weak fairness of each *)
(* is that of the thread's own step and not of the mutex.                  *)
(***************************************************************************)
FairSpec ==
  /\ Spec
  /\ WF_vars(Main)
  /\ \A c \in Containers : WF_vars(Thread(c))
-----------------------------------------------------------------------------
\* The state stays within the types of the code: in particular a thread holds
\* the mutex exactly while it works on the program, the kernel's objects belong
\* to containers that were discovered and have run since, and the service has
\* its ports reserved.
TypeOK ==
  /\ todo \subseteq Containers
  /\ running \subseteq Containers
  /\ pids \subseteq metas /\ metas \subseteq Containers
  /\ metas \subseteq running \cup departed
  /\ attached \cup stubs \subseteq metas \ departed
  /\ devmap \subseteq (metas \ departed) \cup {Nic}
  /\ thread \in [Containers -> {"none", "opening", "locking", "loading", "entering",
                                "done", "panicked"}]
  /\ \A c \in Containers : thread[c] \in {"loading", "entering"} <=> mutex = c
  /\ poisoned \in BOOLEAN /\ loaded \in BOOLEAN /\ faults \subseteq Containers
  /\ nic_attached \in BOOLEAN /\ pnic_array \in {Zero, Nic}
  /\ server \in {"off", "binding", "serving"}
  /\ reserved \in BOOLEAN /\ (server # "off" => reserved)
  /\ exposed \subseteq metas
  /\ table \subseteq Bindings

\* A datagram the programs have rewritten is redirected and not handed to the
\* kernel half translated: whatever the order of startup, the key of every
\* binding is in REDIRECT_MAP, unless its container has stopped
\* (REDIRECT_MAP.redirect at the end of try_xdp_redirect).
TranslatedIsRedirected ==
  \A b \in table : b.devmap_key \in devmap \cup departed

\* A flow is translated to the NIC's address only while the NIC carries the
\* program that takes its answers back, and the collecting task runs: the
\* containers' programs are at work all through startup and read PNIC_ARRAY on
\* each miss, so this rests on main setting the address last, after setup_pnic.
FlowsHaveNic == \A b \in table : b.nat_addr = Nic => nic_attached

\* When main goes on after the threads and no call of theirs has failed, every
\* container with a process and still there has its xdp_stub: the threads do
\* not get into each other's way.
StubsComplete ==
  main \in {"nic key", "nic attach", "nic array", "reserve", "serve", "signals", "waiting"}
    /\ faults = {}
    => pids \ departed \subseteq stubs

\* main gets to wait for its signal or is gone: no thread, not even one that
\* panics with the mutex, keeps it at the join.
StartupEnds == <>(main \in {"waiting", "down"})

\* "dynamically discovers Docker containers", and "Container with IP {} doesn't
\* exist" for the others: a container that runs is known to the service.
KnowsRunning == server = "serving" => running \subseteq metas
=============================================================================
