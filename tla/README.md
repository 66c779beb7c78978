# Verification of xdp-natd

TLA+ models of xdp-natd, model-checked with TLC on small instances, and
theorems about them checked with TLAPS. Paths below are those of the
repository; `ebpf` stands for `xdp-natd-ebpf/src`, `daemon` for
`xdp-natd/src`, `common` for `xdp-natd-common/src`.

## The system

| Part | Source | State it keeps | Operations |
|---|---|---|---|
| UDP connection tracker | `ebpf/main.rs` 143-400, `common/lib.rs` | `UDP_CONNTRACK`: tuple to translation, direction, seen_reply, timeout | hit: lazy refresh and copy into the other half; miss: resolve, insert both halves |
| Collector | `daemon/main.rs` 238-257 | a list of keys to remove | every 30 s: iterate, test each entry against the clock, remove by key |
| Header rewriting | `ebpf/helpers.rs` 13-112 | none | checksum arithmetic, `apply_ip_snat`, `apply_ip_dnat` |
| FIB lookup | `ebpf/helpers.rs` 32-57, 184-212 | none | a route with its MAC addresses, or none |
| Classification and emission | `ebpf/main.rs` 56-141 | `REDIRECT_MAP` | pass on what is not plain UDP over IPv4, else translate and redirect |
| Control plane | `daemon/api/expose.rs` | `EXPOSE_MAP`, the rules of the PREROUTING chain | `expose_port`, `unexpose_port` under one write lock |
| Port allocator | `daemon/port_allocator.rs` | queue of free ports | take at the front, give back at the back |
| Life of the daemon | `daemon/main.rs` 300-363 | how far `main` has got | start, the calls of `main`, signal, `clean_up`, exit |
| Discovery and attachment | `daemon/main.rs` 37-134, 187-298 | `container_metas`, attached programs, `REDIRECT_MAP`, `PNIC_ARRAY`, a mutex | one pass at startup, a thread per container |
| Reservation of the port range | `daemon/main.rs` 136-151 | a sysctl of the kernel | add `PORT_RANGE`, or fail |
| HTTP server, health check | `daemon/api/server.rs`, `health_check.rs` | the task | bind or end the process, serve |
| Configuration, telemetry, build, testbed | the rest | none | none of interest |

How they interact. The XDP programs run on every CPU, on the containers' veth
interfaces (`process_udp_snat`) and on the NIC (`process_udp_dnat`). They share
`UDP_CONNTRACK` with each other and with the collector, without a lock: a
lookup returns a pointer into the map, which stays in use after an element was
deleted and handed out again. The control plane writes `EXPOSE_MAP`, which
`process_udp_dnat` reads on a miss; the two are otherwise independent. The
handlers of the control plane exclude each other with a fair lock, and overlap
with what needs no lock: the data path, `clean_up` and a crash. The programs work
from the moment `main` has attached them, while it is still filling the maps they
read (`REDIRECT_MAP`, `PNIC_ARRAY`), running the threads that put `xdp_stub` into
the containers' namespaces and setting the NIC up, and while Docker starts and
stops containers.

What is hard, and what makes each part correct:

- tracker: races of CPUs on one entry, the two inserts whose results are
  discarded, reuse of elements under a live pointer, expiry. A translation in
  force never changes, it has a legitimate origin, both halves of a flow
  exist and agree, answers lead back, an entry does not live too long;
- collector: test and removal are apart. What expired goes or is revived;
- classification: fixed offsets, options, fragments in any order. Only a UDP
  header is taken for one, and no datagram is torn apart;
- rewriting: carries at the boundary of the word, zero that means "none".
  Both checksums stay right;
- startup: every call may fail, programs run early, threads panic with a mutex in
  their hands. Nothing is translated without a way out, or to the NIC before the NIC
  can take the answers, every stub is attached, startup ends;
- control plane: every step of a handler can fail and must be rolled back,
  the rules outlive the daemon. No port is lost or given out twice, TCP and UDP
  agree on what is exposed, every request is answered.

`PROJECT.json` lists these hazards one by one at their lines.

## Modules

- `NatTable`: what the tracker promises: bindings are established for free
  tuples and forgotten, and never change.
- `UdpConntrack`: tracker, collector and clock. `MCUdpConntrack`: instances.
- `UdpConntrackProofs`, `UdpConntrackRefinement`, `UdpConntrackFlows`: theorems, on
  the table, on the abstract table and time, and on flows that get both halves.
- `FlowHistory`: extends the tracker by a record of what was exposed, which flows were
  opened and which of them went undisturbed, and states the properties of flows.
  `MCFlowHistory`: instances. `FlowHistoryProofs`: theorems.
- `ExposeService`: what the control plane promises: a port stands for at most
  one endpoint from its exposure to its withdrawal.
- `ControlPlane`: handlers, allocator, rules, life of the daemon.
  `MCControlPlane`: instances. `ControlPlaneProofs`: theorems.
- `HeaderRewrite`: the checksum arithmetic and the two rewriting functions.
- `PacketPath`: extends it by what comes before, the checks of
  `try_xdp_redirect`, for datagrams that arrive in fragments and cross several
  hosts. `MCPacketPath`: instances. `PacketPathProofs`: theorems about both.
- `Startup`: `main` call by call, its threads, the kernel's objects, containers
  that come and go. `MCStartup`: instances. `StartupProofs`: theorems.
- `NatDaemon`: `ControlPlane` and `FlowHistory` over one `EXPOSE_MAP` and one
  life of the process. `MCNatDaemon`: instances. `NatDaemonProofs`: theorems.

### UdpConntrack

`index` maps tuples to elements, `cells` holds the contents of every element,
also of those no tuple names any more. `run[c]` is how far the handler on CPU
`c` has got, with what it holds in registers.

| Action | Code |
|---|---|
| `Receive` | lookup and, on a hit, `bpf_ktime_get_coarse_ns` (ebpf 155-158, 284-287) |
| `Load` | reads of direction, flag, timeout, and the decision (160-189, 289-317) |
| `Store` | writes of flag and timeout, read of `state.nat` (164-191, 294-319) |
| `LookupReverse`, `CopyToReverse` | the other half (203-210, 331-338) |
| `Resolve` | `PNIC_ARRAY` or `EXPOSE_MAP`, FIB, clock (215-254, 343-384) |
| `InsertOriginal`, `InsertReply` | the two inserts (256-257, 386-387) |
| `GcTick`, `GcVisit`, `GcCollected`, `GcRemove`, `GcDone` | the task (daemon/main.rs 241-257) |
| `Expose`, `Unexpose` | the environment's edits of `EXPOSE_MAP` (expose.rs 107, 207) |
| `Tick` | the clock |

Abstractions. MAC addresses and the devmap key are left out: no decision reads
them, and the key follows from the address. The loads of one burst, and the
stores of one burst, are one step; a 64-bit store does not tear on the targets.
The clock is a small number. Translation of the packet itself is in
`HeaderRewrite`. Traffic between containers of one host, for which the
destination of an inside tuple is a container, is not modelled. Key iteration
of the collector (`bpf_map_get_next_key`) is a visit, in any order, of the keys
present when it started; a key that appears meanwhile is left for the next
round. `NicAddrs` are the addresses datagrams reach the NIC with: `PNIC_ARRAY` holds
one of them, `NicIP`, but `process_udp_dnat` takes the address from the datagram and
asks `EXPOSE_MAP` by port alone (ebpf 284, 348, 374-380), so that a second address of
the NIC serves the same ports and has tuples of its own. 64-bit overflow of timeouts, some 580 years of uptime, is not modelled.

### FlowHistory

A flow is what a handler decides on a miss: an inside endpoint, the endpoint of the NIC
that stands for it, and a remote one. It has two tuples. Three variables that the code
does not have record the past without restricting a step (`HNext == Next /\ Record`):
`granted`, the entries `EXPOSE_MAP` has held in this life; `opened`, the flows that were
opened and of which a handler or an entry is left; and `disturbed`, those among them to
which something has happened that the code has no protection against:

- a second CPU was at work on one of its tuples (`TwoAtWork`),
- a handler held a pointer to an element that had been given away, and its tuples or
  that element's had to do with the flow (`StrayAtWork`),
- another flow shared one of its tuples (`Crossed`),
- the collector removed a half (`Collected`),
- an insert found the map full (`Refused`).

`HalvesAgree` and `LifetimeNeverShortened` speak of undisturbed flows, on any number of
CPUs and next to any number of disturbed ones: they say that the list is complete.
`Provenance` speaks of every flow and every entry, `AnswersLeadBack` and
`ResponsesKeepAddress` of every tuple that no two flows share.

### ControlPlane

`ports` is the allocator's queue, `lock` the fair lock (holder first),
`handler[c]` how far the request of a client has got, `rules` the chain.
A handler is split where it runs `iptables`: `ExposeInsert`, then `ExposeAddRule`
or `ExposeRollback`; `UnexposeDeleteRule`, then `UnexposeRemove`. The early
returns are `ExposeRefused` (404, 503), `ExposeMapFails` and `UnexposeRefused`.
A failing command (`CommandsFail`) and a deletion of a rule that is not there
are both error paths. `Disconnect` drops a handler that waits. `Signal`,
`CleanUp`, `Exit`, `Crash` and `Restart` are the life of the daemon: `Exit`
waits for a handler that is running, which blocks its worker thread.

### HeaderRewrite and PacketPath

16-bit words are numbers below `Base`, 32-bit ones below `Base * Base`. `rest`
is the sum of the words the code never touches. One's complement sums do not
depend on byte order. Each rewriting function is one step, as it is in the code
for one packet.

`PacketPath` gives every datagram the set of frames it arrives in, with the fields
the program looks at. `IsPlainUdp` is the conjunction of the checks in the order
of the code (ebpf 66-110); `Pass` is any of the early returns, or a handler that
finds no translation; `Translate` is a rewriting and the redirect; `Hop` is the way
to the next host, which translates again. Which translation a datagram gets is left
to `UdpConntrack`.

### Startup

`main` is the call the daemon has got to and `todo` what the loop it is in has yet
to visit, in any order, as `HashMap` iterates.

| Action | Code (daemon/main.rs) |
|---|---|
| `Configure`, `Inspect`, `Discover`, `Mode` | configuration and `get_containers` (37-116, 309-322) |
| `AttachContainer`, `SetupDevmap` | `attach_container_xdp`, `setup_devmap` (187-221) |
| `LoadStub`, `Spawn`, `Join`, `OpenNamespace`, `Lock`, `Load`, `AttachStub`, `Panic` | `attach_namespace_pass_programs` (262-298, 327-330) |
| `NicKey`, `NicAttach`, `NicArray` | `setup_pnic` and the discarded result after it (223-260, 332-336) |
| `Reserve`, `Serve`, `Bind`, `BindFails` | `reserve_kernel_ports` (136-151), the server's task (338-345, server.rs) |
| `Abort`, `Terminate` | `?` and `expect`; a signal (347-363) |
| `StartContainer`, `StopContainer` | Docker, and the kernel, which drops the devmap entry of an interface that goes |
| `Expose`, `Unexpose`, `OpenFromContainer`, `OpenFromNic`, `Forget` | the service and the programs, as abstract as `NatTable` |

`Abort` is enabled at every call with `?`, whatever the reason of the failure.
`Panic` releases the mutex and poisons it, as the guard does when a thread unwinds
with it; a thread that comes later unwraps the poison and panics as well, and `Join`
does not look at the results. A flow is opened from a container with the address
found in `PNIC_ARRAY`; an element nobody has set holds zero for address and interface.
That the kernel's FIB lookup fails for interface zero (`HasRoute`) is an assumption
about the kernel, not something the code tests, and no property is made of it.

### NatDaemon

`CP` and `CT` are instances over the same variables, except that what `CT` calls
`exposed` is the contents of `expose_map`. `Control` is a step of `ControlPlane`; when
the process goes, the connection table, the handlers on the CPUs and the collector go
with it, and what is on record of them. `DataPath` is a step of the tracker's programs or of the collector while the
process exists, also during `clean_up`. `TrackerContract` says that nothing the
control plane does surprises the tracker: every step of the composition is one of
the tracker, whose environment (`Expose`, `Unexpose`) is therefore not too narrow.

## Runs

| Run | Bounds | Shows |
|---|---|---|
| `ct_smp` | 2 CPUs, one flow, 2 elements, clock to 2, lives 1 and 2 | `TypeOK`; `TimeoutBounded`; `TableSpec`: the tracker implements `NatTable`; `HalvesAgree`, `LifetimeNeverShortened` |
| `ct_pairs` | 2 CPUs, 2 containers that send from port 1 to one server, port 3 exposed for either and reached by a second address, 4 elements, nothing expires | `PairComplete`, `Provenance`, `AnswersLeadBack`, `ResponsesKeepAddress` |
| `ct_gc` | 1 CPU, 2 containers that collide, 2 elements, clock to 2, fair | `ExpiredIsCollected`, `AnswersLeadBack` |
| `ct_collision` | two containers, same source port | violated: `ReplyReturnsToSender` |
| `ct_orphan` | 1 CPU, one flow, expiry and collection | violated: `LiveFlowIsWhole` |
| `cp` | 2 clients, 3 ports, map of 2, failing commands, crash, 2 lives, fair | `TypeOK`, `PortsPartitioned`, `TcpMatchesUdp`, `ExposedHasRule`, `ServiceSpec`, `Answered` |
| `cp_shutdown` | as `cp`, no failure, no crash | violated: `TcpFollowsUdp` |
| `path` | words of 3 bits, 6 addresses around the carries, 8 trains of frames, 2 translations | `IpChecksumValid`, `UdpChecksumValid`, `NeverTorn`, `RewritesOnlyUdp` |
| `header_zero` | words of 2 bits | violated: `PortTranslated` |
| `startup` | 2 containers, 3 devmap entries, every call may fail, fair | `TypeOK`, `TranslatedIsRedirected`, `FlowsHaveNic`, `StubsComplete`, `StartupEnds` |
| `startup_dynamic` | as `startup` | violated: `KnowsRunning` |
| `daemon` | 1 CPU, 1 client, a pool of 1 port for 2 endpoints with another port number, a second address, 2 lives, clock to 1, nothing expires | `TrackerContract`, `Provenance`, `HalvesAgree`, `LifetimeNeverShortened`, `ResponsesKeepAddress` |

Why the bounds are enough. Two CPUs are what a race on an entry needs, and two
elements (the two halves) force every reuse of an element: a new insert always
takes one that a handler may still point into. In `ct_pairs` each container opens a flow
itself and is reached through the exposed port, which is not the port it sends from, as
in the testbed's deployment; their flows share the NIC's tuple of the answers, a
container's two flows share its own tuple, and the port changes hands in between. The clock of `ct_smp` and `ct_gc`
passes both lifetimes. For the control plane a map smaller than the range, as in
the code (256 entries, 2001 ports), two clients for the queue, and two lives
for what a stop or a crash leaves behind. Three-bit words reach all carries of
`csum_add` and both folds, because each depends on the comparison with the base
and not on its size; the trains have frames one byte short of each check, one
with options, and a fragment that would pass for whole but for its offset. Two
containers are two threads, one of which poisons the mutex the other waits for.
The one port in `daemon` is exposed, rolled back, withdrawn and exposed again, for the
same endpoint or the other, in the middle of a flow or a refresh; a second port adds
nothing to that, and what several ports share is in `ct_pairs` and in the theorems. Elements and clients are
symmetric where a run checks no liveness property.

Conditions. `HalvesAgree` and `LifetimeNeverShortened` exempt disturbed flows: with two
CPUs at work on one flow the stores of one race with the copy of the other and can put
back an older timeout, and the collector can part two halves (finding 2).
`PairComplete` needs room for both halves and that nothing expires, for the same reason.
`AnswersLeadBack` and `ResponsesKeepAddress` exempt shared tuples. Sharing is not rare:
two containers that use one source port (finding 4) share the tuple of the answers, and
a container that has opened a flow to a client answers, when the client then comes
through an exposed port with another number, from the port of that first flow.
The deadlock check is off in `cp`,
`cp_shutdown` and `daemon`, because a daemon that is down after its last life stays
down, and in `path` and `header_zero`, where a datagram is translated a bounded
number of times.

### Fairness

`UdpConntrack!FairSpec`: the collecting task is polled for as long as the runtime
lives (`loop` around `tick().await`), an XDP program always runs to its end, and
time passes. No packet has to arrive and nobody has to expose a port.
`ControlPlane!FairSpec`: the handler at the head of the queue goes on; tokio's
`RwLock` is first come, first served, and a handler awaits nothing else. No
request, stop or restart is owed. An `iptables` command is taken to end.
`Startup!FairSpec`: the calls of `main` and of each thread return, with success or
without. No call has to succeed, no container has to start or stop, and the lock of
the mutex need not be fair: a thread takes it once.

### Findings

1. A datagram without a UDP checksum gets its address translated, not its port
   (`header_zero`).
2. The collector tests the two halves of a flow one after the other and removes
   them later. A packet in between keeps one half alive; traffic in that direction
   then never restores the other, and the answers are dropped (`ct_orphan`).
3. `clean_up` can be overtaken by a handler whose rule then outlives the daemon
   and captures the TCP traffic of the next life (`cp_shutdown`).
4. Two containers with the same source port towards one server collide, and one
   receives the other's answers (`ct_collision`).
5. The network's containers are listed once; one started later is unknown to the
   daemon for as long as it runs (`startup_dynamic`).

One more disagreement, without a run: `docker-testbed/exec_order.txt` exposes two ports
and then measures on 12000 and 11999, as if ports were taken from the end of the range.
`PortAllocator` is a queue (`port_allocator.rs`: filled in ascending order, `pop_front`),
and so is `ControlPlane!ports`: a daemon that has just started hands out 10000 and 10001.

## Proofs

For all values of the constants that satisfy the named assumptions:

| Module | Theorem | States |
|---|---|---|
| `UdpConntrackProofs` | `TypeCorrect` | `Spec => []TypeOK` |
| `UdpConntrackRefinement` | `Refinement` | `Spec => TableSpec` |
| | `LifetimeBounded` | `Spec => []TimeoutBounded` |
| `UdpConntrackFlows` | `FlowsAreWhole` | `ASSUME NothingExpires, Room PROVE Spec => []PairComplete` |
| `FlowHistoryProofs` | `TranslationsFounded` | `HSpec => []Provenance` |
| | `AnswersReturn` | `HSpec => []AnswersLeadBack` |
| | `ResponsesKeep` | `HSpec => []ResponsesKeepAddress` |
| | `HalvesAlwaysAgree` | `HSpec => []HalvesAgree` |
| | `LifeIsKept` | `HSpec => LifetimeNeverShortened` |
| `ControlPlaneProofs` | `TypeCorrect` | `Spec => []TypeOK` |
| | `PortsNeverLost` | `Spec => []PortsPartitioned` |
| | `RulesPresent` | `Spec => []ExposedHasRule` |
| | `TcpAgreesWithUdp` | `Spec => []TcpMatchesUdp` |
| | `ImplementsService` | `Spec => ServiceSpec` |
| `NatDaemonProofs` | `ContractKept` | `Spec => TrackerContract` |
| | `ServiceKept` | `Spec => CPP!ServiceSpec /\ []CPP!PortsPartitioned` |
| | `TranslationsFounded` | `Spec => []Provenance` |
| | `AnswersReturn` | `Spec => []CT!AnswersLeadBack` |
| | `ResponsesKeep` | `Spec => []ResponsesKeepAddress` |
| | `HalvesAlwaysAgree` | `Spec => []HalvesAgree` |
| | `LifeIsKept` | `Spec => LifetimeNeverShortened` |
| | `FlowsAreWhole` | `ASSUME CTP!NothingExpires, CTP!Room PROVE Spec => []CT!PairComplete` |
| `StartupProofs` | `TypeCorrect` | `Spec => []TypeOK` |
| | `AlwaysRedirected` | `Spec => []TranslatedIsRedirected` |
| | `FlowsAlwaysHaveNic` | `Spec => []FlowsHaveNic` |
| | `StubsAlwaysComplete` | `Spec => []StubsComplete` |
| `PacketPathProofs` | `IpValidOnPath`, `UdpValidOnPath` | `PathSpec => []IpChecksumValid`, `[]UdpChecksumValid` |
| | `NeverTornHolds` | `PathSpec => []NeverTorn` |
| | `OnlyUdpRewritten` | `PathSpec => []RewritesOnlyUdp` |

### The tracker

The assumptions are `AddressAssumption` (containers and remotes have different addresses,
none of them the NIC's), `TrafficAssumption` (what the constants contain) and
`TimeAssumption`; TLC evaluates them in every run.

The inductive invariant is `IInv == TypeOK /\ PendingInsert /\ AllAdmissible`. An entry
is decided in `Resolve`, before it is inserted, and `EXPOSE_MAP` may change meanwhile;
`PendingInsert` says that what a handler is about to insert is something a first packet
can have been given. `TypeOK` carries what makes a dangling pointer harmless to the
translation: elements are not shared by two tuples, and a pointer is to an element that
has been used. Each action has a lemma for the step; the map's operations have one each
(`InsertEffect`, `WriteEffect`, `RemoveEffect`), so that the handlers' steps are
reasoned about by what the map does.

`Refinement` takes `IInv` on both sides of a step: an insert establishes an
admissible binding for a free tuple, a removal forgets one, and a store through
any pointer leaves the bindings as they are. `LifetimeBounded` needs a second
invariant, `TimeInv`, over all elements, since a stale pointer may read one that
is no longer in the map, and over the times handlers hold, since they are written
after the clock has moved.

### Flows

`NothingExpires` says that the clock does not reach `TIMEOUT_NEW`; then every life ever
given ends after the last moment (`Lasting`), and the collector finds nothing to remove.

`FlowsAreWhole` holds on any number of CPUs. `PairComplete` speaks of moments without a
handler; `PairInv` says for the others that the half that is missing is the one some
handler is about to insert. Each insert may fail because another CPU was faster: then the
tuple is there already, and that handler's own second insert is still to come or the other
one's is. It may also fail because the map is full. `Room`, an element for every tuple a
first packet may bring in, excludes that: by counting, an element is free while one of
those tuples is missing (`RoomLeft`).

The theorems of `FlowHistoryProofs` have no condition on traffic, exposures, CPUs, map or
timeouts. Their invariant, `HInv`, adds to `IInv` and `TimeInv`:

- `Recorded`: a handler on its way to the inserts, and every entry, has its flow on
  record, and every flow there has its reason. An entry's flow stays on record as long as
  the entry does, since it is then something that is left of the flow. `Provenance`
  follows. With it, an inside tuple and its answer's tuple are halves of recorded flows,
  and of one flow unless the tuple is shared; hence `AnswersReturn` and `ResponsesKeep`.
- `FlowOK`, for each undisturbed flow: as long as nobody works on it both halves are there
  and equal (`Settled`); otherwise one handler does, and `Status` says what it knows at
  each point of its way. Between the store and the copy the half it came for is `Ahead`
  of the other, and what it is about to write is not older than what is there.

A step is looked at from one flow: if it leaves the flow undisturbed (`Ongoing`), at most
one handler is at work on it before and after (`AloneNext`), that handler's element is
its own, and every other step leaves the flow's entries as they are. That is where the
five kinds of disturbance are needed, each for the step it names.

### The control plane

`ControlPlaneAssumption` asks for a range of ports, a map and at least one life. The head
of the module has what the queues rest on: `Append`, `Tail` and `RemoveFirst` keep a
sequence without repetitions and add or take one element.

`TypeOK` is inductive, in three parts: `LockOK` (the queue of the lock holds each handler
that is not idle once, and one that runs is at its head), `DataOK`, and `HeldPort` (the
port in a handler's hands is exposed). From `LockOK` follows mutual exclusion (`OneRuns`,
`NoneRuns`), and from this what a step may do to the shared state, whoever takes it
(`EveryStep`): it takes a port, adds a rule, deletes a rule, gives a port back, rotates
the free ports, or leaves them alone. The other invariants are proved over these effects.
`ExposedHasRule` needs to know that a process that is down has nothing exposed
(`DownIsEmpty`), for rules of older lives may be there when the next one starts.
`ImplementsService`: adding the rule and deleting it are the steps of the service, the end
of the process withdraws everything, and the rest is a stutter.

### The daemon

`NatDaemonProofs` reaches the components' theorems through instances of the proof modules.
A module's operators reached through two instances are the same operators; that is proved
action by action (`SameControl`, `SameTracker`, `SameInEveryState`, `SameProperties`).

`TrackerStep` is the heart: from `ControlPlane!TypeOK`, each of the effects above is for
the tracker a step of its environment or nothing, with one exception, the end of the
process, after which the maps and the record are empty. An empty tracker meets the
tracker's invariants at any time (`NoFlowsHInv`), so they hold in every life. The tracker's
theorems then hold of the daemon for the whole port range and all discovered endpoints
(`MayExpose`). `FlowsAreWhole` alone has conditions: the clock does not reach
`TIMEOUT_NEW`, and there is an element for every tuple.

### Startup

`StartupAssumption` only keeps the model values apart. The invariant is `IInv`, whose
parts are proved to be preserved one by one: the types (`SetsOK`, `FlagsOK`, `WorkOK`),
then `DevmapOK`, the two properties and `ThreadOK`. `TranslatedIsRedirected` speaks of
bindings, which arise long after `REDIRECT_MAP` was filled, so `DevmapOK` says how full
it is by where `main` is: all containers before the NIC is touched, the NIC's key
before its program and its address. That a set `PNIC_ARRAY` means an attached program, because
`main` sets it last, is what makes the key of the answering half present and what
`FlowsHaveNic` says of the flows. `StubsComplete` rests on
`ThreadOK`: a thread that is done has left a stub, and none has panicked as long as no
call has failed; `Join` waits for all of them.

### Checksums and packets

`HeaderAssumption` asks of `Base` only to exceed 1 (it is 65536 in the code) and of
addresses and ports to fit their widths; `TrainAssumption` says what IP does: a
datagram is one frame, or each of its frames has the flag or an offset. The argument
is the one of RFC 1624: `Same(a, b)` is congruence modulo `Base - 1`; `csum_add` is a
sum and the complement a negation up to it (`AddIsSame`, `NotIsSame`), two halvings
leave a word (`FoldIsSame`), hence `csum_replace4` takes out the old value and puts in
the new (`ReplaceIsSame`). `ChecksumInv` states that sum and checksum together leave no
remainder; what the receiver computes follows because no sum of a datagram is zero
(`OnesSumIsSame`). It is needed because "comes out as all ones" is not itself kept by
the steps in between. `PathInv` adds that only a datagram of one frame is translated.

### Only model-checked

Liveness (`ExpiredIsCollected`, `Answered`, `StartupEnds`): liveness under fairness and
ENABLED are beyond the prover. What a recursive definition computes for every input would
need induction over data, which is as well; the models have none. The five properties the
code violates are refuted by TLC. Every invariant and action property of a passing run is
a theorem; `PairComplete` under conditions that the run's instance meets, the others
without.

## Not modelled

MAC addresses and their rewriting (`rewrite_macs`, `get_fib_macs`): no decision reads
them, and nothing updates them once they are in an entry. The parsing of the
configuration and of Docker's answers, the text of the sysctl, logging and telemetry:
their outcome, success or failure, is in `Startup`. The health check answers a
constant. Build scripts and the testbed's notes hold no behaviour of the program.
Traffic between containers of one host. That a flow outlives the withdrawal of its
exposure is what the code does, and no statement of the repository says otherwise, so
no property is made of it. An `EXPOSE_MAP` entry of a container that has stopped stays,
as in the code (`Startup!Unexpose` is the only way out); its address may by then be
another container's, which is outside the model.

## Plan

Done, in this order: tracker and collector with `NatTable`; control plane with
`ExposeService`; header rewriting; proofs about the tracker; startup with its proofs;
classification of packets; the composition `NatDaemon`; proofs about checksums and
packets; proofs about the control plane, the halves of a flow and the daemon; the record
of flows, which took the place of conditions on ports and endpoints.

Next:

1. What remains true of a disturbed flow: how far two CPUs can set its halves apart, and
   for how long.
2. The daemon's table as an implementation of `NatTable` in each of its lives.
3. The service's promise at startup: `Startup` and `ControlPlane` meet at `Serve`.
4. Traffic between containers of one host.
