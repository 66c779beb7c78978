--------------------------- MODULE NatDaemonProofs ---------------------------
(***************************************************************************)
(* What was proved of the control plane and of the tracker, each in its    *)
(* environment, holds of the daemon that runs both over one EXPOSE_MAP.    *)
(* The control plane takes no notice of the tracker, so its theorems carry *)
(* over as they are.  The tracker takes the control plane's steps for its  *)
(* environment's (TrackerContract), and a process that is started again    *)
(* finds the tracker empty.                                                *)
(***************************************************************************)
EXTENDS NatDaemon, TLAPS

\* The two components, with the theorems about them.
CPP == INSTANCE ControlPlaneProofs
CTP == INSTANCE FlowHistoryProofs WITH exposed <- Exposures, Exposable <- MayExpose

\* What the theorems of the components assume of the constants.
LEMMA Assumptions ==
  /\ CPP!ControlPlaneAssumption
  /\ CTP!AddressAssumption /\ CTP!TrafficAssumption /\ CTP!TimeAssumption
BY ControlAssumption, TrackerAssumption
   DEF CP!ControlPlaneAssumption, CT!AddressAssumption, CT!TrafficAssumption,
       CT!TimeAssumption, CT!InsideKeys, CT!OutsideKeys,
       CTP!InsideKeys, CTP!OutsideKeys

(***************************************************************************)
(* A module's operators, reached through two instances with the same       *)
(* substitution, are the same operators: action by action.                 *)
(***************************************************************************)
LEMMA SameQueueOperators ==
  /\ \A s : CP!ToSet(s) = CPP!ToSet(s)
  /\ \A s, e : CP!RemoveFirst(s, e) = CPP!RemoveFirst(s, e)
BY DEF CP!ToSet, CPP!ToSet, CP!RemoveFirst, CPP!RemoveFirst, CP!RemoveAt,
       CPP!RemoveAt, CP!SelectInSeq, CPP!SelectInSeq, CP!Min, CPP!Min

\* Every step of a handler, of main and of the clients.
LEMMA SameControl == [CP!Next]_(CP!vars) => [CPP!Next]_(CPP!vars)
<1> SUFFICES ASSUME CP!Next PROVE CPP!Next
  BY DEF CP!vars, CPP!vars
<1>1. ASSUME NEW c \in Clients, NEW request \in CP!Requests, CP!Request(c, request)
      PROVE  CPP!Request(c, request) /\ request \in CPP!Requests
  BY <1>1
  DEF CP!Request, CPP!Request, CP!Serving, CPP!Serving, CP!Requests,
      CPP!Requests, CP!HostPorts, CPP!HostPorts
<1>2. ASSUME NEW c \in Clients, CP!Disconnect(c)
      PROVE  CPP!Disconnect(c)
  BY <1>2, SameQueueOperators
  DEF CP!Disconnect, CPP!Disconnect, CP!Serving, CPP!Serving, CP!Idle,
      CPP!Idle
<1>3. ASSUME NEW c \in Clients, CP!ExposeRefused(c)
      PROVE  CPP!ExposeRefused(c)
  BY <1>3
  DEF CP!ExposeRefused, CPP!ExposeRefused, CP!Starts, CPP!Starts, CP!Serving,
      CPP!Serving, CP!Answer, CPP!Answer, CP!Idle, CPP!Idle
<1>4. ASSUME NEW c \in Clients, CP!ExposeMapFails(c)
      PROVE  CPP!ExposeMapFails(c)
  BY <1>4
  DEF CP!ExposeMapFails, CPP!ExposeMapFails, CP!Starts, CPP!Starts, CP!Serving,
      CPP!Serving, CP!Answer, CPP!Answer, CP!Idle, CPP!Idle, CP!MapRefuses,
      CPP!MapRefuses, CP!Exposed, CPP!Exposed, CP!Cardinality, CPP!Cardinality
<1>5. ASSUME NEW c \in Clients, CP!ExposeInsert(c)
      PROVE  CPP!ExposeInsert(c)
  BY <1>5
  DEF CP!ExposeInsert, CPP!ExposeInsert, CP!Starts, CPP!Starts, CP!Serving,
      CPP!Serving, CP!Proceed, CPP!Proceed, CP!MapRefuses, CPP!MapRefuses,
      CP!Exposed, CPP!Exposed, CP!Cardinality, CPP!Cardinality
<1>6. ASSUME NEW c \in Clients, CP!ExposeAddRule(c)
      PROVE  CPP!ExposeAddRule(c)
  BY <1>6
  DEF CP!ExposeAddRule, CPP!ExposeAddRule, CP!Serving, CPP!Serving, CP!Answer,
      CPP!Answer, CP!Idle, CPP!Idle, CP!Rule, CPP!Rule
<1>7. ASSUME NEW c \in Clients, CP!ExposeRollback(c)
      PROVE  CPP!ExposeRollback(c)
  BY <1>7
  DEF CP!ExposeRollback, CPP!ExposeRollback, CP!Serving, CPP!Serving,
      CP!Answer, CPP!Answer, CP!Idle, CPP!Idle, CP!Exposed, CPP!Exposed
<1>8. ASSUME NEW c \in Clients, CP!UnexposeRefused(c)
      PROVE  CPP!UnexposeRefused(c)
  BY <1>8, SameQueueOperators
  DEF CP!UnexposeRefused, CPP!UnexposeRefused, CP!Starts, CPP!Starts,
      CP!Serving, CPP!Serving, CP!Answer, CPP!Answer, CP!Idle, CPP!Idle,
      CP!HasRule, CPP!HasRule, CP!RuleOf, CPP!RuleOf, CP!Rule, CPP!Rule,
      CP!Exposed, CPP!Exposed
<1>9. ASSUME NEW c \in Clients, CP!UnexposeDeleteRule(c)
      PROVE  CPP!UnexposeDeleteRule(c)
  BY <1>9, SameQueueOperators
  DEF CP!UnexposeDeleteRule, CPP!UnexposeDeleteRule, CP!Starts, CPP!Starts,
      CP!Serving, CPP!Serving, CP!Proceed, CPP!Proceed, CP!HasRule,
      CPP!HasRule, CP!RuleOf, CPP!RuleOf, CP!Rule, CPP!Rule, CP!Exposed,
      CPP!Exposed
<1>10. ASSUME NEW c \in Clients, CP!UnexposeRemove(c)
      PROVE  CPP!UnexposeRemove(c)
  BY <1>10
  DEF CP!UnexposeRemove, CPP!UnexposeRemove, CP!Serving, CPP!Serving,
      CP!Answer, CPP!Answer, CP!Idle, CPP!Idle, CP!Exposed, CPP!Exposed
<1>11. ASSUME CP!Signal \/ CP!CleanUp \/ CP!Exit \/ CP!Crash \/ CP!Restart
      PROVE  CPP!Signal \/ CPP!CleanUp \/ CPP!Exit \/ CPP!Crash \/ CPP!Restart
  BY <1>11
  DEF CP!Signal, CPP!Signal, CP!CleanUp, CPP!CleanUp, CP!Exit, CPP!Exit,
      CP!Crash, CPP!Crash, CP!Restart, CPP!Restart, CP!Gone, CPP!Gone,
      CP!Serving, CPP!Serving, CP!FreshPorts, CPP!FreshPorts, CP!NoExposure,
      CPP!NoExposure, CP!Idle, CPP!Idle
<1> QED BY <1>1, <1>2, <1>3, <1>4, <1>5, <1>6, <1>7, <1>8, <1>9, <1>10, <1>11
        DEF CP!Next, CPP!Next, CP!Handle, CPP!Handle

\* And the state a process starts in.
LEMMA SameControlInit == CP!Init => CPP!Init
BY DEF CP!Init, CPP!Init, CP!FreshPorts, CPP!FreshPorts, CP!NoExposure,
       CPP!NoExposure, CP!Idle, CPP!Idle

\* The tuples and datagrams of the tracker.
LEMMA SameKeys == CT!Keys = CTP!Keys /\ CT!Packets = CTP!Packets
BY DEF CT!Keys, CTP!Keys, CT!InsideKeys, CTP!InsideKeys, CT!OutsideKeys,
       CTP!OutsideKeys, CT!Packets, CTP!Packets

\* Every step of the XDP programs, the collector, EXPOSE_MAP and the clock.
LEMMA SameTracker == [CT!Next]_ctvars => [CTP!Next]_(CTP!vars)
<1> SUFFICES ASSUME CT!Next PROVE CTP!Next
  BY DEF ctvars, CTP!vars
<1>1. ASSUME NEW c \in Cpus, CT!Load(c)
      PROVE  CTP!Load(c)
  BY <1>1
  DEF CT!Load, CTP!Load, CT!Goto, CTP!Goto, CT!Idle, CTP!Idle, CT!NeedsUpdate,
      CTP!NeedsUpdate, CT!ExpectedTimeout, CTP!ExpectedTimeout
<1>2. ASSUME NEW c \in Cpus, CT!Store(c)
      PROVE  CTP!Store(c)
  BY <1>2
  DEF CT!Store, CTP!Store, CT!Goto, CTP!Goto, CT!Write, CTP!Write
<1>3. ASSUME NEW c \in Cpus, CT!LookupReverse(c)
      PROVE  CTP!LookupReverse(c)
  BY <1>3
  DEF CT!LookupReverse, CTP!LookupReverse, CT!Goto, CTP!Goto, CT!Idle,
      CTP!Idle, CT!ReverseKey, CTP!ReverseKey, CT!ConnectionTuple,
      CTP!ConnectionTuple, CT!Linked, CTP!Linked
<1>4. ASSUME NEW c \in Cpus, CT!CopyToReverse(c)
      PROVE  CTP!CopyToReverse(c)
  BY <1>4
  DEF CT!CopyToReverse, CTP!CopyToReverse, CT!Goto, CTP!Goto, CT!Idle,
      CTP!Idle, CT!Write, CTP!Write
<1>5. ASSUME NEW c \in Cpus, CT!Resolve(c)
      PROVE  CTP!Resolve(c)
  BY <1>5
  DEF CT!Resolve, CTP!Resolve, CT!Goto, CTP!Goto, CT!Idle, CTP!Idle,
      CT!FirstNat, CTP!FirstNat, CT!NATData, CTP!NATData
<1>6. ASSUME NEW c \in Cpus, CT!InsertOriginal(c)
      PROVE  CTP!InsertOriginal(c)
  BY <1>6
  DEF CT!InsertOriginal, CTP!InsertOriginal, CT!Goto, CTP!Goto,
      CT!InsertNoExist, CTP!InsertNoExist, CT!Linked, CTP!Linked, CT!FreeSlots,
      CTP!FreeSlots, CT!FlowState, CTP!FlowState
<1>7. ASSUME NEW c \in Cpus, CT!InsertReply(c)
      PROVE  CTP!InsertReply(c)
  BY <1>7
  DEF CT!InsertReply, CTP!InsertReply, CT!Goto, CTP!Goto, CT!Idle, CTP!Idle,
      CT!InsertNoExist, CTP!InsertNoExist, CT!Linked, CTP!Linked, CT!FreeSlots,
      CTP!FreeSlots, CT!FlowState, CTP!FlowState, CT!ReverseKey,
      CTP!ReverseKey, CT!ReverseNat, CTP!ReverseNat, CT!ConnectionTuple,
      CTP!ConnectionTuple, CT!NATData, CTP!NATData
<1>8. ASSUME NEW c \in Cpus, CT!Handle(c)
      PROVE  CTP!Handle(c)
  BY <1>1, <1>2, <1>3, <1>4, <1>5, <1>6, <1>7, <1>8
  DEF CT!Handle, CTP!Handle
<1>9. ASSUME NEW c \in Cpus, NEW pkt \in CT!Packets, CT!Receive(c, pkt)
      PROVE  pkt \in CTP!Packets /\ CTP!Receive(c, pkt)
  BY <1>9, SameKeys
  DEF CT!Receive, CTP!Receive, CT!Goto, CTP!Goto, CT!Linked, CTP!Linked
<1>10. ASSUME CT!Gc
      PROVE  CTP!Gc
  BY <1>10, SameKeys
  DEF CT!Gc, CTP!Gc, CT!GcTick, CTP!GcTick, CT!GcVisit, CTP!GcVisit,
      CT!GcCollected, CTP!GcCollected, CT!GcRemove, CTP!GcRemove, CT!GcDone,
      CTP!GcDone, CT!Remove, CTP!Remove, CT!Linked, CTP!Linked, CT!Entry,
      CTP!Entry
<1>11. ASSUME (\E e \in MayExpose : CT!Expose(e) \/ CT!Unexpose(e)) \/ CT!Tick
      PROVE  (\E e \in MayExpose : CTP!Expose(e) \/ CTP!Unexpose(e)) \/ CTP!Tick
  BY <1>11
  DEF CT!Expose, CTP!Expose, CT!Unexpose, CTP!Unexpose, CT!Tick, CTP!Tick
<1> QED BY <1>8, <1>9, <1>10, <1>11 DEF CT!Next, CTP!Next

\* The flows of the history, and who works on them.
LEMMA SameFlows ==
  /\ \A f : CT!Tuples(f) = CTP!Tuples(f)
  /\ \A pkt, nat : /\ CT!FlowOf(pkt, nat) = CTP!FlowOf(pkt, nat)
                   /\ CT!ReverseKey(pkt, nat) = CTP!ReverseKey(pkt, nat)
BY DEF CT!Tuples, CTP!Tuples, CT!InsideTuple, CTP!InsideTuple, CT!OutsideTuple,
       CTP!OutsideTuple, CT!ConnectionTuple, CTP!ConnectionTuple, CT!FlowOf,
       CTP!FlowOf, CT!NATData, CTP!NATData, CT!ReverseKey, CTP!ReverseKey

\* What of a state goes on record.
SameState ==
  /\ \A f : /\ CT!TwoAtWork(f) <=> CTP!TwoAtWork(f)
            /\ CT!StrayAtWork(f) <=> CTP!StrayAtWork(f)
            /\ CT!Crossed(f) <=> CTP!Crossed(f)
            /\ CT!Left(f) <=> CTP!Left(f)
  /\ CT!Opening = CTP!Opening
  /\ CT!Linked = CTP!Linked

\* It is the same through both instances.
LEMMA SameInEveryState == SameState
<1>1. /\ \A r : /\ CT!Work(r) = CTP!Work(r)
               /\ CT!LookedUp(r) = CTP!LookedUp(r)
      /\ CT!Linked = CTP!Linked
  BY SameFlows DEF CT!Work, CTP!Work, CT!OtherHalf, CTP!OtherHalf, CT!LookedUp,
                   CTP!LookedUp, CT!Linked, CTP!Linked
<1>2. /\ \A f : \A c : CT!WorksOn(c, f) <=> CTP!WorksOn(c, f)
      /\ \A r : (CT!Strayed(r) <=> CTP!Strayed(r)) /\ CT!Hit(r) = CTP!Hit(r)
  BY <1>1, SameFlows DEF CT!WorksOn, CTP!WorksOn, CT!Strayed, CTP!Strayed,
                         CT!Hit, CTP!Hit
<1>3. \A f : CT!TwoAtWork(f) <=> CTP!TwoAtWork(f)
  BY <1>2 DEF CT!TwoAtWork, CTP!TwoAtWork
<1>4. \A f : CT!StrayAtWork(f) <=> CTP!StrayAtWork(f)
  BY <1>1, <1>2, SameFlows DEF CT!StrayAtWork, CTP!StrayAtWork
<1>5. \A f : CT!Crossed(f) <=> CTP!Crossed(f)
  BY SameFlows DEF CT!Crossed, CTP!Crossed
<1>6. \A f : CT!Left(f) <=> CTP!Left(f)
  BY <1>1, <1>2, SameFlows DEF CT!Left, CTP!Left
<1>7. CT!Opening = CTP!Opening
  BY SameFlows DEF CT!Opening, CTP!Opening
<1>8. CT!Linked = CTP!Linked
  BY <1>1
<1> QED BY <1>3, <1>4, <1>5, <1>6, <1>7, <1>8, Zenon DEF SameState

\* And what of a step does.
LEMMA SameRecord == CT!Record => CTP!Record
<1> SUFFICES ASSUME CT!Record PROVE CTP!Record
  OBVIOUS
<1>1. SameState /\ SameState'
  BY SameInEveryState, PTL
<1>2. \A f : CT!Collected(f) <=> CTP!Collected(f)
  BY <1>1, SameFlows DEF SameState, CT!Collected, CTP!Collected
<1>3. \A r : CT!OtherHalf(r) = CTP!OtherHalf(r)
  BY SameFlows DEF CT!OtherHalf, CTP!OtherHalf
<1>4. \A f : CT!Refused(f) <=> CTP!Refused(f)
  BY <1>1, <1>3, SameFlows DEF SameState, CT!Refused, CTP!Refused
<1>5. /\ granted' = granted \cup Exposures'
      /\ opened' = {f \in opened \cup CTP!Opening' : CTP!Left(f)'}
  BY <1>1 DEF SameState, CT!Record
<1>6. disturbed' = {f \in opened' :
                     \/ f \in disturbed
                     \/ CTP!Collected(f)
                     \/ CTP!Refused(f)
                     \/ CTP!TwoAtWork(f)' \/ CTP!StrayAtWork(f)' \/ CTP!Crossed(f)'}
  BY <1>1, <1>2, <1>4 DEF SameState, CT!Record
<1> QED BY <1>5, <1>6 DEF CTP!Record
-----------------------------------------------------------------------------
(***************************************************************************)
(* EXPOSE_MAP, from the control plane to the tracker.                      *)
(***************************************************************************)
\* What the control plane puts into EXPOSE_MAP is what the tracker expects.
LEMMA ExposuresType == CPP!TypeOK => Exposures \subseteq MayExpose
BY DEF CPP!TypeOK, CPP!Exposed, CPP!HostPorts, CP!HostPorts, Exposures, MayExpose

\* A handler changes one entry, and adds one only for a port that has none.
LEMMA OneExposure ==
  ASSUME CPP!TypeOK, CPP!Effect, daemon' # "down"
  PROVE  \/ Exposures' = Exposures
         \/ \E e \in MayExpose : /\ \A x \in Exposures : x.port # e.port
                                 /\ Exposures' = Exposures \cup {e}
         \/ \E e \in MayExpose : /\ e \in Exposures
                                 /\ Exposures' = Exposures \ {e}
<1>1. /\ DOMAIN expose_map \subseteq CP!HostPorts
      /\ expose_map \in [DOMAIN expose_map -> Known]
  BY DEF CPP!TypeOK, CPP!Exposed, CPP!HostPorts, CP!HostPorts
<1>2. ASSUME UNCHANGED expose_map
      PROVE  Exposures' = Exposures
  BY <1>2 DEF Exposures
<1>3. ASSUME NEW p \in CPP!HostPorts, NEW t \in Known, CPP!Takes(p, t)
      PROVE  \E e \in MayExpose : /\ \A x \in Exposures : x.port # e.port
                                  /\ Exposures' = Exposures \cup {e}
  <2> DEFINE e == [port |-> p, target |-> t]
  <2>1. /\ p \notin DOMAIN expose_map
        /\ expose_map' = [q \in DOMAIN expose_map \cup {p} |->
                            IF q = p THEN t ELSE expose_map[q]]
    BY <1>3 DEF CPP!Takes, CPP!Exposed
  <2>2. e \in MayExpose /\ e.port = p
    BY DEF MayExpose, CP!HostPorts, CPP!HostPorts
  <2>3. \A x \in Exposures : x.port # p
    BY <2>1 DEF Exposures
  <2>4. /\ DOMAIN expose_map' = DOMAIN expose_map \cup {p}
        /\ expose_map'[p] = t
        /\ \A q \in DOMAIN expose_map : expose_map'[q] = expose_map[q]
    BY <2>1
  <2>5. Exposures' = Exposures \cup {e}
    BY <2>4 DEF Exposures
  <2> HIDE DEF e
  <2> QED BY <2>2, <2>3, <2>5
<1>4. ASSUME NEW p \in CPP!HostPorts, CPP!GivesBack(p)
      PROVE  \E e \in MayExpose : e \in Exposures /\ Exposures' = Exposures \ {e}
  <2> DEFINE e == [port |-> p, target |-> expose_map[p]]
  <2>1. /\ p \in DOMAIN expose_map
        /\ expose_map' = [q \in DOMAIN expose_map \ {p} |-> expose_map[q]]
    BY <1>4 DEF CPP!GivesBack, CPP!Exposed
  <2>2. e \in Exposures /\ e \in MayExpose
    BY <1>1, <2>1 DEF Exposures, MayExpose
  <2>3. /\ DOMAIN expose_map' = DOMAIN expose_map \ {p}
        /\ \A q \in DOMAIN expose_map \ {p} : expose_map'[q] = expose_map[q]
    BY <2>1
  <2>4. Exposures' = {[port |-> q, target |-> expose_map[q]] :
                      q \in DOMAIN expose_map \ {p}}
    BY <2>3 DEF Exposures
  <2>5. \A q : [port |-> q, target |-> expose_map[q]] = e => q = p
    OBVIOUS
  <2>6. Exposures \ {e} = {[port |-> q, target |-> expose_map[q]] :
                            q \in DOMAIN expose_map \ {p}}
    BY <2>5 DEF Exposures
  <2> HIDE DEF e
  <2> QED BY <2>2, <2>4, <2>6
<1>5. ASSUME NEW p, CPP!Adds(p) \/ CPP!Deletes(p)
      PROVE  UNCHANGED expose_map
  BY <1>5 DEF CPP!Adds, CPP!Deletes
<1>6. ASSUME CPP!Rotates \/ CPP!Rests \/ CPP!Flushes \/ CPP!Restarts
      PROVE  UNCHANGED expose_map
  BY <1>6 DEF CPP!Rotates, CPP!Rests, CPP!Flushes, CPP!Restarts
<1>7. ~ CPP!Ends
  BY DEF CPP!Ends
<1> QED BY <1>2, <1>3, <1>4, <1>5, <1>6, <1>7 DEF CPP!Effect

\* The end of the process leaves EXPOSE_MAP empty.
LEMMA NoExposureDown == CP!Next /\ daemon' = "down" => Exposures' = {}
<1> SUFFICES ASSUME CP!Next, daemon' = "down" PROVE Exposures' = {}
  OBVIOUS
<1>1. ASSUME CP!Serving, UNCHANGED daemon
      PROVE  FALSE
  BY <1>1 DEF CP!Serving
<1>2. CP!Gone
  BY <1>1 DEF CP!Next, CP!Handle, CP!Request, CP!Disconnect, CP!ExposeRefused,
     CP!ExposeMapFails, CP!ExposeInsert, CP!ExposeAddRule, CP!ExposeRollback,
     CP!UnexposeRefused, CP!UnexposeDeleteRule, CP!UnexposeRemove, CP!Starts,
     CP!Signal, CP!CleanUp, CP!Exit, CP!Crash, CP!Restart
<1>3. DOMAIN expose_map' = {}
  BY <1>2 DEF CP!Gone, CP!NoExposure
<1> QED BY <1>3 DEF Exposures

\* The daemon's steps, for the control plane: it does not see the tracker's.
LEMMA ControlStep == [Next]_vars => [CPP!Next]_(CPP!vars)
BY SameControl DEF Next, vars, Control, DataPath, Clock, control, CP!vars

\* And for the tracker, as long as the process lives or no one works on it.
LEMMA TrackerStep ==
  ASSUME CPP!TypeOK, [Next]_vars
  PROVE  \/ [CT!Next]_ctvars /\ CT!Record
         \/ UNCHANGED <<ctvars, history>>
         \/ /\ daemon' = "down" /\ TableIsGone
            /\ UNCHANGED now /\ Exposures' = {}
<1>1. CASE Control /\ daemon' # "down"
  <2>1. UNCHANGED <<now, index, cells, run, gc>> /\ CT!Record
    BY <1>1 DEF Control, tracker
  <2>2. CPP!Effect
    BY ControlStep, CPP!EveryStep, Assumptions
  <2>3. \/ UNCHANGED Exposures
        \/ \E e \in MayExpose : CT!Expose(e) \/ CT!Unexpose(e)
    BY <1>1, <2>1, <2>2, OneExposure DEF CT!Expose, CT!Unexpose
  <2> QED BY <2>1, <2>3 DEF CT!Next, ctvars
<1>2. CASE Control /\ daemon' = "down"
  <2>1. UNCHANGED now /\ TableIsGone
    BY <1>2 DEF Control
  <2>2. Exposures' = {}
    BY <1>2, NoExposureDown DEF Control
  <2> QED BY <1>2, <2>1, <2>2
<1>3. ASSUME UNCHANGED control
      PROVE  UNCHANGED Exposures
  BY <1>3 DEF control, Exposures
<1>4. CASE DataPath
  BY <1>4 DEF DataPath, CT!Next
<1>5. CASE Clock
  BY <1>5 DEF Clock, CT!Next
<1>6. CASE UNCHANGED vars
  <2>1. UNCHANGED <<control, now, index, cells, run, gc, history>>
    BY <1>6 DEF vars, tracker
  <2> QED BY <1>3, <2>1 DEF ctvars
<1> QED BY <1>1, <1>2, <1>4, <1>5, <1>6 DEF Next

\* The process ends only into an empty tracker.
LEMMA TableGone == TableIsGone => CTP!NoFlows' /\ CTP!NoHistory'
BY DEF TableIsGone, CTP!NoFlows, CTP!NoHistory, CT!Vacant, CTP!Vacant, CT!Idle,
       CTP!Idle

(***************************************************************************)
(* As long as the process lives, every step of the daemon is a step of the *)
(* tracker in its environment: expose_port, its rollback and unexpose_port *)
(* change one entry of EXPOSE_MAP, insert only for a free port and only    *)
(* what was discovered, and nothing the process does meanwhile touches the *)
(* table.                                                                  *)
(***************************************************************************)
THEOREM ContractKept == Spec => TrackerContract
<1>1. Init => CPP!TypeOK
  BY SameControlInit, CPP!InitTypeOK, Assumptions DEF Init
<1>2. CPP!TypeOK /\ [Next]_vars => CPP!TypeOK'
  BY ControlStep, CPP!NextTypeOK, Assumptions
<1>3. CPP!TypeOK /\ [Next]_vars => [daemon' # "down" => [CT!Next]_ctvars]_vars
  BY TrackerStep
<1> QED BY <1>1, <1>2, <1>3, PTL DEF Spec, TrackerContract

(***************************************************************************)
(* The daemon's control plane is the control plane by itself: no datagram  *)
(* and no collection holds it up or changes what it keeps.  What was       *)
(* proved of it holds here, above all that it keeps its service's promise  *)
(* and gives a port to one endpoint at a time.                             *)
(***************************************************************************)
THEOREM ServiceKept == Spec => CPP!ServiceSpec /\ []CPP!PortsPartitioned
<1>1. Init => CPP!Init
  BY SameControlInit DEF Init
<1>2. Spec => CPP!Spec
  BY <1>1, ControlStep, PTL DEF Spec, CPP!Spec
<1> QED BY <1>2, CPP!ImplementsService, CPP!PortsNeverLost, Assumptions, PTL
-----------------------------------------------------------------------------
(***************************************************************************)
(* The tracker's invariants, through every end and start of the process.   *)
(***************************************************************************)
DaemonInv == CPP!TypeOK /\ CTP!HInv

\* A tracker without flows and without a history meets its invariant at any time.
LEMMA EmptyTracker ==
  CTP!NoFlows /\ CTP!NoHistory /\ now \in Nat /\ Exposures = {} => CTP!HInv
BY CTP!NoFlowsHInv, Assumptions

\* So does the one the next process finds.
LEMMA EmptyTrackerNext ==
  CTP!NoFlows' /\ CTP!NoHistory' /\ now' \in Nat /\ Exposures' = {} => CTP!HInv'
<1>1. (CTP!NoFlows /\ CTP!NoHistory /\ now \in Nat /\ Exposures = {} => CTP!HInv)'
  BY EmptyTracker, PTL
<1> QED BY <1>1

\* The first process finds the tracker empty and the clock at zero.
LEMMA InitDaemonInv == Init => DaemonInv /\ CTP!NoFlows /\ now = 0
<1> SUFFICES ASSUME Init PROVE DaemonInv /\ CTP!NoFlows /\ now = 0
  OBVIOUS
<1>1. CTP!NoFlows /\ now = 0 /\ CTP!NoHistory
  BY DEF Init, CTP!NoFlows, CTP!NoHistory, CT!Vacant, CTP!Vacant, CT!Idle, CTP!Idle
<1>2. CPP!TypeOK
  BY SameControlInit, CPP!InitTypeOK, Assumptions DEF Init
<1>3. DOMAIN expose_map = {}
  BY DEF Init, CP!Init, CP!NoExposure
<1>4. Exposures = {}
  BY <1>3 DEF Exposures
<1> QED BY <1>1, <1>2, <1>4, EmptyTracker DEF DaemonInv

\* A step of the daemon is one the tracker's lemmas are about, or a stutter of the
\* tracker, or the end of the process.
LEMMA DaemonStep ==
  ASSUME DaemonInv, [Next]_vars
  PROVE  \/ [CTP!Next]_(CTP!vars) /\ CTP!Record
         \/ UNCHANGED (CTP!hvars)
         \/ /\ now' \in Nat /\ now' = now /\ Exposures' = {}
            /\ CTP!NoFlows' /\ CTP!NoHistory'
<1>1. CASE [CT!Next]_ctvars /\ CT!Record
  BY <1>1, SameTracker, SameRecord
<1>2. CASE UNCHANGED <<ctvars, history>>
  BY <1>2 DEF ctvars, history, CTP!hvars, CTP!vars, CTP!history
<1>3. CASE daemon' = "down" /\ TableIsGone /\ UNCHANGED now /\ Exposures' = {}
  BY <1>3, TableGone DEF DaemonInv, CTP!HInv, CTP!IInv, CTP!TypeOK
<1> QED BY <1>1, <1>2, <1>3, TrackerStep DEF DaemonInv

\* The invariants survive every step of the daemon: in the tracker's environment
\* by the tracker's own lemmas, at the end of the process since nothing is left.
LEMMA NextDaemonInv == DaemonInv /\ [Next]_vars => DaemonInv'
<1> SUFFICES ASSUME DaemonInv, [Next]_vars PROVE DaemonInv'
  OBVIOUS
<1>1. CPP!TypeOK'
  BY ControlStep, CPP!NextTypeOK, Assumptions DEF DaemonInv
<1>2. CASE [CTP!Next]_(CTP!vars) /\ CTP!Record
  BY <1>1, <1>2, CTP!RecordedStep, Assumptions DEF DaemonInv
<1>3. CASE UNCHANGED (CTP!hvars)
  BY <1>1, <1>3, CTP!StutteringStep, Assumptions DEF DaemonInv
<1>4. CASE CTP!NoFlows' /\ CTP!NoHistory' /\ now' \in Nat /\ Exposures' = {}
  BY <1>1, <1>4, EmptyTrackerNext DEF DaemonInv
<1> QED BY <1>2, <1>3, <1>4, DaemonStep

(***************************************************************************)
(* The properties, too, are the same through both instances.               *)
(***************************************************************************)
LEMMA SameTerms ==
  /\ CT!Linked = CTP!Linked /\ \A k : CT!Entry(k) = CTP!Entry(k)
  /\ CT!InsideKeys = CTP!InsideKeys /\ CT!OutsideKeys = CTP!OutsideKeys
  /\ \A a, p : CT!NATData(a, p) = CTP!NATData(a, p)
  /\ \A k : CT!AnswerTo(k) = CTP!AnswerTo(k) /\ CT!ResponseTo(k) = CTP!ResponseTo(k)
  /\ \A f : /\ CT!InsideTuple(f) = CTP!InsideTuple(f)
            /\ CT!OutsideTuple(f) = CTP!OutsideTuple(f)
            /\ CT!Tuples(f) = CTP!Tuples(f)
  /\ CT!Undisturbed = CTP!Undisturbed
<1>1. CT!Linked = CTP!Linked /\ \A k : CT!Entry(k) = CTP!Entry(k)
  BY DEF CT!Linked, CTP!Linked, CT!Entry, CTP!Entry
<1>2. CT!InsideKeys = CTP!InsideKeys /\ CT!OutsideKeys = CTP!OutsideKeys
  BY DEF CT!InsideKeys, CTP!InsideKeys, CT!OutsideKeys, CTP!OutsideKeys
<1>3. \A a, b, p, q : CT!ConnectionTuple(a, b, p, q) = CTP!ConnectionTuple(a, b, p, q)
  BY DEF CT!ConnectionTuple, CTP!ConnectionTuple
<1>4. \A k : CT!AnswerTo(k) = CTP!AnswerTo(k) /\ CT!ResponseTo(k) = CTP!ResponseTo(k)
  BY <1>1, <1>3 DEF CT!AnswerTo, CTP!AnswerTo, CT!ResponseTo, CTP!ResponseTo
<1>5. \A f : /\ CT!InsideTuple(f) = CTP!InsideTuple(f)
            /\ CT!OutsideTuple(f) = CTP!OutsideTuple(f)
  BY <1>3 DEF CT!InsideTuple, CTP!InsideTuple, CT!OutsideTuple, CTP!OutsideTuple
<1> QED BY <1>1, <1>2, <1>4, <1>5
        DEF CT!NATData, CTP!NATData, CT!Tuples, CTP!Tuples, CT!Undisturbed,
            CTP!Undisturbed

\* What is proved of the one instance is so of the other.
LEMMA SameProperties ==
  /\ CTP!Provenance => Provenance
  /\ CTP!AnswersLeadBack => CT!AnswersLeadBack
  /\ CTP!ResponsesKeepAddress => ResponsesKeepAddress
  /\ CTP!HalvesAgree => HalvesAgree
  /\ CTP!PairComplete => CT!PairComplete
<1>1. CTP!Provenance => Provenance
  BY SameTerms DEF CT!Provenance, CTP!Provenance, CT!Founded, CTP!Founded,
                   CT!HalfOf, CTP!HalfOf, Provenance
<1>2. \A k : CT!Shared(k) <=> CTP!Shared(k)
  BY SameTerms DEF CT!Shared, CTP!Shared
<1>3. CTP!AnswersLeadBack => CT!AnswersLeadBack
  BY <1>2, SameTerms DEF CT!AnswersLeadBack, CTP!AnswersLeadBack
<1>4. CTP!ResponsesKeepAddress => ResponsesKeepAddress
  BY <1>2, SameTerms DEF CT!ResponsesKeepAddress, CTP!ResponsesKeepAddress,
                         ResponsesKeepAddress
<1>5. \A f : \A c : CT!WorksOn(c, f) <=> CTP!WorksOn(c, f)
  BY SameTerms, SameFlows DEF CT!WorksOn, CTP!WorksOn, CT!Work, CTP!Work,
                              CT!OtherHalf, CTP!OtherHalf
<1>6. CTP!HalvesAgree => HalvesAgree
  BY <1>5, SameTerms DEF CT!HalvesAgree, CTP!HalvesAgree, HalvesAgree
<1>7. CTP!PairComplete => CT!PairComplete
  BY SameTerms DEF CT!PairComplete, CTP!PairComplete
<1> QED BY <1>1, <1>3, <1>4, <1>6, <1>7

\* A step of the daemon takes nothing from an undisturbed flow: the tracker's own
\* steps do not, and no entry stays when the process ends.
LEMMA DaemonLosesNothing ==
  DaemonInv /\ [Next]_vars => \A f \in CT!Undisturbed : CT!NoLifeLost(f)
<1> SUFFICES ASSUME DaemonInv, [Next]_vars, NEW f \in CTP!Undisturbed
             PROVE  CTP!NoLifeLost(f)
  BY SameTerms DEF CT!NoLifeLost, CTP!NoLifeLost
<1>1. CASE [CTP!Next]_(CTP!vars)
  BY <1>1, CTP!NothingLost, Assumptions DEF DaemonInv
<1>2. CASE UNCHANGED (CTP!hvars)
  BY <1>1, <1>2 DEF CTP!hvars
<1>3. CASE CTP!NoFlows'
  BY <1>3 DEF CTP!NoFlows, CTP!NoLifeLost
<1> QED BY <1>1, <1>2, <1>3, DaemonStep

(***************************************************************************)
(* Every translation in the table of a running daemon was decided for a    *)
(* datagram of a container, or for one that came for a port that this life *)
(* of the process had exposed for that endpoint: no exposure that failed,  *)
(* was refused or belongs to an earlier life leaves anything behind.       *)
(***************************************************************************)
THEOREM TranslationsFounded == Spec => []Provenance
<1>1. DaemonInv => Provenance
  BY CTP!RecordedProvenance, SameProperties, Assumptions DEF DaemonInv, CTP!HInv
<1> QED BY InitDaemonInv, NextDaemonInv, <1>1, PTL DEF Spec

(***************************************************************************)
(* What a container sends is answered to the endpoint that sent it, unless *)
(* a second flow uses the answer's tuple: another container's with the     *)
(* same source port, or one of a client of the exposed port.               *)
(***************************************************************************)
THEOREM AnswersReturn == Spec => []CT!AnswersLeadBack
<1>1. DaemonInv => CT!AnswersLeadBack
  BY CTP!RecordedAnswers, SameProperties, Assumptions DEF DaemonInv, CTP!HInv
<1> QED BY InitDaemonInv, NextDaemonInv, <1>1, PTL DEF Spec

(***************************************************************************)
(* What a container answers to a datagram leaves from the port and the     *)
(* address the datagram came for, with any pool and any targets, whatever  *)
(* is exposed, rolled back and given to others in between, unless a second *)
(* flow uses the response's tuple.                                         *)
(***************************************************************************)
THEOREM ResponsesKeep == Spec => []ResponsesKeepAddress
<1>1. DaemonInv => ResponsesKeepAddress
  BY CTP!RecordedResponses, SameProperties, Assumptions DEF DaemonInv, CTP!HInv
<1> QED BY InitDaemonInv, NextDaemonInv, <1>1, PTL DEF Spec

(***************************************************************************)
(* In every life of the process the two halves of an undisturbed flow      *)
(* agree between two datagrams, on any number of CPUs, through every       *)
(* exposure, rollback and restart in the middle of a refresh.              *)
(***************************************************************************)
THEOREM HalvesAlwaysAgree == Spec => []HalvesAgree
<1>1. DaemonInv => HalvesAgree
  BY CTP!HInvHalves, SameProperties, Assumptions DEF DaemonInv
<1> QED BY InitDaemonInv, NextDaemonInv, <1>1, PTL DEF Spec

(***************************************************************************)
(* And no step of the daemon shortens the life of an undisturbed flow or   *)
(* makes it forget its reply, except the end of the process.               *)
(***************************************************************************)
THEOREM LifeIsKept == Spec => LifetimeNeverShortened
<1>1. DaemonInv /\ [Next]_vars =>
        [\A f \in CT!Undisturbed : CT!NoLifeLost(f)]_vars
  BY DaemonLosesNothing
<1> QED BY InitDaemonInv, NextDaemonInv, <1>1, PTL DEF Spec, LifetimeNeverShortened
-----------------------------------------------------------------------------
(***************************************************************************)
(* While nothing expires, flows are whole.                                 *)
(***************************************************************************)
LEMMA EmptyLasting ==
  CTP!NoFlows /\ now <= MaxNow => CTP!Lasting /\ CTP!PairInv
BY CTP!NoFlowsLasting, CTP!NoFlowsPairInv, Assumptions

\* The same of the next process.
LEMMA EmptyLastingNext ==
  CTP!NoFlows' /\ now' <= MaxNow => CTP!Lasting' /\ CTP!PairInv'
<1>1. (CTP!NoFlows /\ now <= MaxNow => CTP!Lasting /\ CTP!PairInv)'
  BY EmptyLasting, PTL
<1> QED BY <1>1

\* It holds when the daemon is started first.
LEMMA InitLasting == Init => CTP!Lasting /\ CTP!PairInv
<1>1. 0 <= MaxNow
  BY Assumptions DEF CTP!TimeAssumption
<1> QED BY <1>1, InitDaemonInv, EmptyLasting

\* As long as the clock stays below TIMEOUT_NEW no life given ever ends, and a
\* half that is missing is about to be inserted, or went with the process.
LEMMA NextWhole ==
  ASSUME CTP!NothingExpires, CTP!Room
  PROVE  DaemonInv /\ CTP!Lasting /\ CTP!PairInv /\ [Next]_vars
           => CTP!Lasting' /\ CTP!PairInv'
<1> SUFFICES ASSUME DaemonInv, CTP!Lasting, CTP!PairInv, [Next]_vars
             PROVE  CTP!Lasting' /\ CTP!PairInv'
  OBVIOUS
<1>1. CASE [CTP!Next]_(CTP!vars)
  BY <1>1, CTP!NextLasting, CTP!NextPairInv, Assumptions DEF DaemonInv, CTP!HInv
<1>2. CASE UNCHANGED (CTP!hvars)
  BY <1>1, <1>2 DEF CTP!hvars
<1>3. CASE CTP!NoFlows' /\ now' = now
  BY <1>3, EmptyLastingNext DEF CTP!Lasting
<1> QED BY <1>1, <1>2, <1>3, DaemonStep

(***************************************************************************)
(* In every life of the process and on any number of CPUs a flow gets both *)
(* of its halves, although its exposure may be taken back between the two  *)
(* inserts of process_udp_dnat.  It asks for room in UDP_CONNTRACK and for *)
(* nothing to expire.                                                      *)
(***************************************************************************)
THEOREM FlowsAreWhole ==
  ASSUME CTP!NothingExpires, CTP!Room
  PROVE  Spec => []CT!PairComplete
<1>1. CTP!PairInv => CT!PairComplete
  BY CTP!PairInvWhole, SameProperties, Assumptions
<1> QED BY InitDaemonInv, NextDaemonInv, InitLasting, NextWhole, <1>1, PTL DEF Spec
=============================================================================
