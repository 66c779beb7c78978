---------------------------- MODULE StartupProofs ----------------------------
(***************************************************************************)
(* Theorems about Startup, for every set of containers and every capacity  *)
(* of REDIRECT_MAP.                                                        *)
(***************************************************************************)
EXTENDS Startup, TLAPS

Loops == {"attach", "devmap"}
AfterDevmap == {"load stub", "spawn", "nic key", "nic attach", "nic array", "reserve",
                "serve", "signals", "waiting"}
AfterJoin == {"nic key", "nic attach", "nic array", "reserve", "serve", "signals",
              "waiting"}
AfterNicKey == {"nic attach", "nic array", "reserve", "serve"}

\* Sets and flags: what main and its loops go over was discovered, the kernel's
\* objects belong to containers that were discovered and are still there, and the
\* service starts with its ports reserved.
SetsOK ==
  /\ todo \subseteq Containers
  /\ running \subseteq Containers
  /\ pids \subseteq metas /\ metas \subseteq Containers
  /\ metas \subseteq running \cup departed
  /\ attached \cup stubs \subseteq metas \ departed
  /\ devmap \subseteq (metas \ departed) \cup {Nic}
  /\ faults \subseteq Containers
  /\ exposed \subseteq metas
  /\ table \subseteq Bindings
  /\ main \in Loops => todo \subseteq metas
  /\ main = "spawn" => todo \subseteq pids

FlagsOK ==
  /\ poisoned \in BOOLEAN /\ loaded \in BOOLEAN
  /\ nic_attached \in BOOLEAN /\ pnic_array \in {Zero, Nic}
  /\ server \in {"off", "binding", "serving"}
  /\ reserved \in BOOLEAN /\ (server # "off" => reserved)
  /\ main = "serve" => reserved

\* Threads belong to containers with a process, none exists outside the time of
\* their making and waiting, and the mutex is held exactly while one works on
\* the program.
WorkOK ==
  /\ thread \in [Containers -> {"none", "opening", "locking", "loading", "entering",
                                "done", "panicked"}]
  /\ \A c \in Containers : thread[c] \in {"loading", "entering"} <=> mutex = c
  /\ \A c \in Containers : thread[c] # "none" => c \in pids
  /\ main = "spawn" => \A c \in todo : thread[c] = "none"
  /\ main \notin {"spawn"} \cup AfterJoin => \A c \in Containers : thread[c] = "none"

TypeInv == SetsOK /\ FlagsOK /\ WorkOK

\* How far REDIRECT_MAP is filled, by where main is: all of it before the NIC is
\* touched, and the NIC's own key before its program and its address.
DevmapOK ==
  /\ main = "devmap" => metas \ todo \subseteq devmap \cup departed
  /\ main \in AfterDevmap => metas \subseteq devmap \cup departed
  /\ main \in AfterNicKey => Nic \in devmap
  /\ main \in AfterNicKey \ {"nic attach"} => nic_attached
  /\ nic_attached => Nic \in devmap /\ main \in AfterJoin
  /\ pnic_array # Zero => nic_attached

\* What became of the threads: as long as no call of theirs has failed, none has
\* panicked and one that is done has left a stub behind.
ThreadOK ==
  /\ faults = {} => ~poisoned /\ \A c \in Containers : thread[c] # "panicked"
  /\ \A c \in Containers : thread[c] = "done" => c \in stubs \cup departed
  /\ main = "spawn" => \A c \in pids \ todo : thread[c] # "none"
  /\ main \in AfterJoin => \A c \in pids : thread[c] \in {"done", "panicked"}

IInv == /\ TypeInv
        /\ DevmapOK
        /\ TranslatedIsRedirected
        /\ FlowsHaveNic
        /\ ThreadOK
-----------------------------------------------------------------------------
\* The process starts with nothing discovered, attached or translated.
LEMMA InitIInv == Init => IInv
BY StartupAssumption
   DEF Init, IInv, TypeInv, SetsOK, FlagsOK, WorkOK, DevmapOK, TranslatedIsRedirected,
       FlowsHaveNic, ThreadOK, Loops, AfterDevmap, AfterJoin, AfterNicKey

\* The two bindings of a flow: both are of its container, and they lead to the
\* NIC and to the container.
LEMMA HalvesMembers ==
  ASSUME NEW c \in Containers, NEW nic_addr \in {Nic, Zero},
         NEW b \in Halves(c, nic_addr)
  PROVE  /\ b \in Bindings
         /\ b.devmap_key \in {Nic, c}
         /\ b.nat_addr \in {nic_addr, c}
BY DEF Halves, Bindings

\* Once the NIC has its program, REDIRECT_MAP leads to it and to every container
\* that is still there.
LEMMA KeysInDevmap ==
  ASSUME TypeInv, DevmapOK, nic_attached, NEW c \in metas
  PROVE  Nic \in devmap \cup departed /\ c \in devmap \cup departed
<1>1. Nic \in devmap /\ main \in AfterJoin
  BY ZenonT(30) DEF DevmapOK
<1>2. main \in AfterDevmap
  BY <1>1 DEF AfterJoin, AfterDevmap
<1>3. metas \subseteq devmap \cup departed
  BY <1>2 DEF DevmapOK
<1> QED
  BY <1>1, <1>3

\* Every call of main, of a thread, of the service and of Docker keeps the sets.
LEMMA NextSetsOK == TypeInv /\ [Next]_vars => SetsOK'
<1> SUFFICES ASSUME TypeInv, [Next]_vars PROVE SetsOK'
  OBVIOUS
<1> USE StartupAssumption DEF TypeInv, SetsOK, Loops, loops, docker, found,
       stubbing, xdp, flows
<1>1. CASE Abort
  BY <1>1 DEF Abort, Gone
<1>2. CASE Configure
  BY <1>2 DEF Configure, Goto
<1>3. CASE Inspect
  BY <1>3 DEF Inspect, GotoLoop
<1>4. CASE Mode
  BY <1>4 DEF Mode, Goto
<1>5. CASE StartAttaching
  BY <1>5 DEF StartAttaching, GotoLoop
<1>6. CASE StartDevmap
  BY <1>6 DEF StartDevmap, GotoLoop
<1>7. CASE LoadStub
  BY <1>7 DEF LoadStub, Goto
<1>8. CASE StartSpawning
  BY <1>8 DEF StartSpawning, GotoLoop
<1>9. CASE Join
  BY <1>9 DEF Join, Goto
<1>10. CASE NicKey
  BY <1>10 DEF NicKey, Goto
<1>11. CASE NicAttach
  BY <1>11 DEF NicAttach, Goto
<1>12. CASE NicArray
  BY <1>12 DEF NicArray, Goto
<1>13. CASE Reserve
  BY <1>13 DEF Reserve, Goto
<1>14. CASE Serve
  BY <1>14 DEF Serve, Goto
<1>15. CASE Wait
  BY <1>15 DEF Wait, Goto
<1>16. CASE Terminate
  BY <1>16 DEF Terminate, Gone
<1>17. CASE Bind
  BY <1>17 DEF Bind
<1>18. CASE BindFails
  BY <1>18 DEF BindFails, Gone
<1>19. ASSUME NEW c \in Containers, Discover(c) PROVE SetsOK'
  BY <1>19 DEF Discover, Visit
<1>20. ASSUME NEW c \in Containers, AttachContainer(c) PROVE SetsOK'
  BY <1>20 DEF AttachContainer, Visit
<1>21. ASSUME NEW c \in Containers, SetupDevmap(c) PROVE SetsOK'
  BY <1>21 DEF SetupDevmap, Visit
<1>22. ASSUME NEW c \in Containers, Spawn(c) PROVE SetsOK'
  BY <1>22 DEF Spawn, Visit
<1>23. ASSUME NEW c \in Containers, OpenNamespace(c) PROVE SetsOK'
  BY <1>23 DEF OpenNamespace, Advance
<1>24. ASSUME NEW c \in Containers, Lock(c) PROVE SetsOK'
  BY <1>24 DEF Lock, Advance
<1>25. ASSUME NEW c \in Containers, Load(c) PROVE SetsOK'
  BY <1>25 DEF Load, Advance
<1>26. ASSUME NEW c \in Containers, AttachStub(c) PROVE SetsOK'
  <2>1. c \in metas \ departed
    BY <1>26 DEF AttachStub, WorkOK
  <2> QED
    BY <1>26, <2>1 DEF AttachStub, Advance
<1>27. ASSUME NEW c \in Containers, Panic(c) PROVE SetsOK'
  BY <1>27 DEF Panic, Advance
<1>28. ASSUME NEW c \in Containers, StartContainer(c) PROVE SetsOK'
  BY <1>28 DEF StartContainer
<1>29. ASSUME NEW c \in Containers, StopContainer(c) PROVE SetsOK'
  BY <1>29 DEF StopContainer
<1>30. ASSUME NEW c \in Containers, Expose(c) PROVE SetsOK'
  BY <1>30 DEF Expose
<1>31. ASSUME NEW c \in Containers, Unexpose(c) PROVE SetsOK'
  BY <1>31 DEF Unexpose
<1>32. ASSUME NEW c \in Containers, OpenFromContainer(c) PROVE SetsOK'
  <2>1. Halves(c, pnic_array) \subseteq Bindings
    BY HalvesMembers DEF FlagsOK
  <2>2. table' \subseteq Bindings
    BY <1>32, <2>1 DEF OpenFromContainer
  <2> QED
    BY <1>32, <2>2 DEF OpenFromContainer
<1>33. ASSUME NEW c \in Containers, OpenFromNic(c) PROVE SetsOK'
  <2>1. Halves(c, Nic) \subseteq Bindings
    BY HalvesMembers DEF FlagsOK
  <2>2. table' \subseteq Bindings
    BY <1>33, <2>1 DEF OpenFromNic
  <2> QED
    BY <1>33, <2>2 DEF OpenFromNic
<1>34. ASSUME NEW b \in Bindings, Forget(b) PROVE SetsOK'
  BY <1>34 DEF Forget
<1>35. CASE UNCHANGED vars
  BY <1>35 DEF vars
<1> QED
  BY <1>1, <1>2, <1>3, <1>4, <1>5, <1>6, <1>7, <1>8, <1>9, <1>10, <1>11, <1>12,
     <1>13, <1>14, <1>15, <1>16, <1>17, <1>18, <1>19, <1>20, <1>21, <1>22, <1>23,
     <1>24, <1>25, <1>26, <1>27, <1>28, <1>29, <1>30, <1>31, <1>32, <1>33, <1>34,
     <1>35
     DEF Next, Main, Thread

\* And the flags.
LEMMA NextFlagsOK == TypeInv /\ [Next]_vars => FlagsOK'
<1> SUFFICES ASSUME TypeInv, [Next]_vars PROVE FlagsOK'
  OBVIOUS
<1> USE StartupAssumption DEF TypeInv, FlagsOK, loops, docker, found, stubbing, xdp,
       flows
<1>1. CASE Abort
  BY <1>1 DEF Abort, Gone
<1>2. CASE Configure
  BY <1>2 DEF Configure, Goto
<1>3. CASE Inspect
  BY <1>3 DEF Inspect, GotoLoop
<1>4. CASE Mode
  BY <1>4 DEF Mode, Goto
<1>5. CASE StartAttaching
  BY <1>5 DEF StartAttaching, GotoLoop
<1>6. CASE StartDevmap
  BY <1>6 DEF StartDevmap, GotoLoop
<1>7. CASE LoadStub
  BY <1>7 DEF LoadStub, Goto
<1>8. CASE StartSpawning
  BY <1>8 DEF StartSpawning, GotoLoop
<1>9. CASE Join
  BY <1>9 DEF Join, Goto
<1>10. CASE NicKey
  BY <1>10 DEF NicKey, Goto
<1>11. CASE NicAttach
  BY <1>11 DEF NicAttach, Goto
<1>12. CASE NicArray
  BY <1>12 DEF NicArray, Goto
<1>13. CASE Reserve
  BY <1>13 DEF Reserve, Goto
<1>14. CASE Serve
  BY <1>14 DEF Serve, Goto
<1>15. CASE Wait
  BY <1>15 DEF Wait, Goto
<1>16. CASE Terminate
  BY <1>16 DEF Terminate, Gone
<1>17. CASE Bind
  BY <1>17 DEF Bind
<1>18. CASE BindFails
  BY <1>18 DEF BindFails, Gone
<1>19. ASSUME NEW c \in Containers, Discover(c) PROVE FlagsOK'
  BY <1>19 DEF Discover, Visit
<1>20. ASSUME NEW c \in Containers, AttachContainer(c) PROVE FlagsOK'
  BY <1>20 DEF AttachContainer, Visit
<1>21. ASSUME NEW c \in Containers, SetupDevmap(c) PROVE FlagsOK'
  BY <1>21 DEF SetupDevmap, Visit
<1>22. ASSUME NEW c \in Containers, Spawn(c) PROVE FlagsOK'
  BY <1>22 DEF Spawn, Visit
<1>23. ASSUME NEW c \in Containers, OpenNamespace(c) PROVE FlagsOK'
  BY <1>23 DEF OpenNamespace, Advance
<1>24. ASSUME NEW c \in Containers, Lock(c) PROVE FlagsOK'
  BY <1>24 DEF Lock, Advance
<1>25. ASSUME NEW c \in Containers, Load(c) PROVE FlagsOK'
  BY <1>25 DEF Load, Advance
<1>26. ASSUME NEW c \in Containers, AttachStub(c) PROVE FlagsOK'
  BY <1>26 DEF AttachStub, Advance
<1>27. ASSUME NEW c \in Containers, Panic(c) PROVE FlagsOK'
  BY <1>27 DEF Panic, Advance
<1>28. ASSUME NEW c \in Containers, StartContainer(c) PROVE FlagsOK'
  BY <1>28 DEF StartContainer
<1>29. ASSUME NEW c \in Containers, StopContainer(c) PROVE FlagsOK'
  BY <1>29 DEF StopContainer
<1>30. ASSUME NEW c \in Containers, Expose(c) PROVE FlagsOK'
  BY <1>30 DEF Expose
<1>31. ASSUME NEW c \in Containers, Unexpose(c) PROVE FlagsOK'
  BY <1>31 DEF Unexpose
<1>32. ASSUME NEW c \in Containers, OpenFromContainer(c) PROVE FlagsOK'
  BY <1>32 DEF OpenFromContainer
<1>33. ASSUME NEW c \in Containers, OpenFromNic(c) PROVE FlagsOK'
  BY <1>33 DEF OpenFromNic
<1>34. ASSUME NEW b \in Bindings, Forget(b) PROVE FlagsOK'
  BY <1>34 DEF Forget
<1>35. CASE UNCHANGED vars
  BY <1>35 DEF vars
<1> QED
  BY <1>1, <1>2, <1>3, <1>4, <1>5, <1>6, <1>7, <1>8, <1>9, <1>10, <1>11, <1>12,
     <1>13, <1>14, <1>15, <1>16, <1>17, <1>18, <1>19, <1>20, <1>21, <1>22, <1>23,
     <1>24, <1>25, <1>26, <1>27, <1>28, <1>29, <1>30, <1>31, <1>32, <1>33, <1>34,
     <1>35
     DEF Next, Main, Thread

\* A thread that goes on leaves the others alone, and takes or releases the
\* mutex for itself only.
LEMMA AdvanceKeepsWork ==
  ASSUME SetsOK, WorkOK, NEW c \in pids \cap Containers,
         NEW state \in {"opening", "locking", "loading", "entering", "done", "panicked"},
         Advance(c, state), UNCHANGED <<main, pids>>, todo' \subseteq todo, main = "spawn" => c \notin todo',
         main \in {"spawn"} \cup AfterJoin,
         state \in {"loading", "entering"} <=> mutex' = c,
         \A d \in Containers \ {c} : mutex' = d <=> mutex = d
  PROVE  WorkOK'
<1>1. /\ \A d \in Containers : thread'[d] = IF d = c THEN state ELSE thread[d]
      /\ thread' \in [Containers -> {"none", "opening", "locking", "loading", "entering",
                                     "done", "panicked"}]
  BY DEF Advance, WorkOK
<1>2. \A d \in Containers : thread'[d] \in {"loading", "entering"} <=> mutex' = d
  BY <1>1 DEF WorkOK
<1>3. \A d \in Containers : thread'[d] # "none" => d \in pids'
  BY <1>1 DEF WorkOK
<1>4. main' = "spawn" => \A d \in todo' : thread'[d] = "none"
  BY <1>1 DEF WorkOK, SetsOK
<1>5. main' \in {"spawn"} \cup AfterJoin
  OBVIOUS
<1> QED
  BY <1>1, <1>2, <1>3, <1>4, <1>5 DEF WorkOK

\* A thread that exists has a process, is waited for, and is not spawned again.
LEMMA ThreadsExist ==
  ASSUME SetsOK, WorkOK, NEW c \in Containers, thread[c] # "none"
  PROVE  /\ c \in pids \cap Containers /\ c \in metas
         /\ main \in {"spawn"} \cup AfterJoin
         /\ main = "spawn" => c \notin todo
BY DEF SetsOK, WorkOK

\* And the threads and their mutex.
LEMMA NextWorkOK == TypeInv /\ [Next]_vars => WorkOK'
<1> SUFFICES ASSUME TypeInv, [Next]_vars PROVE WorkOK'
  OBVIOUS
<1> USE StartupAssumption DEF TypeInv, AfterJoin, loops, docker, found, stubbing, xdp,
       flows
<1>1. CASE Abort
  BY <1>1 DEF Abort, Gone, WorkOK
<1>2. CASE Configure
  BY <1>2 DEF Configure, Goto, WorkOK
<1>3. CASE Inspect
  BY <1>3 DEF Inspect, GotoLoop, WorkOK
<1>4. CASE Mode
  BY <1>4 DEF Mode, Goto, WorkOK
<1>5. CASE StartAttaching
  BY <1>5 DEF StartAttaching, GotoLoop, WorkOK
<1>6. CASE StartDevmap
  BY <1>6 DEF StartDevmap, GotoLoop, WorkOK
<1>7. CASE LoadStub
  BY <1>7 DEF LoadStub, Goto, WorkOK
<1>8. CASE StartSpawning
  <2>1. \A c \in Containers : thread[c] = "none"
    BY <1>8 DEF StartSpawning, WorkOK
  <2>2. todo' \subseteq Containers
    BY <1>8 DEF StartSpawning, GotoLoop, SetsOK
  <2> QED
    BY <1>8, <2>1, <2>2 DEF StartSpawning, GotoLoop, WorkOK
<1>9. CASE Join
  BY <1>9 DEF Join, Goto, WorkOK
<1>10. CASE NicKey
  BY <1>10 DEF NicKey, Goto, WorkOK
<1>11. CASE NicAttach
  BY <1>11 DEF NicAttach, Goto, WorkOK
<1>12. CASE NicArray
  BY <1>12 DEF NicArray, Goto, WorkOK
<1>13. CASE Reserve
  BY <1>13 DEF Reserve, Goto, WorkOK
<1>14. CASE Serve
  BY <1>14 DEF Serve, Goto, WorkOK
<1>15. CASE Wait
  BY <1>15 DEF Wait, Goto, WorkOK
<1>16. CASE Terminate
  BY <1>16 DEF Terminate, Gone, WorkOK
<1>17. CASE Bind
  BY <1>17 DEF Bind, WorkOK
<1>18. CASE BindFails
  BY <1>18 DEF BindFails, Gone, WorkOK
<1>19. ASSUME NEW c \in Containers, Discover(c) PROVE WorkOK'
  <2>1. pids \subseteq pids'
    BY <1>19 DEF Discover, SetsOK
  <2> QED
    BY <1>19, <2>1 DEF Discover, Visit, WorkOK
<1>20. ASSUME NEW c \in Containers, AttachContainer(c) PROVE WorkOK'
  BY <1>20 DEF AttachContainer, Visit, WorkOK
<1>21. ASSUME NEW c \in Containers, SetupDevmap(c) PROVE WorkOK'
  BY <1>21 DEF SetupDevmap, Visit, WorkOK
<1>22. ASSUME NEW c \in Containers, Spawn(c) PROVE WorkOK'
  <2>1. /\ main = "spawn" /\ c \in todo /\ c \in pids /\ todo' = todo \ {c}
        /\ thread[c] = "none" /\ UNCHANGED <<main, pids, mutex>>
    BY <1>22 DEF Spawn, Visit, SetsOK, WorkOK
  <2>2. mutex # c /\ Advance(c, "opening")
    BY <1>22, <2>1 DEF Spawn, WorkOK, Advance
  <2> QED
    BY <2>1, <2>2, AdvanceKeepsWork
<1>23. ASSUME NEW c \in Containers, OpenNamespace(c) PROVE WorkOK'
  <2>1. thread[c] # "none" /\ Advance(c, "locking") /\ UNCHANGED <<main, todo, pids>>
    BY <1>23 DEF OpenNamespace
  <2>2. mutex' = mutex /\ mutex # c
    BY <1>23 DEF OpenNamespace, WorkOK
  <2> QED
    BY <2>1, <2>2, ThreadsExist, AdvanceKeepsWork
<1>24. ASSUME NEW c \in Containers, Lock(c) PROVE WorkOK'
  <2>1. thread[c] = "locking" /\ mutex = Nobody /\ UNCHANGED <<main, todo, pids>>
    BY <1>24 DEF Lock
  <2>2. CASE poisoned
    <3>1. Advance(c, "panicked") /\ mutex' = mutex
      BY <1>24, <2>2, ZenonT(30) DEF Lock
    <3> QED
      BY <2>1, <3>1, ThreadsExist, AdvanceKeepsWork
  <2>3. CASE ~poisoned
    <3>1. Advance(c, "loading") /\ mutex' = c
      BY <1>24, <2>3, ZenonT(30) DEF Lock
    <3> QED
      BY <2>1, <3>1, ThreadsExist, AdvanceKeepsWork
  <2> QED
    BY <2>2, <2>3
<1>25. ASSUME NEW c \in Containers, Load(c) PROVE WorkOK'
  <2>1. thread[c] # "none" /\ Advance(c, "entering") /\ UNCHANGED <<main, todo, pids>>
    BY <1>25 DEF Load
  <2>2. mutex' = mutex /\ mutex = c
    BY <1>25 DEF Load, WorkOK
  <2> QED
    BY <2>1, <2>2, ThreadsExist, AdvanceKeepsWork
<1>26. ASSUME NEW c \in Containers, AttachStub(c) PROVE WorkOK'
  <2>1. thread[c] # "none" /\ Advance(c, "done") /\ UNCHANGED <<main, todo, pids>>
    BY <1>26 DEF AttachStub
  <2>2. mutex = c /\ mutex' = Nobody
    BY <1>26 DEF AttachStub, WorkOK
  <2> QED
    BY <2>1, <2>2, ThreadsExist, AdvanceKeepsWork
<1>27. ASSUME NEW c \in Containers, Panic(c) PROVE WorkOK'
  <2>1. thread[c] # "none" /\ Advance(c, "panicked") /\ UNCHANGED <<main, todo, pids>>
    BY <1>27 DEF Panic
  <2>2. mutex' = IF mutex = c THEN Nobody ELSE mutex
    BY <1>27 DEF Panic
  <2> QED
    BY <2>1, <2>2, ThreadsExist, AdvanceKeepsWork
<1>28. ASSUME NEW c \in Containers, StartContainer(c) PROVE WorkOK'
  BY <1>28 DEF StartContainer, WorkOK
<1>29. ASSUME NEW c \in Containers, StopContainer(c) PROVE WorkOK'
  BY <1>29 DEF StopContainer, WorkOK
<1>30. ASSUME NEW c \in Containers, Expose(c) PROVE WorkOK'
  BY <1>30 DEF Expose, WorkOK
<1>31. ASSUME NEW c \in Containers, Unexpose(c) PROVE WorkOK'
  BY <1>31 DEF Unexpose, WorkOK
<1>32. ASSUME NEW c \in Containers, OpenFromContainer(c) PROVE WorkOK'
  BY <1>32 DEF OpenFromContainer, WorkOK
<1>33. ASSUME NEW c \in Containers, OpenFromNic(c) PROVE WorkOK'
  BY <1>33 DEF OpenFromNic, WorkOK
<1>34. ASSUME NEW b \in Bindings, Forget(b) PROVE WorkOK'
  BY <1>34 DEF Forget, WorkOK
<1>35. CASE UNCHANGED vars
  BY <1>35 DEF vars, WorkOK
<1> QED
  BY <1>1, <1>2, <1>3, <1>4, <1>5, <1>6, <1>7, <1>8, <1>9, <1>10, <1>11, <1>12,
     <1>13, <1>14, <1>15, <1>16, <1>17, <1>18, <1>19, <1>20, <1>21, <1>22, <1>23,
     <1>24, <1>25, <1>26, <1>27, <1>28, <1>29, <1>30, <1>31, <1>32, <1>33, <1>34,
     <1>35
     DEF Next, Main, Thread

\* So they keep the types.
LEMMA NextTypeInv == TypeInv /\ [Next]_vars => TypeInv'
BY NextSetsOK, NextFlagsOK, NextWorkOK DEF TypeInv

\* The types of the code follow from the three parts.
LEMMA TypeInvSuffices == TypeInv => TypeOK
BY DEF TypeInv, SetsOK, FlagsOK, WorkOK, TypeOK

\* REDIRECT_MAP is filled before the NIC is touched: setup_devmap ends before
\* setup_pnic starts, and a key goes only with the interface of its container.
LEMMA NextDevmapOK == TypeInv /\ DevmapOK /\ [Next]_vars => DevmapOK'
<1> SUFFICES ASSUME TypeInv /\ DevmapOK, [Next]_vars PROVE DevmapOK'
  OBVIOUS
<1> USE StartupAssumption DEF TypeInv, SetsOK, FlagsOK, WorkOK, Loops, Bindings, Halves,
       AfterJoin, DevmapOK, AfterDevmap, AfterNicKey, loops, docker, found,
       stubbing, xdp, flows
<1>1. CASE Abort
  BY <1>1 DEF Abort, Gone
<1>2. CASE Configure
  BY <1>2 DEF Configure, Goto
<1>3. CASE Inspect
  BY <1>3 DEF Inspect, GotoLoop
<1>4. CASE Mode
  BY <1>4 DEF Mode, Goto
<1>5. CASE StartAttaching
  BY <1>5 DEF StartAttaching, GotoLoop
<1>6. CASE StartDevmap
  BY <1>6 DEF StartDevmap, GotoLoop
<1>7. CASE LoadStub
  BY <1>7 DEF LoadStub, Goto
<1>8. CASE StartSpawning
  BY <1>8 DEF StartSpawning, GotoLoop
<1>9. CASE Join
  BY <1>9 DEF Join, Goto
<1>10. CASE NicKey
  BY <1>10 DEF NicKey, Goto
<1>11. CASE NicAttach
  BY <1>11 DEF NicAttach, Goto
<1>12. CASE NicArray
  BY <1>12 DEF NicArray, Goto
<1>13. CASE Reserve
  BY <1>13 DEF Reserve, Goto
<1>14. CASE Serve
  BY <1>14 DEF Serve, Goto
<1>15. CASE Wait
  BY <1>15 DEF Wait, Goto
<1>16. CASE Terminate
  BY <1>16 DEF Terminate, Gone
<1>17. CASE Bind
  BY <1>17 DEF Bind
<1>18. CASE BindFails
  BY <1>18 DEF BindFails, Gone
<1>19. ASSUME NEW c \in Containers, Discover(c) PROVE DevmapOK'
  BY <1>19 DEF Discover, Visit
<1>20. ASSUME NEW c \in Containers, AttachContainer(c) PROVE DevmapOK'
  BY <1>20 DEF AttachContainer, Visit
<1>21. ASSUME NEW c \in Containers, SetupDevmap(c) PROVE DevmapOK'
  BY <1>21 DEF SetupDevmap, Visit
<1>22. ASSUME NEW c \in Containers, Spawn(c) PROVE DevmapOK'
  BY <1>22 DEF Spawn, Visit
<1>23. ASSUME NEW c \in Containers, OpenNamespace(c) PROVE DevmapOK'
  BY <1>23 DEF OpenNamespace, Advance
<1>24. ASSUME NEW c \in Containers, Lock(c) PROVE DevmapOK'
  BY <1>24 DEF Lock, Advance
<1>25. ASSUME NEW c \in Containers, Load(c) PROVE DevmapOK'
  BY <1>25 DEF Load, Advance
<1>26. ASSUME NEW c \in Containers, AttachStub(c) PROVE DevmapOK'
  BY <1>26 DEF AttachStub, Advance
<1>27. ASSUME NEW c \in Containers, Panic(c) PROVE DevmapOK'
  BY <1>27 DEF Panic, Advance
<1>28. ASSUME NEW c \in Containers, StartContainer(c) PROVE DevmapOK'
  BY <1>28 DEF StartContainer
<1>29. ASSUME NEW c \in Containers, StopContainer(c) PROVE DevmapOK'
  BY <1>29 DEF StopContainer
<1>30. ASSUME NEW c \in Containers, Expose(c) PROVE DevmapOK'
  BY <1>30 DEF Expose
<1>31. ASSUME NEW c \in Containers, Unexpose(c) PROVE DevmapOK'
  BY <1>31 DEF Unexpose
<1>32. ASSUME NEW c \in Containers, OpenFromContainer(c) PROVE DevmapOK'
  BY <1>32 DEF OpenFromContainer
<1>33. ASSUME NEW c \in Containers, OpenFromNic(c) PROVE DevmapOK'
  BY <1>33 DEF OpenFromNic
<1>34. ASSUME NEW b \in Bindings, Forget(b) PROVE DevmapOK'
  BY <1>34 DEF Forget
<1>35. CASE UNCHANGED vars
  BY <1>35 DEF vars
<1> QED
  BY <1>1, <1>2, <1>3, <1>4, <1>5, <1>6, <1>7, <1>8, <1>9, <1>10, <1>11, <1>12,
     <1>13, <1>14, <1>15, <1>16, <1>17, <1>18, <1>19, <1>20, <1>21, <1>22, <1>23,
     <1>24, <1>25, <1>26, <1>27, <1>28, <1>29, <1>30, <1>31, <1>32, <1>33, <1>34,
     <1>35
     DEF Next, Main, Thread

\* A flow is opened when the keys of its two directions are there.
LEMMA NextTranslated ==
  TypeInv /\ DevmapOK /\ TranslatedIsRedirected /\ [Next]_vars => TranslatedIsRedirected'
<1> SUFFICES ASSUME TypeInv /\ DevmapOK /\ TranslatedIsRedirected, [Next]_vars PROVE
       TranslatedIsRedirected'
  OBVIOUS
<1> USE StartupAssumption DEF TypeInv, SetsOK, FlagsOK, WorkOK, Loops, Bindings, AfterJoin,
       DevmapOK, AfterDevmap, AfterNicKey, HasRoute, TranslatedIsRedirected, loops,
       docker, found, stubbing, xdp, flows
<1>1. CASE Abort
  BY <1>1 DEF Abort, Gone
<1>2. CASE Configure
  BY <1>2 DEF Configure, Goto
<1>3. CASE Inspect
  BY <1>3 DEF Inspect, GotoLoop
<1>4. CASE Mode
  BY <1>4 DEF Mode, Goto
<1>5. CASE StartAttaching
  BY <1>5 DEF StartAttaching, GotoLoop
<1>6. CASE StartDevmap
  BY <1>6 DEF StartDevmap, GotoLoop
<1>7. CASE LoadStub
  BY <1>7 DEF LoadStub, Goto
<1>8. CASE StartSpawning
  BY <1>8 DEF StartSpawning, GotoLoop
<1>9. CASE Join
  BY <1>9 DEF Join, Goto
<1>10. CASE NicKey
  BY <1>10 DEF NicKey, Goto
<1>11. CASE NicAttach
  BY <1>11 DEF NicAttach, Goto
<1>12. CASE NicArray
  BY <1>12 DEF NicArray, Goto
<1>13. CASE Reserve
  BY <1>13 DEF Reserve, Goto
<1>14. CASE Serve
  BY <1>14 DEF Serve, Goto
<1>15. CASE Wait
  BY <1>15 DEF Wait, Goto
<1>16. CASE Terminate
  BY <1>16 DEF Terminate, Gone
<1>17. CASE Bind
  BY <1>17 DEF Bind
<1>18. CASE BindFails
  BY <1>18 DEF BindFails, Gone
<1>19. ASSUME NEW c \in Containers, Discover(c) PROVE TranslatedIsRedirected'
  BY <1>19 DEF Discover, Visit
<1>20. ASSUME NEW c \in Containers, AttachContainer(c) PROVE TranslatedIsRedirected'
  BY <1>20 DEF AttachContainer, Visit
<1>21. ASSUME NEW c \in Containers, SetupDevmap(c) PROVE TranslatedIsRedirected'
  BY <1>21 DEF SetupDevmap, Visit
<1>22. ASSUME NEW c \in Containers, Spawn(c) PROVE TranslatedIsRedirected'
  BY <1>22 DEF Spawn, Visit
<1>23. ASSUME NEW c \in Containers, OpenNamespace(c) PROVE TranslatedIsRedirected'
  BY <1>23 DEF OpenNamespace, Advance
<1>24. ASSUME NEW c \in Containers, Lock(c) PROVE TranslatedIsRedirected'
  BY <1>24 DEF Lock, Advance
<1>25. ASSUME NEW c \in Containers, Load(c) PROVE TranslatedIsRedirected'
  BY <1>25 DEF Load, Advance
<1>26. ASSUME NEW c \in Containers, AttachStub(c) PROVE TranslatedIsRedirected'
  BY <1>26 DEF AttachStub, Advance
<1>27. ASSUME NEW c \in Containers, Panic(c) PROVE TranslatedIsRedirected'
  BY <1>27 DEF Panic, Advance
<1>28. ASSUME NEW c \in Containers, StartContainer(c) PROVE TranslatedIsRedirected'
  BY <1>28 DEF StartContainer
<1>29. ASSUME NEW c \in Containers, StopContainer(c) PROVE TranslatedIsRedirected'
  BY <1>29 DEF StopContainer
<1>30. ASSUME NEW c \in Containers, Expose(c) PROVE TranslatedIsRedirected'
  BY <1>30 DEF Expose
<1>31. ASSUME NEW c \in Containers, Unexpose(c) PROVE TranslatedIsRedirected'
  BY <1>31 DEF Unexpose
<1>32. ASSUME NEW c \in Containers, OpenFromContainer(c) PROVE TranslatedIsRedirected'
  <2>1. nic_attached /\ c \in metas
    BY <1>32 DEF OpenFromContainer
  <2>2. Nic \in devmap \cup departed /\ c \in devmap \cup departed
    BY <2>1, KeysInDevmap
  <2>3. \A b \in Halves(c, pnic_array) : b.devmap_key \in {Nic, c}
    BY HalvesMembers
  <2>4. table' = table \cup Halves(c, pnic_array) /\ UNCHANGED <<devmap, departed>>
    BY <1>32 DEF OpenFromContainer
  <2>5. \A b \in table' : b.devmap_key \in devmap \cup departed
    BY <2>2, <2>3, <2>4
  <2> QED
    BY <2>4, <2>5
<1>33. ASSUME NEW c \in Containers, OpenFromNic(c) PROVE TranslatedIsRedirected'
  <2>1. nic_attached /\ c \in metas
    BY <1>33 DEF OpenFromNic
  <2>2. Nic \in devmap \cup departed /\ c \in devmap \cup departed
    BY <2>1, KeysInDevmap
  <2>3. \A b \in Halves(c, Nic) : b.devmap_key \in {Nic, c}
    BY HalvesMembers
  <2>4. table' = table \cup Halves(c, Nic) /\ UNCHANGED <<devmap, departed>>
    BY <1>33 DEF OpenFromNic
  <2>5. \A b \in table' : b.devmap_key \in devmap \cup departed
    BY <2>2, <2>3, <2>4
  <2> QED
    BY <2>4, <2>5
<1>34. ASSUME NEW b \in Bindings, Forget(b) PROVE TranslatedIsRedirected'
  BY <1>34 DEF Forget
<1>35. CASE UNCHANGED vars
  BY <1>35 DEF vars
<1> QED
  BY <1>1, <1>2, <1>3, <1>4, <1>5, <1>6, <1>7, <1>8, <1>9, <1>10, <1>11, <1>12,
     <1>13, <1>14, <1>15, <1>16, <1>17, <1>18, <1>19, <1>20, <1>21, <1>22, <1>23,
     <1>24, <1>25, <1>26, <1>27, <1>28, <1>29, <1>30, <1>31, <1>32, <1>33, <1>34,
     <1>35
     DEF Next, Main, Thread

\* A flow has the NIC's address from a PNIC_ARRAY that is set, or from a datagram
\* the NIC's program has taken.  No call takes that program off the NIC.
LEMMA NextHaveNic ==
  TypeInv /\ DevmapOK /\ FlowsHaveNic /\ [Next]_vars => FlowsHaveNic'
<1> SUFFICES ASSUME TypeInv, DevmapOK, FlowsHaveNic, [Next]_vars
             PROVE  FlowsHaveNic'
  OBVIOUS
<1>n. pnic_array # Zero => nic_attached
  BY DEF DevmapOK
<1> USE StartupAssumption DEF FlowsHaveNic, loops, docker, found, stubbing, xdp, flows
<1>1. CASE Abort
  BY <1>1 DEF Abort, Gone
<1>2. CASE Configure
  BY <1>2 DEF Configure, Goto
<1>3. CASE Inspect
  BY <1>3 DEF Inspect, GotoLoop
<1>4. CASE Mode
  BY <1>4 DEF Mode, Goto
<1>5. CASE StartAttaching
  BY <1>5 DEF StartAttaching, GotoLoop
<1>6. CASE StartDevmap
  BY <1>6 DEF StartDevmap, GotoLoop
<1>7. CASE LoadStub
  BY <1>7 DEF LoadStub, Goto
<1>8. CASE StartSpawning
  BY <1>8 DEF StartSpawning, GotoLoop
<1>9. CASE Join
  BY <1>9 DEF Join, Goto
<1>10. CASE NicKey
  BY <1>10 DEF NicKey, Goto
<1>11. CASE NicAttach
  BY <1>11 DEF NicAttach, Goto
<1>12. CASE NicArray
  BY <1>12 DEF NicArray, Goto
<1>13. CASE Reserve
  BY <1>13 DEF Reserve, Goto
<1>14. CASE Serve
  BY <1>14 DEF Serve, Goto
<1>15. CASE Wait
  BY <1>15 DEF Wait, Goto
<1>16. CASE Terminate
  BY <1>16 DEF Terminate, Gone
<1>17. CASE Bind
  BY <1>17 DEF Bind
<1>18. CASE BindFails
  BY <1>18 DEF BindFails, Gone
<1>19. ASSUME NEW c \in Containers, Discover(c) PROVE FlowsHaveNic'
  BY <1>19 DEF Discover, Visit
<1>20. ASSUME NEW c \in Containers, AttachContainer(c) PROVE FlowsHaveNic'
  BY <1>20 DEF AttachContainer, Visit
<1>21. ASSUME NEW c \in Containers, SetupDevmap(c) PROVE FlowsHaveNic'
  BY <1>21 DEF SetupDevmap, Visit
<1>22. ASSUME NEW c \in Containers, Spawn(c) PROVE FlowsHaveNic'
  BY <1>22 DEF Spawn, Visit
<1>23. ASSUME NEW c \in Containers, OpenNamespace(c) PROVE FlowsHaveNic'
  BY <1>23 DEF OpenNamespace, Advance
<1>24. ASSUME NEW c \in Containers, Lock(c) PROVE FlowsHaveNic'
  BY <1>24 DEF Lock, Advance
<1>25. ASSUME NEW c \in Containers, Load(c) PROVE FlowsHaveNic'
  BY <1>25 DEF Load, Advance
<1>26. ASSUME NEW c \in Containers, AttachStub(c) PROVE FlowsHaveNic'
  BY <1>26 DEF AttachStub, Advance
<1>27. ASSUME NEW c \in Containers, Panic(c) PROVE FlowsHaveNic'
  BY <1>27 DEF Panic, Advance
<1>28. ASSUME NEW c \in Containers, StartContainer(c) PROVE FlowsHaveNic'
  BY <1>28 DEF StartContainer
<1>29. ASSUME NEW c \in Containers, StopContainer(c) PROVE FlowsHaveNic'
  BY <1>29 DEF StopContainer
<1>30. ASSUME NEW c \in Containers, Expose(c) PROVE FlowsHaveNic'
  BY <1>30 DEF Expose
<1>31. ASSUME NEW c \in Containers, Unexpose(c) PROVE FlowsHaveNic'
  BY <1>31 DEF Unexpose
<1>32. ASSUME NEW c \in Containers, OpenFromContainer(c) PROVE FlowsHaveNic'
  <2>1. nic_attached /\ UNCHANGED nic_attached
    BY <1>32, <1>n DEF OpenFromContainer, HasRoute
  <2> QED
    BY <2>1
<1>33. ASSUME NEW c \in Containers, OpenFromNic(c) PROVE FlowsHaveNic'
  BY <1>33 DEF OpenFromNic
<1>34. ASSUME NEW b \in Bindings, Forget(b) PROVE FlowsHaveNic'
  BY <1>34 DEF Forget
<1>35. CASE UNCHANGED vars
  BY <1>35 DEF vars
<1> QED
  BY <1>1, <1>2, <1>3, <1>4, <1>5, <1>6, <1>7, <1>8, <1>9, <1>10, <1>11, <1>12, <1>13,
     <1>14, <1>15, <1>16, <1>17, <1>18, <1>19, <1>20, <1>21, <1>22, <1>23, <1>24,
     <1>25, <1>26, <1>27, <1>28, <1>29, <1>30, <1>31, <1>32, <1>33, <1>34, <1>35
     DEF Next, Main, Thread

\* A thread at work goes on, to "done" with its stub attached or to a panic with
\* a call that has failed.
GoesOn(c, state) ==
  /\ thread[c] \in {"opening", "locking", "loading", "entering"}
  /\ thread' = [thread EXCEPT ![c] = state]
  /\ state # "none"
  /\ state = "done" => c \in stubs'
  /\ state = "panicked" => faults' # {}
  /\ stubs \subseteq stubs'
  /\ faults' = {} => faults = {} /\ poisoned' = poisoned
  /\ UNCHANGED <<main, todo, pids, departed>>

\* That leaves the other threads and main as they are.
LEMMA ThreadMoves ==
  ASSUME TypeInv, ThreadOK, NEW c \in Containers, NEW state, GoesOn(c, state)
  PROVE  ThreadOK'
<1> USE DEF GoesOn
<1>1. /\ thread'[c] = state
      /\ \A d \in Containers : d # c => thread'[d] = thread[d]
  BY DEF TypeInv, WorkOK
<1>2. c \in pids /\ pids \subseteq Containers
  BY DEF TypeInv, SetsOK, WorkOK
<1>3. main \notin AfterJoin
  BY <1>2 DEF ThreadOK
<1>4. faults' = {} => ~ poisoned' /\ \A d \in Containers : thread'[d] # "panicked"
  BY <1>1 DEF ThreadOK
<1>5. \A d \in Containers : thread'[d] = "done" => d \in stubs' \cup departed'
  BY <1>1 DEF ThreadOK
<1>6. main' = "spawn" => \A d \in pids' \ todo' : thread'[d] # "none"
  BY <1>1, <1>2 DEF ThreadOK
<1> QED BY <1>3, <1>4, <1>5, <1>6 DEF ThreadOK

\* The threads of attach_namespace_pass_programs stay apart: only a failing call
\* of one makes it or, by the poison, another one panic.
LEMMA NextThreadOK == TypeInv /\ ThreadOK /\ [Next]_vars => ThreadOK'
<1> SUFFICES ASSUME TypeInv /\ ThreadOK, [Next]_vars PROVE ThreadOK'
  OBVIOUS
<1>1. ASSUME NEW c \in Containers, OpenNamespace(c) PROVE ThreadOK'
  <2>1. GoesOn(c, "locking")
    BY <1>1 DEF GoesOn, OpenNamespace, Advance, loops, docker, found
  <2> QED BY <2>1, ThreadMoves
<1>2. ASSUME NEW c \in Containers, Lock(c) PROVE ThreadOK'
  <2>1. /\ thread[c] = "locking"
        /\ UNCHANGED <<main, todo, pids, departed, poisoned, stubs, faults>>
    BY <1>2 DEF Lock, loops, docker, found
  <2>2. CASE poisoned
    <3>1. faults # {}
      BY <2>2 DEF ThreadOK
    <3>2. GoesOn(c, "panicked")
      BY <1>2, <2>1, <2>2, <3>1 DEF GoesOn, Lock, Advance
    <3> QED BY <3>2, ThreadMoves
  <2>3. CASE ~poisoned
    <3>1. GoesOn(c, "loading")
      BY <1>2, <2>1, <2>3 DEF GoesOn, Lock, Advance
    <3> QED BY <3>1, ThreadMoves
  <2> QED BY <2>2, <2>3
<1>3. ASSUME NEW c \in Containers, Load(c) PROVE ThreadOK'
  <2>1. GoesOn(c, "entering")
    BY <1>3 DEF GoesOn, Load, Advance, loops, docker, found
  <2> QED BY <2>1, ThreadMoves
<1>4. ASSUME NEW c \in Containers, AttachStub(c) PROVE ThreadOK'
  <2>1. GoesOn(c, "done")
    BY <1>4 DEF GoesOn, AttachStub, Advance, loops, docker, found
  <2> QED BY <2>1, ThreadMoves
<1>5. ASSUME NEW c \in Containers, Panic(c) PROVE ThreadOK'
  <2>1. GoesOn(c, "panicked")
    BY <1>5 DEF GoesOn, Panic, Advance, loops, docker, found
  <2> QED BY <2>1, ThreadMoves
<1> USE StartupAssumption DEF TypeInv, SetsOK, FlagsOK, WorkOK, Loops, Bindings, Halves,
       AfterJoin, ThreadOK, loops, docker, found, stubbing, xdp, flows
<1>6. CASE Abort
  BY <1>6 DEF Abort, Gone
<1>7. CASE Configure
  BY <1>7 DEF Configure, Goto
<1>8. CASE Inspect
  BY <1>8 DEF Inspect, GotoLoop
<1>9. CASE Mode
  BY <1>9 DEF Mode, Goto
<1>10. CASE StartAttaching
  BY <1>10 DEF StartAttaching, GotoLoop
<1>11. CASE StartDevmap
  BY <1>11 DEF StartDevmap, GotoLoop
<1>12. CASE LoadStub
  BY <1>12 DEF LoadStub, Goto
<1>13. CASE StartSpawning
  BY <1>13 DEF StartSpawning, GotoLoop
<1>14. CASE Join
  BY <1>14 DEF Join, Goto
<1>15. CASE NicKey
  BY <1>15 DEF NicKey, Goto
<1>16. CASE NicAttach
  BY <1>16 DEF NicAttach, Goto
<1>17. CASE NicArray
  BY <1>17 DEF NicArray, Goto
<1>18. CASE Reserve
  BY <1>18 DEF Reserve, Goto
<1>19. CASE Serve
  BY <1>19 DEF Serve, Goto
<1>20. CASE Wait
  BY <1>20 DEF Wait, Goto
<1>21. CASE Terminate
  BY <1>21 DEF Terminate, Gone
<1>22. CASE Bind
  BY <1>22 DEF Bind
<1>23. CASE BindFails
  BY <1>23 DEF BindFails, Gone
<1>24. ASSUME NEW c \in Containers, Discover(c) PROVE ThreadOK'
  BY <1>24 DEF Discover, Visit
<1>25. ASSUME NEW c \in Containers, AttachContainer(c) PROVE ThreadOK'
  BY <1>25 DEF AttachContainer, Visit
<1>26. ASSUME NEW c \in Containers, SetupDevmap(c) PROVE ThreadOK'
  BY <1>26 DEF SetupDevmap, Visit
<1>27. ASSUME NEW c \in Containers, Spawn(c) PROVE ThreadOK'
  BY <1>27 DEF Spawn, Visit
<1>28. ASSUME NEW c \in Containers, StartContainer(c) PROVE ThreadOK'
  BY <1>28 DEF StartContainer
<1>29. ASSUME NEW c \in Containers, StopContainer(c) PROVE ThreadOK'
  BY <1>29 DEF StopContainer
<1>30. ASSUME NEW c \in Containers, Expose(c) PROVE ThreadOK'
  BY <1>30 DEF Expose
<1>31. ASSUME NEW c \in Containers, Unexpose(c) PROVE ThreadOK'
  BY <1>31 DEF Unexpose
<1>32. ASSUME NEW c \in Containers, OpenFromContainer(c) PROVE ThreadOK'
  BY <1>32 DEF OpenFromContainer
<1>33. ASSUME NEW c \in Containers, OpenFromNic(c) PROVE ThreadOK'
  BY <1>33 DEF OpenFromNic
<1>34. ASSUME NEW b \in Bindings, Forget(b) PROVE ThreadOK'
  BY <1>34 DEF Forget
<1>35. CASE UNCHANGED vars
  BY <1>35 DEF vars
<1> QED
  BY <1>6, <1>7, <1>8, <1>9, <1>10, <1>11, <1>12, <1>13, <1>14, <1>15, <1>16, <1>17,
     <1>18, <1>19, <1>20, <1>21, <1>22, <1>23, <1>24, <1>25, <1>26, <1>27, <1>1,
     <1>2, <1>3, <1>4, <1>5, <1>28, <1>29, <1>30, <1>31, <1>32, <1>33, <1>34,
     <1>35
     DEF Next, Main, Thread

\* The invariant is inductive.
LEMMA NextIInv == IInv /\ [Next]_vars => IInv'
BY NextTypeInv, NextDevmapOK, NextTranslated, NextHaveNic, NextThreadOK DEF IInv

\* Startup stays well typed, whatever fails and whatever Docker does meanwhile:
\* a thread holds the mutex of the second Ebpf object exactly while it works on
\* the program.
THEOREM TypeCorrect == Spec => []TypeOK
<1>1. IInv => TypeOK
  BY TypeInvSuffices DEF IInv
<1> QED BY InitIInv, NextIInv, <1>1, PTL DEF Spec

\* No datagram of a flow is handed to the kernel half translated by
\* try_xdp_redirect for want of a key in REDIRECT_MAP, unless its container has
\* stopped.
THEOREM AlwaysRedirected == Spec => []TranslatedIsRedirected
<1>1. IInv => TranslatedIsRedirected
  BY DEF IInv
<1> QED BY InitIInv, NextIInv, <1>1, PTL DEF Spec

\* The containers' programs, which run before main has got to the NIC, translate
\* no flow to its address until the NIC's own program can take the answers: main
\* sets PNIC_ARRAY after the attachment, if it sets it at all.
THEOREM FlowsAlwaysHaveNic == Spec => []FlowsHaveNic
<1>1. IInv => FlowsHaveNic
  BY DEF IInv
<1> QED BY InitIInv, NextIInv, <1>1, PTL DEF Spec

\* The threads of attach_namespace_pass_programs do not hinder each other: when
\* none of their calls failed, every container still there has its xdp_stub.
THEOREM StubsAlwaysComplete == Spec => []StubsComplete
<1>1. IInv => StubsComplete
  BY DEF IInv, TypeInv, SetsOK, ThreadOK, StubsComplete, AfterJoin
<1> QED BY InitIInv, NextIInv, <1>1, PTL DEF Spec
=============================================================================
