-------------------------- MODULE ControlPlaneProofs -------------------------
(***************************************************************************)
(* Proofs about ControlPlane, for any number of clients, ports, endpoints  *)
(* and lives of the daemon: the lock is held by one handler, the one at    *)
(* its head, and no port is lost or handed out twice; the rules follow the *)
(* exposures through every error path; and the handlers implement          *)
(* ExposeService.                                                          *)
(***************************************************************************)
EXTENDS ControlPlane, SequenceTheorems, WellFoundedInduction, TLAPS

(***************************************************************************)
(* What the queues of the control plane do to the set of their members:    *)
(* the free ports and the waiters of the lock are taken at the head and    *)
(* put at the back, a waiter that gives up is taken out of the middle, and *)
(* so is an iptables rule.                                                 *)
(***************************************************************************)
\* The members of a queue are what stands at its positions (the Vec and the
\* VecDeque behind PortAllocator and the waiters of tokio's RwLock).
LEMMA MembersOf ==
  ASSUME NEW S, NEW s \in Seq(S)
  PROVE  /\ ToSet(s) \subseteq S
         /\ \A i \in 1..Len(s) : s[i] \in ToSet(s)
         /\ \A x \in ToSet(s) : \E i \in 1..Len(s) : s[i] = x
         /\ s = <<>> <=> ToSet(s) = {}
  <1>1. /\ Len(s) \in Nat
        /\ DOMAIN s = 1..Len(s)
    BY LenProperties
  <1>2. \A i \in 1..Len(s) : s[i] \in S
    BY ElementOfSeq
  <1>3. s # <<>> => Len(s) >= 1
    BY <1>1, EmptySeq
  <1>4. ToSet(s) = {s[i] : i \in 1..Len(s)}
    BY <1>1 DEF ToSet
  <1>5. s = <<>> => ToSet(s) = {}
    BY <1>4
  <1>6. s # <<>> => s[1] \in ToSet(s)
    BY <1>1, <1>3, <1>4
  <1> QED
    BY <1>2, <1>4, <1>5, <1>6

\* A queue is free of repetitions when no two positions hold the same member.
LEMMA NoRepetition ==
  ASSUME NEW S, NEW s \in Seq(S)
  PROVE  IsInjective(s) <=> \A i, j \in 1..Len(s) : s[i] = s[j] => i = j
  BY LenProperties DEF IsInjective

\* Coming last (PortAllocator::deallocate, a request for the lock, iptables -A)
\* adds one member and, when it is new, repeats none.
LEMMA Appended ==
  ASSUME NEW S, NEW s \in Seq(S), NEW e \in S
  PROVE  /\ Append(s, e) \in Seq(S)
         /\ ToSet(Append(s, e)) = ToSet(s) \cup {e}
         /\ IsInjective(s) /\ e \notin ToSet(s) => IsInjective(Append(s, e))
         /\ s # <<>> => Head(Append(s, e)) = Head(s)
         /\ s = <<>> => Head(Append(s, e)) = e
  <1> DEFINE t == Append(s, e)
             n == Len(s)
  <1>1. /\ t \in Seq(S)
        /\ n \in Nat
        /\ Len(t) = n + 1
        /\ \A i \in 1..n : t[i] = s[i]
        /\ t[n + 1] = e
    BY AppendProperties, LenProperties
  <1>2. /\ \A i \in 1..n : s[i] \in ToSet(s)
        /\ \A x \in ToSet(s) : \E i \in 1..n : s[i] = x
    BY MembersOf
  <1>3. /\ \A i \in 1..Len(t) : t[i] \in ToSet(t)
        /\ \A x \in ToSet(t) : \E i \in 1..Len(t) : t[i] = x
    BY <1>1, MembersOf
  <1> HIDE DEF t, n
  <1>4. ToSet(t) = ToSet(s) \cup {e}
    <2>1. \A i \in 1..Len(t) : i \in 1..n \/ i = n + 1
      BY <1>1
    <2>2. \A i \in 1..n : i \in 1..Len(t)
      BY <1>1
    <2>3. n + 1 \in 1..Len(t)
      BY <1>1
    <2>4. ASSUME NEW x \in ToSet(t)
          PROVE  x \in ToSet(s) \cup {e}
      BY <1>1, <1>2, <1>3, <2>1
    <2>5. ASSUME NEW x \in ToSet(s)
          PROVE  x \in ToSet(t)
      BY <1>1, <1>2, <1>3, <2>2
    <2>6. e \in ToSet(t)
      BY <1>1, <1>3, <2>3
    <2> QED
      BY <2>4, <2>5, <2>6
  <1>5. ASSUME IsInjective(s), e \notin ToSet(s)
        PROVE  IsInjective(t)
    <2>1. \A i, j \in 1..n : s[i] = s[j] => i = j
      BY <1>5, NoRepetition DEF n
    <2>2. \A i \in 1..n : t[i] # e
      BY <1>1, <1>2, <1>5
    <2>3. \A i, j \in 1..Len(t) : t[i] = t[j] => i = j
      BY <1>1, <2>1, <2>2
    <2> QED
      BY <1>1, <2>3, NoRepetition
  <1> QED
    BY <1>1, <1>4, <1>5, HeadTailAppend DEF t

\* Taking the first (PortAllocator::allocate_next, the holder of the lock that
\* answers) removes that member and no other.
LEMMA HeadTaken ==
  ASSUME NEW S, NEW s \in Seq(S), s # <<>>
  PROVE  /\ Head(s) \in S
         /\ Head(s) \in ToSet(s)
         /\ Tail(s) \in Seq(S)
         /\ ToSet(Tail(s)) \subseteq ToSet(s)
         /\ ToSet(s) = {Head(s)} \cup ToSet(Tail(s))
         /\ IsInjective(s) => IsInjective(Tail(s)) /\ Head(s) \notin ToSet(Tail(s))
  <1> DEFINE t == Tail(s)
             n == Len(s)
  <1>1. /\ n \in Nat \ {0}
        /\ Head(s) \in S
        /\ t \in Seq(S)
        /\ Len(t) = n - 1
        /\ \A i \in 1..Len(t) : t[i] = s[i + 1]
    BY HeadTailProperties, EmptySeq
  <1>2. Head(s) = s[1]
    OBVIOUS
  <1>3. /\ \A i \in 1..n : s[i] \in ToSet(s)
        /\ \A x \in ToSet(s) : \E i \in 1..n : s[i] = x
    BY MembersOf
  <1>4. /\ \A i \in 1..Len(t) : t[i] \in ToSet(t)
        /\ \A x \in ToSet(t) : \E i \in 1..Len(t) : t[i] = x
    BY <1>1, MembersOf
  <1> HIDE DEF t, n
  <1>5. Head(s) \in ToSet(s)
    BY <1>1, <1>2, <1>3
  <1>6. ASSUME NEW x \in ToSet(t)
        PROVE  x \in ToSet(s)
    <2>1. PICK i \in 1..Len(t) : t[i] = x
      BY <1>4
    <2>2. i + 1 \in 1..n /\ s[i + 1] = x
      BY <1>1, <2>1
    <2> QED
      BY <1>3, <2>2
  <1>7. ASSUME NEW x \in ToSet(s), x # Head(s)
        PROVE  x \in ToSet(t)
    <2>1. PICK i \in 1..n : s[i] = x
      BY <1>3
    <2>2. i # 1
      BY <2>1, <1>2, <1>7
    <2>3. i - 1 \in 1..Len(t) /\ t[i - 1] = s[i]
      BY <1>1, <2>1, <2>2
    <2> QED
      BY <1>4, <2>1, <2>3
  <1>8. ASSUME IsInjective(s)
        PROVE  IsInjective(t) /\ Head(s) \notin ToSet(t)
    <2>1. \A i, j \in 1..n : s[i] = s[j] => i = j
      BY <1>8, NoRepetition DEF n
    <2>2. \A i, j \in 1..Len(t) : t[i] = t[j] => i = j
      BY <1>1, <2>1
    <2>3. \A i \in 1..Len(t) : t[i] # s[1]
      BY <1>1, <2>1
    <2> QED
      BY <1>1, <1>2, <1>4, <2>2, <2>3, NoRepetition
  <1> QED
    BY <1>1, <1>5, <1>6, <1>7, <1>8 DEF t

\* A set of positions that is not empty has a first one.
LEMMA FirstPosition ==
  ASSUME NEW I \in SUBSET Nat, I # {}
  PROVE  Min(I) \in I /\ \A i \in I : Min(I) <= i
  <1> DEFINE Less == OpToRel(<, Nat)
  <1>1. PICK m \in I : \A i \in I : <<i, m>> \notin Less
    BY NatLessThanWellFounded, WFMin
  <1>2. \A i, j \in Nat : i < j => <<i, j>> \in Less
    BY DEF OpToRel
  <1> HIDE DEF Less
  <1>3. \A i \in I : i \in Nat /\ m \in Nat /\ ~ (i < m)
    BY <1>1, <1>2
  <1>4. \A i \in I : m <= i
    BY <1>3
  <1> QED
    BY <1>4 DEF Min

\* Leaving the queue from the middle (a handler that is dropped while it waits,
\* iptables -D) takes one place out of it and keeps the order of the others.
LEMMA PlaceTaken ==
  ASSUME NEW S, NEW s \in Seq(S), NEW e, e \in ToSet(s)
  PROVE  \E k \in 1..Len(s) :
           /\ s[k] = e
           /\ RemoveFirst(s, e) \in Seq(S)
           /\ Len(RemoveFirst(s, e)) = Len(s) - 1
           /\ \A i \in 1..(k - 1) : RemoveFirst(s, e)[i] = s[i]
           /\ \A i \in k..(Len(s) - 1) : RemoveFirst(s, e)[i] = s[i + 1]
  <1> DEFINE I == {i \in 1..Len(s) : s[i] = e}
             k == Min(I)
             before == SubSeq(s, 1, k - 1)
             after == SubSeq(s, k + 1, Len(s))
  <1>1. Len(s) \in Nat /\ \A i \in 1..Len(s) : s[i] \in S
    BY LenProperties, ElementOfSeq
  <1>2. I # {}
    BY MembersOf
  <1>3. k \in 1..Len(s) /\ s[k] = e
    <2>1. I \in SUBSET Nat
      BY <1>1
    <2> HIDE DEF I
    <2>2. k \in I
      BY <1>2, <2>1, FirstPosition
    <2> QED
      BY <2>2 DEF I
  <1>4. RemoveFirst(s, e) = before \o after
    BY <1>2 DEF RemoveFirst, RemoveAt, SelectInSeq
  <1> HIDE DEF k, I
  <1>5. /\ before \in Seq(S)
        /\ Len(before) = k - 1
        /\ \A i \in 1..(k - 1) : before[i] = s[i]
    <2>1. /\ 1 \in Int /\ k - 1 \in Int
          /\ \A i \in 1..(k - 1) : s[i] \in S
      BY <1>1, <1>3
    <2> HIDE DEF before
    <2>2. /\ before \in Seq(S)
          /\ Len(before) = IF 1 <= k - 1 THEN (k - 1) - 1 + 1 ELSE 0
          /\ \A i \in 1..((k - 1) - 1 + 1) : before[i] = s[1 + i - 1]
      BY <2>1, SubSeqProperties DEF before
    <2> QED
      BY <2>2, <1>3, <1>1
  <1>6. /\ after \in Seq(S)
        /\ Len(after) = Len(s) - k
        /\ \A i \in 1..(Len(s) - k) : after[i] = s[k + i]
    <2>1. /\ k + 1 \in Int /\ Len(s) \in Int
          /\ \A i \in (k + 1)..Len(s) : s[i] \in S
      BY <1>1, <1>3
    <2> HIDE DEF after
    <2>2. /\ after \in Seq(S)
          /\ Len(after) = IF k + 1 <= Len(s) THEN Len(s) - (k + 1) + 1 ELSE 0
          /\ \A i \in 1..(Len(s) - (k + 1) + 1) : after[i] = s[(k + 1) + i - 1]
      BY <2>1, SubSeqProperties DEF after
    <2> QED
      BY <2>2, <1>3, <1>1
  <1> HIDE DEF before, after
  <1>7. /\ before \o after \in Seq(S)
        /\ Len(before \o after) = Len(s) - 1
        /\ \A i \in 1..(Len(s) - 1) :
             (before \o after)[i] = IF i <= k - 1 THEN before[i] ELSE after[i - (k - 1)]
    <2>1. /\ Len(before \o after) = Len(before) + Len(after)
          /\ before \o after \in Seq(S)
          /\ \A i \in 1..(Len(before) + Len(after)) :
               (before \o after)[i] = IF i <= Len(before) THEN before[i]
                                      ELSE after[i - Len(before)]
      BY <1>5, <1>6, ConcatProperties
    <2>2. Len(before) + Len(after) = Len(s) - 1
      BY <1>1, <1>3, <1>5, <1>6
    <2> QED
      BY <1>5, <2>1, <2>2
  <1>8. \A i \in 1..(k - 1) : (before \o after)[i] = s[i]
    BY <1>1, <1>3, <1>5, <1>7
  <1>9. \A i \in k..(Len(s) - 1) : (before \o after)[i] = s[i + 1]
    <2> SUFFICES ASSUME NEW i \in k..(Len(s) - 1)
                 PROVE  (before \o after)[i] = s[i + 1]
      OBVIOUS
    <2>1. /\ i \in 1..(Len(s) - 1) /\ ~ (i <= k - 1)
          /\ i - (k - 1) \in 1..(Len(s) - k) /\ k + (i - (k - 1)) = i + 1
      BY <1>1, <1>3
    <2>2. (before \o after)[i] = after[i - (k - 1)]
      BY <1>7, <2>1
    <2>3. after[i - (k - 1)] = s[k + (i - (k - 1))]
      BY <1>6, <2>1
    <2> QED
      BY <2>1, <2>2, <2>3
  <1> QED
    BY <1>3, <1>4, <1>7, <1>8, <1>9

\* Who is taken out is gone when the queue held it once; everybody else stays,
\* and unless it was the first the first is the same.
LEMMA Removed ==
  ASSUME NEW S, NEW s \in Seq(S), NEW e, e \in ToSet(s)
  PROVE  /\ RemoveFirst(s, e) \in Seq(S)
         /\ ToSet(RemoveFirst(s, e)) \subseteq ToSet(s)
         /\ ToSet(s) \ {e} \subseteq ToSet(RemoveFirst(s, e))
         /\ IsInjective(s) => /\ IsInjective(RemoveFirst(s, e))
                              /\ e \notin ToSet(RemoveFirst(s, e))
         /\ e # Head(s) => Head(RemoveFirst(s, e)) = Head(s)
  <1> DEFINE t == RemoveFirst(s, e)
             n == Len(s)
  <1>1. n \in Nat
    BY LenProperties
  <1>2. PICK k \in 1..n :
          /\ s[k] = e
          /\ t \in Seq(S)
          /\ Len(t) = n - 1
          /\ \A i \in 1..(k - 1) : t[i] = s[i]
          /\ \A i \in k..(n - 1) : t[i] = s[i + 1]
    BY PlaceTaken
  <1>3. /\ \A i \in 1..n : s[i] \in ToSet(s)
        /\ \A x \in ToSet(s) : \E i \in 1..n : s[i] = x
    BY MembersOf
  <1> HIDE DEF t, n
  <1>4. /\ \A i \in 1..(n - 1) : t[i] \in ToSet(t)
        /\ \A x \in ToSet(t) : \E i \in 1..(n - 1) : t[i] = x
    BY <1>2, MembersOf
  <1>5. ASSUME NEW x \in ToSet(t)
        PROVE  x \in ToSet(s)
    <2>1. PICK i \in 1..(n - 1) : t[i] = x
      BY <1>4
    <2>2. CASE i < k
      BY <1>1, <1>2, <1>3, <2>1, <2>2
    <2>3. CASE i >= k
      <3>1. i + 1 \in 1..n /\ s[i + 1] = x
        BY <1>1, <1>2, <2>1, <2>3
      <3> QED
        BY <1>3, <3>1
    <2> QED
      BY <1>1, <1>2, <2>2, <2>3
  <1>6. ASSUME NEW x \in ToSet(s), x # e
        PROVE  x \in ToSet(t)
    <2>1. PICK i \in 1..n : s[i] = x
      BY <1>3
    <2>2. i # k
      BY <1>2, <1>6, <2>1
    <2>3. CASE i < k
      <3>1. i \in 1..(n - 1) /\ t[i] = x
        BY <1>1, <1>2, <2>1, <2>3
      <3> QED
        BY <1>4, <3>1
    <2>4. CASE i > k
      <3>1. i - 1 \in 1..(n - 1) /\ t[i - 1] = x
        BY <1>1, <1>2, <2>1, <2>4
      <3> QED
        BY <1>4, <3>1
    <2> QED
      BY <1>1, <1>2, <2>2, <2>3, <2>4
  <1>7. ASSUME IsInjective(s)
        PROVE  IsInjective(t) /\ e \notin ToSet(t)
    <2>1. \A i, j \in 1..n : s[i] = s[j] => i = j
      BY <1>7, NoRepetition DEF n
    <2> DEFINE From(i) == IF i < k THEN i ELSE i + 1
    <2>2. \A i \in 1..(n - 1) : From(i) \in 1..n /\ From(i) # k /\ t[i] = s[From(i)]
      BY <1>1, <1>2
    <2>3. \A i, j \in 1..(n - 1) : From(i) = From(j) => i = j
      BY <1>1, <1>2
    <2> HIDE DEF From
    <2>4. \A i, j \in 1..(n - 1) : t[i] = t[j] => i = j
      BY <2>1, <2>2, <2>3
    <2>5. \A i \in 1..(n - 1) : t[i] # e
      BY <1>2, <2>1, <2>2
    <2> QED
      BY <1>2, <1>4, <2>4, <2>5, NoRepetition
  <1>8. ASSUME e # Head(s)
        PROVE  Head(t) = Head(s)
    <2>1. Head(s) = s[1] /\ Head(t) = t[1]
      OBVIOUS
    <2>2. k # 1
      BY <1>2, <1>8, <2>1
    <2>3. 1 \in 1..(k - 1)
      BY <1>1, <1>2, <2>2
    <2> QED
      BY <1>2, <2>1, <2>3
  <1> QED
    BY <1>2, <1>5, <1>6, <1>7, <1>8 DEF t
-----------------------------------------------------------------------------
\* A handler that runs has the lock and is between two of its steps.
Running == {c \in Clients : handler[c].at \in {"addRule", "removeMap"}}

\* The lock: its queue holds each handler that is not idle once, and the one
\* that runs is at the head.
LockOK ==
  /\ handler \in [Clients -> Handlers]
  /\ lock \in Seq(Clients)
  /\ IsInjective(lock)
  /\ ToSet(lock) = {c \in Clients : handler[c].at # "idle"}
  /\ \A c \in Running : c = Head(lock)

\* The rest of the state has the types of the code.
DataOK ==
  /\ ports \in Seq(HostPorts)
  /\ Exposed \subseteq HostPorts
  /\ expose_map \in [Exposed -> Known]
  /\ rules \in Seq([port : HostPorts, target : Known])
  /\ daemon \in {"up", "stopping", "cleaned", "uncleaned", "down"}
  /\ lives \in 1..MaxLives

\* What a handler works on stays exposed while it runs.
HeldPort == InProgress \subseteq Exposed

\* The type invariant is these three parts (SharedState of the handlers behind
\* its RwLock, and the locals the handlers carry over the iptables command).
LEMMA TypeParts == TypeOK <=> DataOK /\ LockOK /\ HeldPort
  BY DEF TypeOK, DataOK, LockOK, HeldPort, Running, InProgress
-----------------------------------------------------------------------------
\* What the phase of a handler says about its locals (the request it was given,
\* and the port it has allocated or found).
LEMMA HandlerLocals ==
  ASSUME LockOK, NEW c \in Clients
  PROVE  /\ handler[c].at \in {"idle", "queued", "addRule", "removeMap"}
         /\ handler[c].at = "queued" => handler[c].request \in Requests
         /\ handler[c].at \in {"addRule", "removeMap"} => handler[c].port \in HostPorts
  BY DEF LockOK, Handlers, Idle

\* A request is an endpoint to expose or a port to take back.
LEMMA RequestFields ==
  ASSUME NEW request \in Requests
  PROVE  /\ request.op \in {"expose", "unexpose"}
         /\ request.op = "unexpose" => request.port \in HostPorts
         /\ request.op = "expose" => request.target \in Targets
  BY DEF Requests

\* The write lock excludes: when one handler runs it is at the head of the queue
\* and no other runs (state.write().await).
LEMMA OneRuns ==
  ASSUME LockOK, NEW c \in Running
  PROVE  /\ c \in Clients
         /\ lock # <<>> /\ c = Head(lock)
         /\ Running = {c}
         /\ InProgress = {handler[c].port}
  <1>1. c \in Clients /\ c = Head(lock)
    BY DEF Running, LockOK
  <1>2. c \in ToSet(lock)
    BY DEF Running, LockOK
  <1>3. lock # <<>>
    BY <1>2, MembersOf DEF LockOK
  <1>4. Running = {c}
    BY DEF Running, LockOK
  <1> QED
    BY <1>1, <1>3, <1>4 DEF InProgress, Running

\* A handler that gets the lock finds no other running.
LEMMA NoneRuns ==
  ASSUME LockOK, NEW c \in Clients, NEW op, Starts(c, op)
  PROVE  /\ lock # <<>> /\ c = Head(lock)
         /\ Running = {} /\ InProgress = {}
         /\ handler[c].request \in Requests /\ handler[c].request.op = op
  <1>1. lock # <<>> /\ c = Head(lock) /\ handler[c].at = "queued"
        /\ handler[c].request.op = op
    BY DEF Starts
  <1>2. Running = {}
    BY <1>1 DEF Running, LockOK
  <1> QED
    BY <1>1, <1>2, HandlerLocals DEF InProgress, Running

\* A request that comes last changes neither the head of the queue nor who runs.
LEMMA RequestKeepsLock ==
  ASSUME LockOK, NEW c \in Clients, NEW request \in Requests, Request(c, request)
  PROVE  LockOK' /\ Running' = Running /\ \A d \in Running : handler'[d] = handler[d]
  <1> DEFINE phase == [at |-> "queued", request |-> request]
  <1>1. /\ handler[c].at = "idle"
        /\ handler' = [handler EXCEPT ![c] = phase]
        /\ lock' = Append(lock, c)
    BY DEF Request
  <1>2. phase \in Handlers /\ phase.at = "queued"
    BY DEF Handlers
  <1> HIDE DEF phase
  <1>3. /\ handler' \in [Clients -> Handlers]
        /\ handler'[c] = phase
        /\ \A d \in Clients \ {c} : handler'[d] = handler[d]
    BY <1>1, <1>2 DEF LockOK
  <1>4. c \notin ToSet(lock)
    BY <1>1 DEF LockOK
  <1>5. /\ lock' \in Seq(Clients)
        /\ IsInjective(lock')
        /\ ToSet(lock') = ToSet(lock) \cup {c}
        /\ lock # <<>> => Head(lock') = Head(lock)
    BY <1>1, <1>4, Appended DEF LockOK
  <1>6. Running' = Running /\ \A d \in Running : handler'[d] = handler[d]
    BY <1>1, <1>2, <1>3 DEF Running
  <1>7. ToSet(lock') = {d \in Clients : handler'[d].at # "idle"}
    BY <1>1, <1>2, <1>3, <1>5 DEF LockOK
  <1>8. \A d \in Running' : d = Head(lock')
    BY <1>5, <1>6, OneRuns
  <1> QED
    BY <1>3, <1>5, <1>6, <1>7, <1>8 DEF LockOK

\* A waiter that is dropped leaves its place and changes nothing for the others.
LEMMA DisconnectKeepsLock ==
  ASSUME LockOK, NEW c \in Clients, Disconnect(c)
  PROVE  LockOK' /\ Running' = Running /\ \A d \in Running : handler'[d] = handler[d]
  <1>1. /\ handler[c].at = "queued"
        /\ handler' = [handler EXCEPT ![c] = Idle]
        /\ lock' = RemoveFirst(lock, c)
    BY DEF Disconnect
  <1>2. Idle \in Handlers /\ Idle.at = "idle"
    BY DEF Handlers, Idle
  <1>3. /\ handler' \in [Clients -> Handlers]
        /\ handler'[c] = Idle
        /\ \A d \in Clients \ {c} : handler'[d] = handler[d]
    BY <1>1, <1>2 DEF LockOK
  <1>4. c \in ToSet(lock)
    BY <1>1 DEF LockOK
  <1>5. /\ lock' \in Seq(Clients)
        /\ IsInjective(lock')
        /\ ToSet(lock') = ToSet(lock) \ {c}
        /\ c # Head(lock) => Head(lock') = Head(lock)
    BY <1>1, <1>4, Removed DEF LockOK
  <1>6. Running' = Running /\ \A d \in Running : handler'[d] = handler[d]
    BY <1>1, <1>2, <1>3 DEF Running
  <1>7. ToSet(lock') = {d \in Clients : handler'[d].at # "idle"}
    BY <1>1, <1>2, <1>3, <1>5 DEF LockOK
  <1>8. \A d \in Running' : d = Head(lock')
    BY <1>1, <1>5, <1>6, OneRuns DEF Running
  <1> QED
    BY <1>3, <1>5, <1>6, <1>7, <1>8 DEF LockOK

\* The holder answers and drops its guard: the next in the queue is the head,
\* and nobody runs.
LEMMA AnswerKeepsLock ==
  ASSUME LockOK, lock # <<>>, Running \subseteq {Head(lock)}, Answer(Head(lock))
  PROVE  LockOK' /\ Running' = {} /\ InProgress' = {}
  <1> DEFINE c == Head(lock)
  <1>1. handler' = [handler EXCEPT ![c] = Idle] /\ lock' = Tail(lock)
    BY DEF Answer
  <1>2. Idle \in Handlers /\ Idle.at = "idle"
    BY DEF Handlers, Idle
  <1>3. /\ c \in Clients
        /\ lock' \in Seq(Clients)
        /\ IsInjective(lock')
        /\ ToSet(lock') = ToSet(lock) \ {c}
    BY <1>1, HeadTaken DEF LockOK
  <1> HIDE DEF c
  <1>4. /\ handler' \in [Clients -> Handlers]
        /\ handler'[c] = Idle
        /\ \A d \in Clients \ {c} : handler'[d] = handler[d]
    BY <1>1, <1>2, <1>3 DEF LockOK
  <1>5. Running' = {}
    BY <1>2, <1>4 DEF Running, c
  <1>6. ToSet(lock') = {d \in Clients : handler'[d].at # "idle"}
    BY <1>2, <1>3, <1>4 DEF LockOK
  <1> QED
    BY <1>3, <1>4, <1>5, <1>6 DEF LockOK, InProgress, Running

\* The holder goes on to its second half and keeps the lock.
LEMMA ProceedKeepsLock ==
  ASSUME LockOK, lock # <<>>, Running = {}, NEW port \in HostPorts,
         NEW at \in {"addRule", "removeMap"},
         handler[Head(lock)].at # "idle",
         Proceed(Head(lock), [at |-> at, port |-> port])
  PROVE  LockOK' /\ Running' = {Head(lock)} /\ InProgress' = {port}
  <1> DEFINE c == Head(lock)
             phase == [at |-> at, port |-> port]
  <1>1. handler' = [handler EXCEPT ![c] = phase] /\ lock' = lock
    BY DEF Proceed
  <1>2. phase \in Handlers /\ phase.at = at /\ phase.port = port
    BY DEF Handlers
  <1>3. c \in Clients
    BY HeadTaken DEF LockOK
  <1>c. handler[c].at # "idle"
    OBVIOUS
  <1> HIDE DEF c, phase
  <1>4. /\ handler' \in [Clients -> Handlers]
        /\ handler'[c] = phase
        /\ \A d \in Clients \ {c} : handler'[d] = handler[d]
    BY <1>1, <1>2, <1>3 DEF LockOK
  <1>5. Running' = {c}
    BY <1>2, <1>3, <1>4 DEF Running
  <1>6. ToSet(lock') = {d \in Clients : handler'[d].at # "idle"}
    BY <1>1, <1>2, <1>c, <1>4 DEF LockOK
  <1>7. InProgress' = {port}
    BY <1>2, <1>4, <1>5 DEF InProgress, Running
  <1> QED
    BY <1>1, <1>4, <1>5, <1>6, <1>7 DEF LockOK, c
-----------------------------------------------------------------------------
(***************************************************************************)
(* What a step does to what the handlers share, whichever handler takes    *)
(* it: the free ports, EXPOSE_MAP, the rules, and the port in progress.    *)
(***************************************************************************)
DaemonStays == UNCHANGED <<daemon, lives>>

\* The next free port t is given to is taken out of the queue (the first half
\* of expose_port).
Takes(p, t) ==
  /\ Serving /\ DaemonStays
  /\ InProgress = {} /\ InProgress' = {p}
  /\ ports # <<>> /\ p = Head(ports) /\ ports' = Tail(ports)
  /\ p \notin Exposed
  /\ expose_map' = [q \in Exposed \cup {p} |-> IF q = p THEN t ELSE expose_map[q]]
  /\ UNCHANGED rules

\* The rule of the port in progress is added (iptables -A).
Adds(p) ==
  /\ DaemonStays
  /\ InProgress = {p} /\ InProgress' = {}
  /\ p \in Exposed
  /\ rules' = Append(rules, RuleOf(p))
  /\ UNCHANGED <<ports, expose_map>>

\* The rule of an exposed port is deleted (iptables -D).
Deletes(p) ==
  /\ DaemonStays
  /\ InProgress = {} /\ InProgress' = {p}
  /\ p \in Exposed /\ RuleOf(p) \in ToSet(rules)
  /\ rules' = RemoveFirst(rules, RuleOf(p))
  /\ UNCHANGED <<ports, expose_map>>

\* The port in progress is given back (the rollback of expose_port, the second
\* half of unexpose_port).
GivesBack(p) ==
  /\ DaemonStays
  /\ InProgress = {p} /\ InProgress' = {}
  /\ p \in Exposed
  /\ expose_map' = [q \in Exposed \ {p} |-> expose_map[q]]
  /\ ports' = Append(ports, p)
  /\ UNCHANGED rules

\* A port is taken and put back at once (EXPOSE_MAP refuses the entry).
Rotates ==
  /\ DaemonStays
  /\ ports # <<>> /\ ports' = Append(Tail(ports), Head(ports))
  /\ UNCHANGED <<expose_map, rules, InProgress>>

\* A request, a waiter that leaves, a refusal, a signal.
Rests ==
  /\ \/ DaemonStays
     \/ daemon = "up" /\ daemon' = "stopping" /\ UNCHANGED lives
  /\ UNCHANGED <<ports, expose_map, rules, InProgress>>

\* clean_up flushes the rules, or fails to.
Flushes ==
  /\ daemon' \in {"cleaned", "uncleaned"}
  /\ rules' \in {<<>>, rules}
  /\ UNCHANGED <<ports, expose_map, InProgress, lives>>

\* The process goes, with all but the rules.
Ends ==
  /\ daemon' = "down"
  /\ ports' = FreshPorts /\ expose_map' = NoExposure /\ InProgress' = {}
  /\ UNCHANGED <<rules, lives>>

\* The process is started again.
Restarts ==
  /\ daemon = "down" /\ daemon' = "up"
  /\ lives < MaxLives /\ lives' = lives + 1
  /\ UNCHANGED <<ports, expose_map, rules, InProgress>>

Effect ==
  \/ \E p \in HostPorts, t \in Known : Takes(p, t)
  \/ \E p \in HostPorts : Adds(p) \/ Deletes(p) \/ GivesBack(p)
  \/ Rotates
  \/ Rests
  \/ Flushes
  \/ Ends
  \/ Restarts

\* The first half of expose_port keeps the lock in order and rests, rotates the
\* free ports or takes one of them.
LEMMA ExposeStarts ==
  ASSUME TypeOK, NEW c \in Clients,
         ExposeRefused(c) \/ ExposeMapFails(c) \/ ExposeInsert(c)
  PROVE  LockOK' /\ Effect
  <1> USE TypeParts
  <1>0. Starts(c, "expose")
    BY DEF ExposeRefused, ExposeMapFails, ExposeInsert
  <1>1. /\ lock # <<>> /\ c = Head(lock) /\ handler[c].at = "queued"
        /\ Running = {} /\ InProgress = {}
        /\ Serving
    BY <1>0, NoneRuns DEF Starts
  <1>2. ASSUME Answer(c)
        PROVE  LockOK' /\ InProgress' = InProgress
    BY <1>1, <1>2, AnswerKeepsLock
  <1>3. CASE ExposeRefused(c)
    BY <1>2, <1>3 DEF ExposeRefused, Effect, Rests, DaemonStays
  <1>4. CASE ExposeMapFails(c)
    BY <1>2, <1>4 DEF ExposeMapFails, Effect, Rotates, DaemonStays
  <1>5. CASE ExposeInsert(c)
    <2> DEFINE p == Head(ports)
               t == handler[c].request.target
    <2>1. /\ ports # <<>> /\ ports' = Tail(ports) /\ t \in Known
          /\ p \notin Exposed
          /\ expose_map' = [q \in Exposed \cup {p} |->
                              IF q = p THEN t ELSE expose_map[q]]
          /\ Proceed(c, [at |-> "addRule", port |-> p])
          /\ UNCHANGED <<rules, daemon, lives>>
      BY <1>5 DEF ExposeInsert, MapRefuses
    <2>2. p \in HostPorts
      BY <2>1, HeadTaken DEF DataOK
    <2>3. LockOK' /\ InProgress' = {p}
      BY <1>1, <2>1, <2>2, ProceedKeepsLock
    <2>4. Takes(p, t)
      BY <1>1, <2>1, <2>3 DEF Takes, DaemonStays
    <2> QED
      BY <2>1, <2>2, <2>3, <2>4 DEF Effect
  <1> QED
    BY <1>3, <1>4, <1>5

\* The first half of unexpose_port rests or deletes the rule of the port.
LEMMA UnexposeStarts ==
  ASSUME TypeOK, NEW c \in Clients,
         UnexposeRefused(c) \/ UnexposeDeleteRule(c)
  PROVE  LockOK' /\ Effect
  <1> USE TypeParts
  <1>0. Starts(c, "unexpose")
    BY DEF UnexposeRefused, UnexposeDeleteRule
  <1>1. /\ lock # <<>> /\ c = Head(lock) /\ handler[c].at = "queued"
        /\ Running = {} /\ InProgress = {}
        /\ handler[c].request \in Requests /\ handler[c].request.op = "unexpose"
    BY <1>0, NoneRuns DEF Starts
  <1>2. CASE UnexposeRefused(c)
    <2>1. LockOK' /\ InProgress' = InProgress
      BY <1>1, <1>2, AnswerKeepsLock DEF UnexposeRefused
    <2> QED
      BY <1>2, <2>1 DEF UnexposeRefused, Effect, Rests, DaemonStays
  <1>3. CASE UnexposeDeleteRule(c)
    <2> DEFINE p == handler[c].request.port
    <2>1. /\ p \in Exposed /\ RuleOf(p) \in ToSet(rules)
          /\ rules' = RemoveFirst(rules, RuleOf(p))
          /\ Proceed(c, [at |-> "removeMap", port |-> p])
          /\ UNCHANGED <<ports, expose_map, daemon, lives>>
      BY <1>3 DEF UnexposeDeleteRule, HasRule
    <2>2. p \in HostPorts
      BY <1>1, RequestFields
    <2>3. LockOK' /\ InProgress' = {p}
      BY <1>1, <2>1, <2>2, ProceedKeepsLock
    <2>4. Deletes(p)
      BY <1>1, <2>1, <2>3 DEF Deletes, DaemonStays
    <2> QED
      BY <2>2, <2>3, <2>4 DEF Effect
  <1> QED
    BY <1>2, <1>3

\* The second half of a handler adds the rule or gives the port back, answers
\* and releases the lock.
LEMMA HandlerEnds ==
  ASSUME TypeOK, NEW c \in Clients,
         ExposeAddRule(c) \/ ExposeRollback(c) \/ UnexposeRemove(c)
  PROVE  LockOK' /\ Effect
  <1> DEFINE p == handler[c].port
  <1> USE TypeParts
  <1>0. handler[c].at \in {"addRule", "removeMap"} /\ Answer(c)
    BY DEF ExposeAddRule, ExposeRollback, UnexposeRemove
  <1>1. /\ lock # <<>> /\ c = Head(lock) /\ Running = {c}
        /\ InProgress = {p} /\ p \in HostPorts
    BY <1>0, OneRuns, HandlerLocals DEF Running
  <1>2. p \in Exposed
    BY <1>1 DEF HeldPort
  <1>3. LockOK' /\ InProgress' = {}
    BY <1>0, <1>1, AnswerKeepsLock
  <1>4. CASE ExposeAddRule(c)
    <2>1. Adds(p)
      BY <1>1, <1>2, <1>3, <1>4 DEF ExposeAddRule, Adds, DaemonStays, RuleOf
    <2> QED
      BY <1>1, <1>3, <2>1 DEF Effect
  <1>5. CASE ExposeRollback(c) \/ UnexposeRemove(c)
    <2>1. GivesBack(p)
      BY <1>1, <1>2, <1>3, <1>5 DEF ExposeRollback, UnexposeRemove, GivesBack, DaemonStays
    <2> QED
      BY <1>1, <1>3, <2>1 DEF Effect
  <1> QED
    BY <1>4, <1>5

\* Every step of the control plane keeps the lock in order and has one of the
\* effects above.
LEMMA EveryStep ==
  ASSUME TypeOK, [Next]_vars
  PROVE  LockOK' /\ Effect
  <1> USE TypeParts
  <1>1. ASSUME UNCHANGED <<handler, lock>>
        PROVE  LockOK' /\ InProgress' = InProgress
    BY <1>1 DEF LockOK, Running, InProgress
  <1>2. CASE UNCHANGED vars
    BY <1>1, <1>2 DEF vars, Effect, Rests, DaemonStays
  <1>3. ASSUME NEW c \in Clients, NEW request \in Requests, Request(c, request)
        PROVE  LockOK' /\ Effect
    <2>1. LockOK' /\ InProgress' = InProgress
      BY <1>3, RequestKeepsLock DEF InProgress, Running
    <2> QED
      BY <1>3, <2>1 DEF Request, Effect, Rests, DaemonStays
  <1>4. ASSUME NEW c \in Clients, Disconnect(c)
        PROVE  LockOK' /\ Effect
    <2>1. LockOK' /\ InProgress' = InProgress
      BY <1>4, DisconnectKeepsLock DEF InProgress, Running
    <2> QED
      BY <1>4, <2>1 DEF Disconnect, Effect, Rests, DaemonStays
  <1>5. ASSUME NEW c \in Clients, Handle(c)
        PROVE  LockOK' /\ Effect
    BY <1>5, ExposeStarts, UnexposeStarts, HandlerEnds DEF Handle
  <1>6. CASE Signal
    BY <1>1, <1>6 DEF Signal, Effect, Rests
  <1>7. CASE CleanUp
    BY <1>1, <1>7 DEF CleanUp, Effect, Flushes
  <1>8. ASSUME Gone
        PROVE  LockOK' /\ Effect
    <2>1. /\ handler' \in [Clients -> Handlers]
          /\ \A c \in Clients : handler'[c].at = "idle"
      BY <1>8 DEF Gone, Handlers, Idle
    <2>2. lock' = <<>>
      BY <1>8 DEF Gone
    <2>3. lock' \in Seq(Clients) /\ IsInjective(lock') /\ ToSet(lock') = {}
      BY <2>2 DEF IsInjective, ToSet
    <2>4. Running' = {} /\ InProgress' = {}
      BY <2>1 DEF Running, InProgress
    <2>5. LockOK'
      BY <2>1, <2>3, <2>4 DEF LockOK
    <2> QED
      BY <1>8, <2>4, <2>5 DEF Gone, Effect, Ends
  <1>9. CASE Exit \/ Crash
    BY <1>8, <1>9 DEF Exit, Crash
  <1>10. CASE Restart
    BY <1>1, <1>10 DEF Restart, Effect, Restarts
  <1> QED
    BY <1>2, <1>3, <1>4, <1>5, <1>6, <1>7, <1>9, <1>10 DEF Next
-----------------------------------------------------------------------------
\* A new allocator holds each port of the range once (PortAllocator::new).
LEMMA FreshPortsComplete ==
  /\ FreshPorts \in Seq(HostPorts)
  /\ IsInjective(FreshPorts)
  /\ ToSet(FreshPorts) = HostPorts
  <1> DEFINE n == Upper - Lower + 1
  <1> USE ControlPlaneAssumption
  <1>1. n \in Nat /\ FreshPorts = [i \in 1..n |-> Lower + i - 1]
    BY DEF FreshPorts
  <1> HIDE DEF n
  <1>2. \A i \in 1..n : Lower + i - 1 \in HostPorts
    BY <1>1 DEF HostPorts, n
  <1>3. FreshPorts \in [1..n -> HostPorts]
    BY <1>1, <1>2
  <1>4. FreshPorts \in Seq(HostPorts)
    <2>1. n \in Nat
      BY <1>1
    <2>2. FreshPorts \in UNION {[1..m -> HostPorts] : m \in Nat}
      BY <1>3, <2>1
    <2> QED
      BY <2>2, SeqDef
  <1>5. IsInjective(FreshPorts)
    BY <1>1 DEF IsInjective
  <1>6. ASSUME NEW p \in HostPorts
        PROVE  p \in ToSet(FreshPorts)
    <2>1. p - Lower + 1 \in 1..n /\ Lower + (p - Lower + 1) - 1 = p
      BY DEF HostPorts, n
    <2>2. p - Lower + 1 \in DOMAIN FreshPorts /\ FreshPorts[p - Lower + 1] = p
      BY <1>1, <2>1
    <2> QED
      BY <2>2 DEF ToSet
  <1>7. ToSet(FreshPorts) \subseteq HostPorts
    BY <1>4, MembersOf
  <1> QED
    BY <1>4, <1>5, <1>6, <1>7

\* The daemon starts with every port free, nothing exposed and no handler.
LEMMA InitTypeOK == Init => TypeOK
  <1> SUFFICES ASSUME Init PROVE TypeOK
    OBVIOUS
  <1> USE DEF Init
  <1>1. DataOK
    <2>1. lives \in 1..MaxLives
      BY ControlPlaneAssumption
    <2>2. /\ Exposed = {}
          /\ expose_map \in [Exposed -> Known]
      BY DEF NoExposure, Exposed
    <2>3. rules \in Seq([port : HostPorts, target : Known])
      OBVIOUS
    <2> QED
      BY <2>1, <2>2, <2>3, FreshPortsComplete DEF DataOK
  <1>2. Running = {} /\ InProgress = {}
    BY DEF Running, InProgress, Idle
  <1>3. lock \in Seq(Clients) /\ IsInjective(lock) /\ ToSet(lock) = {}
    BY DEF IsInjective, ToSet
  <1>4. /\ handler \in [Clients -> Handlers]
        /\ \A c \in Clients : handler[c].at = "idle"
    BY DEF Handlers, Idle
  <1>5. LockOK
    BY <1>2, <1>3, <1>4 DEF LockOK
  <1> QED
    BY <1>1, <1>2, <1>5, TypeParts DEF HeldPort

\* An entry put into EXPOSE_MAP is the one new entry and leaves the others.
LEMMA EntryAdded ==
  ASSUME DataOK, NEW p \in HostPorts, NEW t \in Known, Takes(p, t)
  PROVE  /\ Exposed' = Exposed \cup {p}
         /\ expose_map' \in [Exposed' -> Known]
         /\ expose_map'[p] = t
         /\ \A q \in Exposed : expose_map'[q] = expose_map[q]
  <1>1. /\ p \notin Exposed
        /\ expose_map' = [q \in Exposed \cup {p} |-> IF q = p THEN t ELSE expose_map[q]]
    BY DEF Takes
  <1>2. Exposed' = Exposed \cup {p}
    BY <1>1 DEF Exposed
  <1>3. \A q \in Exposed : expose_map[q] \in Known
    BY DEF DataOK
  <1> QED
    BY <1>1, <1>2, <1>3

\* An entry taken out of EXPOSE_MAP is the one that goes.
LEMMA EntryRemoved ==
  ASSUME DataOK, NEW p \in HostPorts, GivesBack(p)
  PROVE  /\ Exposed' = Exposed \ {p}
         /\ expose_map' \in [Exposed' -> Known]
         /\ \A q \in Exposed' : expose_map'[q] = expose_map[q]
  <1>1. expose_map' = [q \in Exposed \ {p} |-> expose_map[q]]
    BY DEF GivesBack
  <1>2. Exposed' = Exposed \ {p}
    BY <1>1 DEF Exposed
  <1>3. \A q \in Exposed : expose_map[q] \in Known
    BY DEF DataOK
  <1> QED
    BY <1>1, <1>2, <1>3

\* The rule of an exposure names its port and its endpoint.
LEMMA RuleFields ==
  ASSUME DataOK
  PROVE  /\ \A p \in Exposed : RuleOf(p) \in [port : HostPorts, target : Known]
         /\ \A p \in Exposed : RuleOf(p).port = p /\ RuleOf(p).target = expose_map[p]
         /\ \A p, q \in Exposed : RuleOf(p) = RuleOf(q) => p = q
  BY DEF DataOK, RuleOf, Rule

\* Every step keeps the types, the discipline of the lock and the claim of the
\* running handler on its port.
LEMMA NextTypeOK ==
  ASSUME TypeOK, [Next]_vars
  PROVE  TypeOK'
  <1> USE TypeParts
  <1>1. LockOK' /\ Effect
    BY EveryStep
  <1>2. UNCHANGED expose_map => Exposed' = Exposed
    BY DEF Exposed
  <1>3. ASSUME NEW p \in HostPorts, NEW t \in Known, Takes(p, t)
        PROVE  DataOK' /\ HeldPort'
    <2>1. ports' \in Seq(HostPorts)
      BY <1>3, HeadTaken DEF Takes, DataOK
    <2>2. /\ InProgress' = {p}
          /\ UNCHANGED <<rules, daemon, lives>>
      BY <1>3 DEF Takes, DaemonStays
    <2> QED
      BY <1>3, <2>1, <2>2, EntryAdded DEF DataOK, HeldPort
  <1>4. ASSUME NEW p \in HostPorts, Adds(p)
        PROVE  DataOK' /\ HeldPort'
    <2>1. rules' \in Seq([port : HostPorts, target : Known])
      BY <1>4, RuleFields, Appended DEF Adds, DataOK
    <2>2. /\ InProgress' = {}
          /\ UNCHANGED <<ports, expose_map, daemon, lives>>
      BY <1>4 DEF Adds, DaemonStays
    <2> QED
      BY <1>2, <2>1, <2>2 DEF DataOK, HeldPort
  <1>5. ASSUME NEW p \in HostPorts, Deletes(p)
        PROVE  DataOK' /\ HeldPort'
    <2>1. rules' \in Seq([port : HostPorts, target : Known])
      BY <1>5, Removed DEF Deletes, DataOK
    <2>2. /\ p \in Exposed /\ InProgress' = {p}
          /\ UNCHANGED <<ports, expose_map, daemon, lives>>
      BY <1>5 DEF Deletes, DaemonStays
    <2> QED
      BY <1>2, <2>1, <2>2 DEF DataOK, HeldPort
  <1>6. ASSUME NEW p \in HostPorts, GivesBack(p)
        PROVE  DataOK' /\ HeldPort'
    <2>1. ports' \in Seq(HostPorts)
      BY <1>6, Appended DEF GivesBack, DataOK
    <2>2. /\ InProgress' = {}
          /\ UNCHANGED <<rules, daemon, lives>>
      BY <1>6 DEF GivesBack, DaemonStays
    <2> QED
      BY <1>6, <2>1, <2>2, EntryRemoved DEF DataOK, HeldPort
  <1>7. ASSUME Rotates
        PROVE  DataOK' /\ HeldPort'
    <2>1. /\ Tail(ports) \in Seq(HostPorts) /\ Head(ports) \in HostPorts
          /\ ports' = Append(Tail(ports), Head(ports))
      BY <1>7, HeadTaken DEF Rotates, DataOK
    <2>2. ports' \in Seq(HostPorts)
      BY <2>1, Appended
    <2> QED
      BY <1>2, <1>7, <2>2 DEF Rotates, DaemonStays, DataOK, HeldPort
  <1>8. ASSUME Rests
        PROVE  DataOK' /\ HeldPort'
    BY <1>2, <1>8 DEF Rests, DaemonStays, DataOK, HeldPort
  <1>9. ASSUME Flushes
        PROVE  DataOK' /\ HeldPort'
    <2>1. rules' \in Seq([port : HostPorts, target : Known])
      <3>1. rules' = <<>> \/ rules' = rules
        BY <1>9 DEF Flushes
      <3> QED
        BY <3>1, EmptySeq DEF DataOK
    <2> QED
      BY <1>2, <1>9, <2>1 DEF Flushes, DataOK, HeldPort
  <1>10. ASSUME Ends
        PROVE  DataOK' /\ HeldPort'
    <2>1. Exposed' = {} /\ expose_map' \in [Exposed' -> Known]
      BY <1>10 DEF Ends, NoExposure, Exposed
    <2> QED
      BY <1>10, <2>1, FreshPortsComplete DEF Ends, DataOK, HeldPort
  <1>11. ASSUME Restarts
        PROVE  DataOK' /\ HeldPort'
    <2>1. lives' \in 1..MaxLives
      BY <1>11, ControlPlaneAssumption DEF Restarts, DataOK
    <2> QED
      BY <1>2, <1>11, <2>1 DEF Restarts, DataOK, HeldPort
  <1>12. DataOK' /\ HeldPort'
    BY <1>1, <1>3, <1>4, <1>5, <1>6, <1>7, <1>8, <1>9, <1>10, <1>11 DEF Effect
  <1> QED
    BY <1>1, <1>12 DEF TypeOK, DataOK, LockOK, HeldPort, Running, InProgress

\* The lock is held by one handler at a time, the one at the head of its queue,
\* every waiter has one place in it, and what the running handler works on stays
\* exposed (the RwLock around SharedState).
THEOREM TypeCorrect == Spec => []TypeOK
  <1>1. Init => TypeOK
    BY InitTypeOK
  <1>2. TypeOK /\ [Next]_vars => TypeOK'
    BY NextTypeOK
  <1> QED
    BY <1>1, <1>2, PTL DEF Spec
-----------------------------------------------------------------------------
\* Every step moves a port between the free ones and the exposed ones, or none.
LEMMA NextPartitioned ==
  ASSUME TypeOK, PortsPartitioned, [Next]_vars
  PROVE  PortsPartitioned'
  <1>1. DataOK /\ HeldPort /\ Effect
    BY EveryStep, TypeParts
  <1>2. /\ ports \in Seq(HostPorts)
        /\ Exposed \subseteq HostPorts
        /\ IsInjective(ports)
        /\ ToSet(ports) \cap Exposed = {}
        /\ ToSet(ports) \cup Exposed = HostPorts
    BY <1>1 DEF DataOK, PortsPartitioned
  <1>3. ports # <<>> => /\ Head(ports) \in HostPorts
                        /\ Tail(ports) \in Seq(HostPorts)
                        /\ ToSet(ports) = {Head(ports)} \cup ToSet(Tail(ports))
                        /\ IsInjective(Tail(ports))
                        /\ Head(ports) \notin ToSet(Tail(ports))
    BY <1>2, HeadTaken
  <1>4. ASSUME NEW p \in HostPorts, NEW t \in Known, Takes(p, t)
        PROVE  PortsPartitioned'
    <2>1. /\ ports # <<>> /\ p = Head(ports) /\ ports' = Tail(ports)
          /\ Exposed' = Exposed \cup {p}
      BY <1>1, <1>4, EntryAdded DEF Takes
    <2> QED
      BY <1>2, <1>3, <2>1 DEF PortsPartitioned
  <1>5. ASSUME NEW p \in HostPorts, GivesBack(p)
        PROVE  PortsPartitioned'
    <2>1. /\ p \in Exposed /\ ports' = Append(ports, p)
          /\ Exposed' = Exposed \ {p}
      BY <1>1, <1>5, EntryRemoved DEF GivesBack
    <2>2. /\ ToSet(ports') = ToSet(ports) \cup {p}
          /\ IsInjective(ports')
      BY <1>2, <2>1, Appended
    <2> QED
      BY <1>2, <2>1, <2>2 DEF PortsPartitioned
  <1>6. ASSUME Rotates
        PROVE  PortsPartitioned'
    <2>1. /\ ports # <<>> /\ ports' = Append(Tail(ports), Head(ports))
          /\ Exposed' = Exposed
      BY <1>6 DEF Rotates, Exposed
    <2>2. /\ ToSet(ports') = ToSet(ports)
          /\ IsInjective(ports')
      <3> DEFINE h == Head(ports)
                 t == Tail(ports)
      <3>1. /\ h \in HostPorts /\ t \in Seq(HostPorts)
            /\ ToSet(ports) = {h} \cup ToSet(t)
            /\ IsInjective(t) /\ h \notin ToSet(t)
            /\ ports' = Append(t, h)
        BY <1>3, <2>1
      <3> HIDE DEF h, t
      <3>2. /\ ToSet(Append(t, h)) = ToSet(t) \cup {h}
            /\ IsInjective(Append(t, h))
        BY <3>1, Appended
      <3> QED
        BY <3>1, <3>2
    <2> QED
      BY <1>2, <2>1, <2>2 DEF PortsPartitioned
  <1>7. ASSUME Ends
        PROVE  PortsPartitioned'
    <2>1. ports' = FreshPorts /\ Exposed' = {}
      BY <1>7 DEF Ends, NoExposure, Exposed
    <2> QED
      BY <2>1, FreshPortsComplete DEF PortsPartitioned
  <1>8. ASSUME UNCHANGED <<ports, expose_map>>
        PROVE  PortsPartitioned'
    BY <1>8 DEF PortsPartitioned, Exposed
  <1>9. ASSUME (\E p \in HostPorts : Adds(p) \/ Deletes(p)) \/ Rests \/ Flushes \/ Restarts
        PROVE  UNCHANGED <<ports, expose_map>>
    BY <1>9 DEF Adds, Deletes, Rests, Flushes, Restarts
  <1> QED
    BY <1>1, <1>4, <1>5, <1>6, <1>7, <1>8, <1>9 DEF Effect

\* No port of the range is lost or handed out twice, whatever is refused, rolled
\* back, repeated, dropped or restarted (allocate_next and deallocate, and the
\* calls of both in expose_port and unexpose_port).
THEOREM PortsNeverLost == Spec => []PortsPartitioned
  <1>1. Init => PortsPartitioned
    BY FreshPortsComplete DEF Init, PortsPartitioned, NoExposure, Exposed
  <1>2. TypeOK /\ PortsPartitioned /\ [Next]_vars => PortsPartitioned'
    BY NextPartitioned
  <1> QED
    BY <1>1, <1>2, TypeCorrect, PTL DEF Spec
-----------------------------------------------------------------------------
\* When the process is gone, so is EXPOSE_MAP.
DownIsEmpty == daemon = "down" => Exposed = {}

\* Nothing is exposed while the daemon is down: EXPOSE_MAP goes with it and only
\* a served request adds an entry.
LEMMA NextDownIsEmpty ==
  ASSUME TypeOK, DownIsEmpty, [Next]_vars
  PROVE  DownIsEmpty'
  <1>1. DataOK /\ Effect
    BY EveryStep, TypeParts
  <1>2. UNCHANGED expose_map => Exposed' = Exposed
    BY DEF Exposed
  <1>3. ASSUME NEW p \in HostPorts, NEW t \in Known, Takes(p, t)
        PROVE  DownIsEmpty'
    BY <1>3 DEF Takes, Serving, DaemonStays, DownIsEmpty
  <1>4. ASSUME NEW p \in HostPorts, Adds(p) \/ Deletes(p)
        PROVE  DownIsEmpty'
    BY <1>2, <1>4 DEF Adds, Deletes, DaemonStays, DownIsEmpty
  <1>5. ASSUME NEW p \in HostPorts, GivesBack(p)
        PROVE  DownIsEmpty'
    <2>1. Exposed' \subseteq Exposed
      BY <1>1, <1>5, EntryRemoved
    <2> QED
      BY <1>5, <2>1 DEF GivesBack, DaemonStays, DownIsEmpty
  <1>6. ASSUME Rotates \/ Rests \/ Flushes \/ Restarts
        PROVE  DownIsEmpty'
    BY <1>2, <1>6 DEF Rotates, Rests, Flushes, Restarts, DaemonStays, DownIsEmpty
  <1>7. ASSUME Ends
        PROVE  DownIsEmpty'
    BY <1>7 DEF Ends, NoExposure, Exposed, DownIsEmpty
  <1> QED
    BY <1>1, <1>3, <1>4, <1>5, <1>6, <1>7 DEF Effect

\* The rule of a port is the same as long as its entry of EXPOSE_MAP is.
LEMMA SameRule ==
  ASSUME NEW p, expose_map'[p] = expose_map[p]
  PROVE  RuleOf(p)' = RuleOf(p)
  BY DEF RuleOf, Rule

\* iptables -A adds the rule of the port and repeats none when it is new.
LEMMA RuleAppended ==
  ASSUME DataOK, NEW p \in Exposed, rules' = Append(rules, RuleOf(p))
  PROVE  /\ ToSet(rules') = ToSet(rules) \cup {RuleOf(p)}
         /\ IsInjective(rules) /\ RuleOf(p) \notin ToSet(rules) => IsInjective(rules')
  <1> DEFINE r == RuleOf(p)
             R == [port : HostPorts, target : Known]
  <1>1. r \in R /\ rules \in Seq(R)
    BY RuleFields DEF DataOK
  <1> HIDE DEF r, R
  <1>2. /\ ToSet(Append(rules, r)) = ToSet(rules) \cup {r}
        /\ IsInjective(rules) /\ r \notin ToSet(rules) => IsInjective(Append(rules, r))
    BY <1>1, Appended
  <1> QED
    BY <1>2 DEF r

\* iptables -D takes no rule but that of the port, which is gone when it stood
\* in the chain once.
LEMMA RuleRemoved ==
  ASSUME DataOK, NEW p \in Exposed, RuleOf(p) \in ToSet(rules),
         rules' = RemoveFirst(rules, RuleOf(p))
  PROVE  /\ ToSet(rules') \subseteq ToSet(rules)
         /\ ToSet(rules) \ {RuleOf(p)} \subseteq ToSet(rules')
         /\ IsInjective(rules) => IsInjective(rules') /\ RuleOf(p) \notin ToSet(rules')
  <1> DEFINE r == RuleOf(p)
  <1>1. r \in ToSet(rules) /\ rules' = RemoveFirst(rules, r)
    OBVIOUS
  <1>2. rules \in Seq([port : HostPorts, target : Known])
    BY DEF DataOK
  <1> HIDE DEF r
  <1>3. /\ ToSet(rules') \subseteq ToSet(rules)
        /\ ToSet(rules) \ {r} \subseteq ToSet(rules')
        /\ IsInjective(rules) => IsInjective(rules') /\ r \notin ToSet(rules')
    BY <1>1, <1>2, Removed
  <1> QED
    BY <1>3 DEF r

\* A rule stays until its port is unexposed or clean_up flushes the chain: the
\* deletion of one rule takes no other.
LEMMA NextExposedHasRule ==
  ASSUME TypeOK, DownIsEmpty, ExposedHasRule, [Next]_vars
  PROVE  ExposedHasRule'
  <1> DEFINE Covered == \A p \in Exposed \ InProgress : RuleOf(p) \in ToSet(rules)
  <1>1. DataOK /\ Effect
    BY EveryStep, TypeParts
  <1>2. daemon \in {"up", "stopping"} => Covered
    BY DEF ExposedHasRule
  <1>3. Covered' => ExposedHasRule'
    BY DEF ExposedHasRule
  <1>4. UNCHANGED expose_map => Exposed' = Exposed /\ \A p \in Exposed : RuleOf(p)' = RuleOf(p)
    BY SameRule DEF Exposed
  <1>5. ASSUME NEW p \in HostPorts, NEW t \in Known, Takes(p, t), Covered
        PROVE  Covered'
    <2>1. /\ InProgress = {} /\ InProgress' = {p} /\ rules' = rules
          /\ Exposed' = Exposed \cup {p}
          /\ \A q \in Exposed : RuleOf(q)' = RuleOf(q)
      BY <1>1, <1>5, EntryAdded, SameRule DEF Takes
    <2> QED
      BY <1>5, <2>1
  <1>6. ASSUME NEW p \in HostPorts, Adds(p), Covered
        PROVE  Covered'
    <2>1. /\ InProgress = {p} /\ InProgress' = {} /\ p \in Exposed
          /\ rules' = Append(rules, RuleOf(p))
          /\ Exposed' = Exposed /\ \A q \in Exposed : RuleOf(q)' = RuleOf(q)
      BY <1>4, <1>6 DEF Adds
    <2>2. ToSet(rules') = ToSet(rules) \cup {RuleOf(p)}
      BY <1>1, <2>1, RuleAppended
    <2> QED
      BY <1>6, <2>1, <2>2
  <1>7. ASSUME NEW p \in HostPorts, Deletes(p), Covered
        PROVE  Covered'
    <2>1. /\ InProgress = {} /\ InProgress' = {p} /\ p \in Exposed
          /\ RuleOf(p) \in ToSet(rules)
          /\ rules' = RemoveFirst(rules, RuleOf(p))
          /\ Exposed' = Exposed /\ \A q \in Exposed : RuleOf(q)' = RuleOf(q)
      BY <1>4, <1>7 DEF Deletes
    <2>2. ToSet(rules) \ {RuleOf(p)} \subseteq ToSet(rules')
      BY <1>1, <2>1, RuleRemoved
    <2>3. \A q \in Exposed \ {p} : RuleOf(q) # RuleOf(p)
      BY <1>1, <2>1, RuleFields
    <2> QED
      BY <1>7, <2>1, <2>2, <2>3
  <1>8. ASSUME NEW p \in HostPorts, GivesBack(p), Covered
        PROVE  Covered'
    <2>1. /\ InProgress = {p} /\ InProgress' = {} /\ rules' = rules
          /\ Exposed' = Exposed \ {p}
          /\ \A q \in Exposed' : RuleOf(q)' = RuleOf(q)
      BY <1>1, <1>8, EntryRemoved, SameRule DEF GivesBack
    <2> QED
      BY <1>8, <2>1
  <1>9. ASSUME UNCHANGED <<expose_map, rules, InProgress>>, Covered
        PROVE  Covered'
    BY <1>4, <1>9
  <1>10. ASSUME Rotates \/ Rests
         PROVE  ExposedHasRule'
    <2>1. /\ UNCHANGED <<expose_map, rules, InProgress>>
          /\ daemon' \in {"up", "stopping"} => daemon \in {"up", "stopping"}
      BY <1>10 DEF Rotates, Rests, DaemonStays
    <2> HIDE DEF Covered
    <2> QED
      BY <1>2, <1>9, <1>3, <2>1 DEF ExposedHasRule
  <1>11. ASSUME Ends
         PROVE  ExposedHasRule'
    BY <1>11 DEF Ends, ExposedHasRule
  <1>12. ASSUME Flushes
         PROVE  ExposedHasRule'
    BY <1>12 DEF Flushes, ExposedHasRule
  <1>13. ASSUME Restarts
         PROVE  ExposedHasRule'
    <2>1. Exposed = {} /\ Exposed' = Exposed
      BY <1>4, <1>13 DEF Restarts, DownIsEmpty
    <2> QED
      BY <2>1 DEF ExposedHasRule
  <1> HIDE DEF Covered
  <1>14. ASSUME NEW p \in HostPorts, Adds(p) \/ Deletes(p) \/ GivesBack(p)
         PROVE  ExposedHasRule'
    <2>1. daemon' = daemon
      BY <1>14 DEF Adds, Deletes, GivesBack, DaemonStays
    <2>2. Covered => Covered'
      BY <1>6, <1>7, <1>8, <1>14
    <2> QED
      BY <1>2, <1>3, <2>1, <2>2 DEF ExposedHasRule
  <1>15. ASSUME NEW p \in HostPorts, NEW t \in Known, Takes(p, t)
         PROVE  ExposedHasRule'
    <2>1. daemon' = daemon
      BY <1>15 DEF Takes, DaemonStays
    <2> QED
      BY <1>2, <1>3, <1>5, <1>15, <2>1 DEF ExposedHasRule
  <1> QED
    BY <1>1, <1>10, <1>11, <1>12, <1>13, <1>14, <1>15 DEF Effect

\* In every life of the daemon and until clean_up, what is exposed has its rule,
\* whatever rules earlier lives have left behind.
THEOREM RulesPresent == Spec => []ExposedHasRule
  <1>1. Init => DownIsEmpty /\ ExposedHasRule
    BY DEF Init, DownIsEmpty, ExposedHasRule, NoExposure, Exposed
  <1>2. TypeOK /\ DownIsEmpty /\ [Next]_vars => DownIsEmpty'
    BY NextDownIsEmpty
  <1>3. TypeOK /\ DownIsEmpty /\ ExposedHasRule /\ [Next]_vars => ExposedHasRule'
    BY NextExposedHasRule
  <1> QED
    BY <1>1, <1>2, <1>3, TypeCorrect, PTL DEF Spec
-----------------------------------------------------------------------------
\* The parts of TcpMatchesUdp, and when they are claimed.
Untouched == lives = 1 /\ daemon = "up"

OneEach ==
  /\ IsInjective(rules)
  /\ \A p \in Exposed \ InProgress : RuleOf(p) \in ToSet(rules)
  /\ \A r \in ToSet(rules) : r.port \in Exposed /\ r = RuleOf(r.port)
  /\ \A p \in InProgress : RuleOf(p) \notin ToSet(rules)

\* Before a signal or a restart, the rules are those of the exposures after every
\* step of expose_port and unexpose_port, on their error paths too.
LEMMA NextTcpMatchesUdp ==
  ASSUME TypeOK, TcpMatchesUdp, [Next]_vars
  PROVE  TcpMatchesUdp'
  <1>1. DataOK /\ HeldPort /\ Effect
    BY EveryStep, TypeParts
  <1>2. Untouched => OneEach
    BY DEF TcpMatchesUdp, Untouched, OneEach
  <1>3. (Untouched' => OneEach') => TcpMatchesUdp'
    BY DEF TcpMatchesUdp, Untouched, OneEach
  <1>4. UNCHANGED expose_map => Exposed' = Exposed /\ \A p : RuleOf(p)' = RuleOf(p)
    BY SameRule DEF Exposed
  <1>5. ASSUME NEW p \in HostPorts, NEW t \in Known, Takes(p, t), OneEach
        PROVE  OneEach'
    <2>1. /\ InProgress = {} /\ InProgress' = {p} /\ rules' = rules
          /\ p \notin Exposed /\ Exposed' = Exposed \cup {p}
          /\ \A q \in Exposed : RuleOf(q)' = RuleOf(q)
      BY <1>1, <1>5, EntryAdded, SameRule DEF Takes
    <2>2. \A r \in ToSet(rules) : r.port # p
      BY <1>5, <2>1 DEF OneEach
    <2>3. RuleOf(p)'.port = p
      BY DEF RuleOf, Rule
    <2> QED
      BY <1>5, <2>1, <2>2, <2>3 DEF OneEach
  <1>6. ASSUME NEW p \in HostPorts, Adds(p), OneEach
        PROVE  OneEach'
    <2>1. /\ InProgress = {p} /\ InProgress' = {} /\ p \in Exposed
          /\ rules' = Append(rules, RuleOf(p))
          /\ Exposed' = Exposed /\ \A q : RuleOf(q)' = RuleOf(q)
      BY <1>4, <1>6 DEF Adds
    <2>2. RuleOf(p) \notin ToSet(rules)
      BY <1>6, <2>1 DEF OneEach
    <2>3. ToSet(rules') = ToSet(rules) \cup {RuleOf(p)} /\ IsInjective(rules')
      BY <1>1, <1>6, <2>1, <2>2, RuleAppended DEF OneEach
    <2>4. RuleOf(p).port = p
      BY DEF RuleOf, Rule
    <2> QED
      BY <1>6, <2>1, <2>3, <2>4 DEF OneEach
  <1>7. ASSUME NEW p \in HostPorts, Deletes(p), OneEach
        PROVE  OneEach'
    <2>1. /\ InProgress = {} /\ InProgress' = {p} /\ p \in Exposed
          /\ RuleOf(p) \in ToSet(rules)
          /\ rules' = RemoveFirst(rules, RuleOf(p))
          /\ Exposed' = Exposed /\ \A q : RuleOf(q)' = RuleOf(q)
      BY <1>4, <1>7 DEF Deletes
    <2>2. /\ ToSet(rules') \subseteq ToSet(rules)
          /\ ToSet(rules) \ {RuleOf(p)} \subseteq ToSet(rules')
          /\ IsInjective(rules') /\ RuleOf(p) \notin ToSet(rules')
      BY <1>1, <1>7, <2>1, RuleRemoved DEF OneEach
    <2>3. \A q \in Exposed \ {p} : RuleOf(q) # RuleOf(p)
      BY <1>1, <2>1, RuleFields
    <2> QED
      BY <1>7, <2>1, <2>2, <2>3 DEF OneEach
  <1>8. ASSUME NEW p \in HostPorts, GivesBack(p), OneEach
        PROVE  OneEach'
    <2>1. /\ InProgress = {p} /\ InProgress' = {} /\ rules' = rules
          /\ Exposed' = Exposed \ {p}
          /\ \A q \in Exposed' : RuleOf(q)' = RuleOf(q)
      BY <1>1, <1>8, EntryRemoved, SameRule DEF GivesBack
    <2>2. RuleOf(p) \notin ToSet(rules)
      BY <1>8, <2>1 DEF OneEach
    <2>3. \A r \in ToSet(rules) : r.port \in Exposed' /\ r = RuleOf(r.port)'
      BY <1>8, <2>1, <2>2 DEF OneEach
    <2> QED
      BY <1>8, <2>1, <2>3 DEF OneEach
  <1>9. ASSUME UNCHANGED <<expose_map, rules, InProgress>>, OneEach
        PROVE  OneEach'
    BY <1>4, <1>9 DEF OneEach
  <1>10. ASSUME Untouched', (\E p \in HostPorts, t \in Known : Takes(p, t))
                            \/ (\E p \in HostPorts : Adds(p) \/ Deletes(p) \/ GivesBack(p))
                            \/ Rotates \/ Rests
         PROVE  Untouched
    BY <1>10 DEF Untouched, Takes, Adds, Deletes, GivesBack, Rotates, Rests, DaemonStays
  <1>11. ASSUME Flushes \/ Ends
         PROVE  ~ Untouched'
    BY <1>11 DEF Untouched, Flushes, Ends
  <1>12. ASSUME Restarts
         PROVE  ~ Untouched'
    <2>1. lives \in 1..MaxLives /\ lives' = lives + 1
      BY <1>1, <1>12 DEF Restarts, DataOK
    <2>2. lives' # 1
      BY <2>1, ControlPlaneAssumption
    <2> QED
      BY <2>2 DEF Untouched
  <1>13. ASSUME Rotates \/ Rests, OneEach
         PROVE  OneEach'
    BY <1>9, <1>13 DEF Rotates, Rests
  <1> QED
    BY <1>1, <1>2, <1>3, <1>5, <1>6, <1>7, <1>8, <1>10, <1>11, <1>12, <1>13 DEF Effect

\* Until the daemon is stopped or restarted TCP and UDP agree on what is exposed:
\* one rule per entry of EXPOSE_MAP but for the one in progress, and no other.
THEOREM TcpAgreesWithUdp == Spec => []TcpMatchesUdp
  <1>1. Init => TcpMatchesUdp
    <2> SUFFICES ASSUME Init PROVE TcpMatchesUdp
      OBVIOUS
    <2>1. rules = <<>> /\ Exposed = {}
      BY DEF Init, NoExposure, Exposed
    <2>2. IsInjective(rules) /\ ToSet(rules) = {}
      BY <2>1 DEF IsInjective, ToSet
    <2>3. InProgress = {}
      BY DEF Init, InProgress, Idle
    <2> QED
      BY <2>1, <2>2, <2>3 DEF TcpMatchesUdp
  <1>2. TypeOK /\ TcpMatchesUdp /\ [Next]_vars => TcpMatchesUdp'
    BY NextTcpMatchesUdp
  <1> QED
    BY <1>1, <1>2, TypeCorrect, PTL DEF Spec
-----------------------------------------------------------------------------
\* The exposures a client may count on: those no handler is working on.
Current == {RuleOf(p) : p \in Exposed \ InProgress}

\* To a client a step that adds a rule is the exposure, the step that deletes it
\* its end, and the loss of the process the end of all; nothing else shows.
LEMMA NextService ==
  ASSUME TypeOK, [Next]_vars
  PROVE  [Service!Next]_Current
  <1>1. DataOK /\ HeldPort /\ Effect
    BY EveryStep, TypeParts
  <1>2. UNCHANGED expose_map => Exposed' = Exposed /\ \A p : RuleOf(p)' = RuleOf(p)
    BY SameRule DEF Exposed
  <1>3. ASSUME NEW p \in HostPorts, NEW t \in Known, Takes(p, t)
        PROVE  UNCHANGED Current
    <2>1. Exposed' \ InProgress' = Exposed \ InProgress
      BY <1>1, <1>3, EntryAdded DEF Takes
    <2>2. \A q \in Exposed \ InProgress : RuleOf(q)' = RuleOf(q)
      BY <1>1, <1>3, EntryAdded, SameRule
    <2> QED
      BY <2>1, <2>2 DEF Current
  <1>4. ASSUME NEW p \in HostPorts, Adds(p)
        PROVE  Service!Next
    <2>1. /\ p \in Exposed /\ InProgress = {p}
          /\ Exposed' \ InProgress' = (Exposed \ InProgress) \cup {p}
          /\ \A q : RuleOf(q)' = RuleOf(q)
      BY <1>2, <1>4 DEF Adds
    <2>2. Current' = Current \cup {RuleOf(p)}
      BY <2>1 DEF Current
    <2>3. RuleOf(p) = [port |-> p, target |-> expose_map[p]]
      BY DEF RuleOf, Rule
    <2>4. \A e \in Current : e.port # p
      BY <1>1, <2>1, RuleFields DEF Current
    <2>5. expose_map[p] \in Known
      BY <1>1, <2>1 DEF DataOK
    <2>6. Service!Expose(p, expose_map[p])
      BY <2>2, <2>3, <2>4 DEF Service!Expose, Current
    <2> QED
      BY <2>5, <2>6 DEF Service!Next
  <1>5. ASSUME NEW p \in HostPorts, Deletes(p)
        PROVE  Service!Next
    <2>1. /\ p \in Exposed /\ InProgress = {}
          /\ Exposed' \ InProgress' = Exposed \ {p}
          /\ \A q : RuleOf(q)' = RuleOf(q)
      BY <1>2, <1>5 DEF Deletes
    <2>2. \A q \in Exposed \ {p} : RuleOf(q) # RuleOf(p)
      BY <1>1, <2>1, RuleFields
    <2>3. Current' = Current \ {RuleOf(p)} /\ RuleOf(p) \in Current
      BY <2>1, <2>2 DEF Current
    <2>4. Service!Unexpose(RuleOf(p))
      BY <2>3 DEF Service!Unexpose, Current
    <2> QED
      BY <2>3, <2>4 DEF Service!Next, Current
  <1>6. ASSUME NEW p \in HostPorts, GivesBack(p)
        PROVE  UNCHANGED Current
    <2>1. Exposed' \ InProgress' = Exposed \ InProgress
      BY <1>1, <1>6, EntryRemoved DEF GivesBack
    <2>2. \A q \in Exposed \ InProgress : RuleOf(q)' = RuleOf(q)
      BY <1>1, <1>6, <2>1, EntryRemoved, SameRule
    <2> QED
      BY <2>1, <2>2 DEF Current
  <1>7. ASSUME Rotates \/ Rests \/ Flushes \/ Restarts
        PROVE  UNCHANGED Current
    <2>1. /\ Exposed' \ InProgress' = Exposed \ InProgress
          /\ \A q : RuleOf(q)' = RuleOf(q)
      BY <1>2, <1>7 DEF Rotates, Rests, Flushes, Restarts
    <2> QED
      BY <2>1 DEF Current
  <1>8. ASSUME Ends
        PROVE  Service!Next
    <2>1. Exposed' = {}
      BY <1>8 DEF Ends, NoExposure, Exposed
    <2> QED
      BY <2>1 DEF Service!Next, Service!Reset
  <1> QED
    BY <1>1, <1>3, <1>4, <1>5, <1>6, <1>7, <1>8 DEF Effect

\* The handlers implement the service: a port stands for at most one endpoint,
\* for UDP and TCP at once, whatever fails, and no exposure outlives the daemon.
THEOREM ImplementsService == Spec => ServiceSpec
  <1>1. Init => Service!Init
    BY DEF Init, Service!Init, NoExposure, Exposed
  <1>2. TypeOK /\ [Next]_vars => [Service!Next]_Current
    BY NextService
  <1> QED
    BY <1>1, <1>2, TypeCorrect, PTL DEF Spec, ServiceSpec, Service!Spec, Current
=============================================================================
