------------------------- MODULE BlockingQueueProofs -------------------------
(***************************************************************************)
(* Proofs about BlockingQueue, for any finite set of threads of each kind  *)
(* and any number of elements.                                             *)
(***************************************************************************)
EXTENDS BlockingQueue, FiniteSetTheorems, TLAPS

------------------------------------------------------------------------------
(* Types and the mutex *)

\* What is queued was pushed.
QueueType == q \in Seq(1 .. MaxPush)

TypeInv == TypeOK /\ QueueType

\* The types hold in an empty queue.
LEMMA TypeInit == Init => TypeInv
<1> SUFFICES ASSUME Init PROVE TypeInv
  OBVIOUS
<1>1. q = <<>> /\ popped = <<>> /\ pushed = 0
  BY DEF Init
<1>2. pc \in [Thread -> Where] /\ Owner = {}
  BY DEF Init, Where, Owner
<1>3. closed \in BOOLEAN
  BY Zenon DEF Init
<1>4. q \in Seq(Nat) /\ q \in Seq(1 .. MaxPush) /\ popped \in Seq(Nat) /\ pushed \in 0 .. MaxPush
  BY <1>1, QueueAssumption
<1> QED
  BY <1>2, <1>3, <1>4 DEF TypeInv, TypeOK, QueueType

\* Every step keeps them, and a thread comes to own the mutex only when nobody
\* does.
LEMMA TypeStep ==
    ASSUME TypeInv, [Next]_vars
    PROVE  TypeInv'
<1> USE DEF TypeInv
<1>0. /\ MaxPush \in Nat /\ pc \in [Thread -> Where] /\ q \in Seq(Nat) /\ q \in Seq(1 .. MaxPush)
      /\ popped \in Seq(Nat) /\ pushed \in 0 .. MaxPush
      /\ \A t, u \in Owner : t = u
  BY QueueAssumption DEF TypeOK, QueueType
<1>1. ASSUME UNCHANGED <<q, pushed, popped>>, closed' \in BOOLEAN,
             pc' \in [Thread -> Where],
             \A t, u \in Owner' : t = u
      PROVE  TypeInv'
  BY <1>0, <1>1 DEF TypeOK, QueueType
<1>2. closed \in BOOLEAN
  BY DEF TypeOK
<1>3. ASSUME NEW p \in Producers, Push(p) PROVE TypeInv'
  <2>1. pushed' = pushed + 1 /\ pushed' \in 1 .. MaxPush /\ q' = Append(q, pushed + 1)
        /\ UNCHANGED <<closed, popped>>
    BY <1>0, <1>3 DEF Push
  <2>2. q' \in Seq(Nat) /\ q' \in Seq(1 .. MaxPush)
    BY <1>0, <2>1
  <2>3. pc' \in [Thread -> Where] /\ Owner' \subseteq Owner
    BY <1>0, <1>3 DEF Push, NotifyOne, CondWaiters, Where, Owner
  <2> QED
    BY <1>0, <1>2, <2>1, <2>2, <2>3 DEF TypeOK, QueueType
<1>4. ASSUME NEW c \in Consumers, Take(c) PROVE TypeInv'
  <2>1. q # <<>> /\ q' = Tail(q) /\ popped' = Append(popped, Head(q)) /\ pc' = AfterTake(c)
        /\ UNCHANGED <<closed, pushed>>
    BY <1>4 DEF Take
  <2>2. Head(q) \in Nat /\ q' \in Seq(Nat) /\ q' \in Seq(1 .. MaxPush)
    BY <1>0, <2>1
  <2>3. pc' \in [Thread -> Where] /\ Owner' \subseteq Owner
    BY <1>0, <2>1 DEF AfterTake, Where, Owner
  <2>4. popped' \in Seq(Nat)
    BY <1>0, <2>1, <2>2
  <2> QED
    BY <1>0, <1>2, <2>1, <2>2, <2>3, <2>4 DEF TypeOK, QueueType
<1>5. ASSUME NEW t \in Thread, Throw(t) \/ Park(t) \/ Expire(t) \/ TimeOut(t) \/ SeeEmpty(t)
      PROVE  TypeInv'
  <2>1. UNCHANGED <<q, closed, pushed, popped>>
    BY <1>5 DEF Throw, Park, Expire, TimeOut, SeeEmpty
  <2>2. pc' \in [Thread -> Where] /\ Owner' \subseteq Owner
    BY <1>0, <1>5 DEF Throw, Park, Expire, TimeOut, SeeEmpty, Where, Owner
  <2> QED
    BY <1>0, <1>1, <1>2, <2>1, <2>2
<1>6. ASSUME NEW t \in Thread, Decide(t) \/ SeeNonEmpty(t) PROVE TypeInv'
  <2>1. UNCHANGED <<q, closed, pushed, popped>>
    BY <1>6 DEF Decide, SeeNonEmpty
  <2>2. pc' \in [Thread -> Where] /\ Owner' = {t}
    BY <1>0, <1>6 DEF Decide, SeeNonEmpty, MutexFree, Where, Owner
  <2> QED
    BY <1>1, <1>2, <2>1, <2>2
<1>7. ASSUME NEW k \in Closers, SetClosed(k) \/ NotifyAll(k) PROVE TypeInv'
  <2>1. UNCHANGED <<q, pushed, popped>>
    BY <1>7 DEF SetClosed, NotifyAll
  <2>2. pc' \in [Thread -> Where] /\ Owner' \subseteq Owner
    BY <1>0, <1>7 DEF SetClosed, NotifyAll, Where, Owner
  <2>3. closed' \in BOOLEAN
    BY <1>2, <1>7, Zenon DEF SetClosed, NotifyAll
  <2> QED
    BY <1>0, <1>1, <2>1, <2>2, <2>3
<1>8. CASE UNCHANGED vars
  BY <1>0, <1>1, <1>2, <1>8 DEF vars, Owner
<1> QED
  BY <1>3, <1>4, <1>5, <1>6, <1>7, <1>8
     DEF Next, ConsumerStep, TimedStep, DrainerStep, CloserStep, Thread, Consumers

\* The variables have their types, and at most one thread is between a false
\* predicate and the park: the mutex excludes (lines 42, 62, 81 and 106).
THEOREM TypeCorrect == Spec => []TypeOK
BY TypeInit, TypeStep, PTL DEF Spec, TypeInv

------------------------------------------------------------------------------
(* Exactly once, in order *)

\* What a step of the queue does to the elements.
LEMMA Moves ==
    ASSUME [Next]_vars
    PROVE  \/ \E p \in Producers : Push(p)
           \/ \E c \in Consumers : Take(c)
           \/ \E k \in Closers : SetClosed(k)
           \/ UNCHANGED <<q, closed, pushed, popped>>
BY DEF Next, ConsumerStep, TimedStep, DrainerStep, CloserStep, Consumers, vars, Throw, Decide,
       Park, Expire, TimeOut, SeeEmpty, SeeNonEmpty, NotifyAll

\* Nothing is delivered initially.
LEMMA OrderInit == Init => ExactlyOnceInOrder
BY DEF Init, ExactlyOnceInOrder

\* push() extends what was accepted, pop() moves its boundary.
LEMMA OrderStep ==
    ASSUME TypeInv, ExactlyOnceInOrder, [Next]_vars
    PROVE  ExactlyOnceInOrder'
<1>0. q \in Seq(Nat) /\ popped \in Seq(Nat) /\ pushed \in Nat
  BY QueueAssumption DEF TypeInv, TypeOK
<1>1. ASSUME NEW p \in Producers, Push(p) PROVE ExactlyOnceInOrder'
  <2>1. q' = Append(q, pushed + 1) /\ pushed' = pushed + 1 /\ popped' = popped
    BY <1>1 DEF Push
  <2>2. popped \o Append(q, pushed + 1) = Append(popped \o q, pushed + 1)
    BY <1>0
  <2>3. Append([i \in 1 .. pushed |-> i], pushed + 1) = [i \in 1 .. pushed + 1 |-> i]
    BY <1>0
  <2> QED
    BY <2>1, <2>2, <2>3 DEF ExactlyOnceInOrder
<1>2. ASSUME NEW c \in Consumers, Take(c) PROVE ExactlyOnceInOrder'
  <2>1. q # <<>> /\ q' = Tail(q) /\ popped' = Append(popped, Head(q)) /\ pushed' = pushed
    BY <1>2 DEF Take
  <2>2. Append(popped, Head(q)) \o Tail(q) = popped \o q
    BY <1>0, <2>1
  <2> QED
    BY <2>1, <2>2 DEF ExactlyOnceInOrder
<1>3. CASE UNCHANGED <<q, pushed, popped>>
  BY <1>3 DEF ExactlyOnceInOrder
<1> QED
  BY <1>1, <1>2, <1>3, Moves DEF SetClosed

\* push() and pop() hand every element over exactly once and in the order of the
\* pushes (lines 45 and 69).
THEOREM ExactlyOnceInOrderHolds == Spec => []ExactlyOnceInOrder
BY TypeInit, TypeStep, OrderInit, OrderStep, PTL DEF Spec

\* What is at the head of a queue is one of its elements.
LEMMA HeadType ==
    ASSUME NEW T, NEW s \in Seq(T), s # <<>>
    PROVE  Head(s) \in T
OBVIOUS

\* The monitor implements the atomic queue: push(), a pop() that returns and the
\* flag of close() are its steps, everything else is a stutter.
THEOREM ImplementsAtomicQueueHolds == Spec => ImplementsAtomicQueue
<1>1. Init => Atomic!Init
  BY DEF Init, Atomic!Init
<1>2. ASSUME TypeInv, [Next]_vars PROVE [Atomic!Next]_(Atomic!vars)
  <2> USE DEF Atomic!Next, Atomic!vars
  <2>1. ASSUME NEW p \in Producers, Push(p) PROVE Atomic!Next
    <3>1. pushed + 1 \in 1 .. MaxPush
      BY <1>2, <2>1, QueueAssumption DEF Push, TypeInv, TypeOK
    <3>2. Atomic!Push(pushed + 1)
      BY <2>1, Zenon DEF Push, Atomic!Push
    <3> QED
      BY <3>1, <3>2
  <2>2. ASSUME NEW c \in Consumers, Take(c) PROVE Atomic!Next
    <3>1. Head(q) \in 1 .. MaxPush
      <4>1. q \in Seq(1 .. MaxPush) /\ q # <<>>
        BY <1>2, <2>2 DEF Take, TypeInv, QueueType
      <4> QED
        BY <4>1, HeadType, Zenon
    <3>2. Atomic!Pop(Head(q))
      BY <2>2, Zenon DEF Take, Atomic!Pop
    <3> QED
      BY <3>1, <3>2
  <2>3. ASSUME NEW k \in Closers, SetClosed(k) PROVE Atomic!Next
    BY <2>3, Zenon DEF SetClosed, Atomic!Close
  <2> QED
    BY <1>2, <2>1, <2>2, <2>3, Moves
<1> QED
  BY TypeInit, TypeStep, <1>1, <1>2, PTL DEF Spec, ImplementsAtomicQueue, Atomic!Spec

------------------------------------------------------------------------------
(* No wake-up is lost *)

Awake == {c \in Consumers : pc[c] \in {"ready", "expired"}}

\* A consumer parks on an empty queue, unless close() intervenes.
ParksOnEmpty ==
    ~closed => \A c \in Consumers : pc[c] = "deciding" => q = <<>>

WakeInv == ParksOnEmpty /\ EnoughAwake

\* The awake consumers can be counted.
LEMMA AwakeFinite ==
    /\ IsFiniteSet(Awake)
    /\ Cardinality(Awake) \in Nat
<1>1. Awake \subseteq Thread
  BY DEF Awake, Thread
<1> QED
  BY <1>1, FS_Subset, FS_CardinalityType, QueueAssumption

\* Everybody is awake initially.
LEMMA WakeInit == Init => WakeInv
<1> SUFFICES ASSUME Init PROVE WakeInv
  OBVIOUS
<1>1. q = <<>> /\ \A c \in Consumers : pc[c] = "ready"
  BY DEF Init, Thread
<1> QED
  BY <1>1 DEF WakeInv, ParksOnEmpty, EnoughAwake, CondWaiters

\* Every push wakes a sleeper if there is one, and who takes an element is awake.
LEMMA WakeStep ==
    ASSUME TypeInv, WakeInv, [Next]_vars
    PROVE  WakeInv'
<1> USE DEF Awake
<1>0. /\ pc \in [Thread -> Where] /\ q \in Seq(Nat) /\ Consumers \subseteq Thread
      /\ EnoughAwake <=> (~closed /\ CondWaiters # {} => Len(q) <= Cardinality(Awake))
  BY DEF TypeInv, TypeOK, Thread, EnoughAwake
<1>1. ASSUME NEW p \in Producers, Push(p) PROVE WakeInv'
  <2>1. q' = Append(q, pushed + 1) /\ closed' = closed /\ ~closed /\ Owner = {} /\ NotifyOne
    BY <1>1 DEF Push, MutexFree
  <2>2. \A c \in Consumers : pc[c] # "deciding"
    BY <1>0, <2>1 DEF Owner
  <2>3. CASE CondWaiters = {}
    BY <2>1, <2>2, <2>3 DEF WakeInv, ParksOnEmpty, EnoughAwake, NotifyOne, CondWaiters
  <2>4. CASE CondWaiters # {}
    <3>1. PICK c \in CondWaiters : pc' = [pc EXCEPT ![c] = "ready"]
      BY <2>1, <2>4 DEF NotifyOne
    <3>2. c \in Thread /\ c \notin Awake /\ Awake' = Awake \cup {c}
      BY <1>0, <3>1 DEF CondWaiters
    <3>3. Cardinality(Awake') = Cardinality(Awake) + 1
      BY <3>2, AwakeFinite, FS_AddElement
    <3>4. Len(q) <= Cardinality(Awake)
      BY <1>0, <2>1, <2>4 DEF WakeInv
    <3>5. Len(q') <= Cardinality(Awake')
      BY <1>0, <2>1, <3>3, <3>4, AwakeFinite
    <3>6. \A d \in Consumers : pc'[d] # "deciding"
      BY <1>0, <2>2, <3>1
    <3> QED
      BY <3>5, <3>6 DEF WakeInv, ParksOnEmpty, EnoughAwake
  <2> QED
    BY <2>3, <2>4
<1>2. ASSUME NEW c \in Consumers, Take(c) PROVE WakeInv'
  <2>1. /\ pc[c] \in {"ready", "expired"} /\ pc' = AfterTake(c) /\ closed' = closed
        /\ q # <<>> /\ q' = Tail(q) /\ Owner = {}
    BY <1>2 DEF Take, MutexFree
  <2>2. \A d \in Consumers : d # c => pc'[d] = pc[d]
    BY <1>0, <2>1, QueueAssumption DEF AfterTake, EmpWaiters
  <2>3. pc'[c] = "ready"
    BY <1>0, <2>1 DEF AfterTake
  <2>4. Awake' = Awake /\ CondWaiters' = CondWaiters
    BY <2>1, <2>2, <2>3 DEF CondWaiters
  <2>5. Len(q') <= Len(q)
    BY <1>0, <2>1
  <2>6. \A d \in Consumers : pc'[d] # "deciding"
    BY <1>0, <2>1, <2>2, <2>3 DEF Owner
  <2>7. EnoughAwake'
    <3>1. Len(q') \in Nat /\ Len(q) \in Nat
      BY <1>0, <2>1
    <3>2. SUFFICES ASSUME ~closed, CondWaiters # {} PROVE Len(q') <= Cardinality(Awake)
      BY <2>1, <2>4 DEF EnoughAwake
    <3>3. Len(q) <= Cardinality(Awake)
      BY <1>0, <3>2 DEF WakeInv
    <3> QED
      BY <2>5, <3>1, <3>3, AwakeFinite
  <2> QED
    BY <2>6, <2>7 DEF WakeInv, ParksOnEmpty
<1>3. ASSUME NEW c \in Consumers, Decide(c) \/ Park(c) PROVE WakeInv'
  <2>1. UNCHANGED <<q, closed>> /\ pc' = [pc EXCEPT ![c] = pc'[c]]
    BY <1>0, <1>3 DEF Decide, Park
  <2>2. ~closed => q = <<>>
    BY <1>3 DEF Decide, Park, WakeInv, ParksOnEmpty
  <2>3. Cardinality(Awake)' \in Nat
    <3>1. Awake' \subseteq Thread
      BY <1>0
    <3> QED
      BY <3>1, FS_Subset, FS_CardinalityType, QueueAssumption
  <2> QED
    BY <2>1, <2>2, <2>3 DEF WakeInv, ParksOnEmpty, EnoughAwake
<1>4. ASSUME NEW c \in TimedPoppers, Expire(c) \/ TimeOut(c) PROVE WakeInv'
  <2>1. /\ c \in Consumers /\ UNCHANGED <<q, closed>>
        /\ pc[c] \in {"parked", "expired"} /\ pc'[c] \in {"ready", "expired"}
        /\ pc' = [pc EXCEPT ![c] = pc'[c]]
    BY <1>0, <1>4 DEF Expire, TimeOut, Consumers
  <2>2. Awake' = Awake \cup {c} /\ CondWaiters' \subseteq CondWaiters
    BY <1>0, <2>1 DEF CondWaiters
  <2>3. Cardinality(Awake)' \in Nat /\ Cardinality(Awake) <= Cardinality(Awake)'
    BY <2>2, AwakeFinite, FS_AddElement
  <2>4. EnoughAwake'
    BY <1>0, <2>1, <2>2, <2>3, AwakeFinite DEF WakeInv, EnoughAwake
  <2>5. ParksOnEmpty'
    BY <1>0, <2>1 DEF WakeInv, ParksOnEmpty
  <2> QED
    BY <2>4, <2>5 DEF WakeInv
<1>5. ASSUME NEW d \in Drainers, DrainerStep(d) PROVE WakeInv'
  <2>1. UNCHANGED <<q, closed>> /\ \A c \in Consumers : pc'[c] = pc[c]
    BY <1>0, <1>5, QueueAssumption DEF DrainerStep, SeeEmpty, SeeNonEmpty, Park
  <2>2. Awake' = Awake /\ CondWaiters' = CondWaiters
    BY <2>1 DEF CondWaiters
  <2> QED
    BY <1>0, <2>1, <2>2 DEF WakeInv, ParksOnEmpty, EnoughAwake
<1>6. CASE closed'
  BY <1>6 DEF WakeInv, ParksOnEmpty, EnoughAwake
<1>7. ASSUME NEW k \in Closers, NotifyAll(k) PROVE WakeInv'
  <2>1. UNCHANGED <<q, closed>> /\ k \notin Consumers
        /\ \A c \in Consumers : pc'[c] = IF c \in CondWaiters THEN "ready" ELSE pc[c]
    BY <1>0, <1>7, QueueAssumption DEF NotifyAll
  <2>2. CondWaiters' = {}
    BY <2>1 DEF CondWaiters
  <2> QED
    BY <2>1, <2>2 DEF WakeInv, ParksOnEmpty, EnoughAwake
<1>8. CASE UNCHANGED vars
  BY <1>8 DEF vars, WakeInv, ParksOnEmpty, EnoughAwake, CondWaiters
<1>9. ASSUME NEW t \in Thread, Throw(t) PROVE closed'
  BY <1>9 DEF Throw
<1>10. ASSUME NEW k \in Closers, SetClosed(k) PROVE closed'
  BY <1>10, Zenon DEF SetClosed
<1> QED
  BY <1>1, <1>2, <1>3, <1>4, <1>5, <1>6, <1>7, <1>8, <1>9, <1>10
     DEF Next, ConsumerStep, TimedStep, CloserStep, Thread, Consumers

\* No wake-up of push() is lost (line 46), although pop() and pop_for() share one
\* condition variable: while consumers sleep, as many are awake as there are
\* elements to take.
THEOREM EnoughAwakeHolds == Spec => []EnoughAwake
BY TypeInit, TypeStep, WakeInit, WakeStep, PTL DEF Spec, WakeInv
==============================================================================
