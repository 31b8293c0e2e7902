---------------------------- MODULE BlockingQueue ----------------------------
(***************************************************************************)
(* BlockingQueue<T> of include/utils/blockingqueue.hpp, at the grain of    *)
(* its mutex `lock' and its condition variables `cond' and `emp'.          *)
(*                                                                         *)
(* A critical section that does not wait is one step.  A wait is several:  *)
(* the predicate is found false (the thread still owns the mutex), the     *)
(* thread parks and releases the mutex in one go, a notification or a      *)
(* timeout makes it ready again, and it reacquires the mutex to            *)
(* re-evaluate the predicate.  The mutex orders all of that except         *)
(* close(), which takes no lock (lines 110-114): its two statements fall   *)
(* anywhere, also between a false predicate and the park.                  *)
(*                                                                         *)
(* Spurious wake-ups are left out: every wait has a predicate, so one only *)
(* repeats the evaluation.                                                 *)
(***************************************************************************)
EXTENDS Naturals, Sequences, FiniteSets

CONSTANTS
    Producers,     \* threads that call push()
    Poppers,       \* threads that call pop() until it throws
    TimedPoppers,  \* threads that call pop_for() until it throws
    Drainers,      \* threads that call wait_empty() once
    Closers,       \* threads that call close() once
    MaxPush        \* bound: elements pushed in a behaviour

Consumers == Poppers \cup TimedPoppers
Thread == Producers \cup Consumers \cup Drainers \cup Closers

ASSUME QueueAssumption ==
    /\ MaxPush \in Nat
    /\ IsFiniteSet(Thread)
    /\ Producers \cap Consumers = {}
    /\ Producers \cap Drainers = {}
    /\ Producers \cap Closers = {}
    /\ Poppers \cap TimedPoppers = {}
    /\ Consumers \cap Drainers = {}
    /\ Consumers \cap Closers = {}
    /\ Drainers \cap Closers = {}

VARIABLES
    q,       \* the std::queue; elements are numbered in the order of the pushes
    closed,  \* the flag of the same name
    pc,      \* where each thread is
    pushed,  \* history: number of elements accepted by push()
    popped   \* history: the elements returned by pop() and pop_for()

vars == <<q, closed, pc, pushed, popped>>

(***************************************************************************)
(* pc[t] is                                                                *)
(*   "ready"     about to take the mutex and evaluate its predicate        *)
(*   "deciding"  owns the mutex, found its predicate false, not yet parked *)
(*   "parked"    asleep on its condition variable                          *)
(*   "expired"   its wait_for() has timed out, mutex not yet reacquired    *)
(*   "threw"     left with ClosedException                                 *)
(*   "notifying" close() has set the flag and not yet notified             *)
(*   "returned"  wait_empty() or close() has returned                      *)
(***************************************************************************)
Where == {"ready", "deciding", "parked", "expired", "threw", "notifying", "returned"}

Owner == {t \in Thread : pc[t] = "deciding"}
MutexFree == Owner = {}

CondWaiters == {c \in Consumers : pc[c] = "parked"}
EmpWaiters == {d \in Drainers : pc[d] = "parked"}

TypeOK ==
    /\ q \in Seq(Nat)
    /\ closed \in BOOLEAN
    /\ pc \in [Thread -> Where]
    /\ pushed \in 0 .. MaxPush
    /\ popped \in Seq(Nat)
    /\ \A t, u \in Owner : t = u

Init ==
    /\ q = <<>>
    /\ closed = FALSE
    /\ pc = [t \in Thread |-> "ready"]
    /\ pushed = 0
    /\ popped = <<>>

------------------------------------------------------------------------------
(* push(), lines 40-55 *)

\* cond.notify_one(): some waiter, if there is one, becomes ready
\* fault: notify only the push that finds the queue empty
NotifyFirstOnly ==
    IF CondWaiters = {} \/ q # <<>>
    THEN UNCHANGED pc
    ELSE \E c \in CondWaiters : pc' = [pc EXCEPT ![c] = "ready"]

\* fault: push() forgets to notify
NotifyNobody == UNCHANGED pc

NotifyOne ==
    IF CondWaiters = {}
    THEN UNCHANGED pc
    ELSE \E c \in CondWaiters : pc' = [pc EXCEPT ![c] = "ready"]

\* fault: the newest element goes to the front
PushFront(p) ==
    /\ MutexFree
    /\ pc[p] = "ready"
    /\ ~closed
    /\ pushed < MaxPush
    /\ q' = <<pushed + 1>> \o q
    /\ pushed' = pushed + 1
    /\ NotifyOne
    /\ UNCHANGED <<closed, popped>>

Push(p) ==
    /\ MutexFree
    /\ pc[p] = "ready"
    /\ ~closed
    /\ pushed < MaxPush
    /\ q' = Append(q, pushed + 1)
    /\ pushed' = pushed + 1
    /\ NotifyOne
    /\ UNCHANGED <<closed, popped>>

\* a push() or pop() that finds the queue closed
Throw(t) ==
    /\ MutexFree
    /\ pc[t] \in {"ready", "expired"}
    /\ closed
    /\ pc' = [pc EXCEPT ![t] = "threw"]
    /\ UNCHANGED <<q, closed, pushed, popped>>

------------------------------------------------------------------------------
(* pop(), lines 60-73, and pop_for(), lines 78-94 *)

\* fault: no emp.notify_all()
AfterSilentTake(c) == [pc EXCEPT ![c] = "ready"]

\* emp.notify_all() when the last element leaves
AfterTake(c) ==
    [t \in Thread |->
        IF t = c \/ (t \in EmpWaiters /\ Tail(q) = <<>>) THEN "ready" ELSE pc[t]]

\* fault: what is left in a closed queue is still delivered
TakeFromClosed(c) ==
    /\ MutexFree
    /\ pc[c] \in {"ready", "expired"}
    /\ q # <<>>
    /\ q' = Tail(q)
    /\ popped' = Append(popped, Head(q))
    /\ pc' = AfterTake(c)
    /\ UNCHANGED <<closed, pushed>>

Take(c) ==
    /\ MutexFree
    /\ pc[c] \in {"ready", "expired"}
    /\ ~closed
    /\ q # <<>>
    /\ q' = Tail(q)
    /\ popped' = Append(popped, Head(q))
    /\ pc' = AfterTake(c)
    /\ UNCHANGED <<closed, pushed>>

\* fault: the predicate is evaluated before the mutex is taken
DecideUnlocked(c) ==
    /\ pc[c] = "ready"
    /\ ~closed
    /\ q = <<>>
    /\ pc' = [pc EXCEPT ![c] = "deciding"]
    /\ UNCHANGED <<q, closed, pushed, popped>>

\* the wait predicate is false
Decide(c) ==
    /\ MutexFree
    /\ pc[c] = "ready"
    /\ ~closed
    /\ q = <<>>
    /\ pc' = [pc EXCEPT ![c] = "deciding"]
    /\ UNCHANGED <<q, closed, pushed, popped>>

\* the condition variable releases the mutex and blocks
Park(t) ==
    /\ pc[t] = "deciding"
    /\ pc' = [pc EXCEPT ![t] = "parked"]
    /\ UNCHANGED <<q, closed, pushed, popped>>

\* wait_for() gives up
Expire(c) ==
    /\ pc[c] = "parked"
    /\ pc' = [pc EXCEPT ![c] = "expired"]
    /\ UNCHANGED <<q, closed, pushed, popped>>

\* TimeoutException; the caller's loop calls pop_for() again
TimeOut(c) ==
    /\ MutexFree
    /\ pc[c] = "expired"
    /\ ~closed
    /\ q = <<>>
    /\ pc' = [pc EXCEPT ![c] = "ready"]
    /\ UNCHANGED <<q, closed, pushed, popped>>

------------------------------------------------------------------------------
(* wait_empty(), lines 104-108 *)

SeeEmpty(d) ==
    /\ MutexFree
    /\ pc[d] = "ready"
    /\ q = <<>>
    /\ pc' = [pc EXCEPT ![d] = "returned"]
    /\ UNCHANGED <<q, closed, pushed, popped>>

SeeNonEmpty(d) ==
    /\ MutexFree
    /\ pc[d] = "ready"
    /\ q # <<>>
    /\ pc' = [pc EXCEPT ![d] = "deciding"]
    /\ UNCHANGED <<q, closed, pushed, popped>>

------------------------------------------------------------------------------
(* close(), lines 110-114: no mutex *)

SetClosed(k) ==
    /\ pc[k] = "ready"
    /\ closed' = TRUE
    /\ pc' = [pc EXCEPT ![k] = "notifying"]
    /\ UNCHANGED <<q, pushed, popped>>

\* cond.notify_all(); emp is not notified
NotifyAll(k) ==
    /\ pc[k] = "notifying"
    /\ pc' = [t \in Thread |->
                IF t = k THEN "returned"
                ELSE IF t \in CondWaiters THEN "ready" ELSE pc[t]]
    /\ UNCHANGED <<q, closed, pushed, popped>>

------------------------------------------------------------------------------
ConsumerStep(c) == Take(c) \/ Throw(c) \/ Decide(c) \/ Park(c)
TimedStep(c) == Expire(c) \/ TimeOut(c)
DrainerStep(d) == SeeEmpty(d) \/ SeeNonEmpty(d) \/ Park(d)
CloserStep(k) == SetClosed(k) \/ NotifyAll(k)

Next ==
    \/ \E p \in Producers : Push(p) \/ Throw(p)
    \/ \E c \in Consumers : ConsumerStep(c)
    \/ \E c \in TimedPoppers : TimedStep(c)
    \/ \E d \in Drainers : DrainerStep(d)
    \/ \E k \in Closers : CloserStep(k)

Spec == Init /\ [][Next]_vars

\* The C++ scheduler runs every thread that can run, and a thread that finds the
\* mutex free again and again gets it.  Nothing obliges a caller to push or to
\* close, nor a timeout to elapse.
Fairness ==
    /\ \A c \in Consumers : SF_vars(ConsumerStep(c))
    /\ \A c \in TimedPoppers : SF_vars(TimeOut(c))
    /\ \A d \in Drainers : SF_vars(DrainerStep(d))
    /\ \A k \in Closers : WF_vars(NotifyAll(k))

FairSpec == Spec /\ Fairness

------------------------------------------------------------------------------
(* Properties *)

\* push() and pop() hand every element over exactly once and in order: what
\* was delivered, followed by what is queued, is what was accepted.
ExactlyOnceInOrder == popped \o q = [i \in 1 .. pushed |-> i]

\* No wake-up of push() is lost (notify_one on one `cond' shared by pop() and
\* pop_for()): while consumers sleep, there are at least as many awake ones as
\* elements to take.
EnoughAwake ==
    (~closed /\ CondWaiters # {}) =>
        Len(q) <= Cardinality({c \in Consumers : pc[c] \in {"ready", "expired"}})

\* Every element pushed to a queue that stays open is delivered in the end,
\* without a timeout to make up for a lost wake-up.
EverythingDelivered ==
    \A i \in 1 .. MaxPush : pushed >= i ~> (Len(popped) >= i \/ closed)

\* wait_empty() returns on a queue that stays open (flush() relies on it): the
\* pop() of the last element wakes every caller.
DrainersReturn == \A d \in Drainers : <>(pc[d] = "returned" \/ closed)

\* close() reaches "all threads waiting on new content" (blockingqueue.hpp:109):
\* every pop() ends with ClosedException.
CloseReachesPoppers == \A c \in Poppers : closed ~> pc[c] = "threw"

\* The monitor implements the atomic queue.
Atomic == INSTANCE AtomicQueue WITH Value <- 1 .. MaxPush
ImplementsAtomicQueue == Atomic!Spec
==============================================================================
