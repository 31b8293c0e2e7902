\* The request queue's shape and the response queue's in one: several
\* producers, pop() and pop_for() on one condition variable, a wait_empty()
\* caller and an unlocked close().
CONSTANTS
    Producers = {a1, a2}
    Poppers = {p1, p2}
    TimedPoppers = {t1}
    Drainers = {d1}
    Closers = {k1}
    MaxPush = 3
SPECIFICATION FairSpec
INVARIANTS TypeOK ExactlyOnceInOrder EnoughAwake
PROPERTIES EverythingDelivered DrainersReturn ImplementsAtomicQueue
\* the system stops when every thread has returned or thrown
CHECK_DEADLOCK FALSE
