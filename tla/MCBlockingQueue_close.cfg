\* close() against two pop() callers.
CONSTANTS
    Producers = {a1}
    Poppers = {p1, p2}
    TimedPoppers = {}
    Drainers = {}
    Closers = {k1}
    MaxPush = 1
SPECIFICATION FairSpec
PROPERTIES CloseReachesPoppers
CHECK_DEADLOCK FALSE
