\* Requests fail, the create among them; streams longer than a chunk; EOS and
\* stop() at any time; the element is started a second time.
CONSTANTS
    ChunkMax = 2
    Sizes = {1, 3}
    Failures = TRUE
    ClientCalls = {"flush", "destroy"}
    MaxBytes = 6
    MaxLives = 2
SPECIFICATION SinkFairSpec
INVARIANTS TypeOK OrderKept ChunkWithinLimit  OneStream SleepsOnlyWhenFlushed
PROPERTIES EosReturns
\* stop() hangs when its notification falls before the worker's sleep
CHECK_DEADLOCK FALSE
