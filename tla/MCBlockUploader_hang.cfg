\* flush() against the committer.
CONSTANTS
    Workers = {w1}
    BlockSize = 2
    FrameSizes = {2}
    CommitBlockCount = 1
    ClientCalls = {"flush"}
    MaxBlocks = 2
SPECIFICATION FairSpec
PROPERTIES FlushReturns
\* the hang itself
CHECK_DEADLOCK FALSE
