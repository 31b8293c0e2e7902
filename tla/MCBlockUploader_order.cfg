\* The client and the committer commit at once.
CONSTANTS
    Workers = {w1}
    BlockSize = 2
    FrameSizes = {2}
    CommitBlockCount = 0
    ClientCalls = {"flush"}
    MaxBlocks = 2
SPECIFICATION Spec
INVARIANTS BlobInOrder
CHECK_DEADLOCK FALSE
