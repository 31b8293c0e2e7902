\* Two workers overtake a third block.
CONSTANTS
    Workers = {w1, w2}
    BlockSize = 2
    FrameSizes = {2}
    CommitBlockCount = 1
    ClientCalls = {}
    MaxBlocks = 3
SPECIFICATION Spec
INVARIANTS NoUploadedBlockLost
CHECK_DEADLOCK FALSE
