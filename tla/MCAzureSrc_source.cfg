\* Two workers, blocks of two bytes, the last one short; fills that end inside a
\* block, at its end and across blocks, seeks to the start and into a block, the
\* element stopped and started again.
CONSTANTS
    Workers = {w1, w2}
    BlobSize = 7
    BlockSize = 2
    Prefetch = 1
    ReadSizes = {1, 3}
    SeekOffsets = {0, 5}
    MayDestroy = TRUE
    MaxPending = 1
    MaxLives = 2
    MaxFilled = 8
SPECIFICATION SrcFairSpec
INVARIANTS TypeOK CopiesTheBlob NothingMissing NothingTwice MemoryBounded
    StreamsInOrder AbortsOnlyInSecondLife
PROPERTIES ReadReturns
CHECK_DEADLOCK FALSE
