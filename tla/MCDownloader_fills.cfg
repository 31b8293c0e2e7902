\* A stale block arrives after a seek.
CONSTANTS
    Workers = {w1, w2}
    BlobSize = 7
    BlockSize = 2
    Prefetch = 1
    ReadSizes = {1, 3}
    SeekOffsets = {0, 5}
    MayDestroy = FALSE
    MaxPending = 1
SPECIFICATION Spec
PROPERTIES ReadFills
\* the reader may stop calling
CHECK_DEADLOCK FALSE
