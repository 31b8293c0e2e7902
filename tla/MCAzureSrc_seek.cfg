\* A blob of one block; fills of one byte, seeks back to the start.
CONSTANTS
    Workers = {w1}
    BlobSize = 3
    BlockSize = 4
    Prefetch = 1
    ReadSizes = {1}
    SeekOffsets = {0, 2}
    MayDestroy = FALSE
    MaxPending = 1
    MaxLives = 1
    MaxFilled = 4
SPECIFICATION SrcSpec
PROPERTIES FillDelivers
\* the application may stop asking
CHECK_DEADLOCK FALSE
