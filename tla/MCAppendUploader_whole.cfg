\* Nothing fails and every stream fits in one Append Block; flush() and destroy()
\* at any time.
CONSTANTS
    ChunkMax = 5
    Sizes = {1, 2}
    Failures = FALSE
    ClientCalls = {"flush", "destroy"}
    MaxBytes = 5
SPECIFICATION FairSpec
INVARIANTS AllAccountedFor
PROPERTIES ImplementsBlobLog EverythingSent
\* the worker sleeps on when the client stops calling
CHECK_DEADLOCK FALSE
