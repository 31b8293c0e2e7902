\* The client only uploads; the committer alone commits.
CONSTANTS
    Workers = {w1, w2}
    BlockSize = 2
    FrameSizes = {1, 3}
    CommitBlockCount = 1
    ClientCalls = {}
    MaxBlocks = 3
SPECIFICATION StreamFairSpec
INVARIANTS TypeOK BlobIsPrefix QuietWhileCommitting
    NamesIdentifyBlocks NamesAreBase64
PROPERTIES ImplementsBlobLog EverythingCommitted
\* a commit that has discarded a staged block is retried for ever
CHECK_DEADLOCK FALSE
