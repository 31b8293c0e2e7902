\* Two workers; EOS and stop() commit beside the committer; the element is
\* started a second time.
CONSTANTS
    Workers = {w1, w2}
    BlockSize = 2
    FrameSizes = {1, 3}
    CommitBlockCount = 1
    ClientCalls = {"flush", "destroy"}
    MaxBlocks = 3
    MaxLives = 2
SPECIFICATION SinkSpec
INVARIANTS EveryBlockInOnePlace DestroyedAfterUploads 
    FirstStreamIsPrefix PositionAccounts AbortsOnlyRestarted
PROPERTIES BlobOnlyGrows RestartSendsNothing
SYMMETRY Symmetry
\* stop() returns, or hangs
CHECK_DEADLOCK FALSE
