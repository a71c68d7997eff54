\* Three clients, two I/O threads; the third client finds no fd, and any
\* accept may fail.
CONSTANTS
    N = 2
    Clients = {c1, c2, c3}
    NoClient = noClient
    FirstFd = 1
    FdLimit = 3
    InitSize = 2
SPECIFICATION FairSpec
INVARIANTS TypeOK LoopReady CrashOnlyAfterFailedAccept CoderBeforeRead
PROPERTY EveryClientServed
CHECK_DEADLOCK FALSE
