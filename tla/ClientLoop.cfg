\* Two clients of one thread, with two fd numbers.
CONSTANTS
    Clients = {c1, c2}
    Fds = {3, 4}
    NoFd = noFd
    NoClient = noClient
SPECIFICATION FairSpec
INVARIANTS RegisteredForOwner WaitsQuietly ConnectCallbackOnce
PROPERTY ConnectAnswered
CHECK_DEADLOCK FALSE
