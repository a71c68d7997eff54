\* The same clients: does done run after every successful connect?
CONSTANTS
    Clients = {c1, c2}
    Fds = {3, 4}
    NoFd = noFd
    NoClient = noClient
SPECIFICATION FairSpec
PROPERTY DoneAfterConnect
CHECK_DEADLOCK FALSE
