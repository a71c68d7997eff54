\* One thread uses the loop: its pushes against the swap of loop().
CONSTANTS
    LoopThread = loop
    Posters = {p1}
    Nobody = nobody
    Calls = {c1}
    Fds = {f1}
    TimerFd = timer
    WakeFd = wake
    ErrorFds = {}
    NoTask = noTask
    MaxEpollEvents = 2
    MaxQueue = 1
SPECIFICATION Spec
PROPERTY ClosuresKept
CHECK_DEADLOCK FALSE
