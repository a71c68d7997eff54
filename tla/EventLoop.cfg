\* The loop's thread and another use the loop; several fds are ready at once.
CONSTANTS
    LoopThread = loop
    Posters = {p1}
    Nobody = nobody
    Calls = {c1}
    Fds = {f1}
    TimerFd = timer
    WakeFd = wake
    ErrorFds = {f1}
    NoTask = noTask
    MaxEpollEvents = 2
    MaxQueue = 1
SPECIFICATION FairSpec
INVARIANTS TypeOK DispatchedIsRegistered
PROPERTIES ImplementsTaskQueue PostedIsRun StopEndsLoop
\* stop() ends the loop and its users may have nothing left to ask.
CHECK_DEADLOCK FALSE
