\* The loop's thread and one other use a timer with a repeated and a one-shot
\* event.
CONSTANTS
    LoopThread = loop
    Users = {u1}
    Nobody = nobody
    first = first
    second = second
    Events <- MCEvents
    Repeated <- MCRepeated
    Interval <- MCInterval
    Grace = 1
    NoEvent = noEvent
    Disarmed = disarmed
SPECIFICATION FairSpec
INVARIANTS TypeOK NoEventForgotten WakesInTime RunsAsAsked
PROPERTY PendingIsCollected
CHECK_DEADLOCK FALSE
