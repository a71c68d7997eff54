\* Two calls on one channel, overlapping or one after the other.
CONSTANTS
    Calls = {c1, c2}
    NoCall = noCall
SPECIFICATION FairSpec
INVARIANTS TypeOK OneRequestPerChannel ClosureOncePerController
           ClosureSeesOutcome
PROPERTY EveryCallSettles
\* Once every call is over and the loop has ended nothing is left to do.
CHECK_DEADLOCK FALSE
