\* Three lines of two threads over two days; a file is full with one line.
CONSTANTS
    p1 = p1
    p2 = p2
    Producers <- MCProducers
    MaxLines <- MCMaxLines
    MaxDay = 1
    MaxFileSize = 0
    Sync = sync
    Writer = writer
    Nobody = nobody
    NoFile = noFile
SPECIFICATION FairSpec
INVARIANTS TypeOK NoLostWakeup OverfullOnlyFirst
PROPERTIES ImplementsLogFile EverythingIsWritten
CHECK_DEADLOCK FALSE
