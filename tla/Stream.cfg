SPECIFICATION FairSpec
CONSTANTS
    Task = task
    Batch = 2
    Reported = {"tool.started"}
    MaxLog = 6
    MaxBreaks = 1
INVARIANTS
    TypeOK
    NoLostWakeup
    NothingLostNorTwice
PROPERTIES
    EventsArrive
    StreamsEnd
CHECK_DEADLOCK FALSE
