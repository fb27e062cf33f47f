SPECIFICATION FairSpec
CONSTANTS
    s1 = s1
    gone = gone
    Sessions = {s1, gone}
    Gone = gone
    Tasks = {1, 2}
    SessionOf <- OneSessionOf
    Elsewhere = {}
    Page = 2
    MaxLog = 3
    MaxFaults = 1
INVARIANTS
    OneSession
    NoGapAfterReplay
    OneTaskPerRequest
PROPERTIES
    ActiveUntilItsEvents
    PageFollows
CHECK_DEADLOCK FALSE
