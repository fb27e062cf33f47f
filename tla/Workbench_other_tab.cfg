SPECIFICATION Spec
CONSTANTS
    s1 = s1
    gone = gone
    Sessions = {s1, gone}
    Gone = gone
    Tasks = {1, 2}
    SessionOf <- OneSessionOf
    Elsewhere = {1, 2}
    Page = 6
    MaxLog = 4
    MaxFaults = 0
INVARIANT EndedByItsEvents
CHECK_DEADLOCK FALSE
