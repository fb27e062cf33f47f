SPECIFICATION Spec
CONSTANTS
    s1 = s1
    gone = gone
    Sessions = {s1, gone}
    Gone = gone
    Tasks = {1}
    SessionOf <- OneSessionOf
    Elsewhere = {}
    Page = 6
    MaxLog = 6
    MaxFaults = 0
PROPERTY ClosedByItsEnd
CHECK_DEADLOCK FALSE
