SPECIFICATION Spec
CONSTANTS
    Sessions = {1, 2, 3, 4}
    Mine = {1, 2, 4}
    Size = 1
    MaxTime = 2
INVARIANTS
    OneList
    NothingSkipped
CHECK_DEADLOCK FALSE
