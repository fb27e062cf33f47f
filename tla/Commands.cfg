SPECIFICATION Spec
CONSTANTS
    opener = opener
    reopener = reopener
    a = a
    b = b
    other = other
    stranger = stranger
    u1 = u1
    u2 = u2
    r0 = r0
    r1 = r1
    r2 = r2
    k1 = k1
    k2 = k2
    SessionCallers = {opener, reopener}
    TaskCallers = {a, b, other, stranger}
    KeyOf <- Key
    RequestOf <- Request
    UserOf <- User
    SessionOf <- FirstSession
    TTL = 2
    MaxSessions = 2
    MaxTasks = 2
    MaxNow = 3
    MaxBack = 1
    MaxCrashes = 1
INVARIANTS
    TypeOK
    AnswersAreMine
    OneTaskPerKey
    KeysLeadToResources
    SessionReflectsTasks
    StartedOnce
SYMMETRY Retries
CHECK_DEADLOCK FALSE
