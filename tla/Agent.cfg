SPECIFICATION Spec
CONSTANTS
    Second = 2
    Word = 262144
    SeriesLimit = 2
    SampleLimit = 3
    Plans <- MCPlans
    Identities <- MCIdentities
    Ids = {i1, i2, i3, i4}
    NoId = NoId
    Views = {"cpu", "load"}
    Replies <- MCReplies
    MaxBatch = 2
    MaxIterations = 4
    MaxToolCalls = 3
INVARIANTS SuccessIsClosed ResultIsBacked GoodRepliesSucceed
CHECK_DEADLOCK FALSE
SYMMETRY MCSymmetry
