SPECIFICATION Spec
CONSTANTS
    Second = 2
    Word = 262144
    SeriesLimit = 2
    SampleLimit = 3
    Drivers = {"mock", "eino"}
    Requests <- MCRequests
    Answers <- MCAnswers
    OtherTurns <- MCOtherTurns
    HistoryItems = 2
    HistoryRunes = 3
    MessageRunes = 3
    MaxTurns = 3
INVARIANTS PlansAreExecutable
PROPERTIES AskedIsPlanned FollowUpInherits
CHECK_DEADLOCK FALSE
