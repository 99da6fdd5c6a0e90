SPECIFICATION FairSpec
CONSTANTS
    HalfTurn = 2
    Angles <- MCAngles
    Serials = 2
    MaxUnread = 1
INVARIANTS
    TypeOK
    FeedbackCurrent
PROPERTIES
    RunOnlyAfterReset
    ShortTurns
    CommandsResume
CHECK_DEADLOCK FALSE
