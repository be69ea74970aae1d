CONSTANTS
    MaxComments = 2
    MaxNotes = 3
    MaxMoves = 1
    MaxFaults = 2
    MaxKills = 1
SPECIFICATION FairSpec
INVARIANTS NothingEarlyIsLost RepliesFollowPush
PROPERTIES NoSelfTrigger EarlyIsShown
CHECK_DEADLOCK FALSE
