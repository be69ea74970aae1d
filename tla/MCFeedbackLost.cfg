CONSTANTS
    MaxComments = 2
    MaxNotes = 4
    MaxMoves = 0
    MaxFaults = 0
    MaxKills = 0
SPECIFICATION Spec
INVARIANTS NothingIsLost
CHECK_DEADLOCK FALSE
