CONSTANTS
    MaxComments = 1
    MaxNotes = 2
    MaxMoves = 1
    MaxFaults = 1
    MaxKills = 0
SPECIFICATION Spec
CHECK_DEADLOCK FALSE
\* What a comment or a doc says and the code does not do; one at a time.
INVARIANT OnlyHandledIsGated
\* INVARIANT RepliesDescribePushedCode
\* PROPERTY HandledDoesNotTrigger
