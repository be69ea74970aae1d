CONSTANTS
    MaxRequests = 3
    MaxCalls = 1
    Wedges = FALSE   \* with TRUE, DisposeEnds is violated
    Garbles = TRUE
SPECIFICATION FairSpec
CHECK_DEADLOCK FALSE
\* What a comment or a doc says and the code does not do; one at a time.
PROPERTY StdinClosesFirst
\* PROPERTY PromptsEnd
\* PROPERTY DisposeEnds
