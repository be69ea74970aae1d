CONSTANTS
    JobIds = {j1, j2}
    MaxFinished = 1
SPECIFICATION FairSpec
CHECK_DEADLOCK FALSE
\* What a comment or a doc says and the code does not do; one at a time.
PROPERTY CallsReturn
\* INVARIANT NothingOutlivesClose
\* PROPERTY ReportsAreTrue
