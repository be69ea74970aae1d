CONSTANTS
    Callers = {t1}
    Subs = {s1, s2}
    Kids = {k1, k2}
    MaxLive = 1
    MaxTurns = 1
SPECIFICATION FairSpec
CHECK_DEADLOCK FALSE
\* What a comment or a doc says and the code does not do; one at a time.
INVARIANT LeftBehindAreClosed
\* PROPERTY KilledStaysKilled
\* PROPERTY FailedWithItsClient
