CONSTANTS
    Pmos = {p1, p2}
    Nobody = none
    Issues = {i1}
    NoIssue = none
    MaxFaults = 1
    MaxKills = 1
    MaxMoves = 1
SPECIFICATION Spec
CHECK_DEADLOCK FALSE
\* What a comment or a doc says and the code does not do; one at a time.
INVARIANT PlanningIsHeld
