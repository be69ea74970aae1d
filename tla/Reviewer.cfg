CONSTANTS
    Reviewers = {r1, r2}
    Mrs = {m1}
    NoMr = none
    Mergers = {r1}
    MaxFaults = 1
    MaxKills = 1
    MaxMoves = 1
SPECIFICATION Spec
CHECK_DEADLOCK FALSE
\* What a comment or a doc says and the code does not do; one at a time.
PROPERTY ResumesInPlace
\* INVARIANT OneIssuePerMr
