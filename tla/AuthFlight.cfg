CONSTANTS
    Harnesses = {h1, h2}
    Nobody = none
    MaxKills = 1
SPECIFICATION Spec
CHECK_DEADLOCK FALSE
\* What a comment or a doc says and the code does not do; one at a time.
INVARIANT OneProvider
