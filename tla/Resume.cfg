CONSTANTS
    Scopes = {i1, i2}
    NoScope = none
    MaxTasks = 2
    MaxSessions = 3
SPECIFICATION Spec
CHECK_DEADLOCK FALSE
\* What a comment or a doc says and the code does not do; one at a time.
PROPERTY OnlyInterruptedResumes
\* INVARIANT OneTaskPerTalk
