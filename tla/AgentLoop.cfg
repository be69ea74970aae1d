CONSTANTS
    KeepTexts = 1
    KeepReasons = 1
    StuckLimit = 2
    MaxPrompts = 2
    MaxInjects = 1
    MaxCalls = 2
    MaxBudgets = 1
SPECIFICATION Spec
CHECK_DEADLOCK FALSE
\* What a comment or a doc says and the code does not do; one at a time.
INVARIANT OutputsFollowTheirCall
\* INVARIANT ReasoningSurvives
\* INVARIANT PromptsSurvive
