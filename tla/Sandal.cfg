CONSTANTS
    Sessions = {t1}
    Scopes = {f1}
    Calls = {c1, c2}
    Vms = {v1, v2}
    NoVm = none
SPECIFICATION Spec
CHECK_DEADLOCK FALSE
\* What a comment or a doc says and the code does not do; one at a time.
INVARIANT LiveVmsArePooled
