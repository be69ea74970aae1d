CONSTANTS
    Runners = {a1, a2}
    Harnesses = {h1, h2, h3}
    JobIds = {j1, j2, j3}
    Scopes = {f1, f2}
    Callers = {t1}
    Subs = {s1, s2}
    Kids = {k1, k2}
    Sessions = {t1}
    Calls = {c1, c2}
    Vms = {v1, v2}
    Pmos = {p1, p2}
    Issues = {i1}
    Reviewers = {r1, r2}
    Mrs = {m1}
    Mergers = {r1}
    Errors = {e1, e2}
    Nobody = none
    NoScope = none
    NoVm = none
    NoIssue = none
    NoMr = none
    MaxFaults = 1
    MaxKills = 1
    MaxMoves = 1
    MaxRetries = 1
    MaxTransport = 1
    MaxNudges = 1
    MaxRequests = 3
    MaxCalls = 1
    MaxFinished = 2
    MaxTasks = 2
    MaxSessions = 3
    KeepTexts = 1
    KeepReasons = 1
    StuckLimit = 2
    MaxPrompts = 2
    MaxInjects = 1
    MaxToolCalls = 2
    MaxBudgets = 1
    MaxLive = 1
    MaxTurns = 1
    MaxBreaks = 1
    MaxCommits = 3
    Wedges = FALSE
    Garbles = TRUE
    Bugless = {2}
    Plans <- MCPlans
    Branches <- MCBranches
SPECIFICATION Spec
INVARIANTS
    RepairsAreSound ClientIsSound TalksKeepToTheirTask
    ContextIsSound TablesAreCapped OwnScopeOnly EachPartOnce OneReviewAtATime FindingsAreFiled
PROPERTIES
    RunsEnd DisposeEnds RunsAreNeeded NothingLingers SplitsFinish NothingSlipsPast
    ClaimsAreHeld LeftoversGo
CHECK_DEADLOCK FALSE
