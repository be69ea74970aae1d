CONSTANTS
    worker = worker
    web = web
    ops = ops
    everyone = everyone
    Everyone = everyone
    Agents = {worker, web}
    Callers = {worker, web}
    Works = {worker}
    Owns = {web}
    Adopts = {worker, web}
    Routes = {"worker-ssh", "web-ssh", "web"}
    ToolName <- MCToolName
    ScopeOf <- MCScopeOf
    OwnRoute <- MCOwnRoute
    SshRoute <- MCSshRoute
    MaxCalls = 2
    MaxLate = 1
    MaxFaults = 1
SPECIFICATION FairSpec
INVARIANTS OneToolPerName NobodySleepsPastARoute RoutesAreServed OnShutdownOnce
CHECK_DEADLOCK FALSE
PROPERTIES CallsAreAnswered BackInService ShutdownEnds
