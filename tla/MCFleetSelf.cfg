CONSTANTS
    worker = worker
    web = web
    ops = ops
    everyone = everyone
    Everyone = everyone
    Agents = {worker, ops}
    Callers = {worker, ops}
    Works = {worker, ops}
    Owns = {ops}
    Adopts = {}
    Routes = {"ops"}
    ToolName <- MCToolName
    ScopeOf <- MCScopeOf
    OwnRoute <- MCOwnRoute
    SshRoute <- MCSshRoute
    MaxCalls = 1
    MaxLate = 0
    MaxFaults = 0
SPECIFICATION FairSpec
CHECK_DEADLOCK FALSE
PROPERTIES CallsAreAnswered
