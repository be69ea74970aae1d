SPECIFICATION FairSpec
CONSTANTS
    Agents = {1, 2}
    Rounds = 2
    SettleTicks = 1
    PollTicks = 2
    MaxLag = 2
    MaxAdds = 3
    Faults = TRUE
    Interrupts = TRUE
    EventsEmpty = FALSE
    LabelRank <- MCRank
INVARIANTS MutualExclusion OwnerIsEarliest
PROPERTIES ImplementsLease CleanLoss AttemptsEnd ContestIsDecided
