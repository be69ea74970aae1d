SPECIFICATION Spec
CONSTANTS
    Agents = {1, 2}
    Rounds = 2
    SettleTicks = 1
    PollTicks = 2
    MaxLag = 0
    MaxAdds = 3
    Faults = FALSE
    Interrupts = FALSE
    EventsEmpty = FALSE
    LabelRank <- MCRank
PROPERTIES EarliestWins
