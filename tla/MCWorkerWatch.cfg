CONSTANTS
    w1 = w1
    w2 = w2
    w3 = w3
    Workers = {w1}
    Issues = {1, 2, 3}
    HumanLabels = {}
    MaxFaults = 0
    MaxStops = 0
    MaxKills = 1
    MaxMoves = 1
    ContestKills = FALSE
SPECIFICATION FairSpec
PROPERTIES WatchGoesRound ClosedTakesMrDown
