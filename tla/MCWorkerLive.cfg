CONSTANTS
    w1 = w1
    w2 = w2
    w3 = w3
    Workers = {w1, w2}
    Issues = {1}
    HumanLabels = {}
    MaxFaults = 1
    MaxStops = 0
    MaxKills = 1
    MaxMoves = 0
    ContestKills = FALSE
SPECIFICATION FairSpec
PROPERTIES ClaimsAreRecovered
