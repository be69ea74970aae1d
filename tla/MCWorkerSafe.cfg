CONSTANTS
    w1 = w1
    w2 = w2
    w3 = w3
    Workers = {w1, w2}
    Issues = {1}
    HumanLabels = {"pending", "review-only"}
    MaxFaults = 0
    MaxStops = 1
    MaxKills = 1
    MaxMoves = 2
    ContestKills = FALSE
SPECIFICATION Spec
SYMMETRY MCSymmetry
INVARIANTS OneWorker ActiveIsClaimed InProgressIsHeld
