\* Two requests at once.
CONSTANTS
    Request = {r1, r2}
    State = {"s"}
    MaxRequests = 4
    MaxTokens = 3
    MaxIds = 2
    MaxFaults = 1
SPECIFICATION Spec
SYMMETRY Symmetry
INVARIANTS UsedOnce ReuseEndsSessions DecisionHolds DeletedIsGone
CHECK_DEADLOCK FALSE
