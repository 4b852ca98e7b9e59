CONSTANTS
    j1 = j1
    j2 = j2
    w1 = w1
    w2 = w2
    s1 = s1
    None = None
    Jobs = {j1, j2}
    PullRequests = {j1}
    Workers = {w1, w2}
    Sweepers = {s1}
    LastMonth = 1
    Limit = 1
    MaxAttempts = 2
    MaxStalls = 1
    Cancellable = {j1}
    Disconnects = TRUE
    MaxWaits = 0
    MaxFaults = 1
    Scenarios = {"zombie", "cancel", "disconnect", "quota", "pair"}
SPECIFICATION MCSpec
SYMMETRY Alike
INVARIANTS TypeOK QuotaConserved LimitRespected OnlyChargedWork ChargeFollowsOutcome
PROPERTIES KeepsContract PhaseMonotone
CHECK_DEADLOCK FALSE
