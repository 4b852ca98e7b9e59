CONSTANTS
    j1 = j1
    j2 = j2
    w1 = w1
    w2 = w2
    s1 = s1
    None = None
    Jobs = {j1}
    PullRequests = {}
    Workers = {w1}
    Sweepers = {s1}
    LastMonth = 0
    Limit = 1
    MaxAttempts = 1
    MaxStalls = 1
    Cancellable = {}
    Disconnects = FALSE
    MaxWaits = 0
    MaxFaults = 0
SPECIFICATION Spec
PROPERTY StartupProtected
CHECK_DEADLOCK FALSE
