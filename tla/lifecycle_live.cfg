CONSTANTS
    j1 = j1
    j2 = j2
    w1 = w1
    w2 = w2
    s1 = s1
    None = None
    Jobs = {j1}
    PullRequests = {j1}
    Workers = {w1}
    Sweepers = {s1}
    LastMonth = 0
    Limit = 1
    MaxAttempts = 2
    MaxStalls = 1
    Cancellable = {}
    Disconnects = FALSE
    MaxWaits = 1
    MaxFaults = 1
    Scenarios = {"free"}
SPECIFICATION MCFairSpec
PROPERTIES FulfilsContract QueueDrains
CHECK_DEADLOCK FALSE
