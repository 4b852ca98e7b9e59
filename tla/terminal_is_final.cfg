CONSTANTS
    j1 = j1
    j2 = j2
    w1 = w1
    w2 = w2
    s1 = s1
    None = None
    Jobs = {j1, j2}
    PullRequests = {}
    Workers = {w1}
    Sweepers = {}
    LastMonth = 0
    Limit = 1
    MaxAttempts = 1
    MaxStalls = 1
    Cancellable = {j2}
    Disconnects = FALSE
    MaxWaits = 0
    MaxFaults = 0
SPECIFICATION Spec
PROPERTY TerminalIsFinal
CHECK_DEADLOCK FALSE
