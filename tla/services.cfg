CONSTANTS
    None = None
    tab1 = tab1
    tab2 = tab2
    index = index
    util = util
    page = page
    test = test
    extra = extra
    Requests = {tab1, tab2}
    MaxCheckouts = 2
    MaxClock = 4
    MaxFaults = 2
    Tabs = {tab1, tab2}
    PerJob = 2
    MaxRuns = 2
    MaxKeys = 2
    MaxVersions = 2
    Listings <- Trees
    Blob <- BlobOf
    Size <- SizeOf
    MaxFileBytes = 2
    MaxFiles = 4
    MaxDownloads = 2
    MaxBytes = 2
    Concurrency = 2
    MaxBuilds = 2
    MaxLinks = 2
    Scenarios = {"checkout", "plans", "events", "second", "tabs", "lost", "again", "settings", "budget", "disconnect", "reconnect", "retention"}
SPECIFICATION MCSpec
INVARIANTS NoDoublePurchase AccessMatchesEvents OneResultPerRequest CodeGoneAfterDisconnect BudgetKept
CHECK_DEADLOCK FALSE
