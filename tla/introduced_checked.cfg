CONSTANTS
    None = None
    Bad = Bad
    alice = alice
    bob = bob
    app1 = app1
    app2 = app2
    hook1 = hook1
    hook2 = hook2
    back1 = back1
    back2 = back2
    tab1 = tab1
    tab2 = tab2
    socket1 = socket1
    request1 = request1
    Users = {alice, bob}
    Installs = {app1, app2}
    Handlers = {hook1, hook2}
    Callbacks = {back1, back2}
    Limit = 2
    MaxSha = 3
    MaxRows = 2
    MaxReviews = 3
    MaxFaults = 1
    MaxClaims = 1
    Browsers = {tab1}
    Sockets = {socket1}
    Requests = {request1}
    MaxLogins = 2
    Severities <- Levels
    DefaultLeast = 1
    MaxAttempts = 3
    MaxAnswered = 1
    Lines = {2, 4}
    Issues <- Defects
    Length <- Wordings
    Similar <- Alike
    Weights <- Points
    Categories = {"SECURITY"}
    Window = 3
    MaxFindings = 3
    ScanFiles = {"f", "g"}
    MaxCandidates = 1
    Packages <- Dependencies
    Advisories = {"x", "y"}
    MaxRefs = 2
    MaxBatch = 2
    MaxRequests = 3
    MaxPages = 2
    MaxIds = 1
    MaxDetails = 1
    Order <- Past
    Repository <- RepoOf
    PullRequest <- RequestOf
    PageSize = 1
    MaxAsked = 2
    Names <- Connected
    Day = 0
    MaxTime = 2
    MaxCaptured = 2
    Gaps = {"first", "second"}
    Tabs = {tab1, tab2}
    Texts = {"text"}
    MaxCommits = 2
    MaxDrafts = 2
    MaxCalls = 2
    Files <- Paths
    Repos <- Checkouts
    Tests = {3, 4}
    Barrels = {4}
    Package <- PackageOf
    Related <- TestsOf
    Aliased <- ByAlias
    Rooted <- ByRoot
    MaxHops = 2
    MaxFiles = 2
    Batch = 2
    MaxSources = 2
    MaxRelated = 3
    DiffOrder <- Diffed
    Odd = {"quoted"}
    Ignored = {"lockfile"}
    Code = {"quoted", "source"}
    Manifests = {"package", "lockfile"}
    MaxBody = 2
    Starts = {1, 5}
    MaxHits = 1
    Scenarios = {"reading"}
SPECIFICATION MCSpec
INVARIANT IntroducedIsChecked
CHECK_DEADLOCK FALSE
