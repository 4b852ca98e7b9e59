CONSTANTS
    None = None
    Jobs = {pr, audit}
    PullRequests = {pr}
    Findings = {finding1}
    Fingerprint <- Alike
    Tabs = {tab1, tab2}
    Threshold = 1
    MaxSnapshots = 2
    MaxSaves = 2
    MaxFaults = 1
    Repositories = {home, other}
    Home = home
    Texts = {text1}
    Cards = {tab1, tab2}
    Pages = {tab1, tab2}
    Limit = 1
    MaxRules = 2
    MaxRevision = 2
    MaxLoads = 3
    pr = pr
    audit = audit
    finding1 = finding1
    tab1 = tab1
    tab2 = tab2
    home = home
    other = other
    text1 = text1
    Scenarios = {"feedback", "readers", "disconnect", "reviews", "workflow", "panels", "derive", "pages", "repositories", "modes"}
SPECIFICATION MCSpec
INVARIANTS PatternsCurrent SavesRecorded RulesSound PageTruthful
PROPERTIES NoBlindWrite NoResurrection ConsentIsFresh ErasedAfterDisconnect
CHECK_DEADLOCK FALSE
