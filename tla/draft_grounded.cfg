CONSTANTS
    None = None
    Bad = Bad
    Gaps = {g1, g2}
    Tabs = {t1, t2}
    Texts = {x}
    MaxSha = 2
    MaxDrafts = 2
    MaxCalls = 2
SPECIFICATION Spec
INVARIANT GroundedInReview
CHECK_DEADLOCK FALSE
