SPECIFICATION Spec
CONSTANTS
    Tabs = {t1, t2}
    NoTabId = none
    Origins = {a, b}
    Opaque = "opaque"
    NoOrigin = "null"
    MaxEvents = 3
    MaxRestarts = 1
    MaxTasks = 1
INVARIANTS
    FollowsTheUser RunKeepsItsBounds
SYMMETRY Symmetry
CHECK_DEADLOCK FALSE
