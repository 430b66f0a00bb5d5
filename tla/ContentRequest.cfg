SPECIFICATION RequestSpec
CONSTANTS
    Requesters = {"run"}
    Openers = {"toolbar", "follow"}
    MaxDocs = 4
    MaxRequests = 3
INVARIANTS
    PerformedOnce LostToNavigation
PROPERTIES
    RequestEnds
CHECK_DEADLOCK FALSE
