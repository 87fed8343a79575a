SPECIFICATION Spec
CONSTANTS
    Callers = {t1}
    Clients <- MCClients
    KindOf <- MCKindOf
    Kinds = {"Driver", "Tool"}
    MaxPongs = 4
    MaxCalls = 2
INVARIANTS
    WokenFindsClient
    EventTracksQueue
    ReportsMatch
PROPERTIES
    MatchingClientIsReported
CHECK_DEADLOCK FALSE
