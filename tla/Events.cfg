SPECIFICATION Spec
CONSTANTS
    Providers = {p1}
    Sessions = {s1, s2}
    Writers = {w1}
    None = none
    Capacity = 2
    ChunkSize = 2
    Sizes = {2}
    Window = 1
    MaxEvents = 2
    MaxUpdates = 1
    BeyondRisk = FALSE
INVARIANTS
    WriterFindsSession
    StreamIsPrefix
    SessionHasOnePlace
PROPERTY EventsArrive
CHECK_DEADLOCK FALSE
