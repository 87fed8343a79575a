SPECIFICATION Spec
CONSTANTS
    Clients = {c1, c2}
    Blocks = {b1}
    Ids = {i1}
    None = none
    kInvalidBlockId = invalid
    Chunk = 2
    Window = 1
    Width = 4
    LocalSizes = {3}
    PushSizes = {2}
    Pushers = {c1}
    Pullers = {c1, c2}
    MaxRequests = 1
    MaxData = 3
    Refactored = TRUE
    Aborts = TRUE
    Overruns = TRUE
    TimeOuts = TRUE
    AnyId = FALSE
INVARIANTS
    PendingIsExact
    PulledIsBlock
PROPERTIES
    PushedIsStored
    CallsReturn
    TransfersComplete
CHECK_DEADLOCK FALSE
