SPECIFICATION Spec
CONSTANTS
    Clients = {c1}
    Services = {s1, s2}
    None = none
    NumBlocks = 4
    MaxRequests = 2
    Window = 1
    Posts = {"none", "inline", "block"}
    TimeOuts = TRUE
    PushFails = TRUE
INVARIANTS
    ReadsOwnResponse
    PostDataIsOwn
    UnregisteredIsQuiet
PROPERTIES
    RequestsReturn
CHECK_DEADLOCK FALSE
