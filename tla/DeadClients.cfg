SPECIFICATION Spec
CONSTANTS
    Transports = {"near", "far"}
    Connections = {c1}
    Near = {c1}
    Far = {}
    Ids = {i1, i2}
    Host = host
    None = none
    Via <- MCVia
    Forwarding = {}
    kClientTimeoutCount = 2
    Foreign = {}
    Senders = {}
    MaxQueue = 2
    MayStop = FALSE
    Reuse = FALSE
PROPERTIES
    DeadClientIsRemoved
CHECK_DEADLOCK FALSE
