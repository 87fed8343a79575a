SPECIFICATION Spec
CONSTANTS
    Transports = {"near", "far"}
    Connections = {c1, c2}
    Near = {c1}
    Far = {c2}
    Ids = {i1, i2, i3}
    Host = host
    None = none
    Via <- MCVia
    Forwarding = {"far"}
    kClientTimeoutCount = 0
    Foreign = {i3}
    Senders = {c2}
    MaxQueue = 1
    MayStop = TRUE
    Reuse = FALSE
INVARIANTS
    TablesAgree
PROPERTIES
    LiveClientIsKept
SYMMETRY IdSymmetry
CHECK_DEADLOCK FALSE
