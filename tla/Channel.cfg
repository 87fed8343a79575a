SPECIFICATION Spec
CONSTANTS
    SessionIds = {a, b}
    MaxRegistrations = 2
    MaxSessions = 2
    Faults = {"locked_write", "establish"}
INVARIANTS
    TypeOK
    ChannelIsBound
    HolderDoesNotWait
PROPERTIES
    DisconnectEndsSessions
    UnregisterReturns
CHECK_DEADLOCK FALSE
