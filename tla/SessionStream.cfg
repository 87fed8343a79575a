SPECIFICATION Spec
CONSTANTS
    Client = c
    Server = {s1}
    NoSession = none
    kDefaultWindowSize = 2
    kMaxRetransmits = 0
    kFastRetransmitThreshold = 1
    kMaxUnacknowledgedThreshold = 2
    MaxSends <- MCMaxSends
    ClientSends = 3
    ServerSends = 0
    Readers = {s1}
    Rooms = {0, 2}
    MaxLosses = 1
    MaxDuplicates = 1
    MaxAckCount = 1
    Disruptions = {}
    Patient = TRUE
INVARIANTS
    TypeOK
    SendWindowsConsistent
    ReceiveWindowsConsistent
    AcknowledgedIsStored
PROPERTIES
    ImplementsPairedStreams
    SafeToClose
CHECK_DEADLOCK FALSE
