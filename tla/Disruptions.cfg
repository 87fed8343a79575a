SPECIFICATION Spec
CONSTANTS
    Client = c
    Server = {s1, s2}
    NoSession = none
    kDefaultWindowSize = 2
    kMaxRetransmits = 0
    kFastRetransmitThreshold = 1
    kMaxUnacknowledgedThreshold = 2
    MaxSends <- MCMaxSends
    ClientSends = 0
    ServerSends = 0
    Readers = {}
    Rooms = {2}
    MaxLosses = 0
    MaxDuplicates = 1
    MaxAckCount = 1
    Disruptions = {"reject", "unregister"}
    Patient = TRUE
INVARIANTS
    CallbacksHaveServer
    KeysAreIds
PROPERTIES
    ImplementsPairedStreams
SYMMETRY ServerSymmetry
CHECK_DEADLOCK FALSE
