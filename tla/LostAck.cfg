SPECIFICATION ReliableSpec
CONSTANTS
    Client = c
    Server = {s1}
    NoSession = none
    kDefaultWindowSize = 8
    kMaxRetransmits = 5
    kFastRetransmitThreshold = 3
    kMaxUnacknowledgedThreshold = 5
    MaxSends <- MCMaxSends
    ClientSends = 0
    ServerSends = 0
    Readers = {c, s1}
    Rooms = {3}
    MaxLosses = 1
    MaxDuplicates = 0
    MaxAckCount = 7
    Disruptions = {}
    Patient = TRUE
PROPERTIES
    LostAckIsHandled
CHECK_DEADLOCK FALSE
