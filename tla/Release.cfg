SPECIFICATION LiveSpec
CONSTANTS
    Client = c
    Server = {s1}
    NoSession = none
    kDefaultWindowSize = 2
    kMaxRetransmits = 0
    kFastRetransmitThreshold = 1
    kMaxUnacknowledgedThreshold = 2
    MaxSends <- MCMaxSends
    ClientSends = 1
    ServerSends = 0
    Readers = {c, s1}
    Rooms = {2}
    MaxLosses = 0
    MaxDuplicates = 0
    MaxAckCount = 1
    Disruptions = {"disconnect"}
    Patient = FALSE
PROPERTIES
    ReleasedSessionCloses
CHECK_DEADLOCK FALSE
