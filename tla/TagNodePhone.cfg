SPECIFICATION FairSpec
CONSTANTS
    ClientModes = {0, 1}
    AccelModes = {}
    Capacity = 4
    MaxSdEvents = 1
    MaxRefs = 1
    MaxMessages = 2
    LossLimit = 2
    Byte = 5
INVARIANTS
    SynchronizedByMessage
    TickForRanging
PROPERTIES
    SyncKept
    SessionGoes
CHECK_DEADLOCK FALSE
