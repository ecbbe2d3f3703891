SPECIFICATION Spec
CONSTANTS
    ClientModes = {0, 1, 3}
    AccelModes = {0, 2}
    Capacity = 3
    MaxSdEvents = 2
    MaxRefs = 2
    MaxMessages = 1
    LossLimit = 0
    Byte = 2
INVARIANTS
    TypeOK
    HardwareFree
    SwitchKept
    RtcRunsIffUsed
    ModeFollowsClient
CHECK_DEADLOCK FALSE
