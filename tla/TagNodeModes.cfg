SPECIFICATION Spec
CONSTANTS
    ClientModes = {0, 1, 2}
    AccelModes = {}
    Capacity = 3
    MaxSdEvents = 1
    MaxRefs = 1
    MaxMessages = 1
    LossLimit = 0
    Byte = 2
INVARIANT HardwareFree
CHECK_DEADLOCK FALSE
