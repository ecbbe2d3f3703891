SPECIFICATION Spec
CONSTANTS
    NetworkAnchors = 4
    MapAnchors = 8
    MaxDrops = 1
    MaxAir = 2
    MaxPosted = 2
CHECK_DEADLOCK FALSE
INVARIANT Processed
