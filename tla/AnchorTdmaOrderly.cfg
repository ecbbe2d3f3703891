SPECIFICATION FairSpec
CONSTANTS
    N = 3
    SLOT = 2
    PREFIX = 1
    SYNC = 0
    DISCOVERY = 1
    IDS = 3
    WIDTH = 64
    Founders = {0}
    Crashable = {1, 2}
    Unreliable = {0}
    Orderly = TRUE
INVARIANTS SuperframeIdAgreed
PROPERTY JoinAligns KeepsSchedule EveryAnchorHeard
