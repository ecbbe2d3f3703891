SPECIFICATION FairSpec
CONSTANTS
    N = 2
    SLOT = 2
    PREFIX = 1
    SYNC = 0
    DISCOVERY = 1
    IDS = 3
    WIDTH = 64
    Founders = {0}
    Crashable = {}
    Unreliable = {}
    Orderly = FALSE
PROPERTY JoinAligns
