SPECIFICATION FirmwareSpec
CONSTANTS
    MaxRefused = 2
    RxCancels = TRUE
    Requests = {"sec", "attr", "timeout"}
    MaxEvents = 3
    Capacity = 5
    MaxLength = 3
    MaxReceptions = 3
CHECK_DEADLOCK FALSE
INVARIANTS DriverServes LinkKept ChecksumMeans StampsOfFour
PROPERTIES OnlyErrorsAbort ComesBack
