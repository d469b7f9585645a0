SPECIFICATION FairSpec
CONSTANTS
    Count = 2
    MaxPid = 4
    Windows = TRUE
PROPERTIES
    DetectedIsRestarted
CHECK_DEADLOCK FALSE
