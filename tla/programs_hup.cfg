CONSTANTS
    MaxPid = 3
    Settings <- HupSettings
SPECIFICATION FairSpec
PROPERTIES HupShutsDown
CHECK_DEADLOCK FALSE
