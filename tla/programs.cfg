CONSTANTS
    MaxPid = 3
    Settings <- MCSettings
SPECIFICATION FairSpec
INVARIANTS TypeOK LauncherLeavesNobody ForkRate MissesAtMostHalf
PROPERTIES EndsWhenTold OrphansExit WorkersRestored
CHECK_DEADLOCK FALSE
