SPECIFICATION FairSpec
CONSTANTS
    CrashRestartCap = 1
    ReadyTries = 1
    MaxStarts = 1
    MaxClicks = 2
PROPERTIES
    CrashIsNoticed
CHECK_DEADLOCK FALSE
