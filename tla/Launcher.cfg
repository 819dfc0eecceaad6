SPECIFICATION Spec
CONSTANTS
    CrashRestartCap = 1
    ReadyTries = 1
    MaxStarts = 3
    MaxClicks = 3
CHECK_DEADLOCK FALSE

INVARIANTS
    NoOrphanBackend
    StartOnlyWhileDown
    ButtonsComeBack
    StartSettles
