SPECIFICATION ToolsFairSpec

CONSTANTS
    MaxPage = 2
    PerCall = 1
    MaxEvents = 3
    Ttl = 1
    TailLimit = 2
    Header = Header
    MaxRows = 3
    MaxClock = 3
    MaxFails = 1

CHECK_DEADLOCK FALSE

INVARIANTS
    WalkIsBounded
    CachedSummaryIsFresh
    TailMissesOnlyLate
    ExportIsOneMoment

PROPERTIES
    TailCatchesUp
