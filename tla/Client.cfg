SPECIFICATION FairSpec

CONSTANTS
    s1 = s1
    s2 = s2
    Session = {s1, s2}
    Event = {1, 2, 3, 4}
    SidOf <- SidOfDef
    TsOf <- TsOfDef
    History <- HistoryDef
    Null = Null
    MaxEvents = 2
    SeenCap = 2
    BackfillMax = 2
    RingSize = 2
    MaxEffects = 2
    MaxCloses = 1

CHECK_DEADLOCK FALSE

INVARIANTS
    OneSocket
    GivenIsAddedOnce
    ListEndsWithLatest

PROPERTIES
    Reconnects
