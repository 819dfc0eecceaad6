SPECIFICATION FairSpec
CONSTANTS
    s1 = s1
    s2 = s2
    e1 = e1
    e2 = e2
    e3 = e3
    t1 = t1
    t2 = t2
    f1 = f1
    Session = {s1}
    Event = {e1, e3}
    SidOf <- MCSidOf
    Thread = {t1, t2}
    Flusher = {f1}
    Absent = Absent
    NoEvent = NoEvent
    SHUTDOWN = SHUTDOWN
    RingSize = 1
    BatchMax = 2
    Births = {"initializing"}
    Marks = {}
    LockTimeouts = FALSE
    Stops = TRUE
    MaxRestarts = 1
CHECK_DEADLOCK FALSE

INVARIANTS
    TypeOK
    ShutdownKeepsEarlier
    FlushCommits

PROPERTIES
    LogSpec
    WriterCatchesUp
