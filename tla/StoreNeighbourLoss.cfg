SPECIFICATION FairSpec
CONSTANTS
    s1 = s1
    s2 = s2
    e1 = e1
    e2 = e2
    e3 = e3
    t1 = t1
    t2 = t2
    f1 = f1
    Session <- MCSession
    Event = {e1, e2}
    SidOf <- MCSidOf
    Thread = {t1, t2}
    Flusher = {}
    Absent = Absent
    NoEvent = NoEvent
    SHUTDOWN = SHUTDOWN
    RingSize = 1
    BatchMax = 2
    Births = {"initializing"}
    Marks = {"stopped"}
    LockTimeouts = FALSE
    Stops = FALSE
    MaxRestarts = 0
PROPERTIES
    LostOnlyIfPurged
