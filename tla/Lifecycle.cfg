SPECIFICATION FairSpec
CONSTANTS
    s1 = s1
    s2 = s2
    h1 = h1
    h2 = h2
    Session = {s1, s2}
    Handler = {h1, h2}
    Absent = Absent
    NoSession = NoSession
CHECK_DEADLOCK FALSE

INVARIANTS
    NativeIsReachable
    OneLadder

PROPERTIES
    NoRevival
    StopKills
