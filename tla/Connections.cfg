SPECIFICATION ConnectionsFairSpec
CONSTANTS
    s1 = s1
    s2 = s2
    r1 = r1
    r2 = r2
    Session = {s1, s2}
    Request = {r1, r2}
    Nobody = Nobody
    Slow = {"retention"}

INVARIANTS
    WriteLockIsReturned
    DivergenceIsReported

PROPERTIES
    RequestsEnd
