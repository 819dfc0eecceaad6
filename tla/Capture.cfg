SPECIFICATION FairSpec

CONSTANTS
    Pid = {root, child, other}
    Root = root
    Handle = {h}
    Object = {f, g}
    Path = {p, q}
    MaxPids = 2
    CacheCap = 1
    Closed = Closed
    Fallback = Fallback
    MaxOps = 3
    MaxUses = 2
    PipeCap = 2
    MaxStarts = 2
    MaxStats = 1

CHECK_DEADLOCK FALSE

INVARIANTS
    FilterFollowsKin
    NamedPathIsRight
    SessionsHaveOwners

PROPERTIES
    NativeEnds
    WrittenIsGiven
