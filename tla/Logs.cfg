SPECIFICATION FairSpec

CONSTANTS
    LenOf <- LenOfDef
    KeyOf <- KeyOfDef
    MaxBytes = 7
    Chunk = 3
    Backlog = 1
    TailLines = 2
    MaxEntries = 2
    Burst = 1
    MaxTails = 1
    MaxMoves = 2
    Torn = Torn

CHECK_DEADLOCK FALSE

INVARIANTS
    TailIsLastLines
    FollowersInOrder
    SeenIsShown

PROPERTIES
    LinesArrive
