SPECIFICATION FairSpec
CONSTANTS
    e1 = e1
    e2 = e2
    c1 = c1
    c2 = c2
    Event = {e1, e2}
    Conn = {c1, c2}
    NoEvent = NoEvent
    Null = Null
    TsOf <- MCTsOf
    RingSize = 1
    SubQueueSize = 1
CHECK_DEADLOCK FALSE

INVARIANTS
    NoGap
    TailInOrder

PROPERTIES
    EventuallyDelivered
