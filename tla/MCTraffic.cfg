SPECIFICATION AllSpec
CONSTANTS
    p1 = p1
    p2 = p2
    p3 = p3
    r1 = r1
    none = none
    Kinds = {"tcp", "ssl"}
    MaxStarts = 6
INVARIANT Cancels
INVARIANT Delivered
 
INVARIANT RequestsKept
 
INVARIANT IdsRight
PROPERTY Independent
CHECK_DEADLOCK FALSE
