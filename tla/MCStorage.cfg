SPECIFICATION Spec
CONSTANTS
    self = self
    p1 = p1
    p2 = p2
    f1 = f1
    b1 = b1
    b2 = b2
    dA = dA
    dB = dB
INVARIANT StoreSound
 
INVARIANT OrderSound
INVARIANT Spreads
SYMMETRY Symmetry
CHECK_DEADLOCK FALSE
