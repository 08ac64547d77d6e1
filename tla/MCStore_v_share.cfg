SPECIFICATION Spec
CONSTANTS
    p1 = p1
    p2 = p2
    f1 = f1
    b1 = b1
    b2 = b2
    Self = self
    Peers = {p1, p2}
    Folders = {f1}
    Names = {"n1"}
    ConflictOf <- ConflictName
    Blocks = {b1, b2}
    Indices = {1, 2}
    Kinds <- KindsTrusted
    Stored <- EitherStart
    MaxQueue = 2
    MaxSeq = 3
    MaxUpdates = 5
INVARIANT StoreLoads
CHECK_DEADLOCK FALSE
SYMMETRY Symmetry
