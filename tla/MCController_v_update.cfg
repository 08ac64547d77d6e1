SPECIFICATION Spec
CONSTANTS
  p1 = p1
  p2 = p2
  c1 = c1
  c2 = c2
  c3 = c3
  n1 = n1
  n2 = n2
  b1 = b1
  b2 = b2
  b3 = b3
  Self = Self
  None = None
  Hole = Hole
  Conn = {c1}
  Peer = {p1}
  PeerOf <- OnePeer
  Name = {n1}
  Rank <- Ranks
  Block = {b1, b2, b3}
  Content <- Updated
  Offer <- OfferAll
  MaxRequested = 2
  WriteRequests = 1
  RequestPool = 2
  Faults = {}
INVARIANT ModelMatchesDisk
CHECK_DEADLOCK FALSE
