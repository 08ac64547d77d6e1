SPECIFICATION Spec
CONSTANTS
  p1 = p1
  p2 = p2
  c1 = c1
  c2 = c2
  c3 = c3
  n1 = n1
  n2 = n2
  b1 = b1
  b2 = b2
  b3 = b3
  Self = Self
  None = None
  Hole = Hole
  Conn = {c1, c2}
  Peer = {p1, p2}
  PeerOf <- TwoPeers
  Name = {n1}
  Rank <- Ranks
  Block = {b1, b2, b3}
  Content <- Revised
  Offer <- OfferSome
  MaxRequested = 2
  WriteRequests = 1
  RequestPool = 2
  Faults = {"peer_down", "shutdown", "response_error", "bad_data", "io_error", "fs_silent"}
INVARIANT TypeOK
 
INVARIANT PathExclusion
INVARIANT BlockTable
INVARIANT FetchAccounting
CHECK_DEADLOCK FALSE
