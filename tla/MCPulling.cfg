SPECIFICATION AllSpec
CONSTANTS
  p1 = p1
  p2 = p2
  c1 = c1
  c2 = c2
  c3 = c3
  n1 = n1
  n2 = n2
  b1 = b1
  b2 = b2
  b3 = b3
  Self = Self
  None = None
  Hole = Hole
  prod1 = prod1
  prod2 = prod2
  Producers = {prod1, prod2}
  MaxMessages = 2
INVARIANT Accounts
 
INVARIANT NoLostWakeup
PROPERTY EachPulled
PROPERTY Taken
CHECK_DEADLOCK FALSE
