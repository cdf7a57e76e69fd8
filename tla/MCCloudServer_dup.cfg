SPECIFICATION Spec
CONSTANTS
  c1 = c1
  c2 = c2
  c3 = c3
  c4 = c4
  NoClient = NoClient
  Clients = {c1, c2, c3, c4}
  IpOf <- MCIpOf
  MaxConcurrent = 2
  BlockDup = TRUE
  MaxErrors = 0
INVARIANTS
  TypeOK
  NoLeakedSlot
  SocketOfOwnInstanceOnly
PROPERTY
  ImplementsLimiter
CHECK_DEADLOCK FALSE
