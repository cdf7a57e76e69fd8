SPECIFICATION LiveSpec
CONSTANTS
  c1 = c1
  c2 = c2
  c3 = c3
  c4 = c4
  NoClient = NoClient
  Clients = {c1, c2, c3}
  IpOf <- MCIpOf3
  MaxConcurrent = 2
  BlockDup = FALSE
  MaxErrors = 1
PROPERTIES
  EveryClientAnswered
  SlotFreed
CHECK_DEADLOCK FALSE
