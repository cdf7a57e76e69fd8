SPECIFICATION LiveSpec
CONSTANTS
  MaxBytes = 4
  TxLimit = 3
  SendBuffer = 2
INVARIANTS
  TypeOK
  TxLimitRespected
  AllInputPlayed
PROPERTIES
  SilentPlayerDropped
  EndsWhenPeerLeaves
CHECK_DEADLOCK FALSE
