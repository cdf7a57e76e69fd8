CONSTANTS
  PrgBanks = 8
  Header = "Vertical"
  Values = {0, 3, 65, 134}
  Latches = {0, 2}
SPECIFICATION Spec
\* A panic of the emulator ends it.
CHECK_DEADLOCK FALSE
INVARIANT MirroringAsAsked
