CONSTANTS
  PrgBanks = 8
  Header = "Vertical"
  Values = {0, 3, 65, 134}
  Latches = {0, 2}
  SerialValues = {2, 13, 24, 31}
  Games <- MCGames
  PpuAddresses <- MCPpuAddresses
  OamCells = {0, 255}
  MaxWalk = 2
  MaxCells = 2
SPECIFICATION BoardSpec
\* A panic of the emulator ends it.
CHECK_DEADLOCK FALSE
INVARIANTS BoardTypeOK PairsAreTwoKb MemoryIsFlat
  SecondReadIsFirstCell PanicsAreKnown
PROPERTIES IrqAfterWholeCount SerialWritesWhole
