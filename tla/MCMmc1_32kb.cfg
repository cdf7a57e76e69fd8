CONSTANTS
  Values = {2, 13, 24, 31}
  PrgBanks = 16
SPECIFICATION Spec
INVARIANT Switches32Kb
