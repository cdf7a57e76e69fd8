SPECIFICATION LiveSpec
CONSTANTS
  a = a
  enter = enter
  other = other
  Keys = {a, enter, other}
  ButtonOrder <- MCButtonOrder
  ButtonOf <- MCButtonOf
  NoButton = "none"
  MaxKeys = 4
INVARIANTS
  KeysPlayedInOrder
  ReadsAreLatched
PROPERTIES
  HangUpEnds
CHECK_DEADLOCK FALSE
