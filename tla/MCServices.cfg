SPECIFICATION ServiceSpec
CONSTANTS
  Length = 2
  Height = 2
  Width = 2
  Coordinates <- MCCoordinates
  Timeout = 2
  MaxPieces = 4
  Registrants = {"r1", "r2", "r3"}
  NameOf <- MCNameOf
  Nobody = "nobody"
  MaxFailures = 1
  OtherMarks = {"T"}
  MaxAstray = 2
  MaxDialogs = 2
INVARIANTS
  ServiceTypeOK
  MazeIsPerfect
  ComputerNeverLoses
  RefusedOnlyWithCause
  NamePromisedOnce
PROPERTY
  IdlePlayerDropped
\* A session, a game and a registration end.
CHECK_DEADLOCK FALSE
