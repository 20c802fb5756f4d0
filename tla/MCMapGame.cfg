\* Maps of doors, masters, teleports and trains, played, saved and loaded.
SPECIFICATION Spec
CONSTANTS
  MaxPathNodes = 6
  MaxTransitions = 3
  MaxPending = 3
  MaxEvents = 2
  SentCap = 4
  Atlas <- Published
  MaxCarried = 2
  Maps <- AllMaps
  Spots = {0, 1, 2, 3}
  MaxInputs = 3
  MaxReloads = 1
INVARIANTS
  LoadedGameAgrees
  OneShotsStaySpent
PROPERTIES
  MoversNeverJump
  ComesToRest
  TravellersArriveOnce
  ArrivalDoesNotBounce
CHECK_DEADLOCK FALSE
