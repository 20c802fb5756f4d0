\* A map with an entity named game_playerspawn, saved and loaded.
SPECIFICATION Spec
CONSTANTS
  MaxPathNodes = 6
  MaxTransitions = 3
  MaxPending = 4
  MaxEvents = 3
  SentCap = 4
  Atlas <- Published
  MaxCarried = 2
  Maps <- SpawnMaps
  Spots = {0, 1, 2, 3}
  MaxInputs = 3
  MaxReloads = 1
INVARIANT SpawnFiresOnce
CHECK_DEADLOCK FALSE
