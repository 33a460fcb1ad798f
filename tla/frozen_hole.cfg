SPECIFICATION CacheSpec
CONSTANTS
  Callers = {1, 2}
  LastHalf = 5
  MaxCalls = 2
  CacheFaults = {}
INVARIANTS
  NoFrozenHole
