SPECIFICATION Spec
CONSTANTS
  f1 = f1
  f2 = f2
  NoFlattener = NoFlattener
  Flatteners = {f1, f2}
  MaxTarget = 2
  MaxUser = 4
  MaxMoves = 4
  ShareFaults = {"part_netted"}
INVARIANTS
  BookIsShare
