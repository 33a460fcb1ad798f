SPECIFICATION MCSpec
CONSTANTS
  Pids = {1, 2}
  MaxBacktests = 2
  MaxDeaths = 2
  MaxCommands = 3
  Codes = {1, 2}
  MaxRuns = 2
  MaxEdits = 2
  MaxTicks = 1
  MaxListenerDeaths = 1
  VersionsKeep = 2
  RestoreFaults = {}
  f1 = f1
  f2 = f2
  NoFlattener = NoFlattener
  Flatteners = {f1, f2}
  MaxTarget = 2
  MaxUser = 4
  MaxMoves = 4
  ShareFaults = {}
INVARIANTS
  RecordIsTrue
  PageIsCurrent
  
  BookIsShare
PROPERTIES
  JobSettles
  PanicGetsThrough
  RerunEnds
  OnlyItsOwn
  ExitsEnd
