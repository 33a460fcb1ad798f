SPECIFICATION ReplySpec
CONSTANTS
  MaxWords = 3
  ReplyFaults = {}
INVARIANTS
  StopIsTold
CHECK_DEADLOCK FALSE
