SPECIFICATION Spec
CONSTANTS
  Targets <- FlatTargets
  Faults <- AllFaults
  MaxDeaths = 0
  MaxGap = 1
INVARIANTS
  RegisteredIsMarked
PROPERTIES
  EntryAfterVerdict
