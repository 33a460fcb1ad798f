SPECIFICATION Spec
CONSTANTS
  Targets <- MixedTargets
  Faults <- NoFaults
  MaxDeaths = 0
  MaxGap = 2
INVARIANTS
  WithinTargets
