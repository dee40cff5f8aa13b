SPECIFICATION Spec
CONSTANTS
  Files <- SixFiles
  Cap = 3
  FaultKinds <- NoFaults
  TornHeaders = FALSE
  MaxWindows = 3
  MaxFaults = 0
  MaxCrashes = 2
INVARIANTS
  RestartLosesNothing
