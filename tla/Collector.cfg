SPECIFICATION Spec
CONSTANTS
  Files <- SixFiles
  Cap = 2
  FaultKinds <- AllFaults
  TornHeaders = TRUE
  MaxWindows = 3
  MaxFaults = 2
  MaxCrashes = 2
INVARIANTS
  NothingVanishes
  PositionCovered
  OneIdentity
  StateMatchesJournal
PROPERTIES
  ImplementsArchive
