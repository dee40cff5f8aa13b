SPECIFICATION LiveSpec
CONSTANTS
  Files <- SixFiles
  Cap = 3
  FaultKinds <- RetriedFaults
  TornHeaders = FALSE
  MaxWindows = 3
  MaxFaults = 2
  MaxCrashes = 1
INVARIANTS
  RestartLosesNothing
PROPERTIES
  EventuallyPublished
  NoAppendAfterPublish
