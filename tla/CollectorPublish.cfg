SPECIFICATION Spec
CONSTANTS
  Files <- SixFiles
  Cap = 2
  FaultKinds <- PublishFault
  TornHeaders = FALSE
  MaxWindows = 3
  MaxFaults = 1
  MaxCrashes = 0
PROPERTIES
  NoAppendAfterPublish
