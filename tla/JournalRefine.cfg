CONSTANTS
  p1 = p1
  p2 = p2
  s1 = s1
  s2 = s2
  NoId = NoId
  Parts = {p1, p2}
  SegIds = {s1, s2}
  PartLen <- MCPartLen
  HeaderLen = 2
  FrameHeaderLen = 1
  MarkerLen = 2
  MaxLens = {9}
  MaxParts = 2
  TornHeaders = FALSE
  DirtyReopen = FALSE
  MaxFaults = 1
  MaxCrashes = 2
  MaxGen = 4
SPECIFICATION FairSpec
INVARIANTS FailClosed NothingLost HealthyIsDurable
PROPERTIES ImplementsAtomicLog CommittedResetCompletes
CHECK_DEADLOCK FALSE
