CONSTANTS
  p1 = p1
  p2 = p2
  s1 = s1
  s2 = s2
  NoId = NoId
  Parts = {p1, p2}
  SegIds = {s1, s2}
  PartLen <- MCEqualLen
  HeaderLen = 2
  FrameHeaderLen = 1
  MarkerLen = 2
  MaxLens = {6, 9}
  MaxParts = 2
  TornHeaders = TRUE
  DirtyReopen = TRUE
  MaxFaults = 3
  MaxCrashes = 2
  MaxGen = 4
SPECIFICATION Spec
INVARIANTS AInv AckedSurvives PhysicalCap RefsReadTheirPart
PROPERTIES PoisonedFrozen
CHECK_DEADLOCK FALSE
