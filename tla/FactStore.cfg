SPECIFICATION Spec
CONSTANTS
  b1 = b1
  b2 = b2
  Builders = {b1, b2}
  MaxFiles = 1
  GraceGenerations = 2
  MaxSegments = 2
  MaxGeneration = 3
  MaxFaults = 1
INVARIANTS
  QuotaHolds
  
PROPERTIES
  LiveNeverSwept
  WritesResume
