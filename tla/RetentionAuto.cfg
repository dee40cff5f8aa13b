SPECIFICATION Spec
CONSTANTS
  Targets <- AutoOnly
  PgmBytes = 2
  OvfBytes = 1
  MaxSegments = 4
  MaxJournal = 2
  MaxForeign = 1
  MaxFaults = 0
  MaxSweeps = 0
PROPERTIES
  ForeignDropNeverDeletesMore
