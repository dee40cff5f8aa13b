SPECIFICATION Spec
CONSTANTS
  Targets <- BudgetAndAuto
  PgmBytes = 2
  OvfBytes = 1
  MaxSegments = 3
  MaxJournal = 3
  MaxForeign = 1
  MaxFaults = 1
  MaxSweeps = 1
INVARIANTS
  HistoryIsRecent
PROPERTIES
  
  BudgetIsMet
