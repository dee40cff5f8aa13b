SPECIFICATION Spec
CONSTANTS
  Sources <- FiveSources
  Interval <- ShortIntervals
  Fast <- FastActivity
  OpenSources <- ServiceSources
  Tick = 3
  MaxAge = 4
  MaxCycle = 1
  Horizon = 8
INVARIANTS
  NotStarved
  Punctual
  NoSpin
  MissingIsRearmed
