SPECIFICATION FairSpec
CONSTANTS
  StartTime    = 2
  Speeds       = {1, 2}
  MaxPauses    = 1
  NoTime       = NoTime
  Daqs         <- EnergyOnly
  Data         <- MCShortData
  Day          = 2
  KpiStart     = 1
  FirstWeekday = 6
  Pings        = {p1}
  MaxTime      = 4
  MaxRuns      = 2
  MaxFailures  = 1
INVARIANTS
  DatabaseMirrorsPast
  KpisInOrder
  CrashNeedsOverlap
  KpiKeepsUp
PROPERTIES
  DueKpiIsComputed
