SPECIFICATION FreshSpec
CONSTANTS
  StartTime    = 2
  Speeds       = {1}
  MaxPauses    = 0
  NoTime       = NoTime
  Daqs         <- Both
  Data         <- MCData
  Day          = 2
  KpiStart     = 1
  FirstWeekday = 6
  Pings        = {p1, p2}
  MaxTime      = 4
  MaxRuns      = 2
  MaxFailures  = 1
SYMMETRY Symmetry
INVARIANTS
  EveryRowOnce
  CalcIdIsMine
