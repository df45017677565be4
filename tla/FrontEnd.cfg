SPECIFICATION FairSpec
CONSTANTS
  Pings      = {a, b}
  MaxRuns    = 3
  MaxPings   = 3
  MaxEvents  = 2
INVARIANTS
  ChartIsOneRun
  ChartIsComplete
PROPERTY Reconnects
