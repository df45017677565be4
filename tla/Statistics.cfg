SPECIFICATION FairSpec
CONSTANTS
  e1 = e1
  e2 = e2
  p1 = p1
  Daqs        = {"DaqEnergy", "DaqProduction"}
  Threads     <- MCThreads
  Source      <- MCSource
  Connections = {c1}
  Nothing     = Nothing
  MaxInserts  = 2
  MaxRows     <- MCMaxRows
  MaxCommands = 1
  MaxFailures = 1
INVARIANTS
  CountersAddUp
PROPERTIES
  AcquireReturns
