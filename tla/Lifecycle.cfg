SPECIFICATION MCSpec
CONSTANTS
  CommandLines = {"plain", "help", "malformed"}
  IoThreads    = {i1, i2}
  Pings        = {p1, p2}
  Clients      = {c1}
  MaxErrors    = 2
  Channels     = {"webserver", "Application"}
  Literals     = {"webserver"}
  Settings     = {"warning", "verbose"}
  MaxCommands  = 2
INVARIANTS
  CommandsFinish
  StoppedClockIsSafe
  
PROPERTIES
  SignalEnds
  ClientsAreServed
