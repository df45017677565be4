SPECIFICATION FairSpec
CONSTANTS
  CommandLines = {"log-level"}
  IoThreads    = {i1}
  Pings        = {p1}
  Clients      = {c1}
  MaxErrors    = 1
PROPERTIES
  LogLevelIsAccepted
