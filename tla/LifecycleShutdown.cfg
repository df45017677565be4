SPECIFICATION Spec
CONSTANTS
  CommandLines = {"plain"}
  IoThreads    = {i1}
  Pings        = {p1}
  Clients      = {c1}
  MaxErrors    = 1
INVARIANTS
  CleanShutdown
