SPECIFICATION FairSpec
CONSTANTS
  Sessions   = {s1, s2}
  Pingers    = {p1}
  NoSession  = NoSession
  MaxVersion = 2
  MaxEvents  = 3
INVARIANTS
  NoDanglingSession
  OneWriteAtATime
  ClientIsCurrent
PROPERTIES
  ImplementsChannel
  SessionsAreFreed
