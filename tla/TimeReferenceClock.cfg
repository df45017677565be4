SPECIFICATION FairSpec
CONSTANTS
  Sessions  = {s1, s2}
  Operators = {s1}
  Workers   = {w1, w2}
  NoThread  = NoThread
  NoTime    = NoTime
  StartTime = 1
  Speeds    = {1, 2}
  MaxTime   = 3
  MaxPauses = 2
INVARIANTS
  PauseTakesHold
  DisplayIsCurrent
PROPERTIES
  CommandsReturn
  ImplementsSimClock
