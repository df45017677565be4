SPECIFICATION Spec
CONSTANTS
  Sessions  = {s1, s2, s3}
  Operators = {s1, s2, s3}
  Workers   = {w1, w2}
  NoThread  = NoThread
  NoTime    = NoTime
  StartTime = 0
  Speeds    = {1}
  MaxTime   = 1
  MaxPauses = 0
SYMMETRY Symmetry
INVARIANTS
  TypeOK
  TerminateNeedsTwoStarts
  OneWorker
  StatusTellsTheTruth
