SPECIFICATION FairSpec
CONSTANTS
  Configs <- Jobs
  Scores = {0, 1}
  MaxPrefetch = 1
  MaxStarts = 3
INVARIANTS
  TypeOK
  LineageExact
  Recoverable
  BestIsBest
PROPERTIES
  TrainingEnds
CHECK_DEADLOCK FALSE
