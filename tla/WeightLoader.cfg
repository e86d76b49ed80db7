CONSTANTS
  Configs <- Models
  Layouts <- Scattered
  NumFiles = 3
  EnvParallelism = 0
  HwThreads = 96
  MemoryShards = 5
SPECIFICATION Spec
INVARIANT TypeOK
INVARIANT RankHoldsItsShare
INVARIANT ReadersJoined
\* loading ends
CHECK_DEADLOCK FALSE
