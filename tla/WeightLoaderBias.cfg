CONSTANTS
  Configs <- BiasModel
  Layouts <- OneFile
  NumFiles = 1
  EnvParallelism = 0
  HwThreads = 48
  MemoryShards = 0
SPECIFICATION Spec
INVARIANT BiasGoesWithWeight
CHECK_DEADLOCK FALSE
