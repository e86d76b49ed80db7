CONSTANTS
  EnableCudaGraph = TRUE
  ConfiguredSizes = {2, 4}
  MaxGraphBatch = 3
  MaxSeqLen = 4
  CaptureMaxSeqLenSet = 2
  KvChunk = 2
  OverlapModes = {TRUE, FALSE}
  MaxSteps = 3
  DecodeShapes <- Shapes
  Samplings = {"temperature"}
  Layers = 3
  RingSize = 2
SPECIFICATION FairSpec
INVARIANT TypeOK
INVARIANT ReadsAsMeant
INVARIANT RingIntact
INVARIANT ReplaysFit
PROPERTY EveryStepAnswered
\* the last step ends
CHECK_DEADLOCK FALSE
