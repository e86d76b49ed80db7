CONSTANTS
  EnableCudaGraph = TRUE
  ConfiguredSizes = {2, 4}
  MaxGraphBatch = 3
  MaxSeqLen = 4
  CaptureMaxSeqLenSet = 2
  KvChunk = 2
  OverlapModes = {TRUE}
  MaxSteps = 2
  DecodeShapes <- Shapes
  Samplings = {"greedy", "temperature"}
  Layers = 3
  RingSize = 2
SPECIFICATION Spec
INVARIANT AllReadsOrdered
CHECK_DEADLOCK FALSE
