\* streams of both kinds; no answer throws and no request is dropped
CONSTANTS
  Uids = {1, 2}
  Kind <- Streams
  Limit <- TwoEach
  Valid <- AllValid
  EncodeThreads = 2
  LateThrow = {}
SPECIFICATION FairSpec
PROPERTY Answered
PROPERTY Stops
\* a stopped server stops
CHECK_DEADLOCK FALSE
