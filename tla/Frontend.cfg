\* a request of each way of waiting, one with an answer that may throw
CONSTANTS
  Uids = {1, 2, 3}
  Kind <- EachWay
  Limit <- TwoThenOne
  Valid <- AllValid
  EncodeThreads = 2
  LateThrow = {2}
SPECIFICATION Spec
INVARIANT TypeOK
INVARIANT NoTokenLost
INVARIANT AnswersWhole
INVARIANT NoLostWakeup
INVARIANT NoContextLeft
\* a stopped server stops
CHECK_DEADLOCK FALSE
