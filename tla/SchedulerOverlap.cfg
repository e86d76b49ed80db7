SPECIFICATION FairSpec
CONSTANTS
  r1 = r1
  r2 = r2
  r3 = r3
  r4 = r4
  a = a
  b = b
  c = c
  d = d
  eos = eos
  Uids = {r1, r2, r3}
  Tokens = {a, b, c, d, eos}
  EOS = eos
  Sampled = {d, eos}
  NumPages = 7
  MaxSeqLen = 6
  MaxRunningReq = 2
  MaxExtendTokens = 2
  DecodeBurst = 1
  BurstPendingLimit = 0
  Overlap = TRUE
  MaxOutstanding = 3
  AbortAnyTime = FALSE
  Prompt <- DistinctPrompt
  MaxNewTokens <- Mixed
  IgnoreEos <- IgnoringEos
INVARIANT TypeOK
INVARIANT SlotsExclusive
INVARIANT PageOwnedOnce
INVARIANT KVCoherent
INVARIANT HostMirrorsDevice
INVARIANT AllocationPossible
 
INVARIANT ReplyShape
INVARIANT IdleClean
PROPERTY ImplementsGeneration
PROPERTY Served
