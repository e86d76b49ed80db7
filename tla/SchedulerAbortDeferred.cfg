SPECIFICATION Spec
CONSTANTS
  r1 = r1
  r2 = r2
  r3 = r3
  r4 = r4
  a = a
  b = b
  c = c
  d = d
  eos = eos
  Uids = {r1, r2, r3}
  Tokens = {a, b, c, d, eos}
  EOS = eos
  Sampled = {d}
  NumPages = 6
  MaxSeqLen = 6
  MaxRunningReq = 2
  MaxExtendTokens = 1
  DecodeBurst = 0
  BurstPendingLimit = 0
  Overlap = TRUE
  MaxOutstanding = 3
  AbortAnyTime = TRUE
  Prompt <- SharedPrompt
  MaxNewTokens <- AllTwo
  IgnoreEos <- IgnoringEos
INVARIANT CacheIntegrity
