SPECIFICATION Spec
CONSTANTS
  r1 = r1
  r2 = r2
  r3 = r3
  r4 = r4
  a = a
  b = b
  c = c
  d = d
  eos = eos
  Uids = {r1, r2, r3}
  Tokens = {a, b, c, d, eos}
  EOS = eos
  Sampled = {d}
  NumPages = 7
  MaxSeqLen = 6
  MaxRunningReq = 2
  MaxExtendTokens = 4
  DecodeBurst = 0
  BurstPendingLimit = 0
  Overlap = FALSE
  MaxOutstanding = 3
  AbortAnyTime = FALSE
  Prompt <- NestedPrompt
  MaxNewTokens <- AllTwo
  IgnoreEos <- IgnoringEos
INVARIANT KVCoherent
