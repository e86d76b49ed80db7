\* characters are split after a space or a Chinese character only
CONSTANTS
  Uids = {1, 2}
  Replies <- SplitAfterBreak
SPECIFICATION Spec
INVARIANT TypeOK
INVARIANT IncrementsAddUp
INVARIANT NoBatchLost
INVARIANT EntriesLive
\* every reply comes to its end
CHECK_DEADLOCK FALSE
