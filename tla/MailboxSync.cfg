\* Two replicas, messages on pages of one, and a rebuild: two messages of a mail
\* server whose clock is one tick off, or of two kinds, or three on exact clocks.
SPECIFICATION EitherSpec
CONSTANTS
  p1 = p1
  p2 = p2
  Replicas = {p1, p2}
  None = None
  Lease = 1
  PageSize = 1
  Kinds = {"reply", "report"}
  Identified = {TRUE}
  Skew = 1
  MaxMessages = 3
  MaxRebuilds = 1
  MaxClock = 2
SYMMETRY Symmetric
INVARIANTS TypeOK SkippedOnlyBeforeCutoff HistoryIsNotImported EachReplyCountsOnce
PROPERTY CheckpointNeverRewinds
CHECK_DEADLOCK FALSE
