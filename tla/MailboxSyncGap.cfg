\* One replica and a rebuild, with exact clocks.  A message that arrives while a
\* refresh is reading, before that refresh takes the time of its success, is
\* skipped by the recovery that starts from this time.
SPECIFICATION Spec
CONSTANTS
  Replicas = {p1}
  None = None
  Lease = 1
  PageSize = 1
  Kinds = {"reply"}
  Identified = {TRUE}
  Skew = 0
  MaxMessages = 1
  MaxRebuilds = 1
  MaxClock = 1
INVARIANT NoMailIsSkipped
CHECK_DEADLOCK FALSE
