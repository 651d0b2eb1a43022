\* An overtaken claim that reports late.
SPECIFICATION Spec
CONSTANTS
  Deliverers = {d1, d2}
  Contexts = {c1}
  ClosedReference = ClosedReference
  None = None
  MaxAttempts = 1
  Lease = 1
  PreviewLifetime = 1
  Intervals = {1}
  Expiries = {}
  PollLag = 0
  MaxClock = 2
  MaxClaims = 2
  MaxDraftVersion = 2
INVARIANT FailedClaimWasNotAccepted
CHECK_DEADLOCK FALSE
