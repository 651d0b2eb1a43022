\* Delivery with two deliverers and three claims of an attempt; and a schedule with
\* one deliverer, whose recipient, reference, expiry date and draft change.  In each
\* of them the Project is archived and restored at any time.
SPECIFICATION EitherSpec
CONSTANTS
  d0 = d0
  d1 = d1
  d2 = d2
  c0 = c0
  c1 = c1
  c2 = c2
  Deliverers = {d0, d1, d2}
  Contexts = {c0, c1, c2}
  ClosedReference = ClosedReference
  None = None
  MaxAttempts = 2
  Lease = 1
  PreviewLifetime = 1
  Intervals = {1}
  Expiries = {2}
  PollLag = 1
  MaxClock = 3
  MaxClaims = 3
  MaxDraftVersion = 3
SYMMETRY Symmetric
INVARIANTS
  TypeOK
  SingleFlight
  OneResultPerClaim
  NoUnacknowledgedDuplicate
  CadenceMatchesProject
  NoSilentStop
PROPERTIES
  ImplementsDelivery
  ManualPingWasReviewed
CHECK_DEADLOCK FALSE
