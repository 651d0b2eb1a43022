\* One attempt of a ping with two deliverers that may die; one replica that
\* crashes, restarts and finds its own lease again, with two messages on two
\* pages, failing reads and a rebuild (no symmetry: these are liveness properties).
SPECIFICATION AllFairSpec
CONSTANTS
  None = None
  ClosedReference = ClosedReference
  d1 = d1
  d2 = d2
  c1 = c1
  p1 = p1
PROPERTIES
  EveryPingIsResolved
  MailIsEventuallyRetained
CHECK_DEADLOCK FALSE
