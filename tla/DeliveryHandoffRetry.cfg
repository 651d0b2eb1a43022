\* Two Owners who retry the same handoff.
SPECIFICATION DeliverySpec
CONSTANTS
  PackageOwners = {o1, o2}
  Items = {x}
  None = None
  Branches = {main}
  MaxSaves = 3
  MaxHandoffs = 1
  MaxCommits = 2
PROPERTY SentStaysSent
CHECK_DEADLOCK FALSE
