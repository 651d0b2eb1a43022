\* Two Owners: one removes Evidence that the other one links again.
SPECIFICATION EvidenceSpec
CONSTANTS
  Owners = {o1, o2}
  MaxAttachments = 1
  MaxEvidence = 2
  MaxInsights = 1
  MaxVersions = 2
  MaxContacts = 0
INVARIANT EachInsightHasEvidence
CHECK_DEADLOCK FALSE
