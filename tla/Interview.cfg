\* The components of an interview, one after the other: a page that is opened
\* twice and edited three times; two versions of a summary with two deliverers;
\* two versions of the bank with three questions; two specifications; the page of
\* one ping, with two states on their way to it.
SPECIFICATION AllSpec
CONSTANTS
  q1 = q1
  adhoc = adhoc
  a = a
  d1 = d1
  d2 = d2
  r1 = r1
  template1 = template1
  block = block
  x = x
  y = y
  Questions = {q1}
  AdHoc = adhoc
  RoundAnswers = {a}
  None = None
  MaxRounds = 1
  TextQuestions = {q1}
  MaxEdits = 3
  MaxPages = 2
  Deliverers = {d1, d2}
  Readers = {r1}
  Lease = 1
  MaxVersions = 2
  MaxClaims = 2
  MaxContent = 2
  MaxClock = 2
  Keys = {k1, k2, k3}
  SeedKeys = {k1, k2}
  Files = {file}
  Templates = {template1}
  MaxBankVersions = 2
  MaxPublished = 1
  MaxSchemas = 1
  MaxAttempts = 1
  MaxPingClaims = 1
  MaxDraftVersion = 2
  MaxLoads = 2
  MaxRequests = 1
  MaxElsewhere = 1
  JsonValues <- DocumentValues
  Text <- NameText
  Snapshots <- Documents
  Blocks = {block}
  SpecificationTemplates = {template1}
  Default = template1
  MaxTemplateVersions = 2
  MaxRevisions = 2
SYMMETRY Symmetric
INVARIANTS
  AllTypesOK
  SettledDraftIsPersisted
  PartialKeepsItsAnswer
  OnlyTheLatestIsActive
  InterviewMatchesHandoff
  NoUnacknowledgedDuplicate
  EveryClaimIsRecorded
  BankOrdersAreContiguous
  SchemaCitesWhatItHolds
  SummaryNamesThePlace
  SendingIsWatched
PROPERTIES
  EndedRoundsStayAsTheyAre
CHECK_DEADLOCK FALSE
