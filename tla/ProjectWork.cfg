\* The components of a Project, one after the other.  The bounds of those that
\* the module extends are here: two messages, two correspondences and two
\* employees; one clarification request, previewed once; one follow-up with three
\* versions; two rows of Evidence, one Insight with three versions, one attachment and
\* one contact; three creations in flight; two phase changes; two pages that hand one
\* package over; three Projects in a queue of pages of one; two playbooks of three
\* items, one follow-up and three reviews that make a status, with one command while
\* it is read.
\* Those of ProjectStatus are in its INSTANCE.
SPECIFICATION AllSpec
CONSTANTS
  o1 = o1
  o2 = o2
  a = a
  b = b
  Messages = {m1, m2}
  Correspondences = {c1, c2}
  Employees = {o1, o2}
  Classifications = {accepted, other}
  Accepted = accepted
  None = None
  Prompts = {p1}
  Answers = {a, b}
  PreviewLife = 1
  RequestLife = 2
  MaxPreviews = 1
  MaxRetries = 2
  MaxForms = 1
  MaxEdits = 2
  MaxClock = 2
  Texts = {a, b}
  Resolved = {done}
  Snapshots = {s1}
  MaxFollowUps = 1
  MaxRowVersions = 3
  MaxCalls = 1
  Owners = {o1, o2}
  MaxAttachments = 1
  MaxEvidence = 2
  MaxInsights = 1
  MaxVersions = 3
  MaxContacts = 1
  Basics = {a, b}
  MaxVisits = 2
  MaxPosts = 3
  SettingsBasics = {a}
  Playbooks = {general}
  MaxIntents = 2
  MaxRequests = 2
  PackageOwners = {o1, o2}
  Items = {a}
  Branches = {main}
  MaxSaves = 3
  MaxHandoffs = 1
  MaxCommits = 1
  MaxVersion = 3
  Projects = {1, 2, 3}
  Name <- ProjectNames
  Foreign = {5}
  Searches = {a, None}
  Found <- ProjectsFound
  Dues = {2}
  Soon = 1
  PageSize = 1
  MaxNow = 2
  MaxChanges = 1
  MaxSearchEdits = 1
  MaxLoads = 2
  MaxEarlier = 2
  Questions <- PlaybookQuestions
  AdHoc = other
  RoundAnswers = {a}
  MaxRounds = 1
  Packaged = {"general", "migration"}
  General = "general"
  PolicyItems = {1, 2, 3}
  Business = {1}
  Ownership = {2}
  ForEstimate = {1, 2, 3}
  Blocking <- FirstQuestion
  Whole = 48
  Schemas <- SomeSchemas
  Reviews <- SomeReviews
  MaxTracked = 1
  MaxInterruptions = 1
SYMMETRY Symmetric
INVARIANTS
  AllTypesOK
  ClosedIsClassified
  UnreadIsCounted
  OneDecisionPerMessage
  EachPreviewOneRequest
  UnracedInsightsKeepEvidence
  EachCreationOneProject
  QuietPageShowsPhase
  SentIsOnTheBranch
  StatusAgreesWithQueue
  WalkSeesEachOnce
PROPERTIES
  ProcessedAsRead
  EditReplacesWhatItShowed
CHECK_DEADLOCK FALSE
