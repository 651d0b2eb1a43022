\* A Project of another playbook than the general one.
SPECIFICATION PreparationSpec
CONSTANTS
  Questions <- PlaybookQuestions
  AdHoc = other
  RoundAnswers = {a}
  None = None
  MaxRounds = 1
  Packaged = {"general", "migration"}
  General = "general"
  PolicyItems = {1, 2, 3}
  Business = {1}
  Ownership = {2}
  ForEstimate = {1, 2, 3}
  Blocking <- FirstQuestion
  Whole = 48
  Schemas <- SomeSchemas
  Reviews <- SomeReviews
  MaxTracked = 1
  MaxInterruptions = 1
INVARIANT OnePreparationState
CHECK_DEADLOCK FALSE
