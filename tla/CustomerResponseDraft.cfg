\* One request whose form is opened twice: what the second form says is stored.
SPECIFICATION ResponseSpec
CONSTANTS
  Prompts = {p1}
  Answers = {a, b}
  None = None
  PreviewLife = 1
  RequestLife = 2
  MaxPreviews = 1
  MaxRetries = 2
  MaxForms = 2
  MaxEdits = 2
  MaxClock = 2
INVARIANT SubmittedFormIsStored
CHECK_DEADLOCK FALSE
