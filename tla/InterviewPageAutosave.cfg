\* One page and one question: a draft that is taken back while it is saved.
SPECIFICATION Spec
CONSTANTS
  Questions = {q1}
  AdHoc = adhoc
  RoundAnswers = {a, b}
  None = None
  MaxRounds = 1
  TextQuestions = {q1}
  MaxEdits = 3
  MaxPages = 1
INVARIANT SavedIsStored
CHECK_DEADLOCK FALSE
