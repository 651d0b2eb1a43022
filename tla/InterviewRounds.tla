--------------------------- MODULE InterviewRounds ---------------------------
(***************************************************************************)
(* The interview rounds of one Project (interviews.service.ts, with        *)
(* round-question-assessment.ts): a round freezes questions of the latest  *)
(* Project schema, its answers and its assessments are edited one by one,  *)
(* and it is ended once.                                                   *)
(*                                                                         *)
(* createRound and finishRound hold the project row for writing; an answer *)
(* or an assessment holds it for reading and then the round row, so every  *)
(* command is one action.                                                  *)
(***************************************************************************)
EXTENDS Naturals, Sequences, Null, ProjectRow

CONSTANTS
  Questions,      \* the questions of the bank
  AdHoc,          \* the ad-hoc question of a Clarification round
  RoundAnswers,        \* valid answers
  MaxRounds       \* bound: rounds of the Project

VARIABLES
  schema,         \* the questions of the latest Project schema
  rounds,         \* the interview_rounds rows with what belongs to them
  summary         \* the latest Customer summary of the Initial Intake

roundVars == <<archived, schema, rounds, summary>>

RoundTypes == {"INITIAL_INTAKE", "STAKEHOLDER", "CLARIFICATION"}
Overrides == {"none", "partial", "not-relevant"}
Asked == Questions \cup {AdHoc}
RoundIds == 1..Len(rounds)

RoundsInit ==
  /\ archived = FALSE
  /\ schema = {}
  /\ rounds = <<>>
  /\ summary = "none"

-----------------------------------------------------------------------------
(* Rounds.                                                                 *)

\* publishProjectSchema, which does not look at the rounds that exist.
PublishSchema(questions) ==
  /\ questions # {}
  /\ schema' = questions
  /\ UNCHANGED <<archived, rounds, summary>>

\* validateRoundInput, and the selection from the latest schema.
Asks(type, selected) ==
  /\ schema # {}
  /\ type = "INITIAL_INTAKE" => selected = schema
  /\ selected # {}
  /\ type # "CLARIFICATION" => AdHoc \notin selected
  /\ selected \ {AdHoc} \subseteq schema

\* findOpenRound, uq_interview_rounds_open_type.
HasOpen(type) == \E r \in RoundIds : rounds[r].open /\ rounds[r].type = type

\* The round that is created: its snapshots, none of them answered.
NewRound(type, selected) ==
  [type |-> type, open |-> TRUE, questions |-> selected,
   answer |-> [q \in Asked |-> None], override |-> [q \in Asked |-> "none"]]

CreateRound(type, selected) ==
  /\ ~archived
  /\ Len(rounds) < MaxRounds
  /\ Asks(type, selected)
  /\ ~HasOpen(type)
  /\ rounds' = Append(rounds, NewRound(type, selected))
  /\ UNCHANGED <<archived, schema, summary>>

\* Variant: every round may be edited until its Customer summary is sent.
EditableUntilSummary(r) == rounds[r].open \/ summary \in {"none", "draft"}

\* requireEditableRound: an ended Initial Intake only while its latest summary
\* is a draft or missing, an additional round never.
RoundIsEditable(r) ==
  \/ rounds[r].open
  \/ rounds[r].type = "INITIAL_INTAKE" /\ summary \in {"none", "draft"}

TakesEdits(r, q) ==
  /\ ~archived
  /\ r \in RoundIds /\ RoundIsEditable(r)
  /\ q \in rounds[r].questions

\* Variant: clearing an answer leaves the assessment alone.
ClearedAnswerOnly(round, q) == [round EXCEPT !.answer[q] = None]

\* updateAnswer with null: a partial assessment goes with its answer.
ClearedAnswer(round, q) ==
  [round EXCEPT !.answer[q] = None,
                !.override[q] = IF @ = "partial" /\ round.answer[q] # None
                                THEN "none" ELSE @]

\* updateAnswer.
UpdatedRound(round, q, value) ==
  IF value = None THEN ClearedAnswer(round, q) ELSE [round EXCEPT !.answer[q] = value]

UpdateAnswer(r, q, value) ==
  /\ TakesEdits(r, q)
  /\ rounds' = [rounds EXCEPT ![r] = UpdatedRound(@, q, value)]
  /\ UNCHANGED <<archived, schema, summary>>

\* normalizeAssessmentInput: what may be stored for the question.
Assessable(r, q, override) == override = "partial" => rounds[r].answer[q] # None

\* setAssessment.
SetAssessment(r, q, override) ==
  /\ TakesEdits(r, q)
  /\ override # "none"
  /\ Assessable(r, q, override)
  /\ rounds' = [rounds EXCEPT ![r].override[q] = override]
  /\ UNCHANGED <<archived, schema, summary>>

\* resetAssessment.
ResetAssessment(r, q) ==
  /\ TakesEdits(r, q)
  /\ rounds' = [rounds EXCEPT ![r].override[q] = "none"]
  /\ UNCHANGED <<archived, schema, summary>>

\* finishRound: idempotent, and the Initial Intake gets its first summary draft.
FinishRound(r) ==
  /\ ~archived
  /\ r \in RoundIds
  /\ rounds' = [rounds EXCEPT ![r].open = FALSE]
  /\ summary' = IF rounds[r].type = "INITIAL_INTAKE" /\ summary = "none"
                THEN "draft" ELSE summary
  /\ UNCHANGED <<archived, schema>>

\* effectiveAssessment of a question.
Status(round, q) ==
  IF round.override[q] # "none" THEN round.override[q]
  ELSE IF round.answer[q] # None THEN "complete" ELSE "missing"

-----------------------------------------------------------------------------
(* What other components do to the rows that are read here.                *)

\* send and startDraft of the Customer summary.
MoveSummary ==
  /\ summary # "none"
  /\ summary' = IF summary = "draft" THEN "sent" ELSE "draft"
  /\ UNCHANGED <<archived, schema, rounds>>

ArchiveOrRestoreElsewhere ==
  /\ archived' = ~archived
  /\ UNCHANGED <<schema, rounds, summary>>

-----------------------------------------------------------------------------
RoundsTypeOK ==
  /\ archived \in BOOLEAN
  /\ schema \in SUBSET Questions
  /\ rounds \in Seq([type : RoundTypes, open : BOOLEAN,
                     questions : (SUBSET Asked) \ {{}},
                     answer : [Asked -> RoundAnswers \cup {None}],
                     override : [Asked -> Overrides]])
  /\ Len(rounds) <= MaxRounds
  /\ summary \in {"none", "draft", "sent"}
=============================================================================
