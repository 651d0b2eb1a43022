------------------------- MODULE ProjectPreparation -------------------------
(***************************************************************************)
(* How far a Project is prepared for its estimation.  The code answers     *)
(* this twice.  Project pages ask ProjectPreparationStatusService, which   *)
(* combines the readiness (readiness-calculator.ts) with the Decision      *)
(* Review (decision-review-calculator.ts), and reads what it needs one     *)
(* query after the other, without a transaction.  The queue and the        *)
(* portfolio ask one SQL query (project-work-state-read-model.ts) that     *)
(* computes all of it again.                                               *)
(*                                                                         *)
(* The packaged playbooks differ in the keys of their questions only: the  *)
(* policy of each is that of general.v1.json, in percent.  The service     *)
(* takes the keys from the Project's own playbook, the SQL always from the *)
(* general one.  The readiness of the service is a sum of binary fractions,*)
(* of the SQL one of cut-off decimals, neither of which need hit a half    *)
(* exactly: a half is rounded either way.                                  *)
(***************************************************************************)
EXTENDS InterviewRounds, Integers, FiniteSets, FiniteSetsExt

CONSTANTS
  Packaged, General,    \* the playbooks, and the general one of them
  PolicyItems,          \* the items of a playbook, the same of each
  Business, Ownership,  \* the items bound to these factors
  ForEstimate,          \* the items required for an estimate
  Blocking,             \* the questions that the Owner made blocking
  Whole,                \* the parts of a whole
  Schemas,              \* bound: the question sets that are published
  Reviews,              \* Decision Review inputs that are entered
  MaxTracked,           \* bound: Discovery follow-ups
  MaxInterruptions      \* bound: commands while a status is read

Dimensions == {"businessValue", "strategicAlignment", "urgency", "confidence",
               "complexity", "risk"}

\* The stable keys of some items, <playbook>-<item>.
Keys(of, items) == {<<of, item>> : item \in items}

\* The policy binds items to both factors.  Whatever is divided by a number of
\* questions or follow-ups, and then halved, is a number of parts.
ASSUME PreparationAssumption ==
  /\ IsFiniteSet(Questions) /\ AdHoc \notin Questions
  /\ None \notin RoundAnswers
  /\ General \in Packaged
  /\ \A p \in Packaged : Keys(p, PolicyItems) \subseteq Questions
  /\ Ownership \subseteq PolicyItems /\ Ownership # {}
  /\ Schemas \subseteq SUBSET Questions
  /\ Reviews \subseteq [Dimensions -> 1..5]
  /\ MaxTracked \in Nat /\ MaxInterruptions \in Nat /\ MaxRounds \in Nat
  /\ Whole \in Nat \ {0}
  /\ \A n \in 1..(Cardinality(Keys(General, PolicyItems)) + MaxTracked) :
       Whole % (4 * n) = 0

VARIABLES
  playbook,       \* projects.playbook_id
  owned,          \* projects.ball_owner is set
  followUpCounts, \* discovery_follow_ups: how many are open, how many resolved
  ratings,        \* the six rating columns; 0 is null
  reading         \* a ProjectPreparationStatus on its way to a page: what has
                  \* been read of it, the commands since it began, and the
                  \* states that the queue could show meanwhile

preparationVars == <<roundVars, playbook, owned, followUpCounts, ratings, reading>>

Inverted == {"complexity", "risk"}
DecisionWeight == [businessValue |-> 25, strategicAlignment |-> 15, urgency |-> 15,
                   confidence |-> 15, complexity |-> 10, risk |-> 10]
ReadinessWeight == 10

Unrated == [d \in Dimensions |-> 0]
NoReading ==
  [stage |-> "idle", playbook |-> General, owned |-> FALSE, ratings |-> Unrated,
   intake |-> 0, answers |-> [q \in Asked |-> None], overrides |-> [q \in Asked |-> "none"],
   state |-> "unknown", seen |-> {}, commits |-> 0, torn |-> FALSE]

PreparationInit ==
  /\ RoundsInit
  /\ playbook \in Packaged
  /\ owned = FALSE
  /\ followUpCounts = [open |-> 0, resolved |-> 0]
  /\ ratings = Unrated
  /\ reading = NoReading

-----------------------------------------------------------------------------
(* Parts of a whole.                                                       *)

Half(part) == part \div 2

\* Percent, rounded.
Nearest(hundredths) == (2 * hundredths + Whole) \div (2 * Whole)
Roundings(hundredths) ==
  {Nearest(hundredths)}
    \cup {below \in {Nearest(hundredths) - 1} : (2 * hundredths) % (2 * Whole) = Whole}

-----------------------------------------------------------------------------
(* What both calculations start from.                                      *)

\* findCurrentInitialIntakeSources and current_round: the latest one, if any.
Intakes == {r \in RoundIds : rounds[r].type = "INITIAL_INTAKE"}
CurrentIntake == IF Intakes = {} THEN 0 ELSE Max(Intakes)

\* hasCanonicalPlaybookStableKeys; canonical_snapshot_count and snapshot_count.
Canonical(of, r) == rounds[r].questions = Keys(of, PolicyItems)

QuestionStatuses(r, answers, overrides) ==
  [q \in rounds[r].questions |->
     Status([answer |-> answers, override |-> overrides], q)]

With(statuses, keys, which) == {q \in DOMAIN statuses \cap keys : statuses[q] \in which}

\* averageChecklistValue, AVG(checklist_value): complete is 1, partial a half,
\* not relevant is left out.
Average(statuses, keys) ==
  LET relevant == With(statuses, keys, {"missing", "partial", "complete"})
  IN IF relevant = {} THEN 0
     ELSE (Whole * Cardinality(With(statuses, keys, {"complete"}))
             + Half(Whole) * Cardinality(With(statuses, keys, {"partial"})))
            \div Cardinality(relevant)

\* The name, the contact and its address, required of every project, are there.
BaseInfo == Whole
OwnerField(hasOwner) == IF hasOwner THEN Whole ELSE 0
Resolution(found) ==
  LET total == found.open + found.resolved
  IN IF total = 0 THEN Whole ELSE (Whole * found.resolved) \div total

Weighted(business, ownership, checklist, resolution) ==
  20 * BaseInfo + 20 * business + 15 * ownership + 30 * checklist + 15 * resolution

\* Percent of 20 a point, rounded up from a half by both.
Score(rated, readiness) ==
  LET points(d) ==
        DecisionWeight[d] * 20 * (IF d \in Inverted THEN 6 - rated[d] ELSE rated[d])
      hundredths == points("businessValue") + points("strategicAlignment")
                      + points("urgency") + points("confidence") + points("complexity")
                      + points("risk") + ReadinessWeight * readiness
  IN (hundredths + 50) \div 100

-----------------------------------------------------------------------------
(* ProjectPreparationStatusService: the readiness, and the Decision Review *)
(* on top of it, both with the policy of the Project's playbook.  Gaps of  *)
(* the owner and of follow-ups are never critical, so that only those of   *)
(* the checklist decide anything.                                          *)

\* ownershipFraction.
OwnershipFraction(of, hasOwner, statuses) ==
  LET bound == Keys(of, Ownership)
      checklist == Average(statuses, bound)
  IN IF checklist = 0 /\ With(statuses, bound, {"not-relevant"}) = bound
     THEN 0 ELSE Half(OwnerField(hasOwner) + checklist)

Readiness(of, hasOwner, statuses, found) ==
  Weighted(Average(statuses, Keys(of, Business)), OwnershipFraction(of, hasOwner, statuses),
           Average(statuses, DOMAIN statuses), Resolution(found))

\* Variant: a question that is missing is critical whether it blocks or not.
AnyMissingIsCritical(statuses) == With(statuses, DOMAIN statuses, {"missing"})

\* checklistGap.
CriticalGaps(statuses) == With(statuses, Blocking, {"missing"})
EstimateGaps(of, statuses) == With(statuses, Keys(of, ForEstimate), {"missing", "partial"})

\* deriveClarificationReasons.
ClarificationReasons(of, score, readiness, statuses) ==
  LET reasons ==
        (IF CriticalGaps(statuses) # {} THEN {"CRITICAL_GAP"} ELSE {})
          \cup (IF readiness < 40 THEN {"READINESS_BELOW_CLARIFICATION"} ELSE {})
          \cup (IF Cardinality(EstimateGaps(of, statuses)) > 2
                THEN {"TOO_MANY_ESTIMATE_GAPS"} ELSE {})
  IN IF reasons # {} THEN reasons
     ELSE IF readiness < 65 THEN {"READINESS_BELOW_PREPARATION"}
     ELSE IF score < 40 THEN {"SCORE_BELOW_PREPARATION"}
     ELSE {}

\* recommendation, and the state that getStatuses makes of it.
Recommendation(of, score, readiness, statuses) ==
  IF ClarificationReasons(of, score, readiness, statuses) # {} THEN "CLARIFICATION_REQUIRED"
  ELSE IF score >= 65 /\ readiness >= 65 /\ EstimateGaps(of, statuses) = {}
  THEN "ESTIMATE_READY"
  ELSE IF score >= 40 /\ readiness >= 65 THEN "ESTIMATE_PREPARABLE"
  ELSE "CLARIFICATION_REQUIRED"

\* getReviewsForProjectsWithManager, of the Initial Intake that was read:
\* unavailable without all the inputs, or without the questions of its playbook.
ReviewedStates(read, found) ==
  LET of == read.playbook
      statuses == QuestionStatuses(read.intake, read.answers, read.overrides)
  IN IF ~Canonical(of, read.intake) THEN {"CLARIFICATION_REQUIRED"}
     ELSE IF \E d \in Dimensions : read.ratings[d] = 0 THEN {"DECISION_REVIEW_REQUIRED"}
     ELSE {Recommendation(of, Score(read.ratings, readiness), readiness, statuses) :
             readiness \in Roundings(Readiness(of, read.owned, statuses, found))}

-----------------------------------------------------------------------------
(* ProjectWorkStateReadModel: the same in SQL, of one snapshot, with the   *)
(* policy of the general playbook whatever the Project's is.               *)

\* readiness_facts.
ReadinessFact(statuses) ==
  LET ownership == Keys(General, Ownership)
      ownershipExcluded ==
        ownership # {} /\ \A q \in ownership : statuses[q] = "not-relevant"
  IN Weighted(Average(statuses, Keys(General, Business)),
              IF ownershipExcluded THEN 0
              ELSE Half(OwnerField(owned) + Average(statuses, ownership)),
              Average(statuses, DOMAIN statuses), Resolution(followUpCounts))

CompletedDecisionInputs == Cardinality({d \in Dimensions : ratings[d] # 0})

\* The conditions of preparation_state, when all inputs are there.
PreparationState(score, readiness, statuses) ==
  LET hasCriticalGap == \E q \in DOMAIN statuses \cap Blocking : statuses[q] = "missing"
      estimateBlockingGaps ==
        Cardinality({q \in DOMAIN statuses \cap Keys(General, ForEstimate) :
                       statuses[q] \notin {"complete", "not-relevant"}})
  IN IF \/ hasCriticalGap \/ readiness < 40 \/ estimateBlockingGaps > 2
        \/ readiness < 65 \/ score < 40
     THEN "CLARIFICATION_REQUIRED"
     ELSE IF score >= 65 /\ readiness >= 65 /\ estimateBlockingGaps = 0
     THEN "ESTIMATE_READY" ELSE "ESTIMATE_PREPARABLE"

QueueStates ==
  LET r == CurrentIntake
      statuses == QuestionStatuses(r, rounds[r].answer, rounds[r].override)
  IN IF schema = {} THEN {"SCHEMA_REQUIRED"}
     ELSE IF r = 0 \/ rounds[r].open THEN {"INTAKE_IN_PROGRESS"}
     ELSE IF ~Canonical(General, r) THEN {"CLARIFICATION_REQUIRED"}
     ELSE IF CompletedDecisionInputs < 6 THEN {"DECISION_REVIEW_REQUIRED"}
     ELSE {PreparationState(Score(ratings, readiness), readiness, statuses) :
             readiness \in Roundings(ReadinessFact(statuses))}

-----------------------------------------------------------------------------
(* Reading the status of a Project.                                        *)

\* getStatus reads the project row.
BeginReading ==
  /\ reading.stage = "idle"
  /\ reading' = [NoReading EXCEPT !.stage = "sources", !.playbook = playbook,
                                  !.owned = owned, !.ratings = ratings]

ShowStatus(state) ==
  reading' = [NoReading EXCEPT !.stage = "shown", !.state = state,
                          !.seen = reading.seen \cup QueueStates,
                          !.commits = reading.commits, !.torn = reading.torn]

\* getStatuses asks for the schema and the Initial Intake at once.  Neither goes
\* away again, so the order in which they are answered is left out.
ReadSources ==
  /\ reading.stage = "sources"
  /\ IF schema = {} THEN ShowStatus("SCHEMA_REQUIRED")
     ELSE IF CurrentIntake = 0 \/ rounds[CurrentIntake].open
     THEN ShowStatus("INTAKE_IN_PROGRESS")
     ELSE reading' = [reading EXCEPT !.stage = "answers", !.intake = CurrentIntake]

\* getReadinessForProjectsWithManager: the snapshots, which never change, and
\* the answers; then the assessments; then the follow-ups.
ReadAnswers ==
  /\ reading.stage = "answers"
  /\ reading' = [reading EXCEPT !.stage = "overrides",
                                !.answers = rounds[reading.intake].answer]

ReadOverrides ==
  /\ reading.stage = "overrides"
  /\ reading' = [reading EXCEPT !.stage = "followUps",
                                !.overrides = rounds[reading.intake].override]

ShowReview ==
  /\ reading.stage = "followUps"
  /\ \E state \in ReviewedStates(reading, followUpCounts) : ShowStatus(state)

Leave ==
  /\ reading.stage = "shown"
  /\ reading' = NoReading

-----------------------------------------------------------------------------
(* The commands that change what a status is made of.                      *)

\* create and resolve of a Discovery follow-up, once each is taken.
OpenFollowUp ==
  /\ followUpCounts.open + followUpCounts.resolved < MaxTracked
  /\ followUpCounts' = [followUpCounts EXCEPT !.open = @ + 1]

CloseFollowUp ==
  /\ followUpCounts.open > 0
  /\ followUpCounts' = [followUpCounts EXCEPT !.open = @ - 1, !.resolved = @ + 1]

\* updateReview, which leaves unchanged inputs alone.
UpdateReview(rated) ==
  /\ rated # ratings
  /\ ratings' = rated

\* What a command on the Initial Intake changes.  Bound: the schema is published
\* once; a later one changes nothing that a status is made of, and neither does
\* archiving the Project or sending its summary.
IntakeCommand ==
  \/ schema = {} /\ \E questions \in Schemas : PublishSchema(questions)
  \/ CreateRound("INITIAL_INTAKE", schema)
  \/ \E r \in RoundIds :
       \/ FinishRound(r)
       \/ \E q \in rounds[r].questions :
            \/ \E value \in RoundAnswers \cup {None} : UpdateAnswer(r, q, value)
            \/ \E override \in Overrides : SetAssessment(r, q, override)
            \/ ResetAssessment(r, q)

\* updatePlaybook: frozen once an interview round has started.
UpdatePlaybook(of) ==
  /\ rounds = <<>> /\ of # playbook
  /\ playbook' = of

\* What a command on the Project changes; synchronizeCompatibilityOwner.
ProjectCommand ==
  /\ ~archived
  /\ \/ OpenFollowUp /\ UNCHANGED <<playbook, owned, ratings>>
     \/ CloseFollowUp /\ UNCHANGED <<playbook, owned, ratings>>
     \/ owned' = ~owned /\ UNCHANGED <<playbook, followUpCounts, ratings>>
     \/ /\ \E rated \in Reviews : UpdateReview(rated)
        /\ UNCHANGED <<playbook, owned, followUpCounts>>
     \/ /\ \E of \in Packaged : UpdatePlaybook(of)
        /\ UNCHANGED <<owned, followUpCounts, ratings>>

ReadingUnderWay == reading.stage \notin {"idle", "shown"}

\* One transaction clears an answer and the assessment that came with it.
ClearsBoth ==
  \E r \in RoundIds : rounds'[r].answer # rounds[r].answer
                    /\ rounds'[r].override # rounds[r].override

\* A command is committed while the status may be on its way.
CommitCommand ==
  /\ reading.stage # "shown"
  /\ reading.commits < MaxInterruptions
  /\ \/ IntakeCommand /\ UNCHANGED <<playbook, owned, followUpCounts, ratings>>
     \/ ProjectCommand /\ UNCHANGED roundVars
  /\ reading' = IF ~ReadingUnderWay THEN reading
                ELSE [reading EXCEPT !.commits = @ + 1, !.seen = @ \cup QueueStates,
                                     !.torn = Len(rounds') = Len(rounds) /\ ClearsBoth]

ReadingStep ==
  /\ BeginReading \/ ReadSources \/ ReadAnswers \/ ReadOverrides \/ ShowReview \/ Leave
  /\ UNCHANGED <<roundVars, playbook, owned, followUpCounts, ratings>>

PreparationNext == CommitCommand \/ ReadingStep

PreparationSpec == PreparationInit /\ [][PreparationNext]_preparationVars

-----------------------------------------------------------------------------
(* Properties.                                                             *)

PreparationStates ==
  {"SCHEMA_REQUIRED", "INTAKE_IN_PROGRESS", "CLARIFICATION_REQUIRED",
   "DECISION_REVIEW_REQUIRED", "ESTIMATE_PREPARABLE", "ESTIMATE_READY"}

\* Every variable has its type.
PreparationTypeOK ==
  /\ RoundsTypeOK
  /\ playbook \in Packaged
  /\ owned \in BOOLEAN
  /\ followUpCounts \in [open : 0..MaxTracked, resolved : 0..MaxTracked]
  /\ ratings \in Reviews \cup {Unrated}
  /\ reading.stage \in {"idle", "sources", "answers", "overrides", "followUps", "shown"}
  /\ reading.commits \in 0..MaxInterruptions
  /\ reading.state \in PreparationStates \cup {"unknown"}
  /\ reading.seen \subseteq PreparationStates

\* "The one employee-facing preparation state shown for an active project": when
\* nothing is committed meanwhile, what a Project page is given is what the queue
\* shows.  For a Project of another playbook than the general one it is not.
OnePreparationState ==
  reading.stage = "shown" /\ reading.commits = 0 => reading.state \in reading.seen

\* For a Project of the general playbook, and for every other one before its
\* Initial Intake has ended, the status that a page is given is one that the queue
\* could show since the page asked for it, although the page's is put together by
\* other code and from up to six separate reads, as long as one command at most
\* commits between them.  A command that clears an answer with its assessment is
\* exempt, since the two tables are read apart.
StatusAgreesWithQueue ==
  /\ reading.stage = "shown" /\ reading.commits <= 1 /\ ~reading.torn
  /\ \/ playbook = General
     \/ reading.state \in {"SCHEMA_REQUIRED", "INTAKE_IN_PROGRESS"}
  => reading.state \in reading.seen
=============================================================================
