---------------------------- MODULE InterviewPage ----------------------------
(***************************************************************************)
(* The interview page of the web client (interview.page.ts) against the    *)
(* rounds of the API: drafts are saved as they are typed, assessments by   *)
(* command, and the round is completed when the page has no work left.     *)
(*                                                                         *)
(* Each handler of the page is one action; a request leaves the page with  *)
(* a handler, is served in any order and answered in any order, and may be *)
(* lost before or after it is served.  A page that is left clears its      *)
(* timers; its requests go on, and their answers reach nobody.             *)
(***************************************************************************)
EXTENDS InterviewRounds, SequencesExt

CONSTANTS
  TextQuestions,   \* questions whose draft is saved after a delay
  MaxEdits,        \* bound: what the user does to the page
  MaxPages         \* bound: how often the page is opened

ASSUME TextQuestionsAssumption == TextQuestions \subseteq Asked

VARIABLES
  page,      \* round, endedEditable, completing and projectArchived of the page
  client,    \* answerStates, assessmentStates, timers and requests in flight
  calls,     \* requests that were not answered yet
  edits      \* what the user did so far (bounds the model)

pageVars == <<page, client, calls, edits>>
vars == <<roundVars, pageVars>>

-----------------------------------------------------------------------------
(* The state of a question.                                                *)

\* createQuestionAnswerState: timers and requests in flight are kept elsewhere.
WithAnswer(c, round, q) ==
  [c EXCEPT !.draft = round.answer[q], !.persisted = round.answer[q],
            !.status = IF round.answer[q] # None THEN "saved" ELSE "idle",
            !.latest = 0, !.submitted = 0, !.answered = round.answer[q] # None]

\* createQuestionAssessmentState.
WithAssessment(c, round, q) ==
  [c EXCEPT !.mode = round.override[q], !.baseline = round.override[q],
            !.checking = "saved"]

Blank == [draft |-> None, persisted |-> None, status |-> "idle", latest |-> 0,
          submitted |-> 0, answered |-> FALSE, timer |-> FALSE, inFlight |-> {},
          mode |-> "none", baseline |-> "none", checking |-> "saved"]

\* buildAnswerStates, buildAssessmentStates.
Fresh(round) == [q \in Asked |-> WithAssessment(WithAnswer(Blank, round, q), round, q)]
Empty == [q \in Asked |-> Blank]

SavedState(value) == IF value = None THEN "idle" ELSE "saved"

\* hasAssessmentWorkToPreserve.
AssessmentWork(c) == c.checking # "saved" \/ c.mode # c.baseline

\* setAnswerDraft.
Drafted(c, value) ==
  [c EXCEPT !.draft = value,
            !.status = IF value = c.persisted THEN SavedState(value)
                       ELSE IF @ = "saving" THEN "saving" ELSE "idle"]

\* persistAnswer: nothing to send when the draft is what was persisted.
Persisted(c) ==
  IF c.draft = c.persisted /\ c.status # "error"
  THEN [c EXCEPT !.timer = FALSE, !.status = SavedState(c.draft)]
  ELSE [c EXCEPT !.timer = FALSE, !.status = "saving", !.latest = @ + 1,
                 !.submitted = c.latest + 1, !.inFlight = @ \cup {c.latest + 1}]

-----------------------------------------------------------------------------
(* The page.                                                               *)

NoPage == [number |-> 0, round |-> 0, open |-> FALSE, initial |-> FALSE,
           endedEditable |-> FALSE, completing |-> FALSE, archived |-> FALSE,
           starting |-> FALSE]

Shown == page.round # 0
ReadOnly == ~page.open /\ ~page.endedEditable

\* isAnswerEditingLocked, isAssessmentEditingLocked.
Locked(q) ==
  \/ ~Shown
  \/ page.archived
  \/ ReadOnly
  \/ page.completing
  \/ q \notin rounds[page.round].questions

HasTimers == \E q \in Asked : client[q].timer
HasInFlight == \E q \in Asked : client[q].inFlight # {}
HasErrors == \E q \in Asked : "error" \in {client[q].status, client[q].checking}
HasAssessing == \E q \in Asked : client[q].checking = "saving"

\* isCompleteDisabled and the returns of finishRound.
CompleteEnabled ==
  /\ ~page.completing
  /\ ~page.archived
  /\ ~(HasTimers \/ HasInFlight \/ HasErrors \/ HasAssessing)

Call(kind, q, value, request) ==
  [kind |-> kind, page |-> page.number, round |-> page.round, question |-> q,
   value |-> value, request |-> request, stage |-> "sent", saved |-> <<>>]

\* The next state of a question, with the request that its persistAnswer sends.
Become(q, c) ==
  /\ client' = [client EXCEPT ![q] = c]
  /\ calls' = IF c.latest # client[q].latest
              THEN Append(calls, Call("answer", q, c.draft, c.latest))
              ELSE calls

Edit == edits < MaxEdits /\ edits' = edits + 1

\* The page shows a round as the API returned it.
Accept(round, r) ==
  /\ client' = Fresh(round)
  /\ page' = [page EXCEPT !.round = r, !.open = round.open, !.completing = FALSE,
                          !.initial = round.type = "INITIAL_INTAKE",
                          !.starting = FALSE]

\* loadInterviewData of a page that was just opened, with the round it asks
\* for or the active Initial Intake; ngOnDestroy of the page before.
Open ==
  /\ page.number < MaxPages
  /\ \E r \in {0} \cup RoundIds :
       /\ r = 0 => ~HasOpen("INITIAL_INTAKE")
       /\ page' = [NoPage EXCEPT !.number = page.number + 1, !.round = r,
                                 !.open = r # 0 /\ rounds[r].open,
                                 !.initial = r # 0 /\ rounds[r].type = "INITIAL_INTAKE",
                                 !.archived = archived]
       /\ client' = IF r = 0 THEN Empty ELSE Fresh(rounds[r])
  /\ UNCHANGED <<roundVars, calls, edits>>

\* startInitialRound, for the first time or as a retry that reconciles.
StartRound(retry) ==
  /\ page.number > 0 /\ ~Shown /\ ~page.starting
  /\ schema # {} /\ ~page.archived
  /\ Edit
  /\ page' = [page EXCEPT !.starting = TRUE]
  /\ calls' = Append(calls, Call(IF retry THEN "restart" ELSE "start", None, None, 0))
  /\ UNCHANGED <<roundVars, client>>

-----------------------------------------------------------------------------
(* Drafts.                                                                 *)

\* setTextDraft of a text: saved when the timer fires.
TypeText(q, value) ==
  /\ q \in TextQuestions /\ value # None /\ ~Locked(q)
  /\ Edit
  /\ client' = [client EXCEPT ![q] = [Drafted(@, value) EXCEPT !.timer = TRUE]]
  /\ UNCHANGED <<roundVars, page, calls>>

\* setTextDraft of a blank, setDiscreteDraft: saved at once.
SetDraft(q, value) ==
  /\ (q \in TextQuestions => value = None) /\ ~Locked(q)
  /\ Edit
  /\ Become(q, Persisted(Drafted(client[q], value)))
  /\ UNCHANGED <<roundVars, page>>

\* persistAnswer gives up on a round that was closed meanwhile.
TimerFires(q) ==
  /\ client[q].timer
  /\ IF ReadOnly \/ page.completing
     THEN Become(q, [client[q] EXCEPT !.timer = FALSE])
     ELSE Become(q, Persisted(client[q]))
  /\ UNCHANGED <<roundVars, page, edits>>

RetryAnswer(q) ==
  /\ client[q].status = "error" /\ ~Locked(q)
  /\ Edit
  /\ Become(q, Persisted(client[q]))
  /\ UNCHANGED <<roundVars, page>>

-----------------------------------------------------------------------------
(* Assessments.                                                            *)

\* isAssessmentControlDisabled.
Disabled(q, mode) ==
  Locked(q) \/ (client[q].checking = "saving" /\ client[q].mode = mode)

\* hasPersistedValidAnswer.
HasAnswer(q) == client[q].persisted # None /\ client[q].answered

\* persistAssessment.
Assess(q, mode) ==
  IF client[q].checking = "saving"
  THEN /\ client' = [client EXCEPT ![q].mode = mode]
       /\ UNCHANGED calls
  ELSE /\ client' = [client EXCEPT ![q].mode = mode, ![q].checking = "saving"]
       /\ calls' = Append(calls, Call("assess", q, mode, 0))

\* selectPartialAssessment, resetAssessment.
SelectAssessment(q, mode) ==
  /\ mode \in {"none", "partial"} /\ ~Disabled(q, mode)
  /\ mode = "partial" => HasAnswer(q)
  /\ Edit
  /\ Assess(q, mode)
  /\ UNCHANGED <<roundVars, page>>

\* selectNotRelevantAssessment: a draft until its rationale is saved.
SelectNotRelevant(q) ==
  /\ ~Disabled(q, "not-relevant")
  /\ Edit
  /\ client' = [client EXCEPT ![q].mode = "not-relevant"]
  /\ UNCHANGED <<roundVars, page, calls>>

\* saveNotRelevantAssessment.
SaveNotRelevant(q) ==
  /\ client[q].mode = "not-relevant" /\ ~Disabled(q, "not-relevant")
  /\ Edit
  /\ Assess(q, "not-relevant")
  /\ UNCHANGED <<roundVars, page>>

RetryAssessment(q) ==
  /\ client[q].checking = "error" /\ ~Locked(q)
  /\ client[q].mode = "partial" => HasAnswer(q)
  /\ Edit
  /\ Assess(q, client[q].mode)
  /\ UNCHANGED <<roundVars, page>>

-----------------------------------------------------------------------------
(* Completion.                                                             *)

Finish ==
  /\ Shown /\ page.open /\ CompleteEnabled
  /\ Edit
  /\ page' = [page EXCEPT !.completing = TRUE]
  /\ calls' = Append(calls, Call("finish", None, None, 0))
  /\ UNCHANGED <<roundVars, client>>

\* The hand-off component has listed the summaries of an ended Initial Intake.
HandoffListed ==
  /\ Shown /\ ~page.open /\ page.initial
  /\ page' = [page EXCEPT !.endedEditable = (summary = "draft" /\ ~page.archived)]
  /\ UNCHANGED <<roundVars, client, calls, edits>>

-----------------------------------------------------------------------------
(* Requests.                                                               *)

\* The answer to a call that was served: the round as it is from now on.
Answered(i) ==
  LET r == IF calls[i].round # 0 THEN calls[i].round ELSE Len(rounds') IN
  calls' = [calls EXCEPT ![i].stage = "served", ![i].round = r,
                         ![i].saved = <<rounds'[r]>>]

Refused(i) == calls' = [calls EXCEPT ![i].stage = "served"] /\ UNCHANGED roundVars

\* The transaction of a call, and what it requires.
Command(call) ==
  CASE call.kind = "answer" -> UpdateAnswer(call.round, call.question, call.value)
    [] call.kind = "assess" /\ call.value = "none" ->
         ResetAssessment(call.round, call.question)
    [] call.kind = "assess" /\ call.value # "none" ->
         SetAssessment(call.round, call.question, call.value)
    [] call.kind = "finish" -> FinishRound(call.round)
    [] OTHER -> CreateRound("INITIAL_INTAKE", schema)

Permitted(call) ==
  CASE call.kind = "answer" -> TakesEdits(call.round, call.question)
    [] call.kind = "assess" -> /\ TakesEdits(call.round, call.question)
                               /\ Assessable(call.round, call.question, call.value)
    [] call.kind = "finish" -> ~archived
    [] OTHER -> ~archived /\ ~HasOpen("INITIAL_INTAKE")

\* The API serves a call, or refuses it.
Serve(i) ==
  /\ calls[i].stage = "sent"
  /\ IF Permitted(calls[i]) THEN Command(calls[i]) /\ Answered(i) ELSE Refused(i)
  /\ UNCHANGED <<page, client, edits>>

\* The call, or the answer to it, is lost on the way.
Lose(i) ==
  /\ calls[i].stage = "sent" \/ calls[i].saved # <<>>
  /\ calls' = [calls EXCEPT ![i].stage = "served", ![i].saved = <<>>]
  /\ UNCHANGED <<roundVars, page, client, edits>>

Arrives(i, kinds) ==
  /\ calls[i].stage = "served"
  /\ calls[i].page = page.number
  /\ calls[i].kind \in kinds

\* persistAnswer from an answer handler, unless the round was closed meanwhile.
Resend(c) ==
  IF ReadOnly \/ page.completing THEN [c EXCEPT !.status = "saving"]
  ELSE Persisted([c EXCEPT !.status = "saving"])

\* What both handlers do before they look at the result: a later request
\* decides, or the draft has moved on.
Overtaken(c, call) == c.submitted > call.request
Waiting(c) == IF c.inFlight # {} THEN [c EXCEPT !.status = "saving"] ELSE c

\* Variant: the first answer settles the question.
StoredAtOnce(c, call) ==
  [c EXCEPT !.persisted = call.value, !.status = SavedState(call.value)]

\* handlePersistSuccess, with replaceRoundQuestionFromAnswer.
Stored(c, call) ==
  LET round == call.saved[1]
      q == call.question
      base == IF AssessmentWork(c) THEN c ELSE WithAssessment(c, round, q) IN
  IF Overtaken(c, call) THEN Waiting(c)
  ELSE IF c.draft # call.value
  THEN IF c.inFlight # {} THEN Waiting(c) ELSE Resend(c)
  ELSE [base EXCEPT !.persisted = round.answer[q],
                    !.answered = round.answer[q] # None,
                    !.status = IF c.inFlight # {} THEN "saving"
                               ELSE SavedState(round.answer[q])]

\* handlePersistError.
Failed(c, call) ==
  IF Overtaken(c, call) THEN Waiting(c)
  ELSE IF c.draft # call.value /\ c.inFlight = {} THEN Resend(c)
  ELSE [c EXCEPT !.status = "error"]

ReceiveAnswer(i) ==
  /\ Arrives(i, {"answer"})
  /\ LET q == calls[i].question
         c == [client[q] EXCEPT !.inFlight = @ \ {calls[i].request}]
         next == IF calls[i].saved # <<>> THEN Stored(c, calls[i])
                 ELSE Failed(c, calls[i])
         rest == RemoveAt(calls, i) IN
       /\ client' = [client EXCEPT ![q] = next]
       /\ calls' = IF next.latest # c.latest
                   THEN Append(rest, Call("answer", q, next.draft, next.latest))
                   ELSE rest
  /\ UNCHANGED <<roundVars, page, edits>>

\* The answer to persistAssessment: replaceRoundQuestionFromAssessment takes
\* the answer of the question from the API too.
ReceiveAssessment(i) ==
  /\ Arrives(i, {"assess"})
  /\ LET q == calls[i].question
         round == calls[i].saved[1] IN
       client' = [client EXCEPT
                    ![q] = IF calls[i].saved = <<>> THEN [@ EXCEPT !.checking = "error"]
                           ELSE WithAssessment(WithAnswer(@, round, q), round, q)]
  /\ calls' = RemoveAt(calls, i)
  /\ UNCHANGED <<roundVars, page, edits>>

\* The answer to finishRound, which leaves an additional round.
ReceiveFinish(i) ==
  /\ Arrives(i, {"finish"})
  /\ IF calls[i].saved = <<>>
     THEN /\ page' = [page EXCEPT !.completing = FALSE]
          /\ UNCHANGED client
     ELSE /\ client' = Fresh(calls[i].saved[1])
          /\ page' = [page EXCEPT !.open = FALSE, !.completing = FALSE,
                                  !.endedEditable = page.initial]
  /\ calls' = RemoveAt(calls, i)
  /\ UNCHANGED <<roundVars, edits>>

\* The answer to startInitialRound; a retry looks for the round it failed to
\* create (reconcileStartedInitialRound), in a request of its own that may
\* fail as well.
ReceiveStart(i) ==
  /\ Arrives(i, {"start", "restart"})
  /\ calls' = RemoveAt(calls, i)
  /\ \/ calls[i].saved # <<>> /\ Accept(calls[i].saved[1], calls[i].round)
     \/ /\ calls[i].saved = <<>> /\ calls[i].kind = "restart"
        /\ \E r \in RoundIds : /\ rounds[r].open /\ rounds[r].type = "INITIAL_INTAKE"
                               /\ Accept(rounds[r], r)
     \/ /\ calls[i].saved = <<>>
        /\ page' = [page EXCEPT !.starting = FALSE]
        /\ UNCHANGED client
  /\ UNCHANGED <<roundVars, edits>>

\* The page that sent the call is gone.
Forget(i) ==
  /\ calls[i].stage = "served"
  /\ calls[i].page # page.number
  /\ calls' = RemoveAt(calls, i)
  /\ UNCHANGED <<roundVars, page, client, edits>>

-----------------------------------------------------------------------------
Init ==
  /\ RoundsInit
  /\ page = NoPage
  /\ client = Empty
  /\ calls = <<>>
  /\ edits = 0

\* Other pages of the application, and the API commands they send.
Elsewhere ==
  /\ \/ \E questions \in SUBSET Questions : schema = {} /\ PublishSchema(questions)
     \/ \E type \in RoundTypes, selected \in SUBSET Asked : CreateRound(type, selected)
     \/ MoveSummary
     \/ ArchiveOrRestoreElsewhere
  /\ UNCHANGED pageVars

Editing ==
  \E q \in Asked :
    \/ \E value \in RoundAnswers : TypeText(q, value)
    \/ \E value \in RoundAnswers \cup {None} : SetDraft(q, value)
    \/ RetryAnswer(q)
    \/ \E mode \in Overrides : SelectAssessment(q, mode)
    \/ SelectNotRelevant(q)
    \/ SaveNotRelevant(q)
    \/ RetryAssessment(q)

Receive(i) ==
  ReceiveAnswer(i) \/ ReceiveAssessment(i) \/ ReceiveFinish(i) \/ ReceiveStart(i)

Transport ==
  \E i \in DOMAIN calls : Serve(i) \/ Lose(i) \/ Receive(i) \/ Forget(i)

Next ==
  \/ Elsewhere
  \/ Open
  \/ \E retry \in BOOLEAN : StartRound(retry)
  \/ Editing
  \/ \E q \in Asked : TimerFires(q)
  \/ Finish
  \/ HandoffListed
  \/ Transport

Spec == Init /\ [][Next]_vars

-----------------------------------------------------------------------------
(* Properties.                                                             *)

QuestionStates ==
  [draft : RoundAnswers \cup {None}, persisted : RoundAnswers \cup {None},
   status : {"idle", "saving", "saved", "error"}, latest : 0..MaxEdits * 2,
   submitted : 0..MaxEdits * 2, answered : BOOLEAN, timer : BOOLEAN,
   inFlight : SUBSET (1..MaxEdits * 2), mode : Overrides, baseline : Overrides,
   checking : {"saving", "saved", "error"}]

\* Every variable has its type, here and in the rounds of the API.
PageTypeOK ==
  /\ RoundsTypeOK
  /\ page.number \in 0..MaxPages
  /\ page.round \in {0} \cup RoundIds
  /\ \A q \in Asked : client[q] \in QuestionStates
  /\ \A i \in DOMAIN calls : calls[i].stage \in {"sent", "served"}
  /\ edits \in 0..MaxEdits

\* A question of an open round that shows neither a save in progress nor an
\* error, and has no timer, shows the draft that the page believes to be stored.
SettledDraftIsPersisted ==
  (Shown /\ page.open) =>
    \A q \in Asked :
      (client[q].status \in {"idle", "saved"} /\ ~client[q].timer)
      => client[q].draft = client[q].persisted

\* A partial assessment stands on an answer, whoever clears it and when.
PartialKeepsItsAnswer ==
  \A r \in RoundIds : \A q \in Asked :
    rounds[r].override[q] = "partial" => rounds[r].answer[q] # None

\* An additional round is read-only once it ended, and no round opens again.
EndedRoundsStayAsTheyAre ==
  [][\A r \in RoundIds :
       ~rounds[r].open =>
         /\ ~rounds'[r].open
         /\ rounds[r].type # "INITIAL_INTAKE" => rounds'[r] = rounds[r]]_vars

\* What the page shows as "Saved" (questionSaveState) is what the API has, when
\* no save is in progress.
SavedIsStored ==
  (Shown /\ page.open /\ CompleteEnabled) =>
    \A q \in rounds[page.round].questions :
      client[q].status = "saved" => client[q].draft = rounds[page.round].answer[q]
=============================================================================
