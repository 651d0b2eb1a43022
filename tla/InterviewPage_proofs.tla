------------------------ MODULE InterviewPage_proofs ------------------------
(***************************************************************************)
(* Proofs about InterviewPage and the rounds behind it, for any questions  *)
(* and answers and any number of rounds, pages and edits; and about the    *)
(* status of a Project, which is computed from those rounds                *)
(* (ProjectPreparation).                                                   *)
(***************************************************************************)
EXTENDS InterviewPage, ProjectPreparation, SequenceTheorems, FiniteSetTheorems, TLAPS

-----------------------------------------------------------------------------
(* The types of the page, and of the requests under way.                   *)

Values == RoundAnswers \cup {None}

Rounds == [type : RoundTypes, open : BOOLEAN, questions : SUBSET Asked,
           answer : [Asked -> Values], override : [Asked -> Overrides]]

Clients == [draft : Values, persisted : Values,
            status : {"idle", "saving", "saved", "error"}, latest : Nat,
            submitted : Nat, answered : BOOLEAN, timer : BOOLEAN,
            inFlight : SUBSET Nat, mode : Overrides, baseline : Overrides,
            checking : {"saving", "saved", "error"}]

Pages == [number : Nat, round : Nat, open : BOOLEAN, initial : BOOLEAN,
          endedEditable : BOOLEAN, completing : BOOLEAN, archived : BOOLEAN,
          starting : BOOLEAN]

\* What a call carries fits its kind.
Fits(call) ==
  /\ call.kind = "answer" => call.question \in Asked /\ call.value \in Values
  /\ call.kind = "assess" => call.question \in Asked /\ call.value \in Overrides
  /\ call.kind \in {"start", "restart"} /\ call.stage = "sent" => call.round = 0

Calls == {call \in [kind : {"start", "restart", "answer", "assess", "finish"},
                    page : Nat, round : Nat, question : Asked \cup {None},
                    value : Values \cup Overrides, request : Nat,
                    stage : {"sent", "served"}, saved : Seq(Rounds)] : Fits(call)}

RoundsInv ==
  /\ archived \in BOOLEAN
  /\ schema \in SUBSET Questions
  /\ rounds \in Seq(Rounds)

PageInv ==
  /\ RoundsInv
  /\ page \in Pages
  /\ client \in [Asked -> Clients]
  /\ calls \in Seq(Calls)

-----------------------------------------------------------------------------
(* The helpers of the page.                                                *)

\* A sequence that is not empty has a first element of its set.
LEMMA FirstOfSeq ==
  ASSUME NEW S, NEW s \in Seq(S), s # <<>>
  PROVE  s[1] \in S
  <1>1. Len(s) > 0
    BY EmptySeq
  <1> QED
    BY <1>1

\* An answered or forgotten request leaves the list of requests typed.
LEMMA RemoveAtTyped ==
  ASSUME NEW S, NEW s \in Seq(S), NEW i \in DOMAIN s
  PROVE  RemoveAt(s, i) \in Seq(S)
  <1>1. SubSeq(s, 1, i - 1) \in Seq(S)
    BY SubSeqProperties
  <1>2. SubSeq(s, i + 1, Len(s)) \in Seq(S)
    BY SubSeqProperties
  <1> QED
    BY <1>1, <1>2, ConcatProperties DEF RemoveAt

\* What a page makes of a loaded round (loadAnswers, seedAssessment) is typed.
LEMMA StatesAreTyped ==
  /\ Blank \in Clients
  /\ Empty \in [Asked -> Clients]
  /\ \A c \in Clients, round \in Rounds, q \in Asked :
       /\ WithAnswer(c, round, q) \in Clients
       /\ WithAssessment(c, round, q) \in Clients
  /\ \A round \in Rounds : Fresh(round) \in [Asked -> Clients]
  <1>1. Blank \in Clients
    BY DEF Blank, Clients, Values, Overrides
  <1>2. ASSUME NEW c \in Clients, NEW round \in Rounds, NEW q \in Asked
        PROVE  WithAnswer(c, round, q) \in Clients
    BY DEF WithAnswer, Clients, Rounds
  <1>3. ASSUME NEW c \in Clients, NEW round \in Rounds, NEW q \in Asked
        PROVE  WithAssessment(c, round, q) \in Clients
    BY DEF WithAssessment, Clients, Rounds
  <1>4. ASSUME NEW round \in Rounds
        PROVE  Fresh(round) \in [Asked -> Clients]
    BY <1>1, <1>2, <1>3 DEF Fresh
  <1> QED
    BY <1>1, <1>2, <1>3, <1>4 DEF Empty

\* What the page makes of a draft before it is saved is typed.
LEMMA PersistedIsTyped ==
  ASSUME NEW c \in Clients
  PROVE  /\ Persisted(c) \in Clients
         /\ Resend(c) \in Clients
         /\ Waiting(c) \in Clients
         /\ \A value \in Values : Drafted(c, value) \in Clients
  <1>1. ASSUME NEW d \in Clients PROVE Persisted(d) \in Clients
    <2>1. [d EXCEPT !.timer = FALSE, !.status = SavedState(d.draft)] \in Clients
      BY DEF Clients, SavedState
    <2>2. d.latest + 1 \in Nat /\ d.inFlight \cup {d.latest + 1} \in SUBSET Nat
      BY DEF Clients
    <2>3. [d EXCEPT !.timer = FALSE, !.status = "saving", !.latest = @ + 1,
                    !.submitted = d.latest + 1, !.inFlight = @ \cup {d.latest + 1}]
            \in Clients
      BY <2>2 DEF Clients
    <2> QED
      BY <2>1, <2>3 DEF Persisted
  <1>2. [c EXCEPT !.status = "saving"] \in Clients
    BY DEF Clients
  <1>3. Resend(c) \in Clients
    BY <1>1, <1>2 DEF Resend
  <1>4. Waiting(c) \in Clients
    BY <1>2 DEF Waiting
  <1>5. ASSUME NEW value \in Values PROVE Drafted(c, value) \in Clients
    BY DEF Drafted, Clients, SavedState
  <1> QED
    BY <1>1, <1>3, <1>4, <1>5

\* What an answer of the API makes of a question.
LEMMA SettledIsTyped ==
  ASSUME NEW c \in Clients, NEW call \in Calls, call.kind = "answer"
  PROVE  /\ call.saved # <<>> => Stored(c, call) \in Clients
         /\ Failed(c, call) \in Clients
  <1>1. call.question \in Asked
    BY DEF Calls, Fits
  <1>2. Failed(c, call) \in Clients
    <2>1. [c EXCEPT !.status = "error"] \in Clients
      BY DEF Clients
    <2> QED
      BY <2>1, PersistedIsTyped DEF Failed
  <1>3. ASSUME call.saved # <<>>
        PROVE  Stored(c, call) \in Clients
    <2> DEFINE round == call.saved[1]
               q == call.question
               base == IF AssessmentWork(c) THEN c ELSE WithAssessment(c, round, q)
    <2>1. round \in Rounds
      BY <1>3, FirstOfSeq DEF Calls
    <2>2. base \in Clients
      BY <2>1, <1>1, StatesAreTyped
    <2>3. [base EXCEPT !.persisted = round.answer[q],
                       !.answered = round.answer[q] # None,
                       !.status = IF c.inFlight # {} THEN "saving"
                                  ELSE SavedState(round.answer[q])] \in Clients
      <3> HIDE DEF base
      <3>1. round.answer[q] \in Values
        BY <2>1, <1>1 DEF Rounds
      <3> QED
        BY <2>2, <3>1 DEF Clients, SavedState
    <2> QED
      BY <2>3, PersistedIsTyped DEF Stored
  <1> QED
    BY <1>2, <1>3

\* A request that carries an answer or an assessment is a request.
LEMMA CallIsTyped ==
  ASSUME page \in Pages, NEW q \in Asked, NEW value, NEW request \in Nat,
         NEW kind \in {"answer", "assess"},
         kind = "answer" => value \in Values,
         kind = "assess" => value \in Overrides
  PROVE  Call(kind, q, value, request) \in Calls
  BY DEF Call, Calls, Fits, Pages

\* A question gets a new state, and perhaps a request that saves its draft.
LEMMA BecomeIsTyped ==
  ASSUME PageInv, NEW q \in Asked, NEW c \in Clients, Become(q, c)
  PROVE  /\ client' \in [Asked -> Clients]
         /\ calls' \in Seq(Calls)
  <1>1. client' \in [Asked -> Clients]
    BY DEF Become, PageInv
  <1>2. Call("answer", q, c.draft, c.latest) \in Calls
    BY CallIsTyped DEF PageInv, Clients
  <1>3. calls' \in Seq(Calls)
    BY <1>2, AppendProperties DEF Become, PageInv
  <1> QED
    BY <1>1, <1>3

\* Choosing an assessment keeps drafts and requests typed.
LEMMA AssessIsTyped ==
  ASSUME PageInv, NEW q \in Asked, NEW mode \in Overrides, Assess(q, mode)
  PROVE  /\ client' \in [Asked -> Clients]
         /\ calls' \in Seq(Calls)
  <1>1. client' \in [Asked -> Clients]
    BY DEF Assess, PageInv, Clients
  <1>2. Call("assess", q, mode, 0) \in Calls
    BY CallIsTyped DEF PageInv
  <1>3. calls' \in Seq(Calls)
    BY <1>2, AppendProperties DEF Assess, PageInv
  <1> QED
    BY <1>1, <1>3

-----------------------------------------------------------------------------
(* Commands of the API.                                                    *)

\* The rounds after a step: as they were, with a new one, or one of them after a
\* command.
RoundsStep ==
  \/ UNCHANGED rounds
  \/ \E type \in RoundTypes, selected \in (SUBSET Asked) \ {{}} : CreateRound(type, selected)
  \/ \E r \in RoundIds :
       \/ FinishRound(r)
       \/ \E q \in Asked :
            \/ \E value \in Values : UpdateAnswer(r, q, value)
            \/ \E mode \in Overrides : SetAssessment(r, q, mode)
            \/ ResetAssessment(r, q)

\* Such a step keeps the rounds typed.
LEMMA RoundsStayTyped ==
  ASSUME RoundsInv, RoundsStep
  PROVE  rounds' \in Seq(Rounds)
  <1>1. CASE UNCHANGED rounds
    BY <1>1 DEF RoundsInv
  <1>2. ASSUME NEW type \in RoundTypes, NEW selected \in (SUBSET Asked) \ {{}},
               CreateRound(type, selected)
        PROVE  rounds' \in Seq(Rounds)
    <2>1. NewRound(type, selected) \in Rounds
      BY DEF NewRound, Rounds, Values, Overrides
    <2> QED
      BY <1>2, <2>1, AppendProperties DEF CreateRound, RoundsInv
  <1>3. ASSUME NEW r \in RoundIds, NEW round \in Rounds,
               rounds' = [rounds EXCEPT ![r] = round]
        PROVE  rounds' \in Seq(Rounds)
    BY <1>3 DEF RoundsInv, RoundIds
  <1>4. \A r \in RoundIds : rounds[r] \in Rounds
    BY DEF RoundsInv, RoundIds
  <1>5. ASSUME NEW r \in RoundIds, FinishRound(r)
        PROVE  rounds' \in Seq(Rounds)
    <2>1. [rounds[r] EXCEPT !.open = FALSE] \in Rounds
      BY <1>4 DEF Rounds
    <2> QED
      BY <1>3, <1>5, <2>1 DEF FinishRound
  <1>6. ASSUME NEW r \in RoundIds, NEW q \in Asked, NEW value \in Values,
               UpdateAnswer(r, q, value)
        PROVE  rounds' \in Seq(Rounds)
    <2>1. UpdatedRound(rounds[r], q, value) \in Rounds
      BY <1>4 DEF UpdatedRound, ClearedAnswer, Rounds, Values, Overrides
    <2> QED
      BY <1>3, <1>6, <2>1 DEF UpdateAnswer
  <1>7. ASSUME NEW r \in RoundIds, NEW q \in Asked, NEW mode \in Overrides,
               SetAssessment(r, q, mode)
        PROVE  rounds' \in Seq(Rounds)
    <2>1. [rounds[r] EXCEPT !.override[q] = mode] \in Rounds
      BY <1>4 DEF Rounds
    <2> QED
      BY <1>3, <1>7, <2>1 DEF SetAssessment, RoundsInv, RoundIds
  <1>8. ASSUME NEW r \in RoundIds, NEW q \in Asked, ResetAssessment(r, q)
        PROVE  rounds' \in Seq(Rounds)
    <2>1. [rounds[r] EXCEPT !.override[q] = "none"] \in Rounds
      BY <1>4 DEF Rounds, Overrides
    <2> QED
      BY <1>3, <1>8, <2>1 DEF ResetAssessment, RoundsInv, RoundIds
  <1> QED
    BY <1>1, <1>2, <1>5, <1>6, <1>7, <1>8 DEF RoundsStep

\* A call that is carried out is a command of the rounds.
LEMMA CommandIsRoundsStep ==
  ASSUME PageInv, NEW call \in Calls, call.stage = "sent", Permitted(call), Command(call)
  PROVE  /\ RoundsStep
         /\ archived' = archived /\ schema' = schema
         /\ call.round # 0 => call.round \in DOMAIN rounds'
         /\ call.round = 0 => Len(rounds') > 0
  <1> USE DEF PageInv, RoundsInv, RoundIds
  <1>1. CASE call.kind = "answer"
    <2>1. UpdateAnswer(call.round, call.question, call.value)
      BY <1>1 DEF Command
    <2>2. call.round \in RoundIds /\ call.question \in Asked /\ call.value \in Values
      BY <1>1, <2>1 DEF UpdateAnswer, TakesEdits, Calls, Fits
    <2>3. DOMAIN rounds' = DOMAIN rounds
      BY <2>1 DEF UpdateAnswer
    <2>4. RoundsStep
      BY <1>1, <2>1, <2>2 DEF RoundsStep
    <2>5. archived' = archived /\ schema' = schema
      BY <2>1 DEF UpdateAnswer
    <2> QED
      BY <2>2, <2>3, <2>4, <2>5
  <1>2. CASE call.kind = "assess" /\ call.value = "none"
    <2>1. ResetAssessment(call.round, call.question)
      BY <1>2 DEF Command
    <2>2. call.round \in RoundIds /\ call.question \in Asked
      BY <1>2, <2>1 DEF ResetAssessment, TakesEdits, Calls, Fits
    <2>3. DOMAIN rounds' = DOMAIN rounds
      BY <2>1 DEF ResetAssessment
    <2>4. RoundsStep
      BY <1>1, <2>1, <2>2 DEF RoundsStep
    <2>5. archived' = archived /\ schema' = schema
      BY <2>1 DEF ResetAssessment
    <2> QED
      BY <2>2, <2>3, <2>4, <2>5
  <1>3. CASE call.kind = "assess" /\ call.value # "none"
    <2>1. SetAssessment(call.round, call.question, call.value)
      BY <1>3 DEF Command
    <2>2. call.round \in RoundIds /\ call.question \in Asked /\ call.value \in Overrides
      BY <1>3, <2>1 DEF SetAssessment, TakesEdits, Calls, Fits
    <2>3. DOMAIN rounds' = DOMAIN rounds
      BY <2>1 DEF SetAssessment
    <2>4. RoundsStep
      BY <1>1, <2>1, <2>2 DEF RoundsStep
    <2>5. archived' = archived /\ schema' = schema
      BY <2>1 DEF SetAssessment
    <2> QED
      BY <2>2, <2>3, <2>4, <2>5
  <1>4. CASE call.kind = "finish"
    <2>1. FinishRound(call.round)
      BY <1>4 DEF Command
    <2>2. call.round \in RoundIds
      BY <2>1 DEF FinishRound
    <2>3. DOMAIN rounds' = DOMAIN rounds
      BY <2>1 DEF FinishRound
    <2>4. RoundsStep
      BY <1>1, <2>1, <2>2 DEF RoundsStep
    <2>5. archived' = archived /\ schema' = schema
      BY <2>1 DEF FinishRound
    <2> QED
      BY <2>2, <2>3, <2>4, <2>5
  <1>5. CASE call.kind \in {"start", "restart"}
    <2>1. CreateRound("INITIAL_INTAKE", schema)
      BY <1>5 DEF Command
    <2>2. schema \in (SUBSET Asked) \ {{}}
      BY <2>1 DEF CreateRound, Asks, Asked
    <2>3. RoundsStep
      BY <2>1, <2>2 DEF RoundsStep, RoundTypes
    <2>4. call.round = 0
      BY <1>5 DEF Calls, Fits
    <2>5. Len(rounds') > 0
      BY <2>1, AppendProperties DEF CreateRound
    <2> QED
      BY <2>1, <2>3, <2>4, <2>5 DEF CreateRound
  <1> QED
    BY <1>1, <1>2, <1>3, <1>4, <1>5 DEF Calls

-----------------------------------------------------------------------------
(* Every action keeps the types, and takes a step of the rounds.           *)

\* Rounds, schema and archive stay as they are.
LEMMA QuietStep ==
  ASSUME RoundsInv, UNCHANGED roundVars
  PROVE  RoundsInv' /\ RoundsStep
  BY DEF RoundsInv, roundVars, RoundsStep

\* Other pages and employees: rounds and types.
LEMMA ElsewhereStep ==
  ASSUME PageInv, Elsewhere
  PROVE  PageInv' /\ RoundsStep
  <1> USE DEF PageInv
  <1>1. page' \in Pages /\ client' \in [Asked -> Clients] /\ calls' \in Seq(Calls)
    BY DEF Elsewhere, pageVars
  <1>2. ASSUME NEW questions \in SUBSET Questions, PublishSchema(questions)
        PROVE  RoundsInv' /\ RoundsStep
    BY <1>2 DEF PublishSchema, RoundsInv, RoundsStep
  <1>3. ASSUME NEW type \in RoundTypes, NEW selected \in SUBSET Asked,
               CreateRound(type, selected)
        PROVE  RoundsInv' /\ RoundsStep
    <2>1. selected \in (SUBSET Asked) \ {{}}
      BY <1>3 DEF CreateRound, Asks
    <2>2. RoundsStep
      BY <1>3, <2>1 DEF RoundsStep
    <2>3. archived' = archived /\ schema' = schema
      BY <1>3 DEF CreateRound
    <2> QED
      BY <2>2, <2>3, RoundsStayTyped DEF RoundsInv
  <1>4. CASE MoveSummary
    <2>1. archived' = archived /\ schema' = schema /\ rounds' = rounds
      BY <1>4 DEF MoveSummary
    <2>2. RoundsInv'
      BY <2>1 DEF RoundsInv
    <2> QED
      BY <1>1, <2>1, <2>2 DEF RoundsStep
  <1>5. CASE ArchiveOrRestoreElsewhere
    <2>1. archived' \in BOOLEAN /\ schema' = schema /\ rounds' = rounds
      BY <1>5 DEF ArchiveOrRestoreElsewhere, RoundsInv
    <2>2. RoundsInv'
      BY <2>1 DEF RoundsInv
    <2> QED
      BY <1>1, <2>1, <2>2 DEF RoundsStep
  <1> QED
    BY <1>1, <1>2, <1>3, <1>4, <1>5 DEF Elsewhere

\* Opening the page of a round, or of none: rounds stay, types hold.
LEMMA OpenStep ==
  ASSUME PageInv, Open
  PROVE  PageInv' /\ RoundsStep
  <1>1. RoundsInv' /\ RoundsStep
    BY QuietStep DEF Open, PageInv
  <1>2. PICK r \in {0} \cup RoundIds :
          /\ page' = [NoPage EXCEPT !.number = page.number + 1, !.round = r,
                                    !.open = r # 0 /\ rounds[r].open,
                                    !.initial = r # 0 /\ rounds[r].type = "INITIAL_INTAKE",
                                    !.archived = archived]
          /\ client' = IF r = 0 THEN Empty ELSE Fresh(rounds[r])
    BY DEF Open
  <1>3. r # 0 => rounds[r] \in Rounds
    BY DEF PageInv, RoundsInv, RoundIds
  <1>4. client' \in [Asked -> Clients]
    BY <1>2, <1>3, StatesAreTyped
  <1>5. (r # 0 /\ rounds[r].open) \in BOOLEAN
    BY <1>3 DEF Rounds
  <1>6. r \in Nat /\ page.number + 1 \in Nat /\ archived \in BOOLEAN
    BY DEF PageInv, RoundsInv, RoundIds, Pages
  <1>7. page' \in Pages
    BY <1>2, <1>5, <1>6 DEF NoPage, Pages
  <1> QED
    BY <1>1, <1>4, <1>7 DEF Open, PageInv

\* Asking for a round from the page: rounds stay, types hold.
LEMMA StartRoundStep ==
  ASSUME PageInv, NEW retry \in BOOLEAN, StartRound(retry)
  PROVE  PageInv' /\ RoundsStep
  <1>1. RoundsInv' /\ RoundsStep
    BY QuietStep DEF StartRound, PageInv
  <1>2. page' \in Pages
    BY DEF StartRound, PageInv, Pages
  <1>3. ASSUME NEW kind \in {"start", "restart"}
        PROVE  Call(kind, None, None, 0) \in Calls
    BY DEF StartRound, Shown, PageInv, Pages, Call, Calls, Fits, Values
  <1>4. calls' \in Seq(Calls)
    BY <1>3, AppendProperties DEF StartRound, PageInv
  <1> QED
    BY <1>1, <1>2, <1>4 DEF StartRound, PageInv

\* Typing, choosing, assessing and retrying: rounds stay, types hold.
LEMMA EditingStep ==
  ASSUME PageInv, Editing
  PROVE  PageInv' /\ RoundsStep
  <1>0. PICK q \in Asked :
          \/ \E value \in RoundAnswers : TypeText(q, value)
          \/ \E value \in RoundAnswers \cup {None} : SetDraft(q, value)
          \/ RetryAnswer(q)
          \/ \E mode \in Overrides : SelectAssessment(q, mode)
          \/ SelectNotRelevant(q)
          \/ SaveNotRelevant(q)
          \/ RetryAssessment(q)
    BY DEF Editing
  <1>1. UNCHANGED <<roundVars, page>>
    BY <1>0 DEF TypeText, SetDraft, RetryAnswer, SelectAssessment, SelectNotRelevant,
                SaveNotRelevant, RetryAssessment
  <1>2. RoundsInv' /\ RoundsStep /\ page' \in Pages
    BY <1>1, QuietStep DEF PageInv
  <1>3. client[q] \in Clients
    BY DEF PageInv
  <1>4. client' \in [Asked -> Clients] /\ calls' \in Seq(Calls)
    <2>1. ASSUME NEW value \in RoundAnswers, TypeText(q, value)
          PROVE  client' \in [Asked -> Clients] /\ calls' \in Seq(Calls)
      <3>1. Drafted(client[q], value) \in Clients
        BY <1>3, PersistedIsTyped DEF Values
      <3>2. [Drafted(client[q], value) EXCEPT !.timer = TRUE] \in Clients
        BY <3>1 DEF Clients
      <3> QED
        BY <2>1, <3>2 DEF TypeText, PageInv
    <2>2. ASSUME NEW value \in Values, SetDraft(q, value)
          PROVE  client' \in [Asked -> Clients] /\ calls' \in Seq(Calls)
      <3>1. Persisted(Drafted(client[q], value)) \in Clients
        BY <1>3, PersistedIsTyped
      <3> QED
        BY <2>2, <3>1, BecomeIsTyped DEF SetDraft
    <2>3. CASE RetryAnswer(q)
      BY <1>3, <2>3, PersistedIsTyped, BecomeIsTyped DEF RetryAnswer
    <2>4. ASSUME NEW mode \in Overrides, SelectAssessment(q, mode)
          PROVE  client' \in [Asked -> Clients] /\ calls' \in Seq(Calls)
      BY <2>4, AssessIsTyped DEF SelectAssessment
    <2>5. CASE SelectNotRelevant(q)
      <3>1. [client[q] EXCEPT !.mode = "not-relevant"] \in Clients
        BY <1>3 DEF Clients, Overrides
      <3> QED
        BY <2>5, <3>1 DEF SelectNotRelevant, PageInv
    <2>6. CASE SaveNotRelevant(q)
      BY <2>6, AssessIsTyped DEF SaveNotRelevant, Overrides
    <2>7. CASE RetryAssessment(q)
      BY <1>3, <2>7, AssessIsTyped DEF RetryAssessment, Clients
    <2> QED
      BY <1>0, <2>1, <2>2, <2>3, <2>4, <2>5, <2>6, <2>7 DEF Values
  <1> QED
    BY <1>2, <1>4 DEF PageInv

\* The timer of a question: rounds stay, types hold.
LEMMA TimerStep ==
  ASSUME PageInv, NEW q \in Asked, TimerFires(q)
  PROVE  PageInv' /\ RoundsStep
  <1>1. RoundsInv' /\ RoundsStep /\ page' \in Pages
    BY QuietStep DEF TimerFires, PageInv
  <1>2. client[q] \in Clients
    BY DEF PageInv
  <1>3. [client[q] EXCEPT !.timer = FALSE] \in Clients
    BY <1>2 DEF Clients
  <1>4. Persisted(client[q]) \in Clients
    BY <1>2, PersistedIsTyped
  <1> QED
    BY <1>1, <1>3, <1>4, BecomeIsTyped DEF TimerFires, PageInv

\* Finishing, and its follow-up: rounds stay, types hold.
LEMMA FinishStep ==
  ASSUME PageInv, Finish \/ HandoffListed
  PROVE  PageInv' /\ RoundsStep
  <1>1. RoundsInv' /\ RoundsStep
    BY QuietStep DEF Finish, HandoffListed, PageInv
  <1>2. page' \in Pages
    BY DEF Finish, HandoffListed, PageInv, Pages
  <1>3. Call("finish", None, None, 0) \in Calls
    BY DEF Call, Calls, Fits, PageInv, Pages, Values
  <1>4. calls' \in Seq(Calls)
    BY <1>3, AppendProperties DEF Finish, HandoffListed, PageInv
  <1> QED
    BY <1>1, <1>2, <1>4 DEF Finish, HandoffListed, PageInv

\* A request served or lost: a command of the rounds, and types hold.
LEMMA ServeStep ==
  ASSUME PageInv, NEW i \in DOMAIN calls, Serve(i) \/ Lose(i)
  PROVE  PageInv' /\ RoundsStep
  <1>1. calls[i] \in Calls
    BY DEF PageInv
  <1>2. page' \in Pages /\ client' \in [Asked -> Clients]
    BY DEF Serve, Lose, PageInv
  <1>3. ASSUME NEW call \in Calls, calls' = [calls EXCEPT ![i] = call]
        PROVE  calls' \in Seq(Calls)
    BY <1>3 DEF PageInv
  <1>4. CASE Lose(i)
    <2>1. [calls[i] EXCEPT !.stage = "served", !.saved = <<>>] \in Calls
      BY <1>1, EmptySeq DEF Calls, Fits
    <2>2. calls' \in Seq(Calls)
      BY <1>3, <1>4, <2>1 DEF Lose, PageInv
    <2> QED
      BY <1>2, <1>4, <2>2, QuietStep DEF Lose, PageInv
  <1>5. CASE Serve(i) /\ ~Permitted(calls[i])
    <2>1. [calls[i] EXCEPT !.stage = "served"] \in Calls
      BY <1>1 DEF Calls, Fits
    <2>2. calls' \in Seq(Calls)
      BY <1>3, <1>5, <2>1 DEF Serve, Refused, PageInv
    <2> QED
      BY <1>2, <1>5, <2>2, QuietStep DEF Serve, Refused, PageInv
  <1>6. CASE Serve(i) /\ Permitted(calls[i])
    <2> DEFINE r == IF calls[i].round # 0 THEN calls[i].round ELSE Len(rounds')
               call == [calls[i] EXCEPT !.stage = "served", !.round = r,
                                        !.saved = <<rounds'[r]>>]
    <2>1. calls[i].stage = "sent" /\ Command(calls[i]) /\ Answered(i)
      BY <1>6 DEF Serve
    <2>2. /\ RoundsStep
          /\ archived' = archived /\ schema' = schema
          /\ calls[i].round # 0 => calls[i].round \in DOMAIN rounds'
          /\ calls[i].round = 0 => Len(rounds') > 0
      BY <1>1, <1>6, <2>1, CommandIsRoundsStep
    <2>3. RoundsInv'
      BY <2>2, RoundsStayTyped DEF RoundsInv, PageInv
    <2>4. r \in DOMAIN rounds' /\ r \in Nat
      BY <1>1, <2>2, <2>3 DEF RoundsInv, Calls
    <2>5. <<rounds'[r]>> \in Seq(Rounds)
      BY <2>3, <2>4 DEF RoundsInv
    <2>6. call \in Calls
      <3> HIDE DEF r
      <3> QED
        BY <1>1, <2>4, <2>5 DEF Calls, Fits
    <2>7. calls' \in Seq(Calls)
      BY <1>3, <2>1, <2>6 DEF Answered, PageInv
    <2> QED
      BY <1>2, <2>2, <2>3, <2>7 DEF PageInv
  <1> QED
    BY <1>4, <1>5, <1>6

\* An answer received or ignored: rounds stay, types hold.
LEMMA ReceiveStep ==
  ASSUME PageInv, NEW i \in DOMAIN calls, Receive(i) \/ Forget(i)
  PROVE  PageInv' /\ RoundsStep
  <1>1. calls[i] \in Calls /\ RemoveAt(calls, i) \in Seq(Calls)
    BY RemoveAtTyped DEF PageInv
  <1>2. RoundsInv' /\ RoundsStep
    BY QuietStep DEF Receive, ReceiveAnswer, ReceiveAssessment, ReceiveFinish,
                     ReceiveStart, Forget, PageInv
  <1>3. calls[i].saved # <<>> => calls[i].saved[1] \in Rounds
    BY <1>1, FirstOfSeq DEF Calls
  <1>4. CASE Forget(i)
    BY <1>1, <1>2, <1>4 DEF Forget, PageInv
  <1>5. CASE ReceiveAnswer(i)
    <2> DEFINE q == calls[i].question
               c == [client[q] EXCEPT !.inFlight = @ \ {calls[i].request}]
               next == IF calls[i].saved # <<>> THEN Stored(c, calls[i])
                       ELSE Failed(c, calls[i])
    <2>1. calls[i].kind = "answer" /\ q \in Asked
      BY <1>1, <1>5 DEF ReceiveAnswer, Arrives, Calls, Fits
    <2>2. c \in Clients
      <3>1. client[q] \in Clients
        BY <2>1 DEF PageInv
      <3>2. client[q].inFlight \ {calls[i].request} \in SUBSET Nat
        BY <3>1 DEF Clients
      <3> QED
        BY <3>1, <3>2 DEF Clients
    <2>3. next \in Clients
      <3> HIDE DEF c
      <3> QED
        BY <1>1, <2>1, <2>2, SettledIsTyped
    <2>4. Call("answer", q, next.draft, next.latest) \in Calls
      <3> HIDE DEF next, q
      <3> QED
        BY <2>1, <2>3, CallIsTyped DEF PageInv, Clients
    <2>5. /\ client' = [client EXCEPT ![q] = next]
          /\ calls' = IF next.latest # c.latest
                      THEN Append(RemoveAt(calls, i),
                                  Call("answer", q, next.draft, next.latest))
                      ELSE RemoveAt(calls, i)
          /\ page' = page
      BY <1>5 DEF ReceiveAnswer
    <2> HIDE DEF next, q, c
    <2>6. client' \in [Asked -> Clients]
      BY <2>3, <2>5 DEF PageInv
    <2>7. calls' \in Seq(Calls)
      BY <1>1, <2>4, <2>5, AppendProperties
    <2> QED
      BY <1>2, <2>5, <2>6, <2>7 DEF PageInv
  <1>6. CASE ReceiveAssessment(i)
    <2> DEFINE q == calls[i].question
               round == calls[i].saved[1]
               next == IF calls[i].saved = <<>>
                       THEN [client[q] EXCEPT !.checking = "error"]
                       ELSE WithAssessment(WithAnswer(client[q], round, q), round, q)
    <2>1. q \in Asked
      BY <1>1, <1>6 DEF ReceiveAssessment, Arrives, Calls, Fits
    <2>2. client[q] \in Clients
      BY <2>1 DEF PageInv
    <2>3. [client[q] EXCEPT !.checking = "error"] \in Clients
      BY <2>2 DEF Clients
    <2>4. next \in Clients
      BY <1>3, <2>1, <2>2, <2>3, StatesAreTyped
    <2>5. /\ client' = [client EXCEPT ![q] = next]
          /\ calls' = RemoveAt(calls, i)
          /\ page' = page
      BY <1>6, <2>1 DEF ReceiveAssessment, PageInv
    <2> HIDE DEF next, q
    <2> QED
      BY <1>1, <1>2, <2>4, <2>5 DEF PageInv
  <1>7. CASE ReceiveFinish(i)
    <2>1. page' \in Pages
      BY <1>7 DEF ReceiveFinish, PageInv, Pages
    <2>2. client' \in [Asked -> Clients]
      BY <1>3, <1>7, StatesAreTyped DEF ReceiveFinish, PageInv
    <2> QED
      BY <1>1, <1>2, <1>7, <2>1, <2>2 DEF ReceiveFinish, PageInv
  <1>8. CASE ReceiveStart(i)
    <2>1. ASSUME NEW round \in Rounds, NEW r \in Nat, Accept(round, r)
          PROVE  page' \in Pages /\ client' \in [Asked -> Clients]
      BY <2>1, StatesAreTyped DEF Accept, PageInv, Pages, Rounds
    <2>2. \A r \in RoundIds : r \in Nat /\ rounds[r] \in Rounds
      BY DEF PageInv, RoundsInv, RoundIds
    <2>3. calls[i].round \in Nat
      BY <1>1 DEF Calls
    <2>4. [page EXCEPT !.starting = FALSE] \in Pages /\ client \in [Asked -> Clients]
      BY DEF PageInv, Pages
    <2>5. page' \in Pages /\ client' \in [Asked -> Clients]
      BY <1>3, <1>8, <2>1, <2>2, <2>3, <2>4 DEF ReceiveStart
    <2> QED
      BY <1>1, <1>2, <1>8, <2>5 DEF ReceiveStart, PageInv
  <1> QED
    BY <1>4, <1>5, <1>6, <1>7, <1>8 DEF Receive

\* A step of the page and its API, or none.
LEMMA NextStep ==
  ASSUME PageInv, [Next]_vars
  PROVE  PageInv' /\ RoundsStep
  <1>1. CASE UNCHANGED vars
    <2>1. UNCHANGED roundVars /\ UNCHANGED pageVars
      BY <1>1 DEF vars
    <2> QED
      BY <2>1, QuietStep DEF PageInv, pageVars
  <1>2. CASE Next
    BY <1>2, ElsewhereStep, OpenStep, StartRoundStep, EditingStep, TimerStep,
       FinishStep, ServeStep, ReceiveStep DEF Next, Transport
  <1> QED
    BY <1>1, <1>2

\* The rounds and pages of the initial states.
LEMMA InitTyped ==
  ASSUME Init
  PROVE  PageInv
  <1>1. RoundsInv
    BY EmptySeq DEF Init, RoundsInit, RoundsInv
  <1>2. page \in Pages
    BY DEF Init, NoPage, Pages
  <1> QED
    BY <1>1, <1>2, StatesAreTyped, EmptySeq DEF Init, PageInv

\* Type correctness: drafts, requests and rounds keep their types, whatever
\* order requests are served and answered in (interview.page.ts).
THEOREM PageTypeCorrect == Spec => []PageInv
  <1>1. Init => PageInv
    BY InitTyped
  <1>2. PageInv /\ [Next]_vars => PageInv'
    BY NextStep
  <1> QED
    BY <1>1, <1>2, PTL DEF Spec

-----------------------------------------------------------------------------
(* Safety.                                                                 *)

\* A partial assessment stands on an answer (updateAnswer clears both at once,
\* normalizeAssessmentInput refuses an assessment without an answer).
LEMMA PartialKeepsItsAnswerStep ==
  ASSUME RoundsInv, RoundsStep, PartialKeepsItsAnswer
  PROVE  PartialKeepsItsAnswer'
  <1> USE DEF RoundsInv, RoundIds
  <1>1. CASE UNCHANGED rounds
    BY <1>1 DEF PartialKeepsItsAnswer
  <1>2. ASSUME NEW type \in RoundTypes, NEW selected \in (SUBSET Asked) \ {{}},
               CreateRound(type, selected)
        PROVE  PartialKeepsItsAnswer'
    <2>1. rounds' = Append(rounds, NewRound(type, selected))
      BY <1>2 DEF CreateRound
    <2>2. \A r \in RoundIds' : \/ r \in RoundIds /\ rounds'[r] = rounds[r]
                               \/ rounds'[r] = NewRound(type, selected)
      BY <2>1, AppendProperties
    <2>3. \A q \in Asked : NewRound(type, selected).override[q] = "none"
      BY DEF NewRound
    <2> QED
      BY <2>2, <2>3 DEF PartialKeepsItsAnswer
  <1>3. ASSUME NEW r \in RoundIds, NEW round,
               rounds' = [rounds EXCEPT ![r] = round],
               \A q \in Asked : round.override[q] = "partial" => round.answer[q] # None
        PROVE  PartialKeepsItsAnswer'
    <2>1. /\ RoundIds' = RoundIds
          /\ rounds'[r] = round
          /\ \A s \in RoundIds : s # r => rounds'[s] = rounds[s]
      BY <1>3
    <2> QED
      BY <1>3, <2>1 DEF PartialKeepsItsAnswer
  <1>4. \A r \in RoundIds : rounds[r] \in Rounds
    OBVIOUS
  <1>5. ASSUME NEW r \in RoundIds, FinishRound(r)
        PROVE  PartialKeepsItsAnswer'
    <2>1. rounds' = [rounds EXCEPT ![r] = [rounds[r] EXCEPT !.open = FALSE]]
      BY <1>5 DEF FinishRound
    <2>2. \A q \in Asked : [rounds[r] EXCEPT !.open = FALSE].override[q] = "partial"
                         => [rounds[r] EXCEPT !.open = FALSE].answer[q] # None
      BY <1>4 DEF PartialKeepsItsAnswer, Rounds
    <2> QED
      BY <1>3, <2>1, <2>2
  <1>6. ASSUME NEW r \in RoundIds, NEW q \in Asked, NEW value \in Values,
               UpdateAnswer(r, q, value)
        PROVE  PartialKeepsItsAnswer'
    <2> DEFINE round == UpdatedRound(rounds[r], q, value)
    <2>1. rounds' = [rounds EXCEPT ![r] = round]
      BY <1>6 DEF UpdateAnswer
    <2>2. ASSUME NEW s \in Asked, round.override[s] = "partial"
          PROVE  round.answer[s] # None
      BY <1>4, <2>2 DEF PartialKeepsItsAnswer, UpdatedRound, ClearedAnswer, Rounds
    <2> HIDE DEF round
    <2> QED
      BY <1>3, <2>1, <2>2
  <1>7. ASSUME NEW r \in RoundIds, NEW q \in Asked, NEW mode \in Overrides,
               SetAssessment(r, q, mode)
        PROVE  PartialKeepsItsAnswer'
    <2> DEFINE round == [rounds[r] EXCEPT !.override[q] = mode]
    <2>1. rounds' = [rounds EXCEPT ![r] = round]
      BY <1>7 DEF SetAssessment
    <2>2. mode = "partial" => rounds[r].answer[q] # None
      BY <1>7 DEF SetAssessment, Assessable
    <2>3. ASSUME NEW s \in Asked, round.override[s] = "partial"
          PROVE  round.answer[s] # None
      BY <1>4, <2>2, <2>3 DEF PartialKeepsItsAnswer, Rounds
    <2> HIDE DEF round
    <2> QED
      BY <1>3, <2>1, <2>3
  <1>8. ASSUME NEW r \in RoundIds, NEW q \in Asked, ResetAssessment(r, q)
        PROVE  PartialKeepsItsAnswer'
    <2> DEFINE round == [rounds[r] EXCEPT !.override[q] = "none"]
    <2>1. rounds' = [rounds EXCEPT ![r] = round]
      BY <1>8 DEF ResetAssessment
    <2>2. ASSUME NEW s \in Asked, round.override[s] = "partial"
          PROVE  round.answer[s] # None
      BY <1>4, <2>2 DEF PartialKeepsItsAnswer, Rounds
    <2> HIDE DEF round
    <2> QED
      BY <1>3, <2>1, <2>2
  <1> QED
    BY <1>1, <1>2, <1>5, <1>6, <1>7, <1>8 DEF RoundsStep

\* In every round, also in the ones of other pages, a partial assessment has an
\* answer, in whatever order answers and assessments are served.
THEOREM PartialKeepsItsAnswerHolds == Spec => []PartialKeepsItsAnswer
  <1>1. Init => PageInv /\ PartialKeepsItsAnswer
    <2>1. Init => PageInv
      BY InitTyped
    <2>2. Init => PartialKeepsItsAnswer
      BY DEF Init, RoundsInit, PartialKeepsItsAnswer, RoundIds
    <2> QED
      BY <2>1, <2>2
  <1>2. PageInv /\ PartialKeepsItsAnswer /\ [Next]_vars
          => (PageInv /\ PartialKeepsItsAnswer)'
    BY NextStep, PartialKeepsItsAnswerStep DEF PageInv
  <1> QED
    BY <1>1, <1>2, PTL DEF Spec

\* What a step may do to a round that has ended: nothing to an additional one,
\* and none is opened again (requireEditableRound, finishRound).
LEMMA EndedRoundsStep ==
  ASSUME RoundsInv, RoundsStep, NEW r \in RoundIds, ~rounds[r].open
  PROVE  /\ ~rounds'[r].open
         /\ rounds[r].type # "INITIAL_INTAKE" => rounds'[r] = rounds[r]
  <1> USE DEF RoundsInv, RoundIds
  <1>0. rounds[r] \in Rounds
    OBVIOUS
  <1>1. CASE UNCHANGED rounds
    BY <1>1
  <1>2. ASSUME NEW type \in RoundTypes, NEW selected \in (SUBSET Asked) \ {{}},
               CreateRound(type, selected)
        PROVE  rounds'[r] = rounds[r]
    BY <1>2, AppendProperties DEF CreateRound
  <1>3. ASSUME NEW s \in RoundIds, FinishRound(s)
        PROVE  rounds'[r] = rounds[r]
    <2>1. rounds' = [rounds EXCEPT ![s] = [rounds[s] EXCEPT !.open = FALSE]]
      BY <1>3 DEF FinishRound
    <2>2. [rounds[r] EXCEPT !.open = FALSE] = rounds[r]
      BY <1>0 DEF Rounds
    <2>3. CASE s = r
      <3>1. rounds' = [rounds EXCEPT ![r] = rounds[r]]
        BY <2>1, <2>2, <2>3
      <3> QED
        BY <3>1
    <2>4. CASE s # r
      BY <2>1, <2>4
    <2> QED
      BY <2>3, <2>4
  <1>4. ASSUME NEW s \in RoundIds, NEW q \in Asked,
               \/ \E value \in Values : UpdateAnswer(s, q, value)
               \/ \E mode \in Overrides : SetAssessment(s, q, mode)
               \/ ResetAssessment(s, q)
        PROVE  /\ ~rounds'[r].open
               /\ rounds[r].type # "INITIAL_INTAKE" => rounds'[r] = rounds[r]
    <2>1. RoundIsEditable(s)
      BY <1>4 DEF UpdateAnswer, SetAssessment, ResetAssessment, TakesEdits
    <2>2. CASE s # r
      BY <1>4, <2>2 DEF UpdateAnswer, SetAssessment, ResetAssessment
    <2>3. CASE s = r
      <3>1. rounds[r].type = "INITIAL_INTAKE"
        BY <2>1, <2>3 DEF RoundIsEditable
      <3>2. ASSUME NEW value \in Values, UpdateAnswer(r, q, value)
            PROVE  rounds'[r].open = rounds[r].open
        <4>1. rounds' = [rounds EXCEPT ![r] = UpdatedRound(rounds[r], q, value)]
          BY <3>2 DEF UpdateAnswer
        <4>2. rounds'[r] = UpdatedRound(rounds[r], q, value)
          BY <4>1
        <4>3. UpdatedRound(rounds[r], q, value).open = rounds[r].open
          BY <1>0 DEF UpdatedRound, ClearedAnswer, Rounds
        <4> QED
          BY <4>2, <4>3
      <3>3. ASSUME NEW mode \in Overrides,
                   rounds' = [rounds EXCEPT ![r] = [rounds[r] EXCEPT !.override[q] = mode]]
            PROVE  rounds'[r].open = rounds[r].open
        <4>1. rounds'[r] = [rounds[r] EXCEPT !.override[q] = mode]
          BY <3>3
        <4> QED
          BY <4>1, <1>0 DEF Rounds
      <3>4. ASSUME NEW mode \in Overrides, SetAssessment(r, q, mode)
            PROVE  rounds'[r].open = rounds[r].open
        <4>1. rounds' = [rounds EXCEPT ![r] = [rounds[r] EXCEPT !.override[q] = mode]]
          BY <3>4 DEF SetAssessment
        <4> QED
          BY <3>3, <4>1
      <3>5. ASSUME ResetAssessment(r, q)
            PROVE  rounds'[r].open = rounds[r].open
        <4>1. rounds' = [rounds EXCEPT ![r] = [rounds[r] EXCEPT !.override[q] = "none"]]
          BY <3>5 DEF ResetAssessment
        <4> QED
          BY <3>3, <4>1 DEF Overrides
      <3>6. rounds'[r].open = rounds[r].open
        BY <1>4, <2>3, <3>2, <3>4, <3>5
      <3> QED
        BY <3>1, <3>6
    <2> QED
      BY <2>2, <2>3
  <1> QED
    BY <1>1, <1>2, <1>3, <1>4 DEF RoundsStep

\* No round opens again, and an additional round is final once it has ended.
THEOREM EndedRoundsStayAsTheyAreHolds == Spec => EndedRoundsStayAsTheyAre
  <1>1. Init => PageInv
    BY InitTyped
  <1>2. PageInv /\ [Next]_vars => PageInv'
    BY NextStep
  <1>3. PageInv /\ [Next]_vars
          => [\A r \in RoundIds :
                ~rounds[r].open =>
                  /\ ~rounds'[r].open
                  /\ rounds[r].type # "INITIAL_INTAKE" => rounds'[r] = rounds[r]]_vars
    BY NextStep, EndedRoundsStep DEF PageInv
  <1> QED
    BY <1>1, <1>2, <1>3, PTL DEF Spec, EndedRoundsStayAsTheyAre

-----------------------------------------------------------------------------
(* Drafts.  A question may show "Saved" or nothing at all only over a draft *)
(* that is stored: neither a save under way, nor an error, nor a timer.     *)
(* Two facts carry this: nothing is typed while a round is completed, when  *)
(* a timer that fires is dropped, and an answer that the API returns is the *)
(* one it was asked to store.                                               *)

\* What the property says of one question.
Settled(c) == (c.status \in {"idle", "saved"} /\ ~c.timer) => c.draft = c.persisted

DraftsSettled == (Shown /\ page.open) => \A q \in Asked : Settled(client[q])

\* finishRound disables the page when no timer is left, and locks editing.
NoTimerWhileCompleting == page.completing => \A q \in Asked : ~client[q].timer

\* The round in the answer to a save holds the value that was sent.
ReturnsItsValue(call) ==
  (call.kind = "answer" /\ call.saved # <<>>) =>
    call.saved[1].answer[call.question] = call.value

Saves == {call \in Calls : ReturnsItsValue(call)}

DraftInv ==
  /\ PageInv
  /\ DraftsSettled
  /\ NoTimerWhileCompleting
  /\ calls \in Seq(Saves)

\* A question as it was loaded is settled, and has no timer of a page before.
LEMMA LoadedIsSettled ==
  /\ Blank \in Clients /\ ~Blank.timer /\ Settled(Blank)
  /\ \A c \in Clients, round \in Rounds, q \in Asked :
       /\ Settled(WithAssessment(WithAnswer(c, round, q), round, q))
       /\ WithAssessment(WithAnswer(c, round, q), round, q).timer = c.timer
  /\ \A round \in Rounds, q \in Asked :
       Settled(Fresh(round)[q]) /\ ~Fresh(round)[q].timer
  <1>1. Blank \in Clients /\ ~Blank.timer /\ Settled(Blank)
    BY StatesAreTyped DEF Blank, Settled
  <1>2. ASSUME NEW c \in Clients, NEW round \in Rounds, NEW q \in Asked
        PROVE  /\ Settled(WithAssessment(WithAnswer(c, round, q), round, q))
               /\ WithAssessment(WithAnswer(c, round, q), round, q).timer = c.timer
    BY <1>2 DEF Settled, WithAssessment, WithAnswer, Clients
  <1> QED
    BY <1>1, <1>2 DEF Fresh

\* What saving makes of a draft: settled at once, or a save under way.
LEMMA PersistedIsSettled ==
  ASSUME NEW c \in Clients
  PROVE  /\ Settled(Persisted(c)) /\ ~Persisted(c).timer
         /\ Settled(Resend(c)) /\ (~c.timer => ~Resend(c).timer)
         /\ Settled(c) => Settled(Waiting(c))
         /\ Waiting(c).timer = c.timer
  <1>1. ASSUME NEW d \in Clients
        PROVE  Settled(Persisted(d)) /\ ~Persisted(d).timer
    BY <1>1 DEF Settled, Persisted, Clients
  <1>2. [c EXCEPT !.status = "saving"] \in Clients
    BY DEF Clients
  <1>3. /\ Settled([c EXCEPT !.status = "saving"])
        /\ [c EXCEPT !.status = "saving"].timer = c.timer
    BY DEF Settled, Clients
  <1>4. Settled(Resend(c)) /\ (~c.timer => ~Resend(c).timer)
    BY <1>1, <1>2, <1>3 DEF Resend
  <1>5. (Settled(c) => Settled(Waiting(c))) /\ Waiting(c).timer = c.timer
    BY <1>3 DEF Waiting
  <1> QED
    BY <1>1, <1>4, <1>5

\* What the answer to a save makes of a question (handlePersistSuccess,
\* handlePersistError): settled when it was, without a new timer.
LEMMA ReceivedIsSettled ==
  ASSUME NEW c \in Clients, NEW call \in Calls, call.kind = "answer",
         ReturnsItsValue(call)
  PROVE  /\ call.saved # <<>> /\ Settled(c) => Settled(Stored(c, call))
         /\ call.saved # <<>> /\ ~c.timer => ~Stored(c, call).timer
         /\ Settled(c) => Settled(Failed(c, call))
         /\ ~c.timer => ~Failed(c, call).timer
  <1>1. /\ Settled([c EXCEPT !.status = "error"])
        /\ [c EXCEPT !.status = "error"].timer = c.timer
    BY DEF Settled, Clients
  <1>2. /\ Settled(c) => Settled(Failed(c, call))
        /\ ~c.timer => ~Failed(c, call).timer
    BY <1>1, PersistedIsSettled DEF Failed
  <1>3. ASSUME call.saved # <<>>
        PROVE  /\ Settled(c) => Settled(Stored(c, call))
               /\ ~c.timer => ~Stored(c, call).timer
    <2> DEFINE round == call.saved[1]
               q == call.question
               base == IF AssessmentWork(c) THEN c ELSE WithAssessment(c, round, q)
               last == [base EXCEPT !.persisted = round.answer[q],
                                    !.answered = round.answer[q] # None,
                                    !.status = IF c.inFlight # {} THEN "saving"
                                               ELSE SavedState(round.answer[q])]
    <2>1. round \in Rounds /\ q \in Asked
      BY <1>3, FirstOfSeq DEF Calls, Fits
    <2>2. round.answer[q] = call.value
      BY <1>3 DEF ReturnsItsValue
    <2>3. base \in Clients
      BY <2>1, StatesAreTyped
    <2>4. base.draft = c.draft /\ base.timer = c.timer
      BY DEF WithAssessment, Clients
    <2>5. last.timer = c.timer /\ last.persisted = call.value /\ last.draft = c.draft
      <3> HIDE DEF base, round, q
      <3> QED
        BY <2>2, <2>3, <2>4 DEF Clients
    <2>6. Stored(c, call) =
            IF Overtaken(c, call) THEN Waiting(c)
            ELSE IF c.draft # call.value
                 THEN IF c.inFlight # {} THEN Waiting(c) ELSE Resend(c)
                 ELSE last
      BY DEF Stored
    <2> HIDE DEF last
    <2>7. CASE Stored(c, call) = last /\ c.draft = call.value
      BY <2>5, <2>7 DEF Settled
    <2>8. CASE Stored(c, call) \in {Waiting(c), Resend(c)}
      BY <2>8, PersistedIsSettled
    <2> QED
      BY <2>6, <2>7, <2>8
  <1> QED
    BY <1>2, <1>3

\* A question gets a new state, with the request that saves its draft.
LEMMA BecomeKeepsDrafts ==
  ASSUME DraftInv, NEW q \in Asked, NEW c \in Clients, Become(q, c), page' = page,
         page.open => Settled(c),
         ~client[q].timer => ~c.timer
  PROVE  DraftsSettled' /\ NoTimerWhileCompleting' /\ calls' \in Seq(Saves)
  <1>1. client' = [client EXCEPT ![q] = c] /\ client \in [Asked -> Clients]
    BY DEF Become, DraftInv, PageInv
  <1>2. DraftsSettled'
    BY <1>1 DEF DraftsSettled, Shown, DraftInv
  <1>3. NoTimerWhileCompleting'
    BY <1>1 DEF NoTimerWhileCompleting, DraftInv
  <1>4. Call("answer", q, c.draft, c.latest) \in Saves
    <2>1. Call("answer", q, c.draft, c.latest) \in Calls
      BY CallIsTyped DEF DraftInv, PageInv, Clients
    <2> QED
      BY <2>1 DEF Saves, ReturnsItsValue, Call
  <1>5. calls' \in Seq(Saves)
    BY <1>4, AppendProperties DEF Become, DraftInv
  <1> QED
    BY <1>2, <1>3, <1>5

\* Choosing an assessment leaves drafts and timers alone.
LEMMA AssessKeepsDrafts ==
  ASSUME DraftInv, NEW q \in Asked, NEW mode \in Overrides, Assess(q, mode), page' = page
  PROVE  DraftsSettled' /\ NoTimerWhileCompleting' /\ calls' \in Seq(Saves)
  <1>1. client \in [Asked -> Clients]
    BY DEF DraftInv, PageInv
  <1>2. \A s \in Asked : /\ client'[s].draft = client[s].draft
                         /\ client'[s].persisted = client[s].persisted
                         /\ client'[s].status = client[s].status
                         /\ client'[s].timer = client[s].timer
    BY <1>1 DEF Assess, Clients
  <1>3. DraftsSettled' /\ NoTimerWhileCompleting'
    BY <1>2 DEF DraftsSettled, Settled, Shown, NoTimerWhileCompleting, DraftInv
  <1>4. Call("assess", q, mode, 0) \in Saves
    <2>1. Call("assess", q, mode, 0) \in Calls
      BY CallIsTyped DEF DraftInv, PageInv
    <2> QED
      BY <2>1 DEF Saves, ReturnsItsValue, Call
  <1>5. calls' \in Seq(Saves)
    BY <1>4, AppendProperties DEF Assess, DraftInv
  <1> QED
    BY <1>3, <1>5

\* What the user does to a question (setTextDraft, setDiscreteDraft, retries and
\* assessments) is possible only while nothing is completed.
LEMMA EditingKeepsDrafts ==
  ASSUME DraftInv, Editing
  PROVE  DraftsSettled' /\ NoTimerWhileCompleting' /\ calls' \in Seq(Saves)
  <1>0. PICK q \in Asked :
          \/ \E value \in RoundAnswers : TypeText(q, value)
          \/ \E value \in RoundAnswers \cup {None} : SetDraft(q, value)
          \/ RetryAnswer(q)
          \/ \E mode \in Overrides : SelectAssessment(q, mode)
          \/ SelectNotRelevant(q)
          \/ SaveNotRelevant(q)
          \/ RetryAssessment(q)
    BY DEF Editing
  <1>1. client \in [Asked -> Clients] /\ client[q] \in Clients
    BY DEF DraftInv, PageInv
  <1>2. ASSUME NEW value \in RoundAnswers, TypeText(q, value)
        PROVE  DraftsSettled' /\ NoTimerWhileCompleting' /\ calls' \in Seq(Saves)
    <2> DEFINE c == [Drafted(client[q], value) EXCEPT !.timer = TRUE]
    <2>1. /\ client' = [client EXCEPT ![q] = c]
          /\ page' = page /\ calls' = calls /\ ~page.completing
      BY <1>2 DEF TypeText, Locked
    <2>2. Drafted(client[q], value) \in Clients
      BY <1>1, PersistedIsTyped DEF Values
    <2>3. c.timer
      BY <2>2 DEF Clients
    <2> HIDE DEF c
    <2>4. DraftsSettled'
      BY <1>1, <2>1, <2>3 DEF DraftsSettled, Settled, Shown, DraftInv
    <2> QED
      BY <2>1, <2>4 DEF NoTimerWhileCompleting, DraftInv
  <1>3. ASSUME NEW value \in Values, SetDraft(q, value)
        PROVE  DraftsSettled' /\ NoTimerWhileCompleting' /\ calls' \in Seq(Saves)
    <2>1. Drafted(client[q], value) \in Clients
      BY <1>1, PersistedIsTyped
    <2>2. /\ Persisted(Drafted(client[q], value)) \in Clients
          /\ Settled(Persisted(Drafted(client[q], value)))
          /\ ~Persisted(Drafted(client[q], value)).timer
      BY <2>1, PersistedIsTyped, PersistedIsSettled
    <2> QED
      BY <1>3, <2>2, BecomeKeepsDrafts DEF SetDraft
  <1>4. CASE RetryAnswer(q)
    <2>1. /\ Persisted(client[q]) \in Clients
          /\ Settled(Persisted(client[q]))
          /\ ~Persisted(client[q]).timer
      BY <1>1, PersistedIsTyped, PersistedIsSettled
    <2> QED
      BY <1>4, <2>1, BecomeKeepsDrafts DEF RetryAnswer
  <1>5. ASSUME NEW mode \in Overrides, SelectAssessment(q, mode)
        PROVE  DraftsSettled' /\ NoTimerWhileCompleting' /\ calls' \in Seq(Saves)
    BY <1>5, AssessKeepsDrafts DEF SelectAssessment
  <1>6. CASE SelectNotRelevant(q)
    <2>1. \A s \in Asked : /\ client'[s].draft = client[s].draft
                           /\ client'[s].persisted = client[s].persisted
                           /\ client'[s].status = client[s].status
                           /\ client'[s].timer = client[s].timer
      BY <1>1, <1>6 DEF SelectNotRelevant, Clients
    <2> QED
      BY <1>6, <2>1 DEF SelectNotRelevant, DraftsSettled, Settled, Shown,
                        NoTimerWhileCompleting, DraftInv
  <1>7. CASE SaveNotRelevant(q)
    BY <1>7, AssessKeepsDrafts DEF SaveNotRelevant, Overrides
  <1>8. CASE RetryAssessment(q)
    BY <1>1, <1>8, AssessKeepsDrafts DEF RetryAssessment, Clients
  <1> QED
    BY <1>0, <1>2, <1>3, <1>4, <1>5, <1>6, <1>7, <1>8 DEF Values

\* A timer saves the draft; where it is dropped, the round is closed, or it is
\* being completed, when there is no timer.
LEMMA TimerKeepsDrafts ==
  ASSUME DraftInv, NEW q \in Asked, TimerFires(q)
  PROVE  DraftsSettled' /\ NoTimerWhileCompleting' /\ calls' \in Seq(Saves)
  <1>1. client[q] \in Clients /\ client[q].timer /\ page' = page
    BY DEF DraftInv, PageInv, TimerFires
  <1>2. CASE ReadOnly
    <2>1. [client[q] EXCEPT !.timer = FALSE] \in Clients /\ ~page.open
      BY <1>1, <1>2 DEF Clients, ReadOnly
    <2> QED
      BY <1>1, <1>2, <2>1, BecomeKeepsDrafts DEF TimerFires
  <1>3. CASE ~ReadOnly
    <2>1. ~page.completing
      BY <1>1 DEF DraftInv, NoTimerWhileCompleting
    <2>2. Become(q, Persisted(client[q]))
      BY <1>3, <2>1 DEF TimerFires
    <2>3. Persisted(client[q]) \in Clients /\ Settled(Persisted(client[q]))
      BY <1>1, PersistedIsTyped, PersistedIsSettled
    <2>4. ~client[q].timer => ~Persisted(client[q]).timer
      BY <1>1
    <2> QED
      BY <1>1, <2>2, <2>3, <2>4, BecomeKeepsDrafts
  <1> QED
    BY <1>2, <1>3

\* Opening a page, starting a round, completing it, and the hand-off list.
LEMMA PageStepsKeepDrafts ==
  ASSUME DraftInv,
         Open \/ (\E retry \in BOOLEAN : StartRound(retry)) \/ Finish \/ HandoffListed
  PROVE  DraftsSettled' /\ NoTimerWhileCompleting' /\ calls' \in Seq(Saves)
  <1>1. CASE Open
    <2>1. PICK r \in {0} \cup RoundIds :
            /\ page' = [NoPage EXCEPT !.number = page.number + 1, !.round = r,
                                      !.open = r # 0 /\ rounds[r].open,
                                      !.initial = r # 0 /\ rounds[r].type = "INITIAL_INTAKE",
                                      !.archived = archived]
            /\ client' = IF r = 0 THEN Empty ELSE Fresh(rounds[r])
      BY <1>1 DEF Open
    <2>2. r # 0 => rounds[r] \in Rounds
      BY DEF DraftInv, PageInv, RoundsInv, RoundIds
    <2>3. \A q \in Asked : Settled(client'[q])
      BY <2>1, <2>2, LoadedIsSettled DEF Empty
    <2>4. ~page'.completing
      BY <2>1 DEF NoPage
    <2> QED
      BY <1>1, <2>3, <2>4 DEF Open, DraftsSettled, NoTimerWhileCompleting, DraftInv
  <1>2. ASSUME NEW retry \in BOOLEAN, StartRound(retry)
        PROVE  DraftsSettled' /\ NoTimerWhileCompleting' /\ calls' \in Seq(Saves)
    <2>1. ASSUME NEW kind \in {"start", "restart"}
          PROVE  Call(kind, None, None, 0) \in Saves
      BY <1>2 DEF StartRound, Shown, DraftInv, PageInv, Pages, Call, Calls, Fits, Values,
                  Saves, ReturnsItsValue
    <2>2. calls' \in Seq(Saves)
      BY <1>2, <2>1, AppendProperties DEF StartRound, DraftInv
    <2>3. /\ page'.round = page.round /\ page'.open = page.open
          /\ page'.completing = page.completing /\ client' = client
      BY <1>2 DEF StartRound, DraftInv, PageInv, Pages
    <2> QED
      BY <2>2, <2>3 DEF DraftsSettled, Shown, NoTimerWhileCompleting, DraftInv
  <1>3. CASE Finish
    <2>1. Call("finish", None, None, 0) \in Saves
      BY DEF Call, Calls, Fits, DraftInv, PageInv, Pages, Values, Saves, ReturnsItsValue
    <2>2. calls' \in Seq(Saves)
      BY <1>3, <2>1, AppendProperties DEF Finish, DraftInv
    <2>3. page'.round = page.round /\ page'.open = page.open /\ client' = client
      BY <1>3 DEF Finish, DraftInv, PageInv, Pages
    <2>4. \A q \in Asked : ~client[q].timer
      BY <1>3 DEF Finish, CompleteEnabled, HasTimers
    <2> QED
      BY <2>2, <2>3, <2>4 DEF DraftsSettled, Shown, NoTimerWhileCompleting, DraftInv
  <1>4. CASE HandoffListed
    <2>1. /\ page'.open = page.open /\ ~page.open
          /\ page'.completing = page.completing /\ client' = client /\ calls' = calls
      BY <1>4 DEF HandoffListed, DraftInv, PageInv, Pages
    <2> QED
      BY <2>1 DEF DraftsSettled, NoTimerWhileCompleting, DraftInv
  <1> QED
    BY <1>1, <1>2, <1>3, <1>4

\* A save that the API carries out returns the round with the value it stored
\* (updateAnswer); every other call is not about an answer, or returns nothing.
LEMMA ServeKeepsDrafts ==
  ASSUME DraftInv, NEW i \in DOMAIN calls, Serve(i) \/ Lose(i)
  PROVE  calls' \in Seq(Saves)
  <1>1. calls[i] \in Saves /\ calls[i] \in Calls
    BY DEF DraftInv, PageInv
  <1>2. calls' \in Seq(Calls)
    BY ServeStep DEF DraftInv, PageInv
  <1>3. ASSUME NEW call, calls' = [calls EXCEPT ![i] = call], ReturnsItsValue(call)
        PROVE  calls' \in Seq(Saves)
    <2>1. Len(calls') = Len(calls) /\ Len(calls) \in Nat /\ DOMAIN calls = 1..Len(calls)
      BY <1>2, <1>3 DEF DraftInv, PageInv
    <2>2. calls'[i] = call /\ \A j \in DOMAIN calls : j # i => calls'[j] = calls[j]
      BY <1>3
    <2>3. call \in Calls
      BY <1>2, <2>1, <2>2
    <2>4. \A j \in 1..Len(calls') : calls'[j] \in Saves
      BY <1>3, <2>1, <2>2, <2>3 DEF Saves, DraftInv
    <2> QED
      BY <1>2, <2>4
  <1>4. CASE Lose(i)
    <2>1. ReturnsItsValue([calls[i] EXCEPT !.stage = "served", !.saved = <<>>])
      BY <1>1 DEF ReturnsItsValue, Calls
    <2> QED
      BY <1>3, <1>4, <2>1 DEF Lose
  <1>5. CASE Serve(i) /\ ~Permitted(calls[i])
    <2>1. ReturnsItsValue([calls[i] EXCEPT !.stage = "served"])
      BY <1>1 DEF ReturnsItsValue, Saves, Calls
    <2> QED
      BY <1>3, <1>5, <2>1 DEF Serve, Refused
  <1>6. CASE Serve(i) /\ Permitted(calls[i])
    <2> DEFINE r == IF calls[i].round # 0 THEN calls[i].round ELSE Len(rounds')
               call == [calls[i] EXCEPT !.stage = "served", !.round = r,
                                        !.saved = <<rounds'[r]>>]
    <2>1. Command(calls[i]) /\ calls' = [calls EXCEPT ![i] = call]
      BY <1>6 DEF Serve, Answered
    <2>2. /\ call.kind = calls[i].kind /\ call.question = calls[i].question
          /\ call.value = calls[i].value /\ call.saved = <<rounds'[r]>>
      <3> HIDE DEF r
      <3> QED
        BY <1>1 DEF Calls
    <2>3. ASSUME calls[i].kind = "answer"
          PROVE  rounds'[r].answer[calls[i].question] = calls[i].value
      <3> DEFINE q == calls[i].question
                 value == calls[i].value
                 s == calls[i].round
      <3>1. UpdateAnswer(s, q, value)
        BY <2>1, <2>3 DEF Command
      <3>2. q \in Asked /\ value \in Values /\ s \in RoundIds
        BY <1>1, <2>3, <3>1 DEF Calls, Fits, UpdateAnswer, TakesEdits
      <3>3. r = s /\ rounds[s] \in Rounds
        BY <3>2 DEF RoundIds, DraftInv, PageInv, RoundsInv
      <3>4. rounds'[s] = UpdatedRound(rounds[s], q, value)
        BY <3>1, <3>2 DEF UpdateAnswer, RoundIds, DraftInv, PageInv, RoundsInv
      <3> HIDE DEF q, value, s, r
      <3>5. UpdatedRound(rounds[s], q, value).answer[q] = value
        BY <3>2, <3>3 DEF UpdatedRound, ClearedAnswer, Rounds
      <3> QED
        BY <3>3, <3>4, <3>5 DEF q, value
    <2> HIDE DEF r, call
    <2>4. ReturnsItsValue(call)
      BY <2>2, <2>3 DEF ReturnsItsValue
    <2> QED
      BY <1>3, <2>1, <2>4
  <1> QED
    BY <1>4, <1>5, <1>6

\* What the answers of the API do to the page: one that comes late, or fails,
\* leaves a question that shows its draft as settled or as being saved.
LEMMA ReceiveKeepsDrafts ==
  ASSUME DraftInv, NEW i \in DOMAIN calls, Receive(i) \/ Forget(i)
  PROVE  DraftsSettled' /\ NoTimerWhileCompleting' /\ calls' \in Seq(Saves)
  <1>1. /\ calls[i] \in Saves /\ calls[i] \in Calls
        /\ RemoveAt(calls, i) \in Seq(Saves)
    BY RemoveAtTyped DEF DraftInv, PageInv
  <1>2. calls[i].saved # <<>> => calls[i].saved[1] \in Rounds
    BY <1>1, FirstOfSeq DEF Calls
  <1>3. client \in [Asked -> Clients]
    BY DEF DraftInv, PageInv
  <1>4. CASE Forget(i)
    BY <1>1, <1>4 DEF Forget, DraftInv, DraftsSettled, Shown, NoTimerWhileCompleting
  <1>5. CASE ReceiveAnswer(i)
    <2> DEFINE q == calls[i].question
               c == [client[q] EXCEPT !.inFlight = @ \ {calls[i].request}]
               next == IF calls[i].saved # <<>> THEN Stored(c, calls[i])
                       ELSE Failed(c, calls[i])
    <2>1. calls[i].kind = "answer" /\ q \in Asked /\ ReturnsItsValue(calls[i])
      BY <1>1, <1>5 DEF ReceiveAnswer, Arrives, Calls, Fits, Saves
    <2>2. /\ c \in Clients
          /\ Settled(client[q]) => Settled(c)
          /\ c.timer = client[q].timer
      <3>1. client[q] \in Clients
        BY <1>3, <2>1
      <3>2. client[q].inFlight \ {calls[i].request} \in SUBSET Nat
        BY <3>1 DEF Clients
      <3> QED
        BY <3>1, <3>2 DEF Clients, Settled
    <2>3. /\ next \in Clients
          /\ Settled(client[q]) => Settled(next)
          /\ ~client[q].timer => ~next.timer
      <3> HIDE DEF c
      <3> QED
        BY <1>1, <2>1, <2>2, SettledIsTyped, ReceivedIsSettled
    <2>4. /\ client' = [client EXCEPT ![q] = next]
          /\ calls' = IF next.latest # c.latest
                      THEN Append(RemoveAt(calls, i),
                                  Call("answer", q, next.draft, next.latest))
                      ELSE RemoveAt(calls, i)
          /\ page' = page
      BY <1>5 DEF ReceiveAnswer
    <2> HIDE DEF next, q, c
    <2>5. Call("answer", q, next.draft, next.latest) \in Saves
      <3>1. Call("answer", q, next.draft, next.latest) \in Calls
        BY <2>1, <2>3, CallIsTyped DEF DraftInv, PageInv, Clients
      <3> QED
        BY <3>1 DEF Saves, ReturnsItsValue, Call
    <2>6. calls' \in Seq(Saves)
      BY <1>1, <2>4, <2>5, AppendProperties
    <2>7. DraftsSettled' /\ NoTimerWhileCompleting'
      BY <1>3, <2>3, <2>4 DEF DraftInv, DraftsSettled, Shown, NoTimerWhileCompleting
    <2> QED
      BY <2>6, <2>7
  <1>6. CASE ReceiveAssessment(i)
    <2> DEFINE q == calls[i].question
               round == calls[i].saved[1]
               next == IF calls[i].saved = <<>>
                       THEN [client[q] EXCEPT !.checking = "error"]
                       ELSE WithAssessment(WithAnswer(client[q], round, q), round, q)
    <2>1. q \in Asked /\ client[q] \in Clients
      BY <1>1, <1>3, <1>6 DEF ReceiveAssessment, Arrives, Calls, Fits
    <2>2. /\ Settled(client[q]) => Settled([client[q] EXCEPT !.checking = "error"])
          /\ [client[q] EXCEPT !.checking = "error"].timer = client[q].timer
      BY <2>1 DEF Clients, Settled
    <2>3. (Settled(client[q]) => Settled(next)) /\ next.timer = client[q].timer
      BY <1>2, <2>1, <2>2, LoadedIsSettled
    <2>4. /\ client' = [client EXCEPT ![q] = next]
          /\ calls' = RemoveAt(calls, i)
          /\ page' = page
      BY <1>3, <1>6, <2>1 DEF ReceiveAssessment
    <2> HIDE DEF next, q
    <2> QED
      BY <1>1, <1>3, <2>3, <2>4 DEF DraftInv, DraftsSettled, Shown, NoTimerWhileCompleting
  <1>7. CASE ReceiveFinish(i)
    <2>1. calls' \in Seq(Saves)
      BY <1>1, <1>7 DEF ReceiveFinish
    <2>2. ~page'.completing /\ (page'.open => page.open /\ client' = client)
                            /\ (page'.open => page'.round = page.round)
      BY <1>7 DEF ReceiveFinish, DraftInv, PageInv, Pages
    <2> QED
      BY <2>1, <2>2 DEF DraftInv, DraftsSettled, Shown, NoTimerWhileCompleting
  <1>8. CASE ReceiveStart(i)
    <2>1. ASSUME NEW round \in Rounds, NEW r, Accept(round, r)
          PROVE  DraftsSettled' /\ NoTimerWhileCompleting'
      <3>1. \A q \in Asked : Settled(client'[q]) /\ ~client'[q].timer
        BY <2>1, LoadedIsSettled DEF Accept
      <3> QED
        BY <3>1 DEF DraftsSettled, NoTimerWhileCompleting
    <2>2. \A r \in RoundIds : rounds[r] \in Rounds
      BY DEF DraftInv, PageInv, RoundsInv, RoundIds
    <2>3. ASSUME page' = [page EXCEPT !.starting = FALSE], UNCHANGED client
          PROVE  DraftsSettled' /\ NoTimerWhileCompleting'
      <3>1. /\ page'.round = page.round /\ page'.open = page.open
            /\ page'.completing = page.completing
        BY <2>3 DEF DraftInv, PageInv, Pages
      <3> QED
        BY <2>3, <3>1 DEF DraftInv, DraftsSettled, Shown, NoTimerWhileCompleting
    <2> QED
      BY <1>1, <1>2, <1>8, <2>1, <2>2, <2>3 DEF ReceiveStart
  <1> QED
    BY <1>4, <1>5, <1>6, <1>7, <1>8 DEF Receive

\* A step of the page and its API keeps the drafts settled.
LEMMA DraftStep ==
  ASSUME DraftInv, [Next]_vars
  PROVE  DraftInv'
  <1>1. PageInv'
    BY NextStep DEF DraftInv
  <1> SUFFICES DraftsSettled' /\ NoTimerWhileCompleting' /\ calls' \in Seq(Saves)
    BY <1>1 DEF DraftInv
  <1>2. ASSUME UNCHANGED <<page, client, calls>>
        PROVE  DraftsSettled' /\ NoTimerWhileCompleting' /\ calls' \in Seq(Saves)
    BY <1>2 DEF DraftInv, DraftsSettled, Shown, NoTimerWhileCompleting
  <1>3. CASE UNCHANGED vars
    BY <1>2, <1>3 DEF vars, pageVars
  <1>4. CASE Elsewhere
    BY <1>2, <1>4 DEF Elsewhere, pageVars
  <1>5. ASSUME NEW i \in DOMAIN calls, Serve(i) \/ Lose(i)
        PROVE  DraftsSettled' /\ NoTimerWhileCompleting' /\ calls' \in Seq(Saves)
    <2>1. page' = page /\ client' = client
      BY <1>5 DEF Serve, Lose
    <2>2. calls' \in Seq(Saves)
      BY <1>5, ServeKeepsDrafts
    <2> QED
      BY <2>1, <2>2 DEF DraftInv, DraftsSettled, Shown, NoTimerWhileCompleting
  <1>6. CASE Transport
    BY <1>5, <1>6, ReceiveKeepsDrafts DEF Transport
  <1> QED
    BY <1>3, <1>4, <1>6, PageStepsKeepDrafts, EditingKeepsDrafts, TimerKeepsDrafts
       DEF Next

\* What the page shows as settled in an open round is the draft it believes to be
\* stored, whatever order saves are sent, answered, lost and retried in
\* (persistAnswer, handlePersistSuccess, handlePersistError).  What the API holds
\* may differ from that belief: see SavedIsStored.
THEOREM SettledDraftIsPersistedHolds == Spec => []SettledDraftIsPersisted
  <1>1. Init => DraftInv
    <2>1. Init => PageInv
      BY InitTyped
    <2>2. Init => DraftsSettled /\ NoTimerWhileCompleting
      BY LoadedIsSettled DEF Init, Empty, DraftsSettled, NoTimerWhileCompleting
    <2>3. Init => calls \in Seq(Saves)
      BY EmptySeq DEF Init
    <2> QED
      BY <2>1, <2>2, <2>3 DEF DraftInv
  <1>2. DraftInv /\ [Next]_vars => DraftInv'
    BY DraftStep
  <1>3. DraftInv => SettledDraftIsPersisted
    BY DEF DraftInv, DraftsSettled, Settled, SettledDraftIsPersisted
  <1> QED
    BY <1>1, <1>2, <1>3, PTL DEF Spec

-----------------------------------------------------------------------------
(* The two calculations of a status (ProjectPreparation), of the questions *)
(* of a round, an owner, ratings, answers, assessments and follow-ups.     *)

\* What a question may be assessed as.
AssessmentStatuses == {"missing", "partial", "complete", "not-relevant"}

StatusesOf(questions, answers, overrides) ==
  [q \in questions |-> Status([answer |-> answers, override |-> overrides], q)]

\* That of the service, for a playbook.
ServiceStates(of, questions, hasOwner, rated, answers, overrides, found) ==
  LET statuses == StatusesOf(questions, answers, overrides)
  IN IF questions # Keys(of, PolicyItems) THEN {"CLARIFICATION_REQUIRED"}
     ELSE IF \E d \in Dimensions : rated[d] = 0 THEN {"DECISION_REVIEW_REQUIRED"}
     ELSE {Recommendation(of, Score(rated, readiness), readiness, statuses) :
             readiness \in Roundings(Readiness(of, hasOwner, statuses, found))}

\* That of the SQL, for whatever playbook.
GeneralQuestions == Keys(General, PolicyItems)
OwnershipQuestions == Keys(General, Ownership)

FactOf(hasOwner, statuses, found) ==
  LET ownershipExcluded ==
        /\ OwnershipQuestions # {}
        /\ \A q \in OwnershipQuestions : statuses[q] = "not-relevant"
  IN Weighted(Average(statuses, Keys(General, Business)),
              IF ownershipExcluded THEN 0
              ELSE Half(OwnerField(hasOwner) + Average(statuses, OwnershipQuestions)),
              Average(statuses, DOMAIN statuses), Resolution(found))

SqlStates(questions, hasOwner, rated, answers, overrides, found) ==
  LET statuses == StatusesOf(questions, answers, overrides)
  IN IF questions # GeneralQuestions THEN {"CLARIFICATION_REQUIRED"}
     ELSE IF Cardinality({d \in Dimensions : rated[d] # 0}) < 6
     THEN {"DECISION_REVIEW_REQUIRED"}
     ELSE {PreparationState(Score(rated, readiness), readiness, statuses) :
             readiness \in Roundings(FactOf(hasOwner, statuses, found))}

\* The general playbook has finitely many questions, some of them on the ownership.
LEMMA GeneralPlaybook ==
  /\ IsFiniteSet(GeneralQuestions)
  /\ OwnershipQuestions \subseteq GeneralQuestions /\ OwnershipQuestions # {}
<1>1. /\ IsFiniteSet(Questions) /\ Keys(General, PolicyItems) \subseteq Questions
      /\ Ownership \subseteq PolicyItems /\ Ownership # {}
  BY PreparationAssumption DEF PreparationAssumption
<1>2. IsFiniteSet(GeneralQuestions)
  BY <1>1, FS_Subset DEF GeneralQuestions
<1>3. OwnershipQuestions \subseteq GeneralQuestions /\ OwnershipQuestions # {}
  BY <1>1 DEF OwnershipQuestions, GeneralQuestions, Keys
<1> QED BY <1>2, <1>3

\* There are six inputs, so that fewer than six are entered if one is null.
LEMMA SixInputs ==
  ASSUME NEW rated \in [Dimensions -> 0..5]
  PROVE  (\E d \in Dimensions : rated[d] = 0)
           <=> Cardinality({d \in Dimensions : rated[d] # 0}) < 6
<1> DEFINE entered == {d \in Dimensions : rated[d] # 0}
           D1 == {"businessValue"}
           D2 == D1 \cup {"strategicAlignment"}
           D3 == D2 \cup {"urgency"}
           D4 == D3 \cup {"confidence"}
           D5 == D4 \cup {"complexity"}
<1>1. IsFiniteSet(D1) /\ Cardinality(D1) = 1
  BY FS_Singleton
<1>2. IsFiniteSet(D2) /\ Cardinality(D2) = 2
  BY <1>1, FS_AddElement
<1>3. IsFiniteSet(D3) /\ Cardinality(D3) = 3
  BY <1>2, FS_AddElement
<1>4. IsFiniteSet(D4) /\ Cardinality(D4) = 4
  BY <1>3, FS_AddElement
<1>5. IsFiniteSet(D5) /\ Cardinality(D5) = 5
  BY <1>4, FS_AddElement
<1>6. Dimensions = D5 \cup {"risk"}
  BY DEF Dimensions
<1>7. "risk" \notin D5
  OBVIOUS
<1>8. IsFiniteSet(Dimensions) /\ Cardinality(Dimensions) = 6
  <2> HIDE DEF D5
  <2> QED BY <1>5, <1>6, <1>7, FS_AddElement
<1>9. CASE \E d \in Dimensions : rated[d] = 0
  <2>1. entered \subseteq Dimensions /\ entered # Dimensions
    BY <1>9
  <2>2. Cardinality(entered) < Cardinality(Dimensions)
    <3> HIDE DEF entered
    <3> QED BY <1>8, <2>1, FS_Subset, FS_CardinalityType
  <2> QED BY <1>8, <1>9, <2>2
<1>10. CASE ~\E d \in Dimensions : rated[d] = 0
  <2>1. entered = Dimensions
    BY <1>10
  <2> QED BY <1>8, <1>10, <2>1
<1> QED BY <1>9, <1>10

\* What a question may be assessed as (effectiveAssessment).
LEMMA StatusesAreTyped ==
  ASSUME NEW questions \in SUBSET Asked, NEW answers,
         NEW overrides \in [Asked -> Overrides]
  PROVE  StatusesOf(questions, answers, overrides) \in [questions -> AssessmentStatuses]
BY DEF StatusesOf, Status, Overrides, AssessmentStatuses

\* An average of at least one relevant answer is a whole number (averageStatus).
LEMMA AverageIsTyped ==
  ASSUME NEW statuses \in [GeneralQuestions -> AssessmentStatuses], NEW keys
  PROVE  Average(statuses, keys) \in Int
<1> DEFINE some(which) == With(statuses, keys, which)
           relevant == some({"missing", "partial", "complete"})
           c == Cardinality(some({"complete"}))
           p == Cardinality(some({"partial"}))
           n == Cardinality(relevant)
<1>1. \A which : some(which) \subseteq GeneralQuestions
  BY DEF With
<1>2. \A which : IsFiniteSet(some(which)) /\ Cardinality(some(which)) \in Nat
  BY <1>1, FS_Subset, FS_CardinalityType, GeneralPlaybook
<1>3. c \in Nat /\ p \in Nat /\ n \in Nat
  BY <1>2
<1>4. relevant # {} => n # 0
  BY <1>2, FS_EmptySet
<1>5. Whole \in Nat /\ Half(Whole) \in Int
  BY PreparationAssumption DEF Half, PreparationAssumption
<1>6. Average(statuses, keys) =
        IF relevant = {} THEN 0 ELSE (Whole * c + Half(Whole) * p) \div n
  BY DEF Average
<1> HIDE DEF some, c, p, n, relevant
<1>7. Whole * c \in Int /\ Half(Whole) * p \in Int
  BY <1>3, <1>5
<1>8. ASSUME relevant # {} PROVE (Whole * c + Half(Whole) * p) \div n \in Int
  BY <1>3, <1>4, <1>7, <1>8
<1> QED BY <1>6, <1>8

\* For the general playbook, readiness of the service and of the SQL are the same
\* sum: the policy has questions for the ownership of a Project.
LEMMA ReadinessIsFact ==
  ASSUME NEW statuses \in [GeneralQuestions -> AssessmentStatuses],
         NEW hasOwner, NEW found
  PROVE  Readiness(General, hasOwner, statuses, found)
           = FactOf(hasOwner, statuses, found)
<1> DEFINE bound == OwnershipQuestions
<1>1. bound \subseteq DOMAIN statuses /\ bound # {}
  BY GeneralPlaybook
<1>2. With(statuses, bound, {"not-relevant"}) = bound
        <=> \A q \in bound : statuses[q] = "not-relevant"
  BY <1>1 DEF With
<1>3. ASSUME \A q \in bound : statuses[q] = "not-relevant"
      PROVE  Average(statuses, bound) = 0
  <2>1. With(statuses, bound, {"missing", "partial", "complete"}) = {}
    BY <1>3 DEF With
  <2> QED BY <2>1 DEF Average
<1>4. OwnershipFraction(General, hasOwner, statuses) =
        IF \A q \in bound : statuses[q] = "not-relevant" THEN 0
        ELSE Half(OwnerField(hasOwner) + Average(statuses, bound))
  BY <1>2, <1>3 DEF OwnershipFraction, OwnershipQuestions
<1> QED BY <1>1, <1>4 DEF Readiness, FactOf

\* Readiness is a whole number of parts, and its percentages are whole.
LEMMA RoundingsAreTyped ==
  ASSUME NEW statuses \in [GeneralQuestions -> AssessmentStatuses],
         NEW hasOwner \in BOOLEAN, NEW found \in [open : Nat, resolved : Nat]
  PROVE  Roundings(FactOf(hasOwner, statuses, found)) \subseteq Int
<1>1. Whole \in Nat \ {0}
  BY PreparationAssumption DEF PreparationAssumption
<1> DEFINE ownership == Average(statuses, OwnershipQuestions)
           business == Average(statuses, Keys(General, Business))
           checklist == Average(statuses, DOMAIN statuses)
<1>2. ownership \in Int /\ business \in Int /\ checklist \in Int
  BY AverageIsTyped
<1>3. OwnerField(hasOwner) \in Int /\ BaseInfo \in Int
  BY <1>1 DEF OwnerField, BaseInfo
<1>4. Half(OwnerField(hasOwner) + ownership) \in Int
  BY <1>2, <1>3 DEF Half
<1>5. Resolution(found) \in Int
  <2>1. found.open \in Nat /\ found.resolved \in Nat
    OBVIOUS
  <2>2. Whole * found.resolved \in Int
    BY <1>1, <2>1
  <2>3. ASSUME found.open + found.resolved # 0
        PROVE  (Whole * found.resolved) \div (found.open + found.resolved) \in Int
    BY <2>1, <2>2, <2>3
  <2> QED BY <1>1, <2>3 DEF Resolution
<1>6. ASSUME NEW o \in Int
      PROVE  Weighted(business, o, checklist, Resolution(found)) \in Int
  <2> HIDE DEF business, checklist
  <2> QED BY <1>2, <1>3, <1>5 DEF Weighted
<1>7. FactOf(hasOwner, statuses, found) \in Int
  BY <1>4, <1>6 DEF FactOf
<1>8. ASSUME NEW h \in Int PROVE Roundings(h) \subseteq Int
  <2>1. Nearest(h) \in Int
    BY <1>1 DEF Nearest
  <2> QED BY <2>1 DEF Roundings
<1> QED BY <1>7, <1>8

\* The decision score is a whole number, whatever the readiness.
LEMMA ScoreIsTyped ==
  ASSUME NEW rated \in [Dimensions -> 0..5], NEW readiness \in Int
  PROVE  Score(rated, readiness) \in Int
<1>1. \A d \in Dimensions : rated[d] \in Int
  OBVIOUS
<1>2. ASSUME NEW d \in Dimensions
      PROVE  DecisionWeight[d] * 20
               * (IF d \in Inverted THEN 6 - rated[d] ELSE rated[d]) \in Int
  <2>1. DecisionWeight[d] \in Int
    BY DEF DecisionWeight, Dimensions
  <2>2. (IF d \in Inverted THEN 6 - rated[d] ELSE rated[d]) \in Int
    BY <1>1
  <2> QED BY <2>1, <2>2
<1> DEFINE points(d) == DecisionWeight[d] * 20
                          * (IF d \in Inverted THEN 6 - rated[d] ELSE rated[d])
<1>3. /\ points("businessValue") \in Int /\ points("strategicAlignment") \in Int
      /\ points("urgency") \in Int /\ points("confidence") \in Int
      /\ points("complexity") \in Int /\ points("risk") \in Int
  BY <1>2 DEF Dimensions
<1>4. Score(rated, readiness) =
        (points("businessValue") + points("strategicAlignment") + points("urgency")
           + points("confidence") + points("complexity") + points("risk")
           + ReadinessWeight * readiness + 50) \div 100
  BY DEF Score
<1> HIDE DEF points
<1> QED BY <1>3, <1>4 DEF ReadinessWeight

\* The recommendation of the service is the state that the SQL chooses.
LEMMA RecommendationIsState ==
  ASSUME NEW statuses \in [GeneralQuestions -> AssessmentStatuses],
         NEW score \in Int, NEW readiness \in Int
  PROVE  Recommendation(General, score, readiness, statuses)
           = PreparationState(score, readiness, statuses)
<1> DEFINE gaps == EstimateGaps(General, statuses)
           n == Cardinality(gaps)
           critical == \E q \in DOMAIN statuses \cap Blocking : statuses[q] = "missing"
           reasons == ClarificationReasons(General, score, readiness, statuses)
<1>1. CriticalGaps(statuses) # {} <=> critical
  BY DEF CriticalGaps, With
<1>2. gaps = {q \in DOMAIN statuses \cap Keys(General, ForEstimate) :
                statuses[q] \notin {"complete", "not-relevant"}}
  BY DEF EstimateGaps, With, AssessmentStatuses
<1>3. n \in Nat /\ (n = 0 <=> gaps = {})
  <2>1. gaps \subseteq GeneralQuestions
    BY <1>2
  <2> QED BY <2>1, FS_Subset, FS_CardinalityType, FS_EmptySet, GeneralPlaybook
<1>4. reasons # {}
        <=> critical \/ readiness < 40 \/ n > 2 \/ readiness < 65 \/ score < 40
  BY <1>1 DEF ClarificationReasons
<1>5. Recommendation(General, score, readiness, statuses) =
        IF reasons # {} THEN "CLARIFICATION_REQUIRED"
        ELSE IF score >= 65 /\ readiness >= 65 /\ gaps = {} THEN "ESTIMATE_READY"
        ELSE IF score >= 40 /\ readiness >= 65 THEN "ESTIMATE_PREPARABLE"
        ELSE "CLARIFICATION_REQUIRED"
  BY DEF Recommendation
<1>6. PreparationState(score, readiness, statuses) =
        IF critical \/ readiness < 40 \/ n > 2 \/ readiness < 65 \/ score < 40
        THEN "CLARIFICATION_REQUIRED"
        ELSE IF score >= 65 /\ readiness >= 65 /\ n = 0
        THEN "ESTIMATE_READY" ELSE "ESTIMATE_PREPARABLE"
  BY <1>2 DEF PreparationState
<1> HIDE DEF gaps, n, critical, reasons
<1> QED BY <1>3, <1>4, <1>5, <1>6

\* For the general playbook, both calculations come to the same states.
LEMMA CalculationsAgree ==
  ASSUME NEW questions \in SUBSET Asked, NEW hasOwner \in BOOLEAN,
         NEW rated \in [Dimensions -> 0..5], NEW answers,
         NEW overrides \in [Asked -> Overrides],
         NEW found \in [open : Nat, resolved : Nat]
  PROVE  ServiceStates(General, questions, hasOwner, rated, answers, overrides, found)
           = SqlStates(questions, hasOwner, rated, answers, overrides, found)
<1> DEFINE statuses == StatusesOf(questions, answers, overrides)
           percentages == Roundings(FactOf(hasOwner, statuses, found))
<1>1. CASE questions # GeneralQuestions
  BY <1>1 DEF ServiceStates, SqlStates, GeneralQuestions
<1>2. CASE questions = GeneralQuestions
  <2>1. statuses \in [GeneralQuestions -> AssessmentStatuses]
    BY <1>2, StatusesAreTyped
  <2>2. Roundings(Readiness(General, hasOwner, statuses, found)) = percentages
    BY <2>1, ReadinessIsFact
  <2>3. percentages \subseteq Int
    BY <2>1, RoundingsAreTyped
  <2>4. \A readiness \in percentages :
          Recommendation(General, Score(rated, readiness), readiness, statuses)
            = PreparationState(Score(rated, readiness), readiness, statuses)
    BY <2>1, <2>3, ScoreIsTyped, RecommendationIsState
  <2>5. {Recommendation(General, Score(rated, readiness), readiness, statuses) :
           readiness \in percentages}
          = {PreparationState(Score(rated, readiness), readiness, statuses) :
               readiness \in percentages}
    <3> HIDE DEF percentages, statuses
    <3> QED BY <2>4
  <2>6. ServiceStates(General, questions, hasOwner, rated, answers, overrides, found) =
          IF \E d \in Dimensions : rated[d] = 0 THEN {"DECISION_REVIEW_REQUIRED"}
          ELSE {Recommendation(General, Score(rated, readiness), readiness, statuses) :
                  readiness \in Roundings(Readiness(General, hasOwner, statuses, found))}
    BY <1>2 DEF ServiceStates, GeneralQuestions
  <2>7. SqlStates(questions, hasOwner, rated, answers, overrides, found) =
          IF Cardinality({d \in Dimensions : rated[d] # 0}) < 6
          THEN {"DECISION_REVIEW_REQUIRED"}
          ELSE {PreparationState(Score(rated, readiness), readiness, statuses) :
                  readiness \in percentages}
    BY <1>2 DEF SqlStates
  <2> HIDE DEF statuses, percentages
  <2> QED BY <2>2, <2>5, <2>6, <2>7, SixInputs
<1> QED BY <1>1, <1>2

\* Before the Initial Intake of a Project has ended, no playbook is looked at.
EarlyStates == {"SCHEMA_REQUIRED", "INTAKE_IN_PROGRESS"}

LEMMA ServiceIsLate ==
  ASSUME NEW of, NEW questions, NEW hasOwner, NEW rated, NEW answers, NEW overrides,
         NEW found
  PROVE  ServiceStates(of, questions, hasOwner, rated, answers, overrides, found)
           \cap EarlyStates = {}
<1>1. \A score, readiness, statuses :
        Recommendation(of, score, readiness, statuses) \notin EarlyStates
  BY DEF Recommendation, EarlyStates
<1> QED BY <1>1 DEF ServiceStates, EarlyStates

-----------------------------------------------------------------------------
(* The types of what a status is made of, and of a status on its way.      *)

\* The Initial Intakes have a latest one (findCurrentInitialIntakeSources).
LatestIntake == Intakes # {} => \E m \in Intakes : \A r \in Intakes : m >= r

\* A reading of the status, at any of its stages.
Readings ==
  [stage : {"idle", "sources", "answers", "overrides", "followUps", "shown"},
   playbook : Packaged, owned : BOOLEAN, ratings : [Dimensions -> 0..5], intake : Nat,
   answers : [Asked -> Values], overrides : [Asked -> Overrides],
   state : PreparationStates \cup {"unknown"}, seen : SUBSET PreparationStates,
   commits : 0..MaxInterruptions, torn : BOOLEAN]

\* The reading is past its first query, and reads a completed Initial Intake.
ReadSomeIntake == reading.stage \in {"answers", "overrides", "followUps"}

\* The type invariant as the proofs use it: it holds before and after each step.
PreparationInv ==
  /\ RoundsInv
  /\ \A r \in RoundIds : rounds[r].questions # {}
  /\ Len(rounds) <= MaxRounds
  /\ summary \in {"none", "draft", "sent"}
  /\ LatestIntake
  /\ playbook \in Packaged
  /\ owned \in BOOLEAN
  /\ followUpCounts \in [open : Nat, resolved : Nat]
  /\ followUpCounts.open + followUpCounts.resolved <= MaxTracked
  /\ ratings \in Reviews \cup {Unrated}
  /\ reading \in Readings
  /\ ReadSomeIntake => reading.intake \in Intakes

\* A review rates each dimension from 1 to 5, and 0 stands for no rating.
LEMMA RatingsAreTyped ==
  Reviews \cup {Unrated} \subseteq [Dimensions -> 0..5]
<1>1. Reviews \subseteq [Dimensions -> 0..5]
  BY PreparationAssumption DEF PreparationAssumption
<1>2. Unrated \in [Dimensions -> 0..5]
  BY DEF Unrated
<1> QED BY <1>1, <1>2

\* CurrentIntake is the latest Initial Intake, and 0 stands for none.
LEMMA CurrentIntakeIsLatest ==
  ASSUME RoundsInv, LatestIntake
  PROVE  /\ CurrentIntake \in Nat
         /\ Intakes = {} => CurrentIntake = 0
         /\ Intakes # {} =>
              CurrentIntake \in Intakes /\ \A r \in Intakes : CurrentIntake >= r
         /\ CurrentIntake # 0 => CurrentIntake \in Intakes
<1>1. Intakes \subseteq Nat \ {0}
  BY DEF Intakes, RoundIds, RoundsInv
<1>2. CASE Intakes = {}
  BY <1>2 DEF CurrentIntake
<1>3. CASE Intakes # {}
  <2>1. CurrentIntake \in Intakes /\ \A r \in Intakes : CurrentIntake >= r
    BY <1>3 DEF CurrentIntake, Max, LatestIntake
  <2> QED BY <1>1, <1>3, <2>1
<1> QED BY <1>2, <1>3

-----------------------------------------------------------------------------
(* What the queue shows, and what a reading is about to show.              *)

\* What a status says of the current schema and rounds, given a playbook, an owner
\* and ratings.
StatesWith(of, hasOwner, rated) ==
  IF schema = {} THEN {"SCHEMA_REQUIRED"}
  ELSE IF CurrentIntake = 0 \/ rounds[CurrentIntake].open THEN {"INTAKE_IN_PROGRESS"}
  ELSE ServiceStates(of, rounds[CurrentIntake].questions, hasOwner, rated,
                     rounds[CurrentIntake].answer, rounds[CurrentIntake].override,
                     followUpCounts)

\* The states that the reading may end with if nothing changes any more.
Outcome ==
  IF reading.stage = "sources"
  THEN StatesWith(reading.playbook, reading.owned, reading.ratings)
  ELSE ServiceStates(reading.playbook, rounds[reading.intake].questions, reading.owned,
         reading.ratings,
         IF reading.stage = "answers"
         THEN rounds[reading.intake].answer ELSE reading.answers,
         IF reading.stage \in {"answers", "overrides"}
         THEN rounds[reading.intake].override ELSE reading.overrides,
         followUpCounts)

\* Whatever has been read is still so.
UpToDate ==
  /\ reading.playbook = playbook /\ reading.owned = owned /\ reading.ratings = ratings
  /\ ReadSomeIntake => /\ schema # {} /\ reading.intake = CurrentIntake
                       /\ CurrentIntake \in Intakes /\ ~rounds[CurrentIntake].open
  /\ reading.stage \in {"overrides", "followUps"} =>
       reading.answers = rounds[reading.intake].answer
  /\ reading.stage = "followUps" => reading.overrides = rounds[reading.intake].override

\* The states that page and queue agree on: all of them for the general playbook.
Comparable(state) == playbook = General \/ state \in EarlyStates

\* If nothing changes any more, the reading ends with a state of the queue.
EndsLikeQueue == \A state \in Outcome : Comparable(state) => state \in QueueStates

\* What the queue shows is what the service would say of the same rows, if the
\* playbook is the general one; or of any, before the Initial Intake has ended.
LEMMA QueueIsService ==
  PreparationInv => QueueStates = StatesWith(General, owned, ratings)
<1> SUFFICES ASSUME PreparationInv
             PROVE  QueueStates = StatesWith(General, owned, ratings)
  OBVIOUS
<1> DEFINE r == CurrentIntake
<1>1. CASE schema = {} \/ r = 0
  BY <1>1 DEF QueueStates, StatesWith
<1>2. CASE schema # {} /\ r # 0
  <2>1. r \in Intakes
    BY <1>2, CurrentIntakeIsLatest DEF PreparationInv
  <2>2. rounds[r] \in Rounds
    BY <2>1 DEF Intakes, RoundIds, PreparationInv, RoundsInv
  <2>3. ratings \in [Dimensions -> 0..5]
    BY RatingsAreTyped DEF PreparationInv
  <2>4. /\ rounds[r].questions \in SUBSET Asked
        /\ rounds[r].override \in [Asked -> Overrides]
    BY <2>2 DEF Rounds
  <2>5. ServiceStates(General, rounds[r].questions, owned, ratings, rounds[r].answer,
                      rounds[r].override, followUpCounts)
          = SqlStates(rounds[r].questions, owned, ratings, rounds[r].answer,
                      rounds[r].override, followUpCounts)
    BY <2>3, <2>4, CalculationsAgree DEF PreparationInv
  <2>6. \A statuses : ReadinessFact(statuses) = FactOf(owned, statuses, followUpCounts)
    BY DEF ReadinessFact, FactOf, OwnershipQuestions
  <2>7. QueueStates =
          IF rounds[r].open THEN {"INTAKE_IN_PROGRESS"}
          ELSE SqlStates(rounds[r].questions, owned, ratings, rounds[r].answer,
                         rounds[r].override, followUpCounts)
    BY <1>2, <2>6 DEF QueueStates, SqlStates, StatusesOf, QuestionStatuses, Canonical,
       GeneralQuestions, CompletedDecisionInputs
  <2> HIDE DEF r
  <2> QED BY <1>2, <2>5, <2>7 DEF StatesWith, r
<1> QED BY <1>1, <1>2

LEMMA EarlyStatesAgree ==
  ASSUME PreparationInv, NEW of, NEW state \in StatesWith(of, owned, ratings),
         state \in EarlyStates
  PROVE  state \in QueueStates
<1>1. CASE schema = {}
  BY <1>1 DEF StatesWith, QueueStates
<1>2. CASE schema # {} /\ (CurrentIntake = 0 \/ rounds[CurrentIntake].open)
  BY <1>2 DEF StatesWith, QueueStates
<1>3. CASE schema # {} /\ ~(CurrentIntake = 0 \/ rounds[CurrentIntake].open)
  <2>1. StatesWith(of, owned, ratings) \cap EarlyStates = {}
    BY <1>3, ServiceIsLate DEF StatesWith
  <2> QED BY <2>1
<1> QED BY <1>1, <1>2, <1>3

\* A reading of rows that have not changed since ends like the queue.
LEMMA UpToDateOutcome ==
  PreparationInv /\ UpToDate /\ ReadingUnderWay
    => EndsLikeQueue
<1> SUFFICES ASSUME PreparationInv, UpToDate, ReadingUnderWay,
                    NEW state \in Outcome, Comparable(state)
             PROVE  state \in QueueStates
  BY DEF EndsLikeQueue
<1>1. Outcome = StatesWith(playbook, owned, ratings)
  <2>1. CASE reading.stage = "sources"
    BY <2>1 DEF Outcome, UpToDate
  <2>2. CASE ReadSomeIntake
    <3>1. CurrentIntake # 0
      BY <2>2 DEF UpToDate, Intakes, RoundIds
    <3>2. StatesWith(playbook, owned, ratings) =
            ServiceStates(playbook, rounds[CurrentIntake].questions, owned, ratings,
                          rounds[CurrentIntake].answer, rounds[CurrentIntake].override,
                          followUpCounts)
      BY <2>2, <3>1 DEF StatesWith, UpToDate
    <3> QED BY <2>2, <3>2 DEF Outcome, UpToDate, ReadSomeIntake
  <2> QED BY <2>1, <2>2 DEF ReadingUnderWay, ReadSomeIntake, PreparationInv, Readings
<1>2. CASE playbook = General
  BY <1>1, <1>2, QueueIsService
<1>3. CASE state \in EarlyStates
  BY <1>1, <1>3, EarlyStatesAgree
<1> QED BY <1>2, <1>3 DEF Comparable

\* What the last read makes of the reading.
LEMMA OutcomeIsReviewed ==
  ASSUME PreparationInv, reading.stage = "followUps"
  PROVE  ReviewedStates(reading, followUpCounts) = Outcome
BY DEF ReviewedStates, Outcome, ServiceStates, StatusesOf, QuestionStatuses, Canonical

-----------------------------------------------------------------------------
(* Types are kept.                                                         *)

\* A command on the Initial Intake is one of the commands of the rounds.
LEMMA IntakeCommandIsRoundsStep ==
  ASSUME PreparationInv, IntakeCommand
  PROVE  /\ RoundsStep
         /\ archived' \in BOOLEAN /\ schema' \in SUBSET Questions
         /\ summary' \in {"none", "draft", "sent"}
<1> USE DEF PreparationInv, RoundsInv
<1>1. CASE \E questions \in Schemas : PublishSchema(questions)
  BY <1>1, PreparationAssumption DEF PublishSchema, RoundsStep, PreparationAssumption
<1>2. CASE CreateRound("INITIAL_INTAKE", schema)
  <2>1. schema \in (SUBSET Asked) \ {{}} /\ "INITIAL_INTAKE" \in RoundTypes
    BY <1>2 DEF CreateRound, Asks, Asked, RoundTypes
  <2> QED BY <1>2, <2>1 DEF CreateRound, RoundsStep
<1>3. CASE \E r \in RoundIds : FinishRound(r)
  BY <1>3 DEF FinishRound, RoundsStep
<1>4. ASSUME NEW r \in RoundIds, NEW q \in rounds[r].questions,
             \/ \E value \in RoundAnswers \cup {None} : UpdateAnswer(r, q, value)
             \/ \E override \in Overrides : SetAssessment(r, q, override)
             \/ ResetAssessment(r, q)
      PROVE  /\ RoundsStep
             /\ archived' \in BOOLEAN /\ schema' \in SUBSET Questions
             /\ summary' \in {"none", "draft", "sent"}
  <2>1. q \in Asked
    <3>1. rounds[r] \in Rounds
      BY DEF RoundIds
    <3> QED BY <3>1 DEF Rounds
  <2> QED BY <1>4, <2>1
             DEF UpdateAnswer, SetAssessment, ResetAssessment, RoundsStep, Values
<1> QED BY <1>1, <1>2, <1>3, <1>4 DEF IntakeCommand

\* What a command may change of the rounds: a new one is the latest, and others
\* keep their type and questions and are not opened again.
LEMMA RoundsAfterCommand ==
  ASSUME PreparationInv, RoundsStep
  PROVE  /\ \A r \in RoundIds : /\ r \in RoundIds'
                                /\ rounds'[r].type = rounds[r].type
                                /\ rounds'[r].questions = rounds[r].questions
                                /\ rounds'[r].open => rounds[r].open
         /\ \/ RoundIds' = RoundIds
            \/ /\ RoundIds' = RoundIds \cup {Len(rounds) + 1}
               /\ Len(rounds) < MaxRounds /\ Len(rounds') = Len(rounds) + 1
               /\ rounds'[Len(rounds) + 1].questions # {}
               /\ \A r \in RoundIds : rounds'[r] = rounds[r]
<1> USE DEF PreparationInv, RoundsInv, RoundIds
<1>1. \A r \in RoundIds : rounds[r] \in Rounds
  OBVIOUS
<1>2. CASE UNCHANGED rounds
  BY <1>2
<1>3. ASSUME NEW type \in RoundTypes, NEW selected \in (SUBSET Asked) \ {{}},
             CreateRound(type, selected)
      PROVE  /\ RoundIds' = RoundIds \cup {Len(rounds) + 1}
             /\ Len(rounds) < MaxRounds /\ Len(rounds') = Len(rounds) + 1
             /\ rounds'[Len(rounds) + 1].questions # {}
             /\ \A r \in RoundIds : rounds'[r] = rounds[r]
  <2>1. rounds' = Append(rounds, NewRound(type, selected)) /\ Len(rounds) < MaxRounds
    BY <1>3 DEF CreateRound
  <2>2. /\ Len(rounds') = Len(rounds) + 1
        /\ rounds'[Len(rounds) + 1] = NewRound(type, selected)
        /\ \A r \in RoundIds : rounds'[r] = rounds[r]
    BY <2>1, AppendProperties
  <2>3. NewRound(type, selected).questions # {}
    BY DEF NewRound
  <2>4. \A n \in Nat : 1..(n + 1) = 1..n \cup {n + 1}
    OBVIOUS
  <2>5. (1..Len(rounds))' = 1..Len(rounds) \cup {Len(rounds) + 1}
    BY <2>2, <2>4
  <2> QED BY <2>1, <2>2, <2>3, <2>5
<1>4. ASSUME NEW r \in RoundIds, NEW round,
             rounds' = [rounds EXCEPT ![r] = round],
             round.type = rounds[r].type, round.questions = rounds[r].questions,
             round.open => rounds[r].open
      PROVE  /\ RoundIds' = RoundIds
             /\ \A s \in RoundIds : /\ rounds'[s].type = rounds[s].type
                                    /\ rounds'[s].questions = rounds[s].questions
                                    /\ rounds'[s].open => rounds[s].open
  BY <1>4
<1>5. ASSUME NEW r \in RoundIds, FinishRound(r)
      PROVE  /\ RoundIds' = RoundIds
             /\ \A s \in RoundIds : /\ rounds'[s].type = rounds[s].type
                                    /\ rounds'[s].questions = rounds[s].questions
                                    /\ rounds'[s].open => rounds[s].open
  BY <1>1, <1>5, <1>4 DEF FinishRound, Rounds
<1>6. ASSUME NEW r \in RoundIds, NEW q \in Asked,
             \/ \E value \in Values : UpdateAnswer(r, q, value)
             \/ \E mode \in Overrides : SetAssessment(r, q, mode)
             \/ ResetAssessment(r, q)
      PROVE  /\ RoundIds' = RoundIds
             /\ \A s \in RoundIds : /\ rounds'[s].type = rounds[s].type
                                    /\ rounds'[s].questions = rounds[s].questions
                                    /\ rounds'[s].open => rounds[s].open
  <2>1. \A value : LET round == UpdatedRound(rounds[r], q, value)
                   IN /\ round.type = rounds[r].type
                      /\ round.questions = rounds[r].questions
                      /\ round.open = rounds[r].open
    BY <1>1 DEF UpdatedRound, ClearedAnswer, Rounds
  <2>2. \A mode : LET round == [rounds[r] EXCEPT !.override[q] = mode]
                  IN /\ round.type = rounds[r].type
                     /\ round.questions = rounds[r].questions
                     /\ round.open = rounds[r].open
    BY <1>1 DEF Rounds
  <2> QED BY <1>4, <1>6, <2>1, <2>2 DEF UpdateAnswer, SetAssessment, ResetAssessment
<1> QED BY <1>2, <1>3, <1>5, <1>6 DEF RoundsStep

\* The latest Initial Intake stays the latest, or a new one takes its place.
LEMMA LatestIntakeKept ==
  ASSUME PreparationInv, RoundsStep
  PROVE  /\ LatestIntake' /\ \A r \in Intakes : r \in Intakes'
         /\ RoundIds' = RoundIds => Intakes' = Intakes
<1>1. \A r \in RoundIds : r \in RoundIds' /\ rounds'[r].type = rounds[r].type
  BY RoundsAfterCommand
<1>2. \A r \in Intakes : r \in Intakes'
  BY <1>1 DEF Intakes
<1>3. CASE RoundIds' = RoundIds
  <2>1. Intakes' = Intakes
    BY <1>1, <1>3 DEF Intakes
  <2> QED BY <1>2, <2>1 DEF PreparationInv, LatestIntake
<1>4. CASE RoundIds' = RoundIds \cup {Len(rounds) + 1}
  <2> DEFINE n == Len(rounds)
  <2>1. n \in Nat /\ RoundIds = 1..n
    BY DEF RoundIds, PreparationInv, RoundsInv
  <2>2. Intakes' = Intakes \/ Intakes' = Intakes \cup {n + 1}
    BY <1>1, <1>4 DEF Intakes
  <2>3. Intakes \subseteq 1..n
    BY <2>1 DEF Intakes
  <2>4. CASE Intakes' = Intakes
    BY <1>2, <1>4, <2>1, <2>4 DEF PreparationInv, LatestIntake
  <2>5. CASE Intakes' = Intakes \cup {n + 1}
    <3>1. \A r \in Intakes' : n + 1 >= r
      BY <2>1, <2>3, <2>5
    <3>2. RoundIds' # RoundIds
      BY <1>4, <2>1
    <3> QED BY <1>2, <2>5, <3>1, <3>2 DEF LatestIntake
  <2> QED BY <2>2, <2>4, <2>5
<1> QED BY <1>3, <1>4, RoundsAfterCommand

\* The commands of an Initial Intake keep the types of the rounds.
LEMMA IntakeCommandKeepsTypes ==
  ASSUME PreparationInv, IntakeCommand
  PROVE  /\ RoundsInv'
         /\ (\A r \in RoundIds : rounds[r].questions # {})'
         /\ Len(rounds') <= MaxRounds /\ summary' \in {"none", "draft", "sent"}
         /\ LatestIntake' /\ \A r \in Intakes : r \in Intakes'
<1>1. /\ RoundsStep /\ archived' \in BOOLEAN /\ schema' \in SUBSET Questions
      /\ summary' \in {"none", "draft", "sent"}
  BY IntakeCommandIsRoundsStep
<1>2. RoundsInv'
  BY <1>1, RoundsStayTyped DEF PreparationInv, RoundsInv
<1>3. (\A r \in RoundIds : rounds[r].questions # {})'
  BY <1>1, RoundsAfterCommand DEF PreparationInv
<1>4. Len(rounds') <= MaxRounds
  <2>1. Len(rounds) \in Nat /\ Len(rounds') \in Nat /\ MaxRounds \in Nat
    BY <1>2, PreparationAssumption DEF RoundsInv, PreparationInv, PreparationAssumption
  <2>2. CASE RoundIds' = RoundIds
    <3>1. Len(rounds') = Len(rounds)
      BY <2>1, <2>2 DEF RoundIds
    <3> QED BY <3>1 DEF PreparationInv
  <2>3. CASE Len(rounds) < MaxRounds /\ Len(rounds') = Len(rounds) + 1
    BY <2>1, <2>3
  <2> QED BY <1>1, <2>2, <2>3, RoundsAfterCommand
<1> QED BY <1>1, <1>2, <1>3, <1>4, LatestIntakeKept

\* The types hold of a Project with no reading of its status.
LEMMA PreparationBeginsTyped ==
  ASSUME PreparationInit
  PROVE  PreparationInv
<1>1. RoundsInv /\ Len(rounds) = 0 /\ summary = "none"
  BY EmptySeq DEF RoundsInv, PreparationInit, RoundsInit
<1>2. RoundIds = {}
  BY <1>1 DEF RoundIds
<1>3. LatestIntake
  BY <1>2 DEF LatestIntake, Intakes
<1>4. Len(rounds) <= MaxRounds
  BY <1>1, PreparationAssumption DEF PreparationAssumption
<1>5. reading \in Readings /\ ~ReadSomeIntake
  <2>1. Unrated \in [Dimensions -> 0..5]
    BY DEF Unrated
  <2> QED BY <2>1, PreparationAssumption
             DEF PreparationInit, NoReading, Readings, Values, Overrides,
                 ReadSomeIntake,
             PreparationAssumption
<1>6. /\ owned \in BOOLEAN /\ ratings \in Reviews \cup {Unrated}
      /\ followUpCounts \in [open : Nat, resolved : Nat]
      /\ followUpCounts.open + followUpCounts.resolved <= MaxTracked
  <2>1. MaxTracked \in Nat
    BY PreparationAssumption DEF PreparationAssumption
  <2>2. followUpCounts = [open |-> 0, resolved |-> 0]
    BY DEF PreparationInit
  <2>3. /\ followUpCounts \in [open : Nat, resolved : Nat]
        /\ followUpCounts.open + followUpCounts.resolved <= MaxTracked
    BY <2>1, <2>2
  <2> QED BY <2>3 DEF PreparationInit
<1>7. playbook \in Packaged
  BY DEF PreparationInit
<1> QED BY <1>1, <1>2, <1>3, <1>4, <1>5, <1>6, <1>7 DEF PreparationInv

\* The states of the queue are states.
LEMMA QueueStatesAreStates ==
  QueueStates \subseteq PreparationStates
<1>1. \A score, readiness, statuses :
        PreparationState(score, readiness, statuses) \in PreparationStates
  BY DEF PreparationState, PreparationStates
<1> QED BY <1>1 DEF QueueStates, PreparationStates

\* A reading that a state ends.
LEMMA ShownIsTyped ==
  ASSUME PreparationInv, NEW state \in PreparationStates, ShowStatus(state)
  PROVE  reading' \in Readings /\ ~ReadSomeIntake'
<1>1. Unrated \in [Dimensions -> 0..5]
  BY DEF Unrated
<1>2. NoReading \in Readings
  BY <1>1, PreparationAssumption
     DEF NoReading, Readings, Values, Overrides, PreparationAssumption
<1>3. /\ reading.seen \cup QueueStates \in SUBSET PreparationStates
      /\ reading.commits \in 0..MaxInterruptions /\ reading.torn \in BOOLEAN
  BY QueueStatesAreStates DEF PreparationInv, Readings
<1>4. reading' = [NoReading EXCEPT !.stage = "shown", !.state = state,
                          !.seen = reading.seen \cup QueueStates,
                          !.commits = reading.commits, !.torn = reading.torn]
  BY DEF ShowStatus
<1>5. reading' \in Readings
  BY <1>2, <1>3, <1>4 DEF Readings
<1>6. reading'.stage = "shown"
  BY <1>2, <1>4 DEF Readings
<1> QED BY <1>5, <1>6 DEF ReadSomeIntake

\* A query of the reading keeps the types.
LEMMA ReadingStepKeepsTypes ==
  ASSUME PreparationInv, ReadingStep
  PROVE  PreparationInv'
<1>1. UNCHANGED <<roundVars, playbook, owned, followUpCounts, ratings>>
  BY DEF ReadingStep
<1>2. SUFFICES reading' \in Readings /\ (ReadSomeIntake' => reading'.intake \in Intakes)
  <2>1. UNCHANGED <<archived, schema, rounds, summary, playbook, owned, followUpCounts,
                     ratings>>
    BY <1>1 DEF roundVars
  <2>2. RoundIds' = RoundIds /\ Intakes' = Intakes /\ (LatestIntake' <=> LatestIntake)
        /\ (RoundsInv' <=> RoundsInv)
    BY <2>1 DEF RoundIds, Intakes, LatestIntake, RoundsInv
  <2> QED BY <1>1, <1>2, <2>1, <2>2 DEF PreparationInv
<1>3. reading \in Readings /\ ratings \in [Dimensions -> 0..5] /\ owned \in BOOLEAN
  BY RatingsAreTyped DEF PreparationInv
<1>4. NoReading \in Readings
  <2>1. Unrated \in [Dimensions -> 0..5]
    BY DEF Unrated
  <2> QED BY <2>1, PreparationAssumption
             DEF NoReading, Readings, Values, Overrides, PreparationAssumption
<1>5. CASE BeginReading
  BY <1>3, <1>4, <1>5 DEF BeginReading, Readings, ReadSomeIntake, PreparationInv
<1>6. CASE ReadSources
  <2>1. {"SCHEMA_REQUIRED", "INTAKE_IN_PROGRESS"} \subseteq PreparationStates
    BY DEF PreparationStates
  <2>2. CASE ShowStatus("SCHEMA_REQUIRED") \/ ShowStatus("INTAKE_IN_PROGRESS")
    BY <2>1, <2>2, ShownIsTyped
  <2>3. CASE /\ CurrentIntake # 0
             /\ reading' = [reading EXCEPT !.stage = "answers",
                                           !.intake = CurrentIntake]
    <3>1. CurrentIntake \in Intakes /\ CurrentIntake \in Nat
      BY <2>3, CurrentIntakeIsLatest DEF PreparationInv
    <3> QED BY <1>3, <2>3, <3>1 DEF Readings
  <2> QED BY <1>6, <2>2, <2>3 DEF ReadSources
<1>7. ASSUME ReadSomeIntake
      PROVE  rounds[reading.intake] \in Rounds /\ reading.intake \in Intakes
  BY <1>7 DEF PreparationInv, RoundsInv, Intakes, RoundIds
<1>8. CASE ReadAnswers
  <2>1. ReadSomeIntake
    BY <1>8 DEF ReadAnswers, ReadSomeIntake
  <2>2. rounds[reading.intake].answer \in [Asked -> Values]
    BY <1>7, <2>1 DEF Rounds
  <2> QED BY <1>3, <1>7, <1>8, <2>1, <2>2 DEF ReadAnswers, Readings
<1>9. CASE ReadOverrides
  <2>1. ReadSomeIntake
    BY <1>9 DEF ReadOverrides, ReadSomeIntake
  <2>2. rounds[reading.intake].override \in [Asked -> Overrides]
    BY <1>7, <2>1 DEF Rounds
  <2> QED BY <1>3, <1>7, <1>9, <2>1, <2>2 DEF ReadOverrides, Readings
<1>10. CASE ShowReview
  <2>1. \A of, score, readiness, statuses :
          Recommendation(of, score, readiness, statuses) \in PreparationStates
    BY DEF Recommendation, PreparationStates
  <2>2. ReviewedStates(reading, followUpCounts) \subseteq PreparationStates
    BY <2>1 DEF ReviewedStates, PreparationStates
  <2> QED BY <1>10, <2>2, ShownIsTyped DEF ShowReview
<1>11. CASE Leave
  BY <1>4, <1>11 DEF Leave, ReadSomeIntake, NoReading
<1> QED BY <1>5, <1>6, <1>8, <1>9, <1>10, <1>11 DEF ReadingStep

\* A command committed during the reading, or without one, keeps the types.
LEMMA CommitKeepsTypes ==
  ASSUME PreparationInv, CommitCommand
  PROVE  PreparationInv'
<1>1. reading' \in Readings /\ reading'.intake = reading.intake
      /\ (ReadSomeIntake' <=> ReadSomeIntake)
  <2>1. CASE ~ReadingUnderWay
    BY <2>1 DEF CommitCommand, PreparationInv, ReadSomeIntake
  <2>2. CASE ReadingUnderWay
    <3>1. reading' = [reading EXCEPT !.commits = @ + 1, !.seen = @ \cup QueueStates,
                                     !.torn = Len(rounds') = Len(rounds) /\ ClearsBoth]
      BY <2>2 DEF CommitCommand
    <3>2. reading \in Readings /\ reading.commits + 1 \in 0..MaxInterruptions
      BY PreparationAssumption
         DEF CommitCommand, PreparationInv, Readings, PreparationAssumption
    <3>3. reading.seen \cup QueueStates \in SUBSET PreparationStates
      BY QueueStatesAreStates DEF PreparationInv, Readings
    <3>4. (Len(rounds') = Len(rounds) /\ ClearsBoth) \in BOOLEAN
      OBVIOUS
    <3> HIDE DEF ClearsBoth
    <3>5. /\ reading' \in Readings /\ reading'.intake = reading.intake
          /\ reading'.stage = reading.stage
      BY <3>1, <3>2, <3>3, <3>4 DEF Readings
    <3> QED BY <3>5 DEF ReadSomeIntake
  <2> QED BY <2>1, <2>2
<1>2. CASE IntakeCommand /\ UNCHANGED <<playbook, owned, followUpCounts, ratings>>
  BY <1>1, <1>2, IntakeCommandKeepsTypes DEF PreparationInv
<1>3. CASE ProjectCommand /\ UNCHANGED roundVars
  <2>1. UNCHANGED <<archived, schema, rounds, summary>>
    BY <1>3 DEF roundVars
  <2>2. RoundIds' = RoundIds /\ Intakes' = Intakes /\ (LatestIntake' <=> LatestIntake)
        /\ (RoundsInv' <=> RoundsInv)
    BY <2>1 DEF RoundIds, Intakes, LatestIntake, RoundsInv
  <2>3. /\ playbook' \in Packaged /\ owned' \in BOOLEAN
        /\ ratings' \in Reviews \cup {Unrated}
    BY <1>3 DEF ProjectCommand, UpdateReview, UpdatePlaybook, PreparationInv
  <2>4. /\ followUpCounts' \in [open : Nat, resolved : Nat]
        /\ followUpCounts'.open + followUpCounts'.resolved <= MaxTracked
    <3>1. /\ MaxTracked \in Nat /\ followUpCounts \in [open : Nat, resolved : Nat]
          /\ followUpCounts.open + followUpCounts.resolved <= MaxTracked
      BY PreparationAssumption DEF PreparationInv, PreparationAssumption
    <3>2. CASE UNCHANGED followUpCounts
      BY <3>1, <3>2
    <3>3. CASE OpenFollowUp
      BY <3>1, <3>3 DEF OpenFollowUp
    <3>4. CASE CloseFollowUp
      <4> DEFINE o == followUpCounts.open
                 r == followUpCounts.resolved
      <4>1. o \in Nat /\ r \in Nat /\ o > 0
        BY <3>1, <3>4 DEF CloseFollowUp
      <4>2. o - 1 \in Nat /\ r + 1 \in Nat /\ (o - 1) + (r + 1) = o + r
        BY <4>1
      <4>3. followUpCounts' = [open |-> o - 1, resolved |-> r + 1]
        BY <3>1, <3>4 DEF CloseFollowUp
      <4> HIDE DEF o, r
      <4>4. followUpCounts'.open = o - 1 /\ followUpCounts'.resolved = r + 1
        BY <4>3
      <4> QED BY <3>1, <4>2, <4>3, <4>4 DEF o, r
    <3> QED BY <1>3, <3>2, <3>3, <3>4 DEF ProjectCommand
  <2> QED BY <1>1, <2>1, <2>2, <2>3, <2>4 DEF PreparationInv
<1> QED BY <1>2, <1>3 DEF CommitCommand

-----------------------------------------------------------------------------
(* A status that a page is given is one of the queue's.                    *)

\* Without a command since it began, a reading has only what is still so.  With
\* one, it ends with what the queue showed before or shows now.
AgreementInv ==
  /\ ReadingUnderWay /\ reading.commits = 0 => UpToDate
  /\ ReadingUnderWay /\ reading.commits = 1 /\ ~reading.torn
       => \A state \in Outcome :
            Comparable(state) => state \in reading.seen \cup QueueStates
  /\ StatusAgreesWithQueue

\* What the next read brings is what the outcome was about.
LEMMA ReadingStepAgrees ==
  ASSUME PreparationInv, AgreementInv, ReadingStep
  PROVE  AgreementInv'
<1>1. UNCHANGED <<archived, schema, rounds, summary, playbook, owned, followUpCounts,
                 ratings>>
  BY DEF ReadingStep, roundVars
<1>2. /\ CurrentIntake' = CurrentIntake /\ Intakes' = Intakes
      /\ QueueStates' = QueueStates
  BY <1>1
     DEF QueueStates, CurrentIntake, Intakes, RoundIds, QuestionStatuses, Canonical,
         ReadinessFact, CompletedDecisionInputs
<1>3. /\ \A p, o, r : StatesWith(p, o, r)' = StatesWith(p, o, r)
      /\ \A state : Comparable(state)' <=> Comparable(state)
  BY <1>1, <1>2 DEF StatesWith, Comparable
<1>4. reading \in Readings
  BY DEF PreparationInv
<1>5. ReadingUnderWay /\ reading.commits <= 1 /\ ~reading.torn
        => \A state \in Outcome :
             Comparable(state) => state \in reading.seen \cup QueueStates
  BY <1>4, UpToDateOutcome DEF AgreementInv, Readings, EndsLikeQueue
<1>6. ASSUME NEW state \in Outcome, ShowStatus(state), ReadingUnderWay
      PROVE  AgreementInv'
  <2>1. /\ reading'.stage = "shown" /\ reading'.commits = reading.commits
        /\ reading'.torn = reading.torn /\ reading'.state = state
        /\ reading'.seen = reading.seen \cup QueueStates
    BY <1>6 DEF ShowStatus, NoReading
  <2>2. StatusAgreesWithQueue'
    BY <1>1, <1>5, <1>6, <2>1 DEF StatusAgreesWithQueue, Comparable, EarlyStates
  <2> QED BY <2>1, <2>2 DEF AgreementInv, ReadingUnderWay
<1>7. ASSUME ReadingUnderWay', ReadingUnderWay,
             Outcome' = Outcome, UpToDate => UpToDate',
             reading'.commits = reading.commits, reading'.torn = reading.torn,
             reading'.seen = reading.seen
      PROVE  AgreementInv'
  BY <1>2, <1>3, <1>7 DEF AgreementInv, ReadingUnderWay, StatusAgreesWithQueue
<1>8. CASE BeginReading
  <2>1. /\ reading'.stage = "sources" /\ reading'.commits = 0
        /\ reading'.playbook = playbook
        /\ reading'.owned = owned /\ reading'.ratings = ratings
    BY <1>8 DEF BeginReading, NoReading
  <2>2. UpToDate'
    BY <1>1, <2>1 DEF UpToDate, ReadSomeIntake
  <2> QED BY <2>1, <2>2 DEF AgreementInv, StatusAgreesWithQueue
<1>9. CASE ReadSources
  <2>1. reading.stage = "sources" /\ ReadingUnderWay
    BY <1>9 DEF ReadSources, ReadingUnderWay
  <2>2. Outcome = StatesWith(reading.playbook, reading.owned, reading.ratings)
    BY <2>1 DEF Outcome
  <2>3. CASE schema = {} /\ ShowStatus("SCHEMA_REQUIRED")
    <3>1. "SCHEMA_REQUIRED" \in Outcome
      BY <2>2, <2>3 DEF StatesWith
    <3> QED BY <1>6, <2>1, <2>3, <3>1
  <2>4. CASE /\ schema # {} /\ (CurrentIntake = 0 \/ rounds[CurrentIntake].open)
             /\ ShowStatus("INTAKE_IN_PROGRESS")
    <3>1. "INTAKE_IN_PROGRESS" \in Outcome
      BY <2>2, <2>4 DEF StatesWith
    <3> QED BY <1>6, <2>1, <2>4, <3>1
  <2>5. CASE /\ schema # {} /\ CurrentIntake # 0 /\ ~rounds[CurrentIntake].open
             /\ reading' = [reading EXCEPT !.stage = "answers",
                                           !.intake = CurrentIntake]
    <3>1. /\ reading'.stage = "answers" /\ reading'.intake = CurrentIntake
          /\ reading'.playbook = reading.playbook
          /\ reading'.owned = reading.owned /\ reading'.ratings = reading.ratings
          /\ reading'.commits = reading.commits /\ reading'.torn = reading.torn
          /\ reading'.seen = reading.seen
      BY <1>4, <2>5 DEF Readings
    <3>2. CurrentIntake \in Intakes
      BY <2>5, CurrentIntakeIsLatest DEF PreparationInv
    <3>3. Outcome' = Outcome
      BY <1>1, <2>2, <2>5, <3>1 DEF Outcome, StatesWith
    <3>4. UpToDate => UpToDate'
      BY <1>1, <1>2, <2>5, <3>1, <3>2 DEF UpToDate
    <3>5. ReadingUnderWay'
      BY <3>1 DEF ReadingUnderWay
    <3> QED BY <1>7, <2>1, <3>1, <3>3, <3>4, <3>5
  <2> QED BY <1>9, <2>3, <2>4, <2>5 DEF ReadSources
<1>10. CASE ReadAnswers
  <2>1. /\ reading.stage = "answers" /\ reading'.stage = "overrides"
        /\ reading'.answers = rounds[reading.intake].answer
        /\ reading'.intake = reading.intake
        /\ reading'.playbook = reading.playbook
        /\ reading'.owned = reading.owned /\ reading'.ratings = reading.ratings
        /\ reading'.commits = reading.commits /\ reading'.torn = reading.torn
        /\ reading'.seen = reading.seen
    BY <1>4, <1>10 DEF ReadAnswers, Readings
  <2>2. Outcome' = Outcome
    BY <1>1, <2>1 DEF Outcome
  <2>3. UpToDate => UpToDate'
    BY <1>1, <1>2, <2>1 DEF UpToDate, ReadSomeIntake
  <2> QED BY <1>7, <2>1, <2>2, <2>3 DEF ReadingUnderWay
<1>11. CASE ReadOverrides
  <2>1. /\ reading.stage = "overrides" /\ reading'.stage = "followUps"
        /\ reading'.overrides = rounds[reading.intake].override
        /\ reading'.intake = reading.intake /\ reading'.answers = reading.answers
        /\ reading'.playbook = reading.playbook
        /\ reading'.owned = reading.owned /\ reading'.ratings = reading.ratings
        /\ reading'.commits = reading.commits /\ reading'.torn = reading.torn
        /\ reading'.seen = reading.seen
    BY <1>4, <1>11 DEF ReadOverrides, Readings
  <2>2. Outcome' = Outcome
    BY <1>1, <2>1 DEF Outcome
  <2>3. UpToDate => UpToDate'
    BY <1>1, <1>2, <2>1 DEF UpToDate, ReadSomeIntake
  <2> QED BY <1>7, <2>1, <2>2, <2>3 DEF ReadingUnderWay
<1>12. CASE ShowReview
  <2>1. PICK state \in ReviewedStates(reading, followUpCounts) : ShowStatus(state)
    BY <1>12 DEF ShowReview
  <2>2. reading.stage = "followUps" /\ ReadingUnderWay
    BY <1>12 DEF ShowReview, ReadingUnderWay
  <2>3. state \in Outcome
    BY <2>1, <2>2, OutcomeIsReviewed
  <2> QED BY <1>6, <2>1, <2>2, <2>3
<1>13. CASE Leave
  BY <1>13 DEF Leave, NoReading, AgreementInv, ReadingUnderWay, StatusAgreesWithQueue
<1> QED BY <1>8, <1>9, <1>10, <1>11, <1>12, <1>13 DEF ReadingStep

\* A command changes one of the things that a status is made of, which the
\* reading has or has not read yet.
LEMMA CommandAgrees ==
  ASSUME PreparationInv, AgreementInv, CommitCommand,
         ReadingUnderWay, reading.commits = 0
  PROVE  \/ reading'.torn
         \/ \A state \in Outcome' :
               Comparable(state)' => state \in QueueStates \cup QueueStates'
<1> DEFINE i == reading.intake
           agreed == \A state \in Outcome' :
                       Comparable(state)' => state \in QueueStates \cup QueueStates'
<1>1. UpToDate /\ EndsLikeQueue
  BY UpToDateOutcome DEF AgreementInv
<1>2. /\ reading'.stage = reading.stage /\ reading'.intake = i
      /\ reading'.playbook = reading.playbook /\ reading.playbook = playbook
      /\ reading'.owned = owned /\ reading'.ratings = ratings
      /\ reading'.answers = reading.answers /\ reading'.overrides = reading.overrides
      /\ reading'.torn = (Len(rounds') = Len(rounds) /\ ClearsBoth)
  <2>1. reading' = [reading EXCEPT !.commits = @ + 1, !.seen = @ \cup QueueStates,
                                   !.torn = Len(rounds') = Len(rounds) /\ ClearsBoth]
    BY DEF CommitCommand
  <2>2. reading \in Readings
    BY DEF PreparationInv
  <2> HIDE DEF ClearsBoth
  <2> QED BY <1>1, <2>1, <2>2 DEF Readings, UpToDate
<1>3. ReadingUnderWay'
  BY <1>2 DEF ReadingUnderWay
<1>4. UpToDate' => agreed
  <2>1. PreparationInv'
    BY CommitKeepsTypes
  <2>2. PreparationInv' /\ UpToDate' /\ ReadingUnderWay'
          => EndsLikeQueue'
    BY UpToDateOutcome, PTL
  <2> QED BY <1>3, <2>1, <2>2 DEF EndsLikeQueue
<1>5. Outcome' = Outcome /\ playbook' = playbook => agreed
  BY <1>1 DEF EndsLikeQueue, Comparable
<1>6. reading.stage \in {"sources", "answers", "overrides", "followUps"}
  BY DEF ReadingUnderWay, PreparationInv, Readings
<1>7. CASE ProjectCommand /\ UNCHANGED roundVars
  <2>1. UNCHANGED <<archived, schema, rounds, summary>>
    BY <1>7 DEF roundVars
  <2>2. CurrentIntake' = CurrentIntake /\ Intakes' = Intakes
    BY <2>1 DEF CurrentIntake, Intakes, RoundIds
  <2>3. CASE UNCHANGED <<playbook, owned, ratings>>
    <3>1. UpToDate'
      BY <1>1, <1>2, <2>1, <2>2, <2>3 DEF UpToDate, ReadSomeIntake
    <3> QED BY <1>4, <3>1
  <2>4. CASE UNCHANGED <<playbook, followUpCounts>>
    <3>1. \A p, o, r : StatesWith(p, o, r)' = StatesWith(p, o, r)
      BY <2>1, <2>2, <2>4 DEF StatesWith
    <3>2. Outcome' = Outcome
      BY <1>1, <1>2, <2>1, <2>4, <3>1 DEF Outcome, UpToDate
    <3> QED BY <1>5, <2>4, <3>2
  <2>5. CASE /\ \E of \in Packaged : UpdatePlaybook(of)
             /\ UNCHANGED <<owned, followUpCounts, ratings>>
    <3>1. RoundIds = {} /\ Intakes = {} /\ CurrentIntake = 0
      <4>1. rounds = <<>>
        BY <2>5 DEF UpdatePlaybook
      <4>2. RoundIds = {}
        BY <4>1 DEF RoundIds
      <4> QED BY <4>2 DEF Intakes, CurrentIntake
    <3>2. reading.stage = "sources"
      BY <1>6, <3>1 DEF PreparationInv, ReadSomeIntake
    <3>3. \A p, o, r : /\ StatesWith(p, o, r)' = StatesWith(p, o, r)
                       /\ StatesWith(p, o, r) \subseteq QueueStates
      BY <2>1, <2>2, <3>1 DEF StatesWith, QueueStates
    <3>4. Outcome' \subseteq QueueStates
      BY <1>2, <3>2, <3>3 DEF Outcome
    <3> QED BY <3>4
  <2> QED BY <1>7, <2>3, <2>4, <2>5 DEF ProjectCommand
<1>8. CASE IntakeCommand /\ UNCHANGED <<playbook, owned, followUpCounts, ratings>>
  <2>1. CASE reading.stage = "sources"
    <3>1. UpToDate'
      BY <1>1, <1>2, <1>8, <2>1 DEF UpToDate, ReadSomeIntake
    <3> QED BY <1>4, <3>1
  <2>2. CASE ReadSomeIntake
    <3>1. /\ schema # {} /\ i = CurrentIntake /\ i \in Intakes /\ ~rounds[i].open
      BY <1>1, <2>2 DEF UpToDate
    <3>2. i \in RoundIds /\ rounds[i] \in Rounds
      BY <3>1 DEF Intakes, RoundIds, PreparationInv, RoundsInv
    <3>3. RoundsStep
      BY <1>8, IntakeCommandIsRoundsStep
    <3>4. /\ rounds'[i].questions = rounds[i].questions /\ ~rounds'[i].open
      BY <3>1, <3>2, <3>3, RoundsAfterCommand
    <3>5. ASSUME rounds'[i].answer = rounds[i].answer,
                 rounds'[i].override = rounds[i].override
          PROVE  Outcome' = Outcome
      BY <1>1, <1>2, <1>8, <2>2, <3>4, <3>5 DEF Outcome, UpToDate, ReadSomeIntake
    <3>6. CASE RoundIds' # RoundIds
      <4>1. rounds'[i] = rounds[i]
        BY <3>2, <3>3, <3>6, RoundsAfterCommand
      <4> QED BY <1>5, <1>8, <3>5, <4>1
    <3>7. CASE RoundIds' = RoundIds
      <4>1. Intakes' = Intakes /\ CurrentIntake' = CurrentIntake
        BY <3>3, <3>7, LatestIntakeKept DEF CurrentIntake
      <4>2. Len(rounds') = Len(rounds) /\ schema' # {}
        <5>1. RoundsInv'
          BY <1>8, IntakeCommandKeepsTypes
        <5>2. /\ Len(rounds) \in Nat /\ Len(rounds') \in Nat
              /\ 1..Len(rounds') = 1..Len(rounds)
          BY <3>7, <5>1 DEF RoundIds, RoundsInv, PreparationInv
        <5>3. schema' # {}
          BY <1>8, <3>1 DEF IntakeCommand, CreateRound, FinishRound, UpdateAnswer,
             SetAssessment, ResetAssessment
        <5> QED BY <5>2, <5>3
      <4>3. CASE reading.stage = "followUps"
        <5>1. Outcome' = Outcome
          BY <1>1, <1>2, <1>8, <3>4, <4>3 DEF Outcome, UpToDate
        <5> QED BY <1>5, <1>8, <5>1
      <4>4. CASE \/ reading.stage = "answers"
                 \/ reading.stage = "overrides" /\ rounds'[i].answer = rounds[i].answer
        <5>1. UpToDate'
          BY <1>1, <1>2, <1>8, <3>1, <3>4, <4>1, <4>2, <4>4 DEF UpToDate, ReadSomeIntake
        <5> QED BY <1>4, <5>1
      <4>5. CASE reading.stage = "overrides" /\ rounds'[i].answer # rounds[i].answer
        <5>1. CASE rounds'[i].override # rounds[i].override
          BY <1>2, <3>2, <4>2, <4>5, <5>1 DEF ClearsBoth
        <5>2. CASE rounds'[i].override = rounds[i].override
          <6>1. Outcome' = Outcome
            BY <1>1, <1>2, <1>8, <3>4, <4>5, <5>2 DEF Outcome, UpToDate
          <6> QED BY <1>5, <1>8, <6>1
        <5> QED BY <5>1, <5>2
      <4> QED BY <2>2, <4>3, <4>4, <4>5 DEF ReadSomeIntake
    <3> QED BY <3>6, <3>7
  <2> QED BY <1>6, <2>1, <2>2 DEF ReadSomeIntake
<1> QED BY <1>7, <1>8 DEF CommitCommand

\* A first command leaves a reading that ends like the queue did before it or does
\* after it, or one that is torn; of a reading with more commands nothing is said.
LEMMA CommitAgrees ==
  ASSUME PreparationInv, AgreementInv, CommitCommand
  PROVE  AgreementInv'
<1>1. CASE ~ReadingUnderWay
  <2>1. reading' = reading /\ reading.stage # "shown"
    BY <1>1 DEF CommitCommand
  <2> QED BY <1>1, <2>1 DEF AgreementInv, ReadingUnderWay, StatusAgreesWithQueue
<1>2. CASE ReadingUnderWay
  <2>1. /\ reading'.stage = reading.stage /\ reading'.commits = reading.commits + 1
        /\ reading'.seen = reading.seen \cup QueueStates
    <3>1. reading' = [reading EXCEPT !.commits = @ + 1, !.seen = @ \cup QueueStates,
                                     !.torn = Len(rounds') = Len(rounds) /\ ClearsBoth]
      BY <1>2 DEF CommitCommand
    <3> HIDE DEF ClearsBoth
    <3> QED BY <3>1 DEF PreparationInv, Readings
  <2>2. reading'.commits = 1 => reading.commits = 0
    BY <2>1 DEF PreparationInv, Readings
  <2>3. reading'.commits # 0
    BY <2>1 DEF PreparationInv, Readings
  <2>4. reading'.stage # "shown"
    BY <1>2, <2>1 DEF ReadingUnderWay
  <2> QED BY <1>2, <2>1, <2>2, <2>3, <2>4, CommandAgrees
             DEF AgreementInv, StatusAgreesWithQueue
<1> QED BY <1>1, <1>2

\* The inductive invariant.
PreparationIInv == PreparationInv /\ AgreementInv

\* Each step of the preparation keeps the invariant.
LEMMA PreparationStep ==
  ASSUME PreparationIInv, [PreparationNext]_preparationVars
  PROVE  PreparationIInv'
<1>1. CASE PreparationNext
  BY <1>1, ReadingStepKeepsTypes, CommitKeepsTypes, ReadingStepAgrees, CommitAgrees
     DEF PreparationNext, PreparationIInv
<1>2. CASE UNCHANGED preparationVars
  <2>1. UNCHANGED <<archived, schema, rounds, summary, playbook, owned, followUpCounts,
                    ratings, reading>>
    BY <1>2 DEF preparationVars, roundVars
  <2>2. PreparationInv'
    BY <2>1
       DEF PreparationIInv, PreparationInv, RoundIds, RoundsInv, LatestIntake, Intakes,
       ReadSomeIntake
  <2>3. /\ QueueStates' = QueueStates /\ Outcome' = Outcome
        /\ (UpToDate' <=> UpToDate)
    BY <2>1
       DEF QueueStates, CurrentIntake, Intakes, RoundIds, QuestionStatuses, Canonical,
       ReadinessFact, CompletedDecisionInputs, Outcome, StatesWith, UpToDate,
       ReadSomeIntake
  <2> QED BY <2>1, <2>2, <2>3
          DEF PreparationIInv, AgreementInv, ReadingUnderWay, StatusAgreesWithQueue,
          Comparable
<1> QED BY <1>1, <1>2

\* The invariant of the preparation of a Project.
LEMMA PreparationInvariant == PreparationSpec => []PreparationIInv
<1>1. PreparationInit => PreparationIInv
  <2>1. PreparationInit => reading.stage = "idle"
    BY DEF PreparationInit, NoReading
  <2> QED BY <2>1, PreparationBeginsTyped
          DEF PreparationIInv, AgreementInv, ReadingUnderWay, StatusAgreesWithQueue
<1>2. PreparationIInv /\ [PreparationNext]_preparationVars => PreparationIInv'
  BY PreparationStep
<1> QED BY <1>1, <1>2, PTL DEF PreparationSpec

\* Type correctness of what a status is made of and of a status on its way
\* (project-preparation-status.service.ts).
THEOREM PreparationTypeCorrect == PreparationSpec => []PreparationTypeOK
<1>1. PreparationIInv => PreparationTypeOK
  <2> SUFFICES ASSUME PreparationInv PROVE PreparationTypeOK
    BY DEF PreparationIInv
  <2> DEFINE Asking == [type : RoundTypes, open : BOOLEAN,
                        questions : (SUBSET Asked) \ {{}},
                        answer : [Asked -> RoundAnswers \cup {None}],
                        override : [Asked -> Overrides]]
  <2>1. rounds \in Seq(Asking)
    <3>1. /\ Len(rounds) \in Nat /\ rounds \in [1..Len(rounds) -> Rounds]
          /\ \A r \in 1..Len(rounds) : rounds[r].questions # {}
      BY DEF PreparationInv, RoundsInv, RoundIds
    <3>2. \A r \in 1..Len(rounds) : rounds[r] \in Asking
      BY <3>1 DEF Rounds, Values
    <3> HIDE DEF Asking
    <3>3. rounds \in [1..Len(rounds) -> Asking]
      BY <3>1, <3>2
    <3> QED BY <3>1, <3>3, SeqDef
  <2>2. RoundsTypeOK
    BY <2>1 DEF RoundsTypeOK, PreparationInv, RoundsInv
  <2>3. followUpCounts \in [open : 0..MaxTracked, resolved : 0..MaxTracked]
    <3>1. /\ MaxTracked \in Nat /\ followUpCounts \in [open : Nat, resolved : Nat]
          /\ followUpCounts.open + followUpCounts.resolved <= MaxTracked
      BY PreparationAssumption DEF PreparationInv, PreparationAssumption
    <3>2. /\ followUpCounts.open \in 0..MaxTracked
          /\ followUpCounts.resolved \in 0..MaxTracked
      BY <3>1
    <3> QED BY <3>1, <3>2
  <2> QED BY <2>2, <2>3 DEF PreparationTypeOK, PreparationInv, Readings
<1> QED BY <1>1, PreparationInvariant, PTL

\* For a Project of the general playbook, and for every other one before its
\* Initial Intake has ended, the status that its page is given is one that the queue
\* could show since the page asked for it, if one command at most was committed
\* meanwhile, and that did not clear an answer with its assessment: the readiness
\* calculator and the SQL of the queue agree on the same facts of a general
\* playbook, whatever items it binds, and what was read before that command was the
\* queue's then.
THEOREM StatusAgreesWithQueueHolds == PreparationSpec => []StatusAgreesWithQueue
<1>1. PreparationIInv => StatusAgreesWithQueue
  BY DEF PreparationIInv, AgreementInv
<1> QED BY <1>1, PreparationInvariant, PTL
=============================================================================
