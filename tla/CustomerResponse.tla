--------------------------- MODULE CustomerResponse ---------------------------
(***************************************************************************)
(* Customer clarification requests (customer-response.service.ts), the     *)
(* Owner's panel that previews, confirms and reviews them                  *)
(* (customer-response.component.ts), and the Customer's form               *)
(* (public-customer-response.page.ts) with its draft in local storage.     *)
(*                                                                         *)
(* The panel's busy flag orders nothing: a second panel sends the same     *)
(* commands at any time.  The rate limit of the public routes makes a call *)
(* fail, like one that is lost.                                            *)
(***************************************************************************)
EXTENDS Null, ProjectRow, Naturals, Sequences, SequencesExt

CONSTANTS
  Prompts,       \* questions of open rounds and open follow-ups
  Answers,       \* what the Customer may answer
  PreviewLife,   \* previewLifetimeMs
  RequestLife,   \* requestLifetimeMs
  MaxPreviews,   \* bound: previews
  MaxRetries,    \* bound: deliveries of a request
  MaxForms,      \* bound: how often the form is opened
  MaxEdits,      \* bound: answers typed
  MaxClock       \* bound: time

ASSUME ResponseAssumption ==
  /\ PreviewLife \in Nat /\ RequestLife \in Nat
  /\ MaxPreviews \in Nat /\ MaxRetries \in Nat /\ MaxForms \in Nat
  /\ MaxEdits \in Nat /\ MaxClock \in Nat

VARIABLES
  eligible,   \* prompts that eligiblePrompts returns
  panel,      \* prompts and preview token of the Owner's panel
  previews,   \* previews handed out so far, signed by previewSecret
  requests,   \* customer_response_requests with their submission
  form,       \* the form the Customer has open
  storage,    \* localStorage of the Customer's browser, one draft per request
  posts,      \* submissions under way
  edits, clock

responseVars == <<eligible, panel, previews, requests, form, storage, posts, edits,
                  clock>>

serverVars == <<archived, eligible, previews, requests>>
formVars == <<form, storage, posts, edits>>

Ids == 1..MaxPreviews + 1
NoAnswers == [p \in Prompts |-> None]
NoForm == [number |-> 0, request |-> 0, key |-> 0, answers |-> NoAnswers,
           submitting |-> FALSE, submitted |-> FALSE]

ResponseInit ==
  /\ archived = FALSE
  /\ eligible = Prompts
  /\ panel = [listed |-> {}, selected |-> {}, preview |-> 0]
  /\ previews = <<>>
  /\ requests = <<>>
  /\ form = NoForm
  /\ storage = [r \in Ids |-> None]
  /\ posts = <<>>
  /\ edits = 0
  /\ clock = 0

-----------------------------------------------------------------------------
(* The Owner's panel, and what the API does for it.                        *)

\* load of the panel: the prompts it may select from.
LoadPanel ==
  /\ ~archived
  /\ panel' = [panel EXCEPT !.listed = eligible]
  /\ UNCHANGED <<serverVars, formVars, clock>>

\* toggle: the preview shown is dropped with every change of the selection.
Toggle(p) ==
  /\ p \in panel.listed
  /\ panel' = [panel EXCEPT !.preview = 0,
                            !.selected = IF p \in @ THEN @ \ {p} ELSE @ \cup {p}]
  /\ UNCHANGED <<serverVars, formVars, clock>>

\* preview, for every selected prompt that the panel still lists; the API
\* refuses a prompt that is no longer eligible.
CreatePreview ==
  LET prompts == panel.selected \cap panel.listed IN
  /\ ~archived /\ prompts # {} /\ prompts \subseteq eligible
  /\ Len(previews) < MaxPreviews
  /\ previews' = Append(previews, [prompts |-> prompts,
                                   expires |-> clock + PreviewLife,
                                   requestExpires |-> clock + RequestLife])
  /\ panel' = [panel EXCEPT !.preview = Len(previews) + 1]
  /\ UNCHANGED <<archived, eligible, requests, formVars, clock>>

Of(preview) == {r \in DOMAIN requests : requests[r].preview = preview}

Request(preview) ==
  [preview |-> preview, prompts |-> previews[preview].prompts,
   expires |-> previews[preview].requestExpires, state |-> "OPEN",
   delivery |-> "SENDING", attempts |-> 1, running |-> TRUE, accepted |-> FALSE,
   submission |-> None, reviewed |-> FALSE, evidence |-> {}]

\* Variant: a preview that was confirmed is not looked up.
ConfirmedAgain(preview) == Append(requests, Request(preview))

\* The transaction of confirm: a preview that was confirmed is not again.
Confirmed(preview) ==
  IF Of(preview) # {} THEN requests ELSE Append(requests, Request(preview))

\* confirm of the preview shown.  Without an answer the panel keeps it.
ConfirmPreview(answered) ==
  LET preview == panel.preview IN
  /\ preview # 0 /\ ~archived
  /\ clock < previews[preview].expires
  /\ Len(requests) < MaxPreviews + 1
  /\ requests' = Confirmed(preview)
  /\ panel' = IF answered THEN [panel EXCEPT !.preview = 0, !.selected = {}] ELSE panel
  /\ UNCHANGED <<archived, eligible, previews, formVars, clock>>

\* deliver: the gateway accepts, rejects or loses the message, and the outcome
\* is recorded if the request still is being sent.  A process that dies leaves
\* the request SENDING (there is no lease to expire).
Deliver(r) ==
  /\ requests[r].running
  /\ \E accepted \in BOOLEAN, outcome \in {"SENT", "FAILED", "UNKNOWN", "SENDING"} :
       /\ outcome = "SENT" => accepted
       /\ outcome = "FAILED" => ~accepted
       /\ requests' = [requests EXCEPT ![r].delivery = outcome,
                                       ![r].running = FALSE,
                                       ![r].accepted = @ \/ accepted]
  /\ UNCHANGED <<archived, eligible, panel, previews, formVars, clock>>

\* retry: an expired request is sent again all the same.
RetryRequest(r) ==
  /\ ~archived
  /\ requests[r].state = "OPEN"
  /\ requests[r].delivery \in {"FAILED", "UNKNOWN"}
  /\ requests[r].attempts <= MaxRetries
  /\ requests' = [requests EXCEPT ![r].delivery = "SENDING", ![r].running = TRUE,
                                  ![r].attempts = @ + 1]
  /\ UNCHANGED <<archived, eligible, panel, previews, formVars, clock>>

Revoke(r) ==
  /\ ~archived /\ requests[r].state = "OPEN"
  /\ requests' = [requests EXCEPT ![r].state = "REVOKED"]
  /\ UNCHANGED <<archived, eligible, panel, previews, formVars, clock>>

Review(r) ==
  /\ ~archived /\ requests[r].submission # None
  /\ requests' = [requests EXCEPT ![r].reviewed = TRUE]
  /\ UNCHANGED <<archived, eligible, panel, previews, formVars, clock>>

\* answerEvidence: one piece of evidence for each answer, however often.
KeepAsEvidence(r, p) ==
  /\ ~archived /\ requests[r].submission # None /\ p \in requests[r].prompts
  /\ requests' = [requests EXCEPT ![r].evidence = @ \cup {p}]
  /\ UNCHANGED <<archived, eligible, panel, previews, formVars, clock>>

-----------------------------------------------------------------------------
(* The Customer's form.                                                    *)

\* requireUsable.
Usable(r) ==
  /\ ~archived
  /\ requests[r].state = "OPEN"
  /\ requests[r].delivery = "SENT"
  /\ clock < requests[r].expires

\* ngOnInit: exchange, publicRequest and restoreDraft.
OpenForm(r) ==
  /\ form.number < MaxForms
  /\ requests[r].accepted /\ Usable(r)
  /\ LET number == form.number + 1 IN
       form' = IF storage[r] = None
               THEN [NoForm EXCEPT !.number = number, !.request = r, !.key = number]
               ELSE [NoForm EXCEPT !.number = number, !.request = r,
                                   !.key = storage[r].key, !.answers = storage[r].answers]
  /\ UNCHANGED <<serverVars, panel, storage, posts, edits, clock>>

\* updateAnswer and saveDraft.
TypeAnswer(p, value) ==
  /\ form.request # 0 /\ ~form.submitted /\ edits < MaxEdits
  /\ p \in requests[form.request].prompts
  /\ form' = [form EXCEPT !.answers[p] = value]
  /\ storage' = [storage EXCEPT ![form.request] =
                   [key |-> form.key, answers |-> form'.answers]]
  /\ edits' = edits + 1
  /\ UNCHANGED <<serverVars, panel, posts, clock>>

CanSubmit == \A p \in requests[form.request].prompts : form.answers[p] # None

SubmitForm ==
  /\ form.request # 0 /\ ~form.submitting /\ ~form.submitted
  /\ CanSubmit
  /\ Len(posts) < MaxForms
  /\ form' = [form EXCEPT !.submitting = TRUE]
  /\ posts' = Append(posts, [form |-> form.number, request |-> form.request,
                             key |-> form.key, answers |-> form.answers,
                             stage |-> "sent"])
  /\ UNCHANGED <<serverVars, panel, storage, edits, clock>>

Settle(i, stage) == posts' = [posts EXCEPT ![i].stage = stage]

\* submit has a receipt already: for the key it came with, whatever the answers.
SubmittedBefore(post) == requests[post.request].submission # None

\* submit.
ServePost(i) ==
  LET post == posts[i] IN
  /\ post.stage = "sent"
  /\ IF SubmittedBefore(post)
     THEN /\ Settle(i, IF requests[post.request].submission.key = post.key
                       THEN "receipt" ELSE "error")
          /\ UNCHANGED requests
     ELSE IF Usable(post.request)
     THEN /\ requests' = [requests EXCEPT
                            ![post.request].state = "SUBMITTED",
                            ![post.request].submission =
                               [key |-> post.key, answers |-> post.answers]]
          /\ Settle(i, "receipt")
     ELSE Settle(i, "error") /\ UNCHANGED requests
  /\ UNCHANGED <<archived, eligible, panel, previews, form, storage, edits, clock>>

\* The call or its answer is lost, or refused by rateLimit.
LosePost(i) ==
  /\ posts[i].stage \in {"sent", "receipt"}
  /\ Settle(i, "error")
  /\ UNCHANGED <<serverVars, panel, form, storage, edits, clock>>

\* The answer arrives: with a receipt the draft is removed.
ReceivePost(i) ==
  /\ posts[i].stage # "sent" /\ posts[i].form = form.number
  /\ form' = [form EXCEPT !.submitting = FALSE,
                          !.submitted = posts[i].stage = "receipt"]
  /\ storage' = IF posts[i].stage = "receipt"
                THEN [storage EXCEPT ![form.request] = None] ELSE storage
  /\ posts' = RemoveAt(posts, i)
  /\ UNCHANGED <<serverVars, panel, edits, clock>>

\* The form that waited for the answer was closed.
DropPost(i) ==
  /\ posts[i].stage # "sent" /\ posts[i].form # form.number
  /\ posts' = RemoveAt(posts, i)
  /\ UNCHANGED <<serverVars, panel, form, storage, edits, clock>>

-----------------------------------------------------------------------------
\* Rounds and follow-ups are answered and asked elsewhere.
PromptsMove ==
  /\ eligible' \in SUBSET Prompts
  /\ eligible' # eligible
  /\ UNCHANGED <<archived, panel, previews, requests, formVars, clock>>

ArchiveOrRestoreUnnoticed ==
  /\ archived' = ~archived
  /\ UNCHANGED <<eligible, panel, previews, requests, formVars, clock>>

Tick ==
  /\ clock < MaxClock
  /\ clock' = clock + 1
  /\ UNCHANGED <<serverVars, panel, formVars>>

PanelCommand ==
  \/ LoadPanel
  \/ \E p \in Prompts : Toggle(p)
  \/ CreatePreview
  \/ \E answered \in BOOLEAN : ConfirmPreview(answered)
  \/ \E r \in DOMAIN requests :
       \/ Deliver(r) \/ RetryRequest(r) \/ Revoke(r) \/ Review(r)
       \/ \E p \in Prompts : KeepAsEvidence(r, p)

Customer ==
  \/ \E r \in DOMAIN requests : OpenForm(r)
  \/ \E p \in Prompts, value \in Answers \cup {None} : TypeAnswer(p, value)
  \/ SubmitForm
  \/ \E i \in DOMAIN posts :
       ServePost(i) \/ LosePost(i) \/ ReceivePost(i) \/ DropPost(i)

ResponseNext ==
  PanelCommand \/ Customer \/ PromptsMove \/ ArchiveOrRestoreUnnoticed \/ Tick

ResponseSpec == ResponseInit /\ [][ResponseNext]_<<archived, responseVars>>

-----------------------------------------------------------------------------
(* Properties.                                                             *)

Submissions == [key : 1..MaxForms, answers : [Prompts -> Answers \cup {None}]]

\* Every variable has its type.
ResponseTypeOK ==
  /\ archived \in BOOLEAN
  /\ eligible \subseteq Prompts
  /\ panel.preview \in 0..Len(previews)
  /\ \A r \in DOMAIN requests :
       /\ requests[r].state \in {"OPEN", "SUBMITTED", "REVOKED"}
       /\ requests[r].delivery \in {"SENDING", "SENT", "FAILED", "UNKNOWN"}
       /\ requests[r].submission \in Submissions \cup {None}
       /\ requests[r].evidence \subseteq requests[r].prompts
  /\ form.request \in 0..Len(requests)
  /\ \A r \in Ids : storage[r] \in Submissions \cup {None}
  /\ edits \in 0..MaxEdits
  /\ clock \in 0..MaxClock

\* A preview makes one request, however often its confirmation is sent.
EachPreviewOneRequest ==
  \A r, s \in DOMAIN requests :
    requests[r].preview = requests[s].preview => r = s

\* "The public form keeps unsent answers in browser-local storage and clears
\* them after successful submission": a form that says so has stored them.
SubmittedFormIsStored ==
  form.submitted => requests[form.request].submission.answers = form.answers
=============================================================================
