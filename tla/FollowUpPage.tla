----------------------------- MODULE FollowUpPage -----------------------------
(***************************************************************************)
(* The page of the Customer follow-up (customer-follow-up.component.ts)    *)
(* and, as far as the page can tell it, the API (follow-up.service.ts;     *)
(* FollowUpPing has all of it).  The page shows the state that some request*)
(* brought, keeps its controls disabled while that state is SENDING, and   *)
(* asks again every second until it is not.  Nobody else has to read the   *)
(* state, which is when the API ends an expired lease.                     *)
(*                                                                         *)
(* A request is served later than it is made and answered later than it is *)
(* served; it may fail before or after.  A failure stands for a refusal as *)
(* well, except where the page reads its code.  The references and the     *)
(* sender, loaded next to the state, can only add errors and are left out. *)
(***************************************************************************)
EXTENDS Naturals, FiniteSets, Sequences, SequencesExt, Null

CONSTANTS
  MaxAttempts,   \* bound: delivery attempts
  MaxPingClaims,     \* bound: claims of all of them
  MaxDraftVersion,   \* bound: versions of the draft
  MaxLoads,      \* bound: states that are being loaded at once
  MaxRequests,   \* bound: commands of the page under way at once
  MaxElsewhere   \* bound: commands of other Owners and pages

ASSUME FollowUpPageAssumption ==
  /\ MaxAttempts \in Nat /\ MaxPingClaims \in Nat /\ MaxElsewhere \in Nat
  /\ MaxDraftVersion \in Nat \ {0}

VARIABLES
  server,     \* the follow-up row, its latest attempt, project.status
  pageMode,   \* "work" or "settings"
  component,  \* CustomerFollowUpComponent
  loads,      \* GET follow-up, as made, each with the state it brings back
  requests,   \* ProjectCommandPending: one command of a kind
  elsewhere   \* commands of others so far, for the bound

followUpPageVars == <<server, pageMode, component, loads, requests, elsewhere>>

Kinds == {"save-settings", "save-draft", "preview", "send", "retry"}

NewPage == [shown |-> None,       \* state
            dirty |-> FALSE,      \* the draft form
            preview |-> None,
            retry |-> None,       \* retryConfirmation
            timer |-> FALSE,      \* recoveredPendingRefreshHandle is set
            error |-> FALSE,      \* actionError
            view |-> "loading",   \* loading, failed by a loadError, or ready
            archived |-> FALSE]   \* the input from the page around it

NewLoad(kind) == [kind |-> kind, state |-> None]

\* The draft and the preview of it; the latest attempt, its number, the draft it was
\* made of, its state, whether its lease has ended, and whether the Customer has
\* replied; claims of all attempts, for the bound.
Start == [version |-> 1, preview |-> 0, attempt |-> 0, made |-> 0, state |-> "NONE",
          expired |-> FALSE, received |-> FALSE, claims |-> 0, archived |-> FALSE]

FollowUpPageInit ==
  /\ server = Start
  /\ pageMode \in {"work", "settings"}
  /\ component = NewPage
  /\ loads = <<NewLoad("reload")>>
  /\ requests = [k \in Kinds |-> None]
  /\ elsewhere = 0

-----------------------------------------------------------------------------
(* The state of the API, and what the page does with it.                   *)

\* toState, as far as the page reads it.
CurrentState == [attempt |-> server.attempt, state |-> server.state,
                 received |-> server.received, version |-> server.version]

Load(kind) == Len(loads) < MaxLoads /\ loads' = Append(loads, NewLoad(kind))

\* applyState and synchronizeRecoveredPendingLease, which sets the timer or clears it.
Applied(p, state) == [p EXCEPT !.shown = state, !.timer = state.state = "SENDING"]

\* ... when the draft form is reset to what was loaded.
Reset(p, state) == [Applied(p, state) EXCEPT !.dirty = FALSE]

\* Variants: a failed poll is the last one; a poll that is under way counts as a timer.
GivesUp(p) == [p EXCEPT !.error = TRUE]
AppliedOnce(p, state) ==
  [p EXCEPT !.shown = state,
            !.timer = /\ state.state = "SENDING"
                      /\ \A i \in DOMAIN loads : loads[i].kind # "poll"]

\* The error handler of a poll.
PollFailed(p) ==
  [p EXCEPT !.error = TRUE, !.timer = @ \/ p.shown.state = "SENDING"]

-----------------------------------------------------------------------------
(* What the Owner does.                                                    *)

Ready == component.view = "ready"
ControlsDisabled == component.archived \/ component.shown.state = "SENDING"
Usable(inMode) == pageMode = inMode /\ Ready /\ ~ControlsDisabled
HasSavedDraft == component.shown.version > 1

\* pending.begin; most commands clear the last error.
Begin(kind, input) ==
  /\ requests[kind] = None
  /\ Cardinality({k \in Kinds : requests[k] # None}) < MaxRequests
  /\ requests' = [requests EXCEPT
                    ![kind] = [input |-> input, stage |-> "sent", result |-> None]]
  /\ component' = [component EXCEPT !.error = FALSE]
  /\ UNCHANGED <<server, pageMode, loads, elsewhere>>

\* The page alone changes.
Turn(p) == component' = p /\ UNCHANGED <<server, pageMode, loads, requests, elsewhere>>

EditDraft ==
  Usable("work") /\ Turn([component EXCEPT !.dirty = TRUE, !.preview = None])

SaveSettings(enabled) ==
  /\ Usable("settings")
  /\ enabled => HasSavedDraft
  /\ Begin("save-settings", enabled)

SaveDraft == Usable("work") /\ Begin("save-draft", component.shown.version)

PreviewPing ==
  /\ Usable("work")
  /\ ~component.dirty
  /\ HasSavedDraft
  /\ Begin("preview", component.shown.version)

CancelPreview == component.preview # None /\ Ready /\ Turn([component EXCEPT !.preview = None])

\* The button of an uncertain attempt says that its risk is accepted.
SendPing ==
  /\ Usable("work")
  /\ component.preview # None
  /\ Begin("send", [preview |-> component.preview,
                    acknowledged |-> IF component.shown.state = "UNKNOWN"
                                     THEN component.shown.attempt ELSE 0])

OpenRetryConfirmation ==
  /\ Usable("work")
  /\ component.retry = None
  /\ \/ component.shown.state = "FAILED"
     \/ component.shown.state = "UNKNOWN" /\ ~component.shown.received
  /\ Turn([component EXCEPT !.retry = [attempt |-> component.shown.attempt,
                                  state |-> component.shown.state]])

CancelRetry == component.retry # None /\ Ready /\ Turn([component EXCEPT !.retry = None])

RetryPing == Usable("work") /\ component.retry # None /\ Begin("retry", component.retry)

\* The buttons next to an error: reload after a loadError, else reloadState.
Reload ==
  /\ \/ /\ component.view = "failed"
        /\ Load("reload")
        /\ component' = [component EXCEPT !.view = "loading"]
     \/ /\ Ready
        /\ component.error
        /\ Load("refresh")
        /\ UNCHANGED component
  /\ UNCHANGED <<server, pageMode, requests, elsewhere>>

\* The page around it has learned of archive or restore; the effect.
ArchivedChanges ==
  /\ component.archived # server.archived
  /\ IF server.archived
     THEN /\ component' = [component EXCEPT !.archived = TRUE, !.preview = None]
          /\ UNCHANGED loads
     ELSE /\ component' = [component EXCEPT !.archived = FALSE, !.view = "loading"]
          /\ Load("reload")
  /\ UNCHANGED <<server, pageMode, requests, elsewhere>>

-----------------------------------------------------------------------------
(* Loading the state.                                                      *)

PollTimerFires ==
  /\ component.timer
  /\ component' = [component EXCEPT !.timer = FALSE]
  /\ Load("poll")
  /\ UNCHANGED <<server, pageMode, requests, elsewhere>>

\* reconcileExpiredManualAttempts.
Reconciled ==
  IF server.state = "SENDING" /\ server.expired
  THEN [server EXCEPT !.state = "UNKNOWN"] ELSE server

\* CustomerFollowUpService.get.
ServeLoad(i) ==
  /\ loads[i].state = None
  /\ server' = Reconciled
  /\ loads' = [loads EXCEPT ![i].state = CurrentState']
  /\ UNCHANGED <<pageMode, component, requests, elsewhere>>

\* What reload, reloadState and scheduleRecoveredPendingRefresh make of an answer.
Shows(p, load) ==
  CASE load.kind = "poll" -> Applied(p, load.state)
    [] load.kind = "reload" ->
         [Reset(p, load.state) EXCEPT !.view = IF @ = "failed" THEN @ ELSE "ready"]
    [] load.kind = "refresh" -> [Reset(p, load.state) EXCEPT !.error = FALSE]
    [] OTHER -> Reset(p, load.state)

ReceiveLoad(i) ==
  /\ loads[i].state # None
  /\ component' = Shows(component, loads[i])
  /\ loads' = RemoveAt(loads, i)
  /\ UNCHANGED <<server, pageMode, requests, elsewhere>>

\* Their error handlers.
Misses(p, load) ==
  CASE load.kind = "poll" -> PollFailed(p)
    [] load.kind = "reload" -> [p EXCEPT !.view = "failed"]
    [] OTHER -> [p EXCEPT !.error = TRUE]

LoadFails(i) ==
  /\ component' = Misses(component, loads[i])
  /\ loads' = RemoveAt(loads, i)
  /\ UNCHANGED <<server, pageMode, requests, elsewhere>>

-----------------------------------------------------------------------------
(* The API: commands, of this page or of others, and deliveries.           *)

\* update changes nothing that the page tells apart.
Settings(enabled) ==
  /\ ~server.archived
  /\ enabled => server.version > 1
  /\ UNCHANGED server

UpdatePingDraft(expected) ==
  /\ ~server.archived
  /\ server.version = expected
  /\ server.version < MaxDraftVersion
  /\ server' = [server EXCEPT !.version = @ + 1, !.preview = 0]

\* A preview replaces the one before; two of one version are not told apart.
PreviewManualPing(expected) ==
  /\ ~server.archived
  /\ server.version = expected
  /\ server.version > 1
  /\ server' = [server EXCEPT !.preview = server.version]

Claimed(from) ==
  [from EXCEPT !.state = "SENDING", !.expired = FALSE, !.claims = @ + 1]

\* A first attempt, or a new one after the latest has an outcome.
SendManualPing(preview, acknowledged) ==
  /\ ~server.archived
  /\ server.preview # 0
  /\ server.preview = preview
  /\ Reconciled.state # "SENDING"
  /\ Reconciled.state = "UNKNOWN" => acknowledged = server.attempt
  /\ server.attempt < MaxAttempts
  /\ server.claims < MaxPingClaims
  /\ server' = [Claimed(server) EXCEPT !.attempt = @ + 1, !.made = server.version,
                                       !.preview = 0, !.received = FALSE]

RetryManualPing(attempt, acknowledged) ==
  /\ ~server.archived
  /\ server.attempt = attempt
  /\ ~server.received
  /\ \/ server.state = "FAILED"
     \/ server.state = "UNKNOWN" /\ acknowledged
  /\ server.made = server.version
  /\ server.claims < MaxPingClaims
  /\ server' = Claimed(server)

\* Whoever carries a claim concludes it, unless it finds the attempt resolved.
Conclude(state) ==
  server' = IF server.state = "SENDING" THEN [server EXCEPT !.state = state] ELSE server

-----------------------------------------------------------------------------
(* Serving the page.                                                       *)

At(kind, stage) == requests[kind] # None /\ requests[kind].stage = stage
Answer(kind, stage, result) ==
  /\ requests' = [requests EXCEPT ![kind].stage = stage, ![kind].result = result]
  /\ UNCHANGED <<pageMode, component, loads, elsewhere>>

ServeSettings ==
  /\ At("save-settings", "sent")
  /\ Settings(requests["save-settings"].input)
  /\ Answer("save-settings", "done", CurrentState')

ServeDraft ==
  /\ At("save-draft", "sent")
  /\ UpdatePingDraft(requests["save-draft"].input)
  /\ Answer("save-draft", "done", CurrentState')

ServePreview ==
  /\ At("preview", "sent")
  /\ PreviewManualPing(requests["preview"].input)
  /\ Answer("preview", "done", server'.preview)

\* The handler holds the claim, and answers when it has concluded it.
ServeSend ==
  LET input == requests["send"].input
  IN /\ At("send", "sent")
     /\ SendManualPing(input.preview, input.acknowledged)
     /\ Answer("send", "claimed", None)

ServeRetry ==
  LET input == requests["retry"].input
  IN /\ At("retry", "sent")
     /\ RetryManualPing(input.attempt, input.state = "UNKNOWN")
     /\ Answer("retry", "claimed", None)

\* An uncertain attempt that the Owner has not seen is refused with the code of an
\* uncertain delivery, which commits that the lease has ended.
RefuseSend ==
  /\ At("send", "sent")
  /\ ~server.archived
  /\ server.preview = requests["send"].input.preview
  /\ Reconciled.state = "UNKNOWN"
  /\ server.attempt # requests["send"].input.acknowledged
  /\ server' = Reconciled
  /\ Answer("send", "reported", None)

\* deliverClaimedManualPing: an acceptance that finds the attempt resolved is an
\* error without a code, which RequestFails covers.
Deliver(kind, state) ==
  /\ At(kind, "claimed")
  /\ Conclude(state)
  /\ \/ state = "SENT" /\ server.state = "SENDING" /\ Answer(kind, "accepted", None)
     \/ state # "SENT" /\ Answer(kind, "reported", None)

-----------------------------------------------------------------------------
(* Answers to the commands.                                                *)

ReceiveOutcome(kind) ==
  LET request == requests[kind]
      closed == [component EXCEPT !.preview = IF kind = "send" THEN None ELSE @,
                             !.retry = IF kind = "retry" THEN None ELSE @]
  IN /\ request # None
     /\ \/ /\ request.stage = "done"
           /\ component' = CASE kind = "save-settings" -> Applied(component, request.result)
                        [] kind = "save-draft" -> Reset(component, request.result)
                        [] kind = "preview" -> [component EXCEPT !.preview = request.result]
           /\ UNCHANGED loads
        \/ /\ request.stage = "accepted"
           /\ component' = closed
           /\ Load("refresh")
        \/ /\ request.stage = "reported"
           /\ component' = [closed EXCEPT !.error = TRUE]
           /\ Load("refreshKeepingError")
     /\ requests' = [requests EXCEPT ![kind] = None]
     /\ UNCHANGED <<server, pageMode, elsewhere>>

\* No answer, or an error without one of the two codes: only a retry reloads.
RequestFails(kind) ==
  /\ requests[kind] # None
  /\ IF kind = "retry" THEN Load("refreshKeepingError") ELSE UNCHANGED loads
  /\ component' = [component EXCEPT !.error = TRUE,
                          !.preview = IF kind = "send" THEN None ELSE @,
                          !.retry = IF kind = "retry" THEN None ELSE @]
  /\ requests' = [requests EXCEPT ![kind] = None]
  /\ UNCHANGED <<server, pageMode, elsewhere>>

-----------------------------------------------------------------------------
\* Other Owners, and claims whose page has stopped waiting.
CommandOfOthers ==
  /\ elsewhere < MaxElsewhere
  /\ elsewhere' = elsewhere + 1
  /\ \/ server' = [server EXCEPT !.archived = ~@]
     \/ UpdatePingDraft(server.version)
     \/ SendManualPing(server.preview, server.attempt)
     \/ RetryManualPing(server.attempt, TRUE)
     \/ server.state # "NONE" /\ server' = [server EXCEPT !.received = TRUE]
  /\ UNCHANGED <<pageMode, component, loads, requests>>

ConcludedElsewhere ==
  /\ \E state \in {"SENT", "FAILED", "UNKNOWN"} : Conclude(state)
  /\ UNCHANGED <<pageMode, component, loads, requests, elsewhere>>

LeaseEnds ==
  /\ server.state = "SENDING"
  /\ ~server.expired
  /\ server' = [server EXCEPT !.expired = TRUE]
  /\ UNCHANGED <<pageMode, component, loads, requests, elsewhere>>

Owner ==
  \/ EditDraft \/ SaveDraft \/ PreviewPing \/ CancelPreview \/ SendPing
  \/ OpenRetryConfirmation \/ CancelRetry \/ RetryPing \/ Reload \/ ArchivedChanges
  \/ \E enabled \in BOOLEAN : SaveSettings(enabled)

Serving ==
  \/ ServeSettings \/ ServeDraft \/ ServePreview \/ ServeSend \/ RefuseSend \/ ServeRetry
  \/ \E k \in {"send", "retry"}, state \in {"SENT", "FAILED", "UNKNOWN"} : Deliver(k, state)
  \/ \E i \in DOMAIN loads : ServeLoad(i)

Answering ==
  \/ \E k \in Kinds : ReceiveOutcome(k) \/ RequestFails(k)
  \/ \E i \in DOMAIN loads : ReceiveLoad(i) \/ LoadFails(i)

FollowUpPageNext ==
  \/ Owner
  \/ PollTimerFires
  \/ Serving
  \/ Answering
  \/ CommandOfOthers \/ ConcludedElsewhere \/ LeaseEnds

FollowUpPageSpec == FollowUpPageInit /\ [][FollowUpPageNext]_followUpPageVars

-----------------------------------------------------------------------------
AttemptStates == {"NONE", "SENDING", "SENT", "FAILED", "UNKNOWN"}
LoadKinds == {"reload", "refresh", "refreshKeepingError", "poll"}
Servers == [version : 1..MaxDraftVersion, preview : 0..MaxDraftVersion,
            attempt : 0..MaxAttempts, made : 0..MaxDraftVersion, state : AttemptStates,
            expired : BOOLEAN, received : BOOLEAN, claims : 0..MaxPingClaims,
            archived : BOOLEAN]
ShownStates == [attempt : 0..MaxAttempts, state : AttemptStates, received : BOOLEAN,
                version : 1..MaxDraftVersion]
Retries == [attempt : 0..MaxAttempts, state : {"FAILED", "UNKNOWN"}]
Components == [shown : ShownStates \cup {None}, dirty : BOOLEAN,
               preview : (1..MaxDraftVersion) \cup {None}, retry : Retries \cup {None},
               timer : BOOLEAN, error : BOOLEAN, view : {"loading", "failed", "ready"},
               archived : BOOLEAN]

\* Every variable has its type, and a page is ready only once it shows a state.
FollowUpPageTypeOK ==
  /\ server \in Servers
  /\ pageMode \in {"work", "settings"}
  /\ component \in Components
  /\ Ready => component.shown \in ShownStates
  /\ loads \in Seq([kind : LoadKinds, state : ShownStates \cup {None}])
  /\ \A k \in Kinds : requests[k] # None =>
       requests[k].stage \in {"sent", "claimed", "done", "accepted", "reported"}
  /\ elsewhere \in 0..MaxElsewhere

\* A page that shows a delivery under way goes on asking for its outcome, whatever
\* it was shown by and in whichever order answers and failures come: the timer is
\* set, or a poll is out that sets it again (synchronizeRecoveredPendingLease).  As
\* the controls are disabled meanwhile, nothing else would end it
\* (docs/operations-handoff.md:440).
SendingIsWatched ==
  component.shown # None /\ component.shown.state = "SENDING" =>
    component.timer \/ \E i \in DOMAIN loads : loads[i].kind = "poll"
=============================================================================
