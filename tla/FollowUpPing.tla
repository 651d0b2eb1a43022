--------------------------- MODULE FollowUpPing ---------------------------
(***************************************************************************)
(* The Customer follow-up ping of one Project (follow-up.service.ts) with  *)
(* the archive and restore commands of projects.service.ts that pause its  *)
(* schedule.                                                               *)
(*                                                                         *)
(* A ping is claimed in one transaction, submitted to the mail gateway     *)
(* outside any transaction, and finalized in another one.  The process     *)
(* that does this (a request handler or the poll timer of an API replica)  *)
(* is a deliverer: between the two transactions it holds the claim in      *)
(* memory only, so it may be overtaken by lease expiry, by a retry and by  *)
(* archive, or disappear.  Every transaction locks the project row or the  *)
(* follow-up row first, so each is one action here.                        *)
(*                                                                         *)
(* Times are read from one clock.  A timer poll works through its          *)
(* candidates one after the other with the time at which the poll began,   *)
(* which may lie up to PollLag behind the clock.                           *)
(***************************************************************************)
EXTENDS Integers, FiniteSets

CONSTANTS
  Deliverers,        \* request handlers and timers that can carry a claim
  Contexts,          \* recipient and referenced follow-up version of a ping
  ClosedReference,   \* the context whose referenced follow-up is not open
  None,              \* null
  Lease,             \* manualDeliveryLeaseMs
  PreviewLifetime,   \* previewLifetimeMs
  Intervals,         \* admissible intervalMinutes
  Expiries,          \* admissible expiresAt inputs
  PollLag,           \* bound: how far a poll's time lags behind the clock
  MaxClock,          \* bound: the horizon of the model
  MaxAttempts,       \* bound: delivery attempts of the project
  MaxClaims,         \* bound: claims of one attempt
  MaxDraftVersion    \* bound: edits of the draft

Results == {"ACCEPTED", "REJECTED", "UNKNOWN"}

ASSUME ConstantsAssumption ==
  /\ IsFiniteSet(Deliverers)
  /\ None \notin Int
  /\ None \notin Results
  /\ ClosedReference \notin Contexts
  /\ Lease \in Nat \ {0}
  /\ PreviewLifetime \in Nat \ {0}
  /\ Intervals \subseteq Nat \ {0}
  /\ Expiries \subseteq Nat
  /\ MaxClaims \in Nat \ {0}
  /\ {PollLag, MaxClock, MaxAttempts, MaxDraftVersion} \subseteq Nat

VARIABLES
  clock,
  archived,    \* project.status is ARCHIVED
  context,     \* what the ping is rendered from, besides the draft
  schedule,    \* the customer_follow_ups row
  preview,     \* its preview columns
  attempt,     \* the customer_follow_up_delivery_attempts rows
  results,     \* the customer_outbound_attempts rows of each attempt, counted
  evidence,    \* attempts whose correspondence holds a Customer reply
  flight,      \* the claim each deliverer carries in memory
  world        \* what really happened to each attempt (observed, not stored)

vars == <<clock, archived, context, schedule, preview, attempt, results,
          evidence, flight, world>>

AttemptIds == 1..MaxAttempts    \* in the order of their creation
AttemptStates == {"NONE", "SENDING", "SENT", "FAILED", "UNKNOWN"}
Times == Nat \cup {None}

-----------------------------------------------------------------------------
NoAttempt == [state |-> "NONE", draftVersion |-> 0, context |-> None,
              attemptedAt |-> 0]
Grounded == [stage |-> "idle", attempt |-> 0, claimedAt |-> 0,
             scheduled |-> FALSE, now |-> 0, result |-> None]

Init ==
  /\ clock = 0
  /\ archived = FALSE
  /\ context \in Contexts
  /\ schedule \in [enabled : {FALSE}, interval : Intervals, expiresAt : {None},
                   nextPingAt : {None}, paused : {None}, draftVersion : {1}]
  /\ preview = None
  /\ attempt = [a \in AttemptIds |-> NoAttempt]
  /\ results = [a \in AttemptIds |-> [r \in Results |-> 0]]
  /\ evidence = {}
  /\ flight = [d \in Deliverers |-> Grounded]
  /\ world = [a \in AttemptIds |-> [claims |-> 0, acks |-> 0, accepted |-> 0]]

-----------------------------------------------------------------------------
(* Helpers.                                                                *)

\* renderCurrentPing: the draft is empty until its first edit, and the
\* referenced Discovery follow-up must still be open.
Renderable == schedule.draftVersion > 1 /\ context # ClosedReference

Created == {a \in AttemptIds : attempt[a].state # "NONE"}
InProgress == {a \in AttemptIds : attempt[a].state = "SENDING"}

\* findLatestManualAttempt: ORDER BY attempted_at DESC.
IsLatest(a) ==
  /\ a \in Created
  /\ \A b \in Created : attempt[b].attemptedAt <= attempt[a].attemptedAt

\* nextAttemptTimestamp: the requested time, or just after the latest attempt.
NextAttemptTimestamps(t) ==
  IF \E a \in Created : attempt[a].attemptedAt >= t
  THEN {attempt[a].attemptedAt + 1 : a \in {b \in Created : IsLatest(b)}}
  ELSE {t}

\* Bound: a claim is made only if its lease ends within the horizon.
WithinHorizon(t) == t + Lease <= MaxClock

\* Variant: an archived project is treated as read-only here too.
ExpiredUnlessArchived(t) ==
  {a \in InProgress : ~archived /\ attempt[a].attemptedAt + Lease <= t}

\* reconcileExpiredManualAttempts: the claims whose lease ended by t.
Expired(t) == {a \in InProgress : attempt[a].attemptedAt + Lease <= t}
ReconciledAttempts(t) ==
  [a \in AttemptIds |-> IF a \in Expired(t)
                        THEN [attempt[a] EXCEPT !.state = "UNKNOWN"]
                        ELSE attempt[a]]
ReconciledResults(t) ==
  [a \in AttemptIds |-> IF a \in Expired(t)
                        THEN [results[a] EXCEPT !["UNKNOWN"] = @ + 1]
                        ELSE results[a]]

\* Variants: the project's status is not read again, or a claim that finishes
\* during archive forgets the cadence.
CadenceIgnoringArchive(t) ==
  [schedule EXCEPT
     !.nextPingAt = IF schedule.enabled THEN t + schedule.interval ELSE None,
     !.paused = None]
CadenceWithoutPause(t) ==
  [schedule EXCEPT
     !.nextPingAt = IF schedule.enabled /\ ~archived
                    THEN t + schedule.interval ELSE None,
     !.paused = None]

\* saveNextDeliveryCadence, which re-reads the project's status.
Cadence(t) ==
  [schedule EXCEPT
     !.nextPingAt = IF schedule.enabled /\ ~archived
                    THEN t + schedule.interval ELSE None,
     !.paused = IF schedule.enabled /\ archived THEN schedule.interval ELSE None]

\* The claim a deliverer takes along; a timer keeps the time of its poll.
Carry(d, claim) ==
  /\ flight[d].stage = "idle"
  /\ flight' = [flight EXCEPT ![d] = claim]
ManualClaim(a, stamp) ==
  [Grounded EXCEPT !.stage = "claimed", !.attempt = a, !.claimedAt = stamp]
ScheduledClaim(a, stamp, t) ==
  [ManualClaim(a, stamp) EXCEPT !.scheduled = TRUE, !.now = t]

NewAttempt(stamp) == [state |-> "SENDING", draftVersion |-> schedule.draftVersion,
                      context |-> context, attemptedAt |-> stamp]

-----------------------------------------------------------------------------
(* Commands on the schedule and the draft.                                 *)

\* PATCH follow-up.
Update(enabled, interval, expiresAt) ==
  /\ ~archived
  /\ enabled => /\ expiresAt # None => expiresAt > clock
                /\ Renderable
  /\ schedule' = [schedule EXCEPT
                    !.enabled = enabled,
                    !.interval = interval,
                    !.expiresAt = expiresAt,
                    !.nextPingAt = IF enabled THEN clock + interval ELSE None,
                    !.paused = None]
  /\ UNCHANGED <<clock, archived, context, preview, attempt, results, evidence,
                 flight, world>>

\* PATCH follow-up/draft, with an open reference or none.
UpdateDraft(newContext) ==
  /\ ~archived
  /\ schedule.draftVersion < MaxDraftVersion
  /\ context' = newContext
  /\ preview' = None
  /\ schedule' =
       [schedule EXCEPT
          !.draftVersion = @ + 1,
          !.nextPingAt =
            IF /\ schedule.enabled
               /\ schedule.nextPingAt = None
               /\ \A a \in Created : IsLatest(a) =>
                    attempt[a].state \notin {"SENDING", "UNKNOWN"}
            THEN clock + schedule.interval
            ELSE @]
  /\ UNCHANGED <<clock, archived, attempt, results, evidence, flight, world>>

\* POST follow-up/ping/preview.
PreviewManualPing ==
  /\ ~archived
  /\ Renderable
  /\ preview' = [draftVersion |-> schedule.draftVersion, context |-> context,
                 expiresAt |-> clock + PreviewLifetime]
  /\ UNCHANGED <<clock, archived, context, schedule, attempt, results, evidence,
                 flight, world>>

\* The recipient or the referenced follow-up changes elsewhere in the project;
\* a closed Discovery follow-up is never opened again.
ChangeContext(newContext) ==
  /\ ~archived
  /\ context # ClosedReference
  /\ context # newContext
  /\ context' = newContext
  /\ UNCHANGED <<clock, archived, schedule, preview, attempt, results, evidence,
                 flight, world>>

-----------------------------------------------------------------------------
(* Claims.                                                                 *)

\* Variant: the fingerprint covers the draft only.
FingerprintOfDraft == preview.draftVersion = schedule.draftVersion

\* The fingerprint of the preview, recomputed from the current content.
FingerprintMatches ==
  preview.draftVersion = schedule.draftVersion /\ preview.context = context

\* POST follow-up/ping: the reviewed preview is used up by a new attempt.
SendManualPing(d, a, acknowledged) ==
  /\ ~archived
  /\ preview # None
  /\ preview.expiresAt > clock
  /\ Renderable
  /\ FingerprintMatches
  /\ InProgress \subseteq Expired(clock)
  /\ \A b \in Created :
       IsLatest(b) /\ ReconciledAttempts(clock)[b].state = "UNKNOWN" => acknowledged
  /\ Created = 1..(a - 1)
  /\ \E stamp \in NextAttemptTimestamps(clock) :
       /\ WithinHorizon(stamp)
       /\ attempt' = [ReconciledAttempts(clock) EXCEPT ![a] = NewAttempt(stamp)]
       /\ Carry(d, ManualClaim(a, stamp))
  /\ results' = ReconciledResults(clock)
  /\ preview' = None
  /\ world' = [world EXCEPT ![a].claims = 1]
  /\ UNCHANGED <<clock, archived, context, schedule, evidence>>

\* Variants: an older attempt, or an uncertain one without acknowledgement, is
\* claimed again.
RetriableAnyAttempt(a, acknowledged) ==
  /\ a \notin evidence
  /\ \/ attempt[a].state = "FAILED"
     \/ attempt[a].state = "UNKNOWN" /\ acknowledged
RetriableUnacknowledged(a, acknowledged) ==
  /\ IsLatest(a)
  /\ a \notin evidence
  /\ attempt[a].state \in {"FAILED", "UNKNOWN"}

\* What may be claimed again: the latest attempt, if no Customer reply proved its
\* receipt and its failure is confirmed or its duplicate risk accepted.
Retriable(a, acknowledged) ==
  /\ IsLatest(a)
  /\ a \notin evidence
  /\ \/ attempt[a].state = "FAILED"
     \/ attempt[a].state = "UNKNOWN" /\ acknowledged

\* POST follow-up/ping/retry: the same attempt is claimed again.
RetryManualPing(d, a, acknowledged) ==
  /\ ~archived
  /\ Retriable(a, acknowledged)
  /\ Renderable
  /\ attempt[a].draftVersion = schedule.draftVersion
  /\ attempt[a].context = context
  /\ world[a].claims < MaxClaims
  /\ \E stamp \in NextAttemptTimestamps(clock) :
       /\ WithinHorizon(stamp)
       /\ attempt' = [attempt EXCEPT ![a].state = "SENDING",
                                     ![a].attemptedAt = stamp]
       /\ Carry(d, ManualClaim(a, stamp))
  /\ world' = [world EXCEPT
                 ![a].claims = @ + 1,
                 ![a].acks = IF attempt[a].state = "UNKNOWN" /\ acknowledged
                             THEN @ + 1 ELSE @]
  /\ UNCHANGED <<clock, archived, context, schedule, preview, results, evidence>>

\* The rows processDuePings selects and claimDueState selects again, at the
\* time the poll began.
Due(t) == schedule.enabled /\ schedule.nextPingAt # None /\ schedule.nextPingAt <= t
Ended(t) == schedule.expiresAt # None /\ schedule.expiresAt <= t
PollTimes == {t \in (clock - PollLag)..clock : t >= 0}

\* claimDueState, when it stops the schedule instead of claiming.
StopEndedSchedule(t) ==
  /\ Due(t)
  /\ Ended(t)
  /\ schedule' = [schedule EXCEPT !.enabled = FALSE, !.nextPingAt = None]
  /\ UNCHANGED <<clock, archived, context, preview, attempt, results, evidence,
                 flight, world>>

PauseDueSchedule(t) ==
  /\ Due(t)
  /\ ~Ended(t)
  /\ ~archived
  /\ \/ ~Renderable
     \/ /\ InProgress = {}
        /\ \E a \in Created : IsLatest(a) /\ attempt[a].state = "UNKNOWN"
  /\ schedule' = [schedule EXCEPT !.nextPingAt = None]
  /\ UNCHANGED <<clock, archived, context, preview, attempt, results, evidence,
                 flight, world>>

\* claimDueState, when it claims.
ClaimDueState(d, a, t) ==
  /\ Due(t)
  /\ ~Ended(t)
  /\ ~archived
  /\ Renderable
  /\ InProgress = {}
  /\ \A b \in Created : IsLatest(b) => attempt[b].state # "UNKNOWN"
  /\ Created = 1..(a - 1)
  /\ \E stamp \in NextAttemptTimestamps(t) :
       /\ WithinHorizon(stamp)
       /\ attempt' = [attempt EXCEPT ![a] = NewAttempt(stamp)]
       /\ Carry(d, ScheduledClaim(a, stamp, t))
  /\ schedule' = [schedule EXCEPT !.nextPingAt = None]
  /\ world' = [world EXCEPT ![a].claims = 1]
  /\ UNCHANGED <<clock, archived, context, preview, results, evidence>>

-----------------------------------------------------------------------------
(* Delivery.                                                               *)

\* submitPing: the gateway takes the message or refuses it; when the
\* connection breaks after the data was handed over nobody knows which.
Submit(d, result) ==
  LET a == flight[d].attempt IN
  /\ flight[d].stage = "claimed"
  /\ flight' = [flight EXCEPT ![d].stage = "answered", ![d].result = result]
  /\ \E taken \in {n \in {0, 1} : /\ result = "ACCEPTED" => n = 1
                                  /\ result = "REJECTED" => n = 0} :
       world' = [world EXCEPT ![a].accepted = @ + taken]
  /\ UNCHANGED <<clock, archived, context, schedule, preview, attempt, results,
                 evidence>>

\* Variant: an uncertain outcome counts as a confirmed failure.
StateOfOptimist(result) == IF result = "ACCEPTED" THEN "SENT" ELSE "FAILED"

StateOf(result) ==
  [ACCEPTED |-> "SENT", REJECTED |-> "FAILED", UNKNOWN |-> "UNKNOWN"][result]

\* Variant: a finalizer that trusts its claim.
StillSendingUnchecked(d) == TRUE

\* Every finalizer looks for an attempt that is still SENDING; a claim that was
\* overtaken is dropped.
StillSending(d) == attempt[flight[d].attempt].state = "SENDING"

Record(d, result) ==
  LET a == flight[d].attempt
      at == IF flight[d].scheduled THEN flight[d].now ELSE clock IN
  /\ flight[d].stage = "answered"
  /\ StillSending(d)
  /\ attempt' = [attempt EXCEPT ![a].state = StateOf(result)]
  /\ results' = [results EXCEPT ![a][result] = @ + 1]
  /\ schedule' = IF result = "UNKNOWN"
                 THEN [schedule EXCEPT !.nextPingAt = None]
                 ELSE Cadence(at)
  /\ flight' = [flight EXCEPT ![d] = Grounded]
  /\ UNCHANGED <<clock, archived, context, preview, evidence, world>>

Finalize(d) == Record(d, flight[d].result)

\* A manual finalizer that cannot store an explicit rejection falls into the
\* handler's catch block, which stores an uncertain outcome instead.
FinalizeFallsBack(d) ==
  /\ ~flight[d].scheduled
  /\ flight[d].result = "REJECTED"
  /\ Record(d, "UNKNOWN")

FinalizeOvertaken(d) ==
  /\ flight[d].stage = "answered"
  /\ ~StillSending(d)
  /\ flight' = [flight EXCEPT ![d] = Grounded]
  /\ UNCHANGED <<clock, archived, context, schedule, preview, attempt, results,
                 evidence, world>>

\* The process ends, or its finalizing transaction is rolled back and nobody
\* repeats it: the attempt stays SENDING until its lease ends.
Crash(d) ==
  /\ flight[d].stage # "idle"
  /\ flight' = [flight EXCEPT ![d] = Grounded]
  /\ UNCHANGED <<clock, archived, context, schedule, preview, attempt, results,
                 evidence, world>>

\* GET follow-up, and the part of a refused POST follow-up/ping that commits.
ReconcileExpired ==
  /\ Expired(clock) # {}
  /\ attempt' = ReconciledAttempts(clock)
  /\ results' = ReconciledResults(clock)
  /\ UNCHANGED <<clock, archived, context, schedule, preview, evidence, flight,
                 world>>

\* A Customer reply to a delivered ping is ingested and correlated.
Reply(a) ==
  /\ world[a].accepted > 0
  /\ a \notin evidence
  /\ evidence' = evidence \cup {a}
  /\ UNCHANGED <<clock, archived, context, schedule, preview, attempt, results,
                 flight, world>>

-----------------------------------------------------------------------------
(* Archive and restore.                                                    *)

\* Variant: an overdue ping leaves nothing of its cadence.
RemainingUnclamped == schedule.nextPingAt - clock

\* What is left of the cadence; a due ping waits for a full interval.
Remaining ==
  IF schedule.nextPingAt > clock
  THEN schedule.nextPingAt - clock
  ELSE schedule.interval

Archive ==
  /\ ~archived
  /\ archived' = TRUE
  /\ schedule' =
       IF schedule.enabled /\ schedule.nextPingAt # None
       THEN [schedule EXCEPT !.paused = Remaining, !.nextPingAt = None]
       ELSE [schedule EXCEPT !.paused = None]
  /\ UNCHANGED <<clock, context, preview, attempt, results, evidence, flight,
                 world>>

Resumed(next) ==
  IF ~schedule.enabled \/ (schedule.expiresAt # None /\ schedule.expiresAt <= next)
  THEN [schedule EXCEPT !.paused = None, !.enabled = FALSE, !.nextPingAt = None]
  ELSE [schedule EXCEPT !.paused = None, !.nextPingAt = next]

Restore ==
  /\ archived
  /\ archived' = FALSE
  /\ schedule' = IF schedule.paused = None THEN schedule
                 ELSE Resumed(clock + schedule.paused)
  /\ UNCHANGED <<clock, context, preview, attempt, results, evidence, flight,
                 world>>

Tick ==
  /\ clock < MaxClock
  /\ clock' = clock + 1
  /\ UNCHANGED <<archived, context, schedule, preview, attempt, results,
                 evidence, flight, world>>

-----------------------------------------------------------------------------
Commands ==
  \/ \E enabled \in BOOLEAN, interval \in Intervals,
        expiresAt \in Expiries \cup {None, schedule.expiresAt} :
       Update(enabled, interval, expiresAt)
  \/ \E newContext \in Contexts : UpdateDraft(newContext)
  \/ \E newContext \in Contexts \cup {ClosedReference} : ChangeContext(newContext)
  \/ PreviewManualPing
  \/ Archive
  \/ Restore

Claims ==
  \E d \in Deliverers, a \in AttemptIds :
    \/ \E acknowledged \in BOOLEAN :
         SendManualPing(d, a, acknowledged) \/ RetryManualPing(d, a, acknowledged)
    \/ \E t \in PollTimes : ClaimDueState(d, a, t)

Stops == \E t \in PollTimes : StopEndedSchedule(t) \/ PauseDueSchedule(t)

Deliveries ==
  \E d \in Deliverers :
    \/ \E result \in Results : Submit(d, result)
    \/ Finalize(d)
    \/ FinalizeFallsBack(d)
    \/ FinalizeOvertaken(d)
    \/ Crash(d)

Next ==
  \/ Commands
  \/ Claims
  \/ Stops
  \/ Deliveries
  \/ ReconcileExpired
  \/ \E a \in AttemptIds : Reply(a)
  \/ Tick

Spec == Init /\ [][Next]_vars

(***************************************************************************)
(* Fairness: time passes, and a visible pending ping is polled by the      *)
(* client, which reads the follow-up state until it is resolved.           *)
(***************************************************************************)
FairSpec == Spec /\ WF_vars(Tick) /\ WF_vars(ReconcileExpired)

-----------------------------------------------------------------------------
(* Invariants.                                                             *)

Carried(stage, answers) ==
  [stage : {stage}, attempt : AttemptIds, claimedAt : Nat, scheduled : BOOLEAN,
   now : Nat, result : answers]

TypeOK ==
  /\ clock \in Nat
  /\ archived \in BOOLEAN
  /\ context \in Contexts \cup {ClosedReference}
  /\ schedule \in [enabled : BOOLEAN, interval : Intervals, expiresAt : Times,
                   nextPingAt : Times, paused : (Nat \ {0}) \cup {None},
                   draftVersion : Nat]
  /\ preview \in [draftVersion : Nat, context : Contexts, expiresAt : Nat]
                 \cup {None}
  /\ attempt \in [AttemptIds ->
       [state : AttemptStates, draftVersion : Nat, context : Contexts \cup {None},
        attemptedAt : Nat]]
  /\ results \in [AttemptIds -> [Results -> Nat]]
  /\ evidence \subseteq AttemptIds
  /\ flight \in [Deliverers -> {Grounded} \cup Carried("claimed", {None})
                                         \cup Carried("answered", Results)]
  /\ world \in [AttemptIds -> [claims : Nat, acks : Nat, accepted : Nat]]

\* At most one ping of the project is being sent, and it is the latest attempt:
\* send, retry and the timer of every replica claim under the project lock, and
\* reconcile or reject what they find in progress.
SingleFlight ==
  \A a \in InProgress : \A b \in Created \ {a} :
    /\ b \notin InProgress
    /\ attempt[b].attemptedAt < attempt[a].attemptedAt

\* A next ping is due only for an enabled schedule of a project that is not
\* archived, and a paused cadence is kept only for one that is: the claim that
\* finishes during archive or after restore must find the right one.
CadenceMatchesProject ==
  /\ schedule.nextPingAt # None => schedule.enabled /\ ~archived
  /\ schedule.paused # None => schedule.enabled /\ archived

\* A schedule that is still enabled never just stops.  If nothing is planned,
\* either the draft cannot be rendered or the latest ping is unresolved: every
\* other path through finalizers, pauses, archive and restore plans the next one.
NoSilentStop ==
  (schedule.enabled /\ schedule.nextPingAt = None /\ schedule.paused = None) =>
    \/ ~Renderable
    \/ \E a \in Created : IsLatest(a) /\ attempt[a].state \in {"SENDING", "UNKNOWN"}

\* Every claim of an attempt ends in exactly one recorded result, whoever
\* records it: finalizer, lease expiry or nobody but the next reader.
OneResultPerClaim ==
  \A a \in AttemptIds :
    /\ world[a].claims = results[a]["ACCEPTED"] + results[a]["REJECTED"]
                          + results[a]["UNKNOWN"]
                          + (IF attempt[a].state = "SENDING" THEN 1 ELSE 0)
    /\ attempt[a].state = "SENT" <=> results[a]["ACCEPTED"] = 1
    /\ results[a]["ACCEPTED"] <= 1

\* The Customer gets one ping more than once only if the employee accepted that
\* risk each time: even when an overtaken claim reports late, copies of one
\* logical ping never outnumber the acknowledgements by more than the first.
NoUnacknowledgedDuplicate ==
  \A a \in AttemptIds : world[a].accepted <= 1 + world[a].acks

\* The hand-off documentation says that an explicit gateway rejection becomes
\* FAILED, the state that is retried without acknowledgement.  The finalizers
\* do not compare the time of their claim, so the late rejection of an
\* overtaken claim marks the ping FAILED whose newest claim was accepted.
FailedClaimWasNotAccepted ==
  \A d \in Deliverers :
    (/\ flight[d].stage = "answered"
     /\ flight[d].result = "ACCEPTED"
     /\ flight[d].claimedAt = attempt[flight[d].attempt].attemptedAt) =>
      attempt[flight[d].attempt].state # "FAILED"

-----------------------------------------------------------------------------
(* Action properties.                                                      *)

Claimed(a) == world'[a].claims > world[a].claims

\* A manual ping carries exactly what the employee saw in a preview that was
\* used up by it, although draft, recipient and reference change in between.
ManualPingWasReviewed ==
  [][\A a \in AttemptIds : \A d \in Deliverers :
       (/\ a \notin Created
        /\ Claimed(a)
        /\ flight'[d] # flight[d]
        /\ ~flight'[d].scheduled) =>
         /\ preview # None /\ preview' = None
         /\ attempt'[a].draftVersion = preview.draftVersion
         /\ attempt'[a].context = preview.context]_vars

-----------------------------------------------------------------------------
(* Liveness and refinement.                                                *)

\* A ping does not stay in progress for ever, whatever becomes of its claim.
EveryPingIsResolved ==
  \A a \in AttemptIds :
    attempt[a].state = "SENDING" ~> attempt[a].state # "SENDING"

\* Every attempt is a logical delivery in the sense of OutboundDelivery.
Delivery(a) == INSTANCE OutboundDelivery WITH
  state    <- attempt[a].state,
  results  <- results[a],
  claims   <- world[a].claims,
  acks     <- world[a].acks,
  accepted <- world[a].accepted

\* FollowUpPing implements it: Delivery(a)!Spec for every attempt a at once.
ImplementsDelivery ==
  /\ \A a \in AttemptIds : Delivery(a)!Init
  /\ [][\A a \in AttemptIds : [Delivery(a)!Next]_(Delivery(a)!vars)]_vars

============================================================================
