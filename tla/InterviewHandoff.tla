-------------------------- MODULE InterviewHandoff --------------------------
(***************************************************************************)
(* The Customer handoff of one initial interview round: the round that is  *)
(* edited and ended (interviews.service.ts), the numbered summary versions *)
(* that are drafted, sent and superseded                                   *)
(* (interview-customer-handoff.service.ts), and the triggers and the       *)
(* partial unique index of the database that protect both (migrations 0014 *)
(* and 0022).                                                              *)
(*                                                                         *)
(* Commands lock the project and the round and are one action each.  The   *)
(* delivery of a claimed version runs outside any transaction.  Listing    *)
(* the versions finds a version whose lease has ended WITHOUT a lock and   *)
(* saves it later in the same transaction, so it is two actions.           *)
(***************************************************************************)
EXTENDS Integers, Sequences, FiniteSets

CONSTANTS
  Deliverers,   \* request handlers that can carry a claim
  Readers,      \* requests that list the versions
  Lease,        \* sendingLeaseMs
  MaxVersions,  \* bound: versions of the summary
  MaxClaims,    \* bound: claims of one version
  MaxContent,   \* bound: content versions of the round
  MaxClock      \* bound: the horizon of the model

ASSUME HandoffAssumption ==
  /\ IsFiniteSet(Deliverers)
  /\ Lease \in Nat
  /\ MaxVersions \in Nat \ {0}

Results == {"ACCEPTED", "REJECTED", "UNKNOWN"}

VARIABLES
  clock,
  projectArchived,   \* project.status is ARCHIVED
  round,       \* the interview_rounds row: status and content_version
  handoffs,    \* the interview_customer_handoffs rows, by version
  preview,     \* what the employee has seen last of an active draft
  results,     \* customer_outbound_attempts of each version, counted
  evidence,    \* versions whose correspondence holds an inbound message
  flight,      \* the claim each deliverer carries in memory
  found,       \* the version each reader has found expired, 0 for none
  world        \* what really happened to each version (observed, not stored)

handoffVars == <<clock, projectArchived, round, handoffs, preview, results,
                 evidence, flight, found, world>>

Versions == 1..MaxVersions
States == {"DRAFT", "SENDING", "SENT", "FAILED", "UNKNOWN"}
Unseen == [version |-> 0, content |-> 0, summary |-> FALSE]
Grounded == [stage |-> "idle", version |-> 0, result |-> "none"]

HandoffInit ==
  /\ clock = 0
  /\ projectArchived = FALSE
  /\ round = [status |-> "OPEN", content |-> 1]
  /\ handoffs = <<>>
  /\ preview = Unseen
  /\ results = [v \in Versions |-> [r \in Results |-> 0]]
  /\ evidence = {}
  /\ flight = [d \in Deliverers |-> Grounded]
  /\ found = [r \in Readers |-> 0]
  /\ world = [v \in Versions |-> [claims |-> 0, acks |-> 0, accepted |-> 0]]

-----------------------------------------------------------------------------
Latest == Len(handoffs)
Existing == 1..Latest

\* uq_interview_customer_handoffs_active_round.
Active == {v \in Existing : handoffs[v].state \in {"DRAFT", "SENDING", "FAILED"}}

NewDraft == [state |-> "DRAFT", updatedAt |-> 0, summary |-> FALSE, content |-> 0]

-----------------------------------------------------------------------------
(* The round.                                                              *)

\* Variant: a failed delivery reopens the interview.
EditableUntilHandedOff ==
  \/ round.status = "OPEN"
  \/ handoffs = <<>>
  \/ \E v \in Existing : handoffs[v].state \in {"DRAFT", "FAILED"}

\* requireEditableRound, and interview_round_is_editable once more in the
\* trigger of every answer and assessment.
EditableRound ==
  \/ round.status = "OPEN"
  \/ handoffs = <<>>
  \/ \E v \in Existing : handoffs[v].state = "DRAFT"

\* updateAnswer, setAssessment, resetAssessment: the trigger counts the change.
EditRound ==
  /\ ~projectArchived
  /\ EditableRound
  /\ round.content < MaxContent
  /\ round' = [round EXCEPT !.content = @ + 1]
  /\ UNCHANGED <<clock, projectArchived, handoffs, preview, results, evidence,
                 flight, found, world>>

\* finishRound, which establishes the first draft with it.
EndRound ==
  /\ ~projectArchived
  /\ round.status = "OPEN"
  /\ round' = [round EXCEPT !.status = "ENDED"]
  /\ handoffs' = IF handoffs = <<>> THEN <<NewDraft>> ELSE handoffs
  /\ UNCHANGED <<clock, projectArchived, preview, results, evidence, flight,
                 found, world>>

-----------------------------------------------------------------------------
(* Drafts.                                                                 *)

UpdateDraft(v, summary) ==
  /\ ~projectArchived
  /\ v \in Existing
  /\ handoffs[v].state = "DRAFT"
  /\ handoffs' = [handoffs EXCEPT ![v].summary = summary]
  /\ UNCHANGED <<clock, projectArchived, round, preview, results, evidence,
                 flight, found, world>>

\* What a preview shows of a draft.
Rendered(v) == [version |-> v, content |-> round.content,
                summary |-> handoffs[v].summary]
Renderable(v) == v > 1 => handoffs[v].summary

Preview(v) ==
  /\ ~projectArchived
  /\ v \in Existing
  /\ handoffs[v].state = "DRAFT"
  /\ Renderable(v)
  /\ preview' = Rendered(v)
  /\ UNCHANGED <<clock, projectArchived, round, handoffs, results, evidence,
                 flight, found, world>>

Expired(v) ==
  handoffs[v].state = "SENDING" /\ clock - handoffs[v].updatedAt >= Lease

\* startDraft: a revision of what the Customer has, by the gateway's word or by
\* a reply.  The expired version that it finds itself is reconciled with it.
StartDraft ==
  /\ ~projectArchived
  /\ round.status = "ENDED"
  /\ Latest < MaxVersions
  /\ \/ Latest = 0
     \/ handoffs[Latest].state = "SENT"
     \/ /\ handoffs[Latest].state = "UNKNOWN" \/ Expired(Latest)
        /\ Latest \in evidence
  /\ handoffs' = IF Latest > 0 /\ handoffs[Latest].state = "SENDING"
                 THEN Append([handoffs EXCEPT ![Latest].state = "UNKNOWN"], NewDraft)
                 ELSE Append(handoffs, NewDraft)
  /\ results' = IF Latest > 0 /\ handoffs[Latest].state = "SENDING"
                THEN [results EXCEPT ![Latest]["UNKNOWN"] = @ + 1]
                ELSE results
  /\ UNCHANGED <<clock, projectArchived, round, preview, evidence, flight,
                 found, world>>

-----------------------------------------------------------------------------
(* Claims.                                                                 *)

Carry(d, v) ==
  /\ flight[d].stage = "idle"
  /\ flight' = [flight EXCEPT ![d] = [Grounded EXCEPT !.stage = "claimed",
                                                      !.version = v]]

\* send: exactly what the employee saw goes into the outbound snapshot.
Send(d, v) ==
  /\ ~projectArchived
  /\ v \in Existing
  /\ handoffs[v].state = "DRAFT"
  /\ Renderable(v)
  /\ preview = Rendered(v)
  /\ Carry(d, v)
  /\ handoffs' = [handoffs EXCEPT ![v].state = "SENDING", ![v].updatedAt = clock,
                                  ![v].content = round.content]
  /\ world' = [world EXCEPT ![v].claims = 1]
  /\ UNCHANGED <<clock, projectArchived, round, preview, results, evidence,
                 found>>

\* Variants: a reply does not prove receipt, or uncertainty needs no consent.
RetriableDespiteReply(v, acknowledged) ==
  \/ handoffs[v].state = "FAILED"
  \/ handoffs[v].state = "UNKNOWN" /\ acknowledged
RetriableUnacknowledged(v, acknowledged) ==
  v \notin evidence /\ handoffs[v].state \in {"FAILED", "UNKNOWN"}

Retriable(v, acknowledged) ==
  /\ v \notin evidence
  /\ \/ handoffs[v].state = "FAILED"
     \/ handoffs[v].state = "UNKNOWN" /\ acknowledged

\* retry of any version, which the database lets through only while no other
\* version of the round is active.
Retry(d, v, acknowledged) ==
  /\ ~projectArchived
  /\ v \in Existing
  /\ Retriable(v, acknowledged)
  /\ Active \subseteq {v}
  /\ world[v].claims < MaxClaims
  /\ Carry(d, v)
  /\ handoffs' = [handoffs EXCEPT ![v].state = "SENDING", ![v].updatedAt = clock]
  /\ world' = [world EXCEPT
                 ![v].claims = @ + 1,
                 ![v].acks = IF handoffs[v].state = "UNKNOWN" /\ acknowledged
                             THEN @ + 1 ELSE @]
  /\ UNCHANGED <<clock, projectArchived, round, preview, results, evidence,
                 found>>

-----------------------------------------------------------------------------
(* Delivery.                                                               *)

\* deliver, up to the answer of the mail gateway.
Submit(d, result) ==
  /\ flight[d].stage = "claimed"
  /\ flight' = [flight EXCEPT ![d].stage = "answered", ![d].result = result]
  /\ \E taken \in {n \in {0, 1} : /\ result = "ACCEPTED" => n = 1
                                  /\ result = "REJECTED" => n = 0} :
       world' = [world EXCEPT ![flight[d].version].accepted = @ + taken]
  /\ UNCHANGED <<clock, projectArchived, round, handoffs, preview, results,
                 evidence, found>>

\* Variant: the word of the gateway is stored as it is.
StateOfVerbatim(result) == result

StateOf(result) ==
  [ACCEPTED |-> "SENT", REJECTED |-> "FAILED", UNKNOWN |-> "UNKNOWN"][result]

\* deliver, its last transaction.
Finalize(d) ==
  LET v == flight[d].version IN
  /\ flight[d].stage = "answered"
  /\ handoffs[v].state = "SENDING"
  /\ handoffs' = [handoffs EXCEPT ![v].state = StateOf(flight[d].result),
                                  ![v].updatedAt = clock]
  /\ results' = [results EXCEPT ![v][flight[d].result] = @ + 1]
  /\ flight' = [flight EXCEPT ![d] = Grounded]
  /\ UNCHANGED <<clock, projectArchived, round, preview, evidence, found,
                 world>>

FinalizeOvertaken(d) ==
  /\ flight[d].stage = "answered"
  /\ handoffs[flight[d].version].state # "SENDING"
  /\ flight' = [flight EXCEPT ![d] = Grounded]
  /\ UNCHANGED <<clock, projectArchived, round, handoffs, preview, results,
                 evidence, found, world>>

\* The process ends or its last transaction is rolled back.
Crash(d) ==
  /\ flight[d].stage # "idle"
  /\ flight' = [flight EXCEPT ![d] = Grounded]
  /\ UNCHANGED <<clock, projectArchived, round, handoffs, preview, results,
                 evidence, found, world>>

-----------------------------------------------------------------------------
(* list, with reconcileExpiredSending in its two parts.                    *)

FindExpired(r, v) ==
  /\ found[r] = 0
  /\ v \in Existing
  /\ Expired(v)
  /\ found' = [found EXCEPT ![r] = v]
  /\ UNCHANGED <<clock, projectArchived, round, handoffs, preview, results,
                 evidence, flight, world>>

\* protect_interview_customer_handoff_change.
Protected(v) == handoffs[v].state = "SENT"

\* Variant: the expiry is not put into the history.
ExpiredResultsUnrecorded(v) == results

\* The result that an expiry appends to the history.
ExpiredResults(v) == [results EXCEPT ![v]["UNKNOWN"] = @ + 1]

\* The row is saved as it was found, whatever it has become in between.
SaveUnknown(r) ==
  LET v == found[r] IN
  /\ v # 0
  /\ ~Protected(v)
  /\ handoffs' = IF handoffs[v].state = "UNKNOWN" THEN handoffs
                 ELSE [handoffs EXCEPT ![v].state = "UNKNOWN", ![v].updatedAt = clock]
  /\ results' = ExpiredResults(v)
  /\ found' = [found EXCEPT ![r] = 0]
  /\ UNCHANGED <<clock, projectArchived, round, preview, evidence, flight,
                 world>>

\* The transaction of a reader is rolled back, by the trigger or a lost process.
ReaderFails(r) ==
  /\ found[r] # 0
  /\ found' = [found EXCEPT ![r] = 0]
  /\ UNCHANGED <<clock, projectArchived, round, handoffs, preview, results,
                 evidence, flight, world>>

-----------------------------------------------------------------------------
(* The rest of the system.                                                 *)

\* A reply to a delivered version is ingested and correlated.
Reply(v) ==
  /\ world[v].accepted > 0
  /\ v \notin evidence
  /\ evidence' = evidence \cup {v}
  /\ UNCHANGED <<clock, projectArchived, round, handoffs, preview, results,
                 flight, found, world>>

ArchiveOrRestoreProject ==
  /\ projectArchived' = ~projectArchived
  /\ UNCHANGED <<clock, round, handoffs, preview, results, evidence, flight,
                 found, world>>

Tick ==
  /\ clock < MaxClock
  /\ clock' = clock + 1
  /\ UNCHANGED <<projectArchived, round, handoffs, preview, results, evidence,
                 flight, found, world>>

-----------------------------------------------------------------------------
Drafting ==
  \/ EditRound
  \/ EndRound
  \/ StartDraft
  \/ \E v \in Versions :
       \/ \E summary \in BOOLEAN : UpdateDraft(v, summary)
       \/ Preview(v)

Delivering ==
  \E d \in Deliverers :
    \/ \E v \in Versions :
         Send(d, v) \/ \E acknowledged \in BOOLEAN : Retry(d, v, acknowledged)
    \/ \E result \in Results : Submit(d, result)
    \/ Finalize(d)
    \/ FinalizeOvertaken(d)
    \/ Crash(d)

Reading ==
  \E r \in Readers :
    \/ \E v \in Versions : FindExpired(r, v)
    \/ SaveUnknown(r)
    \/ ReaderFails(r)

HandoffNext ==
  \/ Drafting
  \/ Delivering
  \/ Reading
  \/ \E v \in Versions : Reply(v)
  \/ ArchiveOrRestoreProject
  \/ Tick

HandoffSpec == HandoffInit /\ [][HandoffNext]_handoffVars

-----------------------------------------------------------------------------
(* Properties.                                                             *)

HandoffTypeOK ==
  /\ clock \in Nat
  /\ projectArchived \in BOOLEAN
  /\ round \in [status : {"OPEN", "ENDED"}, content : Nat]
  /\ handoffs \in Seq([state : States, updatedAt : Nat, summary : BOOLEAN,
                       content : Nat])
  /\ Latest <= MaxVersions
  /\ preview \in [version : 0..MaxVersions, content : Nat, summary : BOOLEAN]
  /\ results \in [Versions -> [Results -> Nat]]
  /\ evidence \subseteq Existing
  /\ flight \in [Deliverers -> [stage : {"idle", "claimed", "answered"},
                                version : 0..Latest, result : Results \cup {"none"}]]
  /\ found \in [Readers -> 0..Latest]
  /\ world \in [Versions -> [claims : Nat, acks : Nat, accepted : Nat]]

\* Only the latest version is ever drafted, sent or failed.  A superseded one
\* stays what it was: neither retry, nor the late answer of an overtaken claim,
\* nor a reader that saves what it found before makes it active again.
OnlyTheLatestIsActive == Active \subseteq {Latest}

\* As long as no draft is open, the interview says what the latest handed-off
\* version says: nothing edits an answer between the preview, the claim and the
\* outcome of a delivery, or after it.
InterviewMatchesHandoff ==
  (Latest > 0 /\ handoffs[Latest].state # "DRAFT") =>
    handoffs[Latest].content = round.content

\* The Customer gets one version more than once only if the employee accepted
\* that risk each time, although claims are overtaken and readers overwrite
\* states that they found earlier.
NoUnacknowledgedDuplicate ==
  \A v \in Versions : world[v].accepted <= 1 + world[v].acks

\* No claim is without a trace: the history of a version holds at least one
\* result for every claim that is not being sent any more.
EveryClaimIsRecorded ==
  \A v \in Existing :
    world[v].claims <= results[v]["ACCEPTED"] + results[v]["REJECTED"]
                       + results[v]["UNKNOWN"]
                       + (IF handoffs[v].state = "SENDING" THEN 1 ELSE 0)

=============================================================================
