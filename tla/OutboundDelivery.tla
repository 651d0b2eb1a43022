------------------------- MODULE OutboundDelivery -------------------------
(***************************************************************************)
(* What every kind of Customer mail of Project Maker promises for one      *)
(* logical delivery (one immutable outbound communication), whatever       *)
(* handler carries it: it is claimed, handed to the mail gateway by the    *)
(* process that holds the claim, and every claim is resolved with one      *)
(* recorded result.  It is handed over again only after a confirmed        *)
(* failure, or when the employee accepted the risk of a duplicate for an   *)
(* uncertain result, and never once a result says it was accepted.         *)
(*                                                                         *)
(* The follow-up ping implements it (FollowUpPing, ImplementsDelivery).    *)
(***************************************************************************)
EXTENDS Integers

VARIABLES
  state,      \* the durable state of the delivery
  results,    \* how many times each result was recorded for it
  claims,     \* how many times it was claimed
  acks,       \* how many times its duplicate risk was accepted
  accepted    \* how many times the mail system really took the message

vars == <<state, results, claims, acks, accepted>>

Results == {"ACCEPTED", "REJECTED", "UNKNOWN"}

\* The state of a delivery whose claim was resolved with the given result.
StateOf(result) ==
  [ACCEPTED |-> "SENT", REJECTED |-> "FAILED", UNKNOWN |-> "UNKNOWN"][result]

NoResults == [r \in Results |-> 0]

Init ==
  /\ state = "NONE"
  /\ results = NoResults
  /\ claims = 0
  /\ acks = 0
  /\ accepted = 0

\* Claims whose message was neither taken by the mail system nor recorded as
\* refused by it.
Unsettled == claims - accepted - results["REJECTED"]

Claim ==
  /\ \/ state \in {"NONE", "FAILED"} /\ UNCHANGED acks
     \/ state = "UNKNOWN" /\ acks' = acks + 1
  /\ state' = "SENDING"
  /\ claims' = claims + 1
  /\ UNCHANGED <<results, accepted>>

GatewayAccepts ==
  /\ Unsettled > 0
  /\ accepted' = accepted + 1
  /\ UNCHANGED <<state, results, claims, acks>>

Resolve(result) ==
  /\ state = "SENDING"
  /\ result = "REJECTED" => Unsettled > 0
  /\ result = "ACCEPTED" => accepted > 0
  /\ state' = StateOf(result)
  /\ results' = [results EXCEPT ![result] = @ + 1]
  /\ UNCHANGED <<claims, acks, accepted>>

Next ==
  \/ Claim
  \/ GatewayAccepts
  \/ \E result \in Results : Resolve(result)

Spec == Init /\ [][Next]_vars

-----------------------------------------------------------------------------
TypeOK ==
  /\ state \in {"NONE", "SENDING", "SENT", "FAILED", "UNKNOWN"}
  /\ results \in [Results -> Nat]
  /\ claims \in Nat
  /\ acks \in Nat
  /\ accepted \in Nat

\* What the promise is for: the Customer holds at most one copy of a logical
\* delivery more than the number of times its duplicate risk was accepted.
CopiesAreAcknowledged == accepted <= 1 + acks

\* Why it holds: a claim without acknowledgement follows a recorded refusal,
\* and every recorded refusal is a claim whose message was not taken.
ClaimsAreAccounted ==
  /\ accepted + results["REJECTED"] <= claims
  /\ claims + (IF state = "FAILED" THEN 1 ELSE 0)
       <= (IF state = "NONE" THEN 0 ELSE 1) + acks + results["REJECTED"]
============================================================================
