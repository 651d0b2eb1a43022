---------------------- MODULE OutboundDelivery_proofs ----------------------
(***************************************************************************)
(* The promise of OutboundDelivery bounds the copies the Customer gets.    *)
(***************************************************************************)
EXTENDS OutboundDelivery, TLAPS

\* The state of a delivery is always of its type.
THEOREM TypeCorrect == Spec => []TypeOK
<1>1. Init => TypeOK
  BY DEF Init, TypeOK, NoResults, Results
<1>2. TypeOK /\ [Next]_vars => TypeOK'
  <2> SUFFICES ASSUME TypeOK, [Next]_vars PROVE TypeOK'
    OBVIOUS
  <2>1. CASE Claim
    BY <2>1 DEF TypeOK, Claim
  <2>2. CASE GatewayAccepts
    BY <2>2 DEF TypeOK, GatewayAccepts
  <2>3. ASSUME NEW result \in Results, Resolve(result) PROVE TypeOK'
    BY <2>3 DEF TypeOK, Resolve, StateOf, Results
  <2>4. CASE UNCHANGED vars
    BY <2>4 DEF TypeOK, vars
  <2>5. QED
    BY <2>1, <2>2, <2>3, <2>4 DEF Next
<1>3. QED
  BY <1>1, <1>2, PTL DEF Spec

\* Every claim is accounted for: as the first one, by an acknowledgement or by
\* a recorded refusal; and a refused claim put no copy into the mail system.
THEOREM Accounting == Spec => []ClaimsAreAccounted
<1>1. Init => ClaimsAreAccounted
  BY DEF Init, ClaimsAreAccounted, NoResults, Results
<1>2. TypeOK /\ ClaimsAreAccounted /\ [Next]_vars => ClaimsAreAccounted'
  <2> SUFFICES ASSUME TypeOK, ClaimsAreAccounted, [Next]_vars
               PROVE ClaimsAreAccounted'
    OBVIOUS
  <2> USE DEF TypeOK, ClaimsAreAccounted
  <2>0. results["REJECTED"] \in Nat
    BY DEF Results
  <2>1. CASE Claim
    BY <2>0, <2>1 DEF Claim
  <2>2. CASE GatewayAccepts
    BY <2>0, <2>2 DEF GatewayAccepts, Unsettled
  <2>3. ASSUME NEW result \in Results, Resolve(result) PROVE ClaimsAreAccounted'
    <3>1. CASE result = "REJECTED"
      BY <2>0, <2>3, <3>1 DEF Resolve, Unsettled, StateOf, Results
    <3>2. CASE result # "REJECTED"
      BY <2>0, <2>3, <3>2 DEF Resolve, StateOf, Results
    <3>3. QED
      BY <3>1, <3>2
  <2>4. CASE UNCHANGED vars
    BY <2>4 DEF vars
  <2>5. QED
    BY <2>1, <2>2, <2>3, <2>4 DEF Next
<1>3. QED
  BY <1>1, <1>2, TypeCorrect, PTL DEF Spec

\* The Customer never holds more unacknowledged copies of a delivery than one.
THEOREM CopiesBounded == Spec => []CopiesAreAcknowledged
<1>1. TypeOK /\ ClaimsAreAccounted => CopiesAreAcknowledged
  BY DEF TypeOK, ClaimsAreAccounted, CopiesAreAcknowledged, Results
<1>2. QED
  BY <1>1, TypeCorrect, Accounting, PTL
============================================================================
