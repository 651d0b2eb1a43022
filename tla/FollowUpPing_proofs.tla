------------------------ MODULE FollowUpPing_proofs ------------------------
(***************************************************************************)
(* Theorems about FollowUpPing for every number of deliverers, attempts    *)
(* and contexts, and every lease, interval and horizon.                    *)
(***************************************************************************)
EXTENDS FollowUpPing, FiniteSetTheorems, TLAPS

Attempts == [state : AttemptStates, draftVersion : Nat,
             context : Contexts \cup {None}, attemptedAt : Nat]
Schedules == [enabled : BOOLEAN, interval : Intervals, expiresAt : Times,
              nextPingAt : Times, paused : (Nat \ {0}) \cup {None},
              draftVersion : Nat]

LEMMA IntervalsPositive == \A i \in Intervals : i \in Nat \ {0}
  BY ConstantsAssumption DEF ConstantsAssumption

\* Reconciling expired claims keeps the tables of their types.
LEMMA ReconciledTypes ==
  ASSUME TypeOK, NEW t \in Nat
  PROVE  /\ ReconciledAttempts(t) \in [AttemptIds -> Attempts]
         /\ ReconciledResults(t) \in [AttemptIds -> [Results -> Nat]]
<1>1. ASSUME NEW a \in AttemptIds
      PROVE [attempt[a] EXCEPT !.state = "UNKNOWN"] \in Attempts
  BY DEF TypeOK, Attempts, AttemptStates
<1>2. ASSUME NEW a \in AttemptIds
      PROVE [results[a] EXCEPT !["UNKNOWN"] = @ + 1] \in [Results -> Nat]
  BY DEF TypeOK, Results
<1>3. attempt \in [AttemptIds -> Attempts] /\ results \in [AttemptIds -> [Results -> Nat]]
  BY DEF TypeOK, Attempts
<1>4. QED
  BY <1>1, <1>2, <1>3 DEF ReconciledAttempts, ReconciledResults

\* A claim is stamped after every attempt there is, and not before it is made.
LEMMA StampIsLatest ==
  ASSUME TypeOK, NEW t \in Nat, NEW stamp \in NextAttemptTimestamps(t)
  PROVE  /\ stamp \in Nat
         /\ \A a \in Created : attempt[a].attemptedAt < stamp
<1>1. \A a \in Created : attempt[a].attemptedAt \in Nat
  BY DEF TypeOK, Created
<1>2. CASE \E a \in Created : attempt[a].attemptedAt >= t
  BY <1>1, <1>2 DEF NextAttemptTimestamps, IsLatest
<1>3. CASE ~\E a \in Created : attempt[a].attemptedAt >= t
  BY <1>1, <1>3 DEF NextAttemptTimestamps
<1>4. QED
  BY <1>2, <1>3

\* Whatever a finalizer plans is a schedule again.
LEMMA CadenceType ==
  ASSUME TypeOK, NEW t \in Nat
  PROVE  Cadence(t) \in Schedules
<1>1. schedule \in Schedules /\ schedule.interval \in Intervals
  BY DEF TypeOK, Schedules
<1>2. t + schedule.interval \in Nat /\ schedule.interval \in Nat \ {0}
  BY <1>1, IntervalsPositive
<1>3. /\ (IF schedule.enabled /\ ~archived
         THEN t + schedule.interval ELSE None) \in Times
      /\ (IF schedule.enabled /\ archived THEN schedule.interval ELSE None)
           \in (Nat \ {0}) \cup {None}
  BY <1>2 DEF Times
<1>4. QED
  BY <1>1, <1>3 DEF Cadence, Schedules

\* A new claim is of its type.
LEMMA CarryType ==
  ASSUME TypeOK, NEW d \in Deliverers, NEW a \in AttemptIds, NEW stamp \in Nat,
         NEW claim, Carry(d, claim),
         claim = ManualClaim(a, stamp)
         \/ \E t \in Nat : claim = ScheduledClaim(a, stamp, t)
  PROVE  flight' \in [Deliverers -> {Grounded} \cup Carried("claimed", {None})
                                    \cup Carried("answered", Results)]
<1>1. claim \in Carried("claimed", {None})
  <2>1. ManualClaim(a, stamp) \in Carried("claimed", {None})
    BY DEF ManualClaim, Grounded, Carried
  <2>2. ASSUME NEW t \in Nat
        PROVE  ScheduledClaim(a, stamp, t) \in Carried("claimed", {None})
    BY <2>1 DEF ScheduledClaim, Carried
  <2>3. QED
    BY <2>1, <2>2
<1>2. flight \in [Deliverers -> {Grounded} \cup Carried("claimed", {None})
                                \cup Carried("answered", Results)]
  BY DEF TypeOK
<1>3. QED
  BY <1>1, <1>2 DEF Carry

\* Every answered claim carries one of the three results to record.
LEMMA AnswerIsResult ==
  ASSUME TypeOK, NEW d \in Deliverers, flight[d].stage = "answered"
  PROVE  flight[d].result \in Results /\ flight[d].attempt \in AttemptIds
  BY DEF TypeOK, Grounded, Carried

\* The time a finalizer plans from.
LEMMA RecordTimeIsNat ==
  ASSUME TypeOK, NEW d \in Deliverers, flight[d].stage = "answered"
  PROVE  (IF flight[d].scheduled THEN flight[d].now ELSE clock) \in Nat
  BY DEF TypeOK, Grounded, Carried

\* The type invariant is inductive.
LEMMA TypeStep == TypeOK /\ [Next]_vars => TypeOK'
<1> SUFFICES ASSUME TypeOK, [Next]_vars PROVE TypeOK'
  OBVIOUS
<1>0. /\ clock \in Nat
      /\ schedule \in Schedules
      /\ attempt \in [AttemptIds -> Attempts]
      /\ world \in [AttemptIds -> [claims : Nat, acks : Nat, accepted : Nat]]
      /\ schedule.interval \in Nat \ {0}
      /\ clock + schedule.interval \in Nat
  <2>1. schedule \in Schedules /\ clock \in Nat
    BY DEF TypeOK, Schedules
  <2>2. schedule.interval \in Nat \ {0}
    BY <2>1, IntervalsPositive DEF Schedules
  <2>3. QED
    BY <2>1, <2>2 DEF TypeOK, Attempts
<1>1. ASSUME NEW enabled \in BOOLEAN, NEW interval \in Intervals,
             NEW expiresAt \in Expiries \cup {None, schedule.expiresAt},
             Update(enabled, interval, expiresAt)
      PROVE  TypeOK'
  <2>1. expiresAt \in Times
    BY ConstantsAssumption, <1>0 DEF ConstantsAssumption, Times, Schedules
  <2>2. schedule' \in Schedules
    <3>1. clock + interval \in Nat
      BY <1>0, IntervalsPositive
    <3>2. (IF enabled THEN clock + interval ELSE None) \in Times
      BY <3>1 DEF Times
    <3>3. QED
      BY <1>0, <1>1, <2>1, <3>2 DEF Update, Schedules
  <2>3. QED
    BY <1>1, <2>2 DEF Update, TypeOK, Schedules
<1>2. ASSUME NEW newContext \in Contexts, UpdateDraft(newContext) PROVE TypeOK'
  <2>1. schedule' \in Schedules
    <3>1. PICK next \in {clock + schedule.interval, schedule.nextPingAt} :
            schedule' = [schedule EXCEPT !.draftVersion = @ + 1,
                                         !.nextPingAt = next]
      BY <1>2 DEF UpdateDraft
    <3>2. next \in Times /\ schedule.draftVersion + 1 \in Nat
      BY <1>0 DEF Schedules, Times
    <3>3. QED
      BY <1>0, <3>1, <3>2 DEF Schedules
  <2>2. QED
    BY <1>2, <2>1 DEF UpdateDraft, TypeOK, Schedules
<1>3. ASSUME NEW newContext \in Contexts \cup {ClosedReference},
             ChangeContext(newContext)
      PROVE TypeOK'
  BY <1>3 DEF ChangeContext, TypeOK
<1>4. CASE PreviewManualPing
  <2>1. preview' \in [draftVersion : Nat, context : Contexts, expiresAt : Nat]
    BY <1>0, <1>4, ConstantsAssumption
       DEF PreviewManualPing, Renderable, TypeOK, ConstantsAssumption
  <2>2. QED
    BY <1>4, <2>1 DEF PreviewManualPing, TypeOK
<1>5. CASE Archive
  <2>1. schedule' \in Schedules
    <3>1. CASE schedule.enabled /\ schedule.nextPingAt # None
      <4>1. schedule.nextPingAt \in Nat
        BY <1>0, <3>1 DEF Schedules, Times
      <4>2. Remaining \in Nat \ {0}
        BY <1>0, <4>1 DEF Remaining
      <4>3. QED
        BY <1>0, <1>5, <3>1, <4>2 DEF Archive, Schedules, Times
    <3>2. CASE ~(schedule.enabled /\ schedule.nextPingAt # None)
      BY <1>0, <1>5, <3>2 DEF Archive, Schedules
    <3>3. QED
      BY <3>1, <3>2
  <2>2. QED
    BY <1>5, <2>1 DEF Archive, TypeOK, Schedules
<1>6. CASE Restore
  <2>1. schedule' \in Schedules
    <3>1. CASE schedule.paused = None
      BY <1>0, <1>6, <3>1 DEF Restore
    <3>2. CASE schedule.paused # None
      <4>1. schedule.paused \in Nat
        BY <1>0, <3>2 DEF Schedules
      <4>2. clock + schedule.paused \in Times
        BY <1>0, <4>1 DEF Times
      <4>3. Resumed(clock + schedule.paused) \in Schedules
        BY <1>0, <4>2 DEF Resumed, Schedules, Times
      <4>4. QED
        BY <1>6, <3>2, <4>3 DEF Restore
    <3>3. QED
      BY <3>1, <3>2
  <2>2. QED
    BY <1>6, <2>1 DEF Restore, TypeOK, Schedules
<1>7. ASSUME NEW d \in Deliverers, NEW a \in AttemptIds,
             NEW acknowledged \in BOOLEAN, SendManualPing(d, a, acknowledged)
      PROVE  TypeOK'
  <2>1. PICK stamp \in NextAttemptTimestamps(clock) :
          /\ attempt' = [ReconciledAttempts(clock) EXCEPT ![a] = NewAttempt(stamp)]
          /\ Carry(d, ManualClaim(a, stamp))
    BY <1>7 DEF SendManualPing
  <2>2. stamp \in Nat
    BY <1>0, StampIsLatest
  <2>3. NewAttempt(stamp) \in Attempts
    BY <1>7, <2>2 DEF NewAttempt, Attempts, AttemptStates, SendManualPing,
                      Renderable, TypeOK
  <2>4. attempt' \in [AttemptIds -> Attempts]
    BY <1>0, <2>1, <2>3, ReconciledTypes
  <2>5. results' \in [AttemptIds -> [Results -> Nat]]
    BY <1>0, <1>7, ReconciledTypes DEF SendManualPing
  <2>6. flight' \in [Deliverers -> {Grounded} \cup Carried("claimed", {None})
                                   \cup Carried("answered", Results)]
    BY <2>1, <2>2, CarryType
  <2>7. world' \in [AttemptIds -> [claims : Nat, acks : Nat, accepted : Nat]]
    BY <1>7 DEF SendManualPing, TypeOK
  <2>8. QED
    BY <1>7, <2>4, <2>5, <2>6, <2>7 DEF SendManualPing, TypeOK, Attempts
<1>8. ASSUME NEW d \in Deliverers, NEW a \in AttemptIds,
             NEW acknowledged \in BOOLEAN, RetryManualPing(d, a, acknowledged)
      PROVE  TypeOK'
  <2>1. PICK stamp \in NextAttemptTimestamps(clock) :
          /\ attempt' = [attempt EXCEPT ![a].state = "SENDING",
                                        ![a].attemptedAt = stamp]
          /\ Carry(d, ManualClaim(a, stamp))
    BY <1>8 DEF RetryManualPing
  <2>2. stamp \in Nat
    BY <1>0, StampIsLatest
  <2>3. attempt' \in [AttemptIds -> Attempts]
    BY <1>0, <2>1, <2>2 DEF Attempts, AttemptStates
  <2>4. flight' \in [Deliverers -> {Grounded} \cup Carried("claimed", {None})
                                   \cup Carried("answered", Results)]
    BY <2>1, <2>2, CarryType
  <2>5. world' \in [AttemptIds -> [claims : Nat, acks : Nat, accepted : Nat]]
    <3>1. PICK n \in {world[a].acks, world[a].acks + 1} :
            world' = [world EXCEPT ![a].claims = @ + 1, ![a].acks = n]
      BY <1>8 DEF RetryManualPing
    <3>2. world[a] \in [claims : Nat, acks : Nat, accepted : Nat]
      BY <1>0
    <3>3. [world[a] EXCEPT !.claims = @ + 1, !.acks = n]
            \in [claims : Nat, acks : Nat, accepted : Nat]
      <4>1. world[a].claims + 1 \in Nat /\ n \in Nat
        BY <3>2
      <4>2. QED
        BY <3>2, <4>1
    <3>4. QED
      BY <1>0, <3>1, <3>3
  <2>6. QED
    BY <1>8, <2>3, <2>4, <2>5 DEF RetryManualPing, TypeOK, Attempts
<1>9. ASSUME NEW d \in Deliverers, NEW a \in AttemptIds, NEW t \in PollTimes,
             ClaimDueState(d, a, t)
      PROVE  TypeOK'
  <2>0. t \in Nat
    BY <1>0, ConstantsAssumption DEF PollTimes, ConstantsAssumption
  <2>1. PICK stamp \in NextAttemptTimestamps(t) :
          /\ attempt' = [attempt EXCEPT ![a] = NewAttempt(stamp)]
          /\ Carry(d, ScheduledClaim(a, stamp, t))
    BY <1>9 DEF ClaimDueState
  <2>2. stamp \in Nat
    BY <2>0, StampIsLatest
  <2>3. NewAttempt(stamp) \in Attempts
    BY <1>9, <2>2 DEF NewAttempt, Attempts, AttemptStates, ClaimDueState,
                      Renderable, TypeOK
  <2>4. attempt' \in [AttemptIds -> Attempts]
    BY <1>0, <2>1, <2>3
  <2>5. flight' \in [Deliverers -> {Grounded} \cup Carried("claimed", {None})
                                   \cup Carried("answered", Results)]
    BY <2>0, <2>1, <2>2, CarryType
  <2>6. world' \in [AttemptIds -> [claims : Nat, acks : Nat, accepted : Nat]]
    BY <1>9 DEF ClaimDueState, TypeOK
  <2>7. schedule' \in Schedules
    BY <1>0, <1>9 DEF ClaimDueState, Schedules, Times
  <2>8. QED
    BY <1>9, <2>4, <2>5, <2>6, <2>7 DEF ClaimDueState, TypeOK, Attempts, Schedules
<1>10. ASSUME NEW t \in PollTimes, StopEndedSchedule(t) \/ PauseDueSchedule(t)
       PROVE  TypeOK'
  <2>1. schedule' \in Schedules
    BY <1>0, <1>10 DEF StopEndedSchedule, PauseDueSchedule, Schedules, Times
  <2>2. QED
    BY <1>10, <2>1 DEF StopEndedSchedule, PauseDueSchedule, TypeOK, Schedules
<1>11. ASSUME NEW d \in Deliverers, NEW result \in Results, Submit(d, result)
       PROVE  TypeOK'
  <2>0. flight[d] \in Carried("claimed", {None})
    BY <1>11 DEF Submit, TypeOK, Grounded, Carried
  <2>1. flight' \in [Deliverers -> {Grounded} \cup Carried("claimed", {None})
                                   \cup Carried("answered", Results)]
    <3>1. [flight[d] EXCEPT !.stage = "answered", !.result = result]
            \in Carried("answered", Results)
      BY <2>0 DEF Carried
    <3>2. QED
      BY <1>11, <3>1 DEF Submit, TypeOK
  <2>2. world' \in [AttemptIds -> [claims : Nat, acks : Nat, accepted : Nat]]
    <3>1. PICK taken \in {0, 1} :
            world' = [world EXCEPT ![flight[d].attempt].accepted = @ + taken]
      BY <1>11 DEF Submit
    <3>2. PICK a \in AttemptIds : a = flight[d].attempt
      BY <2>0 DEF Carried
    <3>3. [world[a] EXCEPT !.accepted = @ + taken]
            \in [claims : Nat, acks : Nat, accepted : Nat]
      <4>1. world[a] \in [claims : Nat, acks : Nat, accepted : Nat]
        BY <1>0
      <4>2. world[a].accepted + taken \in Nat
        BY <4>1
      <4>3. QED
        BY <4>1, <4>2
    <3>4. QED
      BY <1>0, <3>1, <3>2, <3>3
  <2>3. QED
    BY <1>11, <2>1, <2>2 DEF Submit, TypeOK
<1>12. ASSUME NEW d \in Deliverers, NEW result \in Results, Record(d, result)
       PROVE  TypeOK'
  <2>1. flight[d] \in Carried("answered", Results)
    BY <1>12 DEF Record, TypeOK, Grounded, Carried
  <2>2. flight[d].attempt \in AttemptIds /\ flight[d].now \in Nat
    BY <2>1 DEF Carried
  <2>3. StateOf(result) \in AttemptStates
    BY DEF StateOf, Results, AttemptStates
  <2>4. attempt' \in [AttemptIds -> Attempts]
    BY <1>0, <1>12, <2>2, <2>3 DEF Record, Attempts
  <2>5. results' \in [AttemptIds -> [Results -> Nat]]
    BY <1>12, <2>2 DEF Record, TypeOK
  <2>6. schedule' \in Schedules
    <3>1. [schedule EXCEPT !.nextPingAt = None] \in Schedules
      BY <1>0 DEF Schedules, Times
    <3>2. QED
      BY <1>0, <1>12, <2>2, <3>1, CadenceType DEF Record
  <2>7. flight' \in [Deliverers -> {Grounded} \cup Carried("claimed", {None})
                                   \cup Carried("answered", Results)]
    BY <1>12 DEF Record, TypeOK
  <2>8. QED
    BY <1>12, <2>4, <2>5, <2>6, <2>7 DEF Record, TypeOK, Attempts, Schedules
<1>13. ASSUME NEW d \in Deliverers, Finalize(d) PROVE TypeOK'
  <2>1. flight[d].result \in Results
    BY <1>13 DEF Finalize, Record, TypeOK, Grounded, Carried
  <2>2. QED
    BY <1>12, <1>13, <2>1 DEF Finalize
<1>14. ASSUME NEW d \in Deliverers, FinalizeFallsBack(d) PROVE TypeOK'
  BY <1>12, <1>14 DEF FinalizeFallsBack, Results
<1>15. ASSUME NEW d \in Deliverers, FinalizeOvertaken(d) \/ Crash(d) PROVE TypeOK'
  BY <1>15 DEF FinalizeOvertaken, Crash, TypeOK
<1>16. CASE ReconcileExpired
  <2>1. attempt' \in [AttemptIds -> Attempts]
    BY <1>0, <1>16, ReconciledTypes DEF ReconcileExpired
  <2>2. results' \in [AttemptIds -> [Results -> Nat]]
    BY <1>0, <1>16, ReconciledTypes DEF ReconcileExpired
  <2>3. QED
    BY <1>16, <2>1, <2>2 DEF ReconcileExpired, TypeOK, Attempts
<1>17. ASSUME NEW a \in AttemptIds, Reply(a) PROVE TypeOK'
  BY <1>17 DEF Reply, TypeOK
<1>18. CASE Tick
  <2>1. clock' \in Nat
    BY <1>0, <1>18 DEF Tick
  <2>2. QED
    BY <1>18, <2>1 DEF Tick, TypeOK
<1>19. CASE UNCHANGED vars
  BY <1>19 DEF vars, TypeOK, Carried
<1>20. CASE Commands
  BY <1>1, <1>2, <1>3, <1>4, <1>5, <1>6, <1>20 DEF Commands
<1>21. CASE Claims
  BY <1>7, <1>8, <1>9, <1>21 DEF Claims
<1>22. CASE Stops
  BY <1>10, <1>22 DEF Stops
<1>23. CASE Deliveries
  BY <1>11, <1>13, <1>14, <1>15, <1>23 DEF Deliveries
<1>24. QED
  BY <1>16, <1>17, <1>18, <1>19, <1>20, <1>21, <1>22, <1>23 DEF Next

\* The state always has its type: in particular, a paused cadence is positive,
\* and a claim that was answered carries one of the three results.
THEOREM TypeCorrect == Spec => []TypeOK
<1>1. Init => TypeOK
  <2> SUFFICES ASSUME Init PROVE TypeOK
    OBVIOUS
  <2>1. schedule \in Schedules
    <3>1. None \in Times /\ 1 \in Nat
      BY DEF Times
    <3>2. QED
      BY <3>1 DEF Init, Schedules
  <2>2. attempt \in [AttemptIds -> Attempts]
    BY DEF Init, Attempts, NoAttempt, AttemptStates
  <2>3. QED
    BY <2>1, <2>2 DEF Init, TypeOK, Schedules, Attempts
<1>2. QED
  BY <1>1, TypeStep, PTL DEF Spec

-----------------------------------------------------------------------------
(***************************************************************************)
(* The steps that change an attempt.                                       *)
(***************************************************************************)
Records == \E d \in Deliverers, result \in Results : Record(d, result)

LEMMA AttemptSteps ==
  ASSUME TypeOK, [Next]_vars
  PROVE  attempt' = attempt \/ Claims \/ Records \/ ReconcileExpired
<1>1. CASE Commands
  BY <1>1 DEF Commands, Update, UpdateDraft, ChangeContext, PreviewManualPing,
              Archive, Restore
<1>2. CASE Stops
  BY <1>2 DEF Stops, StopEndedSchedule, PauseDueSchedule
<1>3. CASE Deliveries
  <2>1. ASSUME NEW d \in Deliverers, Finalize(d) PROVE Records
    BY <2>1, AnswerIsResult DEF Finalize, Record, Records
  <2>2. ASSUME NEW d \in Deliverers, FinalizeFallsBack(d) PROVE Records
    BY <2>2 DEF FinalizeFallsBack, Records, Results
  <2>3. QED
    BY <1>3, <2>1, <2>2 DEF Deliveries, Submit, FinalizeOvertaken, Crash
<1>4. CASE Tick \/ (\E a \in AttemptIds : Reply(a)) \/ UNCHANGED vars
  BY <1>4 DEF Tick, Reply, vars
<1>5. QED
  BY <1>1, <1>2, <1>3, <1>4 DEF Next

\* A claimed attempt is stamped after all others, and is alone in progress.
LEMMA ClaimsLeaveOneInProgress ==
  ASSUME TypeOK, SingleFlight, Claims
  PROVE  \E a \in AttemptIds :
           /\ a \notin InProgress
           /\ attempt'[a].state = "SENDING"
           /\ \A b \in AttemptIds \ {a} :
                /\ attempt'[b].state # "SENDING"
                /\ attempt'[b].attemptedAt < attempt'[a].attemptedAt
                   \/ attempt'[b].state = "NONE"
<1> USE DEF Created, InProgress
<1>0. clock \in Nat /\ attempt \in [AttemptIds -> Attempts]
  BY DEF TypeOK, Attempts
<1>1. ASSUME NEW d \in Deliverers, NEW a \in AttemptIds,
             NEW acknowledged \in BOOLEAN, SendManualPing(d, a, acknowledged)
      PROVE  /\ a \notin InProgress
             /\ attempt'[a].state = "SENDING"
             /\ \A b \in AttemptIds \ {a} :
                  /\ attempt'[b].state # "SENDING"
                  /\ attempt'[b].attemptedAt < attempt'[a].attemptedAt
                     \/ attempt'[b].state = "NONE"
  <2>1. PICK stamp \in NextAttemptTimestamps(clock) :
          attempt' = [ReconciledAttempts(clock) EXCEPT ![a] = NewAttempt(stamp)]
    BY <1>1 DEF SendManualPing
  <2>2. stamp \in Nat /\ \A b \in Created : attempt[b].attemptedAt < stamp
    BY <1>0, StampIsLatest
  <2>3. a \notin Created /\ InProgress \subseteq Expired(clock)
    BY <1>1 DEF SendManualPing
  <2>4. attempt'[a] = NewAttempt(stamp)
    BY <2>1 DEF ReconciledAttempts
  <2>5. ASSUME NEW b \in AttemptIds \ {a}
        PROVE  /\ attempt'[b].state # "SENDING"
               /\ attempt'[b].attemptedAt = attempt[b].attemptedAt
               /\ attempt'[b].state = "NONE" <=> attempt[b].state = "NONE"
    <3>1. attempt'[b] = ReconciledAttempts(clock)[b]
      BY <2>1 DEF ReconciledAttempts
    <3>2. attempt[b] \in Attempts
      BY <1>0
    <3>3. CASE b \in Expired(clock)
      BY <3>1, <3>2, <3>3 DEF ReconciledAttempts, Expired, Attempts
    <3>4. CASE b \notin Expired(clock)
      BY <2>3, <3>1, <3>4 DEF ReconciledAttempts
    <3>5. QED
      BY <3>3, <3>4
  <2>6. QED
    BY <2>2, <2>3, <2>4, <2>5 DEF NewAttempt
<1>2. ASSUME NEW d \in Deliverers, NEW a \in AttemptIds,
             NEW acknowledged \in BOOLEAN, RetryManualPing(d, a, acknowledged)
      PROVE  /\ a \notin InProgress
             /\ attempt'[a].state = "SENDING"
             /\ \A b \in AttemptIds \ {a} :
                  /\ attempt'[b].state # "SENDING"
                  /\ attempt'[b].attemptedAt < attempt'[a].attemptedAt
                     \/ attempt'[b].state = "NONE"
  <2>1. PICK stamp \in NextAttemptTimestamps(clock) :
          attempt' = [attempt EXCEPT ![a].state = "SENDING",
                                     ![a].attemptedAt = stamp]
    BY <1>2 DEF RetryManualPing
  <2>2. stamp \in Nat /\ \A b \in Created : attempt[b].attemptedAt < stamp
    BY <1>0, StampIsLatest
  <2>3. attempt[a].state \in {"FAILED", "UNKNOWN"} /\ IsLatest(a)
    BY <1>2 DEF RetryManualPing, Retriable
  <2>4. \A b \in AttemptIds : b \notin InProgress
    <3>1. SUFFICES ASSUME NEW b \in AttemptIds, b \in InProgress PROVE FALSE
      OBVIOUS
    <3>2. attempt[a].attemptedAt < attempt[b].attemptedAt
      BY <2>3, <3>1 DEF SingleFlight, IsLatest
    <3>3. attempt[b].attemptedAt <= attempt[a].attemptedAt
      BY <2>3, <3>1 DEF IsLatest
    <3>4. attempt[a].attemptedAt \in Nat /\ attempt[b].attemptedAt \in Nat
      BY <1>0 DEF Attempts
    <3>5. QED
      BY <3>2, <3>3, <3>4
  <2>5. attempt'[a].state = "SENDING" /\ attempt'[a].attemptedAt = stamp
    BY <1>0, <2>1 DEF Attempts
  <2>6. \A b \in AttemptIds \ {a} : attempt'[b] = attempt[b]
    BY <1>0, <2>1
  <2>7. QED
    BY <2>2, <2>4, <2>5, <2>6
<1>3. ASSUME NEW d \in Deliverers, NEW a \in AttemptIds, NEW t \in PollTimes,
             ClaimDueState(d, a, t)
      PROVE  /\ a \notin InProgress
             /\ attempt'[a].state = "SENDING"
             /\ \A b \in AttemptIds \ {a} :
                  /\ attempt'[b].state # "SENDING"
                  /\ attempt'[b].attemptedAt < attempt'[a].attemptedAt
                     \/ attempt'[b].state = "NONE"
  <2>0. t \in Nat
    BY <1>0, ConstantsAssumption DEF PollTimes, ConstantsAssumption
  <2>1. PICK stamp \in NextAttemptTimestamps(t) :
          attempt' = [attempt EXCEPT ![a] = NewAttempt(stamp)]
    BY <1>3 DEF ClaimDueState
  <2>2. stamp \in Nat /\ \A b \in Created : attempt[b].attemptedAt < stamp
    BY <2>0, StampIsLatest
  <2>3. InProgress = {}
    BY <1>3 DEF ClaimDueState
  <2>4. attempt'[a] = NewAttempt(stamp)
    BY <1>0, <2>1
  <2>5. \A b \in AttemptIds \ {a} : attempt'[b] = attempt[b]
    BY <1>0, <2>1
  <2>6. QED
    BY <2>2, <2>3, <2>4, <2>5 DEF NewAttempt
<1>4. QED
  BY <1>1, <1>2, <1>3 DEF Claims

\* At most one ping of a project is in progress, and it is the latest attempt.
THEOREM SingleFlightHolds == Spec => []SingleFlight
<1>1. Init => SingleFlight
  BY DEF Init, SingleFlight, InProgress, NoAttempt
<1>2. TypeOK /\ SingleFlight /\ [Next]_vars => SingleFlight'
  <2> SUFFICES ASSUME TypeOK, SingleFlight, [Next]_vars PROVE SingleFlight'
    OBVIOUS
  <2>0. attempt \in [AttemptIds -> Attempts]
    BY DEF TypeOK, Attempts
  <2>1. CASE attempt' = attempt
    BY <2>1 DEF SingleFlight, InProgress, Created
  <2>2. CASE Claims
    BY <2>2, ClaimsLeaveOneInProgress DEF SingleFlight, InProgress, Created
  <2>3. ASSUME NEW d \in Deliverers, NEW result \in Results, Record(d, result)
        PROVE  SingleFlight'
    <3>1. StateOf(result) # "SENDING" /\ StateOf(result) # "NONE"
      BY DEF StateOf, Results
    <3>2. \A b \in AttemptIds :
            /\ attempt'[b].attemptedAt = attempt[b].attemptedAt
            /\ attempt'[b].state = "SENDING" => attempt[b].state = "SENDING"
            /\ attempt'[b].state # "NONE" => attempt[b].state # "NONE"
      BY <2>0, <2>3, <3>1 DEF Record, StillSending, Attempts
    <3>3. QED
      BY <3>2 DEF SingleFlight, InProgress, Created
  <2>4. CASE ReconcileExpired
    <3>1. \A b \in AttemptIds :
            /\ attempt'[b].attemptedAt = attempt[b].attemptedAt
            /\ attempt'[b].state = "SENDING" => attempt[b].state = "SENDING"
            /\ attempt'[b].state # "NONE" => attempt[b].state # "NONE"
      BY <2>0, <2>4 DEF ReconcileExpired, ReconciledAttempts, Expired, InProgress,
                        Attempts
    <3>2. QED
      BY <3>1 DEF SingleFlight, InProgress, Created
  <2>5. QED
    BY <2>1, <2>2, <2>3, <2>4, AttemptSteps DEF Records
<1>3. QED
  BY <1>1, <1>2, TypeCorrect, PTL DEF Spec

-----------------------------------------------------------------------------
(***************************************************************************)
(* The schedule.                                                           *)
(***************************************************************************)

\* The steps that leave the schedule alone.
LEMMA ScheduleSteps ==
  ASSUME TypeOK, [Next]_vars
  PROVE  \/ schedule' = schedule /\ archived' = archived
         \/ Commands \/ Stops \/ Claims \/ Records
<1>1. CASE Deliveries
  <2>1. ASSUME NEW d \in Deliverers, Finalize(d) PROVE Records
    BY <2>1, AnswerIsResult DEF Finalize, Record, Records
  <2>2. ASSUME NEW d \in Deliverers, FinalizeFallsBack(d) PROVE Records
    BY <2>2 DEF FinalizeFallsBack, Records, Results
  <2>3. QED
    BY <1>1, <2>1, <2>2 DEF Deliveries, Submit, FinalizeOvertaken, Crash
<1>2. CASE Tick \/ ReconcileExpired \/ (\E a \in AttemptIds : Reply(a)) \/ UNCHANGED vars
  BY <1>2 DEF Tick, ReconcileExpired, Reply, vars
<1>3. QED
  BY <1>1, <1>2 DEF Next

\* A next ping is planned, and a cadence set aside, only for an enabled
\* schedule, of an active and of an archived project respectively.
THEOREM CadenceMatchesProjectHolds == Spec => []CadenceMatchesProject
<1> USE DEF CadenceMatchesProject
<1>1. Init => CadenceMatchesProject
  BY DEF Init
<1>2. TypeOK /\ CadenceMatchesProject /\ [Next]_vars => CadenceMatchesProject'
  <2> SUFFICES ASSUME TypeOK, CadenceMatchesProject, [Next]_vars
               PROVE  CadenceMatchesProject'
    OBVIOUS
  <2>0. schedule \in Schedules /\ clock \in Nat /\ archived \in BOOLEAN
    BY DEF TypeOK, Schedules
  <2>1. CASE schedule' = schedule /\ archived' = archived
    BY <2>1
  <2>2. CASE Commands
    <3>1. ASSUME NEW enabled \in BOOLEAN, NEW interval \in Intervals,
                 NEW expiresAt \in Expiries \cup {None, schedule.expiresAt},
                 Update(enabled, interval, expiresAt)
          PROVE  CadenceMatchesProject'
      BY <2>0, <3>1 DEF Update, Schedules
    <3>2. ASSUME NEW newContext \in Contexts, UpdateDraft(newContext)
          PROVE  CadenceMatchesProject'
      BY <2>0, <3>2 DEF UpdateDraft, Schedules
    <3>3. CASE PreviewManualPing \/ \E newContext \in Contexts \cup {ClosedReference} :
                                     ChangeContext(newContext)
      BY <3>3 DEF PreviewManualPing, ChangeContext
    <3>4. CASE Archive
      BY <2>0, <3>4 DEF Archive, Schedules
    <3>5. CASE Restore
      BY <2>0, <3>5 DEF Restore, Resumed, Schedules
    <3>6. QED
      BY <2>2, <3>1, <3>2, <3>3, <3>4, <3>5 DEF Commands
  <2>3. CASE Stops
    BY <2>0, <2>3 DEF Stops, StopEndedSchedule, PauseDueSchedule, Due, Schedules
  <2>4. CASE Claims
    BY <2>0, <2>4 DEF Claims, SendManualPing, RetryManualPing, ClaimDueState,
                      Due, Schedules
  <2>5. ASSUME NEW d \in Deliverers, NEW result \in Results, Record(d, result)
        PROVE  CadenceMatchesProject'
    BY <2>0, <2>5 DEF Record, Cadence, Schedules
  <2>6. QED
    BY <2>1, <2>2, <2>3, <2>4, <2>5, ScheduleSteps DEF Records
<1>3. QED
  BY <1>1, <1>2, TypeCorrect, PTL DEF Spec

-----------------------------------------------------------------------------
(* A schedule that is enabled never just stops.                            *)

Stopped == schedule.enabled /\ schedule.nextPingAt = None /\ schedule.paused = None
Unresolved ==
  \E a \in Created : IsLatest(a) /\ attempt[a].state \in {"SENDING", "UNKNOWN"}

\* The latest attempt stays unresolved while no attempt is claimed or finalized.
LEMMA UnresolvedStays ==
  ASSUME TypeOK, Unresolved, attempt' = attempt \/ ReconcileExpired
  PROVE  Unresolved'
<1>0. attempt \in [AttemptIds -> Attempts]
  BY DEF TypeOK, Attempts
<1>1. \A b \in AttemptIds :
        /\ attempt'[b].attemptedAt = attempt[b].attemptedAt
        /\ attempt[b].state \in {"SENDING", "UNKNOWN"} =>
             attempt'[b].state \in {"SENDING", "UNKNOWN"}
        /\ attempt'[b].state # "NONE" <=> attempt[b].state # "NONE"
  BY <1>0 DEF ReconcileExpired, ReconciledAttempts, Expired, InProgress, Attempts
<1>2. QED
  BY <1>1 DEF Unresolved, IsLatest, Created

\* A claimed attempt is the latest one.
LEMMA ClaimsAreUnresolved ==
  ASSUME TypeOK, SingleFlight, Claims
  PROVE  Unresolved'
<1>1. PICK a \in AttemptIds :
        /\ attempt'[a].state = "SENDING"
        /\ \A b \in AttemptIds \ {a} :
             \/ attempt'[b].attemptedAt < attempt'[a].attemptedAt
             \/ attempt'[b].state = "NONE"
  BY ClaimsLeaveOneInProgress
<1>2. attempt'[a].attemptedAt \in Nat
        /\ \A b \in AttemptIds : attempt'[b].attemptedAt \in Nat
  <2>1. TypeOK'
    BY TypeStep DEF Next
  <2>2. QED
    BY <2>1 DEF TypeOK
<1>3. QED
  BY <1>1, <1>2 DEF Unresolved, IsLatest, Created

\* What is finalized was the latest attempt.
LEMMA UncertainRecordIsUnresolved ==
  ASSUME TypeOK, SingleFlight, NEW d \in Deliverers, Record(d, "UNKNOWN")
  PROVE  Unresolved'
<1> DEFINE a == flight[d].attempt
<1>0. attempt \in [AttemptIds -> Attempts] /\ a \in AttemptIds
  BY AnswerIsResult DEF TypeOK, Attempts, Record
<1>1. attempt[a].state = "SENDING" /\ attempt' = [attempt EXCEPT ![a].state = "UNKNOWN"]
  BY DEF Record, StillSending, StateOf
<1>2. \A b \in Created : attempt[b].attemptedAt <= attempt[a].attemptedAt
  BY <1>0, <1>1 DEF SingleFlight, InProgress, Created, Attempts
<1>3. attempt'[a].state = "UNKNOWN"
  BY <1>0, <1>1 DEF Attempts
<1>4. \A b \in AttemptIds :
        /\ attempt'[b].attemptedAt = attempt[b].attemptedAt
        /\ attempt'[b].state # "NONE" <=> attempt[b].state # "NONE"
  BY <1>0, <1>1 DEF Attempts
<1>5. QED
  BY <1>0, <1>2, <1>3, <1>4 DEF Unresolved, IsLatest, Created

\* If nothing is planned although the schedule is enabled, the draft cannot be
\* rendered or the latest ping is unresolved: no path through a finalizer,
\* a pause, archive and restore loses the cadence.
THEOREM NoSilentStopHolds == Spec => []NoSilentStop
<1>0. NoSilentStop <=> (Stopped => ~Renderable \/ Unresolved)
  BY DEF NoSilentStop, Stopped, Unresolved
<1> USE DEF Renderable
<1>1. Init => NoSilentStop
  BY <1>0 DEF Init, Stopped
<1>2. /\ TypeOK /\ SingleFlight /\ CadenceMatchesProject /\ NoSilentStop
      /\ [Next]_vars
      => NoSilentStop'
  <2> SUFFICES ASSUME TypeOK, SingleFlight, CadenceMatchesProject,
                      Stopped => ~Renderable \/ Unresolved,
                      [Next]_vars, Stopped', Renderable'
               PROVE  Unresolved'
    BY <1>0 DEF NoSilentStop, Stopped, Unresolved
  <2>0. /\ schedule \in Schedules /\ clock \in Nat
        /\ schedule.interval \in Nat \ {0}
        /\ None \notin Nat
    <3>1. schedule \in Schedules /\ clock \in Nat
      BY DEF TypeOK, Schedules
    <3>2. schedule.interval \in Nat \ {0}
      BY <3>1, IntervalsPositive DEF Schedules
    <3>3. None \notin Nat
      BY ConstantsAssumption DEF ConstantsAssumption
    <3>4. QED
      BY <3>1, <3>2, <3>3
  <2>1. ASSUME UNCHANGED <<schedule, context>>,
               attempt' = attempt \/ ReconcileExpired
        PROVE  Unresolved'
    BY <2>1, UnresolvedStays DEF Stopped
  <2>2. CASE Commands
    <3>1. ASSUME NEW enabled \in BOOLEAN, NEW interval \in Intervals,
                 NEW expiresAt \in Expiries \cup {None, schedule.expiresAt},
                 Update(enabled, interval, expiresAt)
          PROVE  FALSE
      <4>1. clock + interval \in Nat
        BY <2>0, IntervalsPositive
      <4>2. QED
        BY <2>0, <3>1, <4>1 DEF Update, Stopped, Schedules
    <3>2. ASSUME NEW newContext \in Contexts, UpdateDraft(newContext)
          PROVE  Unresolved'
      <4>1. clock + schedule.interval \in Nat
        BY <2>0
      <4>2. Unresolved
        BY <2>0, <3>2, <4>1 DEF UpdateDraft, Stopped, Unresolved, Created, Schedules
      <4>3. QED
        BY <3>2, <4>2, UnresolvedStays DEF UpdateDraft
    <3>3. ASSUME NEW newContext \in Contexts \cup {ClosedReference},
                 ChangeContext(newContext)
          PROVE  Unresolved'
      BY <3>3, UnresolvedStays DEF ChangeContext, Stopped
    <3>4. CASE PreviewManualPing
      BY <2>1, <3>4 DEF PreviewManualPing
    <3>5. CASE Archive
      <4>1. CASE schedule.enabled /\ schedule.nextPingAt # None
        <5>1. schedule.nextPingAt \in Nat
          BY <2>0, <4>1 DEF Schedules, Times
        <5>2. Remaining \in Nat
          BY <2>0, <5>1 DEF Remaining
        <5>3. QED
          BY <2>0, <3>5, <4>1, <5>2 DEF Archive, Stopped, Schedules
      <4>2. CASE ~(schedule.enabled /\ schedule.nextPingAt # None)
        <5>1. Stopped /\ Renderable
          BY <2>0, <3>5, <4>2 DEF Archive, Stopped, CadenceMatchesProject, Schedules
        <5>2. QED
          BY <3>5, <5>1, UnresolvedStays DEF Archive
      <4>3. QED
        BY <4>1, <4>2
    <3>6. CASE Restore
      <4>1. CASE schedule.paused = None
        BY <2>1, <3>6, <4>1 DEF Restore
      <4>2. CASE schedule.paused # None
        <5>1. schedule.paused \in Nat
          BY <2>0, <4>2 DEF Schedules
        <5>2. clock + schedule.paused \in Nat
          BY <2>0, <5>1
        <5>3. QED
          BY <2>0, <3>6, <4>2, <5>2 DEF Restore, Resumed, Stopped, Schedules
      <4>3. QED
        BY <4>1, <4>2
    <3>7. QED
      BY <2>2, <3>1, <3>2, <3>3, <3>4, <3>5, <3>6 DEF Commands
  <2>3. ASSUME NEW t \in PollTimes, StopEndedSchedule(t) PROVE FALSE
    BY <2>0, <2>3 DEF StopEndedSchedule, Stopped, Schedules
  <2>4. ASSUME NEW t \in PollTimes, PauseDueSchedule(t) PROVE Unresolved'
    <3>1. Unresolved
      BY <2>0, <2>4 DEF PauseDueSchedule, Unresolved, Schedules
    <3>2. QED
      BY <2>4, <3>1, UnresolvedStays DEF PauseDueSchedule
  <2>5. CASE Claims
    BY <2>5, ClaimsAreUnresolved
  <2>6. ASSUME NEW d \in Deliverers, NEW result \in Results, Record(d, result)
        PROVE  Unresolved'
    <3>1. CASE result = "UNKNOWN"
      BY <2>6, <3>1, UncertainRecordIsUnresolved
    <3>2. CASE result # "UNKNOWN"
      <4>1. PICK t \in Nat : schedule' = Cadence(t)
        BY <2>0, <2>6, <3>2, RecordTimeIsNat DEF Record
      <4>2. t + schedule.interval \in Nat
        BY <2>0
      <4>3. archived \in BOOLEAN /\ schedule.enabled \in BOOLEAN
        BY <2>0 DEF TypeOK, Schedules
      <4>4. CASE schedule.enabled /\ ~archived
        BY <2>0, <4>1, <4>2, <4>4 DEF Cadence, Stopped, Schedules
      <4>5. CASE schedule.enabled /\ archived
        BY <2>0, <4>1, <4>5 DEF Cadence, Stopped, Schedules
      <4>6. CASE ~schedule.enabled
        BY <2>0, <4>1, <4>6 DEF Cadence, Stopped, Schedules
      <4>7. QED
        BY <4>3, <4>4, <4>5, <4>6
    <3>3. QED
      BY <3>1, <3>2
  <2>7. CASE Deliveries
    <3>1. ASSUME NEW d \in Deliverers, Finalize(d) \/ FinalizeFallsBack(d)
          PROVE  Unresolved'
      <4>1. Records
        BY <3>1, AnswerIsResult DEF Finalize, FinalizeFallsBack, Record, Records, Results
      <4>2. QED
        BY <2>6, <4>1 DEF Records
    <3>2. ASSUME NEW d \in Deliverers,
                 \/ \E result \in Results : Submit(d, result)
                 \/ FinalizeOvertaken(d)
                 \/ Crash(d)
          PROVE  Unresolved'
      BY <2>1, <3>2 DEF Submit, FinalizeOvertaken, Crash
    <3>3. QED
      BY <2>7, <3>1, <3>2 DEF Deliveries
  <2>8. CASE ReconcileExpired
    BY <2>1, <2>8 DEF ReconcileExpired
  <2>9. CASE Tick \/ (\E a \in AttemptIds : Reply(a)) \/ UNCHANGED vars
    BY <2>1, <2>9 DEF Tick, Reply, vars
  <2>10. QED
    BY <2>2, <2>3, <2>4, <2>5, <2>7, <2>8, <2>9 DEF Next, Stops
<1>3. QED
  BY <1>1, <1>2, TypeCorrect, SingleFlightHolds, CadenceMatchesProjectHolds,
     PTL DEF Spec

-----------------------------------------------------------------------------
(* What the employee reviewed.                                             *)

\* Only a send, a retry or the timer claims an attempt.
LEMMA OnlyClaimsClaim ==
  ASSUME TypeOK, [Next]_vars, NEW a \in AttemptIds, Claimed(a)
  PROVE  \E d \in Deliverers :
           \/ \E acknowledged \in BOOLEAN :
                SendManualPing(d, a, acknowledged) \/ RetryManualPing(d, a, acknowledged)
           \/ \E t \in PollTimes : ClaimDueState(d, a, t)
<1>1. /\ world \in [AttemptIds -> [claims : Nat, acks : Nat, accepted : Nat]]
      /\ world[a].claims \in Nat
  BY DEF TypeOK
<1>2. world'[a].claims # world[a].claims
  BY <1>1 DEF Claimed
<1>3. CASE Claims
  <2>1. PICK d \in Deliverers, b \in AttemptIds :
          \/ \E acknowledged \in BOOLEAN :
               SendManualPing(d, b, acknowledged) \/ RetryManualPing(d, b, acknowledged)
          \/ \E t \in PollTimes : ClaimDueState(d, b, t)
    BY <1>3 DEF Claims
  <2>2. \A c \in AttemptIds \ {b} : world'[c] = world[c]
    BY <1>1, <2>1 DEF SendManualPing, RetryManualPing, ClaimDueState
  <2>3. QED
    BY <1>2, <2>1, <2>2
<1>4. CASE Deliveries
  <2>1. ASSUME NEW d \in Deliverers, NEW result \in Results, Submit(d, result)
        PROVE  world'[a].claims = world[a].claims
    BY <1>1, <2>1 DEF Submit
  <2>2. QED
    BY <1>2, <1>4, <2>1 DEF Deliveries, Finalize, FinalizeFallsBack, Record,
                            FinalizeOvertaken, Crash
<1>5. CASE ~(Claims \/ Deliveries)
  <2>1. world' = world
    BY <1>5 DEF Next, vars, Commands, Update, UpdateDraft, ChangeContext,
                PreviewManualPing, Archive, Restore, Stops, StopEndedSchedule,
                PauseDueSchedule, ReconcileExpired, Reply, Tick
  <2>2. QED
    BY <1>2, <2>1
<1>6. QED
  BY <1>3, <1>4, <1>5

\* A new manual ping is the preview that it uses up, in draft, recipient and
\* reference (POST follow-up/ping recomputes the fingerprint of the preview).
THEOREM ManualPingWasReviewedHolds == Spec => ManualPingWasReviewed
<1>1. TypeOK /\ [Next]_vars =>
        [\A a \in AttemptIds : \A d \in Deliverers :
           (/\ a \notin Created
            /\ Claimed(a)
            /\ flight'[d] # flight[d]
            /\ ~flight'[d].scheduled) =>
             /\ preview # None /\ preview' = None
             /\ attempt'[a].draftVersion = preview.draftVersion
             /\ attempt'[a].context = preview.context]_vars
  <2> SUFFICES ASSUME TypeOK, [Next]_vars, NEW a \in AttemptIds, NEW d \in Deliverers,
                      a \notin Created, Claimed(a), flight'[d] # flight[d],
                      ~flight'[d].scheduled
               PROVE  /\ preview # None /\ preview' = None
                      /\ attempt'[a].draftVersion = preview.draftVersion
                      /\ attempt'[a].context = preview.context
    OBVIOUS
  <2>1. PICK e \in Deliverers :
          \/ \E acknowledged \in BOOLEAN :
               SendManualPing(e, a, acknowledged) \/ RetryManualPing(e, a, acknowledged)
          \/ \E t \in PollTimes : ClaimDueState(e, a, t)
    BY OnlyClaimsClaim
  <2>2. ASSUME NEW acknowledged \in BOOLEAN, RetryManualPing(e, a, acknowledged)
        PROVE  FALSE
    BY <2>2 DEF RetryManualPing, Retriable, IsLatest
  <2>3. ASSUME NEW t \in PollTimes, ClaimDueState(e, a, t)
        PROVE  FALSE
    <3>1. PICK stamp : flight' = [flight EXCEPT ![e] = ScheduledClaim(a, stamp, t)]
      BY <2>3 DEF ClaimDueState, Carry
    <3>2. flight'[d] = ScheduledClaim(a, stamp, t)
      BY <3>1 DEF TypeOK
    <3>3. ScheduledClaim(a, stamp, t).scheduled = TRUE
      BY DEF ScheduledClaim, ManualClaim, Grounded
    <3>4. QED
      BY <3>2, <3>3
  <2>4. ASSUME NEW acknowledged \in BOOLEAN, SendManualPing(e, a, acknowledged)
        PROVE  /\ preview # None /\ preview' = None
               /\ attempt'[a].draftVersion = preview.draftVersion
               /\ attempt'[a].context = preview.context
    <3>1. PICK stamp : attempt' = [ReconciledAttempts(clock) EXCEPT ![a] = NewAttempt(stamp)]
      BY <2>4 DEF SendManualPing
    <3>2. attempt'[a] = NewAttempt(stamp)
      BY <3>1 DEF ReconciledAttempts
    <3>3. QED
      BY <2>4, <3>2 DEF SendManualPing, FingerprintMatches, NewAttempt
  <2>5. QED
    BY <2>1, <2>2, <2>3, <2>4
<1>2. QED
  BY <1>1, TypeCorrect, PTL DEF Spec, ManualPingWasReviewed

-----------------------------------------------------------------------------
(***************************************************************************)
(* Every attempt of FollowUpPing is a logical delivery, and the Customer   *)
(* gets no copy of a ping that nobody accepted the risk of.                *)
(*                                                                         *)
(* A late answer makes this hard: a claim whose lease ended may still be   *)
(* taken or refused by the mail gateway.  The invariant below accounts for *)
(* every claim of an attempt: it is on its way, or was taken, or a refusal *)
(* of it is recorded, or it was lost without trace.                        *)
(***************************************************************************)

\* The claims of an attempt whose message may still be taken, or whose refusal
\* is not recorded yet.
IsPending(f, a) ==
  f.attempt = a /\ (f.stage = "claimed" \/ f.result = "REJECTED")
Pending(a) == {d \in Deliverers : IsPending(flight[d], a)}

AccountInv(a) ==
  /\ attempt[a].state = "NONE" => world[a].claims = 0
  /\ world[a].accepted + results[a]["REJECTED"] + Cardinality(Pending(a))
       <= world[a].claims
  /\ world[a].claims + (IF attempt[a].state = "FAILED" THEN 1 ELSE 0)
       <= (IF attempt[a].state = "NONE" THEN 0 ELSE 1) + world[a].acks
          + results[a]["REJECTED"]

DeliveryInv ==
  /\ \A a \in AttemptIds : AccountInv(a)
  /\ \A d \in Deliverers :
       flight[d].result = "ACCEPTED" => world[flight[d].attempt].accepted > 0

-----------------------------------------------------------------------------
(* What a step does to one attempt, its results and its pending claims.    *)

Unchanged(a) ==
  /\ attempt'[a].state = attempt[a].state
  /\ results'[a] = results[a]
  /\ world'[a] = world[a]

Idle(a) == Unchanged(a) /\ Pending(a)' \subseteq Pending(a)

Claim(a) ==
  /\ \/ attempt[a].state \in {"NONE", "FAILED"} /\ world'[a].acks = world[a].acks
     \/ attempt[a].state = "UNKNOWN" /\ world'[a].acks = world[a].acks + 1
  /\ attempt'[a].state = "SENDING"
  /\ world'[a].claims = world[a].claims + 1
  /\ world'[a].accepted = world[a].accepted
  /\ results'[a] = results[a]
  /\ \E d \in Deliverers : Pending(a)' \subseteq Pending(a) \cup {d}

Take(a) ==
  /\ attempt'[a].state = attempt[a].state
  /\ results'[a] = results[a]
  /\ world'[a] = [world[a] EXCEPT !.accepted = @ + 1]
  /\ \E d \in Pending(a) : Pending(a)' \subseteq Pending(a) \ {d}

Resolve(a, result) ==
  /\ attempt[a].state = "SENDING"
  /\ attempt'[a].state = StateOf(result)
  /\ results'[a] = [results[a] EXCEPT ![result] = @ + 1]
  /\ world'[a] = world[a]
  /\ result = "ACCEPTED" => world[a].accepted > 0
  /\ Pending(a)' \subseteq Pending(a)
  /\ result = "REJECTED" => \E d \in Pending(a) : Pending(a)' \subseteq Pending(a) \ {d}

AttemptStep(a) ==
  Idle(a) \/ Claim(a) \/ Take(a) \/ \E result \in Results : Resolve(a, result)

-----------------------------------------------------------------------------
(* How the pending claims of every attempt follow the deliverers.          *)

LEMMA PendingFinite ==
  ASSUME NEW a \in AttemptIds
  PROVE  /\ IsFiniteSet(Pending(a))
         /\ Cardinality(Pending(a)) \in Nat
<1>1. Pending(a) \in SUBSET Deliverers
  BY DEF Pending
<1>2. IsFiniteSet(Deliverers)
  BY ConstantsAssumption DEF ConstantsAssumption
<1>3. QED
  BY <1>1, <1>2, FS_Subset, FS_CardinalityType

LEMMA PendingFinitePrimed ==
  ASSUME NEW a \in AttemptIds
  PROVE  /\ IsFiniteSet(Pending(a)')
         /\ Cardinality(Pending(a)') \in Nat
<1>1. Pending(a)' \in SUBSET Deliverers
  BY DEF Pending
<1>2. IsFiniteSet(Deliverers)
  BY ConstantsAssumption DEF ConstantsAssumption
<1>3. QED
  BY <1>1, <1>2, FS_Subset, FS_CardinalityType

\* One deliverer changes its claim.
LEMMA PendingFrame ==
  ASSUME TypeOK, NEW d \in Deliverers, NEW f, flight' = [flight EXCEPT ![d] = f],
         NEW a \in AttemptIds
  PROVE  /\ Pending(a)' \subseteq Pending(a) \cup {d}
         /\ ~IsPending(f, a) => Pending(a)' \subseteq Pending(a) \ {d}
         /\ IsPending(flight[d], a) => d \in Pending(a)
<1>1. flight'[d] = f /\ \A e \in Deliverers \ {d} : flight'[e] = flight[e]
  BY DEF TypeOK
<1>2. Pending(a)' = {e \in Deliverers : IsPending(flight'[e], a)}
  BY DEF Pending, IsPending
<1>3. QED
  BY <1>1, <1>2 DEF Pending

\* An idle deliverer is pending for no attempt.
LEMMA GroundedIsNotPending ==
  ASSUME NEW a \in AttemptIds
  PROVE  ~IsPending(Grounded, a)
<1>1. a # 0
  BY ConstantsAssumption DEF AttemptIds, ConstantsAssumption
<1>2. QED
  BY <1>1 DEF IsPending, Grounded

-----------------------------------------------------------------------------
(* Every step is one of these, for every attempt.                          *)

Worlds == [claims : Nat, acks : Nat, accepted : Nat]

LEMMA ClaimStep ==
  ASSUME TypeOK, SingleFlight, DeliveryInv, Claims, NEW b \in AttemptIds
  PROVE  AttemptStep(b)
<1>0. /\ clock \in Nat
      /\ attempt \in [AttemptIds -> Attempts]
      /\ results \in [AttemptIds -> [Results -> Nat]]
      /\ world \in [AttemptIds -> Worlds]
  BY DEF TypeOK, Attempts, Worlds
<1>1. ASSUME NEW d \in Deliverers, NEW a \in AttemptIds, NEW claim,
             claim.attempt = a, Carry(d, claim)
      PROVE  /\ b = a => \E e \in Deliverers : Pending(b)' \subseteq Pending(b) \cup {e}
             /\ b # a => Pending(b)' \subseteq Pending(b)
  <2>1. flight' = [flight EXCEPT ![d] = claim]
    BY <1>1 DEF Carry
  <2>2. b # a => ~IsPending(claim, b)
    BY <1>1 DEF IsPending
  <2>3. QED
    BY <2>1, <2>2, PendingFrame
<1>2. ASSUME NEW d \in Deliverers, NEW a \in AttemptIds,
             NEW acknowledged \in BOOLEAN, SendManualPing(d, a, acknowledged)
      PROVE  AttemptStep(b)
  <2>1. PICK stamp \in NextAttemptTimestamps(clock) :
          /\ attempt' = [ReconciledAttempts(clock) EXCEPT ![a] = NewAttempt(stamp)]
          /\ Carry(d, ManualClaim(a, stamp))
    BY <1>2 DEF SendManualPing
  <2>2. ManualClaim(a, stamp).attempt = a
    BY DEF ManualClaim, Grounded
  <2>3. a \notin Created /\ world' = [world EXCEPT ![a].claims = 1]
        /\ results' = ReconciledResults(clock)
    BY <1>2 DEF SendManualPing
  <2>4. CASE b = a
    <3>1. world[a].claims = 0 /\ attempt[a].state = "NONE"
      BY <2>3 DEF DeliveryInv, AccountInv, Created
    <3>2. attempt'[a].state = "SENDING"
      BY <2>1 DEF NewAttempt, ReconciledAttempts
    <3>3. results'[a] = results[a]
      BY <1>0, <2>3, <3>1 DEF ReconciledResults, Expired, InProgress
    <3>4. /\ world'[a].claims = world[a].claims + 1
          /\ world'[a].acks = world[a].acks
          /\ world'[a].accepted = world[a].accepted
      BY <1>0, <2>3, <3>1 DEF Worlds
    <3>5. QED
      BY <1>1, <2>1, <2>2, <2>4, <3>1, <3>2, <3>3, <3>4 DEF AttemptStep, Claim
  <2>5. CASE b # a
    <3>1. Pending(b)' \subseteq Pending(b)
      BY <1>1, <2>1, <2>2, <2>5
    <3>2. world'[b] = world[b]
      BY <1>0, <2>3, <2>5
    <3>3. attempt'[b] = ReconciledAttempts(clock)[b]
      BY <2>1, <2>5 DEF ReconciledAttempts
    <3>4. CASE b \in Expired(clock)
      <4>1. attempt[b].state = "SENDING" /\ attempt'[b].state = "UNKNOWN"
        BY <1>0, <3>3, <3>4 DEF ReconciledAttempts, Expired, InProgress, Attempts
      <4>2. results'[b] = [results[b] EXCEPT !["UNKNOWN"] = @ + 1]
        BY <2>3, <3>4 DEF ReconciledResults
      <4>3. Resolve(b, "UNKNOWN")
        BY <3>1, <3>2, <4>1, <4>2 DEF Resolve, StateOf
      <4>4. QED
        BY <4>3 DEF AttemptStep, Results
    <3>5. CASE b \notin Expired(clock)
      BY <2>3, <3>1, <3>2, <3>3, <3>5
         DEF ReconciledAttempts, ReconciledResults, AttemptStep, Idle, Unchanged
    <3>6. QED
      BY <3>4, <3>5
  <2>6. QED
    BY <2>4, <2>5
<1>3. ASSUME NEW d \in Deliverers, NEW a \in AttemptIds,
             NEW acknowledged \in BOOLEAN, RetryManualPing(d, a, acknowledged)
      PROVE  AttemptStep(b)
  <2>1. PICK stamp \in NextAttemptTimestamps(clock) :
          /\ attempt' = [attempt EXCEPT ![a].state = "SENDING",
                                        ![a].attemptedAt = stamp]
          /\ Carry(d, ManualClaim(a, stamp))
    BY <1>3 DEF RetryManualPing
  <2>2. ManualClaim(a, stamp).attempt = a
    BY DEF ManualClaim, Grounded
  <2>3. /\ \/ attempt[a].state = "FAILED"
           \/ attempt[a].state = "UNKNOWN" /\ acknowledged
        /\ world' = [world EXCEPT
                       ![a].claims = @ + 1,
                       ![a].acks = IF attempt[a].state = "UNKNOWN" /\ acknowledged
                                   THEN @ + 1 ELSE @]
        /\ results' = results
    BY <1>3 DEF RetryManualPing, Retriable
  <2>4. CASE b = a
    <3>1. attempt'[a].state = "SENDING"
      BY <1>0, <2>1 DEF Attempts
    <3>2. /\ world'[a].claims = world[a].claims + 1
          /\ world'[a].accepted = world[a].accepted
          /\ \/ attempt[a].state = "FAILED" /\ world'[a].acks = world[a].acks
             \/ attempt[a].state = "UNKNOWN" /\ world'[a].acks = world[a].acks + 1
      BY <1>0, <2>3 DEF Worlds
    <3>3. QED
      BY <1>1, <2>1, <2>2, <2>3, <2>4, <3>1, <3>2 DEF AttemptStep, Claim
  <2>5. CASE b # a
    <3>1. world'[b] = world[b] /\ attempt'[b] = attempt[b]
      BY <1>0, <2>1, <2>3, <2>5
    <3>2. QED
      BY <1>1, <2>1, <2>2, <2>3, <2>5, <3>1 DEF AttemptStep, Idle, Unchanged
  <2>6. QED
    BY <2>4, <2>5
<1>4. ASSUME NEW d \in Deliverers, NEW a \in AttemptIds, NEW t \in PollTimes,
             ClaimDueState(d, a, t)
      PROVE  AttemptStep(b)
  <2>1. PICK stamp \in NextAttemptTimestamps(t) :
          /\ attempt' = [attempt EXCEPT ![a] = NewAttempt(stamp)]
          /\ Carry(d, ScheduledClaim(a, stamp, t))
    BY <1>4 DEF ClaimDueState
  <2>2. ScheduledClaim(a, stamp, t).attempt = a
    BY DEF ScheduledClaim, ManualClaim, Grounded
  <2>3. a \notin Created /\ world' = [world EXCEPT ![a].claims = 1]
        /\ results' = results
    BY <1>4 DEF ClaimDueState
  <2>4. CASE b = a
    <3>1. world[a].claims = 0 /\ attempt[a].state = "NONE"
      BY <2>3 DEF DeliveryInv, AccountInv, Created
    <3>2. attempt'[a].state = "SENDING"
      BY <1>0, <2>1 DEF NewAttempt
    <3>3. /\ world'[a].claims = world[a].claims + 1
          /\ world'[a].acks = world[a].acks
          /\ world'[a].accepted = world[a].accepted
      BY <1>0, <2>3, <3>1 DEF Worlds
    <3>4. QED
      BY <1>1, <2>1, <2>2, <2>3, <2>4, <3>1, <3>2, <3>3 DEF AttemptStep, Claim
  <2>5. CASE b # a
    <3>1. world'[b] = world[b] /\ attempt'[b] = attempt[b]
      BY <1>0, <2>1, <2>3, <2>5
    <3>2. QED
      BY <1>1, <2>1, <2>2, <2>3, <2>5, <3>1 DEF AttemptStep, Idle, Unchanged
  <2>6. QED
    BY <2>4, <2>5
<1>5. QED
  BY <1>2, <1>3, <1>4 DEF Claims

LEMMA RecordStep ==
  ASSUME TypeOK, DeliveryInv, NEW d \in Deliverers, NEW result \in Results,
         Record(d, result), result = flight[d].result \/ result = "UNKNOWN",
         NEW b \in AttemptIds
  PROVE  AttemptStep(b)
<1> DEFINE a == flight[d].attempt
<1>0. /\ attempt \in [AttemptIds -> Attempts]
      /\ results \in [AttemptIds -> [Results -> Nat]]
      /\ a \in AttemptIds
  BY AnswerIsResult DEF TypeOK, Attempts, Record
<1>1. /\ attempt[a].state = "SENDING"
      /\ attempt' = [attempt EXCEPT ![a].state = StateOf(result)]
      /\ results' = [results EXCEPT ![a][result] = @ + 1]
      /\ world' = world
      /\ flight' = [flight EXCEPT ![d] = Grounded]
  BY DEF Record, StillSending
<1>2. /\ Pending(b)' \subseteq Pending(b) \ {d}
      /\ IsPending(flight[d], b) => d \in Pending(b)
  BY <1>1, PendingFrame, GroundedIsNotPending
<1>3. CASE b = a
  <2>1. result = "ACCEPTED" => world[b].accepted > 0
    BY <1>3 DEF DeliveryInv
  <2>2. /\ Pending(b)' \subseteq Pending(b)
        /\ result = "REJECTED" => \E e \in Pending(b) : Pending(b)' \subseteq Pending(b) \ {e}
    <3>1. result = "REJECTED" => IsPending(flight[d], b)
      BY <1>3 DEF IsPending
    <3>2. QED
      BY <1>2, <3>1
  <2>3. attempt[b].state = "SENDING" /\ attempt'[b].state = StateOf(result)
    BY <1>0, <1>1, <1>3 DEF Attempts
  <2>4. results'[b] = [results[b] EXCEPT ![result] = @ + 1]
    BY <1>0, <1>1, <1>3
  <2>5. Resolve(b, result)
    BY <1>1, <2>1, <2>2, <2>3, <2>4 DEF Resolve
  <2>6. QED
    BY <2>5 DEF AttemptStep
<1>4. CASE b # a
  <2>1. attempt'[b] = attempt[b] /\ results'[b] = results[b]
    BY <1>0, <1>1, <1>4
  <2>2. QED
    BY <1>1, <1>2, <2>1 DEF AttemptStep, Idle, Unchanged
<1>5. QED
  BY <1>3, <1>4

LEMMA DeliveryStep ==
  ASSUME TypeOK, DeliveryInv, Deliveries, NEW b \in AttemptIds
  PROVE  AttemptStep(b)
<1>0. world \in [AttemptIds -> Worlds]
  BY DEF TypeOK, Worlds
<1>1. ASSUME NEW d \in Deliverers, NEW result \in Results, Submit(d, result)
      PROVE  AttemptStep(b)
  <2> DEFINE a == flight[d].attempt
             f == [flight[d] EXCEPT !.stage = "answered", !.result = result]
  <2>1. PICK taken \in {0, 1} :
          /\ result = "REJECTED" => taken = 0
          /\ world' = [world EXCEPT ![a].accepted = @ + taken]
    BY <1>1 DEF Submit
  <2>2. flight[d] \in Carried("claimed", {None})
    BY <1>1 DEF Submit, TypeOK, Grounded, Carried
  <2>3. /\ a \in AttemptIds
        /\ attempt' = attempt /\ results' = results
        /\ flight' = [flight EXCEPT ![d] = f]
    BY <1>1, <2>2 DEF Submit, TypeOK, Carried
  <2>4. f.attempt = a /\ f.stage = "answered" /\ f.result = result
    BY <2>2 DEF Carried
  <2>5. IsPending(flight[d], a)
    BY <2>2 DEF IsPending, Carried
  <2> HIDE DEF f
  <2>6. CASE b = a /\ taken = 1
    <3>0. ~IsPending(f, b)
      BY <2>1, <2>4, <2>6 DEF IsPending
    <3>1. Pending(b)' \subseteq Pending(b) \ {d} /\ d \in Pending(b)
      <4>1. IsPending(flight[d], b)
        BY <2>5, <2>6
      <4>2. QED
        BY <2>3, <3>0, <4>1, PendingFrame
    <3>2. world'[a] = [world[a] EXCEPT !.accepted = @ + 1]
      BY <1>0, <2>1, <2>3, <2>6
    <3>3. QED
      BY <2>3, <2>6, <3>1, <3>2 DEF AttemptStep, Take
  <2>7. CASE ~(b = a /\ taken = 1)
    <3>1. Pending(b)' \subseteq Pending(b)
      <4>1. CASE b = a
        <5>1. d \in Pending(b) /\ Pending(b)' \subseteq Pending(b) \cup {d}
          BY <2>3, <2>5, <4>1, PendingFrame
        <5>2. QED
          BY <5>1
      <4>2. CASE b # a
        <5>1. ~IsPending(f, b)
          BY <2>4, <4>2 DEF IsPending
        <5>2. Pending(b)' \subseteq Pending(b) \ {d}
          BY <2>3, <5>1, PendingFrame
        <5>3. QED
          BY <5>2
      <4>3. QED
        BY <4>1, <4>2
    <3>2. world'[b] = world[b]
      <4>1. world[a] \in Worlds
        BY <1>0, <2>3
      <4>2. world[a].accepted + 0 = world[a].accepted
        BY <4>1 DEF Worlds
      <4>3. [world[a] EXCEPT !.accepted = @ + 0] = world[a]
        BY <4>1, <4>2 DEF Worlds
      <4>4. QED
        BY <1>0, <2>1, <2>3, <2>7, <4>3
    <3>3. QED
      BY <2>3, <3>1, <3>2 DEF AttemptStep, Idle, Unchanged
  <2>8. QED
    BY <2>6, <2>7
<1>2. ASSUME NEW d \in Deliverers, Finalize(d) PROVE AttemptStep(b)
  BY <1>2, AnswerIsResult, RecordStep DEF Finalize, Record
<1>3. ASSUME NEW d \in Deliverers, FinalizeFallsBack(d) PROVE AttemptStep(b)
  BY <1>3, RecordStep DEF FinalizeFallsBack, Results
<1>4. ASSUME NEW d \in Deliverers, FinalizeOvertaken(d) \/ Crash(d)
      PROVE  AttemptStep(b)
  <2>1. flight' = [flight EXCEPT ![d] = Grounded]
    BY <1>4 DEF FinalizeOvertaken, Crash
  <2>2. Pending(b)' \subseteq Pending(b)
    BY <2>1, PendingFrame, GroundedIsNotPending
  <2>3. QED
    BY <1>4, <2>2 DEF FinalizeOvertaken, Crash, AttemptStep, Idle, Unchanged
<1>5. QED
  BY <1>1, <1>2, <1>3, <1>4 DEF Deliveries

LEMMA EveryStep ==
  ASSUME TypeOK, SingleFlight, DeliveryInv, [Next]_vars, NEW b \in AttemptIds
  PROVE  AttemptStep(b)
<1>1. CASE UNCHANGED <<attempt, results, world, flight>>
  BY <1>1 DEF AttemptStep, Idle, Unchanged, Pending
<1>2. CASE ReconcileExpired
  <2>1. Pending(b)' \subseteq Pending(b) /\ world'[b] = world[b]
    BY <1>2 DEF ReconcileExpired, Pending
  <2>2. CASE b \in Expired(clock)
    <3>1. attempt[b].state = "SENDING" /\ attempt'[b].state = "UNKNOWN"
      BY <1>2, <2>2 DEF ReconcileExpired, ReconciledAttempts, Expired, InProgress,
                        TypeOK
    <3>2. results'[b] = [results[b] EXCEPT !["UNKNOWN"] = @ + 1]
      BY <1>2, <2>2 DEF ReconcileExpired, ReconciledResults
    <3>3. Resolve(b, "UNKNOWN")
      BY <2>1, <3>1, <3>2 DEF Resolve, StateOf
    <3>4. QED
      BY <3>3 DEF AttemptStep, Results
  <2>3. CASE b \notin Expired(clock)
    BY <1>2, <2>1, <2>3 DEF ReconcileExpired, ReconciledAttempts, ReconciledResults,
                            AttemptStep, Idle, Unchanged
  <2>4. QED
    BY <2>2, <2>3
<1>3. CASE Commands
  BY <1>1, <1>3 DEF Commands, Update, UpdateDraft, ChangeContext, PreviewManualPing,
                    Archive, Restore
<1>4. CASE Stops
  BY <1>1, <1>4 DEF Stops, StopEndedSchedule, PauseDueSchedule
<1>5. CASE Tick \/ (\E a \in AttemptIds : Reply(a)) \/ UNCHANGED vars
  BY <1>1, <1>5 DEF Tick, Reply, vars
<1>6. QED
  BY <1>2, <1>3, <1>4, <1>5, ClaimStep, DeliveryStep DEF Next

-----------------------------------------------------------------------------
(* The account of claims is kept.                                          *)

LEMMA RemovedIsLess ==
  ASSUME NEW a \in AttemptIds, NEW d \in Pending(a),
         Pending(a)' \subseteq Pending(a) \ {d}
  PROVE  Cardinality(Pending(a)') + 1 <= Cardinality(Pending(a))
<1>1. /\ IsFiniteSet(Pending(a) \ {d})
      /\ Cardinality(Pending(a) \ {d}) = Cardinality(Pending(a)) - 1
  BY PendingFinite, FS_RemoveElement
<1>2. Cardinality(Pending(a)') <= Cardinality(Pending(a) \ {d})
  BY <1>1, FS_Subset
<1>3. QED
  BY <1>1, <1>2, PendingFinite, PendingFinitePrimed

LEMMA AccountStep ==
  ASSUME TypeOK, NEW a \in AttemptIds, AccountInv(a), AttemptStep(a)
  PROVE  AccountInv(a)' /\ world[a].accepted <= world'[a].accepted
<1> DEFINE p == Cardinality(Pending(a))
           q == Cardinality(Pending(a)')
<1>0. /\ world[a] \in Worlds /\ results[a] \in [Results -> Nat]
      /\ results[a]["REJECTED"] \in Nat
      /\ p \in Nat /\ q \in Nat
  BY PendingFinite, PendingFinitePrimed DEF TypeOK, Worlds, Results
<1>1. Pending(a)' \subseteq Pending(a) => q <= p
  BY PendingFinite, FS_Subset
<1>2. (\E d \in Pending(a) : Pending(a)' \subseteq Pending(a) \ {d}) => q + 1 <= p
  BY RemovedIsLess
<1>3. (\E d \in Deliverers : Pending(a)' \subseteq Pending(a) \cup {d}) => q <= p + 1
  <2>1. SUFFICES ASSUME NEW d \in Deliverers, Pending(a)' \subseteq Pending(a) \cup {d}
                 PROVE  q <= p + 1
    OBVIOUS
  <2>2. /\ IsFiniteSet(Pending(a) \cup {d})
        /\ Cardinality(Pending(a) \cup {d}) <= p + 1
        /\ Cardinality(Pending(a) \cup {d}) \in Nat
    <3>1. /\ IsFiniteSet(Pending(a) \cup {d})
          /\ Cardinality(Pending(a) \cup {d}) = IF d \in Pending(a) THEN p ELSE p + 1
      BY PendingFinite, FS_AddElement
    <3>2. QED
      BY <1>0, <3>1
  <2>3. q <= Cardinality(Pending(a) \cup {d})
    BY <2>1, <2>2, FS_Subset
  <2>4. QED
    BY <1>0, <2>2, <2>3
<1>4. AccountInv(a)' <=>
        /\ attempt'[a].state = "NONE" => world'[a].claims = 0
        /\ world'[a].accepted + results'[a]["REJECTED"] + q <= world'[a].claims
        /\ world'[a].claims + (IF attempt'[a].state = "FAILED" THEN 1 ELSE 0)
             <= (IF attempt'[a].state = "NONE" THEN 0 ELSE 1) + world'[a].acks
                + results'[a]["REJECTED"]
  BY DEF AccountInv
<1> HIDE DEF p, q
<1>5. /\ attempt[a].state = "NONE" => world[a].claims = 0
      /\ world[a].accepted + results[a]["REJECTED"] + p <= world[a].claims
      /\ world[a].claims + (IF attempt[a].state = "FAILED" THEN 1 ELSE 0)
           <= (IF attempt[a].state = "NONE" THEN 0 ELSE 1) + world[a].acks
              + results[a]["REJECTED"]
  BY DEF AccountInv, p
<1>6. CASE Idle(a)
  BY <1>0, <1>1, <1>4, <1>5, <1>6 DEF Idle, Unchanged, Worlds
<1>7. CASE Claim(a)
  BY <1>0, <1>3, <1>4, <1>5, <1>7 DEF Claim, Worlds
<1>8. CASE Take(a)
  BY <1>0, <1>2, <1>4, <1>5, <1>8 DEF Take, Worlds
<1>9. ASSUME NEW result \in Results, Resolve(a, result)
      PROVE  AccountInv(a)' /\ world[a].accepted <= world'[a].accepted
  <2>1. CASE result = "REJECTED"
    <3>1. results'[a]["REJECTED"] = results[a]["REJECTED"] + 1
          /\ attempt'[a].state = "FAILED"
      BY <1>0, <1>9, <2>1 DEF Resolve, StateOf
    <3>2. QED
      BY <1>0, <1>2, <1>4, <1>5, <1>9, <2>1, <3>1 DEF Resolve, Worlds
  <2>2. CASE result # "REJECTED"
    <3>1. results'[a]["REJECTED"] = results[a]["REJECTED"]
          /\ attempt'[a].state \in {"SENT", "UNKNOWN"}
      BY <1>0, <1>9, <2>2 DEF Resolve, StateOf, Results
    <3>2. QED
      BY <1>0, <1>1, <1>4, <1>5, <1>9, <2>2, <3>1 DEF Resolve, Worlds
  <2>3. QED
    BY <2>1, <2>2
<1>10. QED
  BY <1>6, <1>7, <1>8, <1>9 DEF AttemptStep

\* A claim that was answered with acceptance was taken.
LEMMA AnswersStep ==
  ASSUME TypeOK, DeliveryInv, [Next]_vars,
         \A a \in AttemptIds : world[a].accepted <= world'[a].accepted
  PROVE  \A d \in Deliverers :
           flight'[d].result = "ACCEPTED" => world'[flight'[d].attempt].accepted > 0
<1> SUFFICES ASSUME NEW e \in Deliverers, flight'[e].result = "ACCEPTED"
             PROVE  world'[flight'[e].attempt].accepted > 0
  OBVIOUS
<1>0. world \in [AttemptIds -> Worlds] /\ world' \in [AttemptIds -> Worlds]
  BY TypeStep DEF TypeOK, Worlds
<1>1. CASE flight'[e] = flight[e]
  <2>1. flight[e].attempt \in AttemptIds
    <3>1. flight[e] \in {Grounded} \cup Carried("claimed", {None})
                                   \cup Carried("answered", Results)
      BY DEF TypeOK
    <3>2. None # "ACCEPTED"
      BY ConstantsAssumption DEF ConstantsAssumption, Results
    <3>3. QED
      BY <1>1, <3>1, <3>2 DEF Grounded, Carried
  <2>2. world[flight[e].attempt].accepted > 0
    BY <1>1 DEF DeliveryInv
  <2>3. QED
    BY <1>0, <1>1, <2>1, <2>2 DEF Worlds
<1>2. CASE flight'[e] # flight[e]
  <2>0. None # "ACCEPTED" /\ Grounded.result = None
    BY ConstantsAssumption DEF ConstantsAssumption, Results, Grounded
  <2>1. ASSUME NEW d \in Deliverers, NEW f, flight' = [flight EXCEPT ![d] = f],
               f.result # "ACCEPTED"
        PROVE  FALSE
    BY <1>2, <2>1 DEF TypeOK
  <2>2. CASE Claims
    <3>1. ASSUME NEW a, NEW stamp, NEW t
          PROVE  /\ ManualClaim(a, stamp).result = None
                 /\ ScheduledClaim(a, stamp, t).result = None
      BY DEF ManualClaim, ScheduledClaim, Grounded
    <3>2. ASSUME NEW d \in Deliverers, NEW claim, Carry(d, claim), claim.result = None
          PROVE  FALSE
      BY <2>0, <2>1, <3>2 DEF Carry
    <3>3. ASSUME NEW d \in Deliverers, NEW a, NEW acknowledged,
                 SendManualPing(d, a, acknowledged) \/ RetryManualPing(d, a, acknowledged)
          PROVE  FALSE
      <4>1. PICK stamp : Carry(d, ManualClaim(a, stamp))
        BY <3>3 DEF SendManualPing, RetryManualPing
      <4>2. QED
        BY <3>1, <3>2, <4>1
    <3>4. ASSUME NEW d \in Deliverers, NEW a, NEW t, ClaimDueState(d, a, t)
          PROVE  FALSE
      <4>1. PICK stamp : Carry(d, ScheduledClaim(a, stamp, t))
        BY <3>4 DEF ClaimDueState
      <4>2. QED
        BY <3>1, <3>2, <4>1
    <3>5. QED
      BY <2>2, <3>3, <3>4 DEF Claims
  <2>3. ASSUME NEW d \in Deliverers, Finalize(d) \/ FinalizeFallsBack(d)
                                      \/ FinalizeOvertaken(d) \/ Crash(d)
        PROVE  FALSE
    <3>1. flight' = [flight EXCEPT ![d] = Grounded]
      BY <2>3 DEF Finalize, FinalizeFallsBack, FinalizeOvertaken, Crash, Record
    <3>2. QED
      BY <2>0, <2>1, <3>1
  <2>4. ASSUME NEW d \in Deliverers, NEW result \in Results, Submit(d, result)
        PROVE  world'[flight'[e].attempt].accepted > 0
    <3>1. flight[d] \in Carried("claimed", {None})
      BY <2>4 DEF Submit, TypeOK, Grounded, Carried
    <3>2. flight' = [flight EXCEPT ![d].stage = "answered", ![d].result = result]
      BY <2>4 DEF Submit
    <3>3. e = d
      BY <1>2, <3>2 DEF TypeOK
    <3>4. flight'[e].attempt = flight[d].attempt /\ flight'[e].result = result
      BY <3>1, <3>2, <3>3 DEF TypeOK, Carried
    <3>5. PICK a \in AttemptIds : a = flight[d].attempt
      BY <3>1 DEF Carried
    <3>6. world' = [world EXCEPT ![a].accepted = @ + 1]
      BY <2>4, <3>4, <3>5 DEF Submit
    <3>7. world'[a].accepted = world[a].accepted + 1 /\ world[a].accepted \in Nat
      BY <1>0, <3>6 DEF Worlds
    <3>8. QED
      BY <3>4, <3>5, <3>7
  <2>5. CASE ~Claims /\ ~Deliveries
    BY <1>2, <2>5 DEF Next, Commands, Update, UpdateDraft, ChangeContext,
       PreviewManualPing, Archive, Restore, Stops, StopEndedSchedule,
       PauseDueSchedule, ReconcileExpired, Reply, Tick, vars
  <2>6. QED
    BY <2>2, <2>3, <2>4, <2>5 DEF Deliveries
<1>3. QED
  BY <1>1, <1>2

-----------------------------------------------------------------------------
(* The theorems.                                                           *)

LEMMA DeliveryInvHolds == Spec => []DeliveryInv
<1>1. Init => DeliveryInv
  <2> SUFFICES ASSUME Init PROVE DeliveryInv
    OBVIOUS
  <2>1. ASSUME NEW a \in AttemptIds PROVE AccountInv(a)
    <3>1. Pending(a) = {}
      BY GroundedIsNotPending DEF Init, Pending
    <3>2. Cardinality(Pending(a)) = 0
      BY <3>1, FS_EmptySet
    <3>3. /\ attempt[a].state = "NONE" /\ results[a]["REJECTED"] = 0
          /\ world[a] = [claims |-> 0, acks |-> 0, accepted |-> 0]
      BY DEF Init, NoAttempt, Results
    <3>4. QED
      BY <3>2, <3>3 DEF AccountInv
  <2>2. ASSUME NEW d \in Deliverers PROVE flight[d].result # "ACCEPTED"
    BY ConstantsAssumption DEF Init, Grounded, ConstantsAssumption, Results
  <2>3. QED
    BY <2>1, <2>2 DEF DeliveryInv
<1>2. TypeOK /\ SingleFlight /\ DeliveryInv /\ [Next]_vars => DeliveryInv'
  <2> SUFFICES ASSUME TypeOK, SingleFlight, DeliveryInv, [Next]_vars
               PROVE  DeliveryInv'
    OBVIOUS
  <2>1. \A a \in AttemptIds : AccountInv(a)' /\ world[a].accepted <= world'[a].accepted
    BY EveryStep, AccountStep DEF DeliveryInv
  <2>2. \A d \in Deliverers :
          flight'[d].result = "ACCEPTED" => world'[flight'[d].attempt].accepted > 0
    BY <2>1, AnswersStep
  <2>3. QED
    BY <2>1, <2>2 DEF DeliveryInv
<1>3. QED
  BY <1>1, <1>2, TypeCorrect, SingleFlightHolds, PTL DEF Spec

\* The Customer gets one ping more than once only as often as an employee
\* accepted that risk, however late an overtaken claim is taken or refused.
THEOREM NoUnacknowledgedDuplicateHolds == Spec => []NoUnacknowledgedDuplicate
<1>1. TypeOK /\ DeliveryInv => NoUnacknowledgedDuplicate
  <2> SUFFICES ASSUME TypeOK, DeliveryInv, NEW a \in AttemptIds
               PROVE  world[a].accepted <= 1 + world[a].acks
    BY DEF NoUnacknowledgedDuplicate
  <2>1. /\ world[a] \in Worlds /\ results[a]["REJECTED"] \in Nat
        /\ Cardinality(Pending(a)) \in Nat
    BY PendingFinite DEF TypeOK, Worlds, Results
  <2>2. QED
    BY <2>1 DEF DeliveryInv, AccountInv, Worlds
<1>2. QED
  BY <1>1, TypeCorrect, DeliveryInvHolds, PTL

\* One attempt, seen from its delivery: the steps of the follow-up ping are
\* steps of the logical delivery.
LEMMA AttemptStepIsDeliveryStep ==
  ASSUME TypeOK, NEW a \in AttemptIds, AccountInv(a), AttemptStep(a)
  PROVE  [Delivery(a)!Next]_(Delivery(a)!vars)
<1>0. /\ world[a] \in Worlds /\ results[a] \in [Results -> Nat]
      /\ results[a]["REJECTED"] \in Nat
      /\ Cardinality(Pending(a)) \in Nat
  BY PendingFinite DEF TypeOK, Worlds, Results
<1>1. CASE Idle(a)
  BY <1>1 DEF Idle, Unchanged, Delivery!vars
<1>2. CASE Claim(a)
  BY <1>2 DEF Claim, Delivery!Next, Delivery!Claim
<1>3. ASSUME Pending(a) # {}
      PROVE  Delivery(a)!Unsettled > 0
  <2>1. Cardinality(Pending(a)) > 0
    BY <1>0, <1>3, PendingFinite, FS_EmptySet
  <2>2. QED
    BY <1>0, <2>1 DEF AccountInv, Delivery!Unsettled, Worlds
<1>4. CASE Take(a)
  BY <1>0, <1>3, <1>4 DEF Take, Worlds, Delivery!Next, Delivery!GatewayAccepts
<1>5. ASSUME NEW result \in Results, Resolve(a, result)
      PROVE  Delivery(a)!Next
  <2>1. Delivery(a)!Resolve(result)
    BY <1>0, <1>3, <1>5 DEF Resolve, StateOf, Delivery!Resolve, Delivery!StateOf
  <2>2. QED
    BY <2>1 DEF Delivery!Next, Delivery!Results, Results
<1>6. QED
  BY <1>1, <1>2, <1>4, <1>5 DEF AttemptStep

\* FollowUpPing implements OutboundDelivery for every attempt.
THEOREM FollowUpPingImplementsDelivery == Spec => ImplementsDelivery
<1>1. Init => \A a \in AttemptIds : Delivery(a)!Init
  BY DEF Init, NoAttempt, Delivery!Init, Delivery!NoResults, Delivery!Results, Results
<1>2. TypeOK /\ SingleFlight /\ DeliveryInv /\ [Next]_vars
      => [\A a \in AttemptIds : [Delivery(a)!Next]_(Delivery(a)!vars)]_vars
  BY EveryStep, AttemptStepIsDeliveryStep DEF DeliveryInv
<1>3. QED
  BY <1>1, <1>2, TypeCorrect, SingleFlightHolds, DeliveryInvHolds, PTL
     DEF Spec, ImplementsDelivery

\* Every claim of an attempt is accounted for by one recorded result, or it is
\* the one in progress; an acceptance is recorded once and means SENT.
THEOREM OneResultPerClaimHolds == Spec => []OneResultPerClaim
<1>1. Init => OneResultPerClaim
  BY DEF Init, OneResultPerClaim, NoAttempt, Results
<1>2. /\ TypeOK /\ SingleFlight /\ DeliveryInv /\ OneResultPerClaim /\ [Next]_vars
      => OneResultPerClaim'
  <2> SUFFICES ASSUME TypeOK, SingleFlight, DeliveryInv, OneResultPerClaim,
                      [Next]_vars, NEW a \in AttemptIds
               PROVE  /\ world'[a].claims = results'[a]["ACCEPTED"]
                           + results'[a]["REJECTED"] + results'[a]["UNKNOWN"]
                           + (IF attempt'[a].state = "SENDING" THEN 1 ELSE 0)
                      /\ attempt'[a].state = "SENT" <=> results'[a]["ACCEPTED"] = 1
                      /\ results'[a]["ACCEPTED"] <= 1
    BY DEF OneResultPerClaim
  <2>0. /\ world[a] \in Worlds
        /\ results[a] \in [Results -> Nat]
        /\ results[a]["ACCEPTED"] \in Nat
        /\ results[a]["REJECTED"] \in Nat
        /\ results[a]["UNKNOWN"] \in Nat
    BY DEF TypeOK, Worlds, Results
  <2>1. /\ world[a].claims = results[a]["ACCEPTED"] + results[a]["REJECTED"]
                             + results[a]["UNKNOWN"]
                             + (IF attempt[a].state = "SENDING" THEN 1 ELSE 0)
        /\ attempt[a].state = "SENT" <=> results[a]["ACCEPTED"] = 1
        /\ results[a]["ACCEPTED"] <= 1
    BY DEF OneResultPerClaim
  <2>2. CASE Idle(a)
    BY <2>1, <2>2 DEF Idle, Unchanged
  <2>3. CASE Claim(a)
    BY <2>0, <2>1, <2>3 DEF Claim, Worlds
  <2>4. CASE Take(a)
    BY <2>0, <2>1, <2>4 DEF Take, Worlds
  <2>5. ASSUME NEW result \in Results, Resolve(a, result)
        PROVE  /\ world'[a].claims = results'[a]["ACCEPTED"]
                    + results'[a]["REJECTED"] + results'[a]["UNKNOWN"]
                    + (IF attempt'[a].state = "SENDING" THEN 1 ELSE 0)
               /\ attempt'[a].state = "SENT" <=> results'[a]["ACCEPTED"] = 1
               /\ results'[a]["ACCEPTED"] <= 1
    <3>1. CASE result = "ACCEPTED"
      BY <2>0, <2>1, <2>5, <3>1 DEF Resolve, StateOf, Worlds
    <3>2. CASE result = "REJECTED"
      BY <2>0, <2>1, <2>5, <3>2 DEF Resolve, StateOf, Worlds
    <3>3. CASE result = "UNKNOWN"
      BY <2>0, <2>1, <2>5, <3>3 DEF Resolve, StateOf, Worlds
    <3>4. QED
      BY <3>1, <3>2, <3>3 DEF Results
  <2>6. QED
    BY <2>2, <2>3, <2>4, <2>5, EveryStep DEF AttemptStep
<1>3. QED
  BY <1>1, <1>2, TypeCorrect, SingleFlightHolds, DeliveryInvHolds, PTL DEF Spec
============================================================================
