------------------ MODULE CorrespondenceProcessing_proofs ------------------
(***************************************************************************)
(* Proofs about CorrespondenceProcessing for any number of employees and   *)
(* correspondences and any finite set of messages.                         *)
(***************************************************************************)
EXTENDS CorrespondenceProcessing, FiniteSetTheorems, TLAPS

-----------------------------------------------------------------------------
(* Which messages a correspondence has after a step.                       *)

Screens == [stage : {"none", "rows", "complete"},
            version : [Correspondences -> Nat], messages : SUBSET Messages]
Rows == [status : Statuses, unread : Nat, version : Nat]

\* A message that becomes part of a correspondence belonged to none before.
LEMMA EffectiveGrows ==
  ASSUME TypeOK, NEW m \in Messages, NEW c \in Correspondences,
         message[m].state \in {"absent", "open"},
         NEW s \in {"matched", "linked"},
         message' = [message EXCEPT ![m] = [state |-> s, correspondence |-> c]]
  PROVE  /\ Effective(c)' = Effective(c) \cup {m}
         /\ \A d \in Correspondences : m \notin Effective(d)
         /\ \A d \in Correspondences : d # c => Effective(d)' = Effective(d)
  <1>1. /\ message'[m] = [state |-> s, correspondence |-> c]
        /\ \A n \in Messages : n # m => message'[n] = message[n]
    BY DEF TypeOK
  <1>2. \A d \in Correspondences : m \notin Effective(d)
    BY DEF Effective
  <1>3. Effective(c)' = Effective(c) \cup {m}
    BY <1>1 DEF Effective
  <1>4. ASSUME NEW d \in Correspondences, d # c
        PROVE  Effective(d)' = Effective(d)
    BY <1>1, <1>2, <1>4 DEF Effective
  <1> QED
    BY <1>2, <1>3, <1>4

\* A message that waits for triage, or is dismissed, belongs to none.
LEMMA EffectiveStays ==
  ASSUME TypeOK, NEW m \in Messages,
         message[m].state \in {"absent", "open"},
         NEW s \in {"open", "dismissed"},
         message' = [message EXCEPT ![m] = [state |-> s, correspondence |-> None]]
  PROVE  \A d \in Correspondences : Effective(d)' = Effective(d)
  <1>1. /\ message'[m] = [state |-> s, correspondence |-> None]
        /\ \A n \in Messages : n # m => message'[n] = message[n]
    BY DEF TypeOK
  <1> QED
    BY <1>1 DEF Effective

-----------------------------------------------------------------------------
(* Type correctness.                                                       *)

\* A step of the specification, or none, keeps every variable typed.
LEMMA NextKeepsTypes ==
  ASSUME TypeOK, [Next]_vars
  PROVE  TypeOK'
  <1>1. CASE UNCHANGED vars
    BY <1>1 DEF TypeOK, vars
  <1>2. ASSUME NEW m \in Messages, Retain(m)
        PROVE  TypeOK'
    BY <1>2 DEF Retain, TypeOK
  <1>3. ASSUME NEW m \in Messages, NEW c \in Correspondences, Match(m, c)
        PROVE  TypeOK'
    <2>1. correspondence' \in [Correspondences -> Rows]
      BY <1>3 DEF Match, Received, TypeOK, Statuses, Rows
    <2> QED
      BY <1>3, <2>1 DEF Match, TypeOK, Rows
  <1>4. ASSUME NEW m \in Messages, Dismiss(m)
        PROVE  TypeOK'
    BY <1>4 DEF Dismiss, TypeOK
  <1>5. ASSUME NEW m \in Messages, NEW c \in Correspondences, Link(m, c)
        PROVE  TypeOK'
    <2>1. correspondence' \in [Correspondences -> Rows]
      BY <1>5 DEF Link, Received, TypeOK, Statuses, Rows
    <2> QED
      BY <1>5, <2>1 DEF Link, TypeOK, Rows
  <1>6. ASSUME NEW e \in Employees, ReadCorrespondences(e)
        PROVE  TypeOK'
    <2>1. [c \in Correspondences |-> correspondence[c].version]
            \in [Correspondences -> Nat]
      BY DEF TypeOK
    <2> QED
      BY <1>6, <2>1 DEF ReadCorrespondences, TypeOK
  <1>7. ASSUME NEW e \in Employees, ReadMessages(e)
        PROVE  TypeOK'
    <2>1. PICK read \in SUBSET Messages :
            screen' = [screen EXCEPT ![e].stage = "complete", ![e].messages = read]
      <3>1. UNION {Effective(c) : c \in Correspondences} \in SUBSET Messages
        BY DEF Effective
      <3> QED
        BY <1>7, <3>1 DEF ReadMessages
    <2>2. screen[e] \in Screens
      BY DEF TypeOK, Screens
    <2>3. [screen[e] EXCEPT !.stage = "complete", !.messages = read] \in Screens
      BY <2>2 DEF Screens
    <2>4. screen' = [screen EXCEPT
                       ![e] = [screen[e] EXCEPT !.stage = "complete", !.messages = read]]
      BY <2>1
    <2>5. screen' \in [Employees -> Screens]
      BY <2>3, <2>4 DEF TypeOK, Screens
    <2> QED
      BY <1>7, <2>5 DEF ReadMessages, TypeOK, Screens
  <1>8. ASSUME NEW e \in Employees, NEW c \in Correspondences, MarkReviewed(e, c)
        PROVE  TypeOK'
    <2>1. correspondence' \in [Correspondences -> Rows]
      BY <1>8 DEF MarkReviewed, Updated, TypeOK, Rows
    <2>2. Effective(c) \in SUBSET Messages
      BY DEF Effective
    <2> QED
      BY <1>8, <2>1, <2>2 DEF MarkReviewed, TypeOK, Rows
  <1>9. ASSUME NEW e \in Employees, NEW c \in Correspondences,
               NEW status \in Statuses, SetStatus(e, c, status)
        PROVE  TypeOK'
    <2>1. correspondence' \in [Correspondences -> Rows]
      BY <1>9 DEF SetStatus, Updated, TypeOK, Rows
    <2> QED
      BY <1>9, <2>1 DEF SetStatus, TypeOK, Rows
  <1>10. ASSUME NEW e \in Employees, NEW c \in Correspondences, NEW m \in Messages,
                NEW class \in Classifications, NEW close \in BOOLEAN,
                ClassifyMessage(e, c, m, class, close)
         PROVE  TypeOK'
    <2>1. correspondence' \in [Correspondences -> Rows]
      BY <1>10 DEF ClassifyMessage, Updated, TypeOK, Rows, Statuses
    <2>2. classification' \in [Messages -> Classifications \cup {None}]
      BY <1>10 DEF ClassifyMessage, TypeOK
    <2> QED
      BY <1>10, <2>1, <2>2 DEF ClassifyMessage, TypeOK, Rows
  <1>11. CASE ArchiveOrRestore
    BY <1>11 DEF ArchiveOrRestore, TypeOK
  <1> QED
    BY <1>1, <1>2, <1>3, <1>4, <1>5, <1>6, <1>7, <1>8, <1>9, <1>10, <1>11
    DEF Next, Mail, Triage, Processing

LEMMA InitIsTyped == Init => TypeOK
  <1> SUFFICES ASSUME Init
               PROVE  TypeOK
    OBVIOUS
  <1>1. Blank \in [stage : {"none", "rows", "complete"},
                   version : [Correspondences -> Nat],
                   messages : SUBSET Messages]
    BY DEF Blank
  <1>2. [status |-> "awaiting", unread |-> 0, version |-> 1] \in Rows
    BY DEF Rows, Statuses
  <1>3. Absent \in [state : {"absent", "matched", "open", "linked", "dismissed"},
                    correspondence : Correspondences \cup {None}]
    BY DEF Absent
  <1> QED
    BY <1>1, <1>2, <1>3 DEF Init, TypeOK, Rows

\* Every variable keeps its type in every behaviour.
THEOREM TypeCorrect == Spec => []TypeOK
  <1>1. TypeOK /\ [Next]_vars => TypeOK'
    BY NextKeepsTypes
  <1> QED
    BY InitIsTyped, <1>1, PTL DEF Spec

-----------------------------------------------------------------------------
(* A closed correspondence has only classified messages.                   *)

\* A step that leaves the rows, the messages and the classifications alone.
LEMMA ClosedStutters ==
  ASSUME ClosedIsClassified, UNCHANGED <<correspondence, message, classification>>
  PROVE  ClosedIsClassified'
  BY DEF ClosedIsClassified, EveryInboundMessageClassified, Effective

\* A correspondence that receives a message is not closed any more.
LEMMA ReceivedKeepsClosed ==
  ASSUME TypeOK, ClosedIsClassified,
         NEW c \in Correspondences, correspondence' = Received(c),
         \A d \in Correspondences : d # c => Effective(d)' = Effective(d),
         UNCHANGED classification
  PROVE  ClosedIsClassified'
  <1>1. correspondence'[c].status = "new"
    BY DEF Received, TypeOK
  <1>2. \A d \in Correspondences : d # c => correspondence'[d] = correspondence[d]
    BY DEF Received, TypeOK
  <1> QED
    BY <1>1, <1>2 DEF ClosedIsClassified, EveryInboundMessageClassified

LEMMA NextKeepsClosed ==
  ASSUME TypeOK, ClosedIsClassified, [Next]_vars
  PROVE  ClosedIsClassified'
  <1>1. CASE UNCHANGED vars
    BY <1>1, ClosedStutters DEF vars
  <1>2. ASSUME NEW m \in Messages, Retain(m) \/ Dismiss(m)
        PROVE  ClosedIsClassified'
    <2>1. PICK s \in {"open", "dismissed"} :
            message' = [message EXCEPT ![m] = [state |-> s, correspondence |-> None]]
      BY <1>2 DEF Retain, Dismiss
    <2>2. message[m].state \in {"absent", "open"}
      BY <1>2 DEF Retain, Dismiss, TriageOpen
    <2>3. \A d \in Correspondences : Effective(d)' = Effective(d)
      BY <2>1, <2>2, EffectiveStays
    <2>4. UNCHANGED <<correspondence, classification>>
      BY <1>2 DEF Retain, Dismiss
    <2> QED
      BY <2>3, <2>4 DEF ClosedIsClassified, EveryInboundMessageClassified
  <1>3. ASSUME NEW m \in Messages, NEW c \in Correspondences, Match(m, c) \/ Link(m, c)
        PROVE  ClosedIsClassified'
    <2>1. PICK s \in {"matched", "linked"} :
            message' = [message EXCEPT ![m] = [state |-> s, correspondence |-> c]]
      BY <1>3 DEF Match, Link
    <2>2. message[m].state \in {"absent", "open"}
      BY <1>3 DEF Match, Link, TriageOpen
    <2>3. \A d \in Correspondences : d # c => Effective(d)' = Effective(d)
      BY <2>1, <2>2, EffectiveGrows
    <2>4. correspondence' = Received(c) /\ UNCHANGED classification
      BY <1>3 DEF Match, Link
    <2> QED
      BY <2>3, <2>4, ReceivedKeepsClosed
  <1>4. ASSUME NEW e \in Employees, ReadCorrespondences(e) \/ ReadMessages(e)
        PROVE  ClosedIsClassified'
    BY <1>4, ClosedStutters DEF ReadCorrespondences, ReadMessages
  <1>5. ASSUME NEW e \in Employees, NEW c \in Correspondences, MarkReviewed(e, c)
        PROVE  ClosedIsClassified'
    <2>1. \A d \in Correspondences :
            correspondence'[d].status = correspondence[d].status
      BY <1>5 DEF MarkReviewed, Updated, TypeOK
    <2> QED
      BY <1>5, <2>1
      DEF MarkReviewed, ClosedIsClassified, EveryInboundMessageClassified, Effective
  <1>6. ASSUME NEW e \in Employees, NEW c \in Correspondences,
               NEW status \in Statuses, SetStatus(e, c, status)
        PROVE  ClosedIsClassified'
    <2>1. /\ correspondence'[c].status = status
          /\ \A d \in Correspondences : d # c => correspondence'[d] = correspondence[d]
      BY <1>6 DEF SetStatus, Updated, TypeOK
    <2>2. status = "closed" => EveryInboundMessageClassified(c, classification)
      BY <1>6 DEF SetStatus
    <2> QED
      BY <1>6, <2>1, <2>2
      DEF SetStatus, ClosedIsClassified, EveryInboundMessageClassified, Effective
  <1>7. ASSUME NEW e \in Employees, NEW c \in Correspondences, NEW m \in Messages,
               NEW class \in Classifications, NEW close \in BOOLEAN,
               ClassifyMessage(e, c, m, class, close)
        PROVE  ClosedIsClassified'
    <2>1. /\ correspondence'[c].status =
               IF close THEN "closed" ELSE correspondence[c].status
          /\ \A d \in Correspondences : d # c => correspondence'[d] = correspondence[d]
      BY <1>7 DEF ClassifyMessage, Updated, TypeOK
    <2>2. \A n \in Messages : classification[n] # None => classification'[n] # None
      BY <1>7, ConstantsAssumption DEF ClassifyMessage, TypeOK, ConstantsAssumption
    <2>3. \A d \in Correspondences : Effective(d)' = Effective(d)
      BY <1>7 DEF ClassifyMessage, Effective
    <2>4. close => EveryInboundMessageClassified(c, classification')
      BY <1>7 DEF ClassifyMessage
    <2>5. ASSUME NEW d \in Correspondences, correspondence'[d].status = "closed"
          PROVE  \A n \in Effective(d)' : classification'[n] # None
      <3>1. CASE d = c /\ close
        BY <2>3, <2>4, <3>1 DEF EveryInboundMessageClassified
      <3>2. CASE d # c \/ ~close
        <4>1. correspondence[d].status = "closed"
          BY <2>1, <2>5, <3>2
        <4>2. \A n \in Effective(d) : n \in Messages /\ classification[n] # None
          BY <4>1 DEF ClosedIsClassified, EveryInboundMessageClassified, Effective
        <4> QED
          BY <2>2, <2>3, <4>2
      <3> QED
        BY <3>1, <3>2
    <2> QED
      BY <2>5 DEF ClosedIsClassified, EveryInboundMessageClassified
  <1>8. CASE ArchiveOrRestore
    BY <1>8, ClosedStutters DEF ArchiveOrRestore
  <1> QED
    BY <1>1, <1>2, <1>3, <1>4, <1>5, <1>6, <1>7, <1>8
    DEF Next, Mail, Triage, Processing

\* A closed correspondence holds no unclassified reply.
THEOREM ClosedIsClassifiedHolds == Spec => []ClosedIsClassified
  <1>1. Init => ClosedIsClassified
    BY DEF Init, ClosedIsClassified
  <1>2. TypeOK /\ ClosedIsClassified /\ [Next]_vars => ClosedIsClassified'
    BY NextKeepsClosed
  <1> QED
    BY <1>1, <1>2, TypeCorrect, PTL DEF Spec

-----------------------------------------------------------------------------
(* A message is decided on once.                                           *)

\* Each unmatched message is linked once or dismissed once.
THEOREM OneDecisionPerMessageHolds == Spec => []OneDecisionPerMessage
  <1>1. Init => OneDecisionPerMessage
    BY DEF Init, OneDecisionPerMessage, Absent
  <1>2. ASSUME TypeOK, OneDecisionPerMessage, [Next]_vars
        PROVE  OneDecisionPerMessage'
    <2>1. CASE UNCHANGED <<message, decisions>>
      BY <1>2, <2>1 DEF OneDecisionPerMessage
    <2>2. ASSUME NEW m \in Messages,
                 Retain(m) \/ \E c \in Correspondences : Match(m, c)
          PROVE  OneDecisionPerMessage'
      <3>1. /\ message[m].state = "absent" /\ message'[m].state \in {"open", "matched"}
            /\ \A n \in Messages : n # m => message'[n] = message[n]
            /\ decisions' = decisions
        BY <1>2, <2>2 DEF Retain, Match, TypeOK
      <3> QED
        BY <1>2, <3>1 DEF OneDecisionPerMessage
    <2>3. ASSUME NEW m \in Messages,
                 Dismiss(m) \/ \E c \in Correspondences : Link(m, c)
          PROVE  OneDecisionPerMessage'
      <3>1. /\ message[m].state = "open" /\ message'[m].state \in {"linked", "dismissed"}
            /\ \A n \in Messages : n # m => message'[n] = message[n]
        BY <1>2, <2>3 DEF Dismiss, Link, TriageOpen, TypeOK
      <3>2. /\ decisions'[m] = decisions[m] + 1
            /\ \A n \in Messages : n # m => decisions'[n] = decisions[n]
        BY <1>2, <2>3 DEF Dismiss, Link, TypeOK
      <3>3. decisions[m] = 0
        BY <1>2, <3>1 DEF OneDecisionPerMessage
      <3> QED
        BY <1>2, <3>1, <3>2, <3>3 DEF OneDecisionPerMessage
    <2> QED
      BY <1>2, <2>1, <2>2, <2>3
      DEF Next, vars, Mail, Triage, Processing, ReadCorrespondences, ReadMessages,
          MarkReviewed, SetStatus, ClassifyMessage, ArchiveOrRestore
  <1> QED
    BY <1>1, <1>2, TypeCorrect, PTL DEF Spec

-----------------------------------------------------------------------------
(* The unread count.                                                       *)

\* A review covers only messages of its correspondence.
ReviewedBelongs == \A c \in Correspondences : reviewed[c] \subseteq Effective(c)

CountInv == TypeOK /\ UnreadIsCounted /\ ReviewedBelongs

\* A received message adds itself to the unread ones and to the count.
LEMMA ReceivedIsCounted ==
  ASSUME CountInv, NEW m \in Messages, NEW c \in Correspondences,
         message[m].state \in {"absent", "open"},
         NEW s \in {"matched", "linked"},
         message' = [message EXCEPT ![m] = [state |-> s, correspondence |-> c]],
         correspondence' = Received(c), UNCHANGED reviewed
  PROVE  UnreadIsCounted' /\ ReviewedBelongs'
  <1>1. /\ Effective(c)' = Effective(c) \cup {m}
        /\ \A d \in Correspondences : m \notin Effective(d)
        /\ \A d \in Correspondences : d # c => Effective(d)' = Effective(d)
    BY EffectiveGrows DEF CountInv
  <1>2. /\ correspondence'[c].unread = correspondence[c].unread + 1
        /\ \A d \in Correspondences : d # c => correspondence'[d] = correspondence[d]
    BY DEF Received, CountInv, TypeOK
  <1>3. ReviewedBelongs'
    BY <1>1 DEF CountInv, ReviewedBelongs
  <1>4. Cardinality(Effective(c)' \ reviewed[c]) =
          Cardinality(Effective(c) \ reviewed[c]) + 1
    <2>1. IsFiniteSet(Effective(c) \ reviewed[c])
      BY ConstantsAssumption, FS_Subset DEF ConstantsAssumption, Effective
    <2>2. m \notin Effective(c) \ reviewed[c]
      BY <1>1
    <2>3. Effective(c)' \ reviewed[c] = (Effective(c) \ reviewed[c]) \cup {m}
      BY <1>1 DEF CountInv, ReviewedBelongs
    <2> QED
      BY <2>1, <2>2, <2>3, FS_AddElement
  <1>5. correspondence'[c].unread = Cardinality(Effective(c)' \ reviewed[c])
    BY <1>2, <1>4 DEF CountInv, UnreadIsCounted
  <1>6. ASSUME NEW d \in Correspondences, d # c
        PROVE  correspondence'[d].unread = Cardinality(Effective(d)' \ reviewed[d])
    BY <1>1, <1>2, <1>6 DEF CountInv, UnreadIsCounted
  <1> QED
    BY <1>3, <1>5, <1>6 DEF UnreadIsCounted

\* A step that changes neither the messages of a correspondence nor the counts.
LEMMA CountStays ==
  ASSUME CountInv, UNCHANGED reviewed,
         \A d \in Correspondences :
           /\ Effective(d)' = Effective(d)
           /\ correspondence'[d].unread = correspondence[d].unread
  PROVE  UnreadIsCounted' /\ ReviewedBelongs'
  BY DEF CountInv, UnreadIsCounted, ReviewedBelongs

LEMMA NextKeepsCount ==
  ASSUME CountInv, [Next]_vars
  PROVE  UnreadIsCounted' /\ ReviewedBelongs'
  <1>1. CASE UNCHANGED <<correspondence, message, reviewed>>
    <2>1. \A d \in Correspondences : Effective(d)' = Effective(d)
      BY <1>1 DEF Effective
    <2> QED
      BY <1>1, <2>1, CountStays
  <1>2. ASSUME NEW m \in Messages, Retain(m) \/ Dismiss(m)
        PROVE  UnreadIsCounted' /\ ReviewedBelongs'
    <2>1. PICK s \in {"open", "dismissed"} :
            message' = [message EXCEPT ![m] = [state |-> s, correspondence |-> None]]
      BY <1>2 DEF Retain, Dismiss
    <2>2. message[m].state \in {"absent", "open"}
      BY <1>2 DEF Retain, Dismiss, TriageOpen
    <2>3. \A d \in Correspondences : Effective(d)' = Effective(d)
      BY <2>1, <2>2, EffectiveStays DEF CountInv
    <2>4. UNCHANGED <<correspondence, reviewed>>
      BY <1>2 DEF Retain, Dismiss
    <2> QED
      BY <2>3, <2>4, CountStays
  <1>3. ASSUME NEW m \in Messages, NEW c \in Correspondences, Match(m, c) \/ Link(m, c)
        PROVE  UnreadIsCounted' /\ ReviewedBelongs'
    <2>1. PICK s \in {"matched", "linked"} :
            message' = [message EXCEPT ![m] = [state |-> s, correspondence |-> c]]
      BY <1>3 DEF Match, Link
    <2>2. message[m].state \in {"absent", "open"}
      BY <1>3 DEF Match, Link, TriageOpen
    <2>3. correspondence' = Received(c) /\ UNCHANGED reviewed
      BY <1>3 DEF Match, Link
    <2> QED
      BY <2>1, <2>2, <2>3, ReceivedIsCounted
  <1>4. ASSUME NEW e \in Employees, NEW c \in Correspondences, MarkReviewed(e, c)
        PROVE  UnreadIsCounted' /\ ReviewedBelongs'
    <2>1. \A d \in Correspondences : Effective(d)' = Effective(d)
      BY <1>4 DEF MarkReviewed, Effective
    <2>2. /\ correspondence'[c].unread = 0 /\ reviewed'[c] = Effective(c)
          /\ \A d \in Correspondences :
               d # c => /\ correspondence'[d] = correspondence[d]
                        /\ reviewed'[d] = reviewed[d]
      BY <1>4 DEF MarkReviewed, Updated, CountInv, TypeOK
    <2>3. Cardinality(Effective(c)' \ reviewed'[c]) = 0
      BY <2>1, <2>2, FS_EmptySet
    <2>4. ASSUME NEW d \in Correspondences
          PROVE  /\ correspondence'[d].unread = Cardinality(Effective(d)' \ reviewed'[d])
                 /\ reviewed'[d] \subseteq Effective(d)'
      <3>1. CASE d = c
        BY <2>1, <2>2, <2>3, <3>1
      <3>2. CASE d # c
        BY <2>1, <2>2, <3>2 DEF CountInv, UnreadIsCounted, ReviewedBelongs
      <3> QED
        BY <3>1, <3>2
    <2> QED
      BY <2>4 DEF UnreadIsCounted, ReviewedBelongs
  <1>5. ASSUME NEW e \in Employees, NEW c \in Correspondences,
               \/ \E status \in Statuses : SetStatus(e, c, status)
               \/ \E m \in Messages, class \in Classifications, close \in BOOLEAN :
                    ClassifyMessage(e, c, m, class, close)
        PROVE  UnreadIsCounted' /\ ReviewedBelongs'
    <2>1. UNCHANGED <<message, reviewed>>
      BY <1>5 DEF SetStatus, ClassifyMessage
    <2>2. PICK status : Updated(c, status, correspondence[c].unread)
      BY <1>5 DEF SetStatus, ClassifyMessage
    <2>3. \A d \in Correspondences :
            correspondence'[d].unread = correspondence[d].unread
      BY <2>2 DEF Updated, CountInv, TypeOK
    <2>4. \A d \in Correspondences : Effective(d)' = Effective(d)
      BY <2>1 DEF Effective
    <2> QED
      BY <2>1, <2>3, <2>4, CountStays
  <1> QED
    BY <1>1, <1>2, <1>3, <1>4, <1>5
    DEF Next, vars, Mail, Triage, Processing, ReadCorrespondences, ReadMessages,
        ArchiveOrRestore

\* The unread count is the number of messages since the last review.
THEOREM UnreadIsCountedHolds == Spec => []UnreadIsCounted
  <1>1. Init => CountInv
    <2> SUFFICES ASSUME Init
                 PROVE  UnreadIsCounted /\ ReviewedBelongs
      BY InitIsTyped DEF CountInv
    <2>1. \A c \in Correspondences :
            /\ Effective(c) = {} /\ reviewed[c] = {}
            /\ correspondence[c].unread = 0
      BY DEF Init, Effective, Absent
    <2>2. \A c \in Correspondences : Cardinality(Effective(c) \ reviewed[c]) = 0
      BY <2>1, FS_EmptySet
    <2> QED
      BY <2>1, <2>2 DEF UnreadIsCounted, ReviewedBelongs
  <1>2. CountInv /\ [Next]_vars => CountInv'
    BY NextKeepsTypes, NextKeepsCount DEF CountInv
  <1>3. CountInv => UnreadIsCounted
    BY DEF CountInv
  <1> QED
    BY <1>1, <1>2, <1>3, PTL DEF Spec

-----------------------------------------------------------------------------
(* Commands act on what was read.                                          *)

\* What an employee has read is older than the row, or complete: it was read
\* after the version that goes with it.
ScreenIsComplete ==
  \A e \in Employees, c \in Correspondences :
    /\ screen[e].stage # "none" => screen[e].version[c] <= correspondence[c].version
    /\ /\ screen[e].stage = "complete"
       /\ screen[e].version[c] = correspondence[c].version
       => Effective(c) \subseteq screen[e].messages

\* No step lowers a version, and none adds a message without raising it.
LEMMA VersionsGrow ==
  ASSUME TypeOK, [Next]_vars, NEW c \in Correspondences
  PROVE  \/ correspondence'[c].version > correspondence[c].version
         \/ /\ correspondence'[c].version = correspondence[c].version
            /\ Effective(c)' = Effective(c)
  <1>1. CASE UNCHANGED <<correspondence, message>>
    BY <1>1 DEF Effective
  <1>2. ASSUME NEW m \in Messages, Retain(m) \/ Dismiss(m)
        PROVE  correspondence' = correspondence /\ Effective(c)' = Effective(c)
    <2>1. PICK s \in {"open", "dismissed"} :
            message' = [message EXCEPT ![m] = [state |-> s, correspondence |-> None]]
      BY <1>2 DEF Retain, Dismiss
    <2>2. message[m].state \in {"absent", "open"}
      BY <1>2 DEF Retain, Dismiss, TriageOpen
    <2> QED
      BY <1>2, <2>1, <2>2, EffectiveStays DEF Retain, Dismiss
  <1>3. ASSUME NEW m \in Messages, NEW d \in Correspondences, Match(m, d) \/ Link(m, d)
        PROVE  \/ correspondence'[c].version > correspondence[c].version
               \/ /\ correspondence'[c].version = correspondence[c].version
                  /\ Effective(c)' = Effective(c)
    <2>1. PICK s \in {"matched", "linked"} :
            message' = [message EXCEPT ![m] = [state |-> s, correspondence |-> d]]
      BY <1>3 DEF Match, Link
    <2>2. message[m].state \in {"absent", "open"}
      BY <1>3 DEF Match, Link, TriageOpen
    <2>3. d # c => Effective(c)' = Effective(c)
      BY <2>1, <2>2, EffectiveGrows
    <2>4. correspondence' = Received(d)
      BY <1>3 DEF Match, Link
    <2>5. /\ d = c => correspondence'[c].version = correspondence[c].version + 1
          /\ d # c => correspondence'[c] = correspondence[c]
      BY <2>4 DEF Received, TypeOK
    <2>6. correspondence[c].version \in Nat
      BY DEF TypeOK
    <2> QED
      BY <2>3, <2>5, <2>6
  <1>4. ASSUME NEW e \in Employees, NEW d \in Correspondences,
               \/ MarkReviewed(e, d)
               \/ \E status \in Statuses : SetStatus(e, d, status)
               \/ \E m \in Messages, class \in Classifications, close \in BOOLEAN :
                    ClassifyMessage(e, d, m, class, close)
        PROVE  \/ correspondence'[c].version > correspondence[c].version
               \/ /\ correspondence'[c].version = correspondence[c].version
                  /\ Effective(c)' = Effective(c)
    <2>1. Effective(c)' = Effective(c)
      BY <1>4 DEF MarkReviewed, SetStatus, ClassifyMessage, Effective
    <2>2. PICK status, unread : Updated(d, status, unread)
      BY <1>4 DEF MarkReviewed, SetStatus, ClassifyMessage
    <2>3. /\ d = c => correspondence'[c].version = correspondence[c].version + 1
          /\ d # c => correspondence'[c] = correspondence[c]
      BY <2>2 DEF Updated, TypeOK
    <2>4. correspondence[c].version \in Nat
      BY DEF TypeOK
    <2> QED
      BY <2>1, <2>3, <2>4
  <1> QED
    BY <1>1, <1>2, <1>3, <1>4
    DEF Next, vars, Mail, Triage, Processing, ReadCorrespondences, ReadMessages,
        ArchiveOrRestore

LEMMA NextKeepsScreens ==
  ASSUME TypeOK, ScreenIsComplete, [Next]_vars
  PROVE  ScreenIsComplete'
  <1>1. \A c \in Correspondences :
          correspondence[c].version \in Nat /\ correspondence'[c].version \in Nat
    <2>1. TypeOK'
      BY NextKeepsTypes
    <2> QED
      BY <2>1 DEF TypeOK
  <1>2. CASE UNCHANGED screen
    <2> SUFFICES ASSUME NEW e \in Employees, NEW c \in Correspondences
                 PROVE  /\ screen[e].stage # "none" =>
                             screen[e].version[c] <= correspondence'[c].version
                        /\ /\ screen[e].stage = "complete"
                           /\ screen[e].version[c] = correspondence'[c].version
                           => Effective(c)' \subseteq screen[e].messages
      BY <1>2 DEF ScreenIsComplete
    <2>1. screen[e].version[c] \in Nat
      BY DEF TypeOK
    <2>2. \/ correspondence'[c].version > correspondence[c].version
          \/ /\ correspondence'[c].version = correspondence[c].version
             /\ Effective(c)' = Effective(c)
      BY VersionsGrow
    <2> QED
      BY <1>1, <2>1, <2>2 DEF ScreenIsComplete
  <1>3. ASSUME NEW e \in Employees, ReadCorrespondences(e)
        PROVE  ScreenIsComplete'
    <2>1. /\ screen'[e].stage = "rows"
          /\ \A c \in Correspondences : screen'[e].version[c] = correspondence[c].version
          /\ \A f \in Employees : f # e => screen'[f] = screen[f]
      BY <1>3 DEF ReadCorrespondences, TypeOK
    <2>2. correspondence' = correspondence /\ message' = message
      BY <1>3 DEF ReadCorrespondences
    <2>3. \A c \in Correspondences : Effective(c)' = Effective(c)
      BY <2>2 DEF Effective
    <2> QED
      BY <1>1, <2>1, <2>2, <2>3 DEF ScreenIsComplete
  <1>4. ASSUME NEW e \in Employees, ReadMessages(e)
        PROVE  ScreenIsComplete'
    <2>1. /\ screen[e].stage = "rows" /\ screen'[e].stage = "complete"
          /\ screen'[e].version = screen[e].version
          /\ screen'[e].messages = UNION {Effective(c) : c \in Correspondences}
          /\ \A f \in Employees : f # e => screen'[f] = screen[f]
      BY <1>4 DEF ReadMessages, TypeOK
    <2>2. correspondence' = correspondence /\ message' = message
      BY <1>4 DEF ReadMessages
    <2>3. \A c \in Correspondences :
            Effective(c)' = Effective(c) /\ Effective(c) \subseteq screen'[e].messages
      BY <2>1, <2>2 DEF Effective
    <2> QED
      BY <2>1, <2>2, <2>3 DEF ScreenIsComplete
  <1> QED
    BY <1>2, <1>3, <1>4
    DEF Next, vars, Mail, Triage, Processing, Retain, Match, Dismiss, Link,
        MarkReviewed, SetStatus, ClassifyMessage, ArchiveOrRestore

\* Nobody reviews, classifies or closes without having read every message.
THEOREM ProcessedAsReadHolds == Spec => ProcessedAsRead
  <1>1. Init => ScreenIsComplete
    BY DEF Init, ScreenIsComplete, Blank
  <1>2. TypeOK /\ ScreenIsComplete /\ [Next]_vars => ScreenIsComplete'
    BY NextKeepsScreens
  <1>3. ASSUME ScreenIsComplete, NEW e \in Employees, NEW c \in Correspondences,
               \/ MarkReviewed(e, c)
               \/ \E status \in Statuses : SetStatus(e, c, status)
               \/ \E m \in Messages, class \in Classifications, close \in BOOLEAN :
                    ClassifyMessage(e, c, m, class, close)
        PROVE  Effective(c) \subseteq screen[e].messages
    <2>1. Permitted(e, c)
      BY <1>3 DEF MarkReviewed, SetStatus, ClassifyMessage
    <2> QED
      BY <1>3, <2>1 DEF Permitted, ScreenIsComplete
  <1> DEFINE Acts(e, c) ==
        \/ MarkReviewed(e, c)
        \/ \E status \in Statuses : SetStatus(e, c, status)
        \/ \E m \in Messages, class \in Classifications, close \in BOOLEAN :
             ClassifyMessage(e, c, m, class, close)
  <1>4. ScreenIsComplete =>
          [correspondence' # correspondence =>
             \A e \in Employees, c \in Correspondences :
               Acts(e, c) => Effective(c) \subseteq screen[e].messages]_vars
    BY <1>3
  <1> QED
    BY <1>1, <1>2, <1>4, TypeCorrect, PTL DEF Spec, ProcessedAsRead

=============================================================================
