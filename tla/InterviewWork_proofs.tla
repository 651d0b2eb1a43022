------------------------- MODULE InterviewWork_proofs -------------------------
(***************************************************************************)
(* Proofs about four parts of the interview work.  Of InterviewHandoff:    *)
(* the life of each summary version, from its draft to what the Customer   *)
(* answers, whatever readers save late and however many deliverers carry   *)
(* overtaken claims of it.  Of QuestionBank: the orders of its versions,   *)
(* and what the schema of a Project cites.  Of FollowUpPage: a delivery    *)
(* that is shown as going on is being watched.  Of Specifications: the     *)
(* comparison of two snapshots is well defined and finds every difference, *)
(* and the summary of a version names the places that it changed.          *)
(***************************************************************************)
EXTENDS InterviewHandoff, QuestionBank, FollowUpPage, Specifications,
        SequenceTheorems, FunctionTheorems, FiniteSetTheorems, TLAPS

-----------------------------------------------------------------------------
(* InterviewHandoff: versions and claims.                                  *)

Rows == [state : States, updatedAt : Nat, summary : BOOLEAN, content : Nat]
Worlds == [claims : Nat, acks : Nat, accepted : Nat]
Flights == [stage : {"idle", "claimed", "answered"}, version : 0..Latest,
            result : Results \cup {"none"}]

Untouched == [claims |-> 0, acks |-> 0, accepted |-> 0]

\* A version that nobody may have seen yet.
Unsent(v) == v \in Existing => handoffs[v].state = "DRAFT"

\* What a deliverer carries was claimed, and what a reader found was sent.
Carried ==
  \A d \in Deliverers : flight[d].stage # "idle" =>
    /\ flight[d].version \in Existing
    /\ handoffs[flight[d].version].state # "DRAFT"
    /\ flight[d].stage = "answered" => flight[d].result \in Results
Noticed ==
  \A r \in Readers : found[r] # 0 => handoffs[found[r]].state # "DRAFT"
UnsentIsUntouched == \A v \in Versions : Unsent(v) => world[v] = Untouched

\* A version is superseded once the Customer has it.
Superseded ==
  \A v \in Existing : v # Latest =>
    \/ handoffs[v].state = "SENT"
    \/ handoffs[v].state = "UNKNOWN" /\ v \in evidence

VersionsInv ==
  /\ HandoffTypeOK
  /\ round.status = "OPEN" => handoffs = <<>>
  /\ Carried
  /\ Noticed
  /\ UnsentIsUntouched
  /\ Superseded

-----------------------------------------------------------------------------
(* The rows.                                                               *)

LEMMA RowReplaced ==
  ASSUME NEW h \in Seq(Rows), NEW v \in 1..Len(h), NEW row \in Rows
  PROVE  /\ [h EXCEPT ![v] = row] \in Seq(Rows)
         /\ Len([h EXCEPT ![v] = row]) = Len(h)
         /\ \A w \in 1..Len(h) : [h EXCEPT ![v] = row][w] = IF w = v THEN row ELSE h[w]
  BY ExceptSeq

LEMMA RowAppended ==
  ASSUME NEW h \in Seq(Rows)
  PROVE  /\ Append(h, NewDraft) \in Seq(Rows)
         /\ Len(Append(h, NewDraft)) = Len(h) + 1
         /\ \A w \in 1..Len(h) : Append(h, NewDraft)[w] = h[w]
         /\ Append(h, NewDraft)[Len(h) + 1] = NewDraft
<1>1. NewDraft \in Rows
  BY DEF NewDraft, Rows, States
<1>2. QED
  BY <1>1, AppendProperties

\* The life of one version: what a step may do to its row.
Moves(v) ==
  LET from == handoffs[v].state
      to == handoffs'[v].state
  IN
  \/ handoffs'[v] = handoffs[v]
  \/ /\ from = "DRAFT" /\ to = "SENDING" /\ handoffs'[v].content = round.content
  \/ /\ handoffs'[v].content = handoffs[v].content
     /\ \/ from = "DRAFT" /\ to = "DRAFT"
        \/ from \in {"FAILED", "UNKNOWN"} /\ to = "SENDING" /\ v \notin evidence
        \/ from = "SENDING" /\ to \in {"SENT", "FAILED", "UNKNOWN"}
        \/ from \in {"FAILED", "UNKNOWN"} /\ to = "UNKNOWN"

\* The Customer has version v, by the gateway's word or by a reply.
Received(v) ==
  \/ handoffs'[v].state = "SENT"
  \/ handoffs'[v].state = "UNKNOWN" /\ v \in evidence

RowsMove ==
  /\ handoffs' \in Seq(Rows)
  /\ Latest' \in {Latest, Latest + 1} /\ Latest' <= MaxVersions
  /\ \A v \in Existing : Moves(v)
  /\ Latest' # Latest => /\ handoffs'[Latest'] = NewDraft
                         /\ Latest > 0 => Received(Latest)

LEMMA OneRowMoves ==
  ASSUME HandoffTypeOK, NEW v \in Existing, NEW row \in Rows,
         handoffs' = [handoffs EXCEPT ![v] = row],
         handoffs'[v] = row => Moves(v)
  PROVE  RowsMove
<1>1. handoffs \in Seq(Rows) /\ Latest \in Nat
  BY LenProperties DEF HandoffTypeOK, Rows, Latest
<1>2. /\ handoffs' \in Seq(Rows) /\ Latest' = Latest
      /\ \A w \in Existing : handoffs'[w] = IF w = v THEN row ELSE handoffs[w]
  BY <1>1, RowReplaced DEF Latest, Existing
<1>3. \A w \in Existing : Moves(w)
  BY <1>2 DEF Moves
<1>4. QED
  BY <1>1, <1>2, <1>3 DEF RowsMove, HandoffTypeOK

LEMMA NoRowMoves ==
  ASSUME HandoffTypeOK, handoffs' = handoffs
  PROVE  RowsMove
<1>1. handoffs \in Seq(Rows) /\ Latest \in Nat /\ Latest' = Latest
  BY LenProperties DEF HandoffTypeOK, Rows, Latest
<1>2. QED
  BY <1>1 DEF RowsMove, Moves, HandoffTypeOK

LEMMA DraftingMovesRows ==
  ASSUME VersionsInv, Drafting
  PROVE  RowsMove
<1>0. HandoffTypeOK /\ handoffs \in Seq(Rows) /\ Latest \in Nat
  BY LenProperties DEF VersionsInv, HandoffTypeOK, Rows, Latest
<1>1. CASE EditRound
  BY <1>0, <1>1, NoRowMoves DEF EditRound
<1>2. CASE EndRound
  <2>1. CASE handoffs = <<>>
    <3>1. /\ handoffs' = <<NewDraft>> /\ NewDraft \in Rows
          /\ handoffs' \in Seq(Rows) /\ Len(handoffs') = 1 /\ handoffs'[1] = NewDraft
      BY <1>2, <2>1 DEF EndRound, NewDraft, Rows, States
    <3>2. Latest = 0 /\ Latest' = 1 /\ Existing = {}
      BY <2>1, <3>1 DEF Latest, Existing
    <3>3. QED
      BY <3>1, <3>2, HandoffAssumption DEF RowsMove, HandoffAssumption
  <2>2. CASE handoffs # <<>>
    BY <1>0, <1>2, <2>2, NoRowMoves DEF EndRound
  <2>3. QED
    BY <2>1, <2>2
<1>3. ASSUME NEW v \in Versions, NEW summary \in BOOLEAN, UpdateDraft(v, summary)
      PROVE  RowsMove
  <2> DEFINE row == [handoffs[v] EXCEPT !.summary = summary]
  <2>1. v \in Existing /\ handoffs[v] \in Rows /\ handoffs[v].state = "DRAFT"
    BY <1>0, <1>3, ElementOfSeq DEF UpdateDraft, Existing, Latest
  <2>2. row \in Rows /\ handoffs' = [handoffs EXCEPT ![v] = row]
    BY <1>3, <2>1 DEF UpdateDraft, Rows
  <2>3. handoffs'[v] = row => Moves(v)
    BY <2>1 DEF Moves, Rows
  <2> HIDE DEF row
  <2>4. QED
    BY <1>0, <2>1, <2>2, <2>3, OneRowMoves
<1>4. CASE StartDraft
  <2>1. CASE Latest > 0 /\ handoffs[Latest].state = "SENDING"
    <3> DEFINE row == [handoffs[Latest] EXCEPT !.state = "UNKNOWN"]
               h == [handoffs EXCEPT ![Latest] = row]
    <3>1. /\ handoffs' = Append(h, NewDraft)
          /\ Latest < MaxVersions /\ Latest \in evidence /\ Latest \in Existing
      BY <1>0, <1>4, <2>1 DEF StartDraft, Existing
    <3>2. handoffs[Latest] \in Rows /\ row \in Rows
      <4>1. handoffs[Latest] \in Rows
        BY <1>0, <3>1, ElementOfSeq DEF Existing, Latest
      <4>2. QED
        BY <4>1 DEF Rows, States
    <3>3. /\ h \in Seq(Rows) /\ Len(h) = Latest
          /\ \A w \in Existing : h[w] = IF w = Latest THEN row ELSE handoffs[w]
      BY <1>0, <3>1, <3>2, RowReplaced DEF Latest, Existing
    <3>4. /\ handoffs' \in Seq(Rows) /\ Latest' = Latest + 1
          /\ handoffs'[Latest'] = NewDraft
          /\ \A w \in Existing : handoffs'[w] = h[w]
      BY <3>1, <3>3, RowAppended DEF Latest, Existing
    <3>5. \A w \in Existing : Moves(w)
      <4> TAKE w \in Existing
      <4>1. CASE w = Latest
        BY <2>1, <3>2, <3>3, <3>4, <4>1 DEF Moves, Rows
      <4>2. CASE w # Latest
        BY <3>3, <3>4, <4>2 DEF Moves
      <4>3. QED
        BY <4>1, <4>2
    <3>6. Received(Latest)
      BY <3>1, <3>2, <3>3, <3>4 DEF Received, Rows
    <3> HIDE DEF row, h
    <3>7. QED
      BY <1>0, <3>1, <3>4, <3>5, <3>6, HandoffAssumption
         DEF RowsMove, HandoffAssumption
  <2>2. CASE ~(Latest > 0 /\ handoffs[Latest].state = "SENDING")
    <3>1. /\ handoffs' = Append(handoffs, NewDraft) /\ Latest < MaxVersions
          /\ \/ Latest = 0
             \/ handoffs[Latest].state = "SENT"
             \/ handoffs[Latest].state = "UNKNOWN" /\ Latest \in evidence
      BY <1>0, <1>4, <2>2 DEF StartDraft, Expired
    <3>2. /\ handoffs' \in Seq(Rows) /\ Latest' = Latest + 1
          /\ handoffs'[Latest'] = NewDraft
          /\ \A w \in Existing : handoffs'[w] = handoffs[w]
      BY <1>0, <3>1, RowAppended DEF Latest, Existing
    <3>3. Latest > 0 => Received(Latest)
      <4>1. SUFFICES ASSUME Latest > 0 PROVE Received(Latest)
        OBVIOUS
      <4>2. handoffs'[Latest] = handoffs[Latest]
        BY <1>0, <3>2, <4>1 DEF Existing
      <4>3. \/ handoffs[Latest].state = "SENT"
            \/ handoffs[Latest].state = "UNKNOWN" /\ Latest \in evidence
        BY <1>0, <3>1, <4>1
      <4>4. QED
        BY <4>2, <4>3 DEF Received
    <3>4. \A w \in Existing : Moves(w)
      BY <3>2 DEF Moves
    <3>5. QED
      BY <1>0, <3>1, <3>2, <3>3, <3>4, HandoffAssumption
         DEF RowsMove, HandoffAssumption
  <2>3. QED
    BY <2>1, <2>2
<1>5. ASSUME NEW v \in Versions, Preview(v)
      PROVE  RowsMove
  BY <1>0, <1>5, NoRowMoves DEF Preview
<1>6. QED
  BY <1>1, <1>2, <1>3, <1>4, <1>5 DEF Drafting

LEMMA DeliveringMovesRows ==
  ASSUME VersionsInv, Delivering
  PROVE  RowsMove
<1>0. /\ HandoffTypeOK /\ handoffs \in Seq(Rows) /\ clock \in Nat
      /\ round.content \in Nat
      /\ \A v \in Existing : handoffs[v] \in Rows
  BY ElementOfSeq DEF VersionsInv, HandoffTypeOK, Rows, Existing, Latest
<1>1. ASSUME NEW d \in Deliverers, NEW v \in Versions, Send(d, v)
      PROVE  RowsMove
  <2> DEFINE row == [handoffs[v] EXCEPT !.state = "SENDING", !.updatedAt = clock,
                                        !.content = round.content]
  <2>1. v \in Existing /\ handoffs[v].state = "DRAFT"
    BY <1>1 DEF Send
  <2>2. row \in Rows /\ handoffs' = [handoffs EXCEPT ![v] = row]
    BY <1>0, <1>1, <2>1 DEF Send, Rows, States
  <2>3. handoffs'[v] = row => Moves(v)
    BY <1>0, <2>1 DEF Moves, Rows
  <2> HIDE DEF row
  <2>4. QED
    BY <1>0, <2>1, <2>2, <2>3, OneRowMoves
<1>2. ASSUME NEW d \in Deliverers, NEW v \in Versions, NEW acknowledged \in BOOLEAN,
             Retry(d, v, acknowledged)
      PROVE  RowsMove
  <2> DEFINE row == [handoffs[v] EXCEPT !.state = "SENDING", !.updatedAt = clock]
  <2>1. /\ v \in Existing /\ v \notin evidence
        /\ handoffs[v].state \in {"FAILED", "UNKNOWN"}
    BY <1>2 DEF Retry, Retriable
  <2>2. row \in Rows /\ handoffs' = [handoffs EXCEPT ![v] = row]
    BY <1>0, <1>2, <2>1 DEF Retry, Rows, States
  <2>3. handoffs'[v] = row => Moves(v)
    BY <1>0, <2>1 DEF Moves, Rows
  <2> HIDE DEF row
  <2>4. QED
    BY <1>0, <2>1, <2>2, <2>3, OneRowMoves
<1>3. ASSUME NEW d \in Deliverers, Finalize(d)
      PROVE  RowsMove
  <2>1. PICK v \in Existing : v = flight[d].version
    BY <1>3 DEF Finalize, VersionsInv, Carried
  <2>2. flight[d].result \in Results
    BY <1>3 DEF Finalize, VersionsInv, Carried
  <2>3. StateOf(flight[d].result) \in {"SENT", "FAILED", "UNKNOWN"}
    BY <2>2 DEF StateOf, Results
  <2> DEFINE row == [handoffs[v] EXCEPT !.state = StateOf(flight[d].result),
                                        !.updatedAt = clock]
  <2>4. row \in Rows /\ handoffs' = [handoffs EXCEPT ![v] = row]
    BY <1>0, <1>3, <2>1, <2>3 DEF Finalize, Rows, States
  <2>5. handoffs'[v] = row => Moves(v)
    <3>1. handoffs[v] \in Rows /\ handoffs[v].state = "SENDING"
      BY <1>0, <1>3, <2>1 DEF Finalize
    <3>2. /\ row.state \in {"SENT", "FAILED", "UNKNOWN"}
          /\ row.content = handoffs[v].content
      BY <2>3, <3>1 DEF Rows
    <3>3. QED
      BY <3>1, <3>2 DEF Moves
  <2> HIDE DEF row
  <2>6. QED
    BY <1>0, <2>1, <2>4, <2>5, OneRowMoves
<1>4. ASSUME NEW d \in Deliverers, NEW result \in Results, Submit(d, result)
      PROVE  RowsMove
  BY <1>0, <1>4, NoRowMoves DEF Submit
<1>5. ASSUME NEW d \in Deliverers, FinalizeOvertaken(d) \/ Crash(d)
      PROVE  RowsMove
  BY <1>0, <1>5, NoRowMoves DEF FinalizeOvertaken, Crash
<1>6. QED
  BY <1>1, <1>2, <1>3, <1>4, <1>5 DEF Delivering

LEMMA ReadingMovesRows ==
  ASSUME VersionsInv, Reading
  PROVE  RowsMove
<1>0. /\ HandoffTypeOK /\ handoffs \in Seq(Rows) /\ clock \in Nat
      /\ \A v \in Existing : handoffs[v] \in Rows
  BY ElementOfSeq DEF VersionsInv, HandoffTypeOK, Rows, Existing, Latest
<1>1. ASSUME NEW r \in Readers, SaveUnknown(r)
      PROVE  RowsMove
  <2>1. PICK v \in Existing : v = found[r]
    BY <1>0, <1>1, LenProperties DEF SaveUnknown, HandoffTypeOK, Existing, Latest
  <2>2. handoffs[v].state \in {"SENDING", "FAILED", "UNKNOWN"}
    BY <1>0, <1>1, <2>1 DEF SaveUnknown, Protected, VersionsInv, Noticed, Rows, States
  <2> DEFINE row == [handoffs[v] EXCEPT !.state = "UNKNOWN", !.updatedAt = clock]
  <2>3. CASE handoffs[v].state = "UNKNOWN"
    BY <1>0, <1>1, <2>1, <2>3, NoRowMoves DEF SaveUnknown
  <2>4. CASE handoffs[v].state # "UNKNOWN"
    <3>1. row \in Rows /\ handoffs' = [handoffs EXCEPT ![v] = row]
      BY <1>0, <1>1, <2>1, <2>4 DEF SaveUnknown, Rows, States
    <3>2. handoffs'[v] = row => Moves(v)
      BY <1>0, <2>2 DEF Moves, Rows
    <3> HIDE DEF row
    <3>3. QED
      BY <1>0, <2>1, <3>1, <3>2, OneRowMoves
  <2>5. QED
    BY <2>3, <2>4
<1>2. ASSUME NEW r \in Readers, ReaderFails(r) \/ \E v \in Versions : FindExpired(r, v)
      PROVE  RowsMove
  BY <1>0, <1>2, NoRowMoves DEF ReaderFails, FindExpired
<1>3. QED
  BY <1>1, <1>2 DEF Reading

LEMMA StepMovesRows ==
  ASSUME VersionsInv, [HandoffNext]_handoffVars
  PROVE  RowsMove
<1>0. HandoffTypeOK
  BY DEF VersionsInv
<1>1. CASE (\E v \in Versions : Reply(v)) \/ ArchiveOrRestoreProject \/ Tick
           \/ UNCHANGED handoffVars
  BY <1>0, <1>1, NoRowMoves DEF Reply, ArchiveOrRestoreProject, Tick, handoffVars
<1>2. QED
  BY <1>1, DraftingMovesRows, DeliveringMovesRows, ReadingMovesRows DEF HandoffNext

-----------------------------------------------------------------------------
(* Types.                                                                  *)

LEMMA TypesUnfolded ==
  ASSUME HandoffTypeOK
  PROVE  /\ handoffs \in Seq(Rows) /\ Latest \in Nat
         /\ \A v \in Existing : handoffs[v] \in Rows /\ v \in Versions
         /\ round \in [status : {"OPEN", "ENDED"}, content : Nat]
         /\ flight \in [Deliverers -> Flights]
         /\ world \in [Versions -> Worlds]
         /\ results \in [Versions -> [Results -> Nat]]
         /\ found \in [Readers -> 0..Latest]
<1>1. handoffs \in Seq(Rows) /\ Latest \in Nat
  BY LenProperties DEF HandoffTypeOK, Rows, Latest
<1>2. \A v \in Existing : handoffs[v] \in Rows /\ v \in Versions
  BY <1>1, ElementOfSeq, HandoffAssumption
     DEF Existing, Latest, HandoffTypeOK, Versions, HandoffAssumption
<1>3. QED
  BY <1>1, <1>2 DEF HandoffTypeOK, Rows, Flights, Worlds

\* More versions may exist after a step, and never fewer.
LEMMA VersionsStay ==
  ASSUME HandoffTypeOK, RowsMove
  PROVE  /\ Latest' \in Nat /\ 0..Latest \subseteq 0..Latest'
         /\ Existing \subseteq Existing'
         /\ \A v \in Existing' : v \in Existing \/ (v = Latest' /\ v = Latest + 1)
<1>1. Latest \in Nat /\ Latest' \in {Latest, Latest + 1}
  BY TypesUnfolded DEF RowsMove
<1>2. QED
  BY <1>1 DEF Existing

LEMMA FlightTypeStep ==
  ASSUME VersionsInv, RowsMove, [HandoffNext]_handoffVars
  PROVE  flight' \in [Deliverers -> Flights']
<1>0. /\ flight \in [Deliverers -> Flights]
      /\ \A v \in Existing : v \in 0..Latest
      /\ Flights \subseteq Flights'
  BY TypesUnfolded, VersionsStay DEF VersionsInv, Flights, Existing
<1>1. ASSUME NEW d \in Deliverers, NEW f \in Flights, flight' = [flight EXCEPT ![d] = f]
      PROVE  flight' \in [Deliverers -> Flights']
  BY <1>0, <1>1
<1>2. CASE UNCHANGED flight
  BY <1>0, <1>2
<1>3. ASSUME NEW d \in Deliverers, flight' = [flight EXCEPT ![d] = Grounded]
      PROVE  flight' \in [Deliverers -> Flights']
  <2>1. Grounded \in Flights
    BY TypesUnfolded DEF Grounded, Flights, VersionsInv
  <2>2. QED
    BY <1>1, <1>3, <2>1
<1>4. ASSUME NEW d \in Deliverers, NEW v \in Existing, Carry(d, v)
      PROVE  flight' \in [Deliverers -> Flights']
  <2>1. [Grounded EXCEPT !.stage = "claimed", !.version = v] \in Flights
    BY <1>0 DEF Grounded, Flights
  <2>2. QED
    BY <1>1, <1>4, <2>1 DEF Carry
<1>5. ASSUME NEW d \in Deliverers, NEW result \in Results, Submit(d, result)
      PROVE  flight' \in [Deliverers -> Flights']
  <2> DEFINE f == [flight[d] EXCEPT !.stage = "answered", !.result = result]
  <2>1. f \in Flights
    BY <1>0 DEF Flights
  <2>2. flight' = [flight EXCEPT ![d] = f]
    BY <1>5 DEF Submit
  <2> HIDE DEF f
  <2>3. QED
    BY <1>1, <2>1, <2>2
<1>6. CASE Delivering
  <2>1. ASSUME NEW d \in Deliverers, NEW v \in Versions,
               Send(d, v) \/ \E acknowledged \in BOOLEAN : Retry(d, v, acknowledged)
        PROVE  v \in Existing /\ Carry(d, v)
    BY <2>1 DEF Send, Retry
  <2>2. QED
    BY <1>3, <1>4, <1>5, <1>6, <2>1 DEF Delivering, Finalize, FinalizeOvertaken, Crash
<1>7. CASE Drafting \/ Reading
  BY <1>2, <1>7 DEF Drafting, Reading, EditRound, EndRound, StartDraft, UpdateDraft,
     Preview, FindExpired, SaveUnknown, ReaderFails
<1>8. QED
  BY <1>2, <1>6, <1>7 DEF HandoffNext, Reply, ArchiveOrRestoreProject, Tick, handoffVars

LEMMA HistoryTypeStep ==
  ASSUME VersionsInv, RowsMove, [HandoffNext]_handoffVars
  PROVE  /\ results' \in [Versions -> [Results -> Nat]]
         /\ world' \in [Versions -> Worlds]
<1> DEFINE Goal == /\ results' \in [Versions -> [Results -> Nat]]
                   /\ world' \in [Versions -> Worlds]
<1>0. /\ results \in [Versions -> [Results -> Nat]]
      /\ world \in [Versions -> Worlds]
      /\ flight \in [Deliverers -> Flights]
      /\ found \in [Readers -> 0..Latest]
      /\ \A v \in Existing : v \in Versions
      /\ Latest \in Nat
  BY TypesUnfolded DEF VersionsInv
<1>1. ASSUME NEW v \in Versions, NEW result \in Results, UNCHANGED world,
             results' = [results EXCEPT ![v][result] = @ + 1]
      PROVE  Goal
  BY <1>0, <1>1
<1>2. ASSUME NEW v \in Versions, NEW w \in Worlds, UNCHANGED results,
             world' = [world EXCEPT ![v] = w]
      PROVE  Goal
  BY <1>0, <1>2
<1>3. CASE UNCHANGED <<results, world>>
  BY <1>0, <1>3
<1>4. CASE StartDraft
  <2>1. UNCHANGED results \/ (Latest > 0 /\ "UNKNOWN" \in Results
                              /\ results' = [results EXCEPT ![Latest]["UNKNOWN"] = @ + 1])
    BY <1>4 DEF StartDraft, Results
  <2>2. Latest > 0 => Latest \in Versions
    BY <1>0 DEF Existing
  <2>3. UNCHANGED world
    BY <1>4 DEF StartDraft
  <2>4. QED
    BY <1>1, <1>3, <2>1, <2>2, <2>3
<1>5. ASSUME NEW r \in Readers, SaveUnknown(r)
      PROVE  Goal
  <2>1. PICK v \in Versions : v = found[r]
    BY <1>0, <1>5 DEF SaveUnknown, Existing
  <2>2. "UNKNOWN" \in Results /\ UNCHANGED world
        /\ results' = [results EXCEPT ![v]["UNKNOWN"] = @ + 1]
    BY <1>5, <2>1 DEF SaveUnknown, ExpiredResults, Results
  <2>3. QED
    BY <1>1, <2>1, <2>2
<1>6. ASSUME NEW d \in Deliverers, NEW v \in Versions, Send(d, v)
      PROVE  Goal
  <2> DEFINE w == [world[v] EXCEPT !.claims = 1]
  <2>1. w \in Worlds /\ UNCHANGED results /\ world' = [world EXCEPT ![v] = w]
    BY <1>0, <1>6 DEF Send, Worlds
  <2> HIDE DEF w
  <2>2. QED
    BY <1>2, <2>1
<1>7. ASSUME NEW d \in Deliverers, NEW v \in Versions, NEW acknowledged \in BOOLEAN,
             Retry(d, v, acknowledged)
      PROVE  Goal
  <2>1. world[v] \in Worlds /\ UNCHANGED results
    BY <1>0, <1>7 DEF Retry
  <2>2. PICK n \in Nat : world' = [world EXCEPT ![v].claims = @ + 1, ![v].acks = n]
    <3>1. world[v].acks \in Nat /\ world[v].acks + 1 \in Nat
      BY <2>1 DEF Worlds
    <3>2. CASE handoffs[v].state = "UNKNOWN" /\ acknowledged
      BY <1>7, <3>1, <3>2 DEF Retry
    <3>3. CASE ~(handoffs[v].state = "UNKNOWN" /\ acknowledged)
      BY <1>7, <3>1, <3>3 DEF Retry
    <3>4. QED
      BY <3>2, <3>3
  <2> DEFINE w == [world[v] EXCEPT !.claims = @ + 1, !.acks = n]
  <2>3. w \in Worlds
    <3>1. [world[v] EXCEPT !.claims = @ + 1] \in Worlds
      BY <2>1 DEF Worlds
    <3>2. QED
      BY <3>1 DEF Worlds
  <2>4. world' = [world EXCEPT ![v] = w]
    BY <2>2
  <2> HIDE DEF w
  <2>5. QED
    BY <1>2, <2>1, <2>3, <2>4
<1>8. ASSUME NEW d \in Deliverers, NEW result \in Results, Submit(d, result)
      PROVE  Goal
  <2>1. PICK v \in Versions : v = flight[d].version
    BY <1>0, <1>8 DEF Submit, VersionsInv, Carried
  <2>2. PICK taken \in {0, 1} : world' = [world EXCEPT ![v].accepted = @ + taken]
    BY <1>8, <2>1 DEF Submit
  <2> DEFINE w == [world[v] EXCEPT !.accepted = @ + taken]
  <2>3. w \in Worlds /\ UNCHANGED results /\ world' = [world EXCEPT ![v] = w]
    <3>1. world[v] \in Worlds /\ UNCHANGED results
      BY <1>0, <1>8 DEF Submit
    <3>2. QED
      BY <2>2, <3>1 DEF Worlds
  <2> HIDE DEF w
  <2>4. QED
    BY <1>2, <2>3
<1>9. ASSUME NEW d \in Deliverers, Finalize(d)
      PROVE  Goal
  <2>1. PICK v \in Versions, result \in Results :
          v = flight[d].version /\ result = flight[d].result
    BY <1>0, <1>9 DEF Finalize, VersionsInv, Carried
  <2>2. UNCHANGED world /\ results' = [results EXCEPT ![v][result] = @ + 1]
    BY <1>9, <2>1 DEF Finalize
  <2>3. QED
    BY <1>1, <2>2
<1>10. CASE Delivering
  <2>1. ASSUME NEW d \in Deliverers, FinalizeOvertaken(d) \/ Crash(d)
        PROVE  UNCHANGED <<results, world>>
    BY <2>1 DEF FinalizeOvertaken, Crash
  <2>2. QED
    BY <1>3, <1>6, <1>7, <1>8, <1>9, <1>10, <2>1 DEF Delivering
<1>11. CASE Drafting \/ Reading
  <2>1. CASE Drafting /\ ~StartDraft
    BY <1>3, <2>1 DEF Drafting, EditRound, EndRound, UpdateDraft, Preview
  <2>2. CASE Reading
    <3>1. ASSUME NEW r \in Readers, ReaderFails(r) \/ \E v \in Versions : FindExpired(r, v)
          PROVE  UNCHANGED <<results, world>>
      BY <3>1 DEF FindExpired, ReaderFails
    <3>2. QED
      BY <1>3, <1>5, <2>2, <3>1 DEF Reading
  <2>3. QED
    BY <1>4, <1>11, <2>1, <2>2
<1>12. CASE (\E v \in Versions : Reply(v)) \/ ArchiveOrRestoreProject \/ Tick
           \/ UNCHANGED handoffVars
  BY <1>3, <1>12 DEF Reply, ArchiveOrRestoreProject, Tick, handoffVars
<1>13. QED
  BY <1>10, <1>11, <1>12 DEF HandoffNext

Previews == [version : 0..MaxVersions, content : Nat, summary : BOOLEAN]

LEMMA RestTypeStep ==
  ASSUME VersionsInv, RowsMove, [HandoffNext]_handoffVars
  PROVE  /\ clock' \in Nat
         /\ projectArchived' \in BOOLEAN
         /\ round' \in [status : {"OPEN", "ENDED"}, content : Nat]
         /\ preview' \in Previews
         /\ evidence' \subseteq Existing'
         /\ found' \in [Readers -> 0..Latest']
<1> DEFINE Found == found' \in [Readers -> 0..Latest']
           Rest == /\ clock' \in Nat
                   /\ projectArchived' \in BOOLEAN
                   /\ round' \in [status : {"OPEN", "ENDED"}, content : Nat]
                   /\ preview' \in Previews
                   /\ evidence' \subseteq Existing'
<1>0. /\ clock \in Nat /\ projectArchived \in BOOLEAN
      /\ preview \in Previews /\ evidence \subseteq Existing
      /\ round \in [status : {"OPEN", "ENDED"}, content : Nat]
      /\ found \in [Readers -> 0..Latest]
      /\ \A v \in Existing : handoffs[v] \in Rows /\ v \in Versions
      /\ world \in [Versions -> Worlds]
      /\ Latest \in Nat
      /\ Existing \subseteq Existing' /\ 0..Latest \subseteq 0..Latest'
  BY TypesUnfolded, VersionsStay DEF VersionsInv, HandoffTypeOK, Previews
<1>1. CASE Delivering
  <2>1. UNCHANGED <<clock, projectArchived, round, preview, evidence, found>>
    BY <1>1 DEF Delivering, Send, Retry, Submit, Finalize, FinalizeOvertaken, Crash
  <2>2. QED
    BY <1>0, <2>1
<1>2. CASE Reading
  <2>1. UNCHANGED <<clock, projectArchived, round, preview, evidence>>
    BY <1>2 DEF Reading, FindExpired, SaveUnknown, ReaderFails
  <2>2. \E r \in Readers, v \in 0..Latest : found' = [found EXCEPT ![r] = v]
    <3>1. 0 \in 0..Latest /\ \A v \in Existing : v \in 0..Latest
      BY <1>0 DEF Existing
    <3>2. QED
      BY <1>2, <3>1 DEF Reading, FindExpired, SaveUnknown, ReaderFails
  <2>3. QED
    BY <1>0, <2>1, <2>2
<1>3. CASE Drafting
  <2>1. UNCHANGED <<clock, projectArchived, evidence, found>>
    BY <1>3 DEF Drafting, EditRound, EndRound, StartDraft, UpdateDraft, Preview
  <2>2. round' \in [status : {"OPEN", "ENDED"}, content : Nat]
    BY <1>0, <1>3 DEF Drafting, EditRound, EndRound, StartDraft, UpdateDraft, Preview
  <2>3. preview' \in Previews
    <3>1. ASSUME NEW v \in Versions, Preview(v)
          PROVE  preview' \in Previews
      <4>1. v \in Existing /\ handoffs[v].summary \in BOOLEAN /\ round.content \in Nat
        BY <1>0, <3>1 DEF Preview, Rows
      <4>2. v \in 0..MaxVersions
        BY HandoffAssumption DEF Versions, HandoffAssumption
      <4>3. QED
        BY <3>1, <4>1, <4>2 DEF Preview, Rendered, Previews
    <3>2. QED
      BY <1>0, <1>3, <3>1 DEF Drafting, EditRound, EndRound, StartDraft, UpdateDraft
  <2>4. QED
    BY <1>0, <2>1, <2>2, <2>3
<1>4. ASSUME NEW v \in Versions, Reply(v)
      PROVE  Found /\ Rest
  <2>1. v \in Existing
    BY <1>0, <1>4 DEF Reply, VersionsInv, UnsentIsUntouched, Unsent, Untouched
  <2>2. QED
    BY <1>0, <1>4, <2>1 DEF Reply
<1>5. CASE ArchiveOrRestoreProject \/ Tick \/ UNCHANGED handoffVars
  <2>1. /\ UNCHANGED <<round, preview, evidence, found>>
        /\ clock' \in {clock, clock + 1}
        /\ projectArchived' \in BOOLEAN
    BY <1>0, <1>5 DEF ArchiveOrRestoreProject, Tick, handoffVars
  <2>2. QED
    BY <1>0, <2>1
<1>6. QED
  BY <1>1, <1>2, <1>3, <1>4, <1>5 DEF HandoffNext

LEMMA HandoffTypeStep ==
  ASSUME VersionsInv, RowsMove, [HandoffNext]_handoffVars
  PROVE  HandoffTypeOK'
<1>1. handoffs' \in Seq(Rows) /\ Latest' <= MaxVersions
  BY DEF RowsMove
<1>2. QED
  BY <1>1, FlightTypeStep, HistoryTypeStep, RestTypeStep
     DEF HandoffTypeOK, Rows, Flights, Worlds, Previews

-----------------------------------------------------------------------------
(* The versions.                                                           *)

\* What was sent is never a draft again, and what was received stays so.
LEMMA SentStaysSent ==
  ASSUME VersionsInv, RowsMove
  PROVE  /\ \A v \in Existing : handoffs[v].state # "DRAFT" => handoffs'[v].state # "DRAFT"
         /\ \A v \in Versions : Unsent(v)' => Unsent(v)
<1>1. \A v \in Existing : handoffs[v].state # "DRAFT" => handoffs'[v].state # "DRAFT"
  BY DEF RowsMove, Moves
<1>2. QED
  BY <1>1, VersionsStay DEF Unsent, VersionsInv

LEMMA CarriedStep ==
  ASSUME VersionsInv, RowsMove, [HandoffNext]_handoffVars
  PROVE  Carried'
<1> DEFINE Sent(f) == f.stage # "idle" =>
             /\ f.version \in Existing
             /\ handoffs[f.version].state # "DRAFT" \/ handoffs'[f.version].state = "SENDING"
             /\ f.stage = "answered" => f.result \in Results
<1>0. /\ flight \in [Deliverers -> Flights]
      /\ \A e \in Deliverers : Sent(flight[e])
  BY TypesUnfolded DEF VersionsInv, Carried
<1>1. SUFFICES \A e \in Deliverers : Sent(flight'[e])
  <2>1. Existing \subseteq Existing'
    BY VersionsStay DEF VersionsInv
  <2>2. QED
    BY <2>1, SentStaysSent DEF Carried
<1>2. CASE UNCHANGED flight
  BY <1>0, <1>2
<1>3. ASSUME NEW d \in Deliverers, NEW f, flight' = [flight EXCEPT ![d] = f], Sent(f)
      PROVE  \A e \in Deliverers : Sent(flight'[e])
  BY <1>0, <1>3
<1>4. ASSUME NEW d \in Deliverers, flight' = [flight EXCEPT ![d] = Grounded]
      PROVE  \A e \in Deliverers : Sent(flight'[e])
  <2>1. Sent(Grounded)
    BY DEF Grounded
  <2>2. QED
    BY <1>3, <1>4, <2>1
<1>5. ASSUME NEW d \in Deliverers, NEW v \in Existing, Carry(d, v),
             handoffs'[v].state = "SENDING"
      PROVE  \A e \in Deliverers : Sent(flight'[e])
  <2> DEFINE f == [Grounded EXCEPT !.stage = "claimed", !.version = v]
  <2>1. Sent(f)
    BY <1>5 DEF Grounded
  <2>2. flight' = [flight EXCEPT ![d] = f]
    BY <1>5 DEF Carry
  <2> HIDE DEF f
  <2>3. QED
    BY <1>3, <2>1, <2>2
<1>6. ASSUME NEW d \in Deliverers, NEW result \in Results, Submit(d, result)
      PROVE  \A e \in Deliverers : Sent(flight'[e])
  <2> DEFINE f == [flight[d] EXCEPT !.stage = "answered", !.result = result]
  <2>1. Sent(flight[d]) /\ flight[d].stage = "claimed" /\ flight[d] \in Flights
    BY <1>0, <1>6 DEF Submit
  <2>2. f.version = flight[d].version /\ f.result = result /\ f.stage = "answered"
    BY <2>1 DEF Flights
  <2>3. Sent(f)
    BY <2>1, <2>2
  <2>4. flight' = [flight EXCEPT ![d] = f]
    BY <1>6 DEF Submit
  <2> HIDE DEF f
  <2>5. QED
    BY <1>3, <2>3, <2>4
<1> HIDE DEF Sent
<1>7. ASSUME NEW d \in Deliverers, NEW v \in Versions,
             Send(d, v) \/ \E acknowledged \in BOOLEAN : Retry(d, v, acknowledged)
      PROVE  v \in Existing /\ Carry(d, v) /\ handoffs'[v].state = "SENDING"
  <2>1. /\ v \in Existing /\ Carry(d, v) /\ handoffs[v] \in Rows
        /\ v \in 1..Len(handoffs) /\ handoffs \in Seq(Rows)
    BY <1>7, TypesUnfolded DEF Send, Retry, VersionsInv, Existing, Latest
  <2>2. CASE Send(d, v)
    BY <2>1, <2>2 DEF Send, Rows
  <2>3. ASSUME NEW acknowledged \in BOOLEAN, Retry(d, v, acknowledged)
        PROVE  handoffs'[v].state = "SENDING"
    BY <2>1, <2>3 DEF Retry, Rows
  <2>4. QED
    BY <1>7, <2>1, <2>2, <2>3
<1>8. CASE Delivering
  <2>1. ASSUME NEW d \in Deliverers, Finalize(d) \/ FinalizeOvertaken(d) \/ Crash(d)
        PROVE  flight' = [flight EXCEPT ![d] = Grounded]
    BY <2>1 DEF Finalize, FinalizeOvertaken, Crash
  <2>2. QED
    BY <1>4, <1>5, <1>6, <1>7, <1>8, <2>1 DEF Delivering
<1>9. CASE Drafting \/ Reading
  BY <1>2, <1>9 DEF Drafting, Reading, EditRound, EndRound, StartDraft, UpdateDraft,
     Preview, FindExpired, SaveUnknown, ReaderFails
<1>10. QED
  BY <1>2, <1>8, <1>9 DEF HandoffNext, Reply, ArchiveOrRestoreProject, Tick, handoffVars

LEMMA NoticedStep ==
  ASSUME VersionsInv, RowsMove, [HandoffNext]_handoffVars
  PROVE  Noticed'
<1>0. /\ found \in [Readers -> 0..Latest] /\ Latest \in Nat
      /\ \A r \in Readers : found[r] # 0 => /\ found[r] \in Existing
                                            /\ handoffs[found[r]].state # "DRAFT"
  BY TypesUnfolded DEF VersionsInv, Noticed, Existing
<1>1. CASE UNCHANGED found
  BY <1>0, <1>1, SentStaysSent DEF Noticed
<1>2. ASSUME NEW r \in Readers, NEW v, found' = [found EXCEPT ![r] = v],
             v = 0 \/ (v \in Existing /\ handoffs[v].state # "DRAFT")
      PROVE  Noticed'
  BY <1>0, <1>2, SentStaysSent DEF Noticed
<1>3. CASE Reading
  BY <1>2, <1>3 DEF Reading, FindExpired, Expired, SaveUnknown, ReaderFails
<1>4. CASE Drafting
  BY <1>1, <1>4 DEF Drafting, EditRound, EndRound, StartDraft, UpdateDraft, Preview
<1>5. CASE Delivering
  BY <1>1, <1>5 DEF Delivering, Send, Retry, Submit, Finalize, FinalizeOvertaken, Crash
<1>6. QED
  BY <1>1, <1>3, <1>4, <1>5
     DEF HandoffNext, Reply, ArchiveOrRestoreProject, Tick, handoffVars

LEMMA EvidenceStays ==
  ASSUME [HandoffNext]_handoffVars
  PROVE  evidence \subseteq evidence'
<1>1. CASE Drafting \/ Reading
  BY <1>1 DEF Drafting, Reading, EditRound, EndRound, StartDraft, UpdateDraft,
     Preview, FindExpired, SaveUnknown, ReaderFails
<1>2. CASE Delivering
  BY <1>2 DEF Delivering, Send, Retry, Submit, Finalize, FinalizeOvertaken, Crash
<1>3. QED
  BY <1>1, <1>2 DEF HandoffNext, Reply, ArchiveOrRestoreProject, Tick, handoffVars

LEMMA SupersededStep ==
  ASSUME VersionsInv, RowsMove, [HandoffNext]_handoffVars
  PROVE  Superseded'
<1> SUFFICES ASSUME NEW v \in Existing', v # Latest'
             PROVE  \/ handoffs'[v].state = "SENT"
                    \/ handoffs'[v].state = "UNKNOWN" /\ v \in evidence'
  BY DEF Superseded
<1>1. /\ v \in Existing /\ Latest \in Nat
      /\ Latest' # Latest => Latest > 0
  BY VersionsStay, TypesUnfolded DEF VersionsInv, Existing
<1>2. CASE v # Latest
  <2>1. \/ handoffs[v].state = "SENT"
        \/ handoffs[v].state = "UNKNOWN" /\ v \in evidence
    BY <1>1, <1>2 DEF VersionsInv, Superseded
  <2>2. Moves(v)
    BY <1>1 DEF RowsMove
  <2>3. QED
    BY <2>1, <2>2, EvidenceStays DEF Moves
<1>3. CASE v = Latest
  BY <1>1, <1>3, EvidenceStays DEF RowsMove, Received
<1>4. QED
  BY <1>2, <1>3

-----------------------------------------------------------------------------
(* One version, seen from its delivery: what a step may do to its account. *)

State(v) == IF v \in Existing THEN handoffs[v].state ELSE "DRAFT"

\* A claim whose copy is not taken yet, or whose refusal is not recorded yet.
Pends(f, v) ==
  /\ f.version = v
  /\ f.stage = "claimed" \/ (f.stage = "answered" /\ f.result = "REJECTED")
Pending(v) == {d \in Deliverers : Pends(flight[d], v)}

Fewer(v) == \E d \in Pending(v) : Pending(v)' \subseteq Pending(v) \ {d}
OneMore(v) == \E d \in Deliverers : Pending(v)' \subseteq Pending(v) \cup {d}

Idle(v) ==
  /\ State(v)' = State(v) /\ world'[v] = world[v] /\ results'[v] = results[v]
  /\ Pending(v)' \subseteq Pending(v)
Claim(v) ==
  /\ State(v)' = "SENDING" /\ results'[v] = results[v] /\ OneMore(v)
  /\ \/ State(v) = "DRAFT" /\ world'[v] = [world[v] EXCEPT !.claims = 1]
     \/ State(v) = "FAILED" /\ world'[v] = [world[v] EXCEPT !.claims = @ + 1]
     \/ State(v) = "UNKNOWN" /\ world'[v] = [world[v] EXCEPT !.claims = @ + 1,
                                                             !.acks = @ + 1]
Take(v) ==
  /\ State(v)' = State(v) /\ State(v) # "DRAFT" /\ results'[v] = results[v] /\ Fewer(v)
  /\ \E taken \in {0, 1} : world'[v] = [world[v] EXCEPT !.accepted = @ + taken]
Resolve(v, result) ==
  /\ State(v) = "SENDING" /\ State(v)' = StateOf(result) /\ world'[v] = world[v]
  /\ results'[v] = [results[v] EXCEPT ![result] = @ + 1]
  /\ Pending(v)' \subseteq Pending(v)
  /\ result = "REJECTED" => Fewer(v)
Expire(v) ==
  /\ State(v) \in {"SENDING", "FAILED", "UNKNOWN"} /\ State(v)' = "UNKNOWN"
  /\ results'[v] = [results[v] EXCEPT !["UNKNOWN"] = @ + 1]
  /\ world'[v] = world[v] /\ Pending(v)' = Pending(v)

VersionStep(v) ==
  \/ Idle(v)
  \/ Claim(v)
  \/ Take(v)
  \/ \E result \in Results : Resolve(v, result)
  \/ Expire(v)

LEMMA PendingChange ==
  ASSUME VersionsInv, NEW d \in Deliverers, NEW f, flight' = [flight EXCEPT ![d] = f],
         NEW v \in Versions
  PROVE  /\ Pending(v)' \subseteq Pending(v) \cup {d}
         /\ ~Pends(f, v) => Pending(v)' \subseteq Pending(v) \ {d}
<1>1. flight \in [Deliverers -> Flights]
  BY TypesUnfolded DEF VersionsInv
<1>2. flight'[d] = f /\ \A e \in Deliverers \ {d} : flight'[e] = flight[e]
  BY <1>1
<1>3. QED
  BY <1>2 DEF Pending

\* The row of version w is replaced by one with state x.
Turns(w, x) ==
  \E row \in Rows : row.state = x /\ handoffs' = [handoffs EXCEPT ![w] = row]

LEMMA TurnedState ==
  ASSUME VersionsInv, NEW w \in Existing, NEW x, Turns(w, x), NEW v \in Versions
  PROVE  State(v)' = IF v = w THEN x ELSE State(v)
<1>1. PICK row \in Rows : row.state = x /\ handoffs' = [handoffs EXCEPT ![w] = row]
  BY DEF Turns
<1>2. handoffs \in Seq(Rows)
  BY TypesUnfolded DEF VersionsInv
<1>3. /\ Existing' = Existing
      /\ \A u \in Existing : handoffs'[u] = IF u = w THEN row ELSE handoffs[u]
  BY <1>1, <1>2, RowReplaced DEF Existing, Latest
<1>4. QED
  BY <1>1, <1>3 DEF State

LEMMA SameRowsSameState ==
  ASSUME handoffs' = handoffs, NEW v \in Versions
  PROVE  State(v)' = State(v)
  BY DEF State, Existing, Latest

LEMMA SameFlightSamePending ==
  ASSUME flight' = flight, NEW v \in Versions
  PROVE  Pending(v)' = Pending(v)
  BY DEF Pending

LEMMA ClaimingSteps ==
  ASSUME VersionsInv, NEW v \in Versions, NEW d \in Deliverers, NEW w \in Versions,
         Send(d, w) \/ \E acknowledged \in BOOLEAN : Retry(d, w, acknowledged)
  PROVE  VersionStep(v)
<1> DEFINE f == [Grounded EXCEPT !.stage = "claimed", !.version = w]
<1>0. /\ w \in Existing /\ handoffs[w] \in Rows /\ clock \in Nat /\ round.content \in Nat
      /\ world \in [Versions -> Worlds] /\ State(w) = handoffs[w].state
      /\ flight' = [flight EXCEPT ![d] = f] /\ results' = results
  BY TypesUnfolded DEF VersionsInv, HandoffTypeOK, Send, Retry, Carry, State
<1>1. f.version = w
  BY DEF Grounded
<1>2. Turns(w, "SENDING")
  <2>1. CASE Send(d, w)
    <3> DEFINE row == [handoffs[w] EXCEPT !.state = "SENDING", !.updatedAt = clock,
                                          !.content = round.content]
    <3>1. row \in Rows /\ row.state = "SENDING" /\ handoffs' = [handoffs EXCEPT ![w] = row]
      BY <1>0, <2>1 DEF Send, Rows, States
    <3>2. QED
      BY <3>1 DEF Turns
  <2>2. ASSUME NEW acknowledged \in BOOLEAN, Retry(d, w, acknowledged)
        PROVE  Turns(w, "SENDING")
    <3> DEFINE row == [handoffs[w] EXCEPT !.state = "SENDING", !.updatedAt = clock]
    <3>1. row \in Rows /\ row.state = "SENDING"
      BY <1>0 DEF Rows, States
    <3>2. handoffs' = [handoffs EXCEPT ![w] = row]
      BY <2>2 DEF Retry
    <3>3. QED
      BY <3>1, <3>2 DEF Turns
  <2>3. QED
    BY <2>1, <2>2
<1> HIDE DEF f
<1>3. CASE v = w
  <2>1. State(v)' = "SENDING" /\ results'[v] = results[v] /\ OneMore(v)
    BY <1>0, <1>2, <1>3, TurnedState, PendingChange DEF OneMore
  <2>2. CASE Send(d, w)
    <3>1. State(v) = "DRAFT" /\ world'[v] = [world[v] EXCEPT !.claims = 1]
      BY <1>0, <1>3, <2>2 DEF Send
    <3>2. QED
      BY <2>1, <3>1 DEF VersionStep, Claim
  <2>3. ASSUME NEW acknowledged \in BOOLEAN, Retry(d, w, acknowledged)
        PROVE  VersionStep(v)
    <3>1. CASE handoffs[w].state = "FAILED"
      <4>1. world' = [world EXCEPT ![w].claims = @ + 1, ![w].acks = @]
        BY <2>3, <3>1 DEF Retry
      <4>2. world'[v] = [world[v] EXCEPT !.claims = @ + 1]
        BY <1>0, <1>3, <4>1 DEF Worlds
      <4>3. QED
        BY <1>0, <1>3, <2>1, <3>1, <4>2 DEF VersionStep, Claim
    <3>2. CASE handoffs[w].state # "FAILED"
      <4>1. handoffs[w].state = "UNKNOWN" /\ acknowledged
        BY <2>3, <3>2 DEF Retry, Retriable
      <4>2. world' = [world EXCEPT ![w].claims = @ + 1, ![w].acks = @ + 1]
        BY <2>3, <4>1 DEF Retry
      <4>3. world'[v] = [world[v] EXCEPT !.claims = @ + 1, !.acks = @ + 1]
        BY <1>0, <1>3, <4>2 DEF Worlds
      <4>4. QED
        BY <1>0, <1>3, <2>1, <4>1, <4>3 DEF VersionStep, Claim
    <3>3. QED
      BY <3>1, <3>2
  <2>4. QED
    BY <2>2, <2>3
<1>4. CASE v # w
  <2>1. State(v)' = State(v)
    BY <1>0, <1>2, <1>4, TurnedState
  <2>2. world'[v] = world[v]
    BY <1>0, <1>4 DEF Send, Retry
  <2>3. Pending(v)' \subseteq Pending(v)
    BY <1>0, <1>1, <1>4, PendingChange DEF Pends
  <2>4. QED
    BY <1>0, <2>1, <2>2, <2>3 DEF VersionStep, Idle
<1>5. QED
  BY <1>3, <1>4

LEMMA GroundingChange ==
  ASSUME VersionsInv, NEW v \in Versions, NEW d \in Deliverers,
         flight' = [flight EXCEPT ![d] = Grounded]
  PROVE  /\ Pending(v)' \subseteq Pending(v)
         /\ d \in Pending(v) => Fewer(v)
<1>1. ~Pends(Grounded, v)
  BY DEF Pends, Grounded
<1>2. QED
  BY <1>1, PendingChange DEF Fewer

LEMMA AnsweringSteps ==
  ASSUME VersionsInv, NEW v \in Versions, NEW d \in Deliverers,
         NEW result \in Results, Submit(d, result)
  PROVE  VersionStep(v)
<1> DEFINE f == [flight[d] EXCEPT !.stage = "answered", !.result = result]
<1>0. /\ flight[d] \in Flights /\ flight[d].stage = "claimed"
      /\ world \in [Versions -> Worlds]
      /\ flight' = [flight EXCEPT ![d] = f] /\ handoffs' = handoffs /\ results' = results
  BY TypesUnfolded DEF VersionsInv, Submit
<1>1. PICK w \in Existing : w = flight[d].version /\ handoffs[w].state # "DRAFT"
  BY <1>0 DEF VersionsInv, Carried
<1>2. PICK taken \in {0, 1} : /\ world' = [world EXCEPT ![w].accepted = @ + taken]
                              /\ result = "REJECTED" => taken = 0
  BY <1>1 DEF Submit
<1>3. f.version = w /\ f.stage = "answered" /\ f.result = result
  BY <1>0, <1>1 DEF Flights
<1> HIDE DEF f
<1>4. State(v)' = State(v) /\ results'[v] = results[v]
  BY <1>0, SameRowsSameState
<1>5. CASE v # w
  <2>1. Pending(v)' \subseteq Pending(v) /\ world'[v] = world[v]
    BY <1>0, <1>2, <1>3, <1>5, PendingChange DEF Pends
  <2>2. QED
    BY <1>4, <2>1 DEF VersionStep, Idle
<1>6. CASE v = w
  <2>1. d \in Pending(v)
    BY <1>0, <1>1, <1>6 DEF Pending, Pends
  <2>2. CASE result = "REJECTED"
    <3>1. world[v] \in Worlds /\ world'[v] = [world[v] EXCEPT !.accepted = @ + 0]
      BY <1>0, <1>2, <1>6, <2>2
    <3>2. world'[v] = world[v]
      BY <3>1 DEF Worlds
    <3>3. Pending(v)' \subseteq Pending(v)
      BY <1>0, <2>1, PendingChange
    <3>4. QED
      BY <1>4, <3>2, <3>3 DEF VersionStep, Idle
  <2>3. CASE result # "REJECTED"
    <3>1. Fewer(v)
      <4>1. ~Pends(f, v)
        BY <1>3, <2>3 DEF Pends
      <4>2. Pending(v)' \subseteq Pending(v) \ {d}
        BY <1>0, <4>1, PendingChange
      <4>3. QED
        BY <2>1, <4>2 DEF Fewer
    <3>2. world'[v] = [world[v] EXCEPT !.accepted = @ + taken]
      BY <1>0, <1>2, <1>6
    <3>3. State(v) # "DRAFT"
      BY <1>1, <1>6 DEF State
    <3>4. QED
      BY <1>2, <1>4, <3>1, <3>2, <3>3 DEF VersionStep, Take
  <2>4. QED
    BY <2>2, <2>3
<1>7. QED
  BY <1>5, <1>6

LEMMA FinishingSteps ==
  ASSUME VersionsInv, NEW v \in Versions, NEW d \in Deliverers,
         Finalize(d) \/ FinalizeOvertaken(d) \/ Crash(d)
  PROVE  VersionStep(v)
<1>0. /\ world' = world /\ flight' = [flight EXCEPT ![d] = Grounded]
      /\ flight[d] \in Flights /\ results \in [Versions -> [Results -> Nat]]
      /\ handoffs \in Seq(Rows) /\ clock \in Nat
      /\ \A w \in Existing : handoffs[w] \in Rows /\ w \in Versions
  BY TypesUnfolded DEF Finalize, FinalizeOvertaken, Crash, VersionsInv, HandoffTypeOK
<1>1. CASE FinalizeOvertaken(d) \/ Crash(d)
  <2>1. handoffs' = handoffs /\ results' = results
    BY <1>1 DEF FinalizeOvertaken, Crash
  <2>2. QED
    BY <1>0, <2>1, GroundingChange, SameRowsSameState DEF VersionStep, Idle
<1>2. CASE Finalize(d)
  <2>1. PICK w \in Existing, result \in Results :
          w = flight[d].version /\ result = flight[d].result
    BY <1>2 DEF Finalize, VersionsInv, Carried
  <2>2. handoffs[w].state = "SENDING" /\ flight[d].stage = "answered"
    BY <1>2, <2>1 DEF Finalize
  <2>3. Turns(w, StateOf(result))
    <3> DEFINE row == [handoffs[w] EXCEPT !.state = StateOf(result), !.updatedAt = clock]
    <3>1. StateOf(result) \in States
      BY DEF StateOf, Results, States
    <3>2. row \in Rows /\ row.state = StateOf(result)
      BY <1>0, <3>1 DEF Rows
    <3>3. handoffs' = [handoffs EXCEPT ![w] = row]
      BY <1>0, <1>2, <2>1 DEF Finalize
    <3>4. QED
      BY <3>2, <3>3 DEF Turns
  <2>4. results' = [results EXCEPT ![w][result] = @ + 1]
    BY <1>2, <2>1 DEF Finalize
  <2>5. CASE v # w
    <3>1. State(v)' = State(v) /\ results'[v] = results[v]
      BY <1>0, <2>3, <2>4, <2>5, TurnedState
    <3>2. QED
      BY <1>0, <3>1, GroundingChange DEF VersionStep, Idle
  <2>6. CASE v = w
    <3>1. State(v) = "SENDING" /\ State(v)' = StateOf(result)
      BY <2>2, <2>3, <2>6, TurnedState DEF State
    <3>2. results'[v] = [results[v] EXCEPT ![result] = @ + 1]
      BY <1>0, <2>4, <2>6
    <3>3. result = "REJECTED" => d \in Pending(v)
      BY <2>1, <2>2, <2>6 DEF Pending, Pends
    <3>4. QED
      BY <1>0, <3>1, <3>2, <3>3, GroundingChange DEF VersionStep, Resolve
  <2>7. QED
    BY <2>5, <2>6
<1>3. QED
  BY <1>1, <1>2

LEMMA ReadingSteps ==
  ASSUME VersionsInv, NEW v \in Versions, Reading
  PROVE  VersionStep(v)
<1>0. /\ \A w \in Existing : handoffs[w] \in Rows /\ w \in Versions
      /\ results \in [Versions -> [Results -> Nat]] /\ clock \in Nat
      /\ found \in [Readers -> 0..Latest] /\ Latest \in Nat
  BY TypesUnfolded DEF VersionsInv, HandoffTypeOK
<1>1. flight' = flight /\ world' = world /\ Pending(v)' = Pending(v)
  <2>1. flight' = flight /\ world' = world
    BY DEF Reading, FindExpired, SaveUnknown, ReaderFails
  <2>2. QED
    BY <2>1, SameFlightSamePending
<1>2. ASSUME handoffs' = handoffs, results' = results
      PROVE  VersionStep(v)
  BY <1>1, <1>2, SameRowsSameState DEF VersionStep, Idle
<1>3. ASSUME NEW r \in Readers, SaveUnknown(r)
      PROVE  VersionStep(v)
  <2>1. PICK w \in Existing : w = found[r]
    BY <1>0, <1>3 DEF SaveUnknown, Existing
  <2>2. handoffs[w].state \in {"SENDING", "FAILED", "UNKNOWN"}
    BY <1>0, <1>3, <2>1 DEF SaveUnknown, Protected, VersionsInv, Noticed, Rows, States
  <2>3. results' = [results EXCEPT ![w]["UNKNOWN"] = @ + 1]
    BY <1>3, <2>1 DEF SaveUnknown, ExpiredResults
  <2>4. State(v)' = IF v = w THEN "UNKNOWN" ELSE State(v)
    <3>1. CASE handoffs[w].state = "UNKNOWN"
      <4>1. handoffs' = handoffs
        BY <1>3, <2>1, <3>1 DEF SaveUnknown
      <4>2. QED
        BY <3>1, <4>1, SameRowsSameState DEF State
    <3>2. CASE handoffs[w].state # "UNKNOWN"
      <4> DEFINE row == [handoffs[w] EXCEPT !.state = "UNKNOWN", !.updatedAt = clock]
      <4>1. row \in Rows /\ row.state = "UNKNOWN"
        BY <1>0 DEF Rows, States
      <4>2. handoffs' = [handoffs EXCEPT ![w] = row]
        BY <1>3, <2>1, <3>2 DEF SaveUnknown
      <4>3. Turns(w, "UNKNOWN")
        BY <4>1, <4>2 DEF Turns
      <4>4. QED
        BY <4>3, TurnedState
    <3>3. QED
      BY <3>1, <3>2
  <2>5. CASE v # w
    <3>1. State(v)' = State(v) /\ results'[v] = results[v]
      BY <1>0, <2>3, <2>4, <2>5
    <3>2. QED
      BY <1>1, <3>1 DEF VersionStep, Idle
  <2>6. CASE v = w
    <3>1. State(v) \in {"SENDING", "FAILED", "UNKNOWN"} /\ State(v)' = "UNKNOWN"
      BY <2>2, <2>4, <2>6 DEF State
    <3>2. results'[v] = [results[v] EXCEPT !["UNKNOWN"] = @ + 1]
      BY <1>0, <2>3, <2>6
    <3>3. QED
      BY <1>1, <3>1, <3>2 DEF VersionStep, Expire
  <2>7. QED
    BY <2>5, <2>6
<1>4. ASSUME NEW r \in Readers, ReaderFails(r) \/ \E w \in Versions : FindExpired(r, w)
      PROVE  VersionStep(v)
  BY <1>2, <1>4 DEF ReaderFails, FindExpired
<1>5. QED
  BY <1>3, <1>4 DEF Reading

LEMMA DraftingSteps ==
  ASSUME VersionsInv, NEW v \in Versions, Drafting
  PROVE  VersionStep(v)
<1>0. /\ handoffs \in Seq(Rows) /\ Latest \in Nat
      /\ \A w \in Existing : handoffs[w] \in Rows /\ w \in Versions
      /\ results \in [Versions -> [Results -> Nat]]
  BY TypesUnfolded DEF VersionsInv
<1>1. flight' = flight /\ world' = world /\ Pending(v)' = Pending(v)
  <2>1. flight' = flight /\ world' = world
    BY DEF Drafting, EditRound, EndRound, StartDraft, UpdateDraft, Preview
  <2>2. QED
    BY <2>1, SameFlightSamePending
<1>2. ASSUME State(v)' = State(v), results' = results
      PROVE  VersionStep(v)
  BY <1>1, <1>2 DEF VersionStep, Idle
<1>3. CASE EditRound \/ \E w \in Versions : Preview(w)
  BY <1>2, <1>3, SameRowsSameState DEF EditRound, Preview
<1>4. CASE EndRound
  <2>1. State(v)' = State(v)
    <3>1. CASE handoffs = <<>>
      <4>1. handoffs' = <<NewDraft>>
        BY <1>4, <3>1 DEF EndRound
      <4>2. Len(handoffs) = 0 /\ Len(handoffs') = 1 /\ handoffs'[1].state = "DRAFT"
        BY <3>1, <4>1 DEF NewDraft
      <4>3. Existing = {} /\ Existing' = {1}
        BY <4>2 DEF Existing, Latest
      <4>4. QED
        BY <4>2, <4>3 DEF State
    <3>2. CASE handoffs # <<>>
      BY <1>4, <3>2, SameRowsSameState DEF EndRound
    <3>3. QED
      BY <3>1, <3>2
  <2>2. QED
    BY <1>2, <1>4, <2>1 DEF EndRound
<1>5. ASSUME NEW w \in Versions, NEW text \in BOOLEAN, UpdateDraft(w, text)
      PROVE  VersionStep(v)
  <2> DEFINE row == [handoffs[w] EXCEPT !.summary = text]
  <2>1. w \in Existing /\ handoffs[w].state = "DRAFT" /\ results' = results
    BY <1>5 DEF UpdateDraft
  <2>2. row \in Rows /\ row.state = "DRAFT"
    BY <1>0, <2>1 DEF Rows
  <2>3. handoffs' = [handoffs EXCEPT ![w] = row]
    BY <1>5 DEF UpdateDraft
  <2>4. Turns(w, "DRAFT")
    BY <2>2, <2>3 DEF Turns
  <2>5. State(v)' = State(v)
    BY <2>1, <2>4, TurnedState DEF State
  <2>6. QED
    BY <1>2, <2>1, <2>5
<1>6. CASE StartDraft
  <2>1. CASE ~(Latest > 0 /\ handoffs[Latest].state = "SENDING")
    <3>1. handoffs' = Append(handoffs, NewDraft) /\ results' = results
      BY <1>6, <2>1 DEF StartDraft
    <3>2. /\ Latest' = Latest + 1 /\ handoffs'[Latest + 1] = NewDraft
          /\ \A u \in Existing : handoffs'[u] = handoffs[u]
      BY <1>0, <3>1, RowAppended DEF Latest, Existing
    <3>3. State(v)' = State(v)
      BY <1>0, <3>2 DEF State, Existing, NewDraft
    <3>4. QED
      BY <1>2, <3>1, <3>3
  <2>2. CASE Latest > 0 /\ handoffs[Latest].state = "SENDING"
    <3> DEFINE row == [handoffs[Latest] EXCEPT !.state = "UNKNOWN"]
               h == [handoffs EXCEPT ![Latest] = row]
    <3>1. PICK w \in Existing : w = Latest
      BY <1>0, <2>2 DEF Existing
    <3>2. /\ handoffs' = Append(h, NewDraft)
          /\ results' = [results EXCEPT ![w]["UNKNOWN"] = @ + 1]
      BY <1>6, <2>2, <3>1 DEF StartDraft
    <3>3. row \in Rows /\ row.state = "UNKNOWN"
      BY <1>0, <3>1 DEF Rows, States
    <3>4. /\ h \in Seq(Rows) /\ Len(h) = Latest
          /\ \A u \in Existing : h[u] = IF u = w THEN row ELSE handoffs[u]
      BY <1>0, <3>1, <3>3, RowReplaced DEF Latest, Existing
    <3>5. /\ Latest' = Latest + 1 /\ handoffs'[Latest + 1] = NewDraft
          /\ \A u \in Existing : handoffs'[u] = h[u]
      BY <3>2, <3>4, RowAppended DEF Latest, Existing
    <3> HIDE DEF row, h
    <3>6. State(v)' = IF v = w THEN "UNKNOWN" ELSE State(v)
      <4>1. Existing' = Existing \cup {Latest + 1} /\ w # Latest + 1
        BY <1>0, <3>1, <3>5 DEF Existing
      <4>2. QED
        BY <3>3, <3>4, <3>5, <4>1 DEF State, NewDraft
    <3>7. CASE v # w
      <4>1. results'[v] = results[v]
        BY <1>0, <3>2, <3>7
      <4>2. QED
        BY <1>1, <3>6, <3>7, <4>1 DEF VersionStep, Idle
    <3>8. CASE v = w
      <4>1. results'[v] = [results[v] EXCEPT !["UNKNOWN"] = @ + 1]
        BY <1>0, <3>2, <3>8
      <4>2. State(v) = "SENDING"
        BY <2>2, <3>1, <3>8 DEF State
      <4>3. QED
        BY <1>1, <3>6, <3>8, <4>1, <4>2 DEF VersionStep, Expire
    <3>9. QED
      BY <3>7, <3>8
  <2>3. QED
    BY <2>1, <2>2
<1>7. QED
  BY <1>3, <1>4, <1>5, <1>6 DEF Drafting

LEMMA EveryStepIsAVersionStep ==
  ASSUME VersionsInv, [HandoffNext]_handoffVars, NEW v \in Versions
  PROVE  VersionStep(v)
<1>1. CASE Delivering
  BY <1>1, ClaimingSteps, AnsweringSteps, FinishingSteps DEF Delivering
<1>2. CASE (\E w \in Versions : Reply(w)) \/ ArchiveOrRestoreProject \/ Tick
           \/ UNCHANGED handoffVars
  <2>1. UNCHANGED <<handoffs, flight, world, results>>
    BY <1>2 DEF Reply, ArchiveOrRestoreProject, Tick, handoffVars
  <2>2. QED
    BY <2>1, SameRowsSameState, SameFlightSamePending DEF VersionStep, Idle
<1>3. QED
  BY <1>1, <1>2, ReadingSteps, DraftingSteps DEF HandoffNext

-----------------------------------------------------------------------------
(* The invariants of the versions.                                         *)

LEMMA UnsentStep ==
  ASSUME VersionsInv, RowsMove, [HandoffNext]_handoffVars
  PROVE  UnsentIsUntouched'
<1> SUFFICES ASSUME NEW v \in Versions, Unsent(v)'
             PROVE  world'[v] = Untouched
  BY DEF UnsentIsUntouched, Untouched
<1>1. State(v)' = "DRAFT" /\ (State(v) = "DRAFT" => world[v] = Untouched)
  BY DEF Unsent, State, VersionsInv, UnsentIsUntouched
<1>2. \A result \in Results : StateOf(result) # "DRAFT"
  BY DEF StateOf, Results
<1>3. Idle(v)
  BY <1>1, <1>2, EveryStepIsAVersionStep DEF VersionStep, Claim, Take, Resolve, Expire
<1>4. QED
  BY <1>1, <1>3 DEF Idle

\* Versions come with the end of the round.
LEMMA OpenStep ==
  ASSUME VersionsInv, [HandoffNext]_handoffVars, round'.status = "OPEN"
  PROVE  handoffs' = <<>>
<1>0. round.status = "OPEN" /\ ~EndRound
  <2>1. round \in [status : {"OPEN", "ENDED"}, content : Nat]
    BY TypesUnfolded DEF VersionsInv
  <2>2. EditRound => round'.status = round.status
    BY <2>1 DEF EditRound
  <2>3. ~EndRound
    BY <2>1 DEF EndRound
  <2>4. EditRound \/ EndRound \/ UNCHANGED round
    <3>1. CASE Drafting
      BY <3>1 DEF Drafting, StartDraft, UpdateDraft, Preview
    <3>2. CASE Delivering
      BY <3>2 DEF Delivering, Send, Retry, Submit, Finalize, FinalizeOvertaken, Crash
    <3>3. CASE Reading
      BY <3>3 DEF Reading, FindExpired, SaveUnknown, ReaderFails
    <3>4. QED
      BY <3>1, <3>2, <3>3
         DEF HandoffNext, Reply, ArchiveOrRestoreProject, Tick, handoffVars
  <2>5. QED
    BY <2>2, <2>3, <2>4
<1>1. handoffs = <<>> /\ Existing = {}
  BY <1>0 DEF VersionsInv, Existing, Latest
<1>2. CASE Drafting
  BY <1>0, <1>1, <1>2 DEF Drafting, EditRound, StartDraft, UpdateDraft, Preview
<1>3. CASE Delivering
  <2>1. ASSUME NEW d \in Deliverers PROVE ~Finalize(d)
    BY <1>1 DEF Finalize, VersionsInv, Carried
  <2>2. QED
    BY <1>1, <1>3, <2>1 DEF Delivering, Send, Retry, Submit, FinalizeOvertaken, Crash
<1>4. CASE Reading
  <2>1. ASSUME NEW r \in Readers PROVE ~SaveUnknown(r)
    <3>1. found[r] \in 0..Latest /\ Latest \in Nat
      BY TypesUnfolded DEF VersionsInv
    <3>2. QED
      BY <1>1, <3>1 DEF SaveUnknown, Existing
  <2>2. QED
    BY <1>1, <1>4, <2>1 DEF Reading, FindExpired, ReaderFails
<1>5. QED
  BY <1>1, <1>2, <1>3, <1>4
     DEF HandoffNext, Reply, ArchiveOrRestoreProject, Tick, handoffVars

LEMMA VersionsInitially ==
  ASSUME HandoffInit
  PROVE  VersionsInv
<1>1. Latest = 0 /\ Existing = {} /\ handoffs = <<>>
  BY DEF HandoffInit, Latest, Existing
<1>2. HandoffTypeOK
  <2>1. handoffs \in Seq(Rows) /\ Latest <= MaxVersions /\ 0 \in 0..MaxVersions
    BY <1>1, HandoffAssumption DEF HandoffAssumption
  <2>2. /\ preview \in [version : 0..MaxVersions, content : Nat, summary : BOOLEAN]
        /\ clock \in Nat /\ projectArchived \in BOOLEAN /\ evidence \subseteq Existing
        /\ round \in [status : {"OPEN", "ENDED"}, content : Nat]
    BY <2>1 DEF HandoffInit, Unseen
  <2>3. /\ results \in [Versions -> [Results -> Nat]]
        /\ world \in [Versions -> [claims : Nat, acks : Nat, accepted : Nat]]
        /\ found \in [Readers -> 0..Latest]
    BY <1>1 DEF HandoffInit
  <2>4. flight \in [Deliverers -> [stage : {"idle", "claimed", "answered"},
                                   version : 0..Latest, result : Results \cup {"none"}]]
    BY <1>1 DEF HandoffInit, Grounded
  <2>5. QED
    BY <2>1, <2>2, <2>3, <2>4 DEF HandoffTypeOK, Rows
<1>3. Carried /\ Noticed /\ UnsentIsUntouched /\ Superseded
  BY <1>1 DEF HandoffInit, Carried, Grounded, Noticed, UnsentIsUntouched, Untouched,
              Superseded
<1>4. QED
  BY <1>1, <1>2, <1>3 DEF VersionsInv

LEMMA VersionsInvHolds == HandoffSpec => []VersionsInv
<1>1. HandoffInit => VersionsInv
  BY VersionsInitially
<1>2. VersionsInv /\ [HandoffNext]_handoffVars => VersionsInv'
  <2> SUFFICES ASSUME VersionsInv, [HandoffNext]_handoffVars
               PROVE  VersionsInv'
    OBVIOUS
  <2>1. RowsMove
    BY StepMovesRows
  <2>2. HandoffTypeOK' /\ Carried' /\ Noticed' /\ UnsentIsUntouched' /\ Superseded'
    BY <2>1, HandoffTypeStep, CarriedStep, NoticedStep, UnsentStep, SupersededStep
  <2>3. round'.status = "OPEN" => handoffs' = <<>>
    BY OpenStep
  <2>4. QED
    BY <2>2, <2>3 DEF VersionsInv
<1>3. QED
  BY <1>1, <1>2, PTL DEF HandoffSpec

\* Every variable of the handoff keeps its type, for any number of deliverers,
\* readers and versions.
THEOREM HandoffTypeCorrect == HandoffSpec => []HandoffTypeOK
<1>1. VersionsInv => HandoffTypeOK
  BY DEF VersionsInv
<1>2. QED
  BY <1>1, VersionsInvHolds, PTL

\* Only the latest version is ever drafted, sent or failed.
THEOREM OnlyTheLatestIsActiveHolds == HandoffSpec => []OnlyTheLatestIsActive
<1>1. VersionsInv => OnlyTheLatestIsActive
  BY DEF VersionsInv, Superseded, OnlyTheLatestIsActive, Active
<1>2. QED
  BY <1>1, VersionsInvHolds, PTL

\* As long as no draft is open, the interview says what was handed off last.
THEOREM InterviewMatchesHandoffHolds == HandoffSpec => []InterviewMatchesHandoff
<1>1. HandoffInit => InterviewMatchesHandoff
  BY DEF HandoffInit, InterviewMatchesHandoff, Latest
<1>2. VersionsInv /\ InterviewMatchesHandoff /\ [HandoffNext]_handoffVars
      => InterviewMatchesHandoff'
  <2> SUFFICES ASSUME VersionsInv, InterviewMatchesHandoff, [HandoffNext]_handoffVars,
                      Latest' > 0, handoffs'[Latest'].state # "DRAFT"
               PROVE  handoffs'[Latest'].content = round'.content
    BY DEF InterviewMatchesHandoff
  <2>0. RowsMove /\ Latest \in Nat /\ Latest' \in {Latest, Latest + 1}
    BY StepMovesRows, TypesUnfolded DEF VersionsInv, RowsMove
  <2>1. Latest' = Latest
    BY <2>0 DEF RowsMove, NewDraft
  <2>2. /\ Moves(Latest) /\ Latest \in Existing
        /\ handoffs[Latest].state # "DRAFT" => handoffs[Latest].content = round.content
    BY <2>0, <2>1 DEF RowsMove, Existing, InterviewMatchesHandoff
  <2>3. ~EditRound
    <3>1. SUFFICES ASSUME EditRound PROVE FALSE
      OBVIOUS
    <3>2. handoffs' = handoffs /\ handoffs # <<>>
      BY <2>1, <3>1 DEF EditRound, Latest
    <3>3. PICK v \in Existing : handoffs[v].state = "DRAFT"
      BY <3>1, <3>2 DEF EditRound, EditableRound, VersionsInv
    <3>4. v = Latest
      BY <3>3 DEF VersionsInv, Superseded
    <3>5. QED
      BY <2>1, <3>2, <3>3, <3>4
  <2>4. round'.content = round.content
    <3>1. round \in [status : {"OPEN", "ENDED"}, content : Nat]
      BY TypesUnfolded DEF VersionsInv
    <3>2. EndRound => round'.content = round.content
      BY <3>1 DEF EndRound
    <3>3. EndRound \/ UNCHANGED round
      <4>1. CASE Drafting
        BY <2>3, <4>1 DEF Drafting, StartDraft, UpdateDraft, Preview
      <4>2. CASE Delivering
        BY <4>2 DEF Delivering, Send, Retry, Submit, Finalize, FinalizeOvertaken, Crash
      <4>3. CASE Reading
        BY <4>3 DEF Reading, FindExpired, SaveUnknown, ReaderFails
      <4>4. QED
        BY <4>1, <4>2, <4>3
           DEF HandoffNext, Reply, ArchiveOrRestoreProject, Tick, handoffVars
    <3>4. QED
      BY <3>2, <3>3
  <2>5. QED
    BY <2>1, <2>2, <2>4 DEF Moves
<1>3. QED
  BY <1>1, <1>2, VersionsInvHolds, PTL DEF HandoffSpec

-----------------------------------------------------------------------------
(* The account of one version: what the Customer may hold is backed by     *)
(* claims, and claims by acknowledged risks and recorded refusals.  A      *)
(* reader may overwrite FAILED by UNKNOWN, which only makes a retry harder. *)

AccountInv(v) ==
  /\ world[v].accepted + results[v]["REJECTED"] + Cardinality(Pending(v))
       <= world[v].claims
  /\ world[v].claims + (IF State(v) = "FAILED" THEN 1 ELSE 0)
       <= (IF State(v) = "DRAFT" THEN 0 ELSE 1) + world[v].acks
          + results[v]["REJECTED"]

LEMMA PendingCounted ==
  ASSUME NEW v \in Versions
  PROVE  /\ IsFiniteSet(Pending(v)) /\ Cardinality(Pending(v)) \in Nat
         /\ IsFiniteSet(Pending(v)') /\ Cardinality(Pending(v)') \in Nat
         /\ Pending(v)' \subseteq Pending(v)
              => Cardinality(Pending(v)') <= Cardinality(Pending(v))
         /\ Fewer(v) => Cardinality(Pending(v)') + 1 <= Cardinality(Pending(v))
         /\ OneMore(v) => Cardinality(Pending(v)') <= Cardinality(Pending(v)) + 1
<1>1. /\ IsFiniteSet(Pending(v)) /\ Cardinality(Pending(v)) \in Nat
      /\ IsFiniteSet(Pending(v)') /\ Cardinality(Pending(v)') \in Nat
  <2>1. Pending(v) \subseteq Deliverers /\ Pending(v)' \subseteq Deliverers
    BY DEF Pending
  <2>2. QED
    BY <2>1, HandoffAssumption, FS_Subset, FS_CardinalityType DEF HandoffAssumption
<1>2. Pending(v)' \subseteq Pending(v)
        => Cardinality(Pending(v)') <= Cardinality(Pending(v))
  BY <1>1, FS_Subset
<1>3. ASSUME NEW d \in Pending(v), Pending(v)' \subseteq Pending(v) \ {d}
      PROVE  Cardinality(Pending(v)') + 1 <= Cardinality(Pending(v))
  <2>1. /\ IsFiniteSet(Pending(v) \ {d})
        /\ Cardinality(Pending(v) \ {d}) = Cardinality(Pending(v)) - 1
    BY <1>1, FS_RemoveElement
  <2>2. Cardinality(Pending(v)') <= Cardinality(Pending(v) \ {d})
    BY <1>3, <2>1, FS_Subset
  <2>3. QED
    BY <1>1, <2>1, <2>2
<1>4. ASSUME NEW d \in Deliverers, Pending(v)' \subseteq Pending(v) \cup {d}
      PROVE  Cardinality(Pending(v)') <= Cardinality(Pending(v)) + 1
  <2>1. /\ IsFiniteSet(Pending(v) \cup {d})
        /\ Cardinality(Pending(v) \cup {d})
             = IF d \in Pending(v) THEN Cardinality(Pending(v))
               ELSE Cardinality(Pending(v)) + 1
    BY <1>1, FS_AddElement
  <2>2. Cardinality(Pending(v)') <= Cardinality(Pending(v) \cup {d})
    BY <1>4, <2>1, FS_Subset
  <2>3. QED
    BY <1>1, <2>1, <2>2
<1>5. QED
  BY <1>1, <1>2, <1>3, <1>4 DEF Fewer, OneMore

LEMMA ClaimIsCounted ==
  ASSUME NEW v \in Versions, world[v] \in Worlds, Claim(v),
         State(v) = "DRAFT" => world[v].claims = 0
  PROVE  /\ world'[v].accepted = world[v].accepted
         /\ world'[v].claims = world[v].claims + 1
         /\ State(v) \in {"DRAFT", "FAILED"} => world'[v].acks = world[v].acks
         /\ State(v) \notin {"DRAFT", "FAILED"} => world'[v].acks = world[v].acks + 1
<1>1. CASE State(v) = "DRAFT" /\ world'[v] = [world[v] EXCEPT !.claims = 1]
  BY <1>1 DEF Worlds
<1>2. CASE State(v) = "FAILED" /\ world'[v] = [world[v] EXCEPT !.claims = @ + 1]
  BY <1>2 DEF Worlds
<1>3. CASE /\ State(v) = "UNKNOWN"
           /\ world'[v] = [world[v] EXCEPT !.claims = @ + 1, !.acks = @ + 1]
  BY <1>3 DEF Worlds
<1>4. QED
  BY <1>1, <1>2, <1>3 DEF Claim

LEMMA AccountStep ==
  ASSUME VersionsInv, NEW v \in Versions, AccountInv(v), VersionStep(v)
  PROVE  AccountInv(v)'
<1> DEFINE p == Cardinality(Pending(v))
           q == Cardinality(Pending(v)')
<1>0. /\ world[v] \in Worlds /\ results[v] \in [Results -> Nat]
      /\ results[v]["REJECTED"] \in Nat
      /\ p \in Nat /\ q \in Nat
      /\ State(v) = "DRAFT" => world[v].claims = 0
  BY TypesUnfolded, PendingCounted
     DEF Results, VersionsInv, UnsentIsUntouched, Unsent, Untouched, State
<1>1. /\ Pending(v)' \subseteq Pending(v) => q <= p
      /\ Fewer(v) => q + 1 <= p
      /\ OneMore(v) => q <= p + 1
  BY PendingCounted
<1>2. AccountInv(v)' <=>
        /\ world'[v].accepted + results'[v]["REJECTED"] + q <= world'[v].claims
        /\ world'[v].claims + (IF State(v)' = "FAILED" THEN 1 ELSE 0)
             <= (IF State(v)' = "DRAFT" THEN 0 ELSE 1) + world'[v].acks
                + results'[v]["REJECTED"]
  BY DEF AccountInv
<1>3. /\ world[v].accepted + results[v]["REJECTED"] + p <= world[v].claims
      /\ world[v].claims + (IF State(v) = "FAILED" THEN 1 ELSE 0)
           <= (IF State(v) = "DRAFT" THEN 0 ELSE 1) + world[v].acks
              + results[v]["REJECTED"]
  BY DEF AccountInv
<1> HIDE DEF p, q
<1>4. CASE Idle(v)
  BY <1>0, <1>1, <1>2, <1>3, <1>4 DEF Idle, Worlds
<1>5. CASE Claim(v)
  <2>0. /\ State(v)' = "SENDING" /\ results'[v] = results[v] /\ q <= p + 1
    BY <1>1, <1>5 DEF Claim
  <2>1. /\ world'[v].accepted = world[v].accepted
        /\ world'[v].claims = world[v].claims + 1
        /\ State(v) \in {"DRAFT", "FAILED"} => world'[v].acks = world[v].acks
        /\ State(v) \notin {"DRAFT", "FAILED"} => world'[v].acks = world[v].acks + 1
    BY <1>0, <1>5, ClaimIsCounted
  <2>2. world[v].claims \in Nat /\ world[v].acks \in Nat /\ world[v].accepted \in Nat
    BY <1>0 DEF Worlds
  <2>3. QED
    BY <1>0, <1>2, <1>3, <2>0, <2>1, <2>2
<1>6. CASE Take(v)
  BY <1>0, <1>1, <1>2, <1>3, <1>6 DEF Take, Worlds
<1>7. ASSUME NEW result \in Results, Resolve(v, result)
      PROVE  AccountInv(v)'
  <2>1. CASE result = "REJECTED"
    <3>1. results'[v]["REJECTED"] = results[v]["REJECTED"] + 1 /\ State(v)' = "FAILED"
      BY <1>0, <1>7, <2>1 DEF Resolve, StateOf
    <3>2. QED
      BY <1>0, <1>1, <1>2, <1>3, <1>7, <2>1, <3>1 DEF Resolve, Worlds
  <2>2. CASE result # "REJECTED"
    <3>1. /\ results'[v]["REJECTED"] = results[v]["REJECTED"]
          /\ State(v)' \in {"SENT", "UNKNOWN"}
      BY <1>0, <1>7, <2>2 DEF Resolve, StateOf, Results
    <3>2. QED
      BY <1>0, <1>1, <1>2, <1>3, <1>7, <2>2, <3>1 DEF Resolve, Worlds
  <2>3. QED
    BY <2>1, <2>2
<1>8. CASE Expire(v)
  <2>1. results'[v]["REJECTED"] = results[v]["REJECTED"] /\ q <= p
    BY <1>0, <1>1, <1>8 DEF Expire, Results
  <2>2. QED
    BY <1>0, <1>2, <1>3, <1>8, <2>1 DEF Expire, Worlds
<1>9. QED
  BY <1>4, <1>5, <1>6, <1>7, <1>8 DEF VersionStep

\* The Customer gets one version more than once only as often as the employee
\* accepted that risk.
THEOREM NoUnacknowledgedDuplicateHolds == HandoffSpec => []NoUnacknowledgedDuplicate
<1> DEFINE Accounts == \A v \in Versions : AccountInv(v)
<1>1. HandoffInit => Accounts
  <2> SUFFICES ASSUME HandoffInit, NEW v \in Versions
               PROVE  AccountInv(v)
    OBVIOUS
  <2>1. Pending(v) = {}
    BY DEF HandoffInit, Pending, Pends, Grounded
  <2>2. Cardinality(Pending(v)) = 0
    BY <2>1, FS_EmptySet
  <2>3. /\ State(v) = "DRAFT" /\ results[v]["REJECTED"] = 0
        /\ world[v] = [claims |-> 0, acks |-> 0, accepted |-> 0]
    BY DEF HandoffInit, State, Existing, Latest, Results
  <2>4. QED
    BY <2>2, <2>3 DEF AccountInv
<1>2. VersionsInv /\ Accounts /\ [HandoffNext]_handoffVars => Accounts'
  BY AccountStep, EveryStepIsAVersionStep DEF Versions
<1>3. VersionsInv /\ Accounts => NoUnacknowledgedDuplicate
  <2> SUFFICES ASSUME VersionsInv, Accounts, NEW v \in Versions
               PROVE  world[v].accepted <= 1 + world[v].acks
    BY DEF NoUnacknowledgedDuplicate
  <2>1. /\ world[v] \in Worlds /\ results[v]["REJECTED"] \in Nat
        /\ Cardinality(Pending(v)) \in Nat
    BY TypesUnfolded, PendingCounted DEF VersionsInv, Results
  <2>2. QED
    BY <2>1 DEF AccountInv, Worlds
<1> HIDE DEF Accounts
<1>4. QED
  BY <1>1, <1>2, <1>3, VersionsInvHolds, PTL DEF HandoffSpec

\* No claim is without a trace in the history of its version.
THEOREM EveryClaimIsRecordedHolds == HandoffSpec => []EveryClaimIsRecorded
<1> DEFINE Sum(v) == results[v]["ACCEPTED"] + results[v]["REJECTED"]
                     + results[v]["UNKNOWN"]
           Recorded(v) == world[v].claims
                            <= Sum(v) + (IF State(v) = "SENDING" THEN 1 ELSE 0)
           AllRecorded == \A v \in Versions : Recorded(v)
<1>1. HandoffInit => AllRecorded
  BY DEF HandoffInit, Results
<1>2. ASSUME VersionsInv, NEW v \in Versions, Recorded(v), VersionStep(v)
      PROVE  Recorded(v)'
  <2>0. /\ world[v] \in Worlds /\ results[v] \in [Results -> Nat]
        /\ Sum(v) \in Nat
        /\ State(v) = "DRAFT" => world[v].claims = 0
    BY <1>2, TypesUnfolded
       DEF Results, VersionsInv, UnsentIsUntouched, Unsent, Untouched, State
  <2>1. ASSUME NEW result \in Results,
               results'[v] = [results[v] EXCEPT ![result] = @ + 1]
        PROVE  Sum(v)' = Sum(v) + 1
    <3>1. /\ results[v]["ACCEPTED"] \in Nat /\ results[v]["REJECTED"] \in Nat
          /\ results[v]["UNKNOWN"] \in Nat
      BY <2>0 DEF Results
    <3>2. QED
      BY <2>0, <2>1, <3>1 DEF Results
  <2>2. results'[v] = results[v] => Sum(v)' = Sum(v)
    OBVIOUS
  <2>3. Recorded(v)' <=>
          world'[v].claims <= Sum(v)' + (IF State(v)' = "SENDING" THEN 1 ELSE 0)
    OBVIOUS
  <2>4. world[v].claims <= Sum(v) + (IF State(v) = "SENDING" THEN 1 ELSE 0)
    BY <1>2
  <2> HIDE DEF Sum, Recorded
  <2>5. CASE Idle(v)
    BY <2>2, <2>3, <2>4, <2>5 DEF Idle
  <2>6. CASE Claim(v)
    <3>1. /\ world'[v].claims = world[v].claims + 1 /\ world[v].claims \in Nat
          /\ State(v) # "SENDING" /\ State(v)' = "SENDING"
      BY <2>0, <2>6, ClaimIsCounted DEF Claim, Worlds
    <3>2. Sum(v)' = Sum(v)
      BY <2>2, <2>6 DEF Claim
    <3>3. QED
      BY <2>0, <2>3, <2>4, <3>1, <3>2
  <2>7. CASE Take(v)
    BY <2>0, <2>2, <2>3, <2>4, <2>7 DEF Take, Worlds
  <2>8. ASSUME NEW result \in Results, Resolve(v, result)
        PROVE  Recorded(v)'
    <3>1. Sum(v)' = Sum(v) + 1 /\ State(v) = "SENDING" /\ State(v)' # "SENDING"
      BY <2>1, <2>8 DEF Resolve, StateOf, Results
    <3>2. QED
      BY <2>0, <2>3, <2>4, <2>8, <3>1 DEF Resolve, Worlds
  <2>9. CASE Expire(v)
    <3>1. Sum(v)' = Sum(v) + 1 /\ State(v)' # "SENDING"
      BY <2>1, <2>9 DEF Expire, Results
    <3>2. QED
      BY <2>0, <2>3, <2>4, <2>9, <3>1 DEF Expire, Worlds
  <2>10. QED
    BY <1>2, <2>5, <2>6, <2>7, <2>8, <2>9 DEF VersionStep
<1>3. VersionsInv /\ AllRecorded /\ [HandoffNext]_handoffVars => AllRecorded'
  BY <1>2, EveryStepIsAVersionStep DEF Versions
<1>4. VersionsInv /\ AllRecorded => EveryClaimIsRecorded
  BY TypesUnfolded DEF EveryClaimIsRecorded, VersionsInv, State
<1> HIDE DEF AllRecorded
<1>5. QED
  BY <1>1, <1>3, <1>4, VersionsInvHolds, PTL DEF HandoffSpec

-----------------------------------------------------------------------------
(* FollowUpPage: what is on its way, and the timer that polls.              *)

LoadRows == [kind : LoadKinds, state : ShownStates \cup {None}]
Inputs == BOOLEAN \cup (1..MaxDraftVersion) \cup Retries
          \cup [preview : 1..MaxDraftVersion, acknowledged : 0..MaxAttempts]
PageRequests == [input : Inputs,
                 stage : {"sent", "claimed", "done", "accepted", "reported"},
                 result : ShownStates \cup (1..MaxDraftVersion) \cup {None}]

\* What the answer to a command brings.
Brings(kind, request) ==
  request.stage = "done" =>
    \/ kind \in {"save-settings", "save-draft"} /\ request.result \in ShownStates
    \/ kind = "preview" /\ request.result \in 1..MaxDraftVersion
GoodRequests(kind) == {request \in PageRequests : Brings(kind, request)}

RequestsAreGood ==
  /\ DOMAIN requests = Kinds
  /\ \A kind \in Kinds : requests[kind] \in GoodRequests(kind) \cup {None}

FollowUpPageInv ==
  /\ FollowUpPageTypeOK
  /\ RequestsAreGood
  /\ SendingIsWatched

Polls == \E i \in DOMAIN loads : loads[i].kind = "poll"

\* A request for the state is made, and watches the delivery if it is a poll.
LEMMA LoadMade ==
  ASSUME loads \in Seq(LoadRows), NEW kind \in LoadKinds, Load(kind)
  PROVE  /\ loads' \in Seq(LoadRows)
         /\ Polls \/ kind = "poll" => Polls'
<1>1. NewLoad(kind) \in LoadRows
  BY DEF NewLoad, LoadRows
<1>2. loads' = Append(loads, NewLoad(kind)) /\ NewLoad(kind).kind = kind
  BY DEF Load, NewLoad
<1>3. /\ loads' \in Seq(LoadRows) /\ Len(loads') = Len(loads) + 1
      /\ \A j \in 1..Len(loads) : loads'[j] = loads[j]
      /\ loads'[Len(loads) + 1] = NewLoad(kind)
  BY <1>1, <1>2, AppendProperties
<1>4. Len(loads) \in Nat /\ DOMAIN loads = 1..Len(loads) /\ DOMAIN loads' = 1..Len(loads) + 1
  BY <1>3, LenProperties
<1>5. ASSUME Polls
      PROVE  Polls'
  <2>1. PICK j \in DOMAIN loads : loads[j].kind = "poll"
    BY <1>5 DEF Polls
  <2>2. j \in DOMAIN loads' /\ loads'[j].kind = "poll"
    BY <1>3, <1>4, <2>1
  <2>3. QED
    BY <2>2 DEF Polls
<1>6. ASSUME kind = "poll"
      PROVE  Polls'
  <2>1. Len(loads) + 1 \in DOMAIN loads' /\ loads'[Len(loads) + 1].kind = "poll"
    BY <1>2, <1>3, <1>4, <1>6
  <2>2. QED
    BY <2>1 DEF Polls
<1>7. QED
  BY <1>3, <1>5, <1>6

\* A request that ends leaves the others.
LEMMA LoadEnded ==
  ASSUME loads \in Seq(LoadRows), NEW i \in DOMAIN loads, loads' = RemoveAt(loads, i)
  PROVE  /\ loads' \in Seq(LoadRows)
         /\ loads[i].kind # "poll" /\ Polls => Polls'
<1> DEFINE before == SubSeq(loads, 1, i - 1)
           after == SubSeq(loads, i + 1, Len(loads))
<1>1. i \in 1..Len(loads) /\ Len(loads) \in Nat /\ DOMAIN loads = 1..Len(loads)
  BY LenProperties
<1>2. /\ before \in Seq(LoadRows) /\ Len(before) = i - 1
      /\ \A j \in 1..i - 1 : before[j] = loads[j]
  BY <1>1, SubSeqProperties
<1>3. /\ after \in Seq(LoadRows) /\ Len(after) = Len(loads) - i
      /\ \A j \in 1..Len(loads) - i : after[j] = loads[i + j]
  BY <1>1, SubSeqProperties
<1> HIDE DEF before, after
<1>4. /\ loads' \in Seq(LoadRows) /\ Len(loads') = Len(before) + Len(after)
      /\ \A j \in 1..Len(before) + Len(after) :
           loads'[j] = IF j <= Len(before) THEN before[j] ELSE after[j - Len(before)]
  <2>1. loads' = before \o after
    BY DEF RemoveAt, before, after
  <2>2. /\ before \o after \in Seq(LoadRows)
        /\ Len(before \o after) = Len(before) + Len(after)
        /\ \A j \in 1..Len(before) + Len(after) :
             (before \o after)[j]
               = IF j <= Len(before) THEN before[j] ELSE after[j - Len(before)]
    BY <1>2, <1>3, ConcatProperties
  <2>3. QED
    BY <2>1, <2>2
<1>5. DOMAIN loads' = 1..Len(loads) - 1
  BY <1>1, <1>2, <1>3, <1>4, LenProperties
<1>6. ASSUME loads[i].kind # "poll", Polls
      PROVE  Polls'
  <2>1. PICK j \in DOMAIN loads : loads[j].kind = "poll"
    BY <1>6 DEF Polls
  <2>2. CASE j < i
    <3>1. j \in DOMAIN loads' /\ loads'[j] = loads[j]
      BY <1>1, <1>2, <1>3, <1>4, <1>5, <2>2
    <3>2. QED
      BY <2>1, <3>1 DEF Polls
  <2>3. CASE j > i
    <3>1. j - 1 \in 1..Len(loads) - 1 /\ loads'[j - 1] = after[(j - 1) - (i - 1)]
      BY <1>1, <1>2, <1>3, <1>4, <2>3
    <3>2. after[(j - 1) - (i - 1)] = loads[j]
      <4>1. (j - 1) - (i - 1) = j - i /\ j - i \in 1..Len(loads) - i /\ i + (j - i) = j
        BY <1>1, <2>3
      <4>2. QED
        BY <1>3, <4>1
    <3>3. QED
      BY <1>5, <2>1, <3>1, <3>2 DEF Polls
  <2>4. j # i
    BY <1>6, <2>1
  <2>5. QED
    BY <1>1, <2>2, <2>3, <2>4
<1>7. QED
  BY <1>4, <1>6

\* A page that is Applied a state goes on asking exactly when it has to.
LEMMA AppliedIsWatched ==
  ASSUME NEW p \in Components, NEW state \in ShownStates
  PROVE  /\ Applied(p, state) \in Components /\ Reset(p, state) \in Components
         /\ Applied(p, state).shown = state /\ Reset(p, state).shown = state
         /\ Applied(p, state).timer = (state.state = "SENDING")
         /\ Reset(p, state).timer = (state.state = "SENDING")
         /\ Applied(p, state).view = p.view /\ Reset(p, state).view = p.view
<1>1. Applied(p, state) \in Components
  BY DEF Applied, Components
<1>2. /\ Applied(p, state).shown = state /\ Applied(p, state).view = p.view
      /\ Applied(p, state).timer = (state.state = "SENDING")
  BY DEF Applied, Components
<1>3. QED
  BY <1>1, <1>2 DEF Reset, Components

\* What is to be shown of a step.
LEMMA StepKeepsWatch ==
  ASSUME FollowUpPageInv,
         pageMode' = pageMode, elsewhere' \in 0..MaxElsewhere, server' \in Servers,
         component' \in Components, component'.view = "ready" => component'.shown \in ShownStates,
         loads' \in Seq(LoadRows), RequestsAreGood',
         (component'.shown # None /\ component'.shown.state = "SENDING")
           => component'.timer \/ Polls'
  PROVE  FollowUpPageInv'
<1>1. SendingIsWatched'
  BY DEF SendingIsWatched, Polls
<1>2. FollowUpPageTypeOK'
  BY DEF FollowUpPageInv, FollowUpPageTypeOK, RequestsAreGood, GoodRequests, PageRequests,
         LoadRows, Ready
<1>3. QED
  BY <1>1, <1>2 DEF FollowUpPageInv

LEMMA PageIsWatched ==
  ASSUME FollowUpPageInv
  PROVE  /\ server \in Servers /\ component \in Components /\ loads \in Seq(LoadRows)
         /\ elsewhere \in 0..MaxElsewhere
         /\ Ready => component.shown \in ShownStates
         /\ component.view = "ready" => component.shown \in ShownStates
         /\ (component.shown # None /\ component.shown.state = "SENDING")
              => component.timer \/ Polls
BY DEF FollowUpPageInv, FollowUpPageTypeOK, LoadRows, Ready, Components, SendingIsWatched,
       Polls

\* The page alone changes, and not what it shows.
LEMMA TurnKeepsWatch ==
  ASSUME FollowUpPageInv, NEW p \in Components, Turn(p),
         p.shown = component.shown, p.timer = component.timer, p.view = component.view
  PROVE  FollowUpPageInv'
<1>1. /\ component' = p /\ UNCHANGED <<server, pageMode, loads, requests, elsewhere>>
  BY DEF Turn
<1>2. RequestsAreGood' /\ Polls' = Polls
  BY <1>1 DEF FollowUpPageInv, RequestsAreGood, Polls
<1>3. QED
  BY <1>1, <1>2, PageIsWatched, StepKeepsWatch

\* A command is sent.
LEMMA BeginKeepsWatch ==
  ASSUME FollowUpPageInv, NEW kind \in Kinds, NEW input \in Inputs, Begin(kind, input)
  PROVE  FollowUpPageInv'
<1>1. /\ component' = [component EXCEPT !.error = FALSE]
      /\ requests' = [requests EXCEPT
                        ![kind] = [input |-> input, stage |-> "sent", result |-> None]]
      /\ UNCHANGED <<server, pageMode, loads, elsewhere>>
  BY DEF Begin
<1>2. /\ component' \in Components /\ component'.shown = component.shown
      /\ component'.timer = component.timer /\ component'.view = component.view
  BY <1>1, PageIsWatched DEF Components
<1>3. [input |-> input, stage |-> "sent", result |-> None] \in GoodRequests(kind)
  BY DEF GoodRequests, PageRequests, Brings
<1>4. RequestsAreGood'
  BY <1>1, <1>3 DEF FollowUpPageInv, RequestsAreGood
<1>5. Polls' = Polls
  BY <1>1 DEF Polls
<1>6. QED
  BY <1>1, <1>2, <1>4, <1>5, PageIsWatched, StepKeepsWatch

\* What the Owner does to the page.
LEMMA OwnerKeepsWatch ==
  ASSUME FollowUpPageInv,
         \/ EditDraft \/ SaveDraft \/ PreviewPing \/ CancelPreview \/ SendPing
         \/ OpenRetryConfirmation \/ CancelRetry \/ RetryPing
         \/ \E enabled \in BOOLEAN : SaveSettings(enabled)
  PROVE  FollowUpPageInv'
<1>1. CASE EditDraft
  <2> DEFINE p == [component EXCEPT !.dirty = TRUE, !.preview = None]
  <2>1. /\ p \in Components /\ p.shown = component.shown /\ p.timer = component.timer
        /\ p.view = component.view
    BY PageIsWatched DEF Components
  <2>2. Turn(p)
    BY <1>1 DEF EditDraft
  <2> QED
    BY <2>1, <2>2, TurnKeepsWatch
<1>2. CASE SaveDraft
  <2>1. component.shown.version \in Inputs
    BY <1>2, PageIsWatched DEF SaveDraft, Usable, ShownStates, Inputs
  <2> QED
    BY <1>2, <2>1, BeginKeepsWatch DEF SaveDraft, Kinds
<1>3. CASE PreviewPing
  <2>1. component.shown.version \in Inputs
    BY <1>3, PageIsWatched DEF PreviewPing, Usable, ShownStates, Inputs
  <2> QED
    BY <1>3, <2>1, BeginKeepsWatch DEF PreviewPing, Kinds
<1>4. CASE CancelPreview
  <2> DEFINE p == [component EXCEPT !.preview = None]
  <2>1. /\ p \in Components /\ p.shown = component.shown /\ p.timer = component.timer
        /\ p.view = component.view
    BY PageIsWatched DEF Components
  <2>2. Turn(p)
    BY <1>4 DEF CancelPreview
  <2> QED
    BY <2>1, <2>2, TurnKeepsWatch
<1>5. CASE SendPing
  <2> DEFINE input == [preview |-> component.preview,
                       acknowledged |-> IF component.shown.state = "UNKNOWN"
                                        THEN component.shown.attempt ELSE 0]
  <2>1. component.preview \in 1..MaxDraftVersion
    BY <1>5, PageIsWatched DEF SendPing, Components
  <2>2. component.shown.attempt \in 0..MaxAttempts
    BY <1>5, PageIsWatched DEF SendPing, Usable, ShownStates
  <2>3. 0 \in 0..MaxAttempts
    BY FollowUpPageAssumption
  <2>4. input \in Inputs
    BY <2>1, <2>2, <2>3 DEF Inputs
  <2>5. Begin("send", input)
    BY <1>5 DEF SendPing
  <2> QED
    BY <2>4, <2>5, BeginKeepsWatch DEF Kinds
<1>6. CASE OpenRetryConfirmation
  <2> DEFINE retry == [attempt |-> component.shown.attempt, state |-> component.shown.state]
             p == [component EXCEPT !.retry = retry]
  <2>1. retry \in Retries
    BY <1>6, PageIsWatched DEF OpenRetryConfirmation, Usable, ShownStates, Retries
  <2>2. /\ p \in Components /\ p.shown = component.shown /\ p.timer = component.timer
        /\ p.view = component.view
    BY <2>1, PageIsWatched DEF Components
  <2>3. Turn(p)
    BY <1>6 DEF OpenRetryConfirmation
  <2> QED
    BY <2>2, <2>3, TurnKeepsWatch
<1>7. CASE CancelRetry
  <2> DEFINE p == [component EXCEPT !.retry = None]
  <2>1. /\ p \in Components /\ p.shown = component.shown /\ p.timer = component.timer
        /\ p.view = component.view
    BY PageIsWatched DEF Components
  <2>2. Turn(p)
    BY <1>7 DEF CancelRetry
  <2> QED
    BY <2>1, <2>2, TurnKeepsWatch
<1>8. CASE RetryPing
  <2>1. component.retry \in Inputs
    BY <1>8, PageIsWatched DEF RetryPing, Components, Inputs
  <2> QED
    BY <1>8, <2>1, BeginKeepsWatch DEF RetryPing, Kinds
<1>9. ASSUME NEW enabled \in BOOLEAN, SaveSettings(enabled)
      PROVE  FollowUpPageInv'
  BY <1>9, BeginKeepsWatch DEF SaveSettings, Kinds, Inputs
<1> QED
  BY <1>1, <1>2, <1>3, <1>4, <1>5, <1>6, <1>7, <1>8, <1>9

\* Loading again, and what the page around it has learned of the Project.
LEMMA ReloadKeepsWatch ==
  ASSUME FollowUpPageInv, Reload \/ ArchivedChanges \/ PollTimerFires
  PROVE  FollowUpPageInv'
<1> USE PageIsWatched
<1>1. RequestsAreGood'
  BY DEF FollowUpPageInv, RequestsAreGood, Reload, ArchivedChanges, PollTimerFires
<1>2. /\ UNCHANGED <<server, pageMode, elsewhere>>
      /\ \/ UNCHANGED loads
         \/ \E kind \in LoadKinds : Load(kind)
  BY DEF Reload, ArchivedChanges, PollTimerFires, LoadKinds
<1>3. loads' \in Seq(LoadRows) /\ (Polls => Polls')
  <2>1. CASE UNCHANGED loads
    BY <2>1 DEF Polls
  <2>2. ASSUME NEW kind \in LoadKinds, Load(kind)
        PROVE  loads' \in Seq(LoadRows) /\ (Polls => Polls')
    BY <2>2, LoadMade
  <2> QED
    BY <1>2, <2>1, <2>2
<1>4. CASE Reload
  <2>1. \/ component' = component
        \/ component' = [component EXCEPT !.view = "loading"]
    BY <1>4 DEF Reload
  <2>2. /\ component' \in Components /\ component'.shown = component.shown
        /\ component'.timer = component.timer
        /\ component'.view \in {component.view, "loading"}
    BY <2>1 DEF Components
  <2> QED
    BY <1>1, <1>2, <1>3, <2>2, StepKeepsWatch
<1>5. CASE ArchivedChanges
  <2>1. \/ component' = [component EXCEPT !.archived = TRUE, !.preview = None]
        \/ component' = [component EXCEPT !.archived = FALSE, !.view = "loading"]
    BY <1>5 DEF ArchivedChanges
  <2>2. /\ component' \in Components /\ component'.shown = component.shown
        /\ component'.timer = component.timer
        /\ component'.view \in {component.view, "loading"}
    BY <2>1 DEF Components
  <2> QED
    BY <1>1, <1>2, <1>3, <2>2, StepKeepsWatch
<1>6. CASE PollTimerFires
  <2>1. component' = [component EXCEPT !.timer = FALSE] /\ Load("poll")
    BY <1>6 DEF PollTimerFires
  <2>2. /\ component' \in Components /\ component'.shown = component.shown
        /\ component'.view = component.view
    BY <2>1 DEF Components
  <2>3. Polls'
    BY <2>1, LoadMade DEF LoadKinds
  <2> QED
    BY <1>1, <1>2, <1>3, <2>2, <2>3, StepKeepsWatch
<1> QED
  BY <1>4, <1>5, <1>6

\* What a page makes of the answer to a request for the state: only a poll, which
\* sets the timer again, may end without leaving another watch.
LEMMA AnswerIsWatched ==
  ASSUME NEW p \in Components, NEW load \in LoadRows
  PROVE  /\ load.state # None =>
              /\ Shows(p, load) \in Components
              /\ Shows(p, load).shown = load.state
              /\ Shows(p, load).timer = (load.state.state = "SENDING")
         /\ Misses(p, load) \in Components
         /\ Misses(p, load).shown = p.shown
         /\ Misses(p, load).view \in {p.view, "failed"}
         /\ p.timer => Misses(p, load).timer
         /\ load.kind = "poll" /\ p.shown.state = "SENDING" => Misses(p, load).timer
<1>1. ASSUME load.state # None
      PROVE  /\ Shows(p, load) \in Components
             /\ Shows(p, load).shown = load.state
             /\ Shows(p, load).timer = (load.state.state = "SENDING")
  <2>1. load.state \in ShownStates
    BY <1>1 DEF LoadRows
  <2>2. PICK a : a = Applied(p, load.state)
    OBVIOUS
  <2>3. PICK r : r = Reset(p, load.state)
    OBVIOUS
  <2>4. /\ a \in Components /\ r \in Components
        /\ a.shown = load.state /\ r.shown = load.state
        /\ a.timer = (load.state.state = "SENDING")
        /\ r.timer = (load.state.state = "SENDING")
    BY <2>1, <2>2, <2>3, AppliedIsWatched
  <2>5. \/ Shows(p, load) = a
        \/ Shows(p, load) = [r EXCEPT !.view = IF @ = "failed" THEN @ ELSE "ready"]
        \/ Shows(p, load) = [r EXCEPT !.error = FALSE]
        \/ Shows(p, load) = r
    BY <2>2, <2>3 DEF Shows
  <2>6. ASSUME Shows(p, load) = [r EXCEPT !.view = IF @ = "failed" THEN @ ELSE "ready"]
        PROVE  /\ Shows(p, load) \in Components
               /\ Shows(p, load).shown = r.shown /\ Shows(p, load).timer = r.timer
    BY <2>4, <2>6 DEF Components
  <2>7. ASSUME Shows(p, load) = [r EXCEPT !.error = FALSE]
        PROVE  /\ Shows(p, load) \in Components
               /\ Shows(p, load).shown = r.shown /\ Shows(p, load).timer = r.timer
    BY <2>4, <2>7 DEF Components
  <2> QED
    BY <2>4, <2>5, <2>6, <2>7
<1>2. \/ load.kind = "poll" /\ Misses(p, load) = PollFailed(p)
      \/ load.kind # "poll" /\ Misses(p, load) = [p EXCEPT !.view = "failed"]
      \/ load.kind # "poll" /\ Misses(p, load) = [p EXCEPT !.error = TRUE]
  BY DEF Misses
<1>3. CASE load.kind = "poll" /\ Misses(p, load) = PollFailed(p)
  <2>1. /\ PollFailed(p) \in Components /\ PollFailed(p).shown = p.shown
        /\ PollFailed(p).view = p.view
        /\ PollFailed(p).timer = (p.timer \/ p.shown.state = "SENDING")
    BY DEF PollFailed, Components
  <2> QED
    BY <1>1, <1>3, <2>1
<1>4. CASE load.kind # "poll" /\ Misses(p, load) = [p EXCEPT !.view = "failed"]
  BY <1>1, <1>4 DEF Components
<1>5. CASE load.kind # "poll" /\ Misses(p, load) = [p EXCEPT !.error = TRUE]
  BY <1>1, <1>5 DEF Components
<1> QED
  BY <1>2, <1>3, <1>4, <1>5

LEMMA ReconciledIsTyped ==
  ASSUME server \in Servers
  PROVE  Reconciled \in Servers
BY DEF Reconciled, Servers, AttemptStates

LEMMA LoadsKeepWatch ==
  ASSUME FollowUpPageInv, NEW i \in DOMAIN loads,
         ServeLoad(i) \/ ReceiveLoad(i) \/ LoadFails(i)
  PROVE  FollowUpPageInv'
<1> USE PageIsWatched
<1>1. RequestsAreGood' /\ UNCHANGED <<pageMode, elsewhere>>
  BY DEF FollowUpPageInv, RequestsAreGood, ServeLoad, ReceiveLoad, LoadFails
<1>2. loads[i] \in LoadRows /\ i \in 1..Len(loads) /\ Len(loads) \in Nat
  BY ElementOfSeq, LenProperties
<1>3. CASE ServeLoad(i)
  <2> DEFINE answered == [loads[i] EXCEPT !.state = CurrentState']
  <2>1. /\ server' = Reconciled /\ component' = component
        /\ loads' = [loads EXCEPT ![i] = answered]
    BY <1>3 DEF ServeLoad
  <2>2. server' \in Servers
    BY <2>1, ReconciledIsTyped
  <2>3. CurrentState' \in ShownStates
    BY <2>2 DEF CurrentState, Servers, ShownStates
  <2>4. answered \in LoadRows /\ answered.kind = loads[i].kind
    BY <1>2, <2>3 DEF LoadRows
  <2> HIDE DEF answered
  <2>5. /\ loads' \in Seq(LoadRows) /\ Len(loads') = Len(loads)
        /\ \A j \in 1..Len(loads) : loads'[j] = IF j = i THEN answered ELSE loads[j]
    BY <1>2, <2>1, <2>4, ExceptSeq
  <2>6. Polls => Polls'
    <3>1. DOMAIN loads' = DOMAIN loads /\ DOMAIN loads = 1..Len(loads)
      BY <2>5, LenProperties
    <3> QED
      BY <2>4, <2>5, <3>1 DEF Polls
  <2> QED
    BY <1>1, <2>1, <2>2, <2>5, <2>6, StepKeepsWatch
<1>4. CASE ReceiveLoad(i)
  <2>1. /\ loads[i].state # None /\ component' = Shows(component, loads[i])
        /\ loads' = RemoveAt(loads, i) /\ server' = server
    BY <1>4 DEF ReceiveLoad
  <2>2. /\ component' \in Components /\ component'.shown = loads[i].state
        /\ component'.timer = (loads[i].state.state = "SENDING")
    BY <1>2, <2>1, AnswerIsWatched
  <2>3. loads' \in Seq(LoadRows) /\ loads[i].state \in ShownStates
    BY <1>2, <2>1, LoadEnded DEF LoadRows
  <2> QED
    BY <1>1, <2>1, <2>2, <2>3, StepKeepsWatch
<1>5. CASE LoadFails(i)
  <2>1. /\ component' = Misses(component, loads[i])
        /\ loads' = RemoveAt(loads, i) /\ server' = server
    BY <1>5 DEF LoadFails
  <2>2. /\ component' \in Components /\ component'.shown = component.shown
        /\ component'.view \in {component.view, "failed"}
        /\ component.timer => component'.timer
        /\ loads[i].kind = "poll" /\ component.shown.state = "SENDING" => component'.timer
    BY <1>2, <2>1, AnswerIsWatched
  <2>3. loads' \in Seq(LoadRows) /\ (loads[i].kind # "poll" /\ Polls => Polls')
    BY <2>1, LoadEnded
  <2> QED
    BY <1>1, <2>1, <2>2, <2>3, StepKeepsWatch
<1> QED
  BY <1>3, <1>4, <1>5

-----------------------------------------------------------------------------
(* The API.                                                                *)

\* What the commands and the deliveries make of the row.
LEMMA ServerIsTyped ==
  ASSUME server \in Servers,
         \/ UNCHANGED server
         \/ \E enabled \in BOOLEAN : Settings(enabled)
         \/ \E n : UpdatePingDraft(n) \/ PreviewManualPing(n)
         \/ \E n, m : SendManualPing(n, m) \/ RetryManualPing(n, m)
         \/ \E state \in {"SENT", "FAILED", "UNKNOWN"} : Conclude(state)
         \/ server' = Reconciled
         \/ server' = [server EXCEPT !.archived = ~@]
         \/ server' = [server EXCEPT !.received = TRUE]
         \/ server' = [server EXCEPT !.expired = TRUE]
  PROVE  server' \in Servers
<1> USE FollowUpPageAssumption
<1>1. ASSUME NEW n, UpdatePingDraft(n)
      PROVE  server' \in Servers
  <2>1. PICK next : next = server.version + 1
    OBVIOUS
  <2>2. next \in 1..MaxDraftVersion /\ 0 \in 0..MaxDraftVersion
    BY <1>1, <2>1 DEF UpdatePingDraft, Servers
  <2>3. server' = [server EXCEPT !.version = next, !.preview = 0]
    BY <1>1, <2>1 DEF UpdatePingDraft
  <2> QED
    BY <2>2, <2>3 DEF Servers
<1>2. ASSUME NEW n, PreviewManualPing(n)
      PROVE  server' \in Servers
  BY <1>2 DEF PreviewManualPing, Servers
<1>3. ASSUME server.claims < MaxPingClaims
      PROVE  Claimed(server) \in Servers /\ Claimed(server).attempt = server.attempt
  <2>1. PICK next : next = server.claims + 1
    OBVIOUS
  <2>2. next \in 0..MaxPingClaims
    BY <1>3, <2>1 DEF Servers
  <2>3. Claimed(server) = [server EXCEPT !.state = "SENDING", !.expired = FALSE,
                                         !.claims = next]
    BY <2>1 DEF Claimed
  <2> QED
    BY <2>2, <2>3 DEF Servers, AttemptStates
<1>4. ASSUME NEW n, NEW m, SendManualPing(n, m)
      PROVE  server' \in Servers
  <2>1. PICK row : row = Claimed(server)
    OBVIOUS
  <2>2. row \in Servers /\ row.attempt = server.attempt
    BY <1>3, <1>4, <2>1 DEF SendManualPing
  <2>3. PICK next : next = server.attempt + 1
    OBVIOUS
  <2>4. next \in 0..MaxAttempts /\ 0 \in 0..MaxDraftVersion
    BY <1>4, <2>3 DEF SendManualPing, Servers
  <2>5. server' = [row EXCEPT !.attempt = next, !.made = server.version,
                              !.preview = 0, !.received = FALSE]
    BY <1>4, <2>1, <2>2, <2>3 DEF SendManualPing
  <2>6. server.version \in 0..MaxDraftVersion
    BY DEF Servers
  <2> QED
    BY <2>2, <2>4, <2>5, <2>6 DEF Servers
<1>5. ASSUME NEW n, NEW m, RetryManualPing(n, m)
      PROVE  server' \in Servers
  BY <1>3, <1>5 DEF RetryManualPing
<1>6. ASSUME NEW state \in {"SENT", "FAILED", "UNKNOWN"}, Conclude(state)
      PROVE  server' \in Servers
  BY <1>6 DEF Conclude, Servers, AttemptStates
<1>7. ASSUME \/ server' = [server EXCEPT !.archived = ~@]
             \/ server' = [server EXCEPT !.received = TRUE]
             \/ server' = [server EXCEPT !.expired = TRUE]
      PROVE  server' \in Servers
  BY <1>7 DEF Servers
<1> QED
  BY <1>1, <1>2, <1>4, <1>5, <1>6, <1>7, ReconciledIsTyped DEF Settings

\* The API turns to a request: the page hears of it later.
LEMMA AnswerKeepsWatch ==
  ASSUME FollowUpPageInv, server' \in Servers, NEW kind \in Kinds,
         NEW stage \in {"claimed", "done", "accepted", "reported"},
         NEW result \in ShownStates \cup (1..MaxDraftVersion) \cup {None},
         requests[kind] # None,
         stage = "done" => \/ kind \in {"save-settings", "save-draft"} /\ result \in ShownStates
                           \/ kind = "preview" /\ result \in 1..MaxDraftVersion,
         Answer(kind, stage, result)
  PROVE  FollowUpPageInv'
<1>1. /\ requests' = [requests EXCEPT ![kind].stage = stage, ![kind].result = result]
      /\ UNCHANGED <<pageMode, component, loads, elsewhere>>
  BY DEF Answer
<1>2. requests[kind] \in GoodRequests(kind) /\ DOMAIN requests = Kinds
  BY DEF FollowUpPageInv, RequestsAreGood
<1> DEFINE answered == [requests[kind] EXCEPT !.stage = stage, !.result = result]
<1>3. answered \in GoodRequests(kind)
  <2>1. answered \in PageRequests /\ answered.stage = stage /\ answered.result = result
    BY <1>2 DEF GoodRequests, PageRequests
  <2> QED
    BY <2>1 DEF GoodRequests, Brings
<1>4. requests' = [requests EXCEPT ![kind] = answered]
  BY <1>1, <1>2
<1>5. RequestsAreGood'
  BY <1>3, <1>4 DEF FollowUpPageInv, RequestsAreGood
<1>6. Polls' = Polls
  BY <1>1 DEF Polls
<1> QED
  BY <1>1, <1>5, <1>6, PageIsWatched, StepKeepsWatch

LEMMA ServingKeepsWatch ==
  ASSUME FollowUpPageInv, Serving
  PROVE  FollowUpPageInv'
<1> USE PageIsWatched
<1>1. ASSUME server' \in Servers
      PROVE  CurrentState' \in ShownStates
  BY <1>1 DEF CurrentState, Servers, ShownStates
<1>2. CASE ServeSettings
  <2>1. server' \in Servers
    BY <1>2 DEF ServeSettings, Settings
  <2> QED
    BY <1>1, <1>2, <2>1, AnswerKeepsWatch DEF ServeSettings, At, Kinds
<1>3. CASE ServeDraft
  <2>1. server' \in Servers
    BY <1>3, ServerIsTyped DEF ServeDraft
  <2> QED
    BY <1>1, <1>3, <2>1, AnswerKeepsWatch DEF ServeDraft, At, Kinds
<1>4. CASE ServePreview
  <2>1. server' \in Servers
    BY <1>4, ServerIsTyped DEF ServePreview
  <2>2. server'.preview \in 1..MaxDraftVersion
    BY <1>4 DEF ServePreview, PreviewManualPing, Servers
  <2> QED
    BY <1>4, <2>1, <2>2, AnswerKeepsWatch DEF ServePreview, At, Kinds
<1>5. CASE ServeSend
  <2>1. server' \in Servers
    BY <1>5, ServerIsTyped DEF ServeSend
  <2> QED
    BY <1>5, <2>1, AnswerKeepsWatch DEF ServeSend, At, Kinds
<1>6. CASE RefuseSend
  <2>1. server' \in Servers
    BY <1>6, ServerIsTyped DEF RefuseSend
  <2> QED
    BY <1>6, <2>1, AnswerKeepsWatch DEF RefuseSend, At, Kinds
<1>7. CASE ServeRetry
  <2>1. server' \in Servers
    BY <1>7, ServerIsTyped DEF ServeRetry
  <2> QED
    BY <1>7, <2>1, AnswerKeepsWatch DEF ServeRetry, At, Kinds
<1>8. ASSUME NEW k \in {"send", "retry"}, NEW state \in {"SENT", "FAILED", "UNKNOWN"},
             Deliver(k, state)
      PROVE  FollowUpPageInv'
  <2>1. server' \in Servers
    BY <1>8, ServerIsTyped DEF Deliver
  <2> QED
    BY <1>8, <2>1, AnswerKeepsWatch DEF Deliver, At, Kinds
<1> QED
  BY <1>2, <1>3, <1>4, <1>5, <1>6, <1>7, <1>8, LoadsKeepWatch DEF Serving

\* Other Owners, claims whose page has stopped waiting, and the lease.
LEMMA OthersKeepWatch ==
  ASSUME FollowUpPageInv, CommandOfOthers \/ ConcludedElsewhere \/ LeaseEnds
  PROVE  FollowUpPageInv'
<1>1. UNCHANGED <<pageMode, component, loads, requests>>
  BY DEF CommandOfOthers, ConcludedElsewhere, LeaseEnds
<1>2. elsewhere' \in 0..MaxElsewhere
  <2>1. elsewhere' = elsewhere \/ (elsewhere < MaxElsewhere /\ elsewhere' = elsewhere + 1)
    BY DEF CommandOfOthers, ConcludedElsewhere, LeaseEnds
  <2>2. elsewhere \in 0..MaxElsewhere
    BY PageIsWatched
  <2> QED
    BY <2>1, <2>2, FollowUpPageAssumption
<1>3. server' \in Servers
  BY PageIsWatched, ServerIsTyped DEF CommandOfOthers, ConcludedElsewhere, LeaseEnds
<1>4. RequestsAreGood' /\ Polls' = Polls
  BY <1>1 DEF FollowUpPageInv, RequestsAreGood, Polls
<1> QED
  BY <1>1, <1>2, <1>3, <1>4, PageIsWatched, StepKeepsWatch

\* The page hears of a command.
LEMMA OutcomesKeepWatch ==
  ASSUME FollowUpPageInv, NEW kind \in Kinds, ReceiveOutcome(kind) \/ RequestFails(kind)
  PROVE  FollowUpPageInv'
<1> USE PageIsWatched
<1>1. requests[kind] \in GoodRequests(kind) /\ DOMAIN requests = Kinds
  BY DEF FollowUpPageInv, RequestsAreGood, ReceiveOutcome, RequestFails
<1>2. /\ requests' = [requests EXCEPT ![kind] = None]
      /\ UNCHANGED <<server, pageMode, elsewhere>>
  BY DEF ReceiveOutcome, RequestFails
<1>3. RequestsAreGood'
  BY <1>2 DEF FollowUpPageInv, RequestsAreGood
<1> DEFINE closed == [component EXCEPT !.preview = IF kind = "send" THEN None ELSE @,
                                       !.retry = IF kind = "retry" THEN None ELSE @]
           failed == [closed EXCEPT !.error = TRUE]
<1>4. /\ closed \in Components /\ closed.shown = component.shown
      /\ closed.timer = component.timer /\ closed.view = component.view
  BY DEF Components
<1>5. /\ failed \in Components /\ failed.shown = component.shown
      /\ failed.timer = component.timer /\ failed.view = component.view
  BY DEF Components
<1>6. ASSUME UNCHANGED loads \/ \E load \in LoadKinds : Load(load),
             component' \in {closed, failed}
      PROVE  FollowUpPageInv'
  <2>1. loads' \in Seq(LoadRows) /\ (Polls => Polls')
    <3>1. CASE UNCHANGED loads
      BY <3>1 DEF Polls
    <3>2. ASSUME NEW load \in LoadKinds, Load(load)
          PROVE  loads' \in Seq(LoadRows) /\ (Polls => Polls')
      BY <3>2, LoadMade
    <3> QED
      BY <1>6, <3>1, <3>2
  <2> QED
    BY <1>2, <1>3, <1>4, <1>5, <1>6, <2>1, StepKeepsWatch
<1>7. CASE RequestFails(kind)
  <2>1. component' = [component EXCEPT !.error = TRUE,
                        !.preview = IF kind = "send" THEN None ELSE @,
                        !.retry = IF kind = "retry" THEN None ELSE @]
    BY <1>7 DEF RequestFails
  <2>2. component' = failed
    BY <2>1 DEF Components
  <2>3. UNCHANGED loads \/ \E load \in LoadKinds : Load(load)
    BY <1>7 DEF RequestFails, LoadKinds
  <2> QED
    BY <1>6, <2>2, <2>3
<1>8. CASE ReceiveOutcome(kind) /\ requests[kind].stage \in {"accepted", "reported"}
  <2>1. component' \in {closed, failed} /\ \E load \in LoadKinds : Load(load)
    BY <1>8 DEF ReceiveOutcome, LoadKinds
  <2> QED
    BY <1>6, <2>1
<1>9. CASE ReceiveOutcome(kind) /\ requests[kind].stage = "done"
  <2> DEFINE result == requests[kind].result
  <2>1. /\ UNCHANGED loads
        /\ component' = CASE kind = "save-settings" -> Applied(component, result)
                          [] kind = "save-draft" -> Reset(component, result)
                          [] kind = "preview" -> [component EXCEPT !.preview = result]
    BY <1>9 DEF ReceiveOutcome
  <2>2. Polls' = Polls
    BY <2>1 DEF Polls
  <2>3. \/ kind \in {"save-settings", "save-draft"} /\ result \in ShownStates
        \/ kind = "preview" /\ result \in 1..MaxDraftVersion
    BY <1>1, <1>9 DEF GoodRequests, Brings
  <2>4. CASE kind \in {"save-settings", "save-draft"} /\ result \in ShownStates
    <3>1. component' = Applied(component, result) \/ component' = Reset(component, result)
      BY <2>1, <2>4
    <3>2. /\ component' \in Components /\ component'.shown = result
          /\ component'.timer = (result.state = "SENDING")
          /\ component'.view = component.view
      BY <2>4, <3>1, AppliedIsWatched
    <3> QED
      BY <1>2, <1>3, <2>1, <2>2, <2>4, <3>2, StepKeepsWatch
  <2>5. CASE kind = "preview" /\ result \in 1..MaxDraftVersion
    <3>1. component' = [component EXCEPT !.preview = result]
      BY <2>1, <2>5
    <3>2. /\ component' \in Components /\ component'.shown = component.shown
          /\ component'.timer = component.timer /\ component'.view = component.view
      BY <2>5, <3>1 DEF Components
    <3> QED
      BY <1>2, <1>3, <2>1, <2>2, <3>2, StepKeepsWatch
  <2> QED
    BY <2>3, <2>4, <2>5
<1> QED
  BY <1>7, <1>8, <1>9 DEF ReceiveOutcome

LEMMA FollowUpPageInductive == FollowUpPageSpec => []FollowUpPageInv
<1>1. ASSUME FollowUpPageInit
      PROVE  FollowUpPageInv
  <2>1. server \in Servers
    BY <1>1, FollowUpPageAssumption DEF FollowUpPageInit, Start, Servers, AttemptStates
  <2>2. component \in Components
    BY <1>1 DEF FollowUpPageInit, NewPage, Components
  <2>3. ~Ready /\ component.shown = None
    BY <1>1 DEF FollowUpPageInit, NewPage, Ready
  <2>4. loads \in Seq(LoadRows)
    BY <1>1 DEF FollowUpPageInit, NewLoad, LoadRows, LoadKinds
  <2>5. RequestsAreGood
    BY <1>1 DEF FollowUpPageInit, RequestsAreGood
  <2>6. elsewhere \in 0..MaxElsewhere /\ pageMode \in {"work", "settings"}
    BY <1>1, FollowUpPageAssumption DEF FollowUpPageInit
  <2>7. \A k \in Kinds : requests[k] = None
    BY <1>1 DEF FollowUpPageInit
  <2> QED
    BY <2>1, <2>2, <2>3, <2>4, <2>5, <2>6, <2>7
    DEF FollowUpPageInv, FollowUpPageTypeOK, LoadRows, SendingIsWatched
<1>2. ASSUME FollowUpPageInv, [FollowUpPageNext]_followUpPageVars
      PROVE  FollowUpPageInv'
  <2>1. CASE Owner
    BY <1>2, <2>1, OwnerKeepsWatch, ReloadKeepsWatch DEF Owner
  <2>2. CASE PollTimerFires
    BY <1>2, <2>2, ReloadKeepsWatch
  <2>3. CASE Serving
    BY <1>2, <2>3, ServingKeepsWatch
  <2>4. CASE Answering
    BY <1>2, <2>4, OutcomesKeepWatch, LoadsKeepWatch DEF Answering
  <2>5. CASE CommandOfOthers \/ ConcludedElsewhere \/ LeaseEnds
    BY <1>2, <2>5, OthersKeepWatch
  <2>6. CASE UNCHANGED followUpPageVars
    BY <1>2, <2>6
    DEF followUpPageVars, FollowUpPageInv, FollowUpPageTypeOK, Ready, RequestsAreGood,
        SendingIsWatched
  <2> QED
    BY <1>2, <2>1, <2>2, <2>3, <2>4, <2>5, <2>6 DEF FollowUpPageNext
<1> QED
  BY <1>1, <1>2, PTL DEF FollowUpPageSpec

\* Every variable of the follow-up page has its type, and the page is ready only
\* once it shows a state (customer-follow-up.component.ts).
THEOREM FollowUpPageTypeCorrect == FollowUpPageSpec => []FollowUpPageTypeOK
BY FollowUpPageInductive, PTL DEF FollowUpPageInv

\* A page that shows a delivery under way has its timer set, or a poll out that sets
\* it again, in whatever order answers, failures and reloads come
\* (synchronizeRecoveredPendingLease, scheduleRecoveredPendingRefresh).
THEOREM SendingIsWatchedHolds == FollowUpPageSpec => []SendingIsWatched
BY FollowUpPageInductive, PTL DEF FollowUpPageInv

-----------------------------------------------------------------------------
(* QuestionBank: its versions, the templates and the schemas.               *)

BankRows == [order : 1..Cardinality(Keys), active : BOOLEAN, files : SUBSET Files]
OrdersIn(version) == {version[k].order : k \in DOMAIN version}

\* What a version of the bank is.
IsBankVersion(version) ==
  /\ DOMAIN version \subseteq Keys
  /\ version \in [DOMAIN version -> BankRows]
  /\ OrdersIn(version) = 1..Cardinality(DOMAIN version)
BankVersions == {version \in UNION {[keys -> BankRows] : keys \in SUBSET Keys} :
                   IsBankVersion(version)}

Selections == (SUBSET Keys) \ {{}}
QuestionTemplates == [exists : BOOLEAN, draft : SUBSET Keys, published : Seq(Selections)]

\* A selection of questions is that of the published template it cites.
IsOfTemplate(selection) ==
  selection.template # None =>
    /\ selection.template \in Templates
    /\ selection.number \in 1..Len(template[selection.template].published)
    /\ selection.questions = template[selection.template].published[selection.number]

Publications == [questions : SUBSET Keys, template : Templates, number : 0..MaxPublished]
SchemaRows == [bank : 1..MaxBankVersions, questions : SUBSET Keys,
               template : Templates \cup {None}, number : 0..MaxPublished]

\* A schema cites a version that exists, where all its questions are active.
IsCited(row) ==
  /\ row.bank \in 1..Version
  /\ row.questions \subseteq ActiveIn(bank[row.bank])
  /\ IsOfTemplate(row)

BankIsGood ==
  /\ bank \in Seq(BankVersions)
  /\ Version \in 1..MaxBankVersions

TemplatesAreGood ==
  /\ template \in [Templates -> QuestionTemplates]
  /\ \A t \in Templates : /\ template[t].exists => template[t].draft # {}
                          /\ Len(template[t].published) <= MaxPublished

SchemasAreGood ==
  /\ schemas \in Seq(SchemaRows)
  /\ \A s \in 1..Len(schemas) : IsCited(schemas[s])

BankInv ==
  /\ BankIsGood /\ TemplatesAreGood /\ SchemasAreGood
  /\ form # None => form.version \in 1..Version /\ form.key \in DOMAIN bank[form.version]
  /\ publication # None => publication \in Publications /\ IsOfTemplate(publication)

-----------------------------------------------------------------------------
(* Orders.                                                                 *)

\* Where orders are 1..n, each belongs to one question.
LEMMA OrdersDiffer ==
  ASSUME NEW version, IsBankVersion(version)
  PROVE  /\ IsFiniteSet(DOMAIN version) /\ Cardinality(DOMAIN version) \in Nat
         /\ Cardinality(DOMAIN version) <= Cardinality(Keys) /\ Cardinality(Keys) \in Nat
         /\ \A k \in DOMAIN version : version[k].order \in 1..Cardinality(DOMAIN version)
         /\ \A x \in 1..Cardinality(DOMAIN version) :
              \E k \in DOMAIN version : version[k].order = x
         /\ \A k, j \in DOMAIN version : version[k].order = version[j].order => k = j
<1> DEFINE S == DOMAIN version
           n == Cardinality(S)
           f == [k \in S |-> version[k].order]
<1>1. /\ IsFiniteSet(S) /\ n \in Nat /\ n <= Cardinality(Keys) /\ Cardinality(Keys) \in Nat
  BY BankAssumption, FS_Subset, FS_CardinalityType DEF IsBankVersion
<1>2. \A k \in S : version[k].order \in 1..n
  BY DEF IsBankVersion, OrdersIn
<1>3. \A x \in 1..n : \E k \in S : version[k].order = x
  <2> TAKE x \in 1..n
  <2>1. x \in OrdersIn(version)
    BY DEF IsBankVersion
  <2> QED
    BY <2>1 DEF OrdersIn
<1>4. f \in Surjection(S, 1..n)
  <2>1. f \in [S -> 1..n]
    BY <1>2
  <2>2. \A x \in 1..n : \E k \in S : f[k] = x
    BY <1>3
  <2> HIDE DEF f, n, S
  <2> QED
    BY <2>1, <2>2, Fun_IsSurj
<1>5. IsFiniteSet(1..n) /\ Cardinality(1..n) = n
  BY <1>1, FS_Interval
<1>6. f \in Injection(S, 1..n)
  <2> HIDE DEF f
  <2> QED
    BY <1>1, <1>4, <1>5, FS_SurjSameCardinalityImpliesInj
<1>7. \A k, j \in S : f[k] = f[j] => k = j
  <2> HIDE DEF f, n, S
  <2> QED
    BY <1>6, Fun_InjectionProperties
<1> QED
  BY <1>1, <1>2, <1>3, <1>7

\* The place of a question once another is taken out.
LEMMA PlaceIsKnown ==
  ASSUME IsBankVersion(Current), NEW k \in DOMAIN Current, NEW j \in DOMAIN Current \ {k}
  PROVE  PlaceWithout(k, j) = IF Current[j].order < Current[k].order
                              THEN Current[j].order ELSE Current[j].order - 1
<1> DEFINE S == {i \in DOMAIN Current \ {k} : Current[i].order <= Current[j].order}
           m == Current[j].order
           x == Current[k].order
           f == [i \in S |-> Current[i].order]
<1>1. /\ x \in Nat \ {0} /\ m \in Nat \ {0} /\ x # m
      /\ m <= Cardinality(DOMAIN Current) /\ Cardinality(DOMAIN Current) \in Nat
  BY OrdersDiffer
<1>2. f \in [S -> (1..m) \ {x}]
  BY OrdersDiffer
<1>3. \A a, b \in S : f[a] = f[b] => a = b
  BY OrdersDiffer
<1>4. \A y \in (1..m) \ {x} : \E a \in S : f[a] = y
  <2> TAKE y \in (1..m) \ {x}
  <2>1. y \in 1..Cardinality(DOMAIN Current)
    BY <1>1
  <2>2. PICK a \in DOMAIN Current : Current[a].order = y
    BY <2>1, OrdersDiffer
  <2>3. a \in S
    BY <1>1, <2>2
  <2> QED
    BY <2>2, <2>3
<1>5. f \in Bijection(S, (1..m) \ {x})
  <2> HIDE DEF f, S, m, x
  <2> QED
    BY <1>2, <1>3, <1>4, Fun_IsBij
<1>6. IsFiniteSet(S)
  BY OrdersDiffer, FS_Subset
<1>7. Cardinality((1..m) \ {x}) = Cardinality(S)
  <2>1. ExistsBijection(S, (1..m) \ {x})
    BY <1>5 DEF ExistsBijection
  <2> HIDE DEF S, m, x
  <2> QED
    BY <1>6, <2>1, FS_Bijection
<1>8. Cardinality((1..m) \ {x}) = IF x \in 1..m THEN m - 1 ELSE m
  <2>1. m \in Int /\ 1 \in Int /\ m - 1 + 1 = m /\ ~(1 > m)
    BY <1>1
  <2> HIDE DEF m, x
  <2>2. IsFiniteSet(1..m) /\ Cardinality(1..m) = m
    BY <2>1, FS_Interval
  <2> QED
    BY <2>2, FS_RemoveElement
<1>9. PlaceWithout(k, j) = Cardinality(S)
  BY DEF PlaceWithout
<1> HIDE DEF S
<1> QED
  BY <1>1, <1>7, <1>8, <1>9

\* A question that is inserted takes its order, and the others close up to it.
LEMMA InsertedIsBankVersion ==
  ASSUME IsBankVersion(Current), NEW k \in Keys \ DOMAIN Current,
         NEW order \in 1..Cardinality(DOMAIN Current) + 1, NEW active \in BOOLEAN
  PROVE  IsBankVersion(Inserted(k, order, active))
<1> DEFINE n == Cardinality(DOMAIN Current)
           v == Inserted(k, order, active)
           at(j) == IF j = k THEN order
                    ELSE IF Current[j].order >= order THEN Current[j].order + 1
                    ELSE Current[j].order
<1>1. /\ DOMAIN v = DOMAIN Current \cup {k} /\ DOMAIN v \subseteq Keys
  BY DEF Inserted, IsBankVersion
<1>2. /\ n \in Nat /\ Cardinality(DOMAIN v) = n + 1 /\ n + 1 <= Cardinality(Keys)
      /\ Cardinality(Keys) \in Nat
  <2>1. Cardinality(DOMAIN v) = n + 1 /\ n \in Nat
    BY <1>1, OrdersDiffer, FS_AddElement
  <2>2. Cardinality(DOMAIN v) <= Cardinality(Keys) /\ Cardinality(Keys) \in Nat
    BY <1>1, BankAssumption, FS_Subset, FS_CardinalityType
  <2> QED
    BY <2>1, <2>2
<1>3. \A j \in DOMAIN v : at(j) \in 1..n + 1
  BY <1>1, <1>2, OrdersDiffer
<1>4. \A j \in DOMAIN v : v[j] \in BankRows /\ v[j].order = at(j)
  <2> TAKE j \in DOMAIN v
  <2>1. at(j) \in 1..Cardinality(Keys)
    BY <1>2, <1>3
  <2>2. CASE j = k
    <3>1. v[j] = [order |-> order, active |-> active, files |-> {}]
      BY <1>1, <2>2 DEF Inserted
    <3> QED
      BY <2>1, <2>2, <3>1 DEF BankRows
  <2>3. CASE j # k
    <3>1. j \in DOMAIN Current /\ Current[j] \in BankRows
      BY <1>1, <2>3 DEF IsBankVersion
    <3>2. v[j] = [Current[j] EXCEPT !.order = at(j)]
      BY <1>1, <2>3 DEF Inserted
    <3> HIDE DEF at, v
    <3> QED
      BY <2>1, <3>1, <3>2 DEF BankRows
  <2> QED
    BY <2>2, <2>3
<1>5. \A x \in 1..n + 1 : \E j \in DOMAIN v : at(j) = x
  <2> TAKE x \in 1..n + 1
  <2>1. CASE x = order
    BY <1>1, <2>1
  <2>2. CASE x < order
    <3>1. PICK j \in DOMAIN Current : Current[j].order = x
      BY <1>2, <2>2, OrdersDiffer
    <3> QED
      BY <1>1, <2>2, <3>1
  <2>3. CASE x > order
    <3>1. x - 1 \in 1..n
      BY <1>2, <2>3
    <3>2. PICK j \in DOMAIN Current : Current[j].order = x - 1
      BY <3>1, OrdersDiffer
    <3>3. Current[j].order >= order /\ Current[j].order + 1 = x /\ j # k
      BY <2>3, <3>2
    <3> QED
      BY <1>1, <3>3
  <2> QED
    BY <1>2, <2>1, <2>2, <2>3
<1> HIDE DEF v, at
<1>6. v \in [DOMAIN v -> BankRows]
  <2>1. v = [j \in DOMAIN v |-> v[j]]
    BY DEF v, Inserted
  <2> QED
    BY <1>4, <2>1
<1>7. OrdersIn(v) = 1..Cardinality(DOMAIN v)
  BY <1>2, <1>3, <1>4, <1>5 DEF OrdersIn
<1> QED
  BY <1>1, <1>6, <1>7 DEF IsBankVersion, v

\* A question that is moved takes its order, and the others follow in theirs.
LEMMA UpdatedIsBankVersion ==
  ASSUME IsBankVersion(Current), NEW k \in DOMAIN Current,
         NEW order \in 1..Cardinality(DOMAIN Current), NEW active \in BOOLEAN
  PROVE  IsBankVersion(Updated(k, order, active))
<1> DEFINE n == Cardinality(DOMAIN Current)
           v == Updated(k, order, active)
           at(j) == Reordered(k, order, j)
<1>1. DOMAIN v = DOMAIN Current /\ DOMAIN v \subseteq Keys
  BY DEF Updated, IsBankVersion
<1>2. n \in Nat /\ n <= Cardinality(Keys) /\ Cardinality(Keys) \in Nat
  BY OrdersDiffer
<1>3. Current[k].order \in 1..n /\ at(k) = order
  BY OrdersDiffer DEF Reordered
<1>4. \A j \in DOMAIN Current \ {k} :
        LET rank == IF Current[j].order < Current[k].order THEN Current[j].order
                    ELSE Current[j].order - 1
        IN /\ Current[j].order \in 1..n /\ Current[j].order # Current[k].order
           /\ at(j) = IF rank < order THEN rank ELSE rank + 1
  BY OrdersDiffer, PlaceIsKnown DEF Reordered
<1>5. \A j \in DOMAIN v : at(j) \in 1..n
  <2> TAKE j \in DOMAIN v
  <2>1. CASE j = k
    BY <1>3, <2>1
  <2>2. CASE j # k
    <3> HIDE DEF at
    <3> QED
      BY <1>1, <1>2, <1>3, <1>4, <2>2
  <2> QED
    BY <2>1, <2>2
<1>6. \A x \in 1..n : \E j \in DOMAIN v : at(j) = x
  <2> HIDE DEF at, v
  <2> TAKE x \in 1..n
  <2>1. CASE x = order
    BY <1>1, <1>3, <2>1
  <2>2. CASE x # order
    <3> DEFINE rank == IF x < order THEN x ELSE x - 1
               old == IF rank < Current[k].order THEN rank ELSE rank + 1
    <3>1. old \in 1..n /\ old # Current[k].order
      BY <1>2, <1>3, <2>2
    <3>2. PICK j \in DOMAIN Current : Current[j].order = old
      BY <3>1, OrdersDiffer
    <3>3. j # k
      BY <3>1, <3>2
    <3>4. at(j) = x
      BY <1>2, <1>3, <1>4, <2>2, <3>2, <3>3
    <3> QED
      BY <1>1, <3>4
  <2> QED
    BY <2>1, <2>2
<1>7. \A j \in DOMAIN v : v[j] \in BankRows /\ v[j].order = at(j)
  <2> TAKE j \in DOMAIN v
  <2>1. at(j) \in 1..Cardinality(Keys)
    BY <1>2, <1>5
  <2>2. Current[j] \in BankRows
    BY <1>1 DEF IsBankVersion
  <2>3. PICK now \in BOOLEAN : v[j] = [Current[j] EXCEPT !.order = at(j), !.active = now]
    <3>1. v[j] = [Current[j] EXCEPT !.order = at(j),
                                    !.active = IF j = k THEN active ELSE @]
      BY <1>1 DEF Updated
    <3>2. (IF j = k THEN active ELSE Current[j].active) \in BOOLEAN
      BY <2>2 DEF BankRows
    <3> QED
      BY <3>1, <3>2
  <2> HIDE DEF at, v
  <2> QED
    BY <2>1, <2>2, <2>3 DEF BankRows
<1> HIDE DEF v, at
<1>8. v \in [DOMAIN v -> BankRows]
  <2>1. v = [j \in DOMAIN v |-> v[j]]
    BY DEF v, Updated
  <2> QED
    BY <1>7, <2>1
<1>9. OrdersIn(v) = 1..Cardinality(DOMAIN v)
  <2>1. Cardinality(DOMAIN v) = n
    BY <1>1
  <2> QED
    BY <1>5, <1>6, <1>7, <2>1 DEF OrdersIn
<1> QED
  BY <1>1, <1>8, <1>9 DEF IsBankVersion, v

\* Files change no order.
LEMMA WithFilesIsBankVersion ==
  ASSUME IsBankVersion(Current), NEW k \in DOMAIN Current, NEW files \in SUBSET Files
  PROVE  IsBankVersion(WithFiles(k, files))
<1> DEFINE v == WithFiles(k, files)
<1>1. DOMAIN v = DOMAIN Current
  BY DEF WithFiles
<1>2. \A j \in DOMAIN Current : v[j] \in BankRows /\ v[j].order = Current[j].order
  <2> TAKE j \in DOMAIN Current
  <2>1. Current[j] \in BankRows
    BY DEF IsBankVersion
  <2>2. v[j] = Current[j] \/ v[j] = [Current[j] EXCEPT !.files = files]
    BY DEF WithFiles
  <2> QED
    BY <2>1, <2>2 DEF BankRows
<1>3. v = [j \in DOMAIN v |-> v[j]]
  BY DEF WithFiles
<1> HIDE DEF v
<1>4. OrdersIn(v) = OrdersIn(Current)
  BY <1>1, <1>2 DEF OrdersIn
<1>5. v \in [DOMAIN v -> BankRows]
  BY <1>1, <1>2, <1>3
<1> QED
  BY <1>1, <1>4, <1>5 DEF IsBankVersion, v

-----------------------------------------------------------------------------
(* Versions, templates and schemas.                                        *)

LEMMA BankVersionsAreTyped ==
  ASSUME NEW version
  PROVE  version \in BankVersions <=> IsBankVersion(version)
BY DEF BankVersions, IsBankVersion

LEMMA CurrentIsBankVersion ==
  ASSUME BankInv
  PROVE  IsBankVersion(Current) /\ Version \in 1..MaxBankVersions
<1>1. Version \in 1..Len(bank) /\ bank \in Seq(BankVersions)
  BY BankAssumption DEF BankInv, BankIsGood, Version
<1>2. bank[Version] \in BankVersions
  BY <1>1, ElementOfSeq
<1> QED
  BY <1>2, BankVersionsAreTyped DEF BankInv, BankIsGood, Current

\* Nothing that was published is changed.
BankGrows ==
  /\ Version' \in Nat /\ Version <= Version'
  /\ \A v \in 1..Version : bank'[v] = bank[v]
TemplatesGrow ==
  \A t \in Templates :
    /\ Len(template'[t].published) \in Nat
    /\ Len(template[t].published) <= Len(template'[t].published)
    /\ \A n \in 1..Len(template[t].published) :
         template'[t].published[n] = template[t].published[n]

\* What cites versions goes on holding what they hold.
LEMMA CitationsStay ==
  ASSUME BankInv, BankGrows, TemplatesGrow
  PROVE  /\ \A selection : IsOfTemplate(selection) => IsOfTemplate(selection)'
         /\ \A row \in SchemaRows : IsCited(row) => IsCited(row)'
<1>1. \A t \in Templates : Len(template[t].published) \in Nat
  BY LenProperties DEF BankInv, TemplatesAreGood, QuestionTemplates
<1>2. ASSUME NEW selection, IsOfTemplate(selection)
      PROVE  IsOfTemplate(selection)'
  <2> SUFFICES ASSUME selection.template # None
               PROVE  /\ selection.template \in Templates
                      /\ selection.number \in 1..Len(template'[selection.template].published)
                      /\ selection.questions
                           = template'[selection.template].published[selection.number]
    BY DEF IsOfTemplate
  <2>1. PICK t \in Templates : t = selection.template
    BY <1>2 DEF IsOfTemplate
  <2>2. /\ selection.number \in 1..Len(template[t].published)
        /\ selection.questions = template[t].published[selection.number]
    BY <1>2, <2>1 DEF IsOfTemplate
  <2>3. /\ Len(template'[t].published) \in Nat
        /\ Len(template[t].published) <= Len(template'[t].published)
        /\ template'[t].published[selection.number] = template[t].published[selection.number]
    BY <2>2 DEF TemplatesGrow
  <2>4. selection.number \in 1..Len(template'[t].published)
    BY <1>1, <2>2, <2>3
  <2> QED
    BY <2>1, <2>2, <2>3, <2>4
<1>3. ASSUME NEW row \in SchemaRows, IsCited(row)
      PROVE  IsCited(row)'
  <2>1. row.bank \in 1..Version /\ Version \in Nat
    BY <1>3, CurrentIsBankVersion DEF IsCited
  <2>2. row.bank \in 1..Version' /\ bank'[row.bank] = bank[row.bank]
    BY <2>1 DEF BankGrows
  <2>3. IsOfTemplate(row)'
    BY <1>2, <1>3 DEF IsCited
  <2> QED
    BY <1>3, <2>2, <2>3 DEF IsCited, ActiveIn
<1> QED
  BY <1>2, <1>3

LEMMA SchemasStay ==
  ASSUME BankInv, BankGrows, TemplatesGrow, UNCHANGED schemas
  PROVE  SchemasAreGood'
<1>1. \A s \in 1..Len(schemas) : schemas[s] \in SchemaRows
  BY ElementOfSeq DEF BankInv, SchemasAreGood
<1> QED
  BY <1>1, CitationsStay DEF BankInv, SchemasAreGood

\* A version of the bank is published.
LEMMA PublishKeepsBank ==
  ASSUME BankInv, NEW version, IsBankVersion(version), Publish(version),
         form' \in {None, form}
  PROVE  BankInv'
<1>1. /\ Version < MaxBankVersions /\ bank' = Append(bank, version)
      /\ UNCHANGED <<template, schemas, publication>>
  BY DEF Publish
<1>2. bank \in Seq(BankVersions) /\ version \in BankVersions
  BY BankVersionsAreTyped DEF BankInv, BankIsGood
<1>3. /\ bank' \in Seq(BankVersions) /\ Version' = Version + 1
      /\ \A v \in 1..Version : bank'[v] = bank[v]
  BY <1>1, <1>2, AppendProperties DEF Version
<1>4. Version \in 1..MaxBankVersions
  BY CurrentIsBankVersion
<1>5. BankIsGood' /\ BankGrows
  <2>1. Version' \in 1..MaxBankVersions /\ Version' \in Nat /\ Version <= Version'
    BY <1>1, <1>3, <1>4, BankAssumption
  <2> QED
    BY <1>3, <2>1 DEF BankIsGood, BankGrows
<1>6. TemplatesAreGood' /\ TemplatesGrow
  <2>1. \A t \in Templates : Len(template[t].published) \in Nat
    BY LenProperties DEF BankInv, TemplatesAreGood, QuestionTemplates
  <2> QED
    BY <1>1, <2>1 DEF BankInv, TemplatesAreGood, TemplatesGrow
<1>7. SchemasAreGood'
  BY <1>1, <1>5, <1>6, SchemasStay
<1>8. form' # None =>
        form'.version \in 1..Version' /\ form'.key \in DOMAIN bank'[form'.version]
  <2> SUFFICES ASSUME form' # None
               PROVE  form'.version \in 1..Version' /\ form'.key \in DOMAIN bank'[form'.version]
    OBVIOUS
  <2>1. form' = form /\ form.version \in 1..Version /\ form.key \in DOMAIN bank[form.version]
    BY DEF BankInv
  <2>2. form.version \in 1..Version' /\ bank'[form.version] = bank[form.version]
    BY <1>3, <1>4, <2>1
  <2> QED
    BY <2>1, <2>2
<1>9. publication' # None => publication' \in Publications /\ IsOfTemplate(publication)'
  BY <1>1, <1>5, <1>6, CitationsStay DEF BankInv
<1> QED
  BY <1>5, <1>6, <1>7, <1>8, <1>9 DEF BankInv

\* A template is saved, published or deleted.
LEMMA TemplateKeepsBank ==
  ASSUME BankInv, UNCHANGED <<bank, schemas, publication, form>>,
         TemplatesAreGood', TemplatesGrow
  PROVE  BankInv'
<1>1. BankGrows /\ BankIsGood' /\ Version' = Version
  BY CurrentIsBankVersion DEF BankGrows, BankInv, BankIsGood, Version
<1>2. SchemasAreGood'
  BY <1>1, SchemasStay
<1>3. publication' # None => publication' \in Publications /\ IsOfTemplate(publication)'
  BY <1>1, CitationsStay DEF BankInv
<1> QED
  BY <1>1, <1>2, <1>3 DEF BankInv

LEMMA TemplatesKeepBank ==
  ASSUME BankInv, NEW t \in Templates,
         (\E draft \in SUBSET Keys : SaveTemplate(t, draft)) \/ PublishTemplate(t)
           \/ DeleteTemplate(t)
  PROVE  BankInv'
<1>1. UNCHANGED <<bank, schemas, publication, form>>
  BY DEF SaveTemplate, PublishTemplate, DeleteTemplate
<1>2. \A u \in Templates : /\ template[u] \in QuestionTemplates
                           /\ template[u].published \in Seq(Selections)
                           /\ Len(template[u].published) \in Nat
  BY LenProperties DEF BankInv, TemplatesAreGood, QuestionTemplates
<1>3. ASSUME NEW row \in QuestionTemplates, template' = [template EXCEPT ![t] = row],
             row.exists => row.draft # {}, Len(row.published) <= MaxPublished,
             Len(row.published) \in Nat,
             Len(template[t].published) <= Len(row.published),
             \A n \in 1..Len(template[t].published) :
               row.published[n] = template[t].published[n]
      PROVE  BankInv'
  <2>1. TemplatesAreGood'
    BY <1>2, <1>3 DEF BankInv, TemplatesAreGood
  <2>2. TemplatesGrow
    <3>1. \A u \in Templates : template'[u] = IF u = t THEN row ELSE template[u]
      BY <1>3 DEF BankInv, TemplatesAreGood
    <3> QED
      BY <1>2, <1>3, <3>1 DEF TemplatesGrow
  <2> QED
    BY <1>1, <2>1, <2>2, TemplateKeepsBank
<1>4. ASSUME NEW draft \in SUBSET Keys, SaveTemplate(t, draft)
      PROVE  BankInv'
  <2> DEFINE row == [template[t] EXCEPT !.exists = TRUE, !.draft = draft]
  <2>1. template' = [template EXCEPT ![t] = row] /\ draft # {}
    BY <1>4 DEF SaveTemplate
  <2>2. /\ row \in QuestionTemplates /\ row.draft = draft
        /\ row.published = template[t].published
    BY <1>2 DEF QuestionTemplates
  <2>3. /\ Len(row.published) <= MaxPublished /\ Len(row.published) \in Nat
        /\ Len(template[t].published) <= Len(row.published)
        /\ \A n \in 1..Len(template[t].published) :
             row.published[n] = template[t].published[n]
    <3>1. Len(template[t].published) <= MaxPublished /\ Len(template[t].published) \in Nat
      BY <1>2 DEF BankInv, TemplatesAreGood
    <3> HIDE DEF row
    <3> QED
      BY <2>2, <3>1
  <2> HIDE DEF row
  <2> QED
    BY <1>3, <2>1, <2>2, <2>3
<1>5. CASE DeleteTemplate(t)
  <2> DEFINE row == [template[t] EXCEPT !.exists = FALSE]
  <2>1. template' = [template EXCEPT ![t] = row]
    BY <1>5 DEF DeleteTemplate
  <2>2. /\ row \in QuestionTemplates /\ ~row.exists
        /\ row.published = template[t].published
    BY <1>2 DEF QuestionTemplates
  <2>3. /\ Len(row.published) <= MaxPublished /\ Len(row.published) \in Nat
        /\ Len(template[t].published) <= Len(row.published)
        /\ \A n \in 1..Len(template[t].published) :
             row.published[n] = template[t].published[n]
    <3>1. Len(template[t].published) <= MaxPublished /\ Len(template[t].published) \in Nat
      BY <1>2 DEF BankInv, TemplatesAreGood
    <3> HIDE DEF row
    <3> QED
      BY <2>2, <3>1
  <2> HIDE DEF row
  <2> QED
    BY <1>3, <2>1, <2>2, <2>3
<1>6. CASE PublishTemplate(t)
  <2> DEFINE published == Append(template[t].published, template[t].draft)
             row == [template[t] EXCEPT !.published = published]
  <2>1. /\ template' = [template EXCEPT ![t] = row]
        /\ template[t].exists /\ Len(template[t].published) < MaxPublished
    BY <1>6 DEF PublishTemplate
  <2>2. template[t].draft \in Selections /\ template[t].draft # {}
    BY <1>2, <2>1 DEF BankInv, TemplatesAreGood, QuestionTemplates, Selections
  <2>3. /\ published \in Seq(Selections)
        /\ Len(published) = Len(template[t].published) + 1
        /\ \A n \in 1..Len(template[t].published) : published[n] = template[t].published[n]
    BY <1>2, <2>2, AppendProperties
  <2> HIDE DEF published
  <2>4. /\ row \in QuestionTemplates /\ row.published = published
        /\ row.draft = template[t].draft
    BY <1>2, <2>3 DEF QuestionTemplates
  <2> HIDE DEF row
  <2>5. Len(published) <= MaxPublished /\ Len(published) \in Nat
        /\ Len(template[t].published) <= Len(published)
    BY <1>2, <2>1, <2>3, BankAssumption
  <2> QED
    BY <1>3, <2>1, <2>2, <2>3, <2>4, <2>5
<1> QED
  BY <1>4, <1>5, <1>6

\* The template of a schema is read.
LEMMA ReadTemplateKeepsBank ==
  ASSUME BankInv, NEW t \in Templates, ReadTemplate(t)
  PROVE  BankInv'
<1>1. UNCHANGED <<bank, template, schemas, form>>
  BY DEF ReadTemplate
<1>2. /\ BankIsGood' /\ TemplatesAreGood' /\ SchemasAreGood'
      /\ form' # None =>
           form'.version \in 1..Version' /\ form'.key \in DOMAIN bank'[form'.version]
  BY <1>1 DEF BankInv, BankIsGood, TemplatesAreGood, SchemasAreGood, IsCited, IsOfTemplate,
              Version, ActiveIn
<1> DEFINE published == template[t].published
<1>3. published \in Seq(Selections) /\ published # <<>> /\ Len(published) <= MaxPublished
  BY DEF BankInv, TemplatesAreGood, QuestionTemplates, ReadTemplate
<1>4. /\ Len(published) \in 1..Len(published) /\ Len(published) \in 0..MaxPublished
      /\ published[Len(published)] \in SUBSET Keys
  <2>1. Len(published) \in 1..Len(published)
    BY <1>3, EmptySeq, LenProperties
  <2> QED
    BY <1>3, <2>1, ElementOfSeq, BankAssumption DEF Selections
<1>5. publication' = [questions |-> published[Len(published)], template |-> t,
                      number |-> Len(published)]
  BY DEF ReadTemplate, LatestPublished, Last
<1>6. publication' \in Publications
  BY <1>4, <1>5 DEF Publications
<1>7. IsOfTemplate(publication)'
  BY <1>1, <1>4, <1>5 DEF IsOfTemplate
<1> QED
  BY <1>2, <1>6, <1>7 DEF BankInv

\* A schema is published of what was selected.
LEMMA PublishedKeepsBank ==
  ASSUME BankInv, NEW selection,
         selection.questions \in SUBSET Keys, selection.template \in Templates \cup {None},
         selection.number \in 0..MaxPublished, IsOfTemplate(selection),
         Published(selection), publication' \in {None, publication}
  PROVE  BankInv'
<1> DEFINE row == [bank |-> Version, questions |-> selection.questions,
                   template |-> selection.template, number |-> selection.number]
<1>1. /\ schemas' = Append(schemas, row) /\ UNCHANGED <<bank, template, form>>
      /\ selection.questions \subseteq ActiveIn(Current)
  BY DEF Published, Selectable
<1>2. Version \in 1..MaxBankVersions
  BY CurrentIsBankVersion
<1>3. row \in SchemaRows
  BY <1>2 DEF SchemaRows
<1>4. IsCited(row)
  BY <1>1, <1>2 DEF IsCited, IsOfTemplate, Current
<1> HIDE DEF row
<1>5. /\ schemas' \in Seq(SchemaRows) /\ Len(schemas') = Len(schemas) + 1
      /\ \A s \in 1..Len(schemas) : schemas'[s] = schemas[s]
      /\ schemas'[Len(schemas) + 1] = row /\ Len(schemas) \in Nat
  BY <1>1, <1>3, AppendProperties, LenProperties DEF BankInv, SchemasAreGood
<1>6. \A s \in 1..Len(schemas') : schemas'[s] \in SchemaRows /\ IsCited(schemas'[s])
  <2>1. \A s \in 1..Len(schemas) : schemas[s] \in SchemaRows
    BY ElementOfSeq DEF BankInv, SchemasAreGood
  <2> QED
    BY <1>3, <1>4, <1>5, <2>1 DEF BankInv, SchemasAreGood
<1>7. BankIsGood' /\ TemplatesAreGood' /\ Version' = Version /\ BankGrows /\ TemplatesGrow
  <2>1. \A t \in Templates : Len(template[t].published) \in Nat
    BY LenProperties DEF BankInv, TemplatesAreGood, QuestionTemplates
  <2> QED
    BY <1>1, <1>2, <2>1 DEF BankInv, BankIsGood, TemplatesAreGood, Version, BankGrows,
                            TemplatesGrow
<1>8. \A cited \in SchemaRows : IsCited(cited) => IsCited(cited)'
  BY <1>7, CitationsStay
<1>9. SchemasAreGood'
  BY <1>5, <1>6, <1>8 DEF SchemasAreGood
<1>10. publication' # None => publication' \in Publications /\ IsOfTemplate(publication)'
  BY <1>1 DEF BankInv, IsOfTemplate
<1> QED
  BY <1>1, <1>7, <1>9, <1>10 DEF BankInv

\* Every change of the bank, by the page or by the API.
LEMMA BankChangesKeepBank ==
  ASSUME BankInv,
         \/ OpenForm
         \/ \E k \in Keys, order \in 1..Cardinality(Keys), active \in BOOLEAN :
              CreateBaseQuestion(k, order, active)
         \/ \E order \in 1..Cardinality(Keys), active \in BOOLEAN :
              UpdateBaseQuestion(order, active)
         \/ \E k \in Keys, file \in Files :
              AddReferenceFile(k, file) \/ RemoveReferenceFile(k, file)
  PROVE  BankInv'
<1> USE CurrentIsBankVersion
<1>1. CASE OpenForm
  <2>1. /\ UNCHANGED <<bank, template, schemas, publication>>
        /\ form' \in {None} \cup {[version |-> Version, key |-> k] : k \in DOMAIN Current}
    BY <1>1 DEF OpenForm
  <2>2. form' # None =>
          form'.version \in 1..Version /\ form'.key \in DOMAIN bank[form'.version]
    BY <2>1 DEF Current
  <2> QED
    BY <2>1, <2>2 DEF BankInv, BankIsGood, TemplatesAreGood, SchemasAreGood, IsCited,
                      IsOfTemplate, Version, ActiveIn
<1>2. ASSUME NEW k \in Keys, NEW order \in 1..Cardinality(Keys), NEW active \in BOOLEAN,
             CreateBaseQuestion(k, order, active)
      PROVE  BankInv'
  <2>1. IsBankVersion(Inserted(k, order, active))
    BY <1>2, InsertedIsBankVersion DEF CreateBaseQuestion
  <2> QED
    BY <1>2, <2>1, PublishKeepsBank DEF CreateBaseQuestion
<1>3. ASSUME NEW order \in 1..Cardinality(Keys), NEW active \in BOOLEAN,
             UpdateBaseQuestion(order, active)
      PROVE  BankInv'
  <2>1. form.key \in DOMAIN Current
    BY <1>3 DEF UpdateBaseQuestion, BankInv, Current
  <2>2. IsBankVersion(Updated(form.key, order, active))
    BY <1>3, <2>1, UpdatedIsBankVersion DEF UpdateBaseQuestion
  <2> QED
    BY <1>3, <2>2, PublishKeepsBank DEF UpdateBaseQuestion
<1>4. ASSUME NEW k \in Keys, NEW file \in Files,
             AddReferenceFile(k, file) \/ RemoveReferenceFile(k, file)
      PROVE  BankInv'
  <2>1. k \in DOMAIN Current /\ Current[k].files \in SUBSET Files
    BY <1>4 DEF AddReferenceFile, RemoveReferenceFile, IsBankVersion, BankRows
  <2>2. PICK files \in SUBSET Files : Publish(WithFiles(k, files)) /\ form' = form
    BY <1>4, <2>1 DEF AddReferenceFile, RemoveReferenceFile
  <2>3. IsBankVersion(WithFiles(k, files))
    BY <2>1, WithFilesIsBankVersion
  <2> QED
    BY <2>2, <2>3, PublishKeepsBank
<1> QED
  BY <1>1, <1>2, <1>3, <1>4

\* The first version numbers the seeded questions.
LEMMA SeedIsBankVersion ==
  ASSUME BankInit
  PROVE  Len(bank) = 1 /\ bank \in Seq(BankVersions)
<1> DEFINE n == Cardinality(SeedKeys)
           seed == SetToSeq(SeedKeys)
           at(k) == CHOOSE i \in DOMAIN seed : seed[i] = k
           first == [k \in SeedKeys |-> [order |-> at(k), active |-> TRUE, files |-> {}]]
<1>1. /\ IsFiniteSet(SeedKeys) /\ n \in Nat /\ n <= Cardinality(Keys)
      /\ Cardinality(Keys) \in Nat
  BY BankAssumption, FS_Subset, FS_CardinalityType
<1>2. \E f \in [1..n -> SeedKeys] : IsInjective(f)
  <2>1. PICK f \in Bijection(1..n, SeedKeys) : TRUE
    BY <1>1, FS_CardinalityType DEF ExistsBijection
  <2>2. f \in [1..n -> SeedKeys] /\ \A a, b \in 1..n : f[a] = f[b] => a = b
    <3> HIDE DEF n
    <3> QED
      BY <2>1, Fun_BijectionProperties
  <2>3. IsInjective(f)
    <3> HIDE DEF n
    <3> QED
      BY <2>2 DEF IsInjective
  <2> QED
    BY <2>2, <2>3
<1>3. seed \in [1..n -> SeedKeys] /\ IsInjective(seed)
  BY <1>2 DEF SetToSeq
<1> HIDE DEF seed
<1>4. \A k \in SeedKeys : \E i \in 1..n : seed[i] = k
  <2>1. seed \in Injection(1..n, SeedKeys)
    BY <1>3, Fun_IsInj DEF IsInjective
  <2>2. Cardinality(1..n) = n
    BY <1>1, FS_Interval
  <2>3. seed \in Surjection(1..n, SeedKeys)
    BY <1>1, <2>1, <2>2, FS_Injection
  <2> HIDE DEF n
  <2> QED
    BY <2>3 DEF Surjection
<1>5. \A k \in SeedKeys : at(k) \in 1..n /\ seed[at(k)] = k
  BY <1>3, <1>4
<1>6. \A i \in 1..n : seed[i] \in SeedKeys /\ at(seed[i]) = i
  <2> TAKE i \in 1..n
  <2>1. seed[i] \in SeedKeys
    BY <1>3
  <2>2. at(seed[i]) \in 1..n /\ seed[at(seed[i])] = seed[i]
    BY <1>5, <2>1
  <2> HIDE DEF at
  <2> QED
    BY <1>3, <2>1, <2>2 DEF IsInjective
<1> HIDE DEF at
<1>7. OrdersIn(first) = 1..n
  BY <1>5, <1>6 DEF OrdersIn
<1>8. first \in [SeedKeys -> BankRows]
  BY <1>1, <1>5 DEF BankRows
<1>9. IsBankVersion(first)
  BY <1>7, <1>8, BankAssumption DEF IsBankVersion
<1>10. first \in BankVersions
  BY <1>9, BankVersionsAreTyped
<1>11. bank = <<first>>
  BY DEF BankInit, at, seed
<1> HIDE DEF first
<1> QED
  BY <1>10, <1>11

LEMMA BankInductive == BankSpec => []BankInv
<1>1. ASSUME BankInit
      PROVE  BankInv
  <2>1. BankIsGood
    <3>1. Len(bank) = 1 /\ bank \in Seq(BankVersions)
      BY <1>1, SeedIsBankVersion
    <3>2. 1 \in 1..MaxBankVersions
      BY BankAssumption
    <3> QED
      BY <3>1, <3>2 DEF BankIsGood, Version
  <2>2. TemplatesAreGood
    <3>1. \A t \in Templates : template[t] = [exists |-> FALSE, draft |-> {}, published |-> <<>>]
      BY <1>1 DEF BankInit
    <3>2. [exists |-> FALSE, draft |-> {}, published |-> <<>>] \in QuestionTemplates
      BY DEF QuestionTemplates
    <3>3. template = [t \in Templates |-> template[t]]
      BY <1>1 DEF BankInit
    <3>4. template \in [Templates -> QuestionTemplates]
      BY <3>1, <3>2, <3>3
    <3>5. \A t \in Templates : ~template[t].exists /\ Len(template[t].published) = 0
      BY <3>1
    <3>6. 0 <= MaxPublished
      BY BankAssumption
    <3> QED
      BY <3>4, <3>5, <3>6 DEF TemplatesAreGood
  <2>3. SchemasAreGood
    BY <1>1 DEF BankInit, SchemasAreGood
  <2> QED
    BY <1>1, <2>1, <2>2, <2>3 DEF BankInit, BankInv
<1>2. ASSUME BankInv, [BankNext]_bankVars
      PROVE  BankInv'
  <2>1. CASE UpdateIsRefused \/ UNCHANGED bankVars
    <3>1. UNCHANGED <<bank, template, schemas, publication, form>>
      BY <2>1 DEF UpdateIsRefused, bankVars
    <3> QED
      BY <1>2, <3>1 DEF BankInv, BankIsGood, TemplatesAreGood, SchemasAreGood, IsCited,
                        IsOfTemplate, Version, ActiveIn
  <2>2. CASE RefuseSchema
    <3>1. UNCHANGED <<bank, template, schemas, form>> /\ publication' = None
      BY <2>2 DEF RefuseSchema
    <3> QED
      BY <1>2, <3>1 DEF BankInv, BankIsGood, TemplatesAreGood, SchemasAreGood, IsCited,
                        IsOfTemplate, Version, ActiveIn
  <2>3. CASE PublishProjectSchema
    <3>1. publication \in Publications /\ IsOfTemplate(publication)
      BY <1>2, <2>3 DEF PublishProjectSchema, BankInv
    <3>2. /\ publication.questions \in SUBSET Keys
          /\ publication.template \in Templates \cup {None}
          /\ publication.number \in 0..MaxPublished
      BY <3>1 DEF Publications
    <3> QED
      BY <1>2, <2>3, <3>1, <3>2, PublishedKeepsBank DEF PublishProjectSchema
  <2>4. ASSUME NEW questions \in SUBSET Keys, PublishSelection(questions)
        PROVE  BankInv'
    <3> DEFINE selection == [questions |-> questions, template |-> None, number |-> 0]
    <3>1. /\ selection.questions \in SUBSET Keys
          /\ selection.template \in Templates \cup {None}
          /\ selection.number \in 0..MaxPublished /\ IsOfTemplate(selection)
      BY BankAssumption DEF IsOfTemplate
    <3>2. Published(selection) /\ publication' = publication
      BY <2>4 DEF PublishSelection
    <3> HIDE DEF selection
    <3> QED
      BY <1>2, <3>1, <3>2, PublishedKeepsBank
  <2>5. ASSUME NEW t \in Templates,
               \/ \E draft \in SUBSET Keys : SaveTemplate(t, draft)
               \/ PublishTemplate(t) \/ DeleteTemplate(t)
        PROVE  BankInv'
    BY <1>2, <2>5, TemplatesKeepBank
  <2>6. ASSUME NEW t \in Templates, ReadTemplate(t)
        PROVE  BankInv'
    BY <1>2, <2>6, ReadTemplateKeepsBank
  <2> QED
    BY <1>2, <2>1, <2>2, <2>3, <2>4, <2>5, <2>6, BankChangesKeepBank DEF BankNext
<1> QED
  BY <1>1, <1>2, PTL DEF BankSpec

LEMMA ContiguousIsIn ==
  BankInv => BankOrdersAreContiguous
<1> SUFFICES ASSUME BankInv, NEW v \in 1..Version
             PROVE  {bank[v][k].order : k \in DOMAIN bank[v]} = 1..Cardinality(DOMAIN bank[v])
  BY DEF BankOrdersAreContiguous
<1>1. bank[v] \in BankVersions
  BY ElementOfSeq DEF BankInv, BankIsGood, Version
<1> QED
  BY <1>1, BankVersionsAreTyped DEF IsBankVersion, OrdersIn

LEMMA CitedIsIn ==
  BankInv => SchemaCitesWhatItHolds
BY DEF BankInv, SchemasAreGood, IsCited, IsOfTemplate, SchemaCitesWhatItHolds

LEMMA BankTypesAreIn ==
  BankInv => BankTypeOK
<1> SUFFICES ASSUME BankInv
             PROVE  BankTypeOK
  OBVIOUS
<1>1. \A v \in 1..Version : bank[v] \in [DOMAIN bank[v] -> BankRows]
  <2> TAKE v \in 1..Version
  <2>1. bank[v] \in BankVersions
    BY ElementOfSeq DEF BankInv, BankIsGood, Version
  <2> QED
    BY <2>1, BankVersionsAreTyped DEF IsBankVersion
<1> QED
  BY <1>1 DEF BankInv, BankIsGood, TemplatesAreGood, SchemasAreGood, BankTypeOK, BankRows,
              QuestionTemplates, Selections, SchemaRows

\* Every variable of the bank, its templates and the schemas has its type.
THEOREM BankTypeCorrect == BankSpec => []BankTypeOK
BY BankInductive, BankTypesAreIn, PTL

\* However questions are created and moved, and wherever, the orders of every
\* version of the bank are 1..n (createBaseQuestion, updateBaseQuestion).
THEOREM BankOrdersAreContiguousHolds == BankSpec => []BankOrdersAreContiguous
BY BankInductive, ContiguousIsIn, PTL

\* A schema's questions are active in the one version it cites and those of the
\* template it cites, whatever is published between the two reads
\* (publishProjectSchema, which takes no lock on the bank).
THEOREM SchemaCitesWhatItHoldsHolds == BankSpec => []SchemaCitesWhatItHolds
BY BankInductive, CitedIsIn, PTL

-----------------------------------------------------------------------------
(* Specifications: the comparison of two values is well defined.           *)

\* What the values consist of.
LEMMA JsonParts ==
  ASSUME NEW value \in JsonValues
  PROVE  /\ Parts(value) \subseteq JsonValues \ {Missing}
         /\ \A key \in DOMAIN value.fields : value.fields[key] \in Parts(value)
         /\ \A i \in DOMAIN value.items : value.items[i] \in Parts(value)
         /\ Len(value.items) \in Nat /\ DOMAIN value.items = 1..Len(value.items)
<1>1. /\ value.fields \in [DOMAIN value.fields -> JsonValues \ {Missing}]
      /\ value.items \in Seq(JsonValues \ {Missing})
  BY SpecificationsAssumption DEF SpecificationsAssumption
<1>2. \A i \in DOMAIN value.items : value.items[i] \in JsonValues \ {Missing}
  BY <1>1
<1>3. \A key \in DOMAIN value.fields : value.fields[key] \in JsonValues \ {Missing}
  BY <1>1
<1> QED BY <1>1, <1>2, <1>3 DEF Parts

\* What comparisons of the parts have in common, comparisons of the whole have.
LEMMA RecordChangesAreLocal ==
  ASSUME NEW f, NEW g, NEW p \in JsonValues, NEW c \in JsonValues,
         \A x \in Parts(p), y \in Parts(c) : f[<<x, y>>] = g[<<x, y>>]
  PROVE  RecordChanges(f, p.fields, c.fields) = RecordChanges(g, p.fields, c.fields)
<1>1. \A key \in DOMAIN p.fields \cap DOMAIN c.fields :
        f[<<p.fields[key], c.fields[key]>>] = g[<<p.fields[key], c.fields[key]>>]
  BY JsonParts
<1> QED BY <1>1 DEF RecordChanges

LEMMA ArrayChangesAreLocal ==
  ASSUME NEW f, NEW g, NEW p \in JsonValues, NEW c \in JsonValues,
         \A x \in Parts(p), y \in Parts(c) : f[<<x, y>>] = g[<<x, y>>]
  PROVE  ArrayChanges(f, p.items, c.items) = ArrayChanges(g, p.items, c.items)
<1> DEFINE P == p.items
           C == c.items
<1>1. \A i \in DOMAIN P, j \in DOMAIN C : f[<<P[i], C[j]>>] = g[<<P[i], C[j]>>]
  BY JsonParts
<1>2. /\ Len(P) \in Nat /\ DOMAIN P = 1..Len(P)
      /\ Len(C) \in Nat /\ DOMAIN C = 1..Len(C)
  BY JsonParts
<1> HIDE DEF P, C
<1>3. IndexedChanges(f, P, C) = IndexedChanges(g, P, C)
  <2>1. \A i \in DOMAIN P \cup DOMAIN C : ~(i > Len(P)) /\ ~(i > Len(C))
          => f[<<P[i], C[i]>>] = g[<<P[i], C[i]>>]
    BY <1>1, <1>2
  <2> QED BY <2>1 DEF IndexedChanges
<1>4. ASSUME NEW key
      PROVE  IdentifiedChanges(f, P, C, key) = IdentifiedChanges(g, P, C, key)
  <2> DEFINE Same(i, j) == Identity(P[i], key) = Identity(C[j], key)
             Paired(h, i) == UNION {Below(Index(j), h[<<P[i], C[j]>>])
                                    : j \in {k \in DOMAIN C : Same(i, k)}}
  <2>1. \A i \in DOMAIN P : Paired(f, i) = Paired(g, i)
    BY <1>1
  <2>2. UNION {Paired(f, i) : i \in DOMAIN P} = UNION {Paired(g, i) : i \in DOMAIN P}
    <3> HIDE DEF Paired
    <3> QED BY <2>1
  <2> QED BY <2>2 DEF IdentifiedChanges
<1> QED BY <1>3, <1>4 DEF ArrayChanges, P, C

LEMMA ComparisonIsLocal ==
  ASSUME NEW f, NEW g, NEW p \in JsonValues, NEW c \in JsonValues,
         \A x \in Parts(p), y \in Parts(c) : f[<<x, y>>] = g[<<x, y>>]
  PROVE  Comparison(f, p, c) = Comparison(g, p, c)
BY RecordChangesAreLocal, ArrayChangesAreLocal DEF Comparison

-----------------------------------------------------------------------------
\* Values with all that they consist of, and a comparison of them.
Closed(some) == \A value \in some : Parts(value) \subseteq some
Solves(g, some) == \A p \in some, c \in JsonValues : g[<<p, c>>] = Comparison(g, p, c)

\* Values can be looked at part by part.
LEMMA SmallestValue ==
  ASSUME NEW some \in SUBSET JsonValues, some # {}
  PROVE  \E value \in some : Parts(value) \cap some = {}
BY SpecificationsAssumption DEF SpecificationsAssumption

LEMMA SolutionsAgree ==
  ASSUME NEW D \in SUBSET JsonValues, NEW E \in SUBSET JsonValues, NEW f, NEW g,
         Closed(D), Closed(E), Solves(f, D), Solves(g, E)
  PROVE  \A p \in D \cap E, c \in JsonValues : f[<<p, c>>] = g[<<p, c>>]
<1> DEFINE differ == {p \in D \cap E : \E c \in JsonValues : f[<<p, c>>] # g[<<p, c>>]}
<1> SUFFICES ASSUME differ # {} PROVE FALSE
  OBVIOUS
<1>1. PICK p \in differ : Parts(p) \cap differ = {}
  BY SmallestValue
<1>2. PICK c \in JsonValues : f[<<p, c>>] # g[<<p, c>>]
  OBVIOUS
<1>3. Parts(p) \subseteq D \cap E /\ Parts(c) \subseteq JsonValues
  BY JsonParts DEF Closed
<1>4. \A x \in Parts(p), y \in Parts(c) : f[<<x, y>>] = g[<<x, y>>]
  BY <1>1, <1>3
<1>5. Comparison(f, p, c) = Comparison(g, p, c)
  BY <1>4, ComparisonIsLocal
<1> QED BY <1>2, <1>5 DEF Solves

Solvable == {value \in JsonValues :
  \E D \in SUBSET JsonValues : value \in D /\ Closed(D) /\ \E g : Solves(g, D)}
SolutionAt(p, c) == CHOOSE changes :
  \E D \in SUBSET JsonValues : \E g :
    p \in D /\ Closed(D) /\ Solves(g, D) /\ changes = g[<<p, c>>]
Solution == [pair \in Solvable \X JsonValues |-> SolutionAt(pair[1], pair[2])]

LEMMA SolutionSolves == Closed(Solvable) /\ Solves(Solution, Solvable)
<1>1. ASSUME NEW D \in SUBSET JsonValues, NEW g, Closed(D), Solves(g, D)
      PROVE  /\ D \subseteq Solvable
             /\ \A p \in D, c \in JsonValues : Solution[<<p, c>>] = g[<<p, c>>]
  <2>1. D \subseteq Solvable
    BY <1>1 DEF Solvable
  <2>2. ASSUME NEW p \in D, NEW c \in JsonValues
        PROVE  SolutionAt(p, c) = g[<<p, c>>]
    <3>1. \E changes : \E E \in SUBSET JsonValues : \E h :
            p \in E /\ Closed(E) /\ Solves(h, E) /\ changes = h[<<p, c>>]
      BY <1>1, <2>2
    <3>2. PICK E \in SUBSET JsonValues : \E h :
            p \in E /\ Closed(E) /\ Solves(h, E) /\ SolutionAt(p, c) = h[<<p, c>>]
      BY <3>1 DEF SolutionAt
    <3> QED BY <1>1, <2>2, <3>2, SolutionsAgree
  <2>3. ASSUME NEW p \in D, NEW c \in JsonValues
        PROVE  Solution[<<p, c>>] = SolutionAt(p, c)
    BY <2>1 DEF Solution
  <2> QED BY <2>1, <2>2, <2>3
<1>2. ASSUME NEW p \in Solvable
      PROVE  /\ Parts(p) \subseteq Solvable
             /\ \A c \in JsonValues : Solution[<<p, c>>] = Comparison(Solution, p, c)
  <2>1. PICK D \in SUBSET JsonValues : p \in D /\ Closed(D) /\ \E g : Solves(g, D)
    BY DEF Solvable
  <2>2. PICK g : Solves(g, D)
    BY <2>1
  <2>3. Parts(p) \subseteq D /\ D \subseteq Solvable
    BY <1>1, <2>1, <2>2 DEF Closed
  <2>4. ASSUME NEW c \in JsonValues
        PROVE  Solution[<<p, c>>] = Comparison(Solution, p, c)
    <3>3. \A x \in D, y \in JsonValues : Solution[<<x, y>>] = g[<<x, y>>]
      BY <1>1, <2>1, <2>2
    <3>4. Parts(c) \subseteq JsonValues
      BY JsonParts
    <3>1. \A x \in Parts(p), y \in Parts(c) : Solution[<<x, y>>] = g[<<x, y>>]
      BY <2>3, <3>3, <3>4
    <3>2. Comparison(Solution, p, c) = Comparison(g, p, c)
      BY <2>1, <3>1, ComparisonIsLocal
    <3> QED BY <1>1, <2>1, <2>2, <3>2 DEF Solves
  <2> QED BY <2>3, <2>4
<1> QED BY <1>2 DEF Closed, Solves

LEMMA AllIsSolvable == Solvable = JsonValues
<1> DEFINE rest == JsonValues \ Solvable
<1> SUFFICES ASSUME rest # {} PROVE FALSE
  BY DEF Solvable
<1>1. PICK value \in rest : Parts(value) \cap rest = {}
  BY SmallestValue
<1> DEFINE D == Solvable \cup {value}
           g == [pair \in D \X JsonValues |-> Comparison(Solution, pair[1], pair[2])]
<1>2. Closed(D)
  BY <1>1, JsonParts, SolutionSolves DEF Closed
<1>3. \A p \in D, c \in JsonValues : g[<<p, c>>] = Comparison(Solution, p, c)
  OBVIOUS
<1>4. \A p \in Solvable, c \in JsonValues : g[<<p, c>>] = Solution[<<p, c>>]
  BY <1>3, SolutionSolves DEF Solves
<1> HIDE DEF g
<1>5. ASSUME NEW p \in D, NEW c \in JsonValues
      PROVE  Comparison(g, p, c) = Comparison(Solution, p, c)
  <2>1. p \in JsonValues
    BY DEF Solvable
  <2>2. Parts(p) \subseteq Solvable
    BY <1>1, JsonParts, SolutionSolves DEF Closed
  <2>3. \A x \in Parts(p), y \in Parts(c) : g[<<x, y>>] = Solution[<<x, y>>]
    BY <1>4, <2>2, JsonParts
  <2> QED BY <2>1, <2>3, ComparisonIsLocal
<1>6. Solves(g, D)
  BY <1>3, <1>5 DEF Solves
<1>7. D \in SUBSET JsonValues
  BY DEF Solvable
<1>8. value \in Solvable
  BY <1>2, <1>6, <1>7 DEF Solvable
<1> QED BY <1>8

\* The recursive definition of Changes has the solution it seems to have.
LEMMA ChangesAreCompared ==
  ASSUME NEW p \in JsonValues, NEW c \in JsonValues
  PROVE  Changes[<<p, c>>] = Comparison(Changes, p, c)
<1> DEFINE IsChanges(f) ==
      f = [pair \in JsonValues \X JsonValues |-> Comparison(f, pair[1], pair[2])]
<1>1. \A x, y \in JsonValues : Solution[<<x, y>>] = Comparison(Solution, x, y)
  BY SolutionSolves, AllIsSolvable DEF Solves
<1>2. Solution = [pair \in JsonValues \X JsonValues |-> Solution[pair]]
  BY AllIsSolvable DEF Solution
<1>3. \A pair \in JsonValues \X JsonValues :
        Solution[pair] = Comparison(Solution, pair[1], pair[2])
  BY <1>1
<1>4. IsChanges(Solution)
  BY <1>2, <1>3
<1>5. Changes = CHOOSE f : IsChanges(f)
  BY DEF Changes
<1>6. IsChanges(Changes)
  BY <1>4, <1>5
<1> QED BY <1>6

-----------------------------------------------------------------------------
(* What the comparison of two values finds.                                *)

Steps == {Key(name) : name \in UNION {DOMAIN value.fields : value \in JsonValues}}
           \cup {Index(i) : i \in Nat}
FoundChanges == [kind : {"added", "removed", "changed"}, path : Seq(Steps)]

\* What is compared below a step, is compared on a path that begins with it.
LEMMA BelowStep ==
  ASSUME NEW step \in Steps, NEW changes, changes \subseteq FoundChanges
  PROVE  /\ Below(step, changes) \subseteq FoundChanges
         /\ Below(step, changes) = {} <=> changes = {}
         /\ \A change \in Below(step, changes) :
              change.path # <<>> /\ change.path[1] = step
<1>1. ASSUME NEW path \in Seq(Steps)
      PROVE  /\ <<step>> \o path \in Seq(Steps)
             /\ <<step>> \o path # <<>> /\ (<<step>> \o path)[1] = step
  OBVIOUS
<1>2. \A change \in changes : change.kind \in {"added", "removed", "changed"}
                             /\ change.path \in Seq(Steps)
  BY DEF FoundChanges
<1>3. /\ Below(step, changes) = {} <=> changes = {}
      /\ \A new \in Below(step, changes) : \E change \in changes :
           new = [kind |-> change.kind, path |-> <<step>> \o change.path]
  BY DEF Below
<1>4. ASSUME NEW new \in Below(step, changes)
      PROVE  new \in FoundChanges /\ new.path # <<>> /\ new.path[1] = step
  <2>1. PICK change \in changes :
          new = [kind |-> change.kind, path |-> <<step>> \o change.path]
    BY <1>3
  <2>2. new.kind = change.kind /\ new.path = <<step>> \o change.path
    BY <2>1
  <2>3. new \in FoundChanges
    BY <1>1, <1>2, <2>1 DEF FoundChanges
  <2> QED BY <1>1, <1>2, <2>2, <2>3
<1> QED BY <1>3, <1>4

LEMMA ChangeAt ==
  ASSUME NEW kind \in {"added", "removed", "changed"}, NEW path \in Seq(Steps)
  PROVE  Change(kind, path) \subseteq FoundChanges /\ Change(kind, path) # {}
BY DEF Change, FoundChanges

\* A change at a place is compared at a path of steps.
LEMMA ComparisonFinds ==
  ASSUME NEW p \in JsonValues, NEW c \in JsonValues, NEW compared,
         \A x \in Parts(p), y \in Parts(c) : compared[<<x, y>>] \subseteq FoundChanges
  PROVE  Comparison(compared, p, c) \subseteq FoundChanges
<1> DEFINE P == p.items
           C == c.items
<1>1. /\ <<>> \in Seq(Steps)
      /\ \A step \in Steps : <<step>> \in Seq(Steps)
  OBVIOUS
<1>2. \A kind \in {"added", "removed", "changed"} :
        /\ Change(kind, <<>>) \subseteq FoundChanges
        /\ \A step \in Steps : Change(kind, <<step>>) \subseteq FoundChanges
  BY <1>1, ChangeAt
<1>3. /\ \A key \in DOMAIN p.fields \cup DOMAIN c.fields : Key(key) \in Steps
      /\ \A i \in Nat : Index(i) \in Steps
  BY DEF Steps
<1>4. RecordChanges(compared, p.fields, c.fields) \subseteq FoundChanges
  <2>1. \A key \in DOMAIN p.fields \cap DOMAIN c.fields :
          Below(Key(key), compared[<<p.fields[key], c.fields[key]>>]) \subseteq FoundChanges
    BY <1>3, JsonParts, BelowStep
  <2> QED BY <1>2, <1>3, <2>1 DEF RecordChanges
<1>5. /\ Len(P) \in Nat /\ DOMAIN P = 1..Len(P)
      /\ Len(C) \in Nat /\ DOMAIN C = 1..Len(C)
  BY JsonParts
<1>6. \A i \in DOMAIN P, j \in DOMAIN C :
        Below(Index(j), compared[<<P[i], C[j]>>]) \subseteq FoundChanges
  BY <1>3, <1>5, JsonParts, BelowStep
<1> HIDE DEF P, C
<1>7. IndexedChanges(compared, P, C) \subseteq FoundChanges
  <2>1. \A i \in DOMAIN P \cup DOMAIN C :
          /\ i \in Nat
          /\ ~(i > Len(P)) /\ ~(i > Len(C)) => i \in DOMAIN P /\ i \in DOMAIN C
    BY <1>5
  <2>2. \A i \in DOMAIN P \cup DOMAIN C :
          (IF i > Len(P) THEN Change("added", <<Index(i)>>)
           ELSE IF i > Len(C) THEN Change("removed", <<Index(i)>>)
           ELSE Below(Index(i), compared[<<P[i], C[i]>>])) \subseteq FoundChanges
    BY <1>2, <1>3, <1>6, <2>1
  <2> QED BY <2>2 DEF IndexedChanges
<1>8. ASSUME NEW key PROVE IdentifiedChanges(compared, P, C, key) \subseteq FoundChanges
  <2>1. \A i \in DOMAIN P : Change("removed", <<Index(i)>>) \subseteq FoundChanges
    BY <1>2, <1>3, <1>5
  <2>2. \A j \in DOMAIN C : Change("added", <<Index(j)>>) \subseteq FoundChanges
    BY <1>2, <1>3, <1>5
  <2>3. ASSUME NEW i \in DOMAIN P, NEW some, some \subseteq DOMAIN C
        PROVE  UNION {Below(Index(j), compared[<<P[i], C[j]>>]) : j \in some} \subseteq FoundChanges
    BY <1>6, <2>3
  <2> QED BY <1>2, <2>1, <2>2, <2>3 DEF IdentifiedChanges
<1>9. ArrayChanges(compared, P, C) \subseteq FoundChanges
  BY <1>7, <1>8 DEF ArrayChanges
<1> QED BY <1>2, <1>4, <1>9 DEF Comparison, P, C

LEMMA ChangesAreFound ==
  ASSUME NEW p \in JsonValues, NEW c \in JsonValues
  PROVE  Changes[<<p, c>>] \subseteq FoundChanges
<1> DEFINE strange == {x \in JsonValues :
                         \E y \in JsonValues : ~(Changes[<<x, y>>] \subseteq FoundChanges)}
<1> SUFFICES ASSUME strange # {} PROVE FALSE
  OBVIOUS
<1>1. PICK x \in strange : Parts(x) \cap strange = {}
  BY SmallestValue
<1>2. PICK y \in JsonValues : ~(Changes[<<x, y>>] \subseteq FoundChanges)
  OBVIOUS
<1>3. \A u \in Parts(x), v \in Parts(y) : Changes[<<u, v>>] \subseteq FoundChanges
  BY <1>1, JsonParts
<1>4. Comparison(Changes, x, y) \subseteq FoundChanges
  BY <1>3, ComparisonFinds
<1> QED BY <1>2, <1>4, ChangesAreCompared

-----------------------------------------------------------------------------
(* A comparison finds a change exactly if the values differ.               *)

\* The shape of a value is told by its kind.
LEMMA JsonShape ==
  ASSUME NEW value \in JsonValues
  PROVE  /\ value.kind = "array" => value = Array(value.items)
         /\ value.kind = "object" => value = Object(value.fields)
         /\ value = NullValue <=> value.kind = "null"
         /\ value = Missing <=> value.kind = "missing"
<1>1. value \in {Missing, NullValue, Atom(value.atom), Object(value.fields),
                Array(value.items)}
  BY SpecificationsAssumption DEF SpecificationsAssumption
<1>2. CASE value = Missing
  BY <1>2 DEF Missing, NullValue, Json
<1>3. CASE value = NullValue
  BY <1>3 DEF Missing, NullValue, Json
<1>4. CASE value = Atom(value.atom)
  <2>1. value.kind = "atom"
    BY <1>4 DEF Atom, Json
  <2> QED BY <2>1 DEF Missing, NullValue, Json
<1>5. CASE value = Object(value.fields)
  <2>1. value.kind = "object"
    BY <1>5 DEF Object, Json
  <2> QED BY <1>5, <2>1 DEF Missing, NullValue, Json
<1>6. CASE value = Array(value.items)
  <2>1. value.kind = "array"
    BY <1>6 DEF Array, Json
  <2> QED BY <1>6, <2>1 DEF Missing, NullValue, Json
<1> QED BY <1>1, <1>2, <1>3, <1>4, <1>5, <1>6

\* Comparisons of the parts that find a change exactly if the parts differ.
TellsApart(compared, P, C) ==
  \A x \in P, y \in C :
    /\ compared[<<x, y>>] \subseteq FoundChanges
    /\ compared[<<x, y>>] = {} <=> x = y

Stays(P, C, key) == key \in DOMAIN P /\ key \in DOMAIN C /\ P[key] = C[key]

\* Of two objects, every field that differs is compared, and nothing else.
LEMMA FieldsAreNamed ==
  ASSUME NEW p \in JsonValues, NEW c \in JsonValues, NEW compared,
         TellsApart(compared, Parts(p), Parts(c))
  PROVE  /\ \A change \in RecordChanges(compared, p.fields, c.fields) : change.path # <<>>
         /\ \A key \in DOMAIN p.fields \cup DOMAIN c.fields :
              Stays(p.fields, c.fields, key)
                <=> \A change \in RecordChanges(compared, p.fields, c.fields) :
                      change.path[1] # Key(key)
<1> DEFINE P == p.fields
           C == c.fields
           keys == DOMAIN P \cup DOMAIN C
           piece(key) == IF key \notin DOMAIN P THEN Change("added", <<Key(key)>>)
                         ELSE IF key \notin DOMAIN C THEN Change("removed", <<Key(key)>>)
                         ELSE Below(Key(key), compared[<<P[key], C[key]>>])
<1>1. ASSUME NEW key \in keys
      PROVE  /\ \A change \in piece(key) : change.path # <<>> /\ change.path[1] = Key(key)
             /\ piece(key) = {} <=> Stays(P, C, key)
  <2>1. Key(key) \in Steps
    BY DEF Steps
  <2>2. CASE key \in DOMAIN P /\ key \in DOMAIN C
    <3>1. P[key] \in Parts(p) /\ C[key] \in Parts(c)
      BY <2>2, JsonParts
    <3>2. piece(key) = Below(Key(key), compared[<<P[key], C[key]>>])
      BY <2>2
    <3> HIDE DEF piece, P, C
    <3> QED BY <2>1, <2>2, <3>1, <3>2, BelowStep DEF TellsApart, Stays
  <2>3. CASE ~(key \in DOMAIN P /\ key \in DOMAIN C)
    <3>1. <<Key(key)>> # <<>> /\ <<Key(key)>>[1] = Key(key)
      OBVIOUS
    <3>2. \A kind : /\ Change(kind, <<Key(key)>>) # {}
                    /\ \A change \in Change(kind, <<Key(key)>>) : change.path = <<Key(key)>>
      BY DEF Change
    <3>3. \E kind : piece(key) = Change(kind, <<Key(key)>>)
      BY <2>3
    <3>4. ~Stays(P, C, key)
      BY <2>3 DEF Stays
    <3> HIDE DEF piece, P, C
    <3> QED BY <3>1, <3>2, <3>3, <3>4
  <2> QED BY <2>2, <2>3
<1>2. RecordChanges(compared, P, C) = UNION {piece(key) : key \in keys}
  BY DEF RecordChanges
<1>3. \A key, other \in keys : Key(key) = Key(other) => key = other
  BY DEF Key
<1> HIDE DEF piece, keys
<1>4. \A change \in RecordChanges(compared, P, C) : \E key \in keys : change \in piece(key)
  BY <1>2
<1>5. \A key \in keys : piece(key) \subseteq RecordChanges(compared, P, C)
  BY <1>2
<1>6. ASSUME NEW key \in keys
      PROVE  Stays(P, C, key)
               <=> \A change \in RecordChanges(compared, P, C) : change.path[1] # Key(key)
  <2>1. piece(key) = {}
          <=> \A change \in RecordChanges(compared, P, C) : change.path[1] # Key(key)
    BY <1>1, <1>3, <1>4, <1>5
  <2> QED BY <1>1, <2>1
<1>7. \A change \in RecordChanges(compared, P, C) : change.path # <<>>
  BY <1>1, <1>4
<1> QED BY <1>6, <1>7 DEF keys

LEMMA RecordsToldApart ==
  ASSUME NEW p \in JsonValues, NEW c \in JsonValues, NEW compared,
         TellsApart(compared, Parts(p), Parts(c))
  PROVE  RecordChanges(compared, p.fields, c.fields) = {} <=> p.fields = c.fields
<1> DEFINE P == p.fields
           C == c.fields
           changes == RecordChanges(compared, P, C)
<1>1. \A key \in DOMAIN P \cup DOMAIN C :
        Stays(P, C, key) <=> \A change \in changes : change.path[1] # Key(key)
  BY FieldsAreNamed
<1>2. P = [key \in DOMAIN P |-> P[key]] /\ C = [key \in DOMAIN C |-> C[key]]
  BY SpecificationsAssumption DEF SpecificationsAssumption
<1>3. ASSUME \A key \in DOMAIN P \cup DOMAIN C : Stays(P, C, key)
      PROVE  P = C
  <2>1. DOMAIN P = DOMAIN C /\ \A key \in DOMAIN P : P[key] = C[key]
    BY <1>3 DEF Stays
  <2> QED BY <1>2, <2>1
<1>4. ASSUME P = C, NEW change \in changes
      PROVE  FALSE
  <2>1. PICK key \in DOMAIN P \cup DOMAIN C : change.path[1] = Key(key)
    <3>1. PICK key \in DOMAIN P \cup DOMAIN C :
            change \in (IF key \notin DOMAIN P THEN Change("added", <<Key(key)>>)
                       ELSE IF key \notin DOMAIN C THEN Change("removed", <<Key(key)>>)
                       ELSE Below(Key(key), compared[<<P[key], C[key]>>]))
      BY <1>4 DEF RecordChanges
    <3>2. key \in DOMAIN P /\ key \in DOMAIN C
      BY <1>4
    <3>3. P[key] \in Parts(p) /\ C[key] \in Parts(c) /\ Key(key) \in Steps
      BY <3>2, JsonParts DEF Steps
    <3> QED BY <3>1, <3>2, <3>3, BelowStep DEF TellsApart
  <2> QED BY <1>1, <1>4, <2>1 DEF Stays
<1> QED BY <1>1, <1>3, <1>4

LEMMA IndexedToldApart ==
  ASSUME NEW p \in JsonValues, NEW c \in JsonValues, NEW compared,
         TellsApart(compared, Parts(p), Parts(c))
  PROVE  IndexedChanges(compared, p.items, c.items) = {} <=> p.items = c.items
<1> DEFINE P == p.items
           C == c.items
           piece(i) == IF i > Len(P) THEN Change("added", <<Index(i)>>)
                       ELSE IF i > Len(C) THEN Change("removed", <<Index(i)>>)
                       ELSE Below(Index(i), compared[<<P[i], C[i]>>])
<1>0. P \in Seq(JsonValues \ {Missing}) /\ C \in Seq(JsonValues \ {Missing})
  BY SpecificationsAssumption DEF SpecificationsAssumption
<1>1. /\ Len(P) \in Nat /\ DOMAIN P = 1..Len(P)
      /\ Len(C) \in Nat /\ DOMAIN C = 1..Len(C)
  BY JsonParts
<1>2. \A i \in DOMAIN P, j \in DOMAIN C :
        /\ Index(i) \in Steps
        /\ Below(Index(i), compared[<<P[i], C[j]>>]) = {} <=> P[i] = C[j]
  <2>1. ASSUME NEW i \in DOMAIN P, NEW j \in DOMAIN C
        PROVE  P[i] \in Parts(p) /\ C[j] \in Parts(c) /\ Index(i) \in Steps
    BY <1>1, JsonParts DEF Steps
  <2> QED BY <2>1, BelowStep DEF TellsApart
<1> HIDE DEF P, C
<1>3. IndexedChanges(compared, P, C) = UNION {piece(i) : i \in DOMAIN P \cup DOMAIN C}
  BY DEF IndexedChanges
<1>4. ASSUME NEW i \in DOMAIN P \cup DOMAIN C
      PROVE  piece(i) = {} <=> i \in DOMAIN P /\ i \in DOMAIN C /\ P[i] = C[i]
  <2>1. \A kind : Change(kind, <<Index(i)>>) # {}
    BY DEF Change
  <2>2. CASE i \notin DOMAIN P
    <3>1. i > Len(P)
      BY <1>1, <2>2
    <3> QED BY <2>1, <2>2, <3>1
  <2>3. CASE i \in DOMAIN P /\ i \notin DOMAIN C
    <3>1. ~(i > Len(P)) /\ i > Len(C)
      BY <1>1, <2>3
    <3> QED BY <2>1, <2>3, <3>1
  <2>4. CASE i \in DOMAIN P /\ i \in DOMAIN C
    <3>1. ~(i > Len(P)) /\ ~(i > Len(C))
      BY <1>1, <2>4
    <3> QED BY <1>2, <2>4, <3>1
  <2> QED BY <2>2, <2>3, <2>4
<1> HIDE DEF piece
<1>5. IndexedChanges(compared, P, C) = {}
        <=> \A i \in DOMAIN P \cup DOMAIN C :
              i \in DOMAIN P /\ i \in DOMAIN C /\ P[i] = C[i]
  BY <1>3, <1>4
<1>6. ASSUME \A i \in DOMAIN P \cup DOMAIN C :
               i \in DOMAIN P /\ i \in DOMAIN C /\ P[i] = C[i]
      PROVE  P = C
  <2>1. \A i \in Nat : i \in 1..Len(P) <=> i \in 1..Len(C)
    BY <1>1, <1>6
  <2>2. Len(P) = Len(C)
    <3>1. Len(P) > 0 => Len(P) \in 1..Len(C)
      BY <1>1, <2>1
    <3>2. Len(C) > 0 => Len(C) \in 1..Len(P)
      BY <1>1, <2>1
    <3> DEFINE m == Len(P)
               n == Len(C)
    <3>3. /\ m \in Nat /\ (m > 0 => m \in 1..n)
          /\ n \in Nat /\ (n > 0 => n \in 1..m)
      BY <1>1, <3>1, <3>2
    <3> HIDE DEF m, n
    <3>4. m = n
      BY <3>3
    <3> QED BY <3>4 DEF m, n
  <2>3. \A i \in 1..Len(P) : P[i] = C[i]
    BY <1>1, <1>6
  <2> QED BY <1>0, <2>2, <2>3, SeqEqual
<1> QED BY <1>5, <1>6 DEF P, C

\* Elements that have different names are compared with one element each.
LEMMA NoLonger ==
  ASSUME NEW m \in Nat, NEW n \in Nat, NEW same,
         \A i \in 1..m : \E j \in 1..n : <<i, j>> \in same,
         \A i, k \in 1..m : \A j \in 1..n : <<i, j>> \in same /\ <<k, j>> \in same => i = k
  PROVE  m <= n
<1> DEFINE partner == [i \in 1..m |-> CHOOSE j \in 1..n : <<i, j>> \in same]
<1>1. \A i \in 1..m : partner[i] \in 1..n /\ <<i, partner[i]>> \in same
  OBVIOUS
<1>2. partner \in [1..m -> 1..n]
  BY <1>1
<1>3. IsFiniteSet(1..m) /\ Cardinality(1..m) = m /\ IsFiniteSet(1..n) /\ Cardinality(1..n) = n
  BY FS_Interval
<1> HIDE DEF partner
<1>4. \A i, k \in 1..m : partner[i] = partner[k] => i = k
  BY <1>1
<1>5. n < m => \E i, k \in 1..m : i # k /\ partner[i] = partner[k]
  BY <1>2, <1>3, FS_PigeonHole
<1> QED BY <1>4, <1>5

LEMMA IdentifiedToldApart ==
  ASSUME NEW p \in JsonValues, NEW c \in JsonValues, NEW compared, NEW key,
         TellsApart(compared, Parts(p), Parts(c)),
         UniquelyIdentified(p.items, key), UniquelyIdentified(c.items, key)
  PROVE  IdentifiedChanges(compared, p.items, c.items, key) = {} <=> p.items = c.items
<1> DEFINE P == p.items
           C == c.items
           Same(i, j) == Identity(P[i], key) = Identity(C[j], key)
           Kept(i) == UNION {Below(Index(j), compared[<<P[i], C[j]>>])
                             : j \in {k \in DOMAIN C : Same(i, k)}}
           Lost == {k \in DOMAIN P : \A j \in DOMAIN C : ~Same(k, j)}
           New == {k \in DOMAIN C : \A i \in DOMAIN P : ~Same(i, k)}
<1>0. P \in Seq(JsonValues \ {Missing}) /\ C \in Seq(JsonValues \ {Missing})
  BY SpecificationsAssumption DEF SpecificationsAssumption
<1>1. /\ Len(P) \in Nat /\ DOMAIN P = 1..Len(P)
      /\ Len(C) \in Nat /\ DOMAIN C = 1..Len(C)
  BY JsonParts
<1>2. \A i \in DOMAIN P, j \in DOMAIN C :
        Below(Index(j), compared[<<P[i], C[j]>>]) = {} <=> P[i] = C[j]
  <2>1. ASSUME NEW i \in DOMAIN P, NEW j \in DOMAIN C
        PROVE  P[i] \in Parts(p) /\ C[j] \in Parts(c) /\ Index(j) \in Steps
    BY <1>1, JsonParts DEF Steps
  <2> QED BY <2>1, BelowStep DEF TellsApart
<1>3. /\ \A i, j \in DOMAIN P : Identity(P[i], key) = Identity(P[j], key) => i = j
      /\ \A i, j \in DOMAIN C : Identity(C[i], key) = Identity(C[j], key) => i = j
  BY DEF UniquelyIdentified
<1> HIDE DEF P, C
<1>4. IdentifiedChanges(compared, P, C, key) =
        (IF OrderChanged(P, C, key) THEN Change("changed", <<>>) ELSE {})
          \cup (UNION {Kept(i) : i \in DOMAIN P})
          \cup (UNION {Change("removed", <<Index(i)>>) : i \in Lost})
          \cup (UNION {Change("added", <<Index(j)>>) : j \in New})
  BY DEF IdentifiedChanges
<1>5. \A kind, path : Change(kind, path) # {}
  BY DEF Change
<1>6. ASSUME NEW i \in DOMAIN P
      PROVE  Kept(i) = {} <=> \A j \in DOMAIN C : Same(i, j) => P[i] = C[j]
  <2> HIDE DEF Same
  <2>1. Kept(i) = {} <=>
          \A j \in DOMAIN C : Same(i, j) => Below(Index(j), compared[<<P[i], C[j]>>]) = {}
    OBVIOUS
  <2> QED BY <1>2, <2>1
<1> HIDE DEF Kept, Lost, New
<1>7. IdentifiedChanges(compared, P, C, key) = {} <=>
        ~OrderChanged(P, C, key) /\ Lost = {} /\ New = {}
          /\ \A i \in DOMAIN P : Kept(i) = {}
  <2>1. (UNION {Kept(i) : i \in DOMAIN P}) = {} <=> \A i \in DOMAIN P : Kept(i) = {}
    OBVIOUS
  <2>2. (IF OrderChanged(P, C, key) THEN Change("changed", <<>>) ELSE {}) = {}
          <=> ~OrderChanged(P, C, key)
    BY <1>5
  <2> DEFINE removed(i) == Change("removed", <<Index(i)>>)
             added(j) == Change("added", <<Index(j)>>)
  <2>3. \A i : removed(i) # {} /\ added(i) # {}
    BY <1>5
  <2>4. IdentifiedChanges(compared, P, C, key) =
          (IF OrderChanged(P, C, key) THEN Change("changed", <<>>) ELSE {})
            \cup (UNION {Kept(i) : i \in DOMAIN P})
            \cup (UNION {removed(i) : i \in Lost}) \cup (UNION {added(j) : j \in New})
    BY <1>4
  <2> HIDE DEF removed, added
  <2>5. /\ (UNION {removed(i) : i \in Lost}) = {} <=> \A i \in Lost : removed(i) = {}
        /\ (UNION {added(j) : j \in New}) = {} <=> \A j \in New : added(j) = {}
    OBVIOUS
  <2> QED BY <2>1, <2>2, <2>3, <2>4, <2>5
<1>8. ASSUME ~OrderChanged(P, C, key), Lost = {}, New = {},
             \A i \in DOMAIN P, j \in DOMAIN C : Same(i, j) => P[i] = C[j]
      PROVE  P = C
  <2> DEFINE same == {pair \in (1..Len(P)) \X (1..Len(C)) : Same(pair[1], pair[2])}
             reversed == {pair \in (1..Len(C)) \X (1..Len(P)) : Same(pair[2], pair[1])}
  <2>1. Len(P) <= Len(C)
    <3>1. \A i \in 1..Len(P) : \E j \in 1..Len(C) : <<i, j>> \in same
      BY <1>1, <1>8 DEF Lost
    <3>2. \A i, k \in 1..Len(P) : \A j \in 1..Len(C) :
            <<i, j>> \in same /\ <<k, j>> \in same => i = k
      BY <1>1, <1>3
    <3> HIDE DEF same
    <3> QED BY <1>1, <3>1, <3>2, NoLonger
  <2>2. Len(C) <= Len(P)
    <3>1. \A j \in 1..Len(C) : \E i \in 1..Len(P) : <<j, i>> \in reversed
      BY <1>1, <1>8 DEF New
    <3>2. \A j, k \in 1..Len(C) : \A i \in 1..Len(P) :
            <<j, i>> \in reversed /\ <<k, i>> \in reversed => j = k
      BY <1>1, <1>3
    <3> HIDE DEF reversed
    <3> QED BY <1>1, <3>1, <3>2, NoLonger
  <2>3. Len(P) = Len(C)
    <3> DEFINE m == Len(P)
               n == Len(C)
    <3>1. m \in Nat /\ n \in Nat /\ m <= n /\ n <= m
      BY <1>1, <2>1, <2>2
    <3> HIDE DEF m, n
    <3>2. m = n
      BY <3>1
    <3> QED BY <3>2 DEF m, n
  <2>4. \A i \in 1..Len(P) : P[i] = C[i]
    BY <1>1, <1>8, <2>3 DEF OrderChanged
  <2> QED BY <1>0, <2>3, <2>4, SeqEqual
<1>9. ASSUME P = C
      PROVE  /\ ~OrderChanged(P, C, key) /\ Lost = {} /\ New = {}
             /\ \A i \in DOMAIN P, j \in DOMAIN C : Same(i, j) => P[i] = C[j]
  BY <1>3, <1>9 DEF OrderChanged, Lost, New
<1> HIDE DEF Same
<1> QED BY <1>6, <1>7, <1>8, <1>9 DEF P, C

LEMMA ArraysToldApart ==
  ASSUME NEW p \in JsonValues, NEW c \in JsonValues, NEW compared,
         TellsApart(compared, Parts(p), Parts(c))
  PROVE  ArrayChanges(compared, p.items, c.items) = {} <=> p.items = c.items
<1>1. CASE ArrayKeys(p.items, c.items) = {}
  BY <1>1, IndexedToldApart DEF ArrayChanges
<1>2. CASE ArrayKeys(p.items, c.items) # {}
  <2>1. ArrayKey(p.items, c.items) \in ArrayKeys(p.items, c.items)
    BY <1>2 DEF ArrayKey, ArrayKeys
  <2> DEFINE key == ArrayKey(p.items, c.items)
  <2>2. UniquelyIdentified(p.items, key) /\ UniquelyIdentified(c.items, key)
    BY <2>1 DEF ArrayKeys
  <2>3. ArrayChanges(compared, p.items, c.items) =
          IdentifiedChanges(compared, p.items, c.items, key)
    BY <1>2 DEF ArrayChanges
  <2> HIDE DEF key
  <2>4. IdentifiedChanges(compared, p.items, c.items, key) = {} <=> p.items = c.items
    BY <2>2, IdentifiedToldApart
  <2> QED BY <2>3, <2>4
<1> QED BY <1>1, <1>2

LEMMA ComparisonTellsApart ==
  ASSUME NEW p \in JsonValues \ {Missing}, NEW c \in JsonValues \ {Missing}, NEW compared,
         TellsApart(compared, Parts(p), Parts(c))
  PROVE  Comparison(compared, p, c) = {} <=> p = c
<1>1. \A kind, path : Change(kind, path) # {}
  BY DEF Change
<1>2. CASE p.kind = "array" /\ c.kind = "array"
  <2>1. p # NullValue /\ c # NullValue
    BY <1>2, JsonShape
  <2>2. Comparison(compared, p, c) = ArrayChanges(compared, p.items, c.items)
    BY <1>2, <2>1 DEF Comparison
  <2>3. p = c <=> p.items = c.items
    BY <1>2, JsonShape
  <2> QED BY <2>2, <2>3, ArraysToldApart
<1>3. CASE p.kind = "object" /\ c.kind = "object"
  <2>1. p # NullValue /\ c # NullValue
    BY <1>3, JsonShape
  <2>2. Comparison(compared, p, c) = RecordChanges(compared, p.fields, c.fields)
    BY <1>3, <2>1 DEF Comparison
  <2>3. p = c <=> p.fields = c.fields
    BY <1>3, JsonShape
  <2> QED BY <2>2, <2>3, RecordsToldApart
<1>4. CASE /\ ~(p.kind = "array" /\ c.kind = "array")
           /\ ~(p.kind = "object" /\ c.kind = "object")
  BY <1>1, <1>4 DEF Comparison
<1> QED BY <1>2, <1>3, <1>4

LEMMA ChangesTellApart ==
  ASSUME NEW p \in JsonValues \ {Missing}, NEW c \in JsonValues \ {Missing}
  PROVE  Changes[<<p, c>>] = {} <=> p = c
<1> DEFINE Told(x, y) == Changes[<<x, y>>] = {} <=> x = y
           confused == {x \in JsonValues \ {Missing} :
                          \E y \in JsonValues \ {Missing} : ~Told(x, y)}
<1> SUFFICES ASSUME confused # {} PROVE FALSE
  OBVIOUS
<1>1. PICK x \in confused : Parts(x) \cap confused = {}
  BY SmallestValue
<1>2. PICK y \in JsonValues \ {Missing} : ~Told(x, y)
  OBVIOUS
<1>3. \A u \in Parts(x), v \in Parts(y) : Told(u, v)
  BY <1>1, JsonParts
<1>4. TellsApart(Changes, Parts(x), Parts(y))
  BY <1>3, ChangesAreFound, JsonParts DEF TellsApart
<1>5. Comparison(Changes, x, y) = {} <=> x = y
  BY <1>4, ComparisonTellsApart
<1> QED BY <1>2, <1>5, ChangesAreCompared

-----------------------------------------------------------------------------
(* Specifications: what the versions and their summaries are.              *)

\* The summary of a section names its changes.
Faithful(p, c, changes) ==
  LET named == {change.path : change \in changes} IN
  /\ p = c <=> named = {}
  /\ p.kind = "object" /\ c.kind = "object" =>
       /\ <<>> \notin named
       /\ \A key \in DOMAIN p.fields \cup DOMAIN c.fields :
            Stays(p.fields, c.fields, key) <=> \A path \in named : path[1] # Key(key)

LEMMA SectionIsFaithful ==
  ASSUME NEW p \in JsonValues, NEW c \in JsonValues
  PROVE  Section(p, c) \subseteq FoundChanges /\ Faithful(p, c, Section(p, c))
<1>1. CASE p = c
  <2>1. Section(p, c) = {}
    BY <1>1 DEF Section
  <2>2. \A key \in DOMAIN p.fields \cup DOMAIN c.fields : Stays(p.fields, c.fields, key)
    BY <1>1 DEF Stays
  <2> QED BY <1>1, <2>1, <2>2 DEF Faithful
<1>2. CASE p # c
  <2>1. \A kind, path : Change(kind, path) # {}
    BY DEF Change
  <2>2. Changes[<<p, c>>] # {}
    <3>1. CASE p = Missing \/ c = Missing
      <4>1. Comparison(Changes, p, c) \in {Change("added", <<>>), Change("removed", <<>>)}
        BY <1>2, <3>1 DEF Comparison, Missing, NullValue, Json
      <4> QED BY <2>1, <4>1, ChangesAreCompared
    <3>2. CASE p # Missing /\ c # Missing
      BY <1>2, <3>2, ChangesTellApart
    <3> QED BY <3>1, <3>2
  <2>3. Section(p, c) = Changes[<<p, c>>]
    BY <1>2, <2>2 DEF Section
  <2>4. Section(p, c) \subseteq FoundChanges /\ {change.path : change \in Section(p, c)} # {}
    BY <2>2, <2>3, ChangesAreFound
  <2>5. ASSUME p.kind = "object", c.kind = "object"
        PROVE  /\ \A change \in Section(p, c) : change.path # <<>>
               /\ \A key \in DOMAIN p.fields \cup DOMAIN c.fields :
                    Stays(p.fields, c.fields, key)
                      <=> \A change \in Section(p, c) : change.path[1] # Key(key)
    <3>1. p \notin {Missing, NullValue} /\ c \notin {Missing, NullValue}
      BY <2>5, JsonShape
    <3>2. Changes[<<p, c>>] = RecordChanges(Changes, p.fields, c.fields)
      BY <2>5, <3>1, ChangesAreCompared DEF Comparison
    <3>3. TellsApart(Changes, Parts(p), Parts(c))
      BY JsonParts, ChangesTellApart, ChangesAreFound DEF TellsApart
    <3> QED BY <2>3, <3>2, <3>3, FieldsAreNamed
  <2> QED BY <1>2, <2>4, <2>5 DEF Faithful
<1> QED BY <1>1, <1>2

-----------------------------------------------------------------------------
(* Specifications: the versions and their summaries.                       *)

\* Every version says what changed since the one before it.
Revisions == [previous : Nat, source : Snapshots, summary : SUBSET FoundChanges,
              template : SpecificationTemplates, version : Nat, content : Contents]
SpecPages == [listed : Nat, template : SpecificationTemplates \cup {None}, requested : Nat,
              shown : Nat, loading : Nat, details : SUBSET Nat]

Compared ==
  \A v \in DOMAIN revisions :
    /\ revisions[v].previous = v - 1
    /\ v > 1 => revisions[v].summary = Section(revisions[v - 1].source, revisions[v].source)

\* The page has only versions there are.
PageIsBehind ==
  /\ specPage.listed <= Len(revisions)
  /\ specPage.shown <= Len(revisions)
  /\ specPage.details \subseteq DOMAIN revisions

SpecificationsInv ==
  /\ archived \in BOOLEAN
  /\ sources \in Snapshots
  /\ templates \in [SpecificationTemplates ->
                      [draft : Contents \cup {None}, versions : Seq(Contents)]]
  /\ chosen \in SpecificationTemplates \cup {None}
  /\ revisions \in Seq(Revisions)
  /\ specPage \in SpecPages
  /\ Compared
  /\ PageIsBehind

LEMMA SpecificationsInvImplies ==
  SpecificationsInv => SpecificationsTypeOK /\ SummaryNamesThePlace
<1> SUFFICES ASSUME SpecificationsInv PROVE SpecificationsTypeOK /\ SummaryNamesThePlace
  OBVIOUS
<1>1. SpecificationsTypeOK
  BY DEF SpecificationsInv, SpecificationsTypeOK, Compared, PageIsBehind, SpecPages
<1>2. ASSUME NEW v \in DOMAIN revisions, v > 1
      PROVE  Faithful(revisions[v - 1].source, revisions[v].source, revisions[v].summary)
  <2>1. v - 1 \in DOMAIN revisions
    BY <1>2 DEF SpecificationsInv
  <2>2. \A w \in DOMAIN revisions : revisions[w].source \in JsonValues
    <3>1. \A w \in DOMAIN revisions : revisions[w] \in Revisions
      BY DEF SpecificationsInv
    <3> QED BY <3>1, SpecificationsAssumption DEF Revisions, SpecificationsAssumption
  <2>3. revisions[v].summary = Section(revisions[v - 1].source, revisions[v].source)
    BY <1>2 DEF SpecificationsInv, Compared
  <2> QED BY <2>1, <2>2, <2>3, SectionIsFaithful
<1>3. SummaryNamesThePlace
  BY <1>2 DEF SummaryNamesThePlace, Faithful, Stays
<1> QED BY <1>1, <1>3

LEMMA SpecificationsStart == SpecificationsInit => SpecificationsInv
<1> SUFFICES ASSUME SpecificationsInit PROVE SpecificationsInv
  OBVIOUS
<1>1. /\ {} \in Contents /\ <<{}>> \in Seq(Contents) /\ <<>> \in Seq(Contents)
      /\ <<>> \in Seq(Revisions) /\ DOMAIN <<>> = {} /\ Len(<<>>) = 0
  BY DEF Contents
<1>2. templates \in [SpecificationTemplates ->
                       [draft : Contents \cup {None}, versions : Seq(Contents)]]
  BY <1>1 DEF SpecificationsInit
<1>3. specPage \in SpecPages
  BY DEF SpecificationsInit, NothingListed, SpecPages
<1>4. Compared /\ PageIsBehind
  BY <1>1 DEF SpecificationsInit, NothingListed, Compared, PageIsBehind
<1> QED BY <1>1, <1>2, <1>3, <1>4 DEF SpecificationsInit, SpecificationsInv

\* Selecting a version of the list leaves the page behind the versions.
LEMMA SelectIsBehind ==
  ASSUME NEW page \in SpecPages, NEW requested \in Nat, NEW n \in Nat,
         page.listed <= n, page.shown <= n, page.details \subseteq 1..n
  PROVE  /\ Select(page, requested) \in SpecPages
         /\ Select(page, requested).listed <= n
         /\ Select(page, requested).shown <= n
         /\ Select(page, requested).details \subseteq 1..n
<1> DEFINE candidate == IF requested \in 1..page.listed THEN requested ELSE page.listed
<1>1. candidate \in Nat /\ candidate <= n
  BY DEF SpecPages
<1> HIDE DEF candidate
<1>2. CASE candidate = 0
  <2>1. Select(page, requested) = [page EXCEPT !.shown = 0]
    BY <1>2 DEF Select, candidate
  <2> QED BY <2>1 DEF SpecPages
<1>3. CASE candidate # 0 /\ candidate \in {page.shown, page.loading}
  <2>1. Select(page, requested) = page
    BY <1>3 DEF Select, candidate
  <2> QED BY <2>1
<1>4. CASE candidate # 0 /\ candidate \notin {page.shown, page.loading}
  <2>1. Select(page, requested) =
          [page EXCEPT !.loading = candidate, !.details = @ \cup {candidate}]
    BY <1>4 DEF Select, candidate
  <2>2. candidate \in 1..n /\ page.details \cup {candidate} \in SUBSET Nat
    BY <1>1, <1>4 DEF SpecPages
  <2>3. Select(page, requested) \in SpecPages
    BY <1>1, <2>1, <2>2 DEF SpecPages
  <2>4. /\ Select(page, requested).listed = page.listed
        /\ Select(page, requested).shown = page.shown
        /\ Select(page, requested).details = page.details \cup {candidate}
    BY <2>1 DEF SpecPages
  <2> QED BY <2>2, <2>3, <2>4
<1> QED BY <1>2, <1>3, <1>4

\* A version that is created says what changed since the latest one.
LEMMA RevisionCreated ==
  ASSUME SpecificationsInv, NEW t \in SpecificationTemplates, CreateRevision(t)
  PROVE  /\ archived' \in BOOLEAN /\ sources' \in Snapshots
         /\ templates' = templates /\ chosen' \in SpecificationTemplates \cup {None}
         /\ revisions' \in Seq(Revisions)
         /\ Len(revisions') = Len(revisions) + 1
         /\ Compared'
<1> DEFINE versions == templates[t].versions
           revision == [previous |-> Len(revisions), source |-> sources,
                        summary |-> Summary, template |-> t,
                        version |-> Len(versions), content |-> versions[Len(versions)]]
<1>1. /\ t \in PublishedTemplates /\ revisions' = Append(revisions, revision)
      /\ chosen' = t /\ UNCHANGED <<archived, sources, templates>>
  BY DEF CreateRevision
<1>2. versions \in Seq(Contents) /\ versions # <<>>
  BY <1>1 DEF SpecificationsInv, PublishedTemplates
<1>3. Len(versions) \in Nat /\ versions[Len(versions)] \in Contents
  BY <1>2
<1>4. /\ Len(revisions) \in Nat /\ DOMAIN revisions = 1..Len(revisions)
      /\ \A v \in 1..Len(revisions) : revisions[v] \in Revisions
  BY DEF SpecificationsInv
<1>5. /\ Summary \in SUBSET FoundChanges
      /\ Len(revisions) > 0 => Summary = Section(revisions[Len(revisions)].source, sources)
  <2>1. CASE revisions = <<>>
    BY <2>1 DEF Summary
  <2>2. CASE revisions # <<>>
    <3>1. Len(revisions) \in 1..Len(revisions)
      BY <2>2 DEF SpecificationsInv
    <3>2. revisions[Len(revisions)].source \in JsonValues /\ sources \in JsonValues
      BY <1>4, <3>1, SpecificationsAssumption
      DEF Revisions, SpecificationsInv, SpecificationsAssumption
    <3>3. Summary = Section(revisions[Len(revisions)].source, sources)
      BY <2>2 DEF Summary, LatestRevision
    <3> QED BY <3>2, <3>3, SectionIsFaithful
  <2> QED BY <2>1, <2>2
<1>6. revision \in Revisions
  BY <1>3, <1>4, <1>5 DEF Revisions, SpecificationsInv
<1> HIDE DEF revision
<1>7. /\ revisions' \in Seq(Revisions) /\ Len(revisions') = Len(revisions) + 1
      /\ \A v \in 1..Len(revisions) : revisions'[v] = revisions[v]
      /\ revisions'[Len(revisions) + 1] = revision
  <2>1. revisions \in Seq(Revisions)
    BY DEF SpecificationsInv
  <2> QED BY <1>1, <1>6, <2>1, AppendProperties
<1>8. ASSUME NEW v \in DOMAIN revisions'
      PROVE  /\ revisions'[v].previous = v - 1
             /\ v > 1 => revisions'[v].summary =
                           Section(revisions'[v - 1].source, revisions'[v].source)
  <2>1. v \in 1..(Len(revisions) + 1)
    BY <1>7
  <2>2. CASE v \in 1..Len(revisions)
    <3>1. v > 1 => v - 1 \in 1..Len(revisions)
      BY <2>2
    <3> QED BY <1>4, <1>7, <2>2, <3>1 DEF SpecificationsInv, Compared
  <2>3. CASE v = Len(revisions) + 1
    <3>1. revisions'[v] = revision /\ v - 1 = Len(revisions)
      BY <1>4, <1>7, <2>3
    <3>2. v > 1 => v - 1 \in 1..Len(revisions)
      BY <1>4, <2>3
    <3>3. /\ revision.previous = Len(revisions) /\ revision.source = sources
          /\ revision.summary = Summary
      BY DEF revision
    <3> QED BY <1>4, <1>5, <1>7, <3>1, <3>2, <3>3
  <2> QED BY <1>4, <2>1, <2>2, <2>3
<1>9. Compared'
  BY <1>8 DEF Compared
<1> QED BY <1>1, <1>7, <1>9 DEF SpecificationsInv

LEMMA SpecificationsStep ==
  SpecificationsInv /\ [SpecificationsNext]_specificationVars => SpecificationsInv'
<1> SUFFICES ASSUME SpecificationsInv, [SpecificationsNext]_specificationVars
             PROVE  SpecificationsInv'
  OBVIOUS
<1>0. /\ Len(revisions) \in Nat /\ DOMAIN revisions = 1..Len(revisions)
      /\ specPage \in SpecPages /\ specPage.listed <= Len(revisions)
      /\ specPage.shown <= Len(revisions) /\ specPage.details \subseteq 1..Len(revisions)
  BY DEF SpecificationsInv, PageIsBehind
<1>a. \* The versions stay; the page may change.
  ASSUME UNCHANGED <<archived, sources, templates, chosen, revisions>>,
         specPage' \in SpecPages, specPage'.listed <= Len(revisions),
         specPage'.shown <= Len(revisions), specPage'.details \subseteq 1..Len(revisions)
  PROVE  SpecificationsInv'
  BY <1>0, <1>a DEF SpecificationsInv, Compared, PageIsBehind
<1>b. \* The versions and the page stay.
  ASSUME UNCHANGED <<revisions, specPage>>, archived' \in BOOLEAN, sources' \in Snapshots,
         templates' \in [SpecificationTemplates ->
                           [draft : Contents \cup {None}, versions : Seq(Contents)]],
         chosen' \in SpecificationTemplates \cup {None}
  PROVE  SpecificationsInv'
  BY <1>b DEF SpecificationsInv, Compared, PageIsBehind
<1>c. Proposed \in SpecificationTemplates
  BY SpecificationsAssumption DEF SpecificationsInv, SpecificationsAssumption, Proposed
<1>1. ASSUME NEW t \in SpecificationTemplates, PublishTemplateDraft(t) PROVE SpecificationsInv'
  <2>1. templates[t].draft \in Contents /\ templates[t].versions \in Seq(Contents)
    BY <1>1 DEF SpecificationsInv, PublishTemplateDraft
  <2>2. Append(templates[t].versions, templates[t].draft) \in Seq(Contents)
    BY <2>1, AppendProperties
  <2> QED BY <1>1, <1>b, <2>2 DEF SpecificationsInv, PublishTemplateDraft
<1>2. ASSUME NEW t \in SpecificationTemplates, NEW content \in Contents,
             SaveTemplateDraft(t, content)
      PROVE  SpecificationsInv'
  BY <1>2, <1>b DEF SpecificationsInv, SaveTemplateDraft
<1>3. CASE LoadSpecifications
  <2> DEFINE page == [specPage EXCEPT !.listed = Len(revisions), !.template = Proposed]
  <2>1. /\ page \in SpecPages /\ page.listed = Len(revisions)
        /\ page.shown = specPage.shown /\ page.details = specPage.details
    BY <1>0, <1>c DEF SpecPages
  <2>2. specPage' = Select(page, specPage.requested)
    BY <1>3 DEF LoadSpecifications
  <2>3. specPage.requested \in Nat
    BY <1>0 DEF SpecPages
  <2> HIDE DEF page
  <2>4. /\ specPage' \in SpecPages /\ specPage'.listed <= Len(revisions)
        /\ specPage'.shown <= Len(revisions) /\ specPage'.details \subseteq 1..Len(revisions)
    BY <1>0, <2>1, <2>2, <2>3, SelectIsBehind
  <2> QED BY <1>3, <1>a, <2>4 DEF LoadSpecifications
<1>4. ASSUME NEW requested \in DOMAIN revisions, Navigate(requested) PROVE SpecificationsInv'
  <2> DEFINE page == [specPage EXCEPT !.requested = requested]
  <2>1. requested \in Nat
    BY <1>0
  <2>2. /\ page \in SpecPages /\ page.listed = specPage.listed
        /\ page.shown = specPage.shown /\ page.details = specPage.details
    BY <1>0, <2>1 DEF SpecPages
  <2>3. specPage' \in {page, Select(page, requested)}
    BY <1>4 DEF Navigate
  <2> HIDE DEF page
  <2>4. /\ specPage' \in SpecPages /\ specPage'.listed <= Len(revisions)
        /\ specPage'.shown <= Len(revisions) /\ specPage'.details \subseteq 1..Len(revisions)
    BY <1>0, <2>1, <2>2, <2>3, SelectIsBehind
  <2> QED BY <1>4, <1>a, <2>4 DEF Navigate
<1>5. CASE Generate
  <2> DEFINE n == Len(revisions')
             page == [specPage EXCEPT !.listed = n, !.requested = n]
  <2>1. specPage.template \in SpecificationTemplates /\ CreateRevision(specPage.template)
    BY <1>0, <1>5 DEF Generate, SpecPages
  <2>2. /\ archived' \in BOOLEAN /\ sources' \in Snapshots
        /\ templates' = templates /\ chosen' \in SpecificationTemplates \cup {None}
        /\ revisions' \in Seq(Revisions) /\ n = Len(revisions) + 1 /\ Compared'
    BY <2>1, RevisionCreated
  <2>3. specPage' = Select(page, n)
    BY <1>5 DEF Generate
  <2> HIDE DEF n
  <2>4. /\ n \in Nat /\ page \in SpecPages /\ page.listed <= n
        /\ page.shown <= n /\ page.details \subseteq 1..n
    <3>1. n \in Nat /\ Len(revisions) <= n /\ 1..Len(revisions) \subseteq 1..n
      BY <1>0, <2>2
    <3>2. /\ page \in SpecPages /\ page.listed = n
          /\ page.shown = specPage.shown /\ page.details = specPage.details
      BY <1>0, <3>1 DEF SpecPages
    <3>3. specPage.shown \in Nat
      BY <1>0 DEF SpecPages
    <3> HIDE DEF page
    <3> QED BY <1>0, <3>1, <3>2, <3>3
  <2> HIDE DEF page
  <2>5. /\ specPage' \in SpecPages /\ specPage'.listed <= n /\ specPage'.shown <= n
        /\ specPage'.details \subseteq 1..n
    BY <2>3, <2>4, SelectIsBehind
  <2>6. DOMAIN revisions' = 1..n
    BY <2>2 DEF n
  <2> QED BY <2>2, <2>5, <2>6 DEF SpecificationsInv, PageIsBehind, n
<1>6. ASSUME NEW revision \in DOMAIN revisions, NEW answered \in BOOLEAN,
             ReceiveDetail(revision, answered)
      PROVE  SpecificationsInv'
  <2>1. /\ specPage' \in SpecPages /\ specPage'.listed <= Len(revisions)
        /\ specPage'.shown <= Len(revisions) /\ specPage'.details \subseteq 1..Len(revisions)
    <3> DEFINE shown == IF answered THEN revision ELSE 0
    <3>1. /\ specPage' = [specPage EXCEPT !.details = @ \ {revision}, !.loading = 0,
                                          !.shown = shown]
          /\ shown \in Nat /\ shown <= Len(revisions)
      BY <1>0, <1>6 DEF ReceiveDetail
    <3> HIDE DEF shown
    <3>2. /\ specPage'.listed = specPage.listed /\ specPage'.shown = shown
          /\ specPage'.details = specPage.details \ {revision}
      BY <1>0, <3>1 DEF SpecPages
    <3>3. specPage' \in SpecPages
      BY <1>0, <3>1 DEF SpecPages
    <3> QED BY <1>0, <3>1, <3>2, <3>3
  <2> QED BY <1>6, <1>a, <2>1 DEF ReceiveDetail
<1>7. CASE CreateMilestone
  <2>1. CreateRevision(Proposed) /\ specPage' = specPage
    BY <1>7 DEF CreateMilestone
  <2>2. /\ archived' \in BOOLEAN /\ sources' \in Snapshots
        /\ templates' = templates /\ chosen' \in SpecificationTemplates \cup {None}
        /\ revisions' \in Seq(Revisions) /\ Len(revisions') = Len(revisions) + 1 /\ Compared'
    BY <1>c, <2>1, RevisionCreated
  <2>3. DOMAIN revisions' = 1..Len(revisions')
    BY <2>2
  <2>4. PageIsBehind'
    <3> DEFINE n == Len(revisions)
    <3>1. /\ n \in Nat /\ Len(revisions') = n + 1 /\ DOMAIN revisions' = 1..(n + 1)
          /\ specPage.listed <= n /\ specPage.shown <= n /\ specPage.details \subseteq 1..n
          /\ specPage.listed \in Nat /\ specPage.shown \in Nat
      BY <1>0, <2>2, <2>3 DEF SpecPages
    <3> HIDE DEF n
    <3>2. /\ specPage.listed <= n + 1 /\ specPage.shown <= n + 1
          /\ specPage.details \subseteq 1..(n + 1)
      BY <3>1
    <3> QED BY <2>1, <3>1, <3>2 DEF PageIsBehind
  <2> QED BY <2>1, <2>2, <2>4 DEF SpecificationsInv
<1>8. CASE SourcesMove
  BY <1>8, <1>b DEF SpecificationsInv, SourcesMove
<1>9. CASE ArchiveOrRestoreAround
  BY <1>9, <1>b DEF SpecificationsInv, ArchiveOrRestoreAround
<1>10. CASE UNCHANGED specificationVars
  BY <1>10, <1>b DEF SpecificationsInv, specificationVars
<1> QED
  BY <1>1, <1>2, <1>3, <1>4, <1>5, <1>6, <1>7, <1>8, <1>9, <1>10 DEF SpecificationsNext

LEMMA SpecificationsInvHolds == SpecificationsSpec => []SpecificationsInv
BY SpecificationsStart, SpecificationsStep, PTL DEF SpecificationsSpec

\* What the versions, the templates and the page hold is of the kind the code
\* gives it: the version before is the one with the number before, and the page
\* shows or loads only versions there are (markdown.service.ts, markdown.page.ts).
THEOREM SpecificationsTypeCorrect == SpecificationsSpec => []SpecificationsTypeOK
BY SpecificationsInvHolds, SpecificationsInvImplies, PTL

\* The summary of a version names a change exactly if the section differs from
\* the one before it, and of a section that is there in both it names a field
\* exactly if the field was added, dropped, changed or moved, for snapshots of
\* any depth and arrays matched by position or by name (summarizeChanges,
\* collectChanges).
THEOREM SummaryNamesThePlaceHolds == SpecificationsSpec => []SummaryNamesThePlace
BY SpecificationsInvHolds, SpecificationsInvImplies, PTL
=============================================================================
