------------------------- MODULE MailboxSync_proofs -------------------------
(***************************************************************************)
(* Proofs about MailboxSync for any number of replicas and messages, any   *)
(* page size and any lease.                                                *)
(***************************************************************************)
EXTENDS MailboxSync, TLAPS

-----------------------------------------------------------------------------
(* What the readers compute.                                               *)

\* A page covers positions of the mailbox and the cursor never moves back.
LEMMA PagePositions ==
  ASSUME TypeOK, NEW p \in Replicas, refresh[p].stage = "reading"
  PROVE  /\ UidNext \in Nat
         /\ FromUid(p) \in Nat
         /\ UpperUid(p) \in Int
         /\ Kept(p) \subseteq References
         /\ ReadUpTo(p) \in Nat
         /\ refresh[p].cursor # None => ReadUpTo(p) >= refresh[p].cursor.nextUid
         /\ ~LastPage(p) => FromUid(p) + PageSize \in Nat /\ UpperUid(p) \in Nat
  <1>1. PageSize \in Nat /\ PageSize > 0 /\ None \notin Int
    BY ConstantsAssumption DEF ConstantsAssumption
  <1>2. Len(mailbox.messages) \in Nat /\ mailbox.uidValidity \in Nat
    BY DEF TypeOK
  <1>3. UidNext \in Nat
    BY <1>2 DEF UidNext
  <1>4. refresh[p].cursor \in Checkpoints \cup {None}
    BY DEF TypeOK
  <1>5. FromUid(p) \in Nat
    BY <1>4 DEF FromUid, Checkpoints
  <1>6. UpperUid(p) \in Int
    BY <1>3, <1>4 DEF UpperUid, Checkpoints
  <1>7. PageUids(p) \subseteq Nat
    BY <1>5, <1>6 DEF PageUids
  <1>8. Kept(p) \subseteq References
    BY <1>2, <1>7 DEF Kept, References
  <1>9. ReadUpTo(p) \in Nat
    BY <1>3, <1>5, <1>6 DEF ReadUpTo
  <1>10. ASSUME refresh[p].cursor # None
         PROVE  ReadUpTo(p) >= refresh[p].cursor.nextUid
    BY <1>5, <1>6, <1>10 DEF ReadUpTo, FirstBaseline, FromUid
  <1>11. ASSUME ~LastPage(p)
         PROVE  FromUid(p) + PageSize \in Nat /\ UpperUid(p) \in Nat
    BY <1>1, <1>5, <1>6, <1>11 DEF LastPage
  <1> QED
    BY <1>3, <1>5, <1>6, <1>8, <1>9, <1>10, <1>11

-----------------------------------------------------------------------------
(* The inductive invariant.                                                *)

Refreshing == [stage : Stages, state : SyncStates, cursor : Checkpoints \cup {None},
               cutoff : Times, changes : SUBSET References]

\* A successful refresh knows the position up to which it has read.
Positioned ==
  \A p \in Replicas :
    refresh[p].stage \in {"read", "done"} => refresh[p].state.checkpoint # None

\* A position at or after the stored one.
Ahead(position) ==
  row.state.checkpoint # None =>
    /\ position # None
    /\ position.uidValidity = row.state.checkpoint.uidValidity
    /\ position.nextUid >= row.state.checkpoint.nextUid

\* The refresh that holds the lease is never behind the row: nobody else has
\* stored a checkpoint since its claim.
HolderIsAhead ==
  \A p \in Replicas :
    row.leaseToken = p /\ refresh[p].stage # "idle" =>
      /\ refresh[p].state.checkpoint = None \/ Ahead(refresh[p].state.checkpoint)
      /\ refresh[p].stage = "reading" => Ahead(refresh[p].cursor)

SyncInv == TypeOK /\ Positioned /\ HolderIsAhead

-----------------------------------------------------------------------------
(* Type correctness of the steps.                                          *)

LEMMA IdleIsTyped == Idle \in Refreshing
  BY DEF Idle, Unknown, Refreshing, Stages, SyncStates, Times

\* A new record of one replica's refresh keeps all of them typed.
LEMMA RefreshUpdate ==
  ASSUME TypeOK, NEW p \in Replicas, NEW r \in Refreshing,
         refresh' = [refresh EXCEPT ![p] = r],
         UNCHANGED <<clock, mailbox, row, inbox, inbound, events, history>>
  PROVE  TypeOK'
  <1>1. refresh' \in [Replicas -> Refreshing]
    BY DEF TypeOK, Refreshing
  <1> QED
    BY <1>1 DEF TypeOK, Refreshing

\* Complete is the only step that stores messages and the sync state.
LEMMA CompleteKeepsTypes ==
  ASSUME TypeOK, Positioned, NEW p \in Replicas, Complete(p)
  PROVE  TypeOK'
  <1>1. refresh[p] \in Refreshing
    BY DEF TypeOK, Refreshing
  <1>2. refresh' \in [Replicas -> Refreshing]
    BY IdleIsTyped DEF Complete, TypeOK, Refreshing
  <1>3. row' \in [state : SyncStates, leaseToken : Replicas \cup {None},
                  leaseExpiresAt : Nat]
    BY <1>1 DEF Complete, Refreshing
  <1>4. inbox' \subseteq References
    BY <1>1 DEF Complete, Ingest, TypeOK, Refreshing
  <1>5. inbound' \subseteq inbox' /\ events' \subseteq inbox'
    BY DEF Complete, Ingest, New, TypeOK
  <1>6. history' \in [nextUid : Nat, before : Times, cutoff : Times]
    <2>1. history \in [nextUid : Nat, before : Times, cutoff : Times]
      BY DEF TypeOK
    <2>2. CASE refresh[p].stage = "failed"
      BY <2>1, <2>2 DEF Complete
    <2>3. CASE refresh[p].stage = "done"
      <3>1. /\ refresh[p].state.lastSuccessfulSyncAt \in Times
            /\ refresh[p].cutoff \in Times
            /\ refresh[p].state.checkpoint.nextUid \in Nat
        BY <1>1, <2>3 DEF Positioned, Refreshing, SyncStates, Checkpoints
      <3>2. PICK n \in Nat, b \in Times, c \in Times :
              history' = [[[history EXCEPT !.nextUid = n] EXCEPT !.before = b]
                            EXCEPT !.cutoff = c]
        <4> DEFINE n == IF history.before = None
                        THEN refresh[p].state.checkpoint.nextUid
                        ELSE history.nextUid
                   b == IF history.before = None
                        THEN refresh[p].state.lastSuccessfulSyncAt
                        ELSE history.before
                   c == IF row.state.baselineEstablished
                        THEN history.cutoff ELSE refresh[p].cutoff
        <4>1. history' = [[[history EXCEPT !.nextUid = n] EXCEPT !.before = b]
                            EXCEPT !.cutoff = c]
          BY <2>3, Zenon DEF Complete
        <4>2. n \in Nat /\ b \in Times /\ c \in Times
          BY <2>1, <3>1
        <4> HIDE DEF n, b, c
        <4> QED
          BY <4>1, <4>2
      <3> QED
        BY <2>1, <3>2
    <2> QED
      BY <2>2, <2>3 DEF Complete
  <1>7. clock' \in Nat /\ mailbox' = mailbox
    BY DEF Complete, TypeOK
  <1> QED
    BY <1>2, <1>3, <1>4, <1>5, <1>6, <1>7 DEF TypeOK, Refreshing

LEMMA ReadPageKeepsTypes ==
  ASSUME TypeOK, NEW p \in Replicas, NEW from, ReadPage(p, from)
  PROVE  TypeOK'
  <1>1. refresh[p] \in Refreshing
    BY DEF TypeOK, Refreshing
  <1>2. /\ Kept(p) \subseteq References
        /\ ReadUpTo(p) \in Nat
        /\ ~LastPage(p) => FromUid(p) + PageSize \in Nat /\ UpperUid(p) \in Nat
    BY PagePositions DEF ReadPage
  <1>3. mailbox.uidValidity \in Nat
    BY DEF TypeOK
  <1>4. Cursor(ReadUpTo(p), 0) \in Checkpoints
    BY <1>2, <1>3 DEF Cursor, Checkpoints
  <1>5. ~LastPage(p) => Cursor(FromUid(p) + PageSize, UpperUid(p)) \in Checkpoints
    BY <1>2, <1>3 DEF Cursor, Checkpoints
  <1>6. refresh[p].changes \cup Kept(p) \in SUBSET References
    BY <1>1, <1>2 DEF Refreshing
  <1>7. CASE LastPage(p)
    <2> DEFINE r == [refresh[p] EXCEPT
                       !.changes = refresh[p].changes \cup Kept(p),
                       !.stage = "read",
                       !.cursor = refresh[p].cursor,
                       !.state.checkpoint = Cursor(ReadUpTo(p), 0)]
    <2>1. refresh' = [refresh EXCEPT ![p] = r]
      BY <1>7 DEF ReadPage, TypeOK
    <2>2. r \in Refreshing
      BY <1>1, <1>4, <1>6 DEF Refreshing, SyncStates, Stages
    <2> HIDE DEF r
    <2> QED
      BY <2>1, <2>2, RefreshUpdate DEF ReadPage
  <1>8. CASE ~LastPage(p)
    <2> DEFINE r == [refresh[p] EXCEPT
                       !.changes = refresh[p].changes \cup Kept(p),
                       !.stage = "reading",
                       !.cursor = Cursor(FromUid(p) + PageSize, UpperUid(p)),
                       !.state.checkpoint = refresh[p].state.checkpoint]
    <2>1. refresh' = [refresh EXCEPT ![p] = r]
      BY <1>8, <1>1 DEF ReadPage, TypeOK, Refreshing, SyncStates
    <2>2. r \in Refreshing
      BY <1>1, <1>5, <1>6, <1>8 DEF Refreshing, SyncStates, Stages
    <2> HIDE DEF r
    <2> QED
      BY <2>1, <2>2, RefreshUpdate DEF ReadPage
  <1> QED
    BY <1>7, <1>8

LEMMA ClaimKeepsTypes ==
  ASSUME TypeOK, NEW p \in Replicas, Claim(p)
  PROVE  TypeOK'
  <1>1. row \in [state : SyncStates, leaseToken : Replicas \cup {None},
                 leaseExpiresAt : Nat]
    BY DEF TypeOK
  <1>2. clock + Lease \in Nat
    BY ConstantsAssumption DEF ConstantsAssumption, TypeOK
  <1>3. row' \in [state : SyncStates, leaseToken : Replicas \cup {None},
                  leaseExpiresAt : Nat]
    BY <1>1, <1>2 DEF Claim
  <1>4. /\ row.state \in SyncStates
        /\ row.state.checkpoint \in Checkpoints \cup {None}
        /\ row.state.lastSuccessfulSyncAt \in Times
    BY <1>1 DEF SyncStates
  <1>5. [Idle EXCEPT !.stage = "reading", !.state = row.state,
                     !.cursor = row.state.checkpoint,
                     !.cutoff = row.state.lastSuccessfulSyncAt] \in Refreshing
    BY <1>4, IdleIsTyped DEF Refreshing, Stages
  <1>6. refresh' \in [Replicas -> Refreshing]
    BY <1>5 DEF Claim, TypeOK, Refreshing
  <1> QED
    BY <1>3, <1>6 DEF Claim, TypeOK, Refreshing

\* The steps of a refresh that only change its record.
LEMMA LocalStepsKeepTypes ==
  ASSUME TypeOK, NEW p \in Replicas,
         Succeed(p) \/ ReadFails(p) \/ CursorIsInvalid(p) \/ Fenced(p) \/ Crash(p)
  PROVE  TypeOK'
  <1>1. refresh[p] \in Refreshing
    BY DEF TypeOK, Refreshing
  <1>2. CASE Succeed(p)
    <2>1. clock \in Times
      BY DEF TypeOK, Times
    <2>2. [refresh[p] EXCEPT !.stage = "done",
                             !.state.baselineEstablished = TRUE,
                             !.state.lastSuccessfulSyncAt = clock] \in Refreshing
      BY <1>1, <2>1 DEF Refreshing, SyncStates, Stages
    <2>3. refresh' = [refresh EXCEPT ![p] =
            [refresh[p] EXCEPT !.stage = "done",
                               !.state.baselineEstablished = TRUE,
                               !.state.lastSuccessfulSyncAt = clock]]
      BY <1>2 DEF Succeed, TypeOK
    <2> QED
      BY <1>2, <2>2, <2>3, RefreshUpdate DEF Succeed
  <1>3. CASE ReadFails(p)
    <2>1. [refresh[p] EXCEPT !.stage = "failed", !.changes = {}] \in Refreshing
      BY <1>1 DEF Refreshing, Stages
    <2>2. refresh' = [refresh EXCEPT ![p] =
            [refresh[p] EXCEPT !.stage = "failed", !.changes = {}]]
      BY <1>3 DEF ReadFails, TypeOK
    <2> QED
      BY <1>3, <2>1, <2>2, RefreshUpdate DEF ReadFails
  <1>4. CASE CursorIsInvalid(p)
    <2>1. [refresh[p] EXCEPT !.stage = "failed", !.changes = {},
                             !.state.checkpoint = None,
                             !.state.baselineEstablished = FALSE] \in Refreshing
      BY <1>1 DEF Refreshing, SyncStates, Stages
    <2>2. refresh' = [refresh EXCEPT ![p] =
            [refresh[p] EXCEPT !.stage = "failed", !.changes = {},
                               !.state.checkpoint = None,
                               !.state.baselineEstablished = FALSE]]
      BY <1>4 DEF CursorIsInvalid, TypeOK
    <2> QED
      BY <1>4, <2>1, <2>2, RefreshUpdate DEF CursorIsInvalid
  <1>5. CASE Fenced(p) \/ Crash(p)
    BY <1>5, IdleIsTyped, RefreshUpdate DEF Fenced, Crash
  <1> QED
    BY <1>2, <1>3, <1>4, <1>5

LEMMA OutsideStepsKeepTypes ==
  ASSUME TypeOK, Arrivals \/ Rebuild \/ Tick
  PROVE  TypeOK'
  <1> DEFINE Mail == [kind : Kinds, identified : Identified, receivedAt : Nat]
  <1>1. clock \in Nat /\ Skew \in Nat
    BY ConstantsAssumption DEF ConstantsAssumption, TypeOK
  <1>2. mailbox \in [uidValidity : Nat, messages : Seq(Mail)]
    BY DEF TypeOK
  <1>3. CASE Arrivals
    <2>1. PICK kind \in Kinds, identified \in Identified,
               receivedAt \in {t \in (clock - Skew)..(clock + Skew) : t >= 0} :
            Arrive(kind, identified, receivedAt)
      BY <1>3 DEF Arrivals
    <2>2. receivedAt \in Nat
      BY <1>1
    <2>3. [kind |-> kind, identified |-> identified, receivedAt |-> receivedAt] \in Mail
      BY <2>2
    <2>4. mailbox.messages \in Seq(Mail)
      BY <1>2
    <2> HIDE DEF Mail
    <2>5. Append(mailbox.messages,
                 [kind |-> kind, identified |-> identified, receivedAt |-> receivedAt])
            \in Seq(Mail)
      BY <2>3, <2>4
    <2>6. mailbox' \in [uidValidity : Nat, messages : Seq(Mail)]
      BY <1>2, <2>1, <2>5 DEF Arrive
    <2> QED
      BY <2>1, <2>6 DEF Arrive, TypeOK, Mail
  <1>4. CASE Rebuild
    <2>1. mailbox.uidValidity + 1 \in Nat
      BY <1>2
    <2> HIDE DEF Mail
    <2>2. mailbox' \in [uidValidity : Nat, messages : Seq(Mail)]
      BY <1>2, <1>4, <2>1 DEF Rebuild
    <2> QED
      BY <1>4, <2>2 DEF Rebuild, TypeOK, Mail
  <1>5. CASE Tick
    BY <1>1, <1>5 DEF Tick, TypeOK
  <1> QED
    BY <1>3, <1>4, <1>5

-----------------------------------------------------------------------------
(* The invariant holds in the beginning and is preserved.                  *)

LEMMA SyncInvInit == Init => SyncInv
  <1> SUFFICES ASSUME Init PROVE SyncInv
    OBVIOUS
  <1>1. Unknown \in SyncStates
    BY DEF Unknown, SyncStates, Times
  <1>2. row \in [state : SyncStates, leaseToken : Replicas \cup {None},
                 leaseExpiresAt : Nat]
    BY <1>1 DEF Init
  <1>3. refresh \in [Replicas -> Refreshing]
    BY IdleIsTyped DEF Init
  <1>4. mailbox \in [uidValidity : Nat,
                     messages : Seq([kind : Kinds, identified : Identified,
                                     receivedAt : Nat])]
    BY DEF Init
  <1>5. TypeOK
    BY <1>2, <1>3, <1>4 DEF Init, TypeOK, Refreshing, Times
  <1>6. Positioned /\ HolderIsAhead
    BY DEF Init, Positioned, HolderIsAhead, Idle
  <1> QED
    BY <1>5, <1>6 DEF SyncInv

\* A step that leaves the row and every other refresh alone needs to be looked
\* at for its own replica only.
LEMMA LocalStep ==
  ASSUME TypeOK, Positioned, HolderIsAhead, NEW p \in Replicas, row' = row,
         \A q \in Replicas \ {p} : refresh'[q] = refresh[q],
         refresh'[p].stage \in {"read", "done"} =>
           refresh'[p].state.checkpoint # None,
         row.leaseToken = p /\ refresh'[p].stage # "idle" =>
           /\ \/ refresh'[p].state.checkpoint = None
              \/ Ahead(refresh'[p].state.checkpoint)
           /\ refresh'[p].stage = "reading" => Ahead(refresh'[p].cursor)
  PROVE  Positioned' /\ HolderIsAhead'
  BY DEF Positioned, HolderIsAhead, Ahead

LEMMA ReadPageStaysAhead ==
  ASSUME TypeOK, Positioned, HolderIsAhead, NEW p \in Replicas, NEW from,
         ReadPage(p, from)
  PROVE  Positioned' /\ HolderIsAhead'
  <1>1. refresh[p].cursor \in Checkpoints \cup {None}
    BY DEF TypeOK
  <1>2. /\ FromUid(p) \in Nat
        /\ ReadUpTo(p) \in Nat
        /\ refresh[p].cursor # None => ReadUpTo(p) >= refresh[p].cursor.nextUid
        /\ PageSize \in Nat
    BY PagePositions, ConstantsAssumption DEF ReadPage, ConstantsAssumption
  <1>3. /\ refresh'[p].stage = IF LastPage(p) THEN "read" ELSE "reading"
        /\ refresh'[p].state.checkpoint =
             IF LastPage(p) THEN Cursor(ReadUpTo(p), 0) ELSE refresh[p].state.checkpoint
        /\ refresh'[p].cursor =
             IF LastPage(p) THEN refresh[p].cursor
             ELSE Cursor(FromUid(p) + PageSize, UpperUid(p))
        /\ \A q \in Replicas \ {p} : refresh'[q] = refresh[q]
        /\ row' = row
    BY DEF ReadPage, TypeOK
  <1>4. \A n, u \in Nat : Cursor(n, u) \in Checkpoints /\ Cursor(n, u) # None
    <2>1. mailbox.uidValidity \in Nat
      BY DEF TypeOK
    <2>2. \A n, u \in Nat : Cursor(n, u) \in Checkpoints
      BY <2>1 DEF Cursor, Checkpoints
    <2> QED
      BY <2>2, ConstantsAssumption DEF ConstantsAssumption
  <1>5. ASSUME row.leaseToken = p
        PROVE  /\ refresh[p].state.checkpoint = None \/ Ahead(refresh[p].state.checkpoint)
               /\ Ahead(refresh[p].cursor)
    BY <1>5 DEF HolderIsAhead, ReadPage
  <1>6. ASSUME NEW n \in Nat, NEW u \in Nat, row.leaseToken = p,
               refresh[p].cursor # None => n >= refresh[p].cursor.nextUid
        PROVE  Ahead(Cursor(n, u))
    <2> SUFFICES ASSUME row.state.checkpoint # None
                 PROVE  /\ Cursor(n, u).uidValidity = row.state.checkpoint.uidValidity
                        /\ Cursor(n, u).nextUid >= row.state.checkpoint.nextUid
      BY <1>4 DEF Ahead
    <2>1. /\ refresh[p].cursor # None
          /\ refresh[p].cursor.uidValidity = row.state.checkpoint.uidValidity
          /\ refresh[p].cursor.nextUid >= row.state.checkpoint.nextUid
      BY <1>5, <1>6 DEF Ahead
    <2>2. refresh[p].cursor.uidValidity = mailbox.uidValidity
      BY <2>1 DEF ReadPage, ValidCursor
    <2>3. row.state.checkpoint \in Checkpoints
      BY DEF TypeOK, SyncStates
    <2>4. row.state.checkpoint.nextUid \in Nat /\ refresh[p].cursor.nextUid \in Nat
      BY <1>1, <2>1, <2>3 DEF Checkpoints
    <2>5. Cursor(n, u).nextUid = n /\ Cursor(n, u).uidValidity = mailbox.uidValidity
      BY DEF Cursor
    <2>6. n >= row.state.checkpoint.nextUid
      BY <1>6, <2>1, <2>4
    <2> QED
      BY <2>1, <2>2, <2>5, <2>6
  <1>7. CASE LastPage(p)
    <2>1. Cursor(ReadUpTo(p), 0) # None
      BY <1>2, <1>4
    <2>2. row.leaseToken = p => Ahead(Cursor(ReadUpTo(p), 0))
      BY <1>2, <1>6
    <2> QED
      BY <1>3, <1>7, <2>1, <2>2, LocalStep
  <1>8. CASE ~LastPage(p)
    <2>1. FromUid(p) + PageSize \in Nat /\ UpperUid(p) \in Nat
      BY <1>8, PagePositions DEF ReadPage
    <2>2. refresh[p].cursor # None =>
            FromUid(p) + PageSize >= refresh[p].cursor.nextUid
      BY <1>2 DEF FromUid
    <2>3. row.leaseToken = p => Ahead(Cursor(FromUid(p) + PageSize, UpperUid(p)))
      BY <1>6, <2>1, <2>2
    <2> QED
      BY <1>3, <1>5, <1>8, <2>3, LocalStep
  <1> QED
    BY <1>7, <1>8

LEMMA ClaimStaysAhead ==
  ASSUME TypeOK, Positioned, HolderIsAhead, NEW p \in Replicas, Claim(p)
  PROVE  Positioned' /\ HolderIsAhead'
  <1>1. /\ row'.state = row.state
        /\ row'.leaseToken = p
    BY DEF Claim, TypeOK
  <1>2. \A q \in Replicas \ {p} : refresh'[q] = refresh[q]
    BY DEF Claim, TypeOK
  <1>3. /\ refresh'[p].stage = "reading"
        /\ refresh'[p].state = row.state
        /\ refresh'[p].cursor = row.state.checkpoint
    BY DEF Claim, TypeOK, Idle
  <1>4. row.state.checkpoint \in Checkpoints \cup {None}
    BY DEF TypeOK, SyncStates
  <1>5. row.state.checkpoint # None =>
          row.state.checkpoint.nextUid >= row.state.checkpoint.nextUid
    BY <1>4 DEF Checkpoints
  <1>6. Ahead(row.state.checkpoint)'
    BY <1>1, <1>3, <1>5 DEF Ahead, Claim
  <1>7. Positioned'
    BY <1>2, <1>3 DEF Positioned
  <1>8. HolderIsAhead'
    BY <1>1, <1>2, <1>3, <1>5 DEF HolderIsAhead, Ahead
  <1> QED
    BY <1>7, <1>8

LEMMA LocalStepsStayAhead ==
  ASSUME TypeOK, Positioned, HolderIsAhead, NEW p \in Replicas,
         Succeed(p) \/ ReadFails(p) \/ CursorIsInvalid(p) \/ Fenced(p) \/ Crash(p)
  PROVE  Positioned' /\ HolderIsAhead'
  <1>1. row' = row /\ \A q \in Replicas \ {p} : refresh'[q] = refresh[q]
    BY DEF Succeed, ReadFails, CursorIsInvalid, Fenced, Crash, TypeOK
  <1>2. CASE Succeed(p)
    <2>1. /\ refresh'[p].stage = "done"
          /\ refresh'[p].state.checkpoint = refresh[p].state.checkpoint
      BY <1>2 DEF Succeed, TypeOK, SyncStates
    <2>2. refresh[p].stage = "read"
      BY <1>2 DEF Succeed
    <2>3. refresh[p].state.checkpoint # None
      BY <2>2 DEF Positioned
    <2>4. row.leaseToken = p => Ahead(refresh[p].state.checkpoint)
      BY <2>2, <2>3 DEF HolderIsAhead
    <2> QED
      BY <1>1, <2>1, <2>3, <2>4, LocalStep
  <1>3. CASE ReadFails(p)
    <2>1. /\ refresh'[p].stage = "failed"
          /\ refresh'[p].state = refresh[p].state
      BY <1>3 DEF ReadFails, TypeOK
    <2>2. row.leaseToken = p =>
            \/ refresh[p].state.checkpoint = None
            \/ Ahead(refresh[p].state.checkpoint)
      BY <1>3 DEF HolderIsAhead, ReadFails
    <2> QED
      BY <1>1, <2>1, <2>2, LocalStep
  <1>4. CASE CursorIsInvalid(p)
    <2>1. /\ refresh'[p].stage = "failed"
          /\ refresh'[p].state.checkpoint = None
      BY <1>4 DEF CursorIsInvalid, TypeOK, SyncStates
    <2> QED
      BY <1>1, <2>1, LocalStep
  <1>5. CASE Fenced(p) \/ Crash(p)
    <2>1. refresh'[p].stage = "idle"
      BY <1>5 DEF Fenced, Crash, TypeOK, Idle
    <2> QED
      BY <1>1, <2>1, LocalStep
  <1> QED
    BY <1>2, <1>3, <1>4, <1>5

LEMMA CompleteStaysAhead ==
  ASSUME TypeOK, Positioned, NEW p \in Replicas, Complete(p)
  PROVE  Positioned' /\ HolderIsAhead'
  <1>1. row'.leaseToken = None /\ None \notin Replicas
    BY ConstantsAssumption DEF Complete, ConstantsAssumption
  <1>2. refresh'[p].stage = "idle" /\ \A q \in Replicas \ {p} : refresh'[q] = refresh[q]
    BY DEF Complete, TypeOK, Idle
  <1> QED
    BY <1>1, <1>2 DEF Positioned, HolderIsAhead

LEMMA SyncInvStep == SyncInv /\ [Next]_vars => SyncInv'
  <1> SUFFICES ASSUME SyncInv, [Next]_vars PROVE SyncInv'
    OBVIOUS
  <1> USE DEF SyncInv
  <1>1. CASE Arrivals \/ Rebuild \/ Tick
    <2>1. row' = row /\ refresh' = refresh
      BY <1>1 DEF Arrivals, Arrive, Rebuild, Tick
    <2> QED
      BY <1>1, <2>1, OutsideStepsKeepTypes DEF Positioned, HolderIsAhead, Ahead
  <1>2. ASSUME NEW p \in Replicas, Claim(p) PROVE SyncInv'
    BY <1>2, ClaimKeepsTypes, ClaimStaysAhead
  <1>3. ASSUME NEW p \in Replicas, NEW from \in 1..(MaxMessages + 1),
               ReadPage(p, from)
        PROVE  SyncInv'
    BY <1>3, ReadPageKeepsTypes, ReadPageStaysAhead
  <1>4. ASSUME NEW p \in Replicas,
               \/ Succeed(p) \/ ReadFails(p) \/ CursorIsInvalid(p)
               \/ Fenced(p) \/ Crash(p)
        PROVE  SyncInv'
    BY <1>4, LocalStepsKeepTypes, LocalStepsStayAhead
  <1>5. ASSUME NEW p \in Replicas, Complete(p) PROVE SyncInv'
    BY <1>5, CompleteKeepsTypes, CompleteStaysAhead
  <1>6. CASE UNCHANGED vars
    BY <1>6 DEF vars, TypeOK, Positioned, HolderIsAhead, Ahead
  <1> QED
    BY <1>1, <1>2, <1>3, <1>4, <1>5, <1>6 DEF Next, Refreshes

-----------------------------------------------------------------------------
\* Whatever the replicas, the mailbox and the clocks do, the state of
\* synchronization is well formed.
THEOREM TypeCorrect == Spec => []TypeOK
  <1>1. Init => SyncInv
    BY SyncInvInit
  <1>2. SyncInv /\ [Next]_vars => SyncInv'
    BY SyncInvStep
  <1>3. SyncInv => TypeOK
    BY DEF SyncInv
  <1> QED
    BY <1>1, <1>2, <1>3, PTL DEF Spec

\* No refresh, however late it reports, moves the stored checkpoint back.
THEOREM CheckpointNeverRewindsHolds == Spec => CheckpointNeverRewinds
  <1>1. Init => SyncInv
    BY SyncInvInit
  <1>2. SyncInv /\ [Next]_vars => SyncInv'
    BY SyncInvStep
  <1>3. SyncInv /\ [Next]_vars =>
          [/\ row.state.checkpoint # None
           /\ row'.state.checkpoint # None
           /\ row'.state.checkpoint.uidValidity = row.state.checkpoint.uidValidity
           => row'.state.checkpoint.nextUid >= row.state.checkpoint.nextUid]_vars
    <2> SUFFICES ASSUME SyncInv, [Next]_vars,
                        row.state.checkpoint # None, row'.state.checkpoint # None
                 PROVE  row'.state.checkpoint.nextUid >= row.state.checkpoint.nextUid
      OBVIOUS
    <2>1. row.state.checkpoint \in Checkpoints
      BY DEF SyncInv, TypeOK, SyncStates
    <2>2. row.state.checkpoint.nextUid >= row.state.checkpoint.nextUid
      BY <2>1 DEF Checkpoints
    <2>3. ASSUME NEW p \in Replicas, Complete(p)
          PROVE  row'.state.checkpoint.nextUid >= row.state.checkpoint.nextUid
      <3>1. row'.state = refresh[p].state
        BY <2>3 DEF Complete
      <3>2. Ahead(refresh[p].state.checkpoint)
        BY <2>3, <3>1 DEF SyncInv, HolderIsAhead, Complete, HoldsLease
      <3> QED
        BY <3>1, <3>2 DEF Ahead
    <2>4. CASE row'.state = row.state
      BY <2>2, <2>4
    <2>5. ASSUME NEW p \in Replicas, Claim(p) PROVE row'.state = row.state
      BY <2>5 DEF Claim, SyncInv, TypeOK
    <2>6. ASSUME row' # row, ~ \E p \in Replicas : Claim(p) \/ Complete(p)
          PROVE  FALSE
      BY <2>6 DEF Next, vars, Arrivals, Arrive, Rebuild, Tick, Refreshes, ReadPage,
                  Succeed, ReadFails, CursorIsInvalid, Fenced, Crash
    <2> QED
      BY <2>3, <2>4, <2>5, <2>6
  <1> QED
    BY <1>1, <1>2, <1>3, PTL DEF Spec, CheckpointNeverRewinds

-----------------------------------------------------------------------------
(* What the steps of a refresh change.                                     *)

\* A page that was read: its messages, and the next or the final position.
LEMMA ReadPageEffect ==
  ASSUME TypeOK, NEW p \in Replicas, NEW from, ReadPage(p, from)
  PROVE  /\ refresh[p].stage = "reading" /\ ValidCursor(p)
         /\ refresh'[p].changes = refresh[p].changes \cup Kept(p)
         /\ refresh'[p].stage = IF LastPage(p) THEN "read" ELSE "reading"
         /\ refresh'[p].cursor = IF LastPage(p) THEN refresh[p].cursor
                                 ELSE Cursor(FromUid(p) + PageSize, UpperUid(p))
         /\ refresh'[p].state.checkpoint = IF LastPage(p) THEN Cursor(ReadUpTo(p), 0)
                                           ELSE refresh[p].state.checkpoint
         /\ ~LastPage(p) => refresh'[p].state = refresh[p].state
         /\ refresh'[p].cutoff = refresh[p].cutoff
         /\ \A q \in Replicas \ {p} : refresh'[q] = refresh[q]
  <1>1. refresh \in [Replicas -> Refreshing]
    BY DEF TypeOK, Refreshing
  <1> QED
    BY <1>1 DEF ReadPage, Refreshing, SyncStates

\* A claim starts from the stored state.
LEMMA ClaimEffect ==
  ASSUME TypeOK, NEW p \in Replicas, Claim(p)
  PROVE  /\ row'.state = row.state /\ row'.leaseToken = p
         /\ refresh'[p].stage = "reading" /\ refresh'[p].changes = {}
         /\ refresh'[p].state = row.state
         /\ refresh'[p].cursor = row.state.checkpoint
         /\ refresh'[p].cutoff = row.state.lastSuccessfulSyncAt
         /\ \A q \in Replicas \ {p} : refresh'[q] = refresh[q]
  BY DEF Claim, TypeOK, Idle

\* A success has read everything, and is dated.
LEMMA SucceedEffect ==
  ASSUME TypeOK, NEW p \in Replicas, Succeed(p)
  PROVE  /\ refresh[p].stage = "read" /\ refresh'[p].stage = "done"
         /\ refresh'[p].state.checkpoint = refresh[p].state.checkpoint
         /\ refresh'[p].state.baselineEstablished
         /\ refresh'[p].state.lastSuccessfulSyncAt = clock
         /\ refresh'[p].changes = refresh[p].changes
         /\ refresh'[p].cursor = refresh[p].cursor
         /\ refresh'[p].cutoff = refresh[p].cutoff
         /\ \A q \in Replicas \ {p} : refresh'[q] = refresh[q]
  <1>1. refresh \in [Replicas -> Refreshing] /\ refresh[p] \in Refreshing
    BY DEF TypeOK, Refreshing
  <1> QED
    BY <1>1 DEF Succeed, Refreshing, SyncStates

\* A refresh that fails keeps nothing that it has read.
LEMMA ReadFailsEffect ==
  ASSUME TypeOK, NEW p \in Replicas, ReadFails(p)
  PROVE  /\ refresh[p].stage = "reading" /\ refresh'[p].stage = "failed"
         /\ refresh'[p].state = refresh[p].state
         /\ refresh'[p].changes = {}
         /\ refresh'[p].cursor = refresh[p].cursor
         /\ refresh'[p].cutoff = refresh[p].cutoff
         /\ \A q \in Replicas \ {p} : refresh'[q] = refresh[q]
  <1>1. refresh \in [Replicas -> Refreshing] /\ refresh[p] \in Refreshing
    BY DEF TypeOK, Refreshing
  <1> QED
    BY <1>1 DEF ReadFails, Refreshing

\* After an invalid cursor it gives up its position too.
LEMMA CursorIsInvalidEffect ==
  ASSUME TypeOK, NEW p \in Replicas, CursorIsInvalid(p)
  PROVE  /\ refresh[p].stage = "reading" /\ refresh'[p].stage = "failed"
         /\ refresh'[p].state.checkpoint = None
         /\ ~refresh'[p].state.baselineEstablished
         /\ refresh'[p].state.lastSuccessfulSyncAt = refresh[p].state.lastSuccessfulSyncAt
         /\ refresh'[p].changes = {}
         /\ refresh'[p].cursor = refresh[p].cursor
         /\ refresh'[p].cutoff = refresh[p].cutoff
         /\ \A q \in Replicas \ {p} : refresh'[q] = refresh[q]
  <1>1. refresh \in [Replicas -> Refreshing] /\ refresh[p] \in Refreshing
    BY DEF TypeOK, Refreshing
  <1> QED
    BY <1>1 DEF CursorIsInvalid, Refreshing, SyncStates

\* A refresh that ended has nothing left, and wants the row no more.
LEMMA EndEffect ==
  ASSUME TypeOK, NEW p \in Replicas, Complete(p) \/ Fenced(p) \/ Crash(p)
  PROVE  /\ refresh'[p].stage = "idle" /\ refresh'[p].changes = {}
         /\ refresh'[p].state.checkpoint = None /\ refresh'[p].cursor = None
         /\ \A q \in Replicas \ {p} : refresh'[q] = refresh[q]
  <1>1. refresh \in [Replicas -> Refreshing]
    BY DEF TypeOK, Refreshing
  <1> QED
    BY <1>1 DEF Complete, Fenced, Crash, Idle, Unknown

-----------------------------------------------------------------------------
(* Positions and references are those of mail that has arrived, and what   *)
(* one refresh keeps carries one numbering of the mailbox.                 *)

Received == 1..Len(mailbox.messages)

Positions(checkpoint) ==
  checkpoint # None =>
    /\ 1 <= checkpoint.nextUid /\ checkpoint.nextUid <= UidNext
    /\ checkpoint.upperUid < UidNext

\* What one refresh knows of the mailbox.
Bounded(p) ==
  /\ Positions(refresh[p].state.checkpoint)
  /\ Positions(refresh[p].cursor)
  /\ \A c \in refresh[p].changes : c[2] \in Received

OneNumbering(p) ==
  /\ \A c, d \in refresh[p].changes : c[1] = d[1]
  /\ refresh[p].stage = "reading" =>
       \A c \in refresh[p].changes :
         refresh[p].cursor # None /\ c[1] = refresh[p].cursor.uidValidity

MailInv ==
  /\ Positions(row.state.checkpoint)
  /\ \A reference \in inbox : reference[2] \in Received
  /\ \A p \in Replicas : Bounded(p) /\ OneNumbering(p)

\* What a page covers: the messages from one position to the next.
LEMMA PageCovers ==
  ASSUME TypeOK, NEW p \in Replicas, refresh[p].stage = "reading", ValidCursor(p),
         Bounded(p)
  PROVE  /\ UidNext \in Nat \ {0} /\ UidNext = Len(mailbox.messages) + 1
         /\ FromUid(p) \in Nat /\ FromUid(p) >= 1 /\ FromUid(p) <= UidNext
         /\ UpperUid(p) \in Nat /\ UpperUid(p) < UidNext
         /\ PageUids(p) \subseteq Received
         /\ ReadUpTo(p) \in Nat /\ ReadUpTo(p) >= FromUid(p) /\ ReadUpTo(p) <= UidNext
         /\ ReadUpTo(p) > UpperUid(p)
         /\ ~FirstBaseline(p) => \A uid \in Received :
              /\ FromUid(p) <= uid
              /\ uid < IF LastPage(p) THEN ReadUpTo(p) ELSE FromUid(p) + PageSize
              => uid \in PageUids(p)
         /\ ~LastPage(p) => /\ FromUid(p) + PageSize \in Nat
                            /\ FromUid(p) + PageSize <= UpperUid(p)
                            /\ FromUid(p) + PageSize > FromUid(p)
  <1>1. PageSize \in Nat /\ PageSize > 0
    BY ConstantsAssumption DEF ConstantsAssumption
  <1>2. Len(mailbox.messages) \in Nat
    BY DEF TypeOK
  <1>3. UidNext \in Nat \ {0} /\ UidNext = Len(mailbox.messages) + 1
    BY <1>2 DEF UidNext
  <1>4. refresh[p].cursor \in Checkpoints \cup {None}
    BY DEF TypeOK
  <1>5. FromUid(p) \in Nat /\ FromUid(p) >= 1 /\ FromUid(p) <= UidNext
    BY <1>3, <1>4 DEF FromUid, Checkpoints, Bounded, Positions
  <1>6. UpperUid(p) \in Nat /\ UpperUid(p) < UidNext
    BY <1>3, <1>4 DEF UpperUid, Checkpoints, Bounded, Positions
  <1>7. PageUids(p) \subseteq Received
    BY <1>2, <1>3, <1>5, <1>6 DEF PageUids, Received
  <1>8. /\ ReadUpTo(p) \in Nat /\ ReadUpTo(p) >= FromUid(p) /\ ReadUpTo(p) <= UidNext
        /\ ReadUpTo(p) > UpperUid(p)
    BY <1>3, <1>5, <1>6 DEF ReadUpTo, FirstBaseline, FromUid
  <1>9. ~LastPage(p) => /\ FromUid(p) + PageSize \in Nat
                        /\ FromUid(p) + PageSize <= UpperUid(p)
                        /\ FromUid(p) + PageSize > FromUid(p)
    BY <1>1, <1>5, <1>6 DEF LastPage
  <1>10. ASSUME ~FirstBaseline(p), NEW uid \in Received, FromUid(p) <= uid,
                uid < IF LastPage(p) THEN ReadUpTo(p) ELSE FromUid(p) + PageSize
         PROVE  uid \in PageUids(p)
    <2>1. uid \in Nat
      BY <1>2 DEF Received
    <2>2. PageUids(p) = {u \in FromUid(p)..UpperUid(p) : u < FromUid(p) + PageSize}
      BY <1>10 DEF PageUids
    <2>3. CASE LastPage(p)
      <3>1. FromUid(p) + PageSize > UpperUid(p)
        BY <1>10, <2>3 DEF LastPage
      <3>2. uid <= UpperUid(p)
        BY <1>5, <1>6, <1>10, <2>1, <2>3 DEF ReadUpTo
      <3> QED
        BY <1>1, <1>5, <1>6, <1>10, <2>1, <2>2, <3>1, <3>2
    <2>4. CASE ~LastPage(p)
      BY <1>1, <1>5, <1>6, <1>9, <1>10, <2>1, <2>2, <2>4
    <2> QED
      BY <2>3, <2>4
  <1> QED
    BY <1>3, <1>5, <1>6, <1>7, <1>8, <1>9, <1>10

\* Mail that arrives, a rebuild and time leave the messages that were there.
LEMMA OutsideEffect ==
  ASSUME TypeOK, Arrivals \/ Rebuild \/ Tick
  PROVE  /\ UNCHANGED <<row, refresh, inbox, inbound, events, history>>
         /\ Received \subseteq Received' /\ UidNext <= UidNext'
         /\ \A uid \in Received : mailbox'.messages[uid] = mailbox.messages[uid]
         /\ clock <= clock'
  <1>1. clock \in Nat /\ Len(mailbox.messages) \in Nat /\ mailbox.messages \in Seq(
          [kind : Kinds, identified : Identified, receivedAt : Nat])
    BY DEF TypeOK
  <1>2. CASE Arrivals
    <2>1. PICK message : mailbox'.messages = Append(mailbox.messages, message)
      BY <1>2 DEF Arrivals, Arrive, TypeOK
    <2>2. Len(mailbox'.messages) = Len(mailbox.messages) + 1
      BY <1>1, <2>1
    <2>3. \A uid \in Received : mailbox'.messages[uid] = mailbox.messages[uid]
      BY <1>1, <2>1 DEF Received
    <2>4. Received \subseteq Received' /\ UidNext <= UidNext'
      BY <1>1, <2>2 DEF Received, UidNext
    <2>5. UNCHANGED <<clock, row, refresh, inbox, inbound, events, history>>
      BY <1>2 DEF Arrivals, Arrive
    <2> QED
      BY <1>1, <2>3, <2>4, <2>5
  <1>3. CASE Rebuild \/ Tick
    <2>1. mailbox'.messages = mailbox.messages /\ clock <= clock'
      BY <1>1, <1>3 DEF Rebuild, Tick, TypeOK
    <2> QED
      BY <1>1, <1>3, <2>1 DEF Rebuild, Tick, Received, UidNext
  <1> QED
    BY <1>2, <1>3

\* A page that is read keeps messages of the numbering that it is read under.
LEMMA ReadPageIsBounded ==
  ASSUME TypeOK, NEW p \in Replicas, NEW from, ReadPage(p, from),
         Bounded(p), OneNumbering(p)
  PROVE  Bounded(p)' /\ OneNumbering(p)'
  <1> DEFINE upTo == Cursor(ReadUpTo(p), 0)
             further == Cursor(FromUid(p) + PageSize, UpperUid(p))
  <1>0. UNCHANGED <<mailbox, row, inbox, inbound, events, history>>
    BY DEF ReadPage
  <1>1. /\ refresh[p].stage = "reading" /\ ValidCursor(p)
        /\ refresh'[p].changes = refresh[p].changes \cup Kept(p)
        /\ refresh'[p].stage = IF LastPage(p) THEN "read" ELSE "reading"
        /\ refresh'[p].cursor = IF LastPage(p) THEN refresh[p].cursor ELSE further
        /\ refresh'[p].state.checkpoint = IF LastPage(p) THEN upTo
                                          ELSE refresh[p].state.checkpoint
    BY ReadPageEffect
  <1>2. /\ UidNext \in Nat \ {0}
        /\ FromUid(p) \in Nat /\ FromUid(p) >= 1
        /\ UpperUid(p) \in Nat /\ UpperUid(p) < UidNext
        /\ PageUids(p) \subseteq Received
        /\ ReadUpTo(p) \in Nat /\ ReadUpTo(p) >= FromUid(p) /\ ReadUpTo(p) <= UidNext
        /\ ~LastPage(p) => /\ FromUid(p) + PageSize \in Nat
                           /\ FromUid(p) + PageSize <= UpperUid(p)
                           /\ FromUid(p) + PageSize > FromUid(p)
    BY <1>1, PageCovers
  <1>3. \A c \in Kept(p) : c[1] = mailbox.uidValidity /\ c[2] \in Received
    BY <1>2 DEF Kept
  <1>4. \A c \in refresh[p].changes : c[1] = mailbox.uidValidity
    BY <1>1 DEF OneNumbering, ValidCursor
  <1>5. Positions(upTo)
    BY <1>2 DEF Positions, Cursor
  <1>6. ASSUME ~LastPage(p)
        PROVE  Positions(further) /\ further # None /\ further.uidValidity = mailbox.uidValidity
    <2>1. further \in Checkpoints
      BY <1>2, <1>6 DEF Cursor, Checkpoints, TypeOK
    <2> QED
      BY <1>2, <1>6, <2>1, ConstantsAssumption DEF Positions, Cursor, ConstantsAssumption
  <1> HIDE DEF upTo, further
  <1>7. Received' = Received /\ UidNext' = UidNext
    BY <1>0 DEF Received, UidNext
  <1>8. Bounded(p)'
    BY <1>1, <1>3, <1>5, <1>6, <1>7 DEF Bounded, Positions
  <1>9. OneNumbering(p)'
    BY <1>1, <1>3, <1>4, <1>6 DEF OneNumbering
  <1> QED
    BY <1>8, <1>9

\* Every step of a refresh keeps what it knows within the mailbox.
LEMMA RefreshIsBounded ==
  ASSUME TypeOK, MailInv, NEW p \in Replicas,
         \/ Claim(p) \/ (\E from \in 1..(MaxMessages + 1) : ReadPage(p, from))
         \/ Succeed(p) \/ ReadFails(p) \/ CursorIsInvalid(p)
         \/ Complete(p) \/ Fenced(p) \/ Crash(p)
  PROVE  \A q \in Replicas : Bounded(q)' /\ OneNumbering(q)'
  <1> USE DEF MailInv
  <1>1. mailbox' = mailbox
    BY DEF Claim, ReadPage, Succeed, ReadFails, CursorIsInvalid, Complete, Fenced, Crash
  <1>2. \A q \in Replicas \ {p} : refresh'[q] = refresh[q]
    BY ClaimEffect, ReadPageEffect, SucceedEffect, ReadFailsEffect,
       CursorIsInvalidEffect, EndEffect
  <1>3. ASSUME NEW q \in Replicas \ {p}
        PROVE  Bounded(q)' /\ OneNumbering(q)'
    BY <1>1, <1>2 DEF Bounded, OneNumbering, Positions, Received, UidNext
  <1>4. Bounded(p)' /\ OneNumbering(p)'
    <2> USE DEF Bounded, OneNumbering, Positions, Received, UidNext
    <2>1. CASE Claim(p)
      BY <1>1, <2>1, ClaimEffect
    <2>2. ASSUME NEW from, ReadPage(p, from)
          PROVE  Bounded(p)' /\ OneNumbering(p)'
      <3>1. Bounded(p) /\ OneNumbering(p)
        OBVIOUS
      <3> HIDE DEF Bounded, OneNumbering
      <3> QED
        BY <2>2, <3>1, ReadPageIsBounded
    <2>3. CASE Succeed(p)
      BY <1>1, <2>3, SucceedEffect
    <2>4. CASE ReadFails(p)
      BY <1>1, <2>4, ReadFailsEffect
    <2>5. CASE CursorIsInvalid(p)
      BY <1>1, <2>5, CursorIsInvalidEffect
    <2>6. CASE Complete(p) \/ Fenced(p) \/ Crash(p)
      BY <1>1, <2>6, EndEffect
    <2> QED
      BY <2>1, <2>2, <2>3, <2>4, <2>5, <2>6
  <1> QED
    BY <1>3, <1>4

\* A completed refresh leaves references of mail that has arrived.
LEMMA CompleteEffect ==
  ASSUME TypeOK, NEW p \in Replicas, Complete(p)
  PROVE  /\ row.leaseToken = p /\ refresh[p].stage \in {"failed", "done"}
         /\ row'.state = refresh[p].state
         /\ inbox' = inbox \cup refresh[p].changes
         /\ inbound' = inbound \cup New(refresh[p].changes, "reply", inbound)
         /\ UNCHANGED <<mailbox, clock>>
         /\ refresh[p].stage = "failed" => history' = history
  BY DEF Complete, HoldsLease, Ingest

\* A step keeps positions and references within the mailbox.
LEMMA MailInvStep ==
  ASSUME SyncInv, MailInv, [Next]_vars
  PROVE  MailInv'
  <1> USE DEF SyncInv
  <1>1. CASE UNCHANGED vars
    BY <1>1 DEF vars, MailInv, Bounded, OneNumbering, Positions, Received, UidNext
  <1>2. CASE Arrivals \/ Rebuild \/ Tick
    <2>1. /\ UNCHANGED <<row, refresh, inbox>>
          /\ Received \subseteq Received' /\ UidNext <= UidNext'
      BY <1>2, OutsideEffect
    <2>2. UidNext \in Nat /\ UidNext' \in Nat
      BY <1>2, OutsideStepsKeepTypes DEF TypeOK, UidNext
    <2>3. ASSUME NEW checkpoint \in Checkpoints \cup {None}, Positions(checkpoint)
          PROVE  Positions(checkpoint)'
      BY <2>1, <2>2, <2>3 DEF Positions, Checkpoints
    <2>4. /\ row.state.checkpoint \in Checkpoints \cup {None}
          /\ \A p \in Replicas : /\ refresh[p].state.checkpoint \in Checkpoints \cup {None}
                                 /\ refresh[p].cursor \in Checkpoints \cup {None}
      BY DEF TypeOK, SyncStates
    <2>5. Positions(row.state.checkpoint)'
      BY <2>1, <2>3, <2>4 DEF MailInv, Positions
    <2>6. ASSUME NEW p \in Replicas
          PROVE  Bounded(p)' /\ OneNumbering(p)'
      <3>1. Bounded(p) /\ OneNumbering(p) /\ refresh' = refresh
        BY <2>1 DEF MailInv
      <3>2. Positions(refresh[p].state.checkpoint)' /\ Positions(refresh[p].cursor)'
        BY <2>3, <2>4, <3>1 DEF Bounded, Positions
      <3> QED
        BY <2>1, <3>1, <3>2 DEF Bounded, OneNumbering
    <2> QED
      BY <2>1, <2>5, <2>6 DEF MailInv
  <1>3. CASE Refreshes
    <2>1. PICK p \in Replicas :
            \/ Claim(p) \/ (\E from \in 1..(MaxMessages + 1) : ReadPage(p, from))
            \/ Succeed(p) \/ ReadFails(p) \/ CursorIsInvalid(p)
            \/ Complete(p) \/ Fenced(p) \/ Crash(p)
      BY <1>3 DEF Refreshes
    <2>2. \A q \in Replicas : Bounded(q)' /\ OneNumbering(q)'
      BY <2>1, RefreshIsBounded
    <2>3. mailbox' = mailbox
      BY <2>1 DEF Claim, ReadPage, Succeed, ReadFails, CursorIsInvalid, Complete, Fenced,
                  Crash
    <2>4. CASE Complete(p)
      BY <2>2, <2>3, <2>4, CompleteEffect DEF MailInv, Bounded, Positions, Received, UidNext
    <2>5. CASE ~Complete(p)
      <3>1. row'.state = row.state /\ inbox' = inbox
        BY <2>1, <2>5, ClaimEffect DEF Claim, ReadPage, Succeed, ReadFails,
                                      CursorIsInvalid, Fenced, Crash
      <3> QED
        BY <2>2, <2>3, <3>1 DEF MailInv, Positions, Received, UidNext
    <2> QED
      BY <2>4, <2>5
  <1> QED
    BY <1>1, <1>2, <1>3 DEF Next

LEMMA MailInvInit == Init => MailInv
  BY DEF Init, MailInv, Bounded, OneNumbering, Positions, Idle, Unknown

-----------------------------------------------------------------------------
(* Replies.                                                                *)

\* A step stores no reply a second time: within one read all references carry
\* one numbering, and against earlier reads an identified message is recognized.
LEMMA EachReplyCountsOnceStep ==
  ASSUME SyncInv, MailInv, EachReplyCountsOnce, [Next]_vars
  PROVE  EachReplyCountsOnce'
  <1> USE DEF SyncInv
  <1>0. inbound \subseteq inbox /\ \A c \in inbox : c[2] \in Received
    BY DEF TypeOK, MailInv
  <1>1. ASSUME inbound' = inbound,
               \A uid \in Received : mailbox'.messages[uid] = mailbox.messages[uid]
        PROVE  EachReplyCountsOnce'
    BY <1>0, <1>1 DEF EachReplyCountsOnce, Message
  <1>2. CASE Arrivals \/ Rebuild \/ Tick
    BY <1>1, <1>2, OutsideEffect
  <1>3. CASE \E p \in Replicas : Complete(p)
    <2>1. PICK p \in Replicas : Complete(p)
      BY <1>3
    <2> DEFINE changes == refresh[p].changes
    <2>2. inbound' = inbound \cup New(changes, "reply", inbound) /\ mailbox' = mailbox
      BY <2>1, CompleteEffect
    <2>3. /\ \A c, d \in changes : c[1] = d[1]
          /\ changes \subseteq Nat \X Nat
      BY DEF MailInv, OneNumbering, TypeOK, References
    <2> SUFFICES ASSUME NEW r1 \in inbound', NEW r2 \in inbound', r1[2] = r2[2],
                        Message(r1).identified
                 PROVE  r1 = r2
      BY <2>2 DEF EachReplyCountsOnce, Message
    <2>4. Message(r2) = Message(r1)
      BY DEF Message
    <2>5. CASE r1 \in inbound /\ r2 \in inbound
      BY <2>5 DEF EachReplyCountsOnce
    <2>6. ASSUME NEW c \in New(changes, "reply", inbound), Message(c).identified,
                 NEW d \in inbound
          PROVE  c[2] # d[2]
      BY <2>6 DEF New, Replayed
    <2>7. CASE r1 \in changes /\ r2 \in changes
      BY <2>3, <2>7
    <2> QED
      BY <2>2, <2>4, <2>5, <2>6, <2>7 DEF New
  <1>4. CASE ~ \E p \in Replicas : Complete(p)
    <2>1. CASE Refreshes
      <3>1. inbound' = inbound /\ mailbox' = mailbox
        BY <1>4, <2>1 DEF Refreshes, Claim, ReadPage, Succeed, ReadFails,
                          CursorIsInvalid, Fenced, Crash
      <3> QED
        BY <1>1, <3>1
    <2>2. CASE UNCHANGED vars
      BY <1>1, <2>2 DEF vars
    <2> QED
      BY <1>2, <2>1, <2>2 DEF Next
  <1> QED
    BY <1>3, <1>4

\* Each identified reply is stored and counted once, however often refreshes are
\* repeated and whatever the mailbox calls it after a rebuild (ingest).
THEOREM EachReplyCountsOnceHolds == Spec => []EachReplyCountsOnce
  <1>1. Init => SyncInv /\ MailInv /\ EachReplyCountsOnce
    <2>1. Init => EachReplyCountsOnce
      BY DEF Init, EachReplyCountsOnce
    <2> QED
      BY <2>1, SyncInvInit, MailInvInit
  <1>2. SyncInv /\ MailInv /\ EachReplyCountsOnce /\ [Next]_vars
          => (SyncInv /\ MailInv /\ EachReplyCountsOnce)'
    BY SyncInvStep, MailInvStep, EachReplyCountsOnceStep
  <1> QED
    BY <1>1, <1>2, PTL DEF Spec

-----------------------------------------------------------------------------
(* The lease is what makes a read count: while a replica holds it, the row *)
(* and what is stored are as they were when it was claimed.  What follows  *)
(* is therefore about the holder only; nobody else can complete.           *)

\* The stored state, with what was observed of its past.
RowInv ==
  /\ row.state.checkpoint # None <=> row.state.baselineEstablished
  /\ row.state.lastSuccessfulSyncAt = None <=> history.before = None
  /\ history.before = None => row.state.checkpoint = None
  /\ history.before # None => /\ history.before <= row.state.lastSuccessfulSyncAt
                              /\ history.before <= clock
  /\ history.nextUid <= UidNext
  /\ row.state.checkpoint # None => /\ history.nextUid <= row.state.checkpoint.nextUid
                                    /\ row.state.checkpoint.upperUid = 0

\* Mail that is not history.
Importable(c) ==
  /\ history.before # None
  /\ c[2] < history.nextUid => Message(c).receivedAt > history.before

\* A message that was stored, will be when the refresh completes, or was received
\* before the cutoff of a recovery: of this refresh, or of one before it.
Accounted(p, uid) ==
  \/ Retained(uid)
  \/ \E c \in refresh[p].changes : c[2] = uid
  \/ IF row.state.baselineEstablished THEN BeforeCutoff(uid)
     ELSE mailbox.messages[uid].receivedAt <= refresh[p].cutoff

\* All mail since the first baseline, up to a position.
AccountedTo(p, position) ==
  history.before # None =>
    \A uid \in Received :
      history.nextUid <= uid /\ uid < position => Accounted(p, uid)

\* A holder that reads has the stored state, and its cursor covers what it left
\* behind; once it fixed the last message to read, that lies past the baseline.
Reading(p) ==
  /\ refresh[p].state = row.state
  /\ history.before = None => refresh[p].cursor = None
  /\ row.state.baselineEstablished => /\ refresh[p].cursor # None
                                      /\ history.nextUid <= refresh[p].cursor.nextUid
  /\ refresh[p].cursor # None =>
       /\ refresh[p].cursor.upperUid # 0 => history.nextUid <= refresh[p].cursor.upperUid + 1
       /\ AccountedTo(p, refresh[p].cursor.nextUid)

HasRead(p) ==
  /\ refresh[p].state.checkpoint # None
  /\ history.nextUid <= refresh[p].state.checkpoint.nextUid
  /\ refresh[p].state.checkpoint.upperUid = 0
  /\ AccountedTo(p, refresh[p].state.checkpoint.nextUid)

HasSucceeded(p) ==
  /\ refresh[p].state.baselineEstablished
  /\ refresh[p].state.lastSuccessfulSyncAt # None
  /\ refresh[p].state.lastSuccessfulSyncAt <= clock
  /\ history.before # None => history.before <= refresh[p].state.lastSuccessfulSyncAt

HasFailed(p) ==
  /\ refresh[p].changes = {}
  /\ refresh[p].state.lastSuccessfulSyncAt = row.state.lastSuccessfulSyncAt
  /\ \/ refresh[p].state = row.state
     \/ refresh[p].state.checkpoint = None /\ ~refresh[p].state.baselineEstablished

Holding(p) ==
  /\ refresh[p].cutoff = row.state.lastSuccessfulSyncAt
  /\ \A c \in refresh[p].changes : Importable(c)
  /\ refresh[p].stage = "reading" => Reading(p)
  /\ refresh[p].stage \in {"read", "done"} => HasRead(p)
  /\ refresh[p].stage = "done" => HasSucceeded(p)
  /\ refresh[p].stage = "failed" => HasFailed(p)

\* Everything before the stored checkpoint is accounted for.
RowIsCovered ==
  row.state.checkpoint # None =>
    \A uid \in Received :
      history.nextUid <= uid /\ uid < row.state.checkpoint.nextUid =>
        Retained(uid) \/ BeforeCutoff(uid)

ImportInv ==
  /\ RowInv
  /\ RowIsCovered
  /\ \A reference \in inbox : Importable(reference)
  /\ \A p \in Replicas : row.leaseToken = p /\ refresh[p].stage # "idle" => Holding(p)

\* Mail and times are numbers.
LEMMA MailIsTyped ==
  ASSUME TypeOK
  PROVE  /\ \A uid \in Received : uid \in Nat /\ mailbox.messages[uid].receivedAt \in Nat
         /\ UidNext \in Nat /\ clock \in Nat /\ history.nextUid \in Nat
         /\ history.before \in Nat \cup {None} /\ history.cutoff \in Nat \cup {None}
         /\ row.state.lastSuccessfulSyncAt \in Nat \cup {None}
         /\ row.state.checkpoint \in Checkpoints \cup {None}
         /\ None \notin Nat
  <1> DEFINE Mail == [kind : Kinds, identified : Identified, receivedAt : Nat]
  <1>1. mailbox.messages \in Seq(Mail)
    BY DEF TypeOK
  <1>2. \A uid \in Received : uid \in Nat /\ mailbox.messages[uid].receivedAt \in Nat
    <2>1. \A message \in Mail : message.receivedAt \in Nat
      OBVIOUS
    <2> HIDE DEF Mail
    <2>2. \A uid \in Received : uid \in Nat /\ mailbox.messages[uid] \in Mail
      BY <1>1 DEF Received
    <2> QED
      BY <2>1, <2>2
  <1>3. UidNext \in Nat
    BY <1>1 DEF UidNext
  <1>4. None \notin Nat
    BY ConstantsAssumption DEF ConstantsAssumption
  <1> QED
    BY <1>2, <1>3, <1>4 DEF TypeOK, SyncStates, Times

\* Mail that arrives, a rebuild and time change nothing of what was read.
LEMMA OutsideKeepsImports ==
  ASSUME SyncInv, MailInv, ImportInv, Arrivals \/ Rebuild \/ Tick
  PROVE  ImportInv'
  <1> USE DEF SyncInv
  <1>1. /\ UNCHANGED <<row, refresh, inbox, inbound, events, history>>
        /\ Received \subseteq Received' /\ UidNext <= UidNext'
        /\ \A uid \in Received : mailbox'.messages[uid] = mailbox.messages[uid]
        /\ clock <= clock'
    BY OutsideEffect
  <1>2. TypeOK'
    BY OutsideStepsKeepTypes
  <1>3. UidNext \in Nat /\ UidNext' \in Nat /\ clock \in Nat /\ clock' \in Nat
    BY <1>2, MailIsTyped DEF TypeOK, UidNext
  <1>4. ASSUME NEW c, c[2] \in Received, Importable(c)
        PROVE  Importable(c)'
    BY <1>1, <1>4 DEF Importable, Message
  <1>5. ASSUME NEW uid \in Received, BeforeCutoff(uid)
        PROVE  BeforeCutoff(uid)'
    BY <1>1, <1>3, <1>5, MailIsTyped DEF BeforeCutoff
  <1>6. ASSUME NEW p \in Replicas, NEW uid \in Received, Accounted(p, uid)
        PROVE  Accounted(p, uid)'
    BY <1>1, <1>5, <1>6 DEF Accounted, Retained
  <1>7. ASSUME NEW uid \in Received', NEW position \in Nat, uid < position,
               position <= UidNext
        PROVE  uid \in Received
    BY <1>2, <1>7, MailIsTyped DEF Received, UidNext, TypeOK
  <1>8. ASSUME NEW p \in Replicas, NEW position \in Nat, position <= UidNext,
               AccountedTo(p, position)
        PROVE  AccountedTo(p, position)'
    BY <1>1, <1>6, <1>7, <1>8 DEF AccountedTo
  <1>9. \A reference \in inbox' : Importable(reference)'
    BY <1>1, <1>4 DEF ImportInv, MailInv
  <1>10. RowInv'
    BY <1>1, <1>3, MailIsTyped DEF ImportInv, RowInv
  <1>11. RowIsCovered'
    <2>1. row.state.checkpoint # None =>
            row.state.checkpoint.nextUid \in Nat /\ row.state.checkpoint.nextUid <= UidNext
      BY MailIsTyped DEF MailInv, Positions, Checkpoints
    <2> QED
      BY <1>1, <1>5, <1>7, <2>1 DEF ImportInv, RowIsCovered, Retained
  <1>12. ASSUME NEW p \in Replicas, row.leaseToken = p, refresh[p].stage # "idle"
         PROVE  Holding(p)'
    <2>1. Holding(p) /\ Bounded(p)
      BY <1>12 DEF ImportInv, MailInv
    <2>2. /\ refresh[p].state.checkpoint \in Checkpoints \cup {None}
          /\ refresh[p].cursor \in Checkpoints \cup {None}
          /\ refresh[p].state.lastSuccessfulSyncAt \in Nat \cup {None}
      BY DEF TypeOK, SyncStates, Times
    <2>3. \A c \in refresh[p].changes : Importable(c)'
      BY <1>4, <2>1 DEF Holding, Bounded
    <2>4. Reading(p) => Reading(p)'
      BY <1>1, <1>8, <2>1, <2>2 DEF Reading, Bounded, Positions, Checkpoints
    <2>5. HasRead(p) => HasRead(p)'
      BY <1>1, <1>8, <2>1, <2>2 DEF HasRead, Bounded, Positions, Checkpoints
    <2>6. HasSucceeded(p) => HasSucceeded(p)'
      BY <1>1, <1>3, <2>2 DEF HasSucceeded
    <2>7. HasFailed(p) => HasFailed(p)'
      BY <1>1 DEF HasFailed
    <2> QED
      BY <1>1, <2>1, <2>3, <2>4, <2>5, <2>6, <2>7 DEF Holding
  <1> QED
    BY <1>1, <1>9, <1>10, <1>11, <1>12 DEF ImportInv

\* A step of one refresh, that stores nothing, is to be looked at if it holds the
\* lease.
LEMMA OnlyTheHolder ==
  ASSUME ImportInv, NEW p \in Replicas,
         UNCHANGED <<clock, mailbox, row, inbox, history>>,
         \A q \in Replicas \ {p} : refresh'[q] = refresh[q],
         row.leaseToken = p /\ refresh'[p].stage # "idle" => Holding(p)'
  PROVE  ImportInv'
  <1> USE DEF Received, UidNext
  <1>1. \A c : Importable(c) => Importable(c)'
    BY DEF Importable, Message
  <1>2. RowInv' /\ RowIsCovered' /\ \A reference \in inbox' : Importable(reference)'
    BY <1>1 DEF ImportInv, RowInv, RowIsCovered, Retained, BeforeCutoff
  <1>3. ASSUME NEW q \in Replicas \ {p}, row'.leaseToken = q, refresh'[q].stage # "idle"
        PROVE  Holding(q)'
    <2>1. Holding(q)
      BY <1>3 DEF ImportInv
    <2>2. \A n : AccountedTo(q, n) => AccountedTo(q, n)'
      BY DEF AccountedTo, Accounted, Retained, BeforeCutoff
    <2>3. Reading(q) => Reading(q)'
      BY <2>2 DEF Reading
    <2>4. HasRead(q) => HasRead(q)'
      BY <2>2 DEF HasRead
    <2>5. HasSucceeded(q) => HasSucceeded(q)'
      BY DEF HasSucceeded
    <2>6. HasFailed(q) => HasFailed(q)'
      BY DEF HasFailed
    <2> QED
      BY <1>1, <2>1, <2>3, <2>4, <2>5, <2>6 DEF Holding
  <1> QED
    BY <1>2, <1>3 DEF ImportInv

\* A page read by the holder: what it keeps is no history, and everything up to
\* the position it moves to is accounted for.
LEMMA ReadPageHolds ==
  ASSUME SyncInv, MailInv, RowInv, NEW p \in Replicas, NEW from, ReadPage(p, from),
         Holding(p)
  PROVE  Holding(p)'
  <1> DEFINE position == IF LastPage(p) THEN ReadUpTo(p) ELSE FromUid(p) + PageSize
             upTo == Cursor(ReadUpTo(p), 0)
             further == Cursor(FromUid(p) + PageSize, UpperUid(p))
  <1> USE DEF SyncInv
  <1>0. UNCHANGED <<clock, mailbox, row, inbox, inbound, events, history>>
    BY DEF ReadPage
  <1>1. /\ refresh[p].stage = "reading" /\ ValidCursor(p)
        /\ refresh'[p].changes = refresh[p].changes \cup Kept(p)
        /\ refresh'[p].stage = IF LastPage(p) THEN "read" ELSE "reading"
        /\ refresh'[p].cursor = IF LastPage(p) THEN refresh[p].cursor ELSE further
        /\ refresh'[p].state.checkpoint = IF LastPage(p) THEN upTo
                                          ELSE refresh[p].state.checkpoint
        /\ ~LastPage(p) => refresh'[p].state = refresh[p].state
        /\ refresh'[p].cutoff = refresh[p].cutoff
    BY ReadPageEffect
  <1>2. Bounded(p) /\ Reading(p) /\ refresh[p].cutoff = row.state.lastSuccessfulSyncAt
    BY <1>1 DEF MailInv, Holding
  <1>3. /\ UidNext \in Nat \ {0}
        /\ FromUid(p) \in Nat /\ FromUid(p) >= 1 /\ FromUid(p) <= UidNext
        /\ UpperUid(p) \in Nat /\ UpperUid(p) < UidNext
        /\ PageUids(p) \subseteq Received
        /\ ReadUpTo(p) \in Nat /\ ReadUpTo(p) >= FromUid(p) /\ ReadUpTo(p) <= UidNext
        /\ ReadUpTo(p) > UpperUid(p)
        /\ ~LastPage(p) => /\ FromUid(p) + PageSize \in Nat
                           /\ FromUid(p) + PageSize <= UpperUid(p)
                           /\ FromUid(p) + PageSize > FromUid(p)
    BY <1>1, <1>2, PageCovers
  <1>4. ~FirstBaseline(p) => \A uid \in Received :
          FromUid(p) <= uid /\ uid < position => uid \in PageUids(p)
    BY <1>1, <1>2, PageCovers
  <1>5. /\ position \in Nat
        /\ ~LastPage(p) => further # None /\ further.nextUid = position
                           /\ further.upperUid = UpperUid(p)
        /\ LastPage(p) => /\ upTo # None /\ upTo.nextUid = position
                          /\ upTo.upperUid = 0
    <2>1. mailbox.uidValidity \in Nat
      BY DEF TypeOK
    <2>2. (~LastPage(p) => further \in Checkpoints) /\ upTo \in Checkpoints
      BY <1>3, <2>1 DEF Cursor, Checkpoints
    <2> QED
      BY <1>3, <2>2, ConstantsAssumption DEF Cursor, ConstantsAssumption
  <1> HIDE DEF position, upTo, further
  <1> PICK n \in Nat : n = position
    BY <1>5
  <1>6. FirstBaseline(p) <=> history.before = None
    BY <1>2 DEF FirstBaseline, Reading, RowInv
  <1>7. history.nextUid \in Nat /\ history.nextUid <= UpperUid(p) + 1
    <2>1. UpperUid(p) = UidNext - 1 \/ history.nextUid <= UpperUid(p) + 1
      BY <1>2 DEF UpperUid, Reading
    <2> QED
      BY <1>3, <2>1, MailIsTyped DEF RowInv
  <1>8. ASSUME NEW c \in Kept(p)
        PROVE  Importable(c)
    <2>1. PICK uid \in PageUids(p) :
            /\ c = <<mailbox.uidValidity, uid>>
            /\ \/ refresh[p].state.baselineEstablished
               \/ mailbox.messages[uid].receivedAt > refresh[p].cutoff
      BY <1>8 DEF Kept
    <2>2. ~FirstBaseline(p) /\ FromUid(p) <= uid /\ uid \in Received
      BY <1>3, <2>1 DEF PageUids
    <2>3. CASE refresh[p].state.baselineEstablished
      <3>1. history.nextUid <= FromUid(p)
        BY <1>2, <2>3 DEF Reading, FromUid
      <3>2. ~(uid < history.nextUid)
        BY <1>3, <1>7, <2>2, <3>1, MailIsTyped
      <3> QED
        BY <1>6, <2>1, <2>2, <3>2 DEF Importable
    <2>4. CASE mailbox.messages[uid].receivedAt > refresh[p].cutoff
      <3>1. history.before # None /\ history.before <= refresh[p].cutoff
        BY <1>2, <1>6, <2>2 DEF RowInv
      <3>2. refresh[p].cutoff \in Nat /\ history.before \in Nat
        BY <1>2, <3>1, MailIsTyped DEF RowInv
      <3>3. mailbox.messages[uid].receivedAt > history.before
        BY <2>2, <2>4, <3>1, <3>2, MailIsTyped
      <3> QED
        BY <2>1, <3>1, <3>3 DEF Importable, Message
    <2> QED
      BY <2>1, <2>3, <2>4
  <1>9. AccountedTo(p, n)'
    <2> SUFFICES ASSUME history.before # None, NEW uid \in Received,
                        history.nextUid <= uid, uid < n
                 PROVE  Accounted(p, uid)'
      BY <1>0 DEF AccountedTo, Received
    <2>1. Accounted(p, uid) => Accounted(p, uid)'
      BY <1>0, <1>1 DEF Accounted, Retained, BeforeCutoff, UidNext
    <2>2. CASE uid < FromUid(p)
      <3>1. refresh[p].cursor # None /\ uid < refresh[p].cursor.nextUid
        BY <2>2, MailIsTyped DEF FromUid, Received
      <3> QED
        BY <1>2, <2>1, <3>1 DEF Reading, AccountedTo
    <2>3. CASE ~(uid < FromUid(p))
      <3>1. uid \in PageUids(p)
        BY <1>3, <1>4, <1>6, <2>3, MailIsTyped
      <3>2. CASE refresh[p].state.baselineEstablished
                 \/ mailbox.messages[uid].receivedAt > refresh[p].cutoff
        <4>1. <<mailbox.uidValidity, uid>> \in Kept(p)
          BY <3>1, <3>2 DEF Kept
        <4> QED
          BY <1>1, <4>1 DEF Accounted
      <3>3. CASE /\ ~refresh[p].state.baselineEstablished
                 /\ ~(mailbox.messages[uid].receivedAt > refresh[p].cutoff)
        <4>1. ~row.state.baselineEstablished
          BY <1>2, <3>3 DEF Reading
        <4>2. refresh[p].cutoff \in Nat
          BY <1>2, MailIsTyped DEF RowInv
        <4>3. mailbox.messages[uid].receivedAt <= refresh[p].cutoff
          BY <3>3, <4>2, MailIsTyped
        <4> QED
          BY <1>0, <1>1, <4>1, <4>3 DEF Accounted
      <3> QED
        BY <3>2, <3>3
    <2> QED
      BY <2>2, <2>3
  <1>10. \A c \in refresh'[p].changes : Importable(c)'
    BY <1>0, <1>1, <1>8 DEF Holding, Importable, Message
  <1>11. CASE LastPage(p)
    <2>1. refresh'[p].state.checkpoint = upTo /\ upTo.nextUid = n /\ history.nextUid <= n
      BY <1>1, <1>3, <1>5, <1>7, <1>11 DEF position
    <2>2. HasRead(p)'
      BY <1>0, <1>5, <1>9, <1>11, <2>1 DEF HasRead
    <2> QED
      BY <1>0, <1>1, <1>2, <1>10, <1>11, <2>2 DEF Holding
  <1>12. CASE ~LastPage(p)
    <2>1. refresh'[p].cursor = further /\ refresh'[p].state = refresh[p].state
      BY <1>1, <1>12
    <2>2. history.before # None
      BY <1>6, <1>12 DEF LastPage
    <2>3. row.state.baselineEstablished => history.nextUid <= n
      <3>1. row.state.baselineEstablished => history.nextUid <= FromUid(p)
        BY <1>2 DEF Reading, FromUid
      <3> QED
        BY <1>3, <1>7, <1>12, <3>1 DEF position
    <2>4. /\ further # None /\ further.nextUid = n
          /\ history.nextUid <= further.upperUid + 1
      BY <1>5, <1>7, <1>12
    <2>5. Reading(p)'
      BY <1>0, <1>2, <1>9, <2>1, <2>2, <2>3, <2>4 DEF Reading
    <2> QED
      BY <1>0, <1>1, <1>2, <1>10, <1>12, <2>5 DEF Holding
  <1> QED
    BY <1>11, <1>12

\* A read that ended, well or badly: nothing more is kept, and a success is dated
\* no earlier than the first one.
LEMMA EndOfReadHolds ==
  ASSUME SyncInv, RowInv, NEW p \in Replicas, Holding(p),
         Succeed(p) \/ ReadFails(p) \/ CursorIsInvalid(p)
  PROVE  Holding(p)'
  <1> USE DEF SyncInv
  <1>0. UNCHANGED <<clock, mailbox, row, inbox, inbound, events, history>>
    BY DEF Succeed, ReadFails, CursorIsInvalid
  <1>1. \A c : Importable(c) => Importable(c)'
    BY <1>0 DEF Importable, Message
  <1>2. CASE Succeed(p)
    <2>1. /\ refresh[p].stage = "read" /\ refresh'[p].stage = "done"
          /\ refresh'[p].state.checkpoint = refresh[p].state.checkpoint
          /\ refresh'[p].state.baselineEstablished
          /\ refresh'[p].state.lastSuccessfulSyncAt = clock
          /\ refresh'[p].changes = refresh[p].changes
          /\ refresh'[p].cutoff = refresh[p].cutoff
      BY <1>2, SucceedEffect
    <2>2. \A n : AccountedTo(p, n) => AccountedTo(p, n)'
      BY <1>0, <2>1 DEF AccountedTo, Accounted, Retained, BeforeCutoff, Received, UidNext
    <2>3. HasRead(p)'
      BY <1>0, <2>1, <2>2 DEF Holding, HasRead
    <2>4. HasSucceeded(p)'
      BY <1>0, <2>1, MailIsTyped DEF HasSucceeded, RowInv
    <2> QED
      BY <1>0, <1>1, <2>1, <2>3, <2>4 DEF Holding
  <1>3. CASE ReadFails(p)
    <2>1. HasFailed(p)'
      BY <1>0, <1>3, ReadFailsEffect DEF Holding, Reading, HasFailed
    <2> QED
      BY <1>0, <1>3, <2>1, ReadFailsEffect DEF Holding
  <1>4. CASE CursorIsInvalid(p)
    <2>1. HasFailed(p)'
      BY <1>0, <1>4, CursorIsInvalidEffect DEF Holding, Reading, HasFailed
    <2> QED
      BY <1>0, <1>4, <2>1, CursorIsInvalidEffect DEF Holding
  <1> QED
    BY <1>2, <1>3, <1>4

\* The stored state is where a new holder starts.
LEMMA ClaimKeepsImports ==
  ASSUME SyncInv, MailInv, ImportInv, NEW p \in Replicas, Claim(p)
  PROVE  ImportInv'
  <1> USE DEF SyncInv, Received, UidNext
  <1>0. UNCHANGED <<clock, mailbox, inbox, inbound, events, history>>
    BY DEF Claim
  <1>1. /\ row'.state = row.state /\ row'.leaseToken = p
        /\ refresh'[p].stage = "reading" /\ refresh'[p].changes = {}
        /\ refresh'[p].state = row.state
        /\ refresh'[p].cursor = row.state.checkpoint
        /\ refresh'[p].cutoff = row.state.lastSuccessfulSyncAt
    BY ClaimEffect
  <1>2. \A c : Importable(c) => Importable(c)'
    BY <1>0 DEF Importable, Message
  <1>3. RowInv' /\ RowIsCovered' /\ \A reference \in inbox' : Importable(reference)'
    BY <1>0, <1>1, <1>2 DEF ImportInv, RowInv, RowIsCovered, Retained, BeforeCutoff
  <1>4. row.state.checkpoint # None => AccountedTo(p, row.state.checkpoint.nextUid)'
    BY <1>0, <1>1 DEF ImportInv, RowInv, RowIsCovered, AccountedTo, Accounted, Retained,
                      BeforeCutoff
  <1>5. row.state.checkpoint # None => row.state.checkpoint.upperUid = 0
    BY DEF ImportInv, RowInv
  <1>6. Reading(p)'
    BY <1>0, <1>1, <1>4, <1>5 DEF ImportInv, RowInv, Reading
  <1> QED
    BY <1>0, <1>1, <1>3, <1>6 DEF ImportInv, Holding

\* A completed refresh: what it read is stored with the position it read to, so
\* all mail up to there is stored, or older than the success it recovered from.
LEMMA CompleteKeepsImports ==
  ASSUME SyncInv, MailInv, ImportInv, NEW p \in Replicas, Complete(p)
  PROVE  ImportInv'
  <1> USE DEF SyncInv
  <1>1. /\ row.leaseToken = p /\ refresh[p].stage \in {"failed", "done"}
        /\ row'.state = refresh[p].state
        /\ inbox' = inbox \cup refresh[p].changes
        /\ UNCHANGED <<mailbox, clock>>
        /\ refresh[p].stage = "failed" => history' = history
    BY CompleteEffect
  <1>2. Holding(p)
    BY <1>1 DEF ImportInv
  <1>3. row'.leaseToken \notin Replicas
    BY ConstantsAssumption DEF Complete, ConstantsAssumption
  <1>4. Received' = Received /\ UidNext' = UidNext
    BY <1>1 DEF Received, UidNext
  <1>5. CASE refresh[p].stage = "failed"
    <2>1. HasFailed(p) /\ history' = history /\ inbox' = inbox
      BY <1>1, <1>2, <1>5 DEF Holding, HasFailed
    <2>2. \A reference \in inbox' : Importable(reference)'
      BY <1>1, <2>1 DEF ImportInv, Importable, Message
    <2>3. RowInv'
      BY <1>1, <1>4, <2>1 DEF HasFailed, ImportInv, RowInv
    <2>4. RowIsCovered'
      BY <1>1, <1>4, <2>1 DEF HasFailed, ImportInv, RowIsCovered, Retained, BeforeCutoff
    <2> QED
      BY <1>3, <2>2, <2>3, <2>4 DEF ImportInv
  <1>6. CASE refresh[p].stage = "done"
    <2> DEFINE state == refresh[p].state
    <2>1. HasRead(p) /\ HasSucceeded(p) /\ refresh[p].cutoff = row.state.lastSuccessfulSyncAt
      BY <1>2, <1>6 DEF Holding
    <2>2. /\ history'.nextUid = IF history.before = None THEN state.checkpoint.nextUid
                                ELSE history.nextUid
          /\ history'.before = IF history.before = None THEN state.lastSuccessfulSyncAt
                               ELSE history.before
          /\ history'.cutoff = IF row.state.baselineEstablished THEN history.cutoff
                               ELSE refresh[p].cutoff
      <3>1. history' = [history EXCEPT
               !.nextUid = IF history.before = None
                           THEN refresh[p].state.checkpoint.nextUid ELSE @,
               !.before = IF @ = None
                          THEN refresh[p].state.lastSuccessfulSyncAt ELSE @,
               !.cutoff = IF row.state.baselineEstablished
                          THEN @ ELSE refresh[p].cutoff]
        BY <1>6 DEF Complete
      <3>2. history \in [nextUid : Nat, before : Times, cutoff : Times]
        BY DEF TypeOK
      <3> QED
        BY <3>1, <3>2
    <2>3. /\ state.checkpoint \in Checkpoints /\ state.checkpoint # None
          /\ state.checkpoint.nextUid \in Nat
          /\ state.lastSuccessfulSyncAt \in Nat
      BY <2>1 DEF TypeOK, SyncStates, Times, HasRead, HasSucceeded, Checkpoints
    <2>4. Positions(state.checkpoint)
      BY DEF MailInv, Bounded
    <2>5. RowInv'
      <3>1. history'.before # None /\ history'.before <= state.lastSuccessfulSyncAt
        BY <2>1, <2>2, <2>3, MailIsTyped DEF HasSucceeded
      <3>2. history'.before <= clock
        BY <2>1, <2>2, MailIsTyped DEF HasSucceeded, ImportInv, RowInv
      <3>3. history'.nextUid <= UidNext /\ history'.nextUid <= state.checkpoint.nextUid
        BY <2>1, <2>2, <2>3, <2>4 DEF HasRead, ImportInv, RowInv, Positions
      <3> QED
        BY <1>1, <1>4, <2>1, <2>3, <3>1, <3>2, <3>3, MailIsTyped DEF RowInv, HasRead, HasSucceeded
    <2>6. CASE history.before = None
      <3>1. inbox' = {}
        BY <1>1, <1>2, <2>6 DEF Holding, ImportInv, Importable
      <3>2. RowIsCovered'
        BY <1>1, <1>4, <2>2, <2>3, <2>6, MailIsTyped DEF RowIsCovered
      <3> QED
        BY <1>3, <2>5, <3>1, <3>2 DEF ImportInv
    <2>7. CASE history.before # None
      <3>1. history'.nextUid = history.nextUid /\ history'.before = history.before
        BY <2>2, <2>7
      <3>2. \A reference \in inbox' : Importable(reference)'
        BY <1>1, <1>2, <3>1 DEF ImportInv, Holding, Importable, Message
      <3>3. ASSUME NEW uid \in Received, Accounted(p, uid)
            PROVE  Retained(uid)' \/ BeforeCutoff(uid)'
        <4>1. CASE Retained(uid) \/ \E c \in refresh[p].changes : c[2] = uid
          BY <1>1, <4>1 DEF Retained
        <4>2. CASE row.state.baselineEstablished /\ BeforeCutoff(uid)
          BY <1>1, <1>4, <2>2, <4>2 DEF BeforeCutoff
        <4>3. CASE /\ ~row.state.baselineEstablished
                   /\ mailbox.messages[uid].receivedAt <= refresh[p].cutoff
          <5>1. refresh[p].cutoff # None
            BY <2>1, <2>7 DEF ImportInv, RowInv
          <5>2. uid < UidNext
            BY MailIsTyped DEF Received, UidNext, TypeOK
          <5> QED
            BY <1>1, <1>4, <2>2, <4>3, <5>1, <5>2 DEF BeforeCutoff
        <4> QED
          BY <3>3, <4>1, <4>2, <4>3 DEF Accounted
      <3>4. RowIsCovered'
        BY <1>1, <1>4, <2>1, <2>7, <3>1, <3>3 DEF RowIsCovered, HasRead, AccountedTo
      <3> QED
        BY <1>3, <2>5, <3>2, <3>4 DEF ImportInv
    <2> QED
      BY <2>6, <2>7
  <1> QED
    BY <1>1, <1>5, <1>6

\* Every step keeps the accounts.
LEMMA ImportInvStep ==
  ASSUME SyncInv, MailInv, ImportInv, [Next]_vars
  PROVE  ImportInv'
  <1> USE DEF SyncInv
  <1>1. CASE UNCHANGED vars
    BY <1>1 DEF vars, ImportInv, RowInv, RowIsCovered, Retained, BeforeCutoff, Importable,
                Message, Holding, Reading, HasRead, HasSucceeded, HasFailed, AccountedTo,
                Accounted, Received, UidNext
  <1>2. CASE Arrivals \/ Rebuild \/ Tick
    BY <1>2, OutsideKeepsImports
  <1>3. ASSUME NEW p \in Replicas, Claim(p) PROVE ImportInv'
    BY <1>3, ClaimKeepsImports
  <1>4. ASSUME NEW p \in Replicas, NEW from, ReadPage(p, from) PROVE ImportInv'
    <2>1. UNCHANGED <<clock, mailbox, row, inbox, history>>
      BY <1>4 DEF ReadPage
    <2>2. \A q \in Replicas \ {p} : refresh'[q] = refresh[q]
      BY <1>4, ReadPageEffect
    <2>3. row.leaseToken = p => Holding(p)'
      BY <1>4, ReadPageHolds DEF ImportInv, ReadPage
    <2> QED
      BY <2>1, <2>2, <2>3, OnlyTheHolder
  <1>5. ASSUME NEW p \in Replicas, Succeed(p) \/ ReadFails(p) \/ CursorIsInvalid(p)
        PROVE  ImportInv'
    <2>1. UNCHANGED <<clock, mailbox, row, inbox, history>>
      BY <1>5 DEF Succeed, ReadFails, CursorIsInvalid
    <2>2. \A q \in Replicas \ {p} : refresh'[q] = refresh[q]
      BY <1>5, SucceedEffect, ReadFailsEffect, CursorIsInvalidEffect
    <2>3. row.leaseToken = p => Holding(p)'
      BY <1>5, EndOfReadHolds DEF ImportInv, Succeed, ReadFails, CursorIsInvalid
    <2> QED
      BY <2>1, <2>2, <2>3, OnlyTheHolder
  <1>6. ASSUME NEW p \in Replicas, Complete(p) PROVE ImportInv'
    BY <1>6, CompleteKeepsImports
  <1>7. ASSUME NEW p \in Replicas, Fenced(p) \/ Crash(p) PROVE ImportInv'
    <2>1. UNCHANGED <<clock, mailbox, row, inbox, history>>
      BY <1>7 DEF Fenced, Crash
    <2>2. refresh'[p].stage = "idle" /\ \A q \in Replicas \ {p} : refresh'[q] = refresh[q]
      BY <1>7, EndEffect
    <2> QED
      BY <2>1, <2>2, OnlyTheHolder
  <1> QED
    BY <1>1, <1>2, <1>3, <1>4, <1>5, <1>6, <1>7 DEF Next, Refreshes

LEMMA ImportInvInit == Init => ImportInv
  <1> SUFFICES ASSUME Init PROVE ImportInv
    OBVIOUS
  <1>1. UidNext = 1
    BY DEF Init, UidNext
  <1>2. RowInv /\ RowIsCovered
    BY <1>1 DEF Init, RowInv, RowIsCovered, Unknown
  <1> QED
    BY <1>2 DEF Init, ImportInv, Idle

LEMMA ImportsAreInvariant == Spec => [](SyncInv /\ MailInv /\ ImportInv)
  <1>1. Init => SyncInv /\ MailInv /\ ImportInv
    BY SyncInvInit, MailInvInit, ImportInvInit
  <1>2. SyncInv /\ MailInv /\ ImportInv /\ [Next]_vars
          => (SyncInv /\ MailInv /\ ImportInv)'
    BY SyncInvStep, MailInvStep, ImportInvStep
  <1> QED
    BY <1>1, <1>2, PTL DEF Spec

\* No baseline imports the mail that was there before: neither the first one nor
\* one that recovers from an invalid cursor (performRefresh, and its cutoff).
THEOREM HistoryIsNotImportedHolds == Spec => []HistoryIsNotImported
  <1>1. SyncInv /\ MailInv /\ ImportInv => HistoryIsNotImported
    BY DEF ImportInv, Importable, HistoryIsNotImported
  <1> QED
    BY <1>1, ImportsAreInvariant, PTL

\* Whatever replica moved the checkpoint past a message that arrived after the
\* first baseline has stored the message, or the message was received no later than
\* the success that a recovery started from (its cutoff; NoMailIsSkipped shows what
\* this excuses): the checkpoint and what was read are stored in one transaction,
\* under one lease.
THEOREM SkippedOnlyBeforeCutoffHolds == Spec => []SkippedOnlyBeforeCutoff
  <1>1. SyncInv /\ MailInv /\ ImportInv => SkippedOnlyBeforeCutoff
    <2> SUFFICES ASSUME SyncInv, MailInv, ImportInv, NEW uid \in Uids, Passed(uid),
                        uid >= history.nextUid
                 PROVE  Retained(uid) \/ BeforeCutoff(uid)
      BY DEF SkippedOnlyBeforeCutoff
    <2>1. uid \in Nat /\ uid >= 1 /\ MaxMessages \in Nat
      BY ConstantsAssumption DEF Uids, ConstantsAssumption
    <2>2. uid \in Received /\ history.nextUid <= uid
      BY <2>1, MailIsTyped DEF Passed, Received, UidNext, SyncInv, TypeOK
    <2> QED
      BY <2>2 DEF Passed, ImportInv, RowIsCovered
  <1> QED
    BY <1>1, ImportsAreInvariant, PTL
=============================================================================
