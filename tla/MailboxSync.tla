---------------------------- MODULE MailboxSync ----------------------------
(***************************************************************************)
(* Synchronization of the Correspondence mailbox                           *)
(* (customer-mailbox-sync.service.ts), the IMAP adapter that reads it page *)
(* by page (imap-customer-mailbox-changes.ts) and the ingestion of what    *)
(* was read (customer-reply-ingestion.service.ts).                         *)
(*                                                                         *)
(* Every API replica may refresh the one customer_mailbox_sync row.  A     *)
(* refresh claims a lease in one transaction, reads pages outside any      *)
(* transaction, and then stores its checkpoint and what it read in one     *)
(* other transaction, provided the row still carries its lease token.  A   *)
(* replica performs one refresh at a time, so its name stands for the      *)
(* random token of that refresh.                                           *)
(*                                                                         *)
(* The mailbox numbers its messages in the order of their arrival; after a *)
(* rebuild it announces a new UIDVALIDITY and what replicas know of the    *)
(* numbers is void.                                                        *)
(***************************************************************************)
EXTENDS Integers, Sequences, FiniteSets

CONSTANTS
  Replicas,      \* API processes
  None,          \* null
  Lease,         \* leaseDurationMs
  PageSize,      \* pageSize of the IMAP adapter
  Kinds,         \* kinds of incoming mail
  Identified,    \* may a message carry a Message-ID: a set of truth values
  Skew,          \* bound: clock of the mail server against that of the API
  MaxMessages,   \* bound: mail that arrives
  MaxRebuilds,   \* bound: rebuilds of the mailbox
  MaxClock       \* bound: the horizon of the model

Checkpoints == [uidValidity : Nat, nextUid : Nat, upperUid : Nat]

ASSUME ConstantsAssumption ==
  /\ None \notin Int
  /\ None \notin Checkpoints
  /\ None \notin Replicas
  /\ Lease \in Nat \ {0}
  /\ PageSize \in Nat \ {0}
  /\ Kinds \subseteq {"reply", "report", "own"}
  /\ Identified \subseteq BOOLEAN
  /\ {Skew, MaxMessages, MaxRebuilds, MaxClock} \subseteq Nat

VARIABLES
  clock,
  mailbox,    \* the mail server: UIDVALIDITY and messages, by UID
  row,        \* the customer_mailbox_sync row
  refresh,    \* the refresh each replica carries out in memory
  inbox,      \* references in customer_mailbox_change_inbox
  inbound,    \* references in customer_inbound_messages
  events,     \* references in customer_mail_system_events
  history     \* observed: first baseline, and the cutoff of the last recovery

vars == <<clock, mailbox, row, refresh, inbox, inbound, events, history>>

Stages == {"idle", "reading", "read", "failed", "done"}
Times == Nat \cup {None}
Uids == 1..MaxMessages

-----------------------------------------------------------------------------
Unknown == [checkpoint |-> None, baselineEstablished |-> FALSE,
            lastSuccessfulSyncAt |-> None]
Idle == [stage |-> "idle", state |-> Unknown, cursor |-> None,
         cutoff |-> None, changes |-> {}]

Init ==
  /\ clock = 0
  /\ mailbox = [uidValidity |-> 1, messages |-> <<>>]
  /\ row = [state |-> Unknown, leaseToken |-> None, leaseExpiresAt |-> 0]
  /\ refresh = [p \in Replicas |-> Idle]
  /\ inbox = {}
  /\ inbound = {}
  /\ events = {}
  /\ history = [nextUid |-> 1, before |-> None, cutoff |-> None]

UidNext == Len(mailbox.messages) + 1
Message(reference) == mailbox.messages[reference[2]]

-----------------------------------------------------------------------------
(* The mail server.                                                        *)

Arrive(kind, identified, receivedAt) ==
  /\ Len(mailbox.messages) < MaxMessages
  /\ mailbox' = [mailbox EXCEPT
                   !.messages = Append(@, [kind |-> kind, identified |-> identified,
                                           receivedAt |-> receivedAt])]
  /\ UNCHANGED <<clock, row, refresh, inbox, inbound, events, history>>

Rebuild ==
  /\ mailbox.uidValidity <= MaxRebuilds
  /\ mailbox' = [mailbox EXCEPT !.uidValidity = @ + 1]
  /\ UNCHANGED <<clock, row, refresh, inbox, inbound, events, history>>

-----------------------------------------------------------------------------
(* The claim.                                                              *)

\* Variant: a lease is held until it is given back.
ActiveLeaseWithoutExpiry == row.leaseToken # None

ActiveLease == row.leaseToken # None /\ row.leaseExpiresAt > clock

\* performRefresh, up to its first read; while another lease is active it only
\* waits for that refresh and changes nothing.
Claim(p) ==
  /\ refresh[p].stage = "idle"
  /\ ~ActiveLease
  /\ row' = [row EXCEPT !.leaseToken = p, !.leaseExpiresAt = clock + Lease]
  /\ refresh' = [refresh EXCEPT
                   ![p] = [Idle EXCEPT !.stage = "reading",
                                       !.state = row.state,
                                       !.cursor = row.state.checkpoint,
                                       !.cutoff = row.state.lastSuccessfulSyncAt]]
  /\ UNCHANGED <<clock, mailbox, inbox, inbound, events, history>>

-----------------------------------------------------------------------------
(* Reading.  A cursor is a checkpoint with the last UID it may read, which *)
(* is 0 until the first page has fixed it.                                 *)

Cursor(nextUid, upperUid) ==
  [uidValidity |-> mailbox.uidValidity, nextUid |-> nextUid, upperUid |-> upperUid]

FromUid(p) == IF refresh[p].cursor = None THEN 1 ELSE refresh[p].cursor.nextUid
UpperUid(p) ==
  IF refresh[p].cursor = None \/ refresh[p].cursor.upperUid = 0
  THEN UidNext - 1
  ELSE refresh[p].cursor.upperUid

\* Neither checkpoint nor earlier success: nothing is read, only the position.
FirstBaseline(p) == refresh[p].cursor = None /\ refresh[p].cutoff = None
ValidCursor(p) ==
  refresh[p].cursor # None => refresh[p].cursor.uidValidity = mailbox.uidValidity

PageUids(p) ==
  IF FirstBaseline(p) THEN {}
  ELSE {uid \in FromUid(p)..UpperUid(p) : uid < FromUid(p) + PageSize}

\* Variant: the page before the last is taken for the last.
LastPageTooEarly(p) == FirstBaseline(p) \/ FromUid(p) + PageSize >= UpperUid(p)

LastPage(p) == FirstBaseline(p) \/ FromUid(p) + PageSize > UpperUid(p)

\* Variant: recovery imports every message that is still in the mailbox.
KeptUnfiltered(p) == {<<mailbox.uidValidity, uid>> : uid \in PageUids(p)}

\* What performRefresh keeps of a page: in recovery only mail received after
\* the last success.  (The day the server searches from never excludes it.)
Kept(p) ==
  {<<mailbox.uidValidity, uid>> :
     uid \in {u \in PageUids(p) :
                \/ refresh[p].state.baselineEstablished
                \/ mailbox.messages[u].receivedAt > refresh[p].cutoff}}

\* Variant: the checkpoint is taken from the mailbox when the last page is read.
ReadUpToNow(p) == UidNext

\* The first UID after everything a complete read has covered.
ReadUpTo(p) ==
  IF FirstBaseline(p) THEN UidNext
  ELSE IF UpperUid(p) < FromUid(p) THEN FromUid(p) ELSE UpperUid(p) + 1

ReadPage(p, from) ==
  /\ refresh[p].stage = "reading"
  /\ ValidCursor(p)
  /\ from = FromUid(p)
  /\ refresh' =
       [refresh EXCEPT
          ![p].changes = @ \cup Kept(p),
          ![p].stage = IF LastPage(p) THEN "read" ELSE "reading",
          ![p].cursor = IF LastPage(p) THEN @
                        ELSE Cursor(FromUid(p) + PageSize, UpperUid(p)),
          ![p].state.checkpoint = IF LastPage(p) THEN Cursor(ReadUpTo(p), 0) ELSE @]
  /\ UNCHANGED <<clock, mailbox, row, inbox, inbound, events, history>>

\* The mailbox answers, and the refresh counts as successful from now on.
Succeed(p) ==
  /\ refresh[p].stage = "read"
  /\ refresh' = [refresh EXCEPT
                   ![p].stage = "done",
                   ![p].state.baselineEstablished = TRUE,
                   ![p].state.lastSuccessfulSyncAt = clock]
  /\ UNCHANGED <<clock, mailbox, row, inbox, inbound, events, history>>

\* A read fails for good, after the retries of readPageWithRetry.
ReadFails(p) ==
  /\ refresh[p].stage = "reading"
  /\ refresh' = [refresh EXCEPT ![p].stage = "failed", ![p].changes = {}]
  /\ UNCHANGED <<clock, mailbox, row, inbox, inbound, events, history>>

\* INVALID_CURSOR: the next refresh starts from a new baseline.
CursorIsInvalid(p) ==
  /\ refresh[p].stage = "reading"
  /\ ~ValidCursor(p)
  /\ refresh' = [refresh EXCEPT
                   ![p].stage = "failed",
                   ![p].changes = {},
                   ![p].state.checkpoint = None,
                   ![p].state.baselineEstablished = FALSE]
  /\ UNCHANGED <<clock, mailbox, row, inbox, inbound, events, history>>

-----------------------------------------------------------------------------
(* Completion.                                                             *)

\* Variant: a message is known by its reference only.
ReplayedByReference(reference, rows) == reference \in rows

\* A message is known by its reference or, when it carries one, by its
\* Message-ID with its sender and time, which a rebuild leaves as they are.
Replayed(reference, rows) ==
  \/ reference \in rows
  \/ Message(reference).identified /\ \E other \in rows : other[2] = reference[2]

New(changes, kind, rows) ==
  {c \in changes : Message(c).kind = kind /\ ~Replayed(c, rows)}

\* Variant: reports are kept as system events only.
IngestRepliesOnly(changes) ==
  /\ inbox' = inbox \cup {c \in changes : Message(c).kind = "reply"}
  /\ inbound' = inbound \cup New(changes, "reply", inbound)
  /\ events' = events \cup New(changes, "report", events)

\* CustomerReplyIngestionService.ingest.
Ingest(changes) ==
  /\ inbox' = inbox \cup changes
  /\ inbound' = inbound \cup New(changes, "reply", inbound)
  /\ events' = events \cup New(changes, "report", events)

\* Variant: the row is updated whoever holds its lease.
HoldsLeaseUnchecked(p) == TRUE

HoldsLease(p) == row.leaseToken = p

Complete(p) ==
  /\ refresh[p].stage \in {"failed", "done"}
  /\ HoldsLease(p)
  /\ row' = [state |-> refresh[p].state, leaseToken |-> None, leaseExpiresAt |-> 0]
  /\ Ingest(refresh[p].changes)
  /\ refresh' = [refresh EXCEPT ![p] = Idle]
  /\ history' =
       IF refresh[p].stage = "failed"
       THEN history
       ELSE [history EXCEPT
               !.nextUid = IF history.before = None
                           THEN refresh[p].state.checkpoint.nextUid ELSE @,
               !.before = IF @ = None
                          THEN refresh[p].state.lastSuccessfulSyncAt ELSE @,
               !.cutoff = IF row.state.baselineEstablished
                          THEN @ ELSE refresh[p].cutoff]
  /\ UNCHANGED <<clock, mailbox>>

\* Another replica has taken over the lease: everything that was read is dropped.
Fenced(p) ==
  /\ refresh[p].stage \in {"failed", "done"}
  /\ ~HoldsLease(p)
  /\ refresh' = [refresh EXCEPT ![p] = Idle]
  /\ UNCHANGED <<clock, mailbox, row, inbox, inbound, events, history>>

\* The process ends, or its completing transaction is rolled back.  Bound: only
\* while the lease it leaves behind ends within the horizon.
Crash(p) ==
  /\ refresh[p].stage # "idle"
  /\ row.leaseExpiresAt <= MaxClock
  /\ refresh' = [refresh EXCEPT ![p] = Idle]
  /\ UNCHANGED <<clock, mailbox, row, inbox, inbound, events, history>>

Tick ==
  /\ clock < MaxClock
  /\ clock' = clock + 1
  /\ UNCHANGED <<mailbox, row, refresh, inbox, inbound, events, history>>

-----------------------------------------------------------------------------
Arrivals ==
  \E kind \in Kinds, identified \in Identified,
     receivedAt \in {t \in (clock - Skew)..(clock + Skew) : t >= 0} :
    Arrive(kind, identified, receivedAt)

Refreshes ==
  \E p \in Replicas :
    \/ Claim(p)
    \/ \E from \in 1..(MaxMessages + 1) : ReadPage(p, from)
    \/ Succeed(p)
    \/ ReadFails(p)
    \/ CursorIsInvalid(p)
    \/ Complete(p)
    \/ Fenced(p)
    \/ Crash(p)

Next == Arrivals \/ Rebuild \/ Refreshes \/ Tick

Spec == Init /\ [][Next]_vars

(***************************************************************************)
(* Fairness: time passes, a poll timer claims a lease that is free, a      *)
(* refresh that lives goes on, and the mailbox does not refuse the same    *)
(* page for ever.                                                          *)
(***************************************************************************)
FairSpec ==
  /\ Spec
  /\ WF_vars(Tick)
  /\ WF_vars(\E p \in Replicas : Claim(p))
  /\ \A p \in Replicas :
       /\ \A from \in 1..(MaxMessages + 1) : SF_vars(ReadPage(p, from))
       /\ WF_vars(Succeed(p))
       /\ SF_vars(CursorIsInvalid(p))
       /\ WF_vars(Complete(p) \/ Fenced(p))

-----------------------------------------------------------------------------
(* Properties.                                                             *)

SyncStates == [checkpoint : Checkpoints \cup {None}, baselineEstablished : BOOLEAN,
               lastSuccessfulSyncAt : Times]
References == Nat \X Nat

TypeOK ==
  /\ clock \in Nat
  /\ mailbox \in [uidValidity : Nat,
                  messages : Seq([kind : Kinds, identified : Identified,
                                  receivedAt : Nat])]
  /\ row \in [state : SyncStates, leaseToken : Replicas \cup {None},
              leaseExpiresAt : Nat]
  /\ refresh \in [Replicas -> [stage : Stages, state : SyncStates,
                               cursor : Checkpoints \cup {None}, cutoff : Times,
                               changes : SUBSET References]]
  /\ inbox \subseteq References
  /\ inbound \subseteq inbox
  /\ events \subseteq inbox
  /\ history \in [nextUid : Nat, before : Times, cutoff : Times]

Retained(uid) == \E reference \in inbox : reference[2] = uid

\* The stored checkpoint says that this message needs no further reading.
Passed(uid) ==
  /\ uid < UidNext
  /\ row.state.checkpoint # None
  /\ uid < row.state.checkpoint.nextUid

\* Received no later than the success that the last recovery started from.
BeforeCutoff(uid) ==
  /\ history.cutoff # None
  /\ uid < UidNext
  /\ mailbox.messages[uid].receivedAt <= history.cutoff

\* Mail that arrived after the first baseline is never passed over: whatever
\* replica moved the checkpoint beyond a message has stored that message in the
\* same transaction, also after the recovery from an invalid cursor (the sync
\* tests expect the mail of the "cursor gap" to be retained).
NoMailIsSkipped ==
  \A uid \in Uids : Passed(uid) /\ uid >= history.nextUid => Retained(uid)

\* The only mail that is ever passed over had been received, by the mail
\* server's clock, before the last success that a recovery started from.
SkippedOnlyBeforeCutoff ==
  \A uid \in Uids :
    Passed(uid) /\ uid >= history.nextUid => Retained(uid) \/ BeforeCutoff(uid)

\* Historical mail is never imported, neither by the first baseline nor by the
\* new baseline after an invalid cursor, which reads the mailbox from its start.
HistoryIsNotImported ==
  \A reference \in inbox :
    reference[2] < history.nextUid => Message(reference).receivedAt > history.before

\* Each reply is stored, and counted as unread, once: also when a rebuilt mailbox
\* presents it under a new reference.
EachReplyCountsOnce ==
  \A r1, r2 \in inbound :
    r1[2] = r2[2] /\ Message(r1).identified => r1 = r2

\* A slow refresh that lost its lease never moves the stored checkpoint back, so
\* no replica reads again what another one has stored.
CheckpointNeverRewinds ==
  [][/\ row.state.checkpoint # None
     /\ row'.state.checkpoint # None
     /\ row'.state.checkpoint.uidValidity = row.state.checkpoint.uidValidity
     => row'.state.checkpoint.nextUid >= row.state.checkpoint.nextUid]_vars

\* Every message that arrives after the first baseline is retained in the end,
\* through crashes, failing reads and rebuilds, unless a recovery skipped it.
MailIsEventuallyRetained ==
  \A uid \in Uids :
    (history.before # None /\ uid < UidNext /\ uid >= history.nextUid) ~>
      Retained(uid) \/ BeforeCutoff(uid)

=============================================================================
