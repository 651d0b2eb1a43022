----------------------------- MODULE MCLiveness -----------------------------
(***************************************************************************)
(* Model checking of what must happen in the end: the outcome of a         *)
(* follow-up ping, and the retention of the mail that arrives.  Pings and  *)
(* mailbox share no state; each behaviour is about one of them, its focus, *)
(* and the fairness of each, restated from its FairSpec, asks nothing of   *)
(* the other.                                                              *)
(***************************************************************************)
EXTENDS Integers

CONSTANTS None, ClosedReference, d1, d2, c1, p1

VARIABLES
  focus, clock,
  archived, context, schedule, preview, attempt, results, evidence, flight, world,
  mailbox, row, refresh, inbox, inbound, events, history

Ping == INSTANCE FollowUpPing WITH
  Deliverers <- {d1, d2}, Contexts <- {c1}, MaxAttempts <- 1, Lease <- 1,
  PreviewLifetime <- 1, Intervals <- {1}, Expiries <- {}, PollLag <- 1,
  MaxClock <- 2, MaxClaims <- 2, MaxDraftVersion <- 2

Mailbox == INSTANCE MailboxSync WITH
  Replicas <- {p1}, Lease <- 1, PageSize <- 1, Kinds <- {"report"},
  Identified <- {FALSE}, Skew <- 0, MaxMessages <- 2, MaxRebuilds <- 1, MaxClock <- 2

pingVars == <<archived, context, schedule, preview, attempt, results, evidence,
              flight, world>>
mailboxVars == <<mailbox, row, refresh, inbox, inbound, events, history>>
allVars == <<focus, clock, pingVars, mailboxVars>>

-----------------------------------------------------------------------------
AllInit ==
  /\ focus \in {"ping", "mailbox"}
  /\ Ping!Init
  /\ Mailbox!Init

InPing(A) == focus = "ping" /\ A /\ UNCHANGED <<focus, mailboxVars>>
InMailbox(A) == focus = "mailbox" /\ A /\ UNCHANGED <<focus, pingVars>>

AllNext == InPing(Ping!Next) \/ InMailbox(Mailbox!Next)

\* Time passes, and clients poll the state of a ping until it is resolved; a timer
\* claims the lease of the mailbox, and a refresh that lives goes on.
AllFairSpec ==
  /\ AllInit /\ [][AllNext]_allVars
  /\ WF_allVars(InPing(Ping!Tick))
  /\ WF_allVars(InPing(Ping!ReconcileExpired))
  /\ WF_allVars(InMailbox(Mailbox!Tick))
  /\ WF_allVars(InMailbox(Mailbox!Claim(p1)))
  /\ \A from \in 1..3 : SF_allVars(InMailbox(Mailbox!ReadPage(p1, from)))
  /\ WF_allVars(InMailbox(Mailbox!Succeed(p1)))
  /\ SF_allVars(InMailbox(Mailbox!CursorIsInvalid(p1)))
  /\ WF_allVars(InMailbox(Mailbox!Complete(p1) \/ Mailbox!Fenced(p1)))

-----------------------------------------------------------------------------
\* FollowUpPing: a ping that is being sent does not stay so.
EveryPingIsResolved == Ping!EveryPingIsResolved

\* MailboxSync: the mail that arrives after the first baseline is retained.
MailIsEventuallyRetained == Mailbox!MailIsEventuallyRetained
=============================================================================
