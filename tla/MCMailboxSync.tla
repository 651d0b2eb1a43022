--------------------------- MODULE MCMailboxSync ---------------------------
(***************************************************************************)
(* Model checking of MailboxSync: two replicas, and a clock long enough    *)
(* for a lease to end and the mailbox to be claimed again.                 *)
(*                                                                         *)
(* A behaviour is about the mail server, whose clock may be off, or about  *)
(* what it delivers, mail of two kinds, or about pages, with a third       *)
(* message that arrives while the first two are read one by one.  The      *)
(* constants of the configuration bound all of them, and the properties    *)
(* are about these.                                                        *)
(***************************************************************************)
EXTENDS MailboxSync, TLC

CONSTANTS p1, p2

Server == INSTANCE MailboxSync WITH MaxMessages <- 2, Kinds <- {"reply"}
Reports == INSTANCE MailboxSync WITH MaxMessages <- 2, Skew <- 0
Pages == INSTANCE MailboxSync WITH Kinds <- {"reply"}, Skew <- 0

VARIABLE focus

EitherInit == focus \in {"server", "reports", "pages"} /\ Init

EitherNext ==
  /\ UNCHANGED focus
  /\ \/ focus = "server" /\ Server!Next
     \/ focus = "reports" /\ Reports!Next
     \/ focus = "pages" /\ Pages!Next

EitherSpec == EitherInit /\ [][EitherNext]_<<focus, vars>>

Symmetric == Permutations({p1, p2})
=============================================================================
