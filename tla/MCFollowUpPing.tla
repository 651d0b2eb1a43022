-------------------------- MODULE MCFollowUpPing --------------------------
(***************************************************************************)
(* Model checking of FollowUpPing: two attempts, and a clock long enough   *)
(* for a lease to end, a retry to be claimed, and its lease to end again.  *)
(*                                                                         *)
(* A behaviour is about delivery, two deliverers whose claims overtake     *)
(* each other, or about the schedule, one deliverer that claims each       *)
(* attempt once, while recipient and reference change and the reference    *)
(* closes (contexts), or while expiry dates are set and the draft is       *)
(* edited twice (drafts).  Their deliverers and contexts are different     *)
(* model values, so that those of one focus are interchangeable.  The      *)
(* constants of the configuration bound all of them, and the properties    *)
(* are about these.                                                        *)
(***************************************************************************)
EXTENDS FollowUpPing, TLC

CONSTANTS d0, d1, d2, c0, c1, c2

Overlap == INSTANCE FollowUpPing WITH
  Deliverers <- {d1, d2}, Contexts <- {c0}, Expiries <- {}, MaxDraftVersion <- 2
Changes == INSTANCE FollowUpPing WITH
  Deliverers <- {d0}, Contexts <- {c1, c2}, Expiries <- {}, MaxClaims <- 1,
  MaxDraftVersion <- 2
Drafts == INSTANCE FollowUpPing WITH
  Deliverers <- {d0}, Contexts <- {c0}, MaxClaims <- 1

VARIABLE focus

EitherInit ==
  /\ Init
  /\ \/ focus = "delivery" /\ context = c0
     \/ focus = "contexts" /\ context \in {c1, c2}
     \/ focus = "drafts" /\ context = c0

EitherNext ==
  /\ UNCHANGED focus
  /\ \/ focus = "delivery" /\ Overlap!Next /\ UNCHANGED context
     \/ focus = "contexts" /\ Changes!Next
     \/ focus = "drafts" /\ Drafts!Next /\ UNCHANGED context

EitherSpec == EitherInit /\ [][EitherNext]_<<focus, vars>>

Symmetric == Permutations({d1, d2}) \cup Permutations({c1, c2})
============================================================================
