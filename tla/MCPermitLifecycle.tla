------------------------- MODULE MCPermitLifecycle -------------------------
(***************************************************************************)
(* Instances of the permit's life: which operations meet each other.        *)
(***************************************************************************)
EXTENDS PermitLifecycle, TLC

(* What can change the stage of a permit, conflicts apart. *)
AllButSimops == AllOperations \ {"simops", "mdpSuspend", "extension", "expiry"}

(* Daily revalidation, a conflict and the end of the validity. *)
DailyLife ==
  { "approve", "activate", "revalidate", "mdpSuspend", "continue", "simops",
    "extension", "expiry" }

(* What makes a permit active, holds it, and lets it go on. *)
HoldingAndGoingOn ==
  {"approve", "activate", "revalidate", "mdpSuspend", "continue", "simops"}

RequestSymmetry == Permutations(Requests)
=============================================================================
