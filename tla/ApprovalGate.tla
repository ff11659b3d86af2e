---------------------------- MODULE ApprovalGate ----------------------------
(***************************************************************************)
(* What the approval of a permit promises, with no requests, rows, caches   *)
(* or transactions: an ordered list of steps that are cleared one by one,   *)
(* and a permit that is granted by the clearing of the last of them.        *)
(***************************************************************************)
EXTENDS Integers

CONSTANT NumSteps           \* number of steps of the workflow

VARIABLES
  phase,                    \* where the permit stands
  cleared                   \* the steps on which everybody has decided

Phase == {"drafting", "review", "granted", "returned"}

Init ==
  /\ phase = "drafting"
  /\ cleared = {}

(* A submission starts over; a granted permit is never submitted again. *)
Submit ==
  /\ phase # "granted"
  /\ phase' = "review"
  /\ cleared' = {}

(* The next step in order is cleared, by the last decision on it. *)
ClearNext ==
  \E n \in 1..NumSteps :
    /\ cleared  = 1..(n - 1)
    /\ cleared' = 1..n

(* A clearing that leaves the permit where it is. *)
Clear == ClearNext /\ UNCHANGED phase

(* The clearing of the last step grants the permit. *)
Grant ==
  /\ phase \in {"review", "returned"}
  /\ phase' = "granted"
  /\ cleared # 1..NumSteps
  /\ cleared' = 1..NumSteps
  /\ ClearNext

(* A rejection or a deferral may decide the last row of a step; a veto, which a
   granted permit can meet too, decides none. *)
Return ==
  /\ phase # "drafting"
  /\ phase' = "returned"
  /\ ClearNext \/ UNCHANGED cleared

Next == Submit \/ Clear \/ Grant \/ Return

Spec == Init /\ [][Next]_<<phase, cleared>>
=============================================================================
