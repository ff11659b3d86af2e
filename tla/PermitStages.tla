---------------------------- MODULE PermitStages ----------------------------
(***************************************************************************)
(* What the life of a permit promises the people on the site: work begins   *)
(* by an activation, may pause and go on, is verified once, by somebody who *)
(* found it under way, and ends for good with the closure of a verified     *)
(* permit.  Work may pause while the verification is being recorded.        *)
(***************************************************************************)
VARIABLES
  stage,      \* how far the permit got, as its records say
  working,    \* work is allowed right now
  inspecting  \* somebody found the work under way, and records a verification

Init ==
  /\ stage = "unstarted"
  /\ working = FALSE
  /\ inspecting = FALSE

Start ==
  /\ stage = "unstarted"
  /\ stage' = "started"
  /\ working' = TRUE
  /\ UNCHANGED inspecting

(* Suspensions, resumptions, cancellations, expiry. *)
PauseOrGoOn ==
  /\ stage \in {"started", "verified"}
  /\ working' = ~working
  /\ UNCHANGED <<stage, inspecting>>

Inspect ==
  /\ stage = "started"
  /\ working
  /\ ~inspecting
  /\ inspecting' = TRUE
  /\ UNCHANGED <<stage, working>>

(* The verification is on record, or was given up. *)
Verify ==
  /\ inspecting
  /\ inspecting' = FALSE
  /\ stage' = "verified"
  /\ UNCHANGED working

GiveUp ==
  /\ inspecting
  /\ inspecting' = FALSE
  /\ UNCHANGED <<stage, working>>

Close ==
  /\ stage = "verified"
  /\ stage' = "closed"
  /\ working' = FALSE
  /\ UNCHANGED inspecting

Next == Start \/ PauseOrGoOn \/ Inspect \/ Verify \/ GiveUp \/ Close

Spec == Init /\ [][Next]_<<stage, working, inspecting>>
=============================================================================
