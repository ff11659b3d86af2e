----------------------------- MODULE Milestones -----------------------------
(***************************************************************************)
(* What a procedure with records promises: a milestone is reached only when *)
(* those it needs are, and none is ever taken back.                         *)
(***************************************************************************)
CONSTANT Needs      \* for each milestone, the set of those it needs

VARIABLE reached    \* the milestones on record

Init == reached = {}

Reach(m) ==
  /\ Needs[m] \subseteq reached
  /\ reached' = reached \cup {m}

Next == \E m \in DOMAIN Needs : Reach(m)

Spec == Init /\ [][Next]_reached
=============================================================================
