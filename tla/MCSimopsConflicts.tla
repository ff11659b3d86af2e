-------------------------- MODULE MCSimopsConflicts --------------------------
(***************************************************************************)
(* An instance of the conflicts: three permits in a row, where the middle   *)
(* one overlaps its neighbours, on a machine and at a location; and the     *)
(* same permits where the last has no planned end yet.                      *)
(***************************************************************************)
EXTENDS SimopsConflicts, TLC

CONSTANTS p1, p2, p3, w1, l1, m1

Plan(start, end, workstation, location, machine) ==
  [start |-> start, end |-> end, workstation |-> workstation, location |-> location,
   machine |-> machine]

ThreeInARow ==
  p1 :> Plan(1, 2, w1, Nowhere, m1) @@ p2 :> Plan(1, 3, w1, l1, m1)
    @@ p3 :> Plan(2, 3, Nowhere, l1, NoMachine)

OneUndated == [ThreeInARow EXCEPT ![p3].end = NoDate]

BothPlans == {ThreeInARow, OneUndated}

OnTheMachine == {<<{p1, p2}, "equipment">>}
=============================================================================
