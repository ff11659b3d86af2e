--------------------------- MODULE MCIncidentCase ---------------------------
(***************************************************************************)
(* Instances of one incident.                                               *)
(***************************************************************************)
EXTENDS IncidentCase, TLC

Symmetry == Permutations(Requests) \cup Permutations(Permits) \cup Permutations(Actions)
=============================================================================
