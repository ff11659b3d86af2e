--------------------------- MODULE MCRestoration ---------------------------
(***************************************************************************)
(* Instances of the LOTOTO procedure.                                       *)
(***************************************************************************)
EXTENDS Restoration, TLC

CONSTANTS p1, p2, l1, t1

Planning  == {"addPoint", "configure", "start"}
Isolating == {"hang", "takeDown", "verify", "isolate", "markVerified"}
Restoring == {"unlock", "restore", "complete", "recheck"}

Everything == Planning \cup Isolating \cup Restoring

(* Two points: a lock at the one, and a tag at the other. *)
TwoPoints    == {p1, p2}
OneLabelEach == l1 :> p1 @@ t1 :> p2

RequestSymmetry == Permutations(Requests)
=============================================================================
