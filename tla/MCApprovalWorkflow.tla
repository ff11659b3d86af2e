------------------------- MODULE MCApprovalWorkflow -------------------------
(***************************************************************************)
(* Small workflows for TLC: one row per role, one approver per role.        *)
(***************************************************************************)
EXTENDS ApprovalWorkflow

(* Two approvers in parallel who must both approve, then a third. *)
ParallelRows   == {"hod", "safety", "plant"}
ParallelStepOf == [hod |-> 1, safety |-> 1, plant |-> 2]
ParallelQuorum == <<"all", "all">>

(* One approver after the other, the first in a stage of quorum "first". *)
SequentialRows   == {"hod", "safety"}
SequentialStepOf == [hod |-> 1, safety |-> 2]
SequentialQuorum == <<"first", "all">>

OwnRole == [a \in Assignments |-> a]
Approvers == Assignments
OneRoleEach == [u \in Approvers |-> {u}]

(* The safety officer also acts for the head of department, by delegation. *)
WithDelegate == [u \in Approvers |-> IF u = "safety" THEN {"hod", "safety"} ELSE {u}]
=============================================================================
