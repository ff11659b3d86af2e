-------------------------- MODULE ApprovalWorkflow --------------------------
(***************************************************************************)
(* The approval workflow of one permit: submission, staged decisions,       *)
(* parallel stages with a quorum, rejection, deferral and the Safety        *)
(* Officer's veto, with every HTTP request split where the code splits it.  *)
(*                                                                          *)
(* A request first READS: findOne (possibly a stale Redis entry), then the  *)
(* assignments, outside any transaction.  It then runs one READ COMMITTED   *)
(* transaction whose updates do not look at the status again.  Anything may *)
(* happen between the two, and an approval's check of its parallel siblings *)
(* is a further statement inside its transaction, before it commits.        *)
(***************************************************************************)
EXTENDS PermitRow, Integers

CONSTANTS
  NumSteps,        \* workflow steps, ranked 1..NumSteps by step_sequence
  Assignments,     \* the workflow_assignments rows a submission creates
  StepOf,          \* StepOf[a]: the step of row a
  RoleOf,          \* RoleOf[a]: the role it asks for (slot or approver role)
  Quorum,          \* Quorum[n]: "all" or "first" (a sequential step is one row)
  Users,           \* approvers
  MayAct,          \* MayAct[u]: roles u holds, or acts for as a delegate
  Requests,        \* requests in flight at once
  NoRow,           \* "no assignment"
  MaxSubmissions   \* bound: submissions of the permit

Steps == 1..NumSteps

ASSUME WorkflowAssumption ==
  /\ NumSteps \in Nat \ {0}
  /\ StepOf \in [Assignments -> Steps]
  /\ \A n \in Steps : \E a \in Assignments : StepOf[a] = n
  /\ Quorum \in [Steps -> {"all", "first"}]
  /\ NoRow \notin Assignments
  /\ MaxSubmissions \in Nat

VARIABLES
  round,      \* how many submissions created the current assignment rows
  asg,        \* workflow_assignments.status, row by row
  decision,   \* permit_approvals.decision for each row, "none" if there is none
  history,    \* approval_history actions recorded since the last submission
  linked,     \* some history row references a permit_approvals row
  req         \* the requests in flight

vars == <<status, cache, loading, round, asg, decision, history, linked, req>>

AssignmentStatus == {"none", "pending", "active", "completed", "skipped"}
Decision == {"approve", "reject", "defer"}
HistoryAction == {"approved", "rejected", "deferred", "stage_advanced", "safety_veto"}

(* pc: "submit", "decide" and "veto" have read and not yet written; "reset" and
   "approving" are inside their transaction, holding locks, not yet committed. *)
Request ==
  [ pc   : {"idle", "submit", "reset", "decide", "approving", "veto"},
    kind : Decision \cup {"none"},
    on   : Assignments \cup {NoRow},    \* the assignment the user decides
    born : 0..MaxSubmissions,           \* the round that assignment belongs to
    done : BOOLEAN ]                    \* its stage was seen complete

(* A request that carries no assignment. *)
At(pc) == [pc |-> pc, kind |-> "none", on |-> NoRow, born |-> 0, done |-> FALSE]
Idle   == At("idle")

TypeOK ==
  /\ RowTypeOK
  /\ round \in 0..MaxSubmissions
  /\ asg \in [Assignments -> AssignmentStatus]
  /\ decision \in [Assignments -> Decision \cup {"none"}]
  /\ history \in SUBSET HistoryAction
  /\ linked \in BOOLEAN
  /\ req \in [Requests -> Request]

Init ==
  /\ RowInit
  /\ round = 0
  /\ asg = [a \in Assignments |-> "none"]
  /\ decision = [a \in Assignments |-> "none"]
  /\ history = {}
  /\ linked = FALSE
  /\ req = [r \in Requests |-> Idle]

-----------------------------------------------------------------------------
(* Helpers: the workflow engine, and the row locks PostgreSQL takes. *)

Submittable  == {"draft", "deferred", "rejected"}
VetoEligible == {"pending_approval", "approved", "active", "suspended",
                 "deferred", "pending_closure"}

RowsOf(n) == {a \in Assignments : StepOf[a] = n}

(* The rows a user can decide: active, asking for a role of the user, and
   first in step order (the loop over the ordered list stops at the first). *)
Matches(u) ==
  LET mine == {a \in Assignments : asg[a] = "active" /\ RoleOf[a] \in MayAct[u]}
  IN  {a \in mine : \A b \in mine : StepOf[a] <= StepOf[b]}

(* Mutant: some row of the stage instead of every row. *)
MutStageComplete(a) ==
  \E b \in RowsOf(StepOf[a]) : b = a \/ asg[b] \in {"completed", "skipped"}

(* isParallelStageComplete, read inside the transaction of the approval of a:
   it sees its own update and only committed updates of the siblings. *)
StageComplete(a) ==
  \A b \in RowsOf(StepOf[a]) \ {a} : asg[b] \in {"completed", "skipped"}

(* completeAssignment, and under quorum "first" completeParallelStage. *)
Completed(a) ==
  [b \in Assignments |->
     IF b = a THEN "completed"
     ELSE IF /\ Quorum[StepOf[a]] = "first"
             /\ StepOf[b] = StepOf[a]
             /\ asg[b] = "active"
          THEN "skipped"
          ELSE asg[b]]

(* Mutants: only active rows count as a next step; the current step counts. *)
MutHasActiveNext(n)  == \E b \in Assignments : StepOf[b] > n /\ asg[b] = "active"
MutHasNextOrSame(n) == \E b \in Assignments : StepOf[b] >= n

HasNextStep(n) == \E b \in Assignments : StepOf[b] > n

(* activateNextStep: all pending rows of the first later step that has one. *)
NextStepActivated(f, n) ==
  [b \in Assignments |->
     IF /\ f[b] = "pending"
        /\ StepOf[b] > n
        /\ \A c \in Assignments : f[c] = "pending" /\ StepOf[c] > n
                                    => StepOf[b] <= StepOf[c]
     THEN "active"
     ELSE f[b]]

(* initializeAtSubmit: the rows of the first step active, the others pending. *)
FreshAssignments ==
  [a \in Assignments |-> IF StepOf[a] = 1 THEN "active" ELSE "pending"]

InTransaction(r) == req[r].pc = "approving"
PermitUnlocked   == \A r \in Requests : req[r].pc # "reset"

(* No other open approval holds row a: it has decided a, or under quorum
   "first" it is skipping every active row of the step. *)
RowUnlocked(a) ==
  \A r \in Requests :
    InTransaction(r) =>
      /\ req[r].on # a
      /\ Quorum[StepOf[a]] = "first" => StepOf[req[r].on] # StepOf[a]

Become(r, new) == req' = [req EXCEPT ![r] = new]

-----------------------------------------------------------------------------
(* PermitService.submit *)

(* Read the row itself, not Redis; the status is checked here only. *)
SubmitRead(r) ==
  /\ req[r].pc = "idle"
  /\ status \in Submittable
  /\ Become(r, At("submit"))
  /\ UNCHANGED <<rowVars, round, asg, decision, history, linked>>

(* Mutant: approval_history without its trigger, so the reset always succeeds. *)
MutSubmitReset(r) ==
  /\ req[r].pc = "submit"
  /\ PermitUnlocked
  /\ Become(r, At("reset"))
  /\ UNCHANGED <<rowVars, round, asg, decision, history, linked>>

(* The transaction opens: the permit row is updated and so locked, and
   resetWorkflow deletes the decisions.  A decision that a history row
   references cannot go: ON DELETE SET NULL would update that row, and its
   trigger refuses every update, so the request fails instead (Fail). *)
SubmitReset(r) ==
  /\ req[r].pc = "submit"
  /\ PermitUnlocked
  /\ ~linked
  /\ Become(r, At("reset"))
  /\ UNCHANGED <<rowVars, round, asg, decision, history, linked>>

(* Deleting the assignments waits for every approval that locks one of them;
   what such an approval linked meanwhile stays linked. *)
SubmitCommit(r) ==
  /\ req[r].pc = "reset"
  /\ \A q \in Requests : ~InTransaction(q)
  /\ round < MaxSubmissions
  /\ status' = "pending_approval"
  /\ round' = round + 1
  /\ asg' = FreshAssignments
  /\ decision' = [a \in Assignments |-> "none"]
  /\ history' = {}
  /\ Invalidate
  /\ Become(r, Idle)
  /\ UNCHANGED <<loading, linked>>

-----------------------------------------------------------------------------
(* ApprovalService.approve, reject and defer *)

(* prepareDecision: findOne, the active assignments, the permission of the
   user, and that the row has no decision yet: all of it outside a transaction. *)
PrepareDecision(r, u, kind) ==
  /\ req[r].pc = "idle"
  /\ FindOne("pending_approval")
  /\ \E a \in Matches(u) :
       /\ decision[a] = "none"
       /\ Become(r, [pc |-> "decide", kind |-> kind, on |-> a,
                     born |-> round, done |-> FALSE])
  /\ UNCHANGED <<status, loading, round, asg, decision, history, linked>>

(* Mutant: permit_approvals without its unique index. *)
MutMayDecide(r) ==
  /\ req[r].pc = "decide"
  /\ req[r].born = round
  /\ RowUnlocked(req[r].on)

(* The row a request decides still exists, is not decided (the unique index on
   permit_approvals) and no open transaction holds it. *)
MayDecide(r) ==
  /\ req[r].pc = "decide"
  /\ req[r].born = round
  /\ decision[req[r].on] = "none"
  /\ RowUnlocked(req[r].on)

(* approve, inside its transaction: the decision is inserted, the assignment
   completed, and a parallel stage with quorum "all" looks at its siblings. *)
ApproveInsert(r) ==
  /\ MayDecide(r)
  /\ req[r].kind = "approve"
  /\ LET a == req[r].on
     IN  Become(r, [pc |-> "approving", kind |-> "approve", on |-> a, born |-> round,
                    done |-> Quorum[StepOf[a]] = "first" \/ StageComplete(a)])
  /\ UNCHANGED <<rowVars, round, asg, decision, history, linked>>

(* The rest of the transaction when the stage was seen incomplete. *)
CommitPartialStage(r) ==
  /\ InTransaction(r)
  /\ ~req[r].done
  /\ asg' = Completed(req[r].on)
  /\ decision' = [decision EXCEPT ![req[r].on] = "approve"]
  /\ Invalidate
  /\ Become(r, Idle)
  /\ UNCHANGED <<status, loading, round, history, linked>>

(* The stage is complete and there are later ones. *)
CommitStageAdvance(r) ==
  /\ InTransaction(r)
  /\ req[r].done
  /\ LET a == req[r].on
     IN  /\ HasNextStep(StepOf[a])
         /\ asg' = NextStepActivated(Completed(a), StepOf[a])
         /\ decision' = [decision EXCEPT ![a] = "approve"]
  /\ history' = history \cup {"stage_advanced"}
  /\ linked' = TRUE
  /\ Invalidate
  /\ Become(r, Idle)
  /\ UNCHANGED <<status, loading, round>>

(* The last stage is complete: the permit becomes approved, whatever its
   status is by now. *)
CommitFinalApproval(r) ==
  /\ InTransaction(r)
  /\ req[r].done
  /\ PermitUnlocked
  /\ LET a == req[r].on
     IN  /\ ~HasNextStep(StepOf[a])
         /\ asg' = Completed(a)
         /\ decision' = [decision EXCEPT ![a] = "approve"]
  /\ status' = "approved"
  /\ history' = history \cup {"approved"}
  /\ linked' = TRUE
  /\ Invalidate
  /\ Become(r, Idle)
  /\ UNCHANGED <<loading, round>>

ApproveCommit(r) ==
  CommitPartialStage(r) \/ CommitStageAdvance(r) \/ CommitFinalApproval(r)

Outcome(kind) == IF kind = "reject" THEN "rejected" ELSE "deferred"

(* recordTerminalDecision: one transaction, no look at the siblings. *)
TerminalDecision(r) ==
  /\ MayDecide(r)
  /\ req[r].kind \in {"reject", "defer"}
  /\ PermitUnlocked
  /\ asg' = [asg EXCEPT ![req[r].on] = "completed"]
  /\ decision' = [decision EXCEPT ![req[r].on] = req[r].kind]
  /\ status' = Outcome(req[r].kind)
  /\ history' = history \cup {Outcome(req[r].kind)}
  /\ linked' = TRUE
  /\ Invalidate
  /\ Become(r, Idle)
  /\ UNCHANGED <<loading, round>>

-----------------------------------------------------------------------------
(* ApprovalService.safetyVeto *)

VetoRead(r) ==
  /\ req[r].pc = "idle"
  /\ \E s \in VetoEligible : FindOne(s)
  /\ Become(r, At("veto"))
  /\ UNCHANGED <<status, loading, round, asg, decision, history, linked>>

VetoCommit(r) ==
  /\ req[r].pc = "veto"
  /\ PermitUnlocked
  /\ status' = "rejected"
  /\ history' = history \cup {"safety_veto"}
  /\ Invalidate
  /\ Become(r, Idle)
  /\ UNCHANGED <<loading, round, asg, decision, linked>>

-----------------------------------------------------------------------------

(* A request ends without effect: a constraint or a trigger refuses one of its
   statements, PostgreSQL picks it as a deadlock victim, or the process dies;
   its transaction is rolled back. *)
Fail(r) ==
  /\ req[r].pc # "idle"
  /\ Become(r, Idle)
  /\ UNCHANGED <<rowVars, round, asg, decision, history, linked>>

Finish(r) ==
  \/ SubmitReset(r) \/ SubmitCommit(r)
  \/ ApproveInsert(r) \/ ApproveCommit(r) \/ TerminalDecision(r)
  \/ VetoCommit(r)
  \/ Fail(r)

Start(r) ==
  \/ SubmitRead(r)
  \/ \E u \in Users, kind \in Decision : PrepareDecision(r, u, kind)
  \/ VetoRead(r)

Environment ==
  RowEnvironment /\ UNCHANGED <<round, asg, decision, history, linked, req>>

Next == (\E r \in Requests : Start(r) \/ Finish(r)) \/ Environment

Spec == Init /\ [][Next]_vars

-----------------------------------------------------------------------------
(* Fairness.  A request in flight ends (the server answers or times out); a
   Redis entry expires (it has a time to live); the approvers of the permit do
   decide: whoever is entitled to decide the row that is due asks again until
   one attempt commits.  Submitting and vetoing are nobody's duty. *)
Fairness ==
  /\ \A r \in Requests : WF_vars(Finish(r))
  /\ WF_vars(EntryExpires /\ Environment)
  /\ \A r \in Requests, u \in Users : SF_vars(PrepareDecision(r, u, "approve"))
  /\ \A r \in Requests : SF_vars(ApproveInsert(r)) /\ SF_vars(ApproveCommit(r))

FairSpec == Spec /\ Fairness

-----------------------------------------------------------------------------
(* Properties *)

(* No stage of quorum "first" has a second row, and so no row is ever skipped: a
   workflow of sequential steps, or one whose parallel stages need everybody. *)
FirstIsAlone ==
  \A n \in Steps : Quorum[n] = "first" => \A a, b \in RowsOf(n) : a = b

(* No parallel stages: one approver after the other. *)
Sequential == \A a, b \in Assignments : StepOf[a] = StepOf[b] => a = b

(* What the quorum of step n asks for: one decision under "first", a decision
   on every row otherwise. *)
StepDecided(n) ==
  IF Quorum[n] = "first" THEN \E a \in RowsOf(n) : decision[a] # "none"
                         ELSE \A a \in RowsOf(n) : decision[a] # "none"

(* permit_approvals and workflow_assignments tell the same story: a row of the
   workflow is completed exactly when a decision is recorded for it, whatever
   decisions, resubmissions and rollbacks interleave (the insert and the update
   are two statements, guarded by a unique index only). *)
DecisionIffCompleted ==
  \A a \in Assignments : decision[a] # "none" <=> asg[a] = "completed"

(* Stages are decided in sequence: nobody can act on a step, and no step is
   decided, while an earlier step still waits for somebody (activateNextStep
   looks for any later pending step, not for the next one). *)
StageOrder ==
  \A a, b \in Assignments :
    StepOf[b] < StepOf[a] /\ asg[a] \in {"active", "completed"}
      => asg[b] \in {"completed", "skipped"}

(* The permit is approved only when every step has the decisions its quorum
   asks for, although the update that approves it looks at no status. *)
ApprovedAllDecided ==
  status = "approved" => \A n \in Steps : StepDecided(n)

(* A rejection or a deferral is final until the permit is resubmitted: no
   approval that was on its way, or comes later, turns it into an approval. *)
TerminalFinal ==
  history \cap {"rejected", "deferred"} # {} => status # "approved"

(* The Safety Officer's veto is final until the permit is resubmitted. *)
VetoFinal == "safety_veto" \in history => status # "approved"

(* Every submitted permit is eventually decided, if its approvers keep trying. *)
PendingIsDecided == status = "pending_approval" ~> status # "pending_approval"

-----------------------------------------------------------------------------
(* The abstract gate this workflow implements when no row is ever skipped. *)

PhaseOf ==
  IF status = "draft" THEN "drafting"
  ELSE IF status = "pending_approval" THEN "review"
  ELSE IF status = "approved" THEN "granted"
  ELSE "returned"

ClearedSteps == {n \in Steps : \A a \in RowsOf(n) : decision[a] # "none"}

Gate == INSTANCE ApprovalGate WITH phase <- PhaseOf, cleared <- ClearedSteps

(* Whatever requests overlap, the permit moves as the gate allows: its steps are
   cleared one by one from the first, it is granted by the clearing of the last
   one and never otherwise, and once granted it is never submitted again. *)
ImplementsGate == Gate!Spec

-----------------------------------------------------------------------------
(* The inductive strengthening of the safety properties, for workflows where no
   stage of quorum "first" has a second row. *)

(* Rows exist from the first submission on, and none is ever skipped. *)
RowsPerRound ==
  /\ round = 0 => \A a \in Assignments : asg[a] = "none"
  /\ round > 0 => \A a \in Assignments : asg[a] \in {"pending", "active", "completed"}

(* Before the first submission nobody has seen the permit in another status. *)
DraftUntilSubmitted ==
  /\ status = "draft" <=> round = 0
  /\ round = 0 => /\ {cache, loading} \subseteq {"draft", NoEntry}
                  /\ \A r \in Requests : req[r].pc \in {"idle", "submit", "reset"}

(* A request decides a row that was due when it looked: while the submission is
   the same, the row is still due or somebody has decided it. *)
RequestsOnDueRows ==
  \A r \in Requests : req[r].pc \in {"decide", "approving"} =>
    /\ req[r].on \in Assignments
    /\ req[r].born <= round
    /\ req[r].born = round => asg[req[r].on] \in {"active", "completed"}

(* An open approval transaction holds an undecided row of the current
   submission, alone, and a stage it saw complete stays complete. *)
OpenApprovals ==
  \A r \in Requests : InTransaction(r) =>
    /\ req[r].born = round
    /\ decision[req[r].on] = "none"
    /\ req[r].done => \A b \in RowsOf(StepOf[req[r].on]) \ {req[r].on} :
                        asg[b] = "completed"
    /\ \A q \in Requests \ {r} : InTransaction(q) => req[q].on # req[r].on

(* The approval leaves a history row on a decision, so a permit that is
   approved, or whose reset has begun, is not the other of the two. *)
ApprovedNotReset ==
  /\ status = "approved" => linked
  /\ status = "approved" => PermitUnlocked

Inductive ==
  /\ TypeOK
  /\ DecisionIffCompleted
  /\ StageOrder
  /\ ApprovedAllDecided
  /\ RowsPerRound
  /\ DraftUntilSubmitted
  /\ RequestsOnDueRows
  /\ OpenApprovals
  /\ ApprovedNotReset

-----------------------------------------------------------------------------
(* The inductive strengthening of what holds for every workflow, stages of quorum
   "first" with several rows included, where an approver who comes late decides a
   row that was skipped. *)

(* Rows exist exactly from the first submission on. *)
RowsExist == \A a \in Assignments : asg[a] = "none" <=> round = 0

(* A request decides a row of a submission there was. *)
RequestsOnRows ==
  \A r \in Requests : req[r].pc \in {"decide", "approving"} =>
    /\ req[r].on \in Assignments
    /\ req[r].born <= round

(* An open approval holds an undecided row of the current submission, alone. *)
ApprovalsApart ==
  \A r \in Requests : InTransaction(r) =>
    /\ req[r].born = round
    /\ decision[req[r].on] = "none"
    /\ \A q \in Requests \ {r} : InTransaction(q) => req[q].on # req[r].on

Records ==
  /\ TypeOK
  /\ DecisionIffCompleted
  /\ RowsExist
  /\ DraftUntilSubmitted
  /\ RequestsOnRows
  /\ ApprovalsApart
  /\ ApprovedNotReset

(* The inductive strengthening of TerminalFinal, where stages are sequential:
   after a rejection or a deferral nobody is due until the resubmission. *)
NobodyDueAfterTerminal ==
  history \cap {"rejected", "deferred"} # {} =>
    /\ status # "approved"
    /\ \A a \in Assignments : asg[a] # "active"
=============================================================================
