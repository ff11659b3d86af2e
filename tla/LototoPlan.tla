----------------------------- MODULE LototoPlan -----------------------------
(***************************************************************************)
(* Planning of a lock-out tag-out try-out procedure for one permit: the     *)
(* isolation points of the plan and the sequence in which they are locked.  *)
(* A request first reads the plan, then the rows it checks, then writes;    *)
(* other requests run in between.  Later modules add their own operations.  *)
(***************************************************************************)
EXTENDS Naturals, Sequences, FiniteSets, Functions

CONSTANTS
  Requests,          \* HTTP requests in flight at once
  Operations,        \* the operations this instance lets requests run
  Points,            \* isolation points the plan may get
  MaxConfigurations, \* bound: sequences configured for the plan
  NoArg              \* the argument of a request that has none, or no request

ASSUME PlanAssumption == IsFiniteSet(Points) /\ MaxConfigurations \in Nat

VARIABLES
  plan,             \* lototo_plans.status
  points,           \* isolation_points of the plan
  sequence,         \* isolation_sequences of the plan: sequence_order to point
  configurations,   \* how often a sequence was configured
  deleted,          \* the rows an open transaction of configureSequence deletes
  req               \* the requests in flight

planVars == <<plan, points, sequence, configurations, deleted>>

(* sequence_order: a positive number of the user's choice. *)
Numbers == 1..Cardinality(Points)

Steps(S) == UNION { [D -> S] : D \in SUBSET Numbers }

(* assertSequenceStepsValid: no number and no point twice. *)
Orders(S) == {s \in Steps(S) : s # <<>> /\ IsInjective(s)}

Args == Points \cup Orders(Points) \cup {NoArg}

PlanTypeOK ==
  /\ plan \in {"draft", "ready", "in_execution"}
  /\ points \subseteq Points
  /\ sequence \in Steps(Points)
  /\ configurations \in 0..MaxConfigurations
  /\ deleted \in [Requests -> SUBSET Numbers]

Idle == [op |-> "none", pc |-> "idle", arg |-> NoArg]

PlanInit ==
  /\ plan = "draft"
  /\ points = {}
  /\ sequence = <<>>
  /\ configurations = 0
  /\ deleted = [r \in Requests |-> {}]
  /\ req = [r \in Requests |-> Idle]

-----------------------------------------------------------------------------

At(r, op, pc) == req[r].op = op /\ req[r].pc = pc

(* The request asks for an operation, whose first read answered ok. *)
Begin(r, op, arg) ==
  /\ req[r] = Idle
  /\ op \in Operations
  /\ req' = [req EXCEPT ![r] = [op |-> op, pc |-> "begun", arg |-> arg]]

(* A later check of the same request passed. *)
Pass(r, op, from, to) ==
  /\ At(r, op, from)
  /\ req' = [req EXCEPT ![r].pc = to]

Finish(r, op, from) ==
  /\ At(r, op, from)
  /\ req' = [req EXCEPT ![r] = Idle]

(* LototoValidationService.getEditablePlan *)
Editable == plan \in {"draft", "ready"}

(* The trigger on points, sequences and assignments, looking at the plan as
   committed by then. *)
Unlocked == plan # "in_execution"

-----------------------------------------------------------------------------

AddPointRead(r) ==
  \E p \in Points \ points : Editable /\ Begin(r, "addPoint", p)

AddPointInsert(r) ==
  /\ Unlocked
  /\ req[r].arg \notin points
  /\ Finish(r, "addPoint", "begun")
  /\ points' = points \cup {req[r].arg}

ConfigureRead(r) ==
  /\ Editable
  /\ configurations < MaxConfigurations
  /\ \E steps \in Orders(points) : Begin(r, "configure", steps)

Configuring == {r \in Requests : At(r, "configure", "rows")}

(* The two unique indexes: a number, or a point, in both. *)
Collide(s, t) == DOMAIN s \cap DOMAIN t # {} \/ Range(s) \cap Range(t) # {}

(* The rows there are get deleted and the new ones inserted, the trigger looking
   at the plan.  What an open transaction has inserted cannot be deleted, and is
   in the way of an insert that collides with it. *)
ConfigureRows(r) ==
  /\ Unlocked
  /\ Pass(r, "configure", "begun", "rows")
  /\ \A q \in Configuring : ~Collide(req[q].arg, req[r].arg)
  /\ deleted' = [deleted EXCEPT ![r] = DOMAIN sequence]

(* Mutant: the steps of an earlier sequence are not deleted. *)
MutKept(r) == sequence

(* Rows committed by another transaction since the deletion. *)
Kept(r) == Restrict(sequence, DOMAIN sequence \ deleted[r])

(* Mutant: a plan in execution keeps its status. *)
MutPlanReady == plan' = IF plan = "draft" THEN "ready" ELSE plan

(* The update of the plan asks for no status of before. *)
PlanReady == plan' = "ready"

(* The new rows join those of others; no deletion of the others has seen them. *)
ConfigureCommit(r) ==
  /\ configurations < MaxConfigurations
  /\ Finish(r, "configure", "rows")
  /\ sequence' = [n \in DOMAIN req[r].arg \cup DOMAIN Kept(r) |->
                    IF n \in DOMAIN req[r].arg THEN req[r].arg[n] ELSE Kept(r)[n]]
  /\ PlanReady
  /\ configurations' = configurations + 1
  /\ deleted' = [q \in Requests |->
                   IF q = r THEN {} ELSE deleted[q] \ DOMAIN req[r].arg]

(* A check refuses the request, a transaction rolls back, or the server stops. *)
Fail(r) ==
  /\ req[r] # Idle
  /\ req' = [req EXCEPT ![r] = Idle]
  /\ deleted' = [deleted EXCEPT ![r] = {}]

PlanStep(r) ==
  \/ AddPointInsert(r)  /\ UNCHANGED <<plan, sequence, configurations, deleted>>
  \/ ConfigureRows(r)   /\ UNCHANGED <<plan, points, sequence, configurations>>
  \/ ConfigureCommit(r) /\ UNCHANGED points
  \/ Fail(r)            /\ UNCHANGED <<plan, points, sequence, configurations>>
  \/ (AddPointRead(r) \/ ConfigureRead(r)) /\ UNCHANGED planVars
=============================================================================
