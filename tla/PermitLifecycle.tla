-------------------------- MODULE PermitLifecycle --------------------------
(***************************************************************************)
(* One permit after its submission: activation, suspension and resumption   *)
(* (execution module), verification and closure, daily revalidation with    *)
(* its own suspensions and continuation, the rejection of a SIMOPS          *)
(* conflict, the cancellation an incident causes, and the job that expires  *)
(* permits.  Six services write permits.status, each by its own rules.      *)
(*                                                                          *)
(* A request is split at each point where the code gives up control between *)
(* a read and a write, or between two writes that are not one transaction.  *)
(* Writes in one transaction are one step, but for a trigger that looked at *)
(* the permit before the last of them.                                      *)
(***************************************************************************)
EXTENDS PermitRow, Integers, Sequences

CONSTANTS
  Requests,     \* HTTP requests in flight at once
  Operations,   \* the operations this instance lets requests run
  MaxHolds,     \* bound: rows of permit_suspensions
  MaxDays       \* bound: operational days with a revalidation

AllOperations ==
  { "approve", "veto", "activate", "suspend", "resume", "verify", "close",
    "revalidate", "mdpSuspend", "continue", "extension", "simops", "incident",
    "expiry", "crash" }

ASSUME LifecycleAssumption ==
  /\ Operations \subseteq AllOperations
  /\ MaxHolds \in Nat
  /\ MaxDays \in Nat

VARIABLES
  awaiting,     \* the last approver of the permit has still to decide
  execution,    \* permit_execution: no row, running, or suspended_at is set
  verified,     \* permit_verifications has the permit's row
  closure,      \* permit_closures has the permit's row
  holds,        \* permit_suspensions, oldest first
  reval,        \* outcome of the latest daily revalidation
  days,         \* operational days with a revalidation
  conflict,     \* status of a SIMOPS conflict the permit takes part in
  extension,    \* status of the permit's extension request
  overdue,      \* planned_end_at has passed
  job,          \* the day-transition job: idle, or holding its candidates
  req           \* the requests in flight

records == <<awaiting, execution, verified, closure>>
mdp     == <<holds, reval, days>>
dates   == <<conflict, extension, overdue>>
vars    == <<rowVars, records, mdp, dates, job, req>>

Hold == [by : {"mdp", "simops"}, open : BOOLEAN]

(* Where a request stands: waiting to make the write it is named for.
   "activating", "verifying" and "closing" are inside their transaction. *)
Pc == { "idle", "approve", "veto", "activate", "activating", "suspend", "resume",
        "verify", "verifying", "close", "closing", "revalidate", "hold", "stop", "continue",
        "restart", "decide", "prolong", "simops", "simopsHold", "cancel",
        "cancelling" }

Request == [pc : Pc, seen : PermitStatus \cup {NoEntry}]

StoreTypeOK ==
  /\ RowTypeOK
  /\ awaiting \in BOOLEAN
  /\ execution \in {"none", "running", "suspended"}
  /\ verified \in BOOLEAN
  /\ closure \in BOOLEAN
  /\ holds \in Seq(Hold)
  /\ reval \in {"none", "passed", "failed"}
  /\ days \in 0..MaxDays
  /\ conflict \in {"open", "rejected"}
  /\ extension \in {"none", "pending", "approved", "rejected"}
  /\ overdue \in BOOLEAN
  /\ job \in {"idle", "found"}

TypeOK == StoreTypeOK /\ req \in [Requests -> Request]

Idle == [pc |-> "idle", seen |-> NoEntry]

(* A submitted permit whose last approver has the word. *)
Init ==
  /\ status = "pending_approval"
  /\ cache = NoEntry
  /\ loading = NoEntry
  /\ awaiting = TRUE
  /\ execution = "none"
  /\ verified = FALSE
  /\ closure = FALSE
  /\ holds = <<>>
  /\ reval = "none"
  /\ days = 0
  /\ conflict = "open"
  /\ extension = "none"
  /\ overdue = FALSE
  /\ job = "idle"
  /\ req = [r \in Requests |-> Idle]

-----------------------------------------------------------------------------

At(r, pc) == req[r].pc = pc

GoHaving(r, pc, s) == req' = [req EXCEPT ![r] = [pc |-> pc, seen |-> s]]
Go(r, pc) == GoHaving(r, pc, NoEntry)

Starts(r, operation) == At(r, "idle") /\ operation \in Operations

(* Mutant: the closed permit's read-only trigger is not installed. *)
MutWritable == TRUE

(* The trigger that makes a closed permit read-only refuses any update. *)
Writable == status # "closed"

(* StatusTransitionService.transition and the bare updates of the other
   services: the status is written whatever it is by now. *)
Transition(s) == Writable /\ status' = s

(* An operation that begins with findOne, and believes its answer. *)
Reads(r, operation, answers) ==
  /\ Starts(r, operation)
  /\ \E s \in answers : FindOne(s)
  /\ Go(r, operation)
  /\ UNCHANGED <<status, loading, records, mdp, dates, job>>

-----------------------------------------------------------------------------
(* The approval workflow, as far as it matters here (see ApprovalWorkflow): an
   approver who read the permit decides the last row, once, whatever the status
   is by then; a veto rejects the permit in whatever status. *)

ApproveRead(r) == awaiting /\ Reads(r, "approve", {"pending_approval"})

ApproveCommit(r) ==
  /\ At(r, "approve")
  /\ awaiting
  /\ awaiting' = FALSE
  /\ Transition("approved")
  /\ Invalidate
  /\ Go(r, "idle")
  /\ UNCHANGED <<loading, execution, verified, closure, mdp, dates, job>>

VetoEligible == {"pending_approval", "approved", "active", "suspended",
                 "deferred", "pending_closure"}

VetoRead(r) == Reads(r, "veto", VetoEligible)

VetoCommit(r) ==
  /\ At(r, "veto")
  /\ Transition("rejected")
  /\ Invalidate
  /\ Go(r, "idle")
  /\ UNCHANGED <<loading, records, mdp, dates, job>>

-----------------------------------------------------------------------------
(* ExecutionService *)

ActivateRead(r) == Reads(r, "activate", {"approved"})

(* Mutant: permit_execution without its unique index. *)
MutExecutionAdmitted == status = "approved"

(* What the insert of permit_execution meets: a trigger reads the committed
   status, and a second insert waits for the first and then is refused. *)
ExecutionAdmitted ==
  /\ status = "approved"
  /\ execution = "none"
  /\ \A q \in Requests : ~At(q, "activating")

ActivateInsert(r) ==
  /\ At(r, "activate")
  /\ ExecutionAdmitted
  /\ Go(r, "activating")
  /\ UNCHANGED <<rowVars, records, mdp, dates, job>>

ActivateCommit(r) ==
  /\ At(r, "activating")
  /\ Transition("active")
  /\ execution' = "running"
  /\ Invalidate
  /\ Go(r, "idle")
  /\ UNCHANGED <<loading, awaiting, verified, closure, mdp, dates, job>>

SuspendRead(r) == execution # "none" /\ Reads(r, "suspend", {"active"})

SuspendCommit(r) ==
  /\ At(r, "suspend")
  /\ Transition("suspended")
  /\ execution' = "suspended"
  /\ Invalidate
  /\ Go(r, "idle")
  /\ UNCHANGED <<loading, awaiting, verified, closure, mdp, dates, job>>

ResumeRead(r) == execution = "suspended" /\ Reads(r, "resume", {"suspended"})

ResumeCommit(r) ==
  /\ At(r, "resume")
  /\ Transition("active")
  /\ execution' = "running"
  /\ Invalidate
  /\ Go(r, "idle")
  /\ UNCHANGED <<loading, awaiting, verified, closure, mdp, dates, job>>

-----------------------------------------------------------------------------
(* VerificationService and ClosureService *)

VerifyRead(r) == ~verified /\ Reads(r, "verify", {"active"})

(* Mutant: permit_verifications without its trigger. *)
MutVerificationAdmitted == ~verified /\ \A q \in Requests : ~At(q, "verifying")

(* The trigger of permit_verifications, and one row per permit, as for
   executions. *)
VerificationAdmitted ==
  /\ status = "active"
  /\ ~verified
  /\ \A q \in Requests : ~At(q, "verifying")

VerifyInsert(r) ==
  /\ At(r, "verify")
  /\ VerificationAdmitted
  /\ Go(r, "verifying")
  /\ UNCHANGED <<rowVars, records, mdp, dates, job>>

(* Nothing looks at the status again: the key the row references is not changed
   by those who change the status meanwhile, so they do not wait for it. *)
VerifyCommit(r) ==
  /\ At(r, "verifying")
  /\ verified' = TRUE
  /\ Invalidate
  /\ Go(r, "idle")
  /\ UNCHANGED <<status, loading, awaiting, execution, closure, mdp, dates, job>>

CloseRead(r) == verified /\ ~closure /\ Reads(r, "close", {"active"})

(* The trigger of permit_closures, and one row per permit, as for executions. *)
ClosureAdmitted ==
  /\ status = "active"
  /\ verified
  /\ ~closure
  /\ \A q \in Requests : ~At(q, "closing")

CloseInsert(r) ==
  /\ At(r, "close")
  /\ ClosureAdmitted
  /\ Go(r, "closing")
  /\ UNCHANGED <<rowVars, records, mdp, dates, job>>

(* The archive row is written in the same transaction. *)
CloseCommit(r) ==
  /\ At(r, "closing")
  /\ Transition("closed")
  /\ closure' = TRUE
  /\ Invalidate
  /\ Go(r, "idle")
  /\ UNCHANGED <<loading, awaiting, execution, verified, mdp, dates, job>>

-----------------------------------------------------------------------------
(* RevalidationService: it reads the row itself, runs no transaction, and
   leaves the Redis entry of the permit alone (it deletes its own). *)

RowReads(r, operation, pc, allowed) ==
  /\ Starts(r, operation)
  /\ status \in allowed
  /\ GoHaving(r, pc, status)
  /\ UNCHANGED <<rowVars, records, mdp, dates, job>>

InProgress == {"active", "suspended"}

RevalidateRead(r) == RowReads(r, "revalidate", "revalidate", InProgress)

(* One revalidation a day.  A failed one goes on to suspend the permit, unless
   the permit was seen suspended: then the request ends in an error. *)
RevalidateInsert(r) ==
  /\ At(r, "revalidate")
  /\ days < MaxDays
  /\ days' = days + 1
  /\ reval' \in {"passed", "failed"}
  /\ Go(r, IF reval' = "failed" /\ req[r].seen = "active" THEN "hold" ELSE "idle")
  /\ UNCHANGED <<rowVars, records, holds, dates, job>>

(* Mutant: an approved permit is suspended as well. *)
MutMdpSuspendRead(r) == RowReads(r, "mdpSuspend", "hold", {"approved", "active"})

MdpSuspendRead(r) == RowReads(r, "mdpSuspend", "hold", {"active"})

(* suspendInternal: first the suspension record, then the permit. *)
InsertHold(r) ==
  /\ At(r, "hold")
  /\ Len(holds) < MaxHolds
  /\ holds' = Append(holds, [by |-> "mdp", open |-> TRUE])
  /\ Go(r, "stop")
  /\ UNCHANGED <<rowVars, records, reval, days, dates, job>>

StopPermit(r) ==
  /\ At(r, "stop")
  /\ Transition("suspended")
  /\ Go(r, "idle")
  /\ UNCHANGED <<cache, loading, records, mdp, dates, job>>

(* continuePermit does something only for a permit it sees suspended. *)
ContinueRead(r) == RowReads(r, "continue", "continue", {"suspended"})

HasOpenHold == holds # <<>> /\ holds[Len(holds)].open

(* It wants the latest revalidation passed, and looks at the latest suspension
   record alone: refuses if SIMOPS made it and it is open. *)
MayContinue ==
  /\ reval = "passed"
  /\ HasOpenHold => holds[Len(holds)].by = "mdp"

(* The latest record is closed, if it was open. *)
ContinueHold(r) ==
  /\ At(r, "continue")
  /\ MayContinue
  /\ holds' = IF HasOpenHold THEN [holds EXCEPT ![Len(holds)].open = FALSE] ELSE holds
  /\ Go(r, "restart")
  /\ UNCHANGED <<rowVars, records, reval, days, dates, job>>

RestartPermit(r) ==
  /\ At(r, "restart")
  /\ Transition("active")
  /\ Go(r, "idle")
  /\ UNCHANGED <<cache, loading, records, mdp, dates, job>>

(* requestExtension; bound: the permit has one extension request. *)
RequestExtension(r) ==
  /\ Starts(r, "extension")
  /\ status \in InProgress
  /\ extension = "none"
  /\ extension' = "pending"
  /\ UNCHANGED <<rowVars, records, mdp, conflict, overdue, job, req>>

DecideRead(r) ==
  /\ Starts(r, "extension")
  /\ extension = "pending"
  /\ Go(r, "decide")
  /\ UNCHANGED <<rowVars, records, mdp, dates, job>>

(* A trigger refuses to decide an extension twice. *)
DecideExtension(r) ==
  /\ At(r, "decide")
  /\ extension = "pending"
  /\ extension' \in {"approved", "rejected"}
  /\ Go(r, IF extension' = "approved" THEN "prolong" ELSE "idle")
  /\ UNCHANGED <<rowVars, records, mdp, conflict, overdue, job>>

(* The new end may have passed as well. *)
Prolong(r) ==
  /\ At(r, "prolong")
  /\ Writable
  /\ overdue' \in {FALSE, overdue}
  /\ Go(r, "idle")
  /\ UNCHANGED <<rowVars, records, mdp, conflict, extension, job>>

-----------------------------------------------------------------------------
(* ConflictResolutionService.reject: no transaction, no Redis. *)

RejectConflict(r) ==
  /\ Starts(r, "simops")
  /\ conflict = "open"
  /\ conflict' = "rejected"
  /\ Go(r, "simops")
  /\ UNCHANGED <<rowVars, records, mdp, extension, overdue, job>>

SimopsStoppable == {"approved", "active", "pending_approval"}

(* suspendParticipantPermits: an update that looks at the status, then the
   suspension record if the update found the permit. *)
SimopsSuspend(r) ==
  /\ At(r, "simops")
  /\ status \in SimopsStoppable
  /\ status' = "suspended"
  /\ Go(r, "simopsHold")
  /\ UNCHANGED <<cache, loading, records, mdp, dates, job>>

SimopsSkip(r) ==
  /\ At(r, "simops")
  /\ status \notin SimopsStoppable
  /\ Go(r, "idle")
  /\ UNCHANGED <<rowVars, records, mdp, dates, job>>

SimopsHold(r) ==
  /\ At(r, "simopsHold")
  /\ Len(holds) < MaxHolds
  /\ holds' = Append(holds, [by |-> "simops", open |-> TRUE])
  /\ Go(r, "idle")
  /\ UNCHANGED <<rowVars, records, reval, days, dates, job>>

-----------------------------------------------------------------------------
(* IncidentSeverityLifecycleService.cancelLinkedPermits, as an accident calls
   it: no transaction, and the Redis entry stays. *)

Cancellable == {"pending_approval", "approved", "active", "suspended"}

CancelRead(r) ==
  RowReads(r, "incident", IF status \in InProgress THEN "cancel" ELSE "cancelling",
           Cancellable)

(* An execution that runs is marked suspended first. *)
CancelExecution(r) ==
  /\ At(r, "cancel")
  /\ execution' = IF execution = "running" THEN "suspended" ELSE execution
  /\ Go(r, "cancelling")
  /\ UNCHANGED <<rowVars, awaiting, verified, closure, mdp, dates, job>>

CancelCommit(r) ==
  /\ At(r, "cancelling")
  /\ Transition("cancelled")
  /\ Go(r, "idle")
  /\ UNCHANGED <<cache, loading, records, mdp, dates, job>>

-----------------------------------------------------------------------------
(* RevalidationJobsService.runDayTransitionValidityChecks, and time. *)

EndPasses ==
  /\ "expiry" \in Operations
  /\ ~overdue
  /\ overdue' = TRUE
  /\ UNCHANGED <<rowVars, records, mdp, conflict, extension, job, req>>

(* Mutant: suspended permits are no candidates. *)
MutJobRead ==
  /\ job = "idle"
  /\ overdue
  /\ status = "active"
  /\ job' = "found"
  /\ UNCHANGED <<rowVars, records, mdp, dates, req>>

(* The job selects the permits under way and finds this one past its end. *)
JobRead ==
  /\ job = "idle"
  /\ overdue
  /\ status \in InProgress
  /\ job' = "found"
  /\ UNCHANGED <<rowVars, records, mdp, dates, req>>

(* Its update looks at the status again, and not at the end. *)
JobExpire ==
  /\ job = "found"
  /\ status \in InProgress
  /\ status' = "expired"
  /\ job' = "idle"
  /\ UNCHANGED <<cache, loading, records, mdp, dates, req>>

(* The permit is no longer under way, or the worker dies. *)
JobGivesUp ==
  /\ job = "found"
  /\ job' = "idle"
  /\ UNCHANGED <<rowVars, records, mdp, dates, req>>

-----------------------------------------------------------------------------

(* Between two writes that are not one transaction. *)
MidWay == {"hold", "stop", "restart", "prolong", "simops", "simopsHold", "cancelling"}

(* A request ends before its next write: a check or a trigger refuses it, or the
   database rolls its transaction back.  Between two transactions only a closed
   permit refuses, or the process dies; what was written by then stays. *)
Fail(r) ==
  /\ ~At(r, "idle")
  /\ req[r].pc \in MidWay => "crash" \in Operations \/ ~Writable
  /\ Go(r, "idle")
  /\ UNCHANGED <<rowVars, records, mdp, dates, job>>

Approval(r)     == ApproveRead(r) \/ ApproveCommit(r) \/ VetoRead(r) \/ VetoCommit(r)
Activation(r)   == ActivateRead(r) \/ ActivateInsert(r) \/ ActivateCommit(r)
Suspension(r)   == SuspendRead(r) \/ SuspendCommit(r) \/ ResumeRead(r) \/ ResumeCommit(r)
Verification(r) == VerifyRead(r) \/ VerifyInsert(r) \/ VerifyCommit(r)
Closure(r)      == CloseRead(r) \/ CloseInsert(r) \/ CloseCommit(r)
Revalidation(r) == RevalidateRead(r) \/ RevalidateInsert(r)
                   \/ MdpSuspendRead(r) \/ InsertHold(r) \/ StopPermit(r)
Continuation(r) == ContinueRead(r) \/ ContinueHold(r) \/ RestartPermit(r)
Extension(r)    == RequestExtension(r) \/ DecideRead(r) \/ DecideExtension(r) \/ Prolong(r)
Simops(r)       == RejectConflict(r) \/ SimopsSuspend(r) \/ SimopsSkip(r) \/ SimopsHold(r)
Cancellation(r) == CancelRead(r) \/ CancelExecution(r) \/ CancelCommit(r)
Expiry          == EndPasses \/ JobRead \/ JobExpire \/ JobGivesUp

Step(r) ==
  \/ Approval(r) \/ Activation(r) \/ Suspension(r) \/ Verification(r) \/ Closure(r)
  \/ Revalidation(r) \/ Continuation(r) \/ Extension(r) \/ Simops(r)
  \/ Cancellation(r) \/ Fail(r)

Environment == RowEnvironment /\ UNCHANGED <<records, mdp, dates, job, req>>

Next == (\E r \in Requests : Step(r)) \/ Expiry \/ Environment

Spec == Init /\ [][Next]_vars

(* The job repeats every day, so it looks again as long as there is something to
   find, and one of its attempts comes through. *)
Fairness == WF_vars(JobRead) /\ SF_vars(JobExpire)

FairSpec == Spec /\ Fairness

-----------------------------------------------------------------------------
(* Properties *)

Started  == execution # "none"
InFlight == \E r \in Requests : ~At(r, "idle")

(* A permit is closed exactly when it has a closure, and then it was verified
   and activated: no veto, suspension, cancellation or expiry that read the
   permit before its closure undoes it. *)
ClosedForGood ==
  /\ status = "closed" <=> closure
  /\ closure => verified /\ Started

(* A permit was activated, or the rejection of a conflict suspended it: that asks
   for no activation, and a continuation then makes the permit active. *)
PutUnderWay == Started \/ conflict = "rejected"

(* Work is allowed, or held, only on a permit somebody activated, unless a
   conflict it takes part in was rejected. *)
WorkIsFounded == status \in InProgress => PutUnderWay

(* A permit is closed exactly when it has a closure, and a closure has its
   verification. *)
ClosedHasRecords == (status = "closed" <=> closure) /\ (closure => verified)

OpenSimopsHolds == {n \in DOMAIN holds : holds[n].by = "simops" /\ holds[n].open}

(* As the comment on the record says: while the suspension of a permit by a
   rejected conflict is on record and open, no continuation is let through. *)
SimopsHoldsStop == status = "suspended" /\ OpenSimopsHolds # {} => ~MayContinue

(* A permit under way whose end has passed is expired, or prolonged, or left by
   other means, in the end. *)
OverdueExpires ==
  overdue /\ status \in InProgress ~> ~overdue \/ status \notin InProgress

(* The permit goes through the stages the site relies on. *)
StageOf ==
  IF closure THEN "closed"
  ELSE IF verified THEN "verified"
  ELSE IF Started THEN "started"
  ELSE "unstarted"

Verifying == \E r \in Requests : At(r, "verifying")

Stages ==
  INSTANCE PermitStages
    WITH stage <- StageOf, working <- (status = "active"), inspecting <- Verifying

(* Whatever requests overlap: work begins by an activation, a verification is
   begun once and at work, though work may be stopped before it is on record,
   and a closure is the end. *)
ImplementsStages == Stages!Spec

-----------------------------------------------------------------------------
(* The inductive strengthening of ClosedHasRecords and WorkIsFounded; and of
   ClosedForGood, as long as no conflict is rejected. *)

(* Nobody remembers the permit at work, held or closed before it got there. *)
MemoriesFounded ==
  {cache, loading} \cap (InProgress \cup {"closed"}) # {} => PutUnderWay

(* A request that acts on an execution found one, one that acts on a permit under
   way found it there. *)
OnExecution == {"suspend", "resume"}
OnWork      == {"verify", "verifying", "close", "closing", "revalidate", "hold", "stop",
                "continue", "restart", "cancel"}

RequestsFounded ==
  \A r \in Requests :
    /\ req[r].pc \in OnExecution => Started
    /\ req[r].pc \in OnWork => PutUnderWay

(* An open activation, verification or closure is the only one, of a permit
   without one; and a permit is verified before it is closed. *)
OpenTransactions ==
  \A r \in Requests :
    /\ At(r, "activating") =>
         ~Started /\ \A q \in Requests \ {r} : ~At(q, "activating")
    /\ At(r, "verifying") =>
         ~verified /\ \A q \in Requests \ {r} : ~At(q, "verifying")
    /\ At(r, "closing") =>
         verified /\ ~closure /\ \A q \in Requests \ {r} : ~At(q, "closing")

(* Permits are suspended for a conflict after it was rejected, and no conflict is
   where nobody runs the operation. *)
SimopsFollows ==
  /\ \A r \in Requests : req[r].pc \in {"simops", "simopsHold"} => conflict = "rejected"
  /\ "simops" \notin Operations => conflict = "open"

Inductive ==
  /\ TypeOK
  /\ ClosedHasRecords
  /\ WorkIsFounded
  /\ verified => PutUnderWay
  /\ MemoriesFounded
  /\ RequestsFounded
  /\ OpenTransactions
  /\ SimopsFollows
=============================================================================
