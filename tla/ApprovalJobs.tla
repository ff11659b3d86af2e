---------------------------- MODULE ApprovalJobs ----------------------------
(***************************************************************************)
(* The background side of a permit's last stage, of quorum "first", on the  *)
(* job queue: the hourly job that escalates overdue assignments, and the    *)
(* notices of approvals that become notifications.  Two approvals that      *)
(* overlap both grant the permit, and their notices share a dedupe key.     *)
(* BullMQ tries a job again when it fails, and may start one that stalled   *)
(* while it still runs.                                                     *)
(***************************************************************************)
EXTENDS Naturals

CONSTANTS
  Assignments,   \* workflow_assignments of the stage, all active at first
  Timed,         \* those whose step has SLA hours
  MaxLevels,     \* MAX_SLA_ESCALATION_LEVELS
  Runs,          \* runs of the SLA job that may overlap
  Attempts       \* attempts of a job, defaultJobOptions

ASSUME Limits == Timed \subseteq Assignments /\ MaxLevels \in Nat /\ Attempts \in Nat \ {0}

VARIABLES
  pending,       \* the permit is pending approval
  row,           \* workflow_assignments.status
  level,         \* escalation_level
  overdue,       \* sla_deadline_at has passed
  escalations,   \* approval_sla_escalations: assignment and level
  deciding,      \* assignments whose decision is in its transaction
  run,           \* for each run, the assignments it selected, with the level it read
  notice,        \* for each assignment, the job with the notice of its approval
  tries,         \* attempts of that job that failed
  notification,  \* rows of notifications with the key of the approvals
  told           \* that notification has recipients

stage     == <<pending, row>>
clock     == <<level, overdue, escalations>>
messages  == <<notice, tries, notification, told>>
vars      == <<stage, clock, deciding, run, messages>>

Levels == 1 .. MaxLevels

TypeOK ==
  /\ pending \in BOOLEAN
  /\ row \in [Assignments -> {"active", "completed", "skipped"}]
  /\ level \in [Assignments -> 0 .. MaxLevels]
  /\ overdue \in [Assignments -> BOOLEAN]
  /\ escalations \subseteq Assignments \X Levels
  /\ deciding \subseteq Assignments
  /\ run \in [Runs -> SUBSET (Assignments \X (0 .. MaxLevels - 1))]
  /\ notice \in [Assignments -> {"none", "queued", "insert", "recipients", "done", "failed"}]
  /\ tries \in [Assignments -> 0 .. Attempts]
  /\ notification \in 0 .. 1
  /\ told \in BOOLEAN

Init ==
  /\ pending = TRUE
  /\ row = [a \in Assignments |-> "active"]
  /\ level = [a \in Assignments |-> 0]
  /\ overdue = [a \in Assignments |-> FALSE]
  /\ escalations = {}
  /\ deciding = {}
  /\ run = [r \in Runs |-> {}]
  /\ notice = [a \in Assignments |-> "none"]
  /\ tries = [a \in Assignments |-> 0]
  /\ notification = 0
  /\ told = FALSE

-----------------------------------------------------------------------------
(* The permit *)

(* The deadline of an assignment passes. *)
Tick(a) ==
  /\ a \in Timed
  /\ row[a] = "active"
  /\ ~overdue[a]
  /\ overdue' = [overdue EXCEPT ![a] = TRUE]
  /\ UNCHANGED <<stage, level, escalations, deciding, run, messages>>

(* approve queues the notice before its transaction commits, when it holds the
   rows of the stage and the permit; the row may have been skipped since it was
   read, and the permit decided.  Bound: one attempt for each row. *)
Approve(a) ==
  /\ row[a] # "completed"
  /\ deciding = {}
  /\ notice[a] = "none"
  /\ deciding' = {a}
  /\ notice' = [notice EXCEPT ![a] = "queued"]
  /\ UNCHANGED <<stage, clock, run, tries, notification, told>>

(* The other rows of the stage are skipped, and the permit is not pending. *)
Commit(a) ==
  /\ a \in deciding
  /\ deciding' = deciding \ {a}
  /\ pending' = FALSE
  /\ row' = [b \in Assignments |->
       IF b = a THEN "completed" ELSE IF row[b] = "active" THEN "skipped" ELSE row[b]]
  /\ UNCHANGED <<level, overdue, escalations, run, messages>>

Rollback(a) ==
  /\ a \in deciding
  /\ deciding' = deciding \ {a}
  /\ UNCHANGED <<stage, clock, run, messages>>

(* A rejection or a deferral leaves the other rows of the stage as they are.  (Its
   notice has a key of its own.) *)
Decline(a) ==
  /\ row[a] # "completed"
  /\ deciding = {}
  /\ row' = [row EXCEPT ![a] = "completed"]
  /\ pending' = FALSE
  /\ UNCHANGED <<clock, deciding, run, messages>>

(* A veto leaves all of them. *)
Veto ==
  /\ deciding = {}
  /\ pending' = FALSE
  /\ UNCHANGED <<row, clock, deciding, run, messages>>

-----------------------------------------------------------------------------
(* The escalation of overdue assignments *)

(* Mutant: the assignments at the last level are not left out. *)
MutEscalable(a) == pending /\ row[a] = "active" /\ overdue[a]

Escalable(a) == pending /\ row[a] = "active" /\ overdue[a] /\ level[a] < MaxLevels

(* Mutant: only what was never escalated is selected. *)
MutOverdue == {<<a, level[a]>> : a \in {b \in Assignments : Escalable(b) /\ level[b] = 0}}

Overdue == {<<a, level[a]>> : a \in {b \in Assignments : Escalable(b)}}

Select(r) ==
  /\ run[r] = {}
  /\ Overdue # {}
  /\ run' = [run EXCEPT ![r] = Overdue]
  /\ UNCHANGED <<stage, clock, deciding, messages>>

(* Mutant: the level is written, the record comes with the next one. *)
MutRecorded(a, n) == IF n = 1 THEN {} ELSE {<<a, n - 1>>}

Recorded(a, n) == {<<a, n>>}

(* One transaction for each assignment, with the level that was read, whatever
   has become of the assignment and its permit since. *)
Escalate(r) ==
  \E item \in run[r] : LET a == item[1]
                          n == item[2] + 1
                      IN
    /\ level' = [level EXCEPT ![a] = n]
    /\ overdue' = [overdue EXCEPT ![a] = FALSE]
    /\ escalations' = escalations \cup Recorded(a, n)
    /\ run' = [run EXCEPT ![r] = @ \ {item}]
    /\ UNCHANGED <<stage, deciding, messages>>

(* The run fails; the next attempt, or the next hour, selects again. *)
Abandon(r) ==
  /\ run[r] # {}
  /\ run' = [run EXCEPT ![r] = {}]
  /\ UNCHANGED <<stage, clock, deciding, messages>>

-----------------------------------------------------------------------------
(* The notices; action 'approved', so one dedupe key *)

Process(a, from, to) ==
  /\ notice[a] = from
  /\ notice' = [notice EXCEPT ![a] = to]
  /\ UNCHANGED <<stage, clock, deciding, run, tries>>

Duplicate == notification # 0

(* A notification that exists, with its recipients or without, ends the job. *)
Deduplicate(a) ==
  /\ Duplicate
  /\ Process(a, "queued", "done")
  /\ UNCHANGED <<notification, told>>

LookUp(a) ==
  /\ ~Duplicate
  /\ Process(a, "queued", "insert")
  /\ UNCHANGED <<notification, told>>

(* The index on the key of a tenant. *)
Insertable == notification = 0

InsertNotification(a) ==
  /\ Insertable
  /\ Process(a, "insert", "recipients")
  /\ notification' = notification + 1
  /\ UNCHANGED told

InsertRecipients(a) ==
  /\ Process(a, "recipients", "done")
  /\ told' = TRUE
  /\ UNCHANGED notification

(* Mutant: a job that fails is not tried again, and counts as completed. *)
MutAfterFailure(a) == "done"

AfterFailure(a) == IF tries[a] + 1 < Attempts THEN "queued" ELSE "failed"

(* Mutant: the attempts are not counted. *)
MutFailNotice(a) ==
  /\ notice[a] \in {"queued", "insert", "recipients"}
  /\ notice' = [notice EXCEPT ![a] = "queued"]
  /\ UNCHANGED <<stage, clock, deciding, run, tries, notification, told>>

(* The unique index, an error of the database or the end of the process. *)
FailNotice(a) ==
  /\ notice[a] \in {"queued", "insert", "recipients"}
  /\ notice' = [notice EXCEPT ![a] = AfterFailure(a)]
  /\ tries' = [tries EXCEPT ![a] = @ + 1]
  /\ UNCHANGED <<stage, clock, deciding, run, notification, told>>

-----------------------------------------------------------------------------

Notify(a) ==
  \/ Deduplicate(a) \/ LookUp(a) \/ InsertNotification(a) \/ InsertRecipients(a)
  \/ FailNotice(a)

Next ==
  \/ \E a \in Assignments :
       Tick(a) \/ Approve(a) \/ Commit(a) \/ Rollback(a) \/ Decline(a) \/ Notify(a)
  \/ Veto
  \/ \E r \in Runs : Select(r) \/ Escalate(r) \/ Abandon(r)

(* Time passes, the job runs every hour and is not killed every time, the
   queue hands its jobs to a worker. *)
Fairness ==
  /\ \A a \in Assignments : WF_vars(Tick(a)) /\ WF_vars(Notify(a))
  /\ \A r \in Runs : WF_vars(Select(r)) /\ SF_vars(Escalate(r))

Spec == Init /\ [][Next]_vars /\ Fairness

-----------------------------------------------------------------------------

(* The records of the escalations lead up to the level of the assignment
   without a gap, even when runs overlap and one writes a level it read long
   ago. *)
EscalationChain ==
  \A a \in Assignments : \A n \in 1 .. level[a] : <<a, n>> \in escalations

(* An assignment that nobody decides climbs to the last level as long as its permit
   is pending, though runs of the job fail and a late one may take it down again. *)
OverdueClimbs ==
  \A a \in Timed : <>(~pending \/ row[a] # "active" \/ level[a] = MaxLevels)

(* A job that has completed leaves the notification behind, its own or the one
   it found; only a job that failed on every attempt leaves none. *)
DoneIsNotified == \A a \in Assignments : notice[a] = "done" => notification # 0

(* Every notice gets through the queue or fails on its last attempt: finding the
   key taken is not tried for ever. *)
NoticesSettle ==
  \A a \in Assignments : notice[a] = "queued" ~> notice[a] \in {"done", "failed"}

-----------------------------------------------------------------------------
(* The inductive strengthening of EscalationChain and DoneIsNotified. *)

(* A run that selected an assignment read a level that is on record up to there:
   what a late write takes the level back to has its records. *)
RunsOnRecord ==
  \A r \in Runs : \A item \in run[r] : \A n \in 1 .. item[2] : <<item[1], n>> \in escalations

(* A job that may still be tried has attempts left. *)
AttemptsLeft ==
  \A a \in Assignments :
    notice[a] \in {"none", "queued", "insert", "recipients"} => tries[a] < Attempts

(* The recipients come after their notification. *)
RecipientsAfter == \A a \in Assignments : notice[a] = "recipients" => notification # 0

Inductive ==
  /\ TypeOK
  /\ EscalationChain
  /\ DoneIsNotified
  /\ RunsOnRecord
  /\ AttemptsLeft
  /\ RecipientsAfter
=============================================================================
