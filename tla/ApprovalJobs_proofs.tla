------------------------ MODULE ApprovalJobs_proofs ------------------------
(***************************************************************************)
(* Proofs about the approval jobs, for any number of assignments, levels,   *)
(* overlapping runs of the SLA job and attempts of a notice.                *)
(***************************************************************************)
EXTENDS ApprovalJobs, TLAPS

-----------------------------------------------------------------------------
(* The two halves of the state: the clock with the runs, and the messages. *)

Escalations == EscalationChain /\ RunsOnRecord
Messages    == DoneIsNotified /\ AttemptsLeft /\ RecipientsAfter

ClockTypeOK ==
  /\ pending \in BOOLEAN
  /\ row \in [Assignments -> {"active", "completed", "skipped"}]
  /\ level \in [Assignments -> 0 .. MaxLevels]
  /\ overdue \in [Assignments -> BOOLEAN]
  /\ escalations \subseteq Assignments \X Levels
  /\ run \in [Runs -> SUBSET (Assignments \X (0 .. MaxLevels - 1))]

MessageTypeOK ==
  /\ notice \in [Assignments -> {"none", "queued", "insert", "recipients", "done", "failed"}]
  /\ tries \in [Assignments -> 0 .. Attempts]
  /\ notification \in 0 .. 1
  /\ told \in BOOLEAN

LEMMA Halves ==
  Inductive <=> /\ ClockTypeOK /\ Escalations
                /\ MessageTypeOK /\ Messages
                /\ deciding \subseteq Assignments
BY DEF Inductive, TypeOK, ClockTypeOK, MessageTypeOK, Escalations, Messages

LEMMA WholeAfter ==
  ASSUME ClockTypeOK', Escalations', MessageTypeOK', Messages', deciding' \subseteq Assignments
  PROVE  Inductive'
BY DEF Inductive, TypeOK, ClockTypeOK, MessageTypeOK, Escalations, Messages

LEMMA InitInductive == Init => Inductive
<1> SUFFICES ASSUME Init PROVE Inductive
  OBVIOUS
<1>1. ClockTypeOK /\ MessageTypeOK /\ deciding \subseteq Assignments
  <2>1. /\ level \in [Assignments -> 0 .. MaxLevels]
        /\ tries \in [Assignments -> 0 .. Attempts]
    BY Limits DEF Init
  <2>2. run \in [Runs -> SUBSET (Assignments \X (0 .. MaxLevels - 1))]
    BY DEF Init
  <2>3. overdue \in [Assignments -> BOOLEAN]
    BY Zenon DEF Init
  <2>4. /\ row \in [Assignments -> {"active", "completed", "skipped"}]
        /\ notice \in [Assignments ->
                        {"none", "queued", "insert", "recipients", "done", "failed"}]
        /\ notification \in 0 .. 1
    BY DEF Init
  <2>5. escalations \subseteq Assignments \X Levels /\ told \in BOOLEAN /\ deciding \subseteq Assignments
    BY DEF Init
  <2>6. pending \in BOOLEAN
    BY DEF Init
  <2>7. QED
    BY <2>1, <2>2, <2>3, <2>4, <2>5, <2>6 DEF ClockTypeOK, MessageTypeOK
<1>2. Escalations
  BY DEF Init, Escalations, EscalationChain, RunsOnRecord
<1>3. Messages
  BY Limits DEF Init, Messages, DoneIsNotified, AttemptsLeft, RecipientsAfter
<1>4. QED
  BY <1>1, <1>2, <1>3, Halves

LEMMA SameMessages ==
  ASSUME Inductive, UNCHANGED messages
  PROVE  MessageTypeOK' /\ Messages'
BY Halves DEF messages, MessageTypeOK, Messages, DoneIsNotified, AttemptsLeft, RecipientsAfter

LEMMA SameLevels ==
  ASSUME Inductive, UNCHANGED <<level, escalations, run>>
  PROVE  Escalations'
BY Halves DEF Escalations, EscalationChain, RunsOnRecord

LEMMA SameClock ==
  ASSUME Inductive, UNCHANGED <<stage, clock, run>>
  PROVE  ClockTypeOK' /\ Escalations'
BY Halves, SameLevels DEF stage, clock, ClockTypeOK

-----------------------------------------------------------------------------
(* The steps *)

LEMMA TickStep == ASSUME Inductive, NEW a \in Assignments, Tick(a) PROVE Inductive'
<1>1. MessageTypeOK' /\ Messages'
  BY SameMessages DEF Tick
<1>2. ClockTypeOK'
  BY Halves DEF Tick, stage, ClockTypeOK
<1>3. Escalations'
  BY SameLevels DEF Tick
<1>4. QED
  BY <1>1, <1>2, <1>3, Halves, WholeAfter DEF Tick

LEMMA CommitStep == ASSUME Inductive, NEW a \in Assignments, Commit(a) PROVE Inductive'
<1>1. MessageTypeOK' /\ Messages'
  BY SameMessages DEF Commit
<1>2. ClockTypeOK'
  BY Halves DEF Commit, ClockTypeOK
<1>3. Escalations'
  BY SameLevels DEF Commit
<1>4. QED
  BY <1>1, <1>2, <1>3, Halves, WholeAfter DEF Commit

LEMMA DeclineStep == ASSUME Inductive, NEW a \in Assignments, Decline(a) PROVE Inductive'
<1>1. MessageTypeOK' /\ Messages'
  BY SameMessages DEF Decline
<1>2. ClockTypeOK'
  BY Halves DEF Decline, clock, ClockTypeOK
<1>3. Escalations'
  BY SameLevels DEF Decline, clock
<1>4. QED
  BY <1>1, <1>2, <1>3, Halves, WholeAfter DEF Decline

LEMMA VetoStep == ASSUME Inductive, Veto PROVE Inductive'
<1>1. MessageTypeOK' /\ Messages'
  BY SameMessages DEF Veto
<1>2. ClockTypeOK'
  BY Halves DEF Veto, clock, ClockTypeOK
<1>3. Escalations'
  BY SameLevels DEF Veto, clock
<1>4. QED
  BY <1>1, <1>2, <1>3, Halves, WholeAfter DEF Veto

LEMMA ApproveStep == ASSUME Inductive, NEW a \in Assignments, Approve(a) PROVE Inductive'
<1>1. ClockTypeOK' /\ Escalations'
  BY SameClock DEF Approve
<1>2. MessageTypeOK' /\ Messages'
  BY Halves DEF Approve, MessageTypeOK, Messages, DoneIsNotified, AttemptsLeft, RecipientsAfter
<1>3. QED
  BY <1>1, <1>2, Halves, WholeAfter DEF Approve

LEMMA RollbackStep == ASSUME Inductive, NEW a \in Assignments, Rollback(a) PROVE Inductive'
BY SameClock, SameMessages, Halves, WholeAfter DEF Rollback

(* What a run selects carries the level of the moment, whose records are there. *)
LEMMA SelectStep == ASSUME Inductive, NEW r \in Runs, Select(r) PROVE Inductive'
<1>1. MessageTypeOK' /\ Messages'
  BY SameMessages DEF Select
<1>2. \A item \in Overdue : \E a \in Assignments :
         item = <<a, level[a]>> /\ level[a] < MaxLevels
  BY DEF Overdue, Escalable
<1>3. Overdue \subseteq Assignments \X (0 .. MaxLevels - 1)
  BY <1>2, Limits, Halves DEF ClockTypeOK
<1>4. ClockTypeOK'
  BY <1>3, Halves DEF Select, stage, clock, ClockTypeOK
<1>5. \A item \in Overdue : \A n \in 1 .. item[2] : <<item[1], n>> \in escalations
  BY <1>2, Halves DEF Escalations, EscalationChain
<1>6. Escalations'
  <2>1. run' = [run EXCEPT ![r] = Overdue] /\ UNCHANGED <<level, escalations>>
    BY DEF Select, clock
  <2>2. EscalationChain'
    BY <2>1, Halves DEF Escalations, EscalationChain
  <2>3. RunsOnRecord'
    BY <1>5, <2>1, Halves DEF Escalations, RunsOnRecord, ClockTypeOK
  <2>4. QED
    BY <2>2, <2>3 DEF Escalations
<1>7. QED
  BY <1>1, <1>4, <1>6, Halves, WholeAfter DEF Select

LEMMA EscalateStep == ASSUME Inductive, NEW r \in Runs, Escalate(r) PROVE Inductive'
<1> PICK item \in run[r] :
      /\ level' = [level EXCEPT ![item[1]] = item[2] + 1]
      /\ overdue' = [overdue EXCEPT ![item[1]] = FALSE]
      /\ escalations' = escalations \cup {<<item[1], item[2] + 1>>}
      /\ run' = [run EXCEPT ![r] = @ \ {item}]
      /\ UNCHANGED <<stage, deciding, messages>>
  BY DEF Escalate, Recorded
<1>1. item \in Assignments \X (0 .. MaxLevels - 1)
  BY Halves DEF ClockTypeOK
<1>2. /\ item[1] \in Assignments
      /\ item[2] \in 0 .. MaxLevels - 1
      /\ item[2] + 1 \in Levels
  BY <1>1, Limits DEF Levels
<1>3. MessageTypeOK' /\ Messages'
  BY SameMessages
<1>4. ClockTypeOK'
  BY <1>2, Limits, Halves DEF stage, ClockTypeOK, Levels
<1>5. \A n \in 1 .. item[2] + 1 : <<item[1], n>> \in escalations'
  <2>1. \A n \in 1 .. item[2] : <<item[1], n>> \in escalations
    BY Halves DEF Escalations, RunsOnRecord
  <2>2. QED
    BY <1>2, <2>1
<1>6. EscalationChain'
  BY <1>2, <1>5, Halves DEF ClockTypeOK, Escalations, EscalationChain
<1>7. RunsOnRecord'
  BY Halves DEF ClockTypeOK, Escalations, RunsOnRecord
<1>8. QED
  BY <1>3, <1>4, <1>6, <1>7, Halves, WholeAfter DEF Escalations

LEMMA AbandonStep == ASSUME Inductive, NEW r \in Runs, Abandon(r) PROVE Inductive'
<1>1. MessageTypeOK' /\ Messages'
  BY SameMessages DEF Abandon
<1>2. ClockTypeOK'
  BY Halves DEF Abandon, stage, clock, ClockTypeOK
<1>3. Escalations'
  BY Halves DEF Abandon, clock, ClockTypeOK, Escalations, EscalationChain, RunsOnRecord
<1>4. QED
  BY <1>1, <1>2, <1>3, Halves, WholeAfter DEF Abandon

LEMMA NotifyStep == ASSUME Inductive, NEW a \in Assignments, Notify(a) PROVE Inductive'
<1>1. ClockTypeOK' /\ Escalations' /\ UNCHANGED deciding
  BY SameClock DEF Notify, Deduplicate, LookUp, InsertNotification, InsertRecipients,
                   Process, FailNotice
<1> USE Halves, WholeAfter DEF MessageTypeOK, Messages, DoneIsNotified, AttemptsLeft, RecipientsAfter
<1>2. CASE Deduplicate(a)
  BY <1>1, <1>2 DEF Deduplicate, Duplicate, Process
<1>3. CASE LookUp(a)
  BY <1>1, <1>3 DEF LookUp, Process
<1>4. CASE InsertNotification(a)
  BY <1>1, <1>4 DEF InsertNotification, Insertable, Process
<1>5. CASE InsertRecipients(a)
  BY <1>1, <1>5 DEF InsertRecipients, Process
<1>6. CASE FailNotice(a)
  BY <1>1, <1>6, Limits DEF FailNotice, AfterFailure
<1>7. QED
  BY <1>2, <1>3, <1>4, <1>5, <1>6 DEF Notify

LEMMA StepInductive == Inductive /\ [Next]_vars => Inductive'
<1> SUFFICES ASSUME Inductive, [Next]_vars PROVE Inductive'
  OBVIOUS
<1>1. CASE UNCHANGED vars
  BY <1>1, SameClock, SameMessages, Halves, WholeAfter DEF vars, clock, messages
<1>2. CASE Next
  BY <1>2, TickStep, ApproveStep, CommitStep, RollbackStep, DeclineStep, VetoStep, NotifyStep, SelectStep,
     EscalateStep, AbandonStep DEF Next
<1>3. QED
  BY <1>1, <1>2

-----------------------------------------------------------------------------

(* The invariant, types included, whatever runs and jobs overlap or fail. *)
THEOREM InductiveHolds == Spec => []Inductive
<1>1. Init => Inductive
  BY InitInductive
<1>2. Inductive /\ [Next]_vars => Inductive'
  BY StepInductive
<1>3. QED
  BY <1>1, <1>2, PTL DEF Spec

(* The escalations on record lead up to the level of every assignment without
   a gap, although a run writes a level that it read before others did. *)
THEOREM EscalationsOnRecord == Spec => []EscalationChain
<1>1. Inductive => EscalationChain
  BY DEF Inductive
<1>2. QED
  BY <1>1, InductiveHolds, PTL

(* A notice that counts as done has left, or found, its notification, whatever
   number of attempts failed and wherever. *)
THEOREM DoneNotices == Spec => []DoneIsNotified
<1>1. Inductive => DoneIsNotified
  BY DEF Inductive
<1>2. QED
  BY <1>1, InductiveHolds, PTL
=============================================================================
