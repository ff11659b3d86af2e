----------------------- MODULE ApprovalWorkflow_proofs -----------------------
(***************************************************************************)
(* Proofs about the approval workflow, for any workflow, any users and any  *)
(* number of overlapping requests.                                          *)
(***************************************************************************)
EXTENDS ApprovalWorkflow, TLAPS

(* What a request may become keeps the function of requests well typed. *)
LEMMA BecomeType ==
  ASSUME req \in [Requests -> Request],
         NEW r \in Requests, NEW new \in Request, Become(r, new)
  PROVE  /\ req' \in [Requests -> Request]
         /\ req'[r] = new
         /\ \A q \in Requests \ {r} : req'[q] = req[q]
BY DEF Become

(* The records the actions build are requests. *)
LEMMA AtIsRequest ==
  \A pc \in {"idle", "submit", "reset", "veto"} : At(pc) \in Request
BY WorkflowAssumption DEF WorkflowAssumption, At, Request

LEMMA DecidingIsRequest ==
  ASSUME NEW kind \in Decision, NEW a \in Assignments, NEW n \in 0..MaxSubmissions,
         NEW d \in BOOLEAN, NEW pc \in {"decide", "approving"}
  PROVE  [pc |-> pc, kind |-> kind, on |-> a, born |-> n, done |-> d] \in Request
BY DEF Request, Decision

LEMMA IdleIsAt == Idle = At("idle") /\ Idle.pc = "idle"
BY DEF Idle, At

-----------------------------------------------------------------------------
(* The initial states. *)

LEMMA InitInductive == Init => Inductive
<1> SUFFICES ASSUME Init PROVE Inductive
  OBVIOUS
<1> USE DEF Init, RowInit
<1>1. TypeOK
  <2>1. RowTypeOK
    BY DEF RowTypeOK, PermitStatus
  <2>2. round \in 0..MaxSubmissions
    BY WorkflowAssumption DEF WorkflowAssumption
  <2>3. req \in [Requests -> Request]
    BY AtIsRequest, IdleIsAt
  <2>4. /\ asg \in [Assignments -> AssignmentStatus]
        /\ decision \in [Assignments -> Decision \cup {"none"}]
        /\ history \in SUBSET HistoryAction
        /\ linked \in BOOLEAN
    BY DEF AssignmentStatus
  <2>5. QED
    BY <2>1, <2>2, <2>3, <2>4 DEF TypeOK
<1>2. DecisionIffCompleted /\ StageOrder /\ ApprovedAllDecided /\ RowsPerRound
  BY DEF DecisionIffCompleted, StageOrder, ApprovedAllDecided, RowsPerRound
<1>3. \A r \in Requests : req[r].pc = "idle"
  BY IdleIsAt
<1>4. DraftUntilSubmitted /\ RequestsOnDueRows /\ OpenApprovals /\ ApprovedNotReset
  BY <1>3 DEF DraftUntilSubmitted, RequestsOnDueRows, OpenApprovals, ApprovedNotReset,
              InTransaction
<1>5. QED
  BY <1>1, <1>2, <1>4 DEF Inductive

-----------------------------------------------------------------------------
(* Steps that change no row. *)

LEMMA RowsUntouched ==
  ASSUME Inductive, UNCHANGED <<status, round, asg, decision>>
  PROVE  /\ DecisionIffCompleted' /\ StageOrder'
         /\ ApprovedAllDecided'   /\ RowsPerRound'
BY DEF Inductive, DecisionIffCompleted, StageOrder, ApprovedAllDecided, StepDecided,
       RowsPerRound

(* A request that leaves the rows alone and ends up outside any transaction,
   holding no assignment, keeps the invariant. *)
LEMMA QuietRequest ==
  ASSUME Inductive, NEW r \in Requests,
         NEW pc \in {"idle", "submit", "reset", "veto"}, Become(r, At(pc)),
         UNCHANGED <<status, loading, round, asg, decision, history, linked>>,
         cache' \in {cache, status, NoEntry},
         pc = "reset" => ~linked,
         pc = "veto" => round > 0
  PROVE  Inductive'
<1> USE DEF Inductive
<1>1. /\ req' \in [Requests -> Request]
      /\ req'[r] = At(pc)
      /\ \A q \in Requests \ {r} : req'[q] = req[q]
  BY AtIsRequest, BecomeType DEF TypeOK
<1>2. TypeOK'
  BY <1>1 DEF TypeOK, RowTypeOK
<1>3. DecisionIffCompleted' /\ StageOrder' /\ ApprovedAllDecided' /\ RowsPerRound'
  BY RowsUntouched
<1>4. req'[r].pc = pc
  BY <1>1 DEF At
<1>5. DraftUntilSubmitted'
  BY <1>1, <1>4 DEF DraftUntilSubmitted, TypeOK, RowTypeOK
<1>6. RequestsOnDueRows'
  BY <1>1, <1>4 DEF RequestsOnDueRows
<1>7. OpenApprovals'
  BY <1>1, <1>4 DEF OpenApprovals, InTransaction, RowsOf
<1>8. ApprovedNotReset'
  BY <1>1, <1>4 DEF ApprovedNotReset, PermitUnlocked
<1>9. QED
  BY <1>2, <1>3, <1>5, <1>6, <1>7, <1>8

(* findOne leaves the entry, or fills it with the status of the row. *)
LEMMA FindOneCache ==
  ASSUME NEW s, FindOne(s)
  PROVE  /\ cache' \in {cache, status}
         /\ s \in {cache, status}
         /\ s = NoEntry => s = status
BY DEF FindOne, CacheSet

LEMMA QuietSteps ==
  ASSUME Inductive, NEW r \in Requests,
         SubmitRead(r) \/ SubmitReset(r) \/ VetoRead(r) \/ Fail(r)
  PROVE  Inductive'
<1>1. CASE SubmitRead(r)
  BY <1>1, QuietRequest DEF SubmitRead, rowVars
<1>2. CASE SubmitReset(r)
  BY <1>2, QuietRequest DEF SubmitReset, rowVars
<1>3. CASE VetoRead(r)
  <2>1. PICK s \in VetoEligible : FindOne(s)
    BY <1>3 DEF VetoRead
  <2>2. s # "draft" /\ s # NoEntry
    BY NoEntryAssumption DEF NoEntryAssumption, VetoEligible, PermitStatus
  <2>3. round > 0
    BY <2>1, <2>2, FindOneCache DEF Inductive, DraftUntilSubmitted, TypeOK
  <2>4. QED
    BY <1>3, <2>1, <2>3, FindOneCache, QuietRequest DEF VetoRead
<1>4. CASE Fail(r)
  BY <1>4, IdleIsAt, QuietRequest DEF Fail, rowVars
<1>5. QED
  BY <1>1, <1>2, <1>3, <1>4

(* The readers and Redis move only copies of the status. *)
LEMMA EnvironmentStep == ASSUME Inductive, Environment PROVE Inductive'
<1> USE DEF Inductive, Environment
<1>1. /\ UNCHANGED <<status, round, asg, decision, history, linked, req>>
      /\ {cache', loading'} \subseteq {cache, loading, status, NoEntry}
  BY DEF RowEnvironment, ReaderLoad, ReaderStore, EntryExpires, CacheSet
<1>2. TypeOK'
  BY <1>1 DEF TypeOK, RowTypeOK
<1>3. DecisionIffCompleted' /\ StageOrder' /\ ApprovedAllDecided' /\ RowsPerRound'
  BY <1>1, RowsUntouched
<1>4. DraftUntilSubmitted'
  BY <1>1 DEF DraftUntilSubmitted
<1>5. RequestsOnDueRows' /\ OpenApprovals' /\ ApprovedNotReset'
  BY <1>1 DEF RequestsOnDueRows, OpenApprovals, ApprovedNotReset, InTransaction,
              RowsOf, PermitUnlocked
<1>6. QED
  BY <1>2, <1>3, <1>4, <1>5

(* prepareDecision finds an active row, of the current submission. *)
LEMMA PrepareDecisionStep ==
  ASSUME Inductive, NEW r \in Requests, NEW u \in Users, NEW kind \in Decision,
         PrepareDecision(r, u, kind)
  PROVE  Inductive'
<1> USE DEF Inductive
<1>1. PICK a \in Assignments :
        /\ asg[a] = "active"
        /\ Become(r, [pc |-> "decide", kind |-> kind, on |-> a,
                      born |-> round, done |-> FALSE])
  BY DEF PrepareDecision, Matches
<1>2. /\ req' \in [Requests -> Request]
      /\ req'[r] = [pc |-> "decide", kind |-> kind, on |-> a,
                    born |-> round, done |-> FALSE]
      /\ \A q \in Requests \ {r} : req'[q] = req[q]
  BY <1>1, DecidingIsRequest, BecomeType DEF TypeOK
<1>3. /\ UNCHANGED <<status, loading, round, asg, decision, history, linked>>
      /\ cache' \in {cache, status}
  BY FindOneCache DEF PrepareDecision
<1>4. TypeOK'
  BY <1>2, <1>3 DEF TypeOK, RowTypeOK
<1>5. DecisionIffCompleted' /\ StageOrder' /\ ApprovedAllDecided' /\ RowsPerRound'
  BY <1>3, RowsUntouched
<1>6. round # 0
  BY <1>1 DEF RowsPerRound
<1>7. DraftUntilSubmitted'
  BY <1>3, <1>6 DEF DraftUntilSubmitted
<1>8. RequestsOnDueRows'
  <2>1. round <= round
    BY DEF TypeOK
  <2>2. QED
    BY <1>1, <1>2, <1>3, <2>1 DEF RequestsOnDueRows
<1>9. OpenApprovals'
  BY <1>2, <1>3 DEF OpenApprovals, InTransaction, RowsOf
<1>10. ApprovedNotReset'
  BY <1>2, <1>3 DEF ApprovedNotReset, PermitUnlocked
<1>11. QED
  BY <1>4, <1>5, <1>7, <1>8, <1>9, <1>10

(* The transaction of an approval opens: nobody else's holds its row, and what
   it sees of its stage is recorded. *)
LEMMA ApproveInsertStep ==
  ASSUME Inductive, FirstIsAlone, NEW r \in Requests, ApproveInsert(r)
  PROVE  Inductive'
<1> USE DEF Inductive
<1> DEFINE a == req[r].on
           done == Quorum[StepOf[a]] = "first" \/ StageComplete(a)
<1>1. /\ a \in Assignments
      /\ asg[a] = "active"
      /\ decision[a] = "none"
      /\ \A q \in Requests : InTransaction(q) => req[q].on # a
  BY DEF ApproveInsert, MayDecide, RowUnlocked, RequestsOnDueRows, DecisionIffCompleted
<1>2. Become(r, [pc |-> "approving", kind |-> "approve", on |-> a,
                 born |-> round, done |-> done])
  BY DEF ApproveInsert
<1>3. /\ req' \in [Requests -> Request]
      /\ req'[r] = [pc |-> "approving", kind |-> "approve", on |-> a,
                    born |-> round, done |-> done]
      /\ \A q \in Requests \ {r} : req'[q] = req[q]
  <2>1. done \in BOOLEAN /\ round \in 0..MaxSubmissions /\ "approve" \in Decision
    BY DEF TypeOK, Decision, StageComplete
  <2>2. [pc |-> "approving", kind |-> "approve", on |-> a,
         born |-> round, done |-> done] \in Request
    BY <1>1, <2>1, DecidingIsRequest
  <2>3. QED
    BY <1>2, <2>2, BecomeType DEF TypeOK
<1>4. UNCHANGED <<status, cache, loading, round, asg, decision, history, linked>>
  BY DEF ApproveInsert, rowVars
<1>5. done => \A b \in RowsOf(StepOf[a]) \ {a} : asg[b] = "completed"
  <2>1. round > 0
    BY <1>1 DEF RowsPerRound, TypeOK
  <2>2. CASE Quorum[StepOf[a]] = "first"
    <3>1. RowsOf(StepOf[a]) \ {a} = {}
      BY <1>1, <2>2, WorkflowAssumption DEF FirstIsAlone, WorkflowAssumption, RowsOf
    <3>2. QED
      BY <3>1
  <2>3. CASE StageComplete(a)
    BY <2>1, <2>3 DEF StageComplete, RowsPerRound, RowsOf
  <2>4. QED
    BY <2>2, <2>3
<1>6. TypeOK'
  BY <1>3, <1>4 DEF TypeOK, RowTypeOK
<1>7. DecisionIffCompleted' /\ StageOrder' /\ ApprovedAllDecided' /\ RowsPerRound'
  BY <1>4, RowsUntouched
<1>8. DraftUntilSubmitted'
  BY <1>1, <1>4 DEF DraftUntilSubmitted, RowsPerRound
<1>9. RequestsOnDueRows'
  <2>1. round <= round
    BY DEF TypeOK
  <2>2. QED
    BY <1>1, <1>3, <1>4, <2>1 DEF RequestsOnDueRows
<1>10. OpenApprovals'
  <2> DEFINE Held(q) ==
        /\ req[q].born = round
        /\ decision[req[q].on] = "none"
        /\ req[q].done => \A b \in RowsOf(StepOf[req[q].on]) \ {req[q].on} :
                           asg[b] = "completed"
  <2>1. ASSUME NEW q \in Requests, InTransaction(q)'  PROVE  Held(q)'
    <3>1. CASE q = r
      <4>1. req'[q].on = a /\ req'[q].born = round /\ req'[q].done = done
        BY <1>3, <3>1
      <4>2. UNCHANGED <<round, asg, decision>>
        BY <1>4
      <4>3. QED
        BY <1>1, <1>5, <4>1, <4>2 DEF RowsOf
    <3>2. CASE q # r
      BY <1>3, <1>4, <2>1, <3>2 DEF OpenApprovals, InTransaction, RowsOf
    <3>3. QED
      BY <3>1, <3>2
  <2>2. ASSUME NEW q \in Requests, InTransaction(q)',
               NEW p \in Requests \ {q}, InTransaction(p)'
        PROVE  req'[p].on # req'[q].on
    BY <1>1, <1>3, <2>2 DEF OpenApprovals, InTransaction
  <2>3. QED
    BY <2>1, <2>2 DEF OpenApprovals
<1>11. ApprovedNotReset'
  BY <1>3, <1>4 DEF ApprovedNotReset, PermitUnlocked
<1>12. QED
  BY <1>6, <1>7, <1>8, <1>9, <1>10, <1>11

-----------------------------------------------------------------------------
(* Steps that record a decision. *)

LEMMA CompletedRows ==
  ASSUME TypeOK, FirstIsAlone, NEW a \in Assignments
  PROVE  Completed(a) = [asg EXCEPT ![a] = "completed"]
<1>1. Quorum[StepOf[a]] = "first" => \A b \in Assignments : StepOf[b] = StepOf[a] => b = a
  BY WorkflowAssumption DEF FirstIsAlone, WorkflowAssumption, RowsOf
<1>2. asg \in [Assignments -> AssignmentStatus]
  BY DEF TypeOK
<1>3. QED
  BY <1>1, <1>2 DEF Completed

(* What every recorded decision has in common: row a, active and in no other
   open approval, is completed; other rows stay or become active. *)
LEMMA DecisionRecorded ==
  ASSUME Inductive, NEW r \in Requests, NEW a \in Assignments, NEW kind \in Decision,
         asg[a] = "active",
         \A q \in Requests \ {r} : InTransaction(q) => req[q].on # a,
         Become(r, Idle),
         decision' = [decision EXCEPT ![a] = kind],
         asg' \in [Assignments -> AssignmentStatus],
         asg'[a] = "completed",
         \A b \in Assignments \ {a} :
           asg'[b] = asg[b] \/ (asg[b] = "pending" /\ asg'[b] = "active"),
         UNCHANGED round
  PROVE  /\ decision' \in [Assignments -> Decision \cup {"none"}]
         /\ req' \in [Requests -> Request]
         /\ round # 0
         /\ DecisionIffCompleted' /\ RowsPerRound'
         /\ RequestsOnDueRows' /\ OpenApprovals'
         /\ PermitUnlocked => PermitUnlocked'
         /\ \A n \in Steps : StepDecided(n) => StepDecided(n)'
<1> USE DEF Inductive
<1>1. /\ req' \in [Requests -> Request]
      /\ req'[r].pc = "idle"
      /\ \A q \in Requests \ {r} : req'[q] = req[q]
  BY AtIsRequest, IdleIsAt, BecomeType DEF TypeOK
<1>2. /\ decision' \in [Assignments -> Decision \cup {"none"}]
      /\ decision'[a] = kind
      /\ \A b \in Assignments \ {a} : decision'[b] = decision[b]
  BY DEF TypeOK
<1>3. round # 0
  BY DEF RowsPerRound
<1>4. DecisionIffCompleted'
  BY <1>2 DEF DecisionIffCompleted, Decision
<1>5. RowsPerRound'
  BY <1>3 DEF RowsPerRound
<1>6. RequestsOnDueRows'
  BY <1>1 DEF RequestsOnDueRows
<1>7. OpenApprovals'
  <2>1. ASSUME NEW q \in Requests, InTransaction(q)'
        PROVE  /\ q # r /\ req'[q] = req[q] /\ InTransaction(q)
               /\ req[q].on \in Assignments \ {a}
    BY <1>1, <2>1 DEF InTransaction, RequestsOnDueRows
  <2>2. ASSUME NEW q \in Requests, InTransaction(q)'
        PROVE  /\ req'[q].born = round'
               /\ decision'[req'[q].on] = "none"
    BY <1>2, <2>1, <2>2 DEF OpenApprovals
  <2>3. ASSUME NEW q \in Requests, InTransaction(q)', req'[q].done,
               NEW b \in RowsOf(StepOf[req'[q].on]) \ {req'[q].on}
        PROVE  asg'[b] = "completed"
    <3>1. /\ req'[q] = req[q] /\ InTransaction(q)
          /\ req[q].on \in Assignments \ {a}
      BY <2>1, <2>3
    <3>2. asg[b] = "completed"
      BY <2>3, <3>1 DEF OpenApprovals
    <3>3. b \in Assignments \ {a}
      BY <3>2 DEF RowsOf
    <3>4. QED
      BY <3>2, <3>3
  <2>4. ASSUME NEW q \in Requests, InTransaction(q)',
               NEW p \in Requests \ {q}, InTransaction(p)'
        PROVE  req'[p].on # req'[q].on
    BY <2>1, <2>4 DEF OpenApprovals
  <2>5. QED
    BY <2>2, <2>3, <2>4 DEF OpenApprovals, RowsOf
<1>8. PermitUnlocked => PermitUnlocked'
  BY <1>1 DEF PermitUnlocked
<1>9. ASSUME NEW n \in Steps, StepDecided(n) PROVE StepDecided(n)'
  BY <1>2, <1>9 DEF StepDecided, RowsOf, Decision
<1>10. QED
  BY <1>1, <1>2, <1>3, <1>4, <1>5, <1>6, <1>7, <1>8, <1>9

(* Completing an active row keeps the stages in order. *)
LEMMA CompletingKeepsOrder ==
  ASSUME TypeOK, StageOrder, NEW a \in Assignments, asg[a] = "active",
         asg' = [asg EXCEPT ![a] = "completed"]
  PROVE  StageOrder'
BY DEF StageOrder, TypeOK

(* The row a request in flight decides, and who else may hold it. *)
LEMMA HeldRow ==
  ASSUME Inductive, NEW r \in Requests, MayDecide(r) \/ InTransaction(r)
  PROVE  /\ req[r].on \in Assignments
         /\ asg[req[r].on] = "active"
         /\ \A q \in Requests \ {r} : InTransaction(q) => req[q].on # req[r].on
BY DEF Inductive, MayDecide, RowUnlocked, InTransaction, RequestsOnDueRows,
       OpenApprovals, DecisionIffCompleted

LEMMA CommitPartialStageStep ==
  ASSUME Inductive, FirstIsAlone, NEW r \in Requests, CommitPartialStage(r)
  PROVE  Inductive'
<1> USE DEF Inductive
<1> DEFINE a == req[r].on
<1>1. /\ a \in Assignments /\ asg[a] = "active"
      /\ \A q \in Requests \ {r} : InTransaction(q) => req[q].on # a
  BY HeldRow DEF CommitPartialStage
<1>2. /\ asg' = [asg EXCEPT ![a] = "completed"]
      /\ decision' = [decision EXCEPT ![a] = "approve"]
      /\ Become(r, Idle) /\ cache' \in {NoEntry, cache}
      /\ UNCHANGED <<status, loading, round, history, linked>>
  BY <1>1, CompletedRows DEF CommitPartialStage, Invalidate
<1>3. /\ asg' \in [Assignments -> AssignmentStatus]
      /\ asg'[a] = "completed"
      /\ \A b \in Assignments \ {a} : asg'[b] = asg[b]
  BY <1>1, <1>2 DEF TypeOK, AssignmentStatus
<1>4. /\ decision' \in [Assignments -> Decision \cup {"none"}]
      /\ req' \in [Requests -> Request]
      /\ round # 0
      /\ DecisionIffCompleted' /\ RowsPerRound' /\ RequestsOnDueRows' /\ OpenApprovals'
      /\ PermitUnlocked => PermitUnlocked'
      /\ \A n \in Steps : StepDecided(n) => StepDecided(n)'
  <2>1. "approve" \in Decision
    BY DEF Decision
  <2>2. QED
    BY <1>1, <1>2, <1>3, <2>1, DecisionRecorded
<1>5. TypeOK'
  BY <1>2, <1>3, <1>4 DEF TypeOK, RowTypeOK
<1>6. StageOrder'
  BY <1>1, <1>2, CompletingKeepsOrder
<1>7. ApprovedAllDecided'
  BY <1>2, <1>4 DEF ApprovedAllDecided, Steps
<1>8. DraftUntilSubmitted' /\ ApprovedNotReset'
  BY <1>2, <1>4 DEF DraftUntilSubmitted, ApprovedNotReset
<1>9. QED
  BY <1>4, <1>5, <1>6, <1>7, <1>8

(* The rows activated by an advance come right after the completed stage: the
   earlier steps are completed, and no step between is active or decided. *)
LEMMA AdvanceKeepsOrder ==
  ASSUME TypeOK, StageOrder, RowsPerRound, round # 0,
         NEW a \in Assignments, asg[a] = "active",
         \A b \in RowsOf(StepOf[a]) \ {a} : asg[b] = "completed",
         asg' = NextStepActivated([asg EXCEPT ![a] = "completed"], StepOf[a])
  PROVE  /\ asg' \in [Assignments -> AssignmentStatus]
         /\ asg'[a] = "completed"
         /\ \A b \in Assignments \ {a} :
              asg'[b] = asg[b] \/ (asg[b] = "pending" /\ asg'[b] = "active")
         /\ StageOrder'
<1> DEFINE f == [asg EXCEPT ![a] = "completed"]
<1>1. /\ f \in [Assignments -> AssignmentStatus]
      /\ f[a] = "completed"
      /\ \A b \in Assignments \ {a} : f[b] = asg[b]
  BY DEF TypeOK, AssignmentStatus
<1>2. /\ asg' \in [Assignments -> AssignmentStatus]
      /\ \A b \in Assignments :
           \/ asg'[b] = f[b]
           \/ /\ f[b] = "pending" /\ asg'[b] = "active" /\ StepOf[b] > StepOf[a]
              /\ \A c \in Assignments :
                   f[c] = "pending" /\ StepOf[c] > StepOf[a] => StepOf[b] <= StepOf[c]
  BY <1>1 DEF NextStepActivated, AssignmentStatus
<1>3. asg'[a] = "completed"
  BY <1>1, <1>2
<1>4. \A b \in Assignments \ {a} :
        asg'[b] = asg[b] \/ (asg[b] = "pending" /\ asg'[b] = "active")
  BY <1>1, <1>2
<1>5. \A b \in Assignments : StepOf[b] \in Int
  BY WorkflowAssumption DEF WorkflowAssumption, Steps
<1>6. ASSUME NEW b \in Assignments, StepOf[b] > StepOf[a]  PROVE asg[b] = "pending"
  BY <1>6 DEF StageOrder, RowsPerRound, TypeOK
<1>7. ASSUME NEW b \in Assignments, StepOf[b] <= StepOf[a], b # a
      PROVE  asg[b] = "completed"
  <2>1. CASE StepOf[b] = StepOf[a]
    BY <1>7, <2>1 DEF RowsOf
  <2>2. CASE StepOf[b] < StepOf[a]
    BY <2>2 DEF StageOrder, RowsPerRound, TypeOK
  <2>3. QED
    BY <1>5, <1>7, <2>1, <2>2
<1>8. ASSUME NEW x \in Assignments, NEW b \in Assignments,
             StepOf[b] < StepOf[x], asg'[x] \in {"active", "completed"}
      PROVE  asg'[b] = "completed"
  <2>1. CASE StepOf[b] <= StepOf[a]
    BY <1>1, <1>2, <1>3, <1>7, <2>1
  <2>2. CASE StepOf[b] > StepOf[a]
    <3>1. StepOf[x] > StepOf[a] /\ x # a /\ b # a
      BY <1>5, <1>8, <2>2
    <3>2. f[x] = "pending" /\ f[b] = "pending"
      BY <1>1, <1>6, <2>2, <3>1
    <3>3. StepOf[x] <= StepOf[b]
      BY <1>2, <1>8, <2>2, <3>2
    <3>4. QED
      BY <1>5, <1>8, <3>3
  <2>3. QED
    BY <1>5, <2>1, <2>2
<1>9. StageOrder'
  BY <1>8 DEF StageOrder
<1>10. QED
  BY <1>2, <1>3, <1>4, <1>9

LEMMA CommitStageAdvanceStep ==
  ASSUME Inductive, FirstIsAlone, NEW r \in Requests, CommitStageAdvance(r)
  PROVE  Inductive'
<1> USE DEF Inductive
<1> DEFINE a == req[r].on
<1>1. /\ a \in Assignments /\ asg[a] = "active"
      /\ \A q \in Requests \ {r} : InTransaction(q) => req[q].on # a
  BY HeldRow DEF CommitStageAdvance
<1>2. /\ asg' = NextStepActivated([asg EXCEPT ![a] = "completed"], StepOf[a])
      /\ decision' = [decision EXCEPT ![a] = "approve"]
      /\ Become(r, Idle) /\ cache' \in {NoEntry, cache}
      /\ history' = history \cup {"stage_advanced"} /\ linked' = TRUE
      /\ UNCHANGED <<status, loading, round>>
  BY <1>1, CompletedRows DEF CommitStageAdvance, Invalidate
<1>3. \A b \in RowsOf(StepOf[a]) \ {a} : asg[b] = "completed"
  BY DEF CommitStageAdvance, OpenApprovals
<1>4. round # 0
  BY <1>1 DEF RowsPerRound
<1>5. /\ asg' \in [Assignments -> AssignmentStatus]
      /\ asg'[a] = "completed"
      /\ \A b \in Assignments \ {a} :
           asg'[b] = asg[b] \/ (asg[b] = "pending" /\ asg'[b] = "active")
      /\ StageOrder'
  BY <1>1, <1>2, <1>3, <1>4, AdvanceKeepsOrder
<1>6. /\ decision' \in [Assignments -> Decision \cup {"none"}]
      /\ req' \in [Requests -> Request]
      /\ DecisionIffCompleted' /\ RowsPerRound' /\ RequestsOnDueRows' /\ OpenApprovals'
      /\ PermitUnlocked => PermitUnlocked'
      /\ \A n \in Steps : StepDecided(n) => StepDecided(n)'
  <2>1. "approve" \in Decision
    BY DEF Decision
  <2>2. QED
    BY <1>1, <1>2, <1>5, <2>1, DecisionRecorded
<1>7. TypeOK'
  BY <1>2, <1>5, <1>6 DEF TypeOK, RowTypeOK, HistoryAction
<1>8. ApprovedAllDecided'
  BY <1>2, <1>6 DEF ApprovedAllDecided, Steps
<1>9. DraftUntilSubmitted' /\ ApprovedNotReset'
  BY <1>2, <1>4, <1>6 DEF DraftUntilSubmitted, ApprovedNotReset
<1>10. QED
  BY <1>5, <1>6, <1>7, <1>8, <1>9

(* The permit is approved by the last decision of the last stage: the row was
   active, so every earlier row is completed, and with it every other row. *)
LEMMA CommitFinalApprovalStep ==
  ASSUME Inductive, FirstIsAlone, NEW r \in Requests, CommitFinalApproval(r)
  PROVE  Inductive'
<1> USE DEF Inductive
<1> DEFINE a == req[r].on
<1>1. /\ a \in Assignments /\ asg[a] = "active"
      /\ \A q \in Requests \ {r} : InTransaction(q) => req[q].on # a
  BY HeldRow DEF CommitFinalApproval
<1>2. /\ asg' = [asg EXCEPT ![a] = "completed"]
      /\ decision' = [decision EXCEPT ![a] = "approve"]
      /\ Become(r, Idle) /\ cache' \in {NoEntry, cache} /\ PermitUnlocked
      /\ status' = "approved"
      /\ history' = history \cup {"approved"} /\ linked' = TRUE
      /\ UNCHANGED <<loading, round>>
  BY <1>1, CompletedRows DEF CommitFinalApproval, Invalidate
<1>3. /\ asg' \in [Assignments -> AssignmentStatus]
      /\ asg'[a] = "completed"
      /\ \A b \in Assignments \ {a} : asg'[b] = asg[b]
  BY <1>1, <1>2 DEF TypeOK, AssignmentStatus
<1>4. /\ decision' \in [Assignments -> Decision \cup {"none"}]
      /\ req' \in [Requests -> Request]
      /\ round # 0
      /\ DecisionIffCompleted' /\ RowsPerRound' /\ RequestsOnDueRows' /\ OpenApprovals'
      /\ PermitUnlocked'
  <2>1. "approve" \in Decision
    BY DEF Decision
  <2>2. QED
    BY <1>1, <1>2, <1>3, <2>1, DecisionRecorded
<1>5. TypeOK'
  BY <1>2, <1>3, <1>4 DEF TypeOK, RowTypeOK, HistoryAction, PermitStatus
<1>6. StageOrder'
  BY <1>1, <1>2, CompletingKeepsOrder
<1>7. \A b \in Assignments : asg'[b] = "completed"
  <2>1. ASSUME NEW b \in Assignments \ {a} PROVE asg[b] = "completed"
    <3>1. StepOf[a] \in Int /\ StepOf[b] \in Int
      BY <1>1, WorkflowAssumption DEF WorkflowAssumption, Steps
    <3>2. StepOf[b] <= StepOf[a]
      BY <3>1 DEF CommitFinalApproval, HasNextStep
    <3>3. CASE StepOf[b] = StepOf[a]
      BY <3>3 DEF CommitFinalApproval, OpenApprovals, RowsOf
    <3>4. CASE StepOf[b] < StepOf[a]
      BY <1>1, <1>4, <3>4 DEF StageOrder, RowsPerRound, TypeOK
    <3>5. QED
      BY <3>1, <3>2, <3>3, <3>4
  <2>2. QED
    BY <1>3, <2>1
<1>8. ApprovedAllDecided'
  <2>1. \A b \in Assignments : decision'[b] # "none"
    BY <1>4, <1>7 DEF DecisionIffCompleted
  <2>2. ASSUME NEW n \in Steps PROVE StepDecided(n)'
    <3>1. PICK b \in Assignments : StepOf[b] = n
      BY WorkflowAssumption DEF WorkflowAssumption
    <3>2. QED
      BY <2>1, <3>1 DEF StepDecided, RowsOf
  <2>3. QED
    BY <2>2 DEF ApprovedAllDecided, Steps
<1>9. DraftUntilSubmitted' /\ ApprovedNotReset'
  BY <1>2, <1>4 DEF DraftUntilSubmitted, ApprovedNotReset
<1>10. QED
  BY <1>4, <1>5, <1>6, <1>8, <1>9

LEMMA TerminalDecisionStep ==
  ASSUME Inductive, NEW r \in Requests, TerminalDecision(r)
  PROVE  Inductive'
<1> USE DEF Inductive
<1> DEFINE a == req[r].on
           kind == req[r].kind
<1>1. /\ a \in Assignments /\ asg[a] = "active"
      /\ \A q \in Requests \ {r} : InTransaction(q) => req[q].on # a
  BY HeldRow DEF TerminalDecision
<1>2. /\ asg' = [asg EXCEPT ![a] = "completed"]
      /\ decision' = [decision EXCEPT ![a] = kind] /\ kind \in {"reject", "defer"}
      /\ Become(r, Idle) /\ cache' \in {NoEntry, cache}
      /\ status' \in {"rejected", "deferred"}
      /\ history' \in SUBSET (history \cup {"rejected", "deferred"}) /\ linked' = TRUE
      /\ UNCHANGED <<loading, round>>
  BY DEF TerminalDecision, Invalidate, Outcome
<1>3. /\ asg' \in [Assignments -> AssignmentStatus]
      /\ asg'[a] = "completed"
      /\ \A b \in Assignments \ {a} : asg'[b] = asg[b]
  BY <1>1, <1>2 DEF TypeOK, AssignmentStatus
<1>4. /\ decision' \in [Assignments -> Decision \cup {"none"}]
      /\ req' \in [Requests -> Request]
      /\ round # 0
      /\ DecisionIffCompleted' /\ RowsPerRound' /\ RequestsOnDueRows' /\ OpenApprovals'
  <2>1. kind \in Decision
    BY <1>2 DEF Decision
  <2>2. QED
    BY <1>1, <1>2, <1>3, <2>1, DecisionRecorded
<1>5. TypeOK'
  BY <1>2, <1>3, <1>4 DEF TypeOK, RowTypeOK, HistoryAction, PermitStatus
<1>6. StageOrder'
  BY <1>1, <1>2, CompletingKeepsOrder
<1>7. ApprovedAllDecided'
  BY <1>2 DEF ApprovedAllDecided
<1>8. DraftUntilSubmitted' /\ ApprovedNotReset'
  BY <1>2, <1>4 DEF DraftUntilSubmitted, ApprovedNotReset
<1>9. QED
  BY <1>4, <1>5, <1>6, <1>7, <1>8

(* A submission replaces the rows; no open approval holds one of them. *)
LEMMA SubmitCommitStep ==
  ASSUME Inductive, NEW r \in Requests, SubmitCommit(r)
  PROVE  Inductive'
<1> USE DEF Inductive
<1>1. /\ req' \in [Requests -> Request]
      /\ req'[r].pc = "idle"
      /\ \A q \in Requests \ {r} : req'[q] = req[q]
      /\ \A q \in Requests : ~InTransaction(q)
  BY AtIsRequest, IdleIsAt, BecomeType DEF SubmitCommit, TypeOK
<1>2. /\ round \in Nat /\ round' = round + 1 /\ round' \in 0..MaxSubmissions
      /\ status' = "pending_approval"
      /\ asg' = FreshAssignments
      /\ decision' = [b \in Assignments |-> "none"]
      /\ history' = {} /\ cache' \in {NoEntry, cache}
      /\ UNCHANGED <<loading, linked>>
  BY WorkflowAssumption DEF SubmitCommit, Invalidate, TypeOK, WorkflowAssumption
<1>3. /\ asg' \in [Assignments -> {"active", "pending"}]
      /\ \A b \in Assignments : asg'[b] = "active" <=> StepOf[b] = 1
  BY <1>2 DEF FreshAssignments
<1>4. TypeOK'
  <2>1. asg' \in [Assignments -> AssignmentStatus]
    BY <1>3 DEF AssignmentStatus
  <2>2. decision' \in [Assignments -> Decision \cup {"none"}]
    BY <1>2
  <2>3. RowTypeOK'
    BY <1>2 DEF TypeOK, RowTypeOK, PermitStatus
  <2>4. QED
    BY <1>1, <1>2, <2>1, <2>2, <2>3 DEF TypeOK
<1>5. DecisionIffCompleted' /\ ApprovedAllDecided' /\ RowsPerRound'
  BY <1>2, <1>3 DEF DecisionIffCompleted, ApprovedAllDecided, RowsPerRound
<1>6. StageOrder'
  BY <1>3, WorkflowAssumption DEF StageOrder, WorkflowAssumption, Steps
<1>7. DraftUntilSubmitted' /\ ApprovedNotReset'
  BY <1>2 DEF DraftUntilSubmitted, ApprovedNotReset
<1>8. RequestsOnDueRows'
  <2>1. ASSUME NEW q \in Requests, req'[q].pc \in {"decide", "approving"}
        PROVE  /\ req'[q].on \in Assignments
               /\ req'[q].born <= round' /\ req'[q].born # round'
    <3>1. q # r /\ req'[q] = req[q] /\ req[q].pc = "decide"
      BY <1>1, <2>1 DEF InTransaction
    <3>2. req[q].on \in Assignments /\ req[q].born <= round
      BY <3>1 DEF RequestsOnDueRows
    <3>3. req[q].born \in Int
      BY DEF TypeOK, Request
    <3>4. QED
      BY <1>2, <3>1, <3>2, <3>3
  <2>2. QED
    BY <2>1 DEF RequestsOnDueRows
<1>9. OpenApprovals'
  BY <1>1 DEF OpenApprovals, InTransaction
<1>10. QED
  BY <1>4, <1>5, <1>6, <1>7, <1>8, <1>9

LEMMA VetoCommitStep ==
  ASSUME Inductive, NEW r \in Requests, VetoCommit(r)
  PROVE  Inductive'
<1> USE DEF Inductive
<1>1. /\ req' \in [Requests -> Request]
      /\ req'[r].pc = "idle"
      /\ \A q \in Requests \ {r} : req'[q] = req[q]
      /\ req[r].pc = "veto"
  BY AtIsRequest, IdleIsAt, BecomeType DEF VetoCommit, TypeOK
<1>2. /\ status' = "rejected" /\ history' = history \cup {"safety_veto"}
      /\ cache' \in {NoEntry, cache}
      /\ UNCHANGED <<loading, round, asg, decision, linked>>
  BY DEF VetoCommit, Invalidate
<1>3. TypeOK'
  BY <1>1, <1>2 DEF TypeOK, RowTypeOK, HistoryAction, PermitStatus
<1>4. DecisionIffCompleted' /\ StageOrder' /\ ApprovedAllDecided' /\ RowsPerRound'
  BY <1>2 DEF DecisionIffCompleted, StageOrder, ApprovedAllDecided, RowsPerRound
<1>5. DraftUntilSubmitted' /\ ApprovedNotReset'
  BY <1>1, <1>2 DEF DraftUntilSubmitted, ApprovedNotReset
<1>6. RequestsOnDueRows'
  BY <1>1, <1>2 DEF RequestsOnDueRows
<1>7. OpenApprovals'
  BY <1>1, <1>2 DEF OpenApprovals, InTransaction, RowsOf
<1>8. QED
  BY <1>3, <1>4, <1>5, <1>6, <1>7

-----------------------------------------------------------------------------
(* Every step keeps the invariant. *)

LEMMA InductiveStep ==
  ASSUME Inductive, FirstIsAlone, [Next]_vars
  PROVE  Inductive'
<1>1. CASE UNCHANGED vars
  BY <1>1, RowsUntouched
     DEF vars, Inductive, TypeOK, RowTypeOK, DraftUntilSubmitted, RequestsOnDueRows,
         OpenApprovals, ApprovedNotReset, InTransaction, RowsOf, PermitUnlocked
<1>2. CASE Environment
  BY <1>2, EnvironmentStep
<1>3. ASSUME NEW r \in Requests, Start(r) \/ Finish(r)
      PROVE  Inductive'
  <2>1. CASE SubmitRead(r) \/ SubmitReset(r) \/ VetoRead(r) \/ Fail(r)
    BY <2>1, QuietSteps
  <2>2. CASE \E u \in Users, kind \in Decision : PrepareDecision(r, u, kind)
    BY <2>2, PrepareDecisionStep
  <2>3. CASE SubmitCommit(r)
    BY <2>3, SubmitCommitStep
  <2>4. CASE ApproveInsert(r)
    BY <2>4, ApproveInsertStep
  <2>5. CASE ApproveCommit(r)
    BY <2>5, CommitPartialStageStep, CommitStageAdvanceStep, CommitFinalApprovalStep
       DEF ApproveCommit
  <2>6. CASE TerminalDecision(r)
    BY <2>6, TerminalDecisionStep
  <2>7. CASE VetoCommit(r)
    BY <2>7, VetoCommitStep
  <2>8. QED
    BY <1>3, <2>1, <2>2, <2>3, <2>4, <2>5, <2>6, <2>7 DEF Start, Finish
<1>4. QED
  BY <1>1, <1>2, <1>3 DEF Next

(* Where no row is ever skipped, the inductive invariant holds always: of the
   submission, the decisions, the veto and the stale reads, in any order. *)
THEOREM InductiveHolds == FirstIsAlone => (Spec => []Inductive)
<1> SUFFICES ASSUME FirstIsAlone PROVE Spec => []Inductive
  OBVIOUS
<1>1. Init => Inductive
  BY InitInductive
<1>2. Inductive /\ [Next]_vars => Inductive'
  BY InductiveStep
<1>3. QED
  BY <1>1, <1>2, PTL DEF Spec

(* Nobody can act on a step while an earlier one waits. *)
THEOREM StagesInOrder == FirstIsAlone => (Spec => []StageOrder)
BY InductiveHolds, PTL DEF Inductive

(* An approved permit has a decision on every row of its workflow. *)
THEOREM ApprovalIsComplete == FirstIsAlone => (Spec => []ApprovedAllDecided)
BY InductiveHolds, PTL DEF Inductive

-----------------------------------------------------------------------------
(* Every workflow, stages of quorum "first" with several rows included: what the
   two tables record, and that an approval is not undone by a submission. *)

LEMMA InitRecords == Init => Records
<1> SUFFICES ASSUME Init PROVE Records
  OBVIOUS
<1>1. TypeOK /\ DecisionIffCompleted /\ DraftUntilSubmitted /\ ApprovedNotReset
  BY InitInductive DEF Inductive
<1>2. \A r \in Requests : req[r].pc = "idle"
  BY IdleIsAt DEF Init
<1>3. RowsExist /\ RequestsOnRows /\ ApprovalsApart
  BY <1>2 DEF Init, RowsExist, RequestsOnRows, ApprovalsApart, InTransaction
<1>4. QED
  BY <1>1, <1>3 DEF Records

(* A request that moves on without writing: it opens a reset only where nothing is
   linked, and an approval only on an undecided row nobody else holds. *)
LEMMA RecordsQuiet ==
  ASSUME Records, NEW r \in Requests, NEW new \in Request, Become(r, new),
         UNCHANGED <<status, loading, round, asg, decision, history, linked>>,
         cache' \in {cache, status},
         new.pc = "reset" => ~linked,
         new.pc = "veto" => round # 0,
         new.pc \in {"decide", "approving"} =>
           new.on \in Assignments /\ new.born = round /\ round # 0,
         new.pc = "approving" =>
           /\ decision[new.on] = "none"
           /\ \A q \in Requests : InTransaction(q) => req[q].on # new.on
  PROVE  Records'
<1> USE DEF Records
<1>1. /\ req' \in [Requests -> Request]
      /\ req'[r] = new
      /\ \A q \in Requests \ {r} : req'[q] = req[q]
  BY BecomeType DEF TypeOK
<1>2. TypeOK' /\ DecisionIffCompleted' /\ RowsExist'
  BY <1>1 DEF TypeOK, RowTypeOK, DecisionIffCompleted, RowsExist
<1>3. DraftUntilSubmitted'
  <2>1. round = 0 => new.pc \in {"idle", "submit", "reset"}
    BY DEF Request
  <2>2. QED
    BY <1>1, <2>1 DEF DraftUntilSubmitted
<1>4. round <= round
  BY DEF TypeOK
<1>5. RequestsOnRows'
  BY <1>1, <1>4 DEF RequestsOnRows
<1>6. ApprovalsApart'
  BY <1>1 DEF ApprovalsApart, InTransaction
<1>7. ApprovedNotReset'
  BY <1>1 DEF ApprovedNotReset, PermitUnlocked
<1>8. QED
  BY <1>2, <1>3, <1>5, <1>6, <1>7

LEMMA RecordsStarts ==
  ASSUME Records, NEW r \in Requests, Start(r) \/ SubmitReset(r) \/ Fail(r)
  PROVE  Records'
<1> USE DEF rowVars
<1>1. \A pc \in {"idle", "submit", "reset", "veto"} : At(pc) \in Request /\ At(pc).pc = pc
  BY AtIsRequest DEF At
<1>2. CASE SubmitRead(r) \/ SubmitReset(r) \/ Fail(r)
  BY <1>1, <1>2, RecordsQuiet, IdleIsAt DEF SubmitRead, SubmitReset, Fail
<1>3. CASE VetoRead(r)
  <2>1. PICK s \in VetoEligible : FindOne(s)
    BY <1>3 DEF VetoRead
  <2>2. s # "draft" /\ s # NoEntry
    BY NoEntryAssumption DEF NoEntryAssumption, VetoEligible, PermitStatus
  <2>3. round # 0
    BY <2>1, <2>2, FindOneCache DEF Records, DraftUntilSubmitted
  <2>4. QED
    BY <1>1, <1>3, <2>1, <2>3, FindOneCache, RecordsQuiet DEF VetoRead
<1>4. ASSUME NEW u \in Users, NEW kind \in Decision, PrepareDecision(r, u, kind)
      PROVE  Records'
  <2>1. PICK a \in Assignments :
          /\ asg[a] = "active"
          /\ Become(r, [pc |-> "decide", kind |-> kind, on |-> a,
                        born |-> round, done |-> FALSE])
    BY <1>4 DEF PrepareDecision, Matches
  <2>2. round # 0 /\ round \in 0..MaxSubmissions
    BY <2>1 DEF Records, RowsExist, TypeOK
  <2>3. [pc |-> "decide", kind |-> kind, on |-> a, born |-> round, done |-> FALSE] \in Request
    BY <2>2, DecidingIsRequest
  <2>4. /\ UNCHANGED <<status, loading, round, asg, decision, history, linked>>
        /\ cache' \in {cache, status}
    BY <1>4, FindOneCache DEF PrepareDecision
  <2>5. QED
    BY <2>1, <2>2, <2>3, <2>4, RecordsQuiet
<1>5. QED
  BY <1>2, <1>3, <1>4 DEF Start

(* The row a request decides in this step, and that nobody else holds it. *)
LEMMA RecordsHeld ==
  ASSUME Records, NEW r \in Requests, MayDecide(r) \/ InTransaction(r)
  PROVE  /\ req[r].on \in Assignments
         /\ decision[req[r].on] = "none"
         /\ req[r].born = round
         /\ round # 0
         /\ \A q \in Requests \ {r} : InTransaction(q) => req[q].on # req[r].on
<1>1. req[r].pc \in {"decide", "approving"}
  BY DEF MayDecide, InTransaction
<1>2. round # 0
  BY <1>1 DEF Records, DraftUntilSubmitted
<1>3. QED
  BY <1>1, <1>2 DEF Records, MayDecide, RowUnlocked, InTransaction, RequestsOnRows,
                    ApprovalsApart

LEMMA RecordsInsert ==
  ASSUME Records, NEW r \in Requests, ApproveInsert(r)
  PROVE  Records'
<1> DEFINE a == req[r].on
           done == Quorum[StepOf[a]] = "first" \/ StageComplete(a)
           new == [pc |-> "approving", kind |-> "approve", on |-> a, born |-> round,
                   done |-> done]
<1>1. MayDecide(r) /\ Become(r, new)
  BY DEF ApproveInsert
<1>2. /\ a \in Assignments /\ decision[a] = "none" /\ round # 0
      /\ \A q \in Requests : InTransaction(q) => req[q].on # a
  BY <1>1, RecordsHeld DEF MayDecide, RowUnlocked
<1>3. new \in Request
  <2>1. done \in BOOLEAN /\ round \in 0..MaxSubmissions /\ "approve" \in Decision
    BY DEF Records, TypeOK, Decision, StageComplete
  <2>2. QED
    BY <1>2, <2>1, DecidingIsRequest
<1>4. UNCHANGED <<status, cache, loading, round, asg, decision, history, linked>>
  BY DEF ApproveInsert, rowVars
<1>5. new.pc = "approving" /\ new.on = a /\ new.born = round
  OBVIOUS
<1> HIDE DEF new
<1>6. QED
  BY <1>1, <1>2, <1>3, <1>4, <1>5, RecordsQuiet

(* A recorded decision: its row is completed, other rows are skipped or become
   due, and where the status changes a decision is linked. *)
LEMMA RecordsDecision ==
  ASSUME Records, NEW r \in Requests, MayDecide(r) \/ InTransaction(r),
         NEW kind \in Decision, Become(r, Idle),
         decision' = [decision EXCEPT ![req[r].on] = kind],
         asg' \in [Assignments -> AssignmentStatus], asg'[req[r].on] = "completed",
         \A b \in Assignments \ {req[r].on} :
           asg'[b] = asg[b] \/ {asg[b], asg'[b]} \subseteq {"pending", "active", "skipped"},
         UNCHANGED <<round, loading>>, cache' \in {cache, NoEntry},
         history' \in SUBSET HistoryAction,
         \/ UNCHANGED status /\ linked' \in {linked, TRUE}
         \/ /\ PermitUnlocked /\ linked' = TRUE
            /\ status' \in {"approved", "rejected", "deferred"}
  PROVE  Records'
<1> USE DEF Records
<1> DEFINE a == req[r].on
<1>1. /\ a \in Assignments /\ decision[a] = "none" /\ round # 0
      /\ \A q \in Requests \ {r} : InTransaction(q) => req[q].on # a
  BY RecordsHeld
<1>2. /\ req' \in [Requests -> Request]
      /\ req'[r].pc = "idle"
      /\ \A q \in Requests \ {r} : req'[q] = req[q]
  BY AtIsRequest, IdleIsAt, BecomeType DEF TypeOK
<1>3. /\ decision' \in [Assignments -> Decision \cup {"none"}]
      /\ decision'[a] = kind
      /\ \A b \in Assignments \ {a} : decision'[b] = decision[b]
  BY <1>1 DEF TypeOK
<1>4. TypeOK'
  <2>1. RowTypeOK'
    BY DEF TypeOK, RowTypeOK, PermitStatus
  <2>2. linked' \in BOOLEAN
    BY DEF TypeOK
  <2>3. QED
    BY <1>2, <1>3, <2>1, <2>2 DEF TypeOK
<1>5. DecisionIffCompleted'
  BY <1>1, <1>3 DEF DecisionIffCompleted, Decision
<1>6. RowsExist'
  BY <1>1 DEF RowsExist
<1>7. DraftUntilSubmitted' /\ RequestsOnRows'
  BY <1>1, <1>2 DEF DraftUntilSubmitted, RequestsOnRows
<1>8. ApprovalsApart'
  <2>1. ASSUME NEW q \in Requests, InTransaction(q)'
        PROVE  /\ q # r /\ req'[q] = req[q] /\ InTransaction(q)
               /\ req[q].on \in Assignments \ {a}
    BY <1>1, <1>2, <2>1 DEF InTransaction, RequestsOnRows
  <2>2. QED
    BY <1>3, <2>1 DEF ApprovalsApart
<1>9. ApprovedNotReset'
  BY <1>2 DEF ApprovedNotReset, PermitUnlocked, TypeOK
<1>10. QED
  BY <1>4, <1>5, <1>6, <1>7, <1>8, <1>9

(* Completing a row skips at most active ones; a later step becomes active. *)
LEMMA CompletedOrSkipped ==
  ASSUME TypeOK, NEW a \in Assignments
  PROVE  /\ Completed(a) \in [Assignments -> AssignmentStatus]
         /\ Completed(a)[a] = "completed"
         /\ \A b \in Assignments \ {a} :
              \/ Completed(a)[b] = asg[b]
              \/ asg[b] = "active" /\ Completed(a)[b] = "skipped"
BY DEF Completed, TypeOK, AssignmentStatus

LEMMA ActivatedRows ==
  ASSUME NEW f \in [Assignments -> AssignmentStatus], NEW n
  PROVE  /\ NextStepActivated(f, n) \in [Assignments -> AssignmentStatus]
         /\ \A b \in Assignments :
              \/ NextStepActivated(f, n)[b] = f[b]
              \/ f[b] = "pending" /\ NextStepActivated(f, n)[b] = "active"
BY DEF NextStepActivated, AssignmentStatus

LEMMA RecordsDecides ==
  ASSUME Records, NEW r \in Requests, ApproveCommit(r) \/ TerminalDecision(r)
  PROVE  Records'
<1> DEFINE a == req[r].on
<1>0. MayDecide(r) \/ InTransaction(r)
  BY DEF ApproveCommit, CommitPartialStage, CommitStageAdvance, CommitFinalApproval,
         TerminalDecision
<1>1. a \in Assignments /\ TypeOK /\ history \in SUBSET HistoryAction
  BY <1>0, RecordsHeld DEF Records, TypeOK
<1>2. "approve" \in Decision
  BY DEF Decision
<1>3. /\ Completed(a) \in [Assignments -> AssignmentStatus]
      /\ Completed(a)[a] = "completed"
      /\ \A b \in Assignments \ {a} :
           \/ Completed(a)[b] = asg[b]
           \/ asg[b] = "active" /\ Completed(a)[b] = "skipped"
  BY <1>1, CompletedOrSkipped
<1>4. CASE CommitPartialStage(r)
  BY <1>0, <1>1, <1>2, <1>3, <1>4, RecordsDecision DEF CommitPartialStage, Invalidate
<1>5. CASE CommitStageAdvance(r)
  <2>1. /\ asg' = NextStepActivated(Completed(a), StepOf[a])
        /\ decision' = [decision EXCEPT ![a] = "approve"]
        /\ history' = history \cup {"stage_advanced"} /\ linked' = TRUE
        /\ cache' \in {cache, NoEntry} /\ Become(r, Idle)
        /\ UNCHANGED <<status, loading, round>>
    BY <1>5 DEF CommitStageAdvance, Invalidate
  <2>2. /\ asg' \in [Assignments -> AssignmentStatus]
        /\ \A b \in Assignments :
             asg'[b] = Completed(a)[b] \/ (Completed(a)[b] = "pending" /\ asg'[b] = "active")
    BY <1>3, <2>1, ActivatedRows
  <2>3. asg'[a] = "completed"
    BY <1>1, <1>3, <2>2
  <2>4. \A b \in Assignments \ {a} :
          asg'[b] = asg[b] \/ {asg[b], asg'[b]} \subseteq {"pending", "active", "skipped"}
    BY <1>3, <2>2
  <2>5. history' \in SUBSET HistoryAction
    BY <1>1, <2>1 DEF HistoryAction
  <2>6. QED
    BY <1>0, <1>2, <2>1, <2>2, <2>3, <2>4, <2>5, RecordsDecision
<1>6. CASE CommitFinalApproval(r)
  <2>1. history' \in SUBSET HistoryAction
    BY <1>1, <1>6 DEF CommitFinalApproval, HistoryAction
  <2>2. QED
    BY <1>0, <1>1, <1>2, <1>3, <1>6, <2>1, RecordsDecision DEF CommitFinalApproval, Invalidate
<1>7. CASE TerminalDecision(r)
  <2>1. /\ req[r].kind \in Decision
        /\ status' \in {"rejected", "deferred"}
        /\ history' \in SUBSET HistoryAction
    BY <1>1, <1>7 DEF TerminalDecision, Decision, Outcome, HistoryAction
  <2>2. /\ asg' \in [Assignments -> AssignmentStatus] /\ asg'[a] = "completed"
        /\ \A b \in Assignments \ {a} : asg'[b] = asg[b]
    BY <1>1, <1>7 DEF TerminalDecision, TypeOK, AssignmentStatus
  <2>3. QED
    BY <1>0, <1>7, <2>1, <2>2, RecordsDecision DEF TerminalDecision, Invalidate
<1>8. QED
  BY <1>4, <1>5, <1>6, <1>7 DEF ApproveCommit

LEMMA RecordsRest ==
  ASSUME Records, Environment \/ \E r \in Requests : SubmitCommit(r) \/ VetoCommit(r)
  PROVE  Records'
<1> USE DEF Records
<1>1. CASE Environment
  <2>1. /\ UNCHANGED <<status, round, asg, decision, history, linked, req>>
        /\ {cache', loading'} \subseteq {cache, loading, status, NoEntry}
    BY <1>1 DEF Environment, RowEnvironment, ReaderLoad, ReaderStore, EntryExpires, CacheSet
  <2>2. TypeOK' /\ DraftUntilSubmitted'
    BY <2>1 DEF TypeOK, RowTypeOK, DraftUntilSubmitted
  <2>3. QED
    BY <2>1, <2>2 DEF DecisionIffCompleted, RowsExist, RequestsOnRows, ApprovalsApart,
                      ApprovedNotReset, InTransaction, PermitUnlocked
<1>2. ASSUME NEW r \in Requests, SubmitCommit(r) \/ VetoCommit(r) PROVE Records'
  <2>1. /\ req' \in [Requests -> Request]
        /\ req'[r].pc = "idle"
        /\ \A q \in Requests \ {r} : req'[q] = req[q]
    BY <1>2, AtIsRequest, IdleIsAt, BecomeType DEF SubmitCommit, VetoCommit, TypeOK
  <2>2. CASE SubmitCommit(r)
    <3>1. /\ \A q \in Requests : ~InTransaction(q)
          /\ round \in Nat /\ round' = round + 1 /\ round' \in 0..MaxSubmissions
          /\ status' = "pending_approval"
          /\ asg' = FreshAssignments
          /\ decision' = [b \in Assignments |-> "none"]
          /\ history' = {} /\ cache' \in {NoEntry, cache}
          /\ UNCHANGED <<loading, linked>>
      BY <2>2, WorkflowAssumption DEF SubmitCommit, Invalidate, TypeOK, WorkflowAssumption
    <3>2. asg' \in [Assignments -> {"active", "pending"}]
      BY <3>1 DEF FreshAssignments
    <3>3. asg' \in [Assignments -> AssignmentStatus]
      BY <3>2 DEF AssignmentStatus
    <3>4. RowTypeOK' /\ decision' \in [Assignments -> Decision \cup {"none"}]
      BY <3>1 DEF TypeOK, RowTypeOK, PermitStatus
    <3>5. TypeOK'
      BY <2>1, <3>1, <3>3, <3>4 DEF TypeOK
    <3>6. DecisionIffCompleted' /\ RowsExist' /\ DraftUntilSubmitted' /\ ApprovedNotReset'
      BY <3>1, <3>2 DEF DecisionIffCompleted, RowsExist, DraftUntilSubmitted, ApprovedNotReset
    <3>7. ApprovalsApart'
      BY <2>1, <3>1 DEF ApprovalsApart, InTransaction
    <3>8. RequestsOnRows'
      <4>1. ASSUME NEW q \in Requests, req'[q].pc \in {"decide", "approving"}
            PROVE  req'[q].on \in Assignments /\ req'[q].born <= round'
        <5>1. q # r /\ req'[q] = req[q]
          BY <2>1, <4>1
        <5>2. req[q].on \in Assignments /\ req[q].born <= round /\ req[q].born \in Int
          BY <4>1, <5>1 DEF RequestsOnRows, TypeOK, Request
        <5>3. QED
          BY <3>1, <5>1, <5>2
      <4>2. QED
        BY <4>1 DEF RequestsOnRows
    <3>9. QED
      BY <3>5, <3>6, <3>7, <3>8
  <2>3. CASE VetoCommit(r)
    <3>1. /\ status' = "rejected" /\ history' = history \cup {"safety_veto"}
          /\ cache' \in {NoEntry, cache} /\ req[r].pc = "veto"
          /\ UNCHANGED <<loading, round, asg, decision, linked>>
      BY <2>3 DEF VetoCommit, Invalidate
    <3>2. TypeOK'
      BY <2>1, <3>1 DEF TypeOK, RowTypeOK, HistoryAction, PermitStatus
    <3>3. DecisionIffCompleted' /\ RowsExist' /\ DraftUntilSubmitted' /\ ApprovedNotReset'
      BY <2>1, <3>1 DEF DecisionIffCompleted, RowsExist, DraftUntilSubmitted, ApprovedNotReset
    <3>4. RequestsOnRows' /\ ApprovalsApart'
      BY <2>1, <3>1 DEF RequestsOnRows, ApprovalsApart, InTransaction
    <3>5. QED
      BY <3>2, <3>3, <3>4
  <2>4. QED
    BY <1>2, <2>2, <2>3
<1>3. QED
  BY <1>1, <1>2

LEMMA StepRecords == ASSUME Records, [Next]_vars PROVE Records'
<1>1. CASE UNCHANGED vars
  BY <1>1 DEF vars, Records, TypeOK, RowTypeOK, DecisionIffCompleted, RowsExist,
              DraftUntilSubmitted, RequestsOnRows, ApprovalsApart, ApprovedNotReset,
              InTransaction, PermitUnlocked
<1>2. CASE Next
  BY <1>2, RecordsStarts, RecordsInsert, RecordsDecides, RecordsRest DEF Next, Finish
<1>3. QED
  BY <1>1, <1>2

(* In every workflow, whatever its quorums: the invariant of the records. *)
THEOREM RecordsHold == Spec => []Records
<1>1. Init => Records
  BY InitRecords
<1>2. Records /\ [Next]_vars => Records'
  BY StepRecords
<1>3. QED
  BY <1>1, <1>2, PTL DEF Spec

(* The variables keep their types. *)
THEOREM TypeCorrect == Spec => []TypeOK
BY RecordsHold, PTL DEF Records

(* permit_approvals and workflow_assignments never disagree on what is decided, not
   even where an approver decides a row that another one's approval skipped. *)
THEOREM DecisionsMatchRows == Spec => []DecisionIffCompleted
BY RecordsHold, PTL DEF Records

(* An approved permit is not submitted again, although a submission checks the
   status long before it writes: only a veto, or a late rejection or deferral in a
   stage of quorum "first", ends the approval, and the rows stay those it rests on. *)
THEOREM ApprovedIsNotResubmitted ==
  Spec => [][status = "approved" =>
               /\ status' \in {"approved", "rejected", "deferred"}
               /\ UNCHANGED round]_vars
<1> DEFINE Kept == status = "approved" =>
                     /\ status' \in {"approved", "rejected", "deferred"}
                     /\ UNCHANGED round
<1>1. ASSUME Records, NEW r \in Requests, Start(r) \/ Finish(r) PROVE Kept
  <2>1. CASE SubmitCommit(r)
    BY <1>1, <2>1 DEF SubmitCommit, Records, ApprovedNotReset, PermitUnlocked
  <2>2. CASE ~SubmitCommit(r)
    BY <1>1, <2>2 DEF Start, Finish, SubmitRead, PrepareDecision, VetoRead, SubmitReset,
                      ApproveInsert, ApproveCommit, CommitPartialStage, CommitStageAdvance,
                      CommitFinalApproval, TerminalDecision, Outcome, VetoCommit, Fail, rowVars
  <2>3. QED
    BY <2>1, <2>2
<1>2. ASSUME Environment PROVE Kept
  BY <1>2 DEF Environment, RowEnvironment, ReaderLoad, ReaderStore, EntryExpires
<1>3. Records /\ [Next]_vars => [Kept]_vars
  <2>1. Records /\ Next => Kept
    BY <1>1, <1>2 DEF Next
  <2>2. QED
    BY <2>1
<1>4. QED
  BY <1>3, RecordsHold, PTL DEF Spec

-----------------------------------------------------------------------------
(* Sequential workflows: rejections and deferrals. *)

LEMMA SequentialHasNoFirst == Sequential => FirstIsAlone
BY DEF Sequential, FirstIsAlone, RowsOf

(* At most one row is due at a time. *)
LEMMA OneDue ==
  ASSUME Sequential, Inductive, NEW a \in Assignments, asg[a] = "active",
         NEW b \in Assignments, asg[b] = "active"
  PROVE  a = b
<1>1. StepOf[a] \in Int /\ StepOf[b] \in Int
  BY WorkflowAssumption DEF WorkflowAssumption, Steps
<1>2. ~(StepOf[a] < StepOf[b]) /\ ~(StepOf[b] < StepOf[a])
  BY DEF Inductive, StageOrder
<1>3. QED
  BY <1>1, <1>2 DEF Sequential

LEMMA TerminalStep ==
  ASSUME Sequential, Inductive, NobodyDueAfterTerminal, [Next]_vars
  PROVE  NobodyDueAfterTerminal'
<1> USE DEF NobodyDueAfterTerminal
<1>1. CASE UNCHANGED vars \/ Environment
  BY <1>1 DEF vars, Environment, RowEnvironment, ReaderLoad, ReaderStore, EntryExpires
<1>2. ASSUME NEW r \in Requests, Start(r) \/ Finish(r) PROVE NobodyDueAfterTerminal'
  <2>1. CASE Start(r) \/ SubmitReset(r) \/ ApproveInsert(r) \/ Fail(r)
    BY <2>1 DEF Start, SubmitRead, PrepareDecision, VetoRead, SubmitReset, ApproveInsert,
                Fail, rowVars
  <2>2. CASE SubmitCommit(r)
    BY <2>2 DEF SubmitCommit
  <2>3. CASE VetoCommit(r)
    BY <2>3 DEF VetoCommit
  <2>4. CASE ApproveCommit(r)
    <3>1. InTransaction(r)
      BY <2>4 DEF ApproveCommit, CommitPartialStage, CommitStageAdvance, CommitFinalApproval
    <3>2. history \cap {"rejected", "deferred"} = {}
      BY <3>1, HeldRow
    <3>3. history' \cap {"rejected", "deferred"} = {}
      BY <2>4, <3>2 DEF ApproveCommit, CommitPartialStage, CommitStageAdvance,
                        CommitFinalApproval
    <3>4. QED
      BY <3>3
  <2>5. CASE TerminalDecision(r)
    <3>1. /\ req[r].on \in Assignments /\ asg[req[r].on] = "active"
          /\ asg' = [asg EXCEPT ![req[r].on] = "completed"]
          /\ status' \in {"rejected", "deferred"}
      BY <2>5, HeldRow DEF TerminalDecision, Outcome
    <3>2. ASSUME NEW b \in Assignments PROVE asg'[b] # "active"
      BY <3>1, OneDue DEF Inductive, TypeOK
    <3>3. QED
      BY <3>1, <3>2
  <2>6. QED
    BY <1>2, <2>1, <2>2, <2>3, <2>4, <2>5 DEF Finish
<1>3. QED
  BY <1>1, <1>2 DEF Next

(* Where the stages are sequential, a rejection or a deferral is final until the
   permit is resubmitted, however many approvers, delegates and stale reads race:
   no approval that was on its way becomes one.  (A parallel stage breaks it: the
   other approvers of the stage still act on their rows.) *)
THEOREM RejectionIsFinal == Sequential => (Spec => []TerminalFinal)
<1> SUFFICES ASSUME Sequential PROVE Spec => []TerminalFinal
  OBVIOUS
<1>1. Init => NobodyDueAfterTerminal
  BY DEF Init, NobodyDueAfterTerminal
<1>2. Inductive /\ NobodyDueAfterTerminal /\ [Next]_vars => NobodyDueAfterTerminal'
  BY TerminalStep
<1>3. NobodyDueAfterTerminal => TerminalFinal
  BY DEF NobodyDueAfterTerminal, TerminalFinal
<1>4. Spec => []Inductive
  BY SequentialHasNoFirst, InductiveHolds
<1>5. QED
  BY <1>1, <1>2, <1>3, <1>4, PTL DEF Spec

-----------------------------------------------------------------------------
(* The workflow implements the gate. *)

LEMMA StepsFacts ==
  /\ NumSteps \in Nat \ {0}
  /\ \A a \in Assignments : StepOf[a] \in Steps
  /\ \A n \in Steps : n \in Int /\ \E b \in Assignments : StepOf[b] = n
BY WorkflowAssumption DEF WorkflowAssumption, Steps

LEMMA IntervalOf ==
  ASSUME NEW S, NEW N \in Int, NEW n \in Int, 0 <= n, n <= N, S \subseteq 1..N,
         \A m \in 1..N : m \in S <=> m <= n
  PROVE  S = 1..n
<1>1. ASSUME NEW m \in S PROVE m \in 1..n
  OBVIOUS
<1>2. ASSUME NEW m \in 1..n PROVE m \in S
  OBVIOUS
<1>3. QED
  BY <1>1, <1>2

(* While row a waits, exactly the steps before its step are cleared. *)
LEMMA ClearedBefore ==
  ASSUME Inductive, NEW a \in Assignments, asg[a] = "active"
  PROVE  ClearedSteps = 1..(StepOf[a] - 1)
<1> USE DEF Inductive
<1>1. ASSUME NEW m \in Steps, m < StepOf[a], NEW b \in RowsOf(m)
      PROVE  decision[b] # "none"
  BY <1>1 DEF RowsOf, StageOrder, DecisionIffCompleted, RowsPerRound, TypeOK
<1>2. ASSUME NEW m \in Steps, m >= StepOf[a]
      PROVE  \E b \in RowsOf(m) : decision[b] = "none"
  <2>1. CASE m = StepOf[a]
    BY <2>1 DEF RowsOf, DecisionIffCompleted
  <2>2. CASE m > StepOf[a]
    <3>1. PICK b \in Assignments : StepOf[b] = m
      BY StepsFacts
    <3>2. asg[b] # "completed"
      BY <2>2, <3>1 DEF StageOrder
    <3>3. QED
      BY <3>1, <3>2 DEF RowsOf, DecisionIffCompleted
  <2>3. QED
    BY <1>2, <2>1, <2>2, StepsFacts
<1>3. ASSUME NEW m \in Steps PROVE m \in ClearedSteps <=> m < StepOf[a]
  BY <1>1, <1>2, <1>3, StepsFacts DEF ClearedSteps
<1>4. ClearedSteps \subseteq Steps
  BY DEF ClearedSteps
<1> DEFINE n == StepOf[a]
<1>5. NumSteps \in Int /\ n \in 1..NumSteps
  BY StepsFacts DEF Steps
<1>6. \A m \in 1..NumSteps : m \in ClearedSteps <=> m < n
  BY <1>3 DEF Steps
<1> HIDE DEF n
<1>7. ClearedSteps = 1..(n - 1)
  <2>1. /\ n - 1 \in Int /\ 0 <= n - 1 /\ n - 1 <= NumSteps
        /\ ClearedSteps \subseteq 1..NumSteps
        /\ \A m \in 1..NumSteps : m \in ClearedSteps <=> m <= n - 1
    BY <1>4, <1>5, <1>6 DEF Steps
  <2>2. QED
    BY <1>5, <2>1, IntervalOf
<1>8. QED
  BY <1>7 DEF n

(* A decision on row a clears its step or leaves the cleared steps alone. *)
LEMMA ClearedByDecision ==
  ASSUME Inductive, NEW a \in Assignments, asg[a] = "active", NEW kind \in Decision,
         decision' = [decision EXCEPT ![a] = kind]
  PROVE  \/ ClearedSteps' = ClearedSteps
         \/ ClearedSteps' = 1..StepOf[a]
<1>1. ClearedSteps = 1..(StepOf[a] - 1)
  BY ClearedBefore
<1>2. /\ decision'[a] # "none"
      /\ \A b \in Assignments \ {a} : decision'[b] = decision[b]
  BY DEF Inductive, TypeOK, Decision
<1>3. ASSUME NEW m \in Steps, m # StepOf[a]
      PROVE  m \in ClearedSteps' <=> m \in ClearedSteps
  BY <1>2, <1>3 DEF ClearedSteps, RowsOf
<1>4. ClearedSteps' \subseteq Steps /\ ClearedSteps \subseteq Steps
  BY DEF ClearedSteps
<1> DEFINE n == StepOf[a]
<1>5. NumSteps \in Int /\ n \in 1..NumSteps
  BY StepsFacts DEF Steps
<1>6. /\ ClearedSteps = 1..(n - 1)
      /\ \A m \in 1..NumSteps : m # n => (m \in ClearedSteps' <=> m \in ClearedSteps)
  BY <1>1, <1>3 DEF Steps
<1> HIDE DEF n
<1>7. CASE n \in ClearedSteps'
  <2>1. /\ n \in Int /\ 0 <= n /\ n <= NumSteps
        /\ ClearedSteps' \subseteq 1..NumSteps
        /\ \A m \in 1..NumSteps : m \in ClearedSteps' <=> m <= n
    BY <1>4, <1>5, <1>6, <1>7 DEF Steps
  <2>2. ClearedSteps' = 1..n
    BY <1>5, <2>1, IntervalOf
  <2>3. QED
    BY <2>2 DEF n
<1>8. CASE n \notin ClearedSteps'
  <2>1. \A m \in 1..NumSteps : m \in ClearedSteps' <=> m \in ClearedSteps
    BY <1>5, <1>6, <1>8
  <2>2. QED
    BY <1>4, <2>1 DEF Steps
<1>9. QED
  BY <1>7, <1>8

LEMMA DecisionClears ==
  ASSUME Inductive, NEW a \in Assignments, asg[a] = "active", NEW kind \in Decision,
         decision' = [decision EXCEPT ![a] = kind]
  PROVE  Gate!ClearNext \/ ClearedSteps' = ClearedSteps
BY ClearedBefore, ClearedByDecision, StepsFacts DEF Gate!ClearNext, Steps

LEMMA GateInit == Init => Gate!Init
<1> SUFFICES ASSUME Init PROVE Gate!Init
  OBVIOUS
<1>1. PhaseOf = "drafting"
  BY DEF Init, RowInit, PhaseOf
<1>2. ClearedSteps = {}
  BY StepsFacts DEF Init, ClearedSteps, RowsOf
<1>3. QED
  BY <1>1, <1>2 DEF Gate!Init

(* A step with its decisions is cleared. *)
LEMMA ClearedIsDecided ==
  ASSUME FirstIsAlone
  PROVE  /\ ClearedSteps = {n \in Steps : StepDecided(n)}
         /\ ClearedSteps' = {n \in Steps : StepDecided(n)'}
<1>1. ASSUME NEW n \in Steps, Quorum[n] = "first"
      PROVE  \E a \in RowsOf(n) : \A b \in RowsOf(n) : b = a
  BY <1>1, StepsFacts DEF FirstIsAlone, RowsOf
<1>2. QED
  BY <1>1 DEF ClearedSteps, StepDecided, RowsOf

(* A step that keeps the status and the decisions is a stutter of the gate. *)
LEMMA GateStutter ==
  UNCHANGED <<status, decision>> => UNCHANGED <<PhaseOf, ClearedSteps>>
BY DEF PhaseOf, ClearedSteps

LEMMA GateSubmit ==
  ASSUME Inductive, NEW r \in Requests, SubmitCommit(r)
  PROVE  Gate!Submit
<1>1. status # "approved"
  BY DEF SubmitCommit, Inductive, ApprovedNotReset, PermitUnlocked
<1>2. ClearedSteps' = {}
  BY StepsFacts DEF SubmitCommit, ClearedSteps, RowsOf
<1>3. PhaseOf # "granted" /\ PhaseOf' = "review"
  BY <1>1 DEF SubmitCommit, PhaseOf
<1>4. QED
  BY <1>2, <1>3 DEF Gate!Submit

LEMMA GateDecision ==
  ASSUME Inductive, FirstIsAlone, NEW r \in Requests,
         ApproveCommit(r) \/ TerminalDecision(r)
  PROVE  [Gate!Next]_<<PhaseOf, ClearedSteps>>
<1> DEFINE a == req[r].on
<1>1. a \in Assignments /\ asg[a] = "active"
  BY HeldRow DEF ApproveCommit, CommitPartialStage, CommitStageAdvance,
                 CommitFinalApproval, TerminalDecision
<1>2. round # 0 /\ status # "draft"
  BY <1>1 DEF Inductive, RowsPerRound, DraftUntilSubmitted
<1>3. "approve" \in Decision /\ "reject" \in Decision /\ "defer" \in Decision
  BY DEF Decision
<1>4. CASE CommitPartialStage(r) \/ CommitStageAdvance(r)
  <2>1. UNCHANGED PhaseOf /\ decision' = [decision EXCEPT ![a] = "approve"]
    BY <1>4 DEF CommitPartialStage, CommitStageAdvance, PhaseOf
  <2>2. QED
    BY <1>1, <1>3, <2>1, DecisionClears DEF Gate!Next, Gate!Clear
<1>5. CASE CommitFinalApproval(r)
  <2>1. decision' = [decision EXCEPT ![a] = "approve"] /\ status' = "approved"
    BY <1>5 DEF CommitFinalApproval
  <2>2. Inductive'
    BY <1>5, CommitFinalApprovalStep
  <2>3. ClearedSteps' = 1..NumSteps
    BY <2>1, <2>2, ClearedIsDecided DEF Inductive, ApprovedAllDecided, Steps
  <2>4. decision[a] = "none"
    BY <1>1 DEF Inductive, DecisionIffCompleted
  <2>5. StepOf[a] \in Steps \ ClearedSteps
    BY <1>1, <2>4, StepsFacts DEF ClearedSteps, RowsOf
  <2>6. status # "approved"
    BY <2>5, ClearedIsDecided DEF Inductive, ApprovedAllDecided
  <2>7. PhaseOf \in {"review", "returned"} /\ PhaseOf' = "granted"
    BY <1>2, <2>1, <2>6 DEF PhaseOf
  <2>8. ClearedSteps # 1..NumSteps
    BY <2>5 DEF Steps
  <2>9. Gate!ClearNext
    BY <1>1, <1>3, <2>1, <2>3, <2>8, DecisionClears
  <2>10. QED
    BY <2>3, <2>7, <2>8, <2>9 DEF Gate!Next, Gate!Grant
<1>6. CASE TerminalDecision(r)
  <2>1. /\ decision' = [decision EXCEPT ![a] = req[r].kind]
        /\ req[r].kind \in Decision
        /\ status' \in {"rejected", "deferred"}
    BY <1>3, <1>6 DEF TerminalDecision, Outcome
  <2>2. PhaseOf # "drafting" /\ PhaseOf' = "returned"
    BY <1>2, <2>1 DEF PhaseOf
  <2>3. QED
    BY <1>1, <2>1, <2>2, DecisionClears DEF Gate!Next, Gate!Return
<1>7. QED
  BY <1>4, <1>5, <1>6 DEF ApproveCommit

LEMMA GateVeto ==
  ASSUME Inductive, NEW r \in Requests, VetoCommit(r)
  PROVE  Gate!Return
<1>1. status # "draft"
  BY DEF VetoCommit, Inductive, DraftUntilSubmitted
<1>2. UNCHANGED ClearedSteps
  BY DEF VetoCommit, ClearedSteps
<1>3. PhaseOf # "drafting" /\ PhaseOf' = "returned"
  BY <1>1 DEF VetoCommit, PhaseOf
<1>4. QED
  BY <1>2, <1>3 DEF Gate!Return

LEMMA GateStep ==
  ASSUME Inductive, FirstIsAlone, [Next]_vars
  PROVE  [Gate!Next]_<<PhaseOf, ClearedSteps>>
<1>1. CASE UNCHANGED vars \/ Environment
  BY <1>1, GateStutter
     DEF vars, Environment, RowEnvironment, ReaderLoad, ReaderStore, EntryExpires
<1>2. ASSUME NEW r \in Requests, Start(r) \/ Finish(r)
      PROVE  [Gate!Next]_<<PhaseOf, ClearedSteps>>
  <2>1. CASE Start(r) \/ SubmitReset(r) \/ ApproveInsert(r) \/ Fail(r)
    BY <2>1, GateStutter
       DEF Start, SubmitRead, PrepareDecision, VetoRead, SubmitReset, ApproveInsert,
           Fail, rowVars
  <2>2. CASE SubmitCommit(r)
    BY <2>2, GateSubmit DEF Gate!Next
  <2>3. CASE ApproveCommit(r) \/ TerminalDecision(r)
    BY <2>3, GateDecision
  <2>4. CASE VetoCommit(r)
    BY <2>4, GateVeto DEF Gate!Next
  <2>5. QED
    BY <1>2, <2>1, <2>2, <2>3, <2>4 DEF Finish
<1>3. QED
  BY <1>1, <1>2 DEF Next

(* The approval workflow implements the gate: whatever requests overlap and
   whatever they read from Redis, steps are cleared one by one from the first,
   only the clearing of the last one grants the permit, and a granted permit is
   never submitted again. *)
THEOREM WorkflowImplementsGate == FirstIsAlone => (Spec => ImplementsGate)
<1> SUFFICES ASSUME FirstIsAlone PROVE Spec => ImplementsGate
  OBVIOUS
<1>1. Init => Gate!Init
  BY GateInit
<1>2. Inductive /\ [Next]_vars => [Gate!Next]_<<PhaseOf, ClearedSteps>>
  BY GateStep
<1>3. Spec => []Inductive
  BY InductiveHolds
<1>4. QED
  BY <1>1, <1>2, <1>3, PTL DEF Spec, ImplementsGate, Gate!Spec
=============================================================================
