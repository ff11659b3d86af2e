------------------------- MODULE Restoration_proofs -------------------------
(***************************************************************************)
(* Proofs about the LOTOTO procedure, for any number of points, locks, tags *)
(* and overlapping requests, and any set of operations.                     *)
(***************************************************************************)
EXTENDS Restoration, FiniteSetTheorems, TLAPS

(* What the invariant says of a request, and of the rest of the state. *)
Sound(q) ==
  /\ q.op \in {"addPoint", "verify", "restore", "recheck"} => q.arg \in Points
  /\ q.op = "configure" => q.arg \in Orders(Points)
  /\ status = "none" => q.op \in {"none", "addPoint", "configure", "start"}
  /\ q.op = "markVerified" => "isolated" \in stamps
  /\ q.op \in {"unlock", "restore", "complete"} => "verified" \in stamps
  /\ q.op = "takeDown" \/ (q.op = "unlock" /\ q.pc = "checked")
       => q.arg \in Labels /\ hung[q.arg] # "never"
  /\ q.op = "verify" /\ q.pc = "checked" => q.arg \in EverLocked
  /\ plan = "in_execution" =>
       /\ q.op = "isolate" /\ q.pc = "checked" => Sequenced \subseteq EverLocked
       /\ q.op = "markVerified" /\ q.pc = "checked" => Sequenced \cap Requires \subseteq passed
       /\ q.op = "complete" /\ q.pc = "checked" => Sequenced \subseteq restored
       /\ q.op = "hang" /\ q.pc = "checked" /\ q.arg \in Locks
            => Predecessors(PointOf[q.arg]) \subseteq EverLocked

RowTypes ==
  /\ PlanTypeOK
  /\ IsolationTypeOK
  /\ removals \subseteq Labels
  /\ restored \subseteq Points
  /\ rechecked \subseteq Points
  /\ archives \in 0..MaxArchives

Stages ==
  /\ NoEarlyUnwinding
  /\ StampsLead
  /\ plan = "in_execution" => status # "none"
  /\ status = "none" => stamps = {} /\ passed = {} /\ \A l \in Labels : hung[l] = "never"

Rows == RowTypes /\ Stages /\ EvidenceChain /\ LockOrder

LEMMA Parts ==
  Inductive <=> Rows /\ req \in [Requests -> Request] /\ \A r \in Requests : Sound(req[r])
BY DEF Inductive, TypeOK, Rows, RowTypes, Stages, NothingBeforeStart, ArgumentsFit,
       RequestsAfterStage, ChecksRemain, Sound, At

LEMMA WholeAfter ==
  ASSUME Rows', req' \in [Requests -> Request], \A r \in Requests : Sound(req[r])'
  PROVE  Inductive'
BY DEF Inductive, TypeOK, Rows, RowTypes, Stages, NothingBeforeStart, ArgumentsFit,
       RequestsAfterStage, ChecksRemain, Sound, At

LEMMA IdleSound == Idle \in Request /\ Sound(Idle) /\ Sound(Idle)'
BY DEF Idle, Request, Args, Sound

(* Records grow, and what is in execution keeps its sequence. *)
Grows ==
  /\ stamps \subseteq stamps' /\ EverLocked \subseteq EverLocked'
  /\ passed \subseteq passed' /\ restored \subseteq restored'
  /\ \A l \in Labels : hung[l] # "never" => hung'[l] # "never"
  /\ status' = "none" => status = "none"
  /\ plan' = "in_execution" =>
       status = "none" \/ (plan = "in_execution" /\ UNCHANGED sequence)

LEMMA SoundStays ==
  ASSUME NEW q, Sound(q), Grows
  PROVE  Sound(q)'
<1>1. CASE status = "none"
  BY <1>1 DEF Sound, Grows
<1>2. CASE status # "none"
  <2>1. plan' = "in_execution" => /\ plan = "in_execution" /\ Sequenced' = Sequenced
                                  /\ \A p : Predecessors(p)' = Predecessors(p)
    BY <1>2 DEF Grows, Sequenced, Predecessors
  <2>2. QED
    BY <1>2, <2>1 DEF Sound, Grows
<1>3. QED
  BY <1>1, <1>2

(* A step of a request keeps the invariant if the rows keep theirs and the
   request becomes a sound one. *)
LEMMA RequestStep ==
  ASSUME Inductive, NEW r \in Requests, Grows, Rows',
         \E q \in Request : Sound(q)' /\ req' = [req EXCEPT ![r] = q]
  PROVE  Inductive'
<1>1. PICK q \in Request : Sound(q)' /\ req' = [req EXCEPT ![r] = q]
  OBVIOUS
<1>2. req' \in [Requests -> Request]
  BY <1>1, Parts
<1>3. ASSUME NEW x \in Requests PROVE Sound(req[x])'
  <2>1. CASE x = r
    <3>1. req'[x] = q
      BY <1>1, <2>1, Parts
    <3>2. QED
      BY <1>1, <3>1 DEF Sound
  <2>2. CASE x # r
    <3>1. PICK y : y = req[x]
      OBVIOUS
    <3>2. Sound(y)
      BY <3>1, Parts
    <3>3. Sound(y)'
      BY <3>2, SoundStays
    <3>4. req'[x] = y
      BY <1>1, <2>2, <3>1, Parts
    <3>5. QED
      BY <3>3, <3>4 DEF Sound
  <2>3. QED
    BY <2>1, <2>2
<1>4. QED
  BY <1>2, <1>3, WholeAfter

LEMMA SameRows ==
  ASSUME Inductive, UNCHANGED <<planVars, isolationVars, restorationVars>>
  PROVE  Grows /\ Rows'
<1> USE Parts DEF planVars, isolationVars, restorationVars
<1>1. Grows
  BY DEF Grows, EverLocked, Rows, Stages
<1>2. RowTypes' /\ Stages'
  BY DEF Rows, RowTypes, PlanTypeOK, IsolationTypeOK, Stages, NoEarlyUnwinding, StampsLead
<1>3. EvidenceChain' /\ LockOrder'
  BY DEF Rows, EvidenceChain, LockOrder, EverLocked, Sequenced, Predecessors
<1>4. QED
  BY <1>1, <1>2, <1>3 DEF Rows

-----------------------------------------------------------------------------
(* Steps that read or check, and change the request alone. *)

LEMMA OrdersGrow ==
  ASSUME NEW S, S \subseteq Points
  PROVE  Orders(S) \subseteq Orders(Points)
BY DEF Orders, Steps

(* A request that begins or goes on without a change of the rows. *)
LEMMA ReadStep ==
  ASSUME Inductive, NEW r \in Requests,
         UNCHANGED <<planVars, isolationVars, restorationVars>>,
         \E q \in Request : Sound(q) /\ req' = [req EXCEPT ![r] = q]
  PROVE  Inductive'
<1>1. Grows /\ Rows'
  BY SameRows
<1>2. PICK q \in Request : Sound(q) /\ req' = [req EXCEPT ![r] = q]
  OBVIOUS
<1>3. Sound(q)'
  BY <1>1, <1>2, SoundStays
<1>4. QED
  BY <1>1, <1>2, <1>3, RequestStep

LEMMA Begins ==
  ASSUME Inductive, NEW r \in Requests, NEW op, NEW arg \in Args \cup Labels, Begin(r, op, arg),
         UNCHANGED <<planVars, isolationVars, restorationVars>>,
         Sound([op |-> op, pc |-> "begun", arg |-> arg])
  PROVE  Inductive'
<1>1. [op |-> op, pc |-> "begun", arg |-> arg] \in Request
  BY DEF Begin, Request
<1>2. QED
  BY <1>1, ReadStep DEF Begin

LEMMA GoesOn ==
  ASSUME Inductive, NEW r \in Requests, NEW op, NEW from,
         NEW to \in {"checked", "rows", "archive"}, Pass(r, op, from, to)
  PROVE  \E q \in Request : /\ q.op = op /\ q.pc = to /\ q.arg = req[r].arg /\ req[r].op = op
                            /\ req' = [req EXCEPT ![r] = q]
<1>1. req[r] \in Request /\ req[r].op = op
  BY Parts DEF Pass, At
<1>2. [req[r] EXCEPT !.pc = to] \in Request
  BY <1>1 DEF Request
<1>3. WITNESS [req[r] EXCEPT !.pc = to] \in Request
<1>4. QED
  BY <1>1, Parts DEF Pass, Request

LEMMA Ends ==
  ASSUME Inductive, NEW r \in Requests, NEW op, NEW from, Finish(r, op, from)
  PROVE  /\ \E q \in Request : Sound(q)' /\ req' = [req EXCEPT ![r] = q]
         /\ req[r] \in Request /\ Sound(req[r])
         /\ req[r].op = op /\ req[r].pc = from
BY Parts, IdleSound DEF Finish, At

-----------------------------------------------------------------------------
(* Planning *)

LEMMA PlanReads ==
  ASSUME Inductive, NEW r \in Requests, AddPointRead(r) \/ ConfigureRead(r),
         UNCHANGED <<planVars, isolationVars, restorationVars>>
  PROVE  Inductive'
<1>1. CASE AddPointRead(r)
  <2>1. PICK p \in Points \ points : Begin(r, "addPoint", p)
    BY <1>1 DEF AddPointRead
  <2>2. Sound([op |-> "addPoint", pc |-> "begun", arg |-> p])
    BY DEF Sound
  <2>3. QED
    BY <2>1, <2>2, Begins DEF Args
<1>2. CASE ConfigureRead(r)
  <2>1. PICK s \in Orders(points) : Begin(r, "configure", s)
    BY <1>2 DEF ConfigureRead
  <2>2. s \in Orders(Points)
    BY OrdersGrow, Parts DEF Rows, RowTypes, PlanTypeOK
  <2>3. Sound([op |-> "configure", pc |-> "begun", arg |-> s])
    BY <2>2 DEF Sound
  <2>4. QED
    BY <2>1, <2>2, <2>3, Begins DEF Args
<1>3. QED
  BY <1>1, <1>2

LEMMA AddPointStep ==
  ASSUME Inductive, NEW r \in Requests, AddPointInsert(r),
         UNCHANGED <<plan, sequence, configurations, deleted, isolationVars, restorationVars>>
  PROVE  Inductive'
<1> USE Parts DEF isolationVars, restorationVars
<1>1. /\ \E q \in Request : Sound(q)' /\ req' = [req EXCEPT ![r] = q]
      /\ req[r].arg \in Points
  BY Ends DEF AddPointInsert, Sound
<1>2. RowTypes' /\ Stages'
  BY <1>1 DEF AddPointInsert, Rows, RowTypes, PlanTypeOK, IsolationTypeOK, Stages,
              NoEarlyUnwinding, StampsLead
<1>3. EvidenceChain' /\ LockOrder' /\ Grows
  BY DEF Rows, EvidenceChain, LockOrder, EverLocked, Sequenced, Predecessors, Grows, Stages
<1>4. QED
  BY <1>1, <1>2, <1>3, RequestStep DEF Rows

LEMMA ConfigureRowsStep ==
  ASSUME Inductive, NEW r \in Requests, ConfigureRows(r),
         UNCHANGED <<plan, points, sequence, configurations, isolationVars, restorationVars>>
  PROVE  Inductive'
<1> USE Parts DEF isolationVars, restorationVars
<1>1. PICK q \in Request : /\ q.op = "configure" /\ q.arg = req[r].arg /\ req[r].op = "configure"
                           /\ req' = [req EXCEPT ![r] = q]
  BY GoesOn DEF ConfigureRows
<1>2. RowTypes' /\ Stages'
  <2>1. deleted' \in [Requests -> SUBSET Numbers]
    BY DEF ConfigureRows, Rows, RowTypes, PlanTypeOK, Steps
  <2>2. UNCHANGED plan
    OBVIOUS
  <2>3. QED
    BY <2>1, <2>2 DEF Rows, RowTypes, PlanTypeOK, IsolationTypeOK, Stages, NoEarlyUnwinding,
                      StampsLead
<1>3. EvidenceChain' /\ LockOrder' /\ Grows
  BY DEF Rows, EvidenceChain, LockOrder, EverLocked, Sequenced, Predecessors, Grows, Stages
<1>4. Sound(q)'
  BY <1>1 DEF Sound
<1>5. QED
  BY <1>1, <1>2, <1>3, <1>4, RequestStep DEF Rows

(* The plan is set back to ready: nothing is asked of it any more. *)
LEMMA ConfigureCommitStep ==
  ASSUME Inductive, NEW r \in Requests, ConfigureCommit(r),
         UNCHANGED <<points, isolationVars, restorationVars>>
  PROVE  Inductive'
<1> USE Parts DEF isolationVars, restorationVars
<1>1. /\ \E q \in Request : Sound(q)' /\ req' = [req EXCEPT ![r] = q]
      /\ req[r].arg \in Orders(Points)
  BY Ends DEF ConfigureCommit, Sound
<1>2. /\ plan' = "ready" /\ configurations' \in 0..MaxConfigurations
      /\ deleted' \in [Requests -> SUBSET Numbers]
      /\ sequence' \in Steps(Points)
  <2>1. plan' = "ready" /\ configurations' \in 0..MaxConfigurations
        /\ deleted' \in [Requests -> SUBSET Numbers]
    BY PlanAssumption DEF ConfigureCommit, PlanReady, Rows, RowTypes, PlanTypeOK
  <2>2. req[r].arg \in Steps(Points) /\ sequence \in Steps(Points)
    BY <1>1 DEF Orders, Rows, RowTypes, PlanTypeOK
  <2>3. PICK D \in SUBSET Numbers : req[r].arg \in [D -> Points]
    BY <2>2 DEF Steps
  <2>4. PICK E \in SUBSET Numbers : sequence \in [E -> Points]
    BY <2>2 DEF Steps
  <2>5. PICK F \in SUBSET Numbers : Kept(r) \in [F -> Points]
    <3>1. Kept(r) \in [E \ deleted[r] -> Points]
      BY <2>4 DEF Kept, Restrict
    <3>2. QED
      BY <3>1
  <2>6. sequence' \in [D \cup F -> Points]
    BY <2>3, <2>5 DEF ConfigureCommit
  <2>7. QED
    BY <2>1, <2>6 DEF Steps
<1>3. RowTypes' /\ Stages'
  BY <1>1, <1>2 DEF Rows, RowTypes, PlanTypeOK, IsolationTypeOK, Stages, NoEarlyUnwinding, StampsLead
<1>4. EvidenceChain' /\ LockOrder' /\ Grows
  BY <1>2 DEF EvidenceChain, LockOrder, EverLocked, Grows
<1>5. QED
  BY <1>1, <1>3, <1>4, RequestStep DEF Rows

LEMMA FailStep ==
  ASSUME Inductive, NEW r \in Requests, Fail(r),
         UNCHANGED <<plan, points, sequence, configurations, isolationVars, restorationVars>>
  PROVE  Inductive'
<1> USE Parts DEF isolationVars, restorationVars
<1>1. RowTypes' /\ Stages'
  BY DEF Fail, Rows, RowTypes, PlanTypeOK, IsolationTypeOK, Stages, NoEarlyUnwinding, StampsLead
<1>2. EvidenceChain' /\ LockOrder' /\ Grows
  BY DEF Rows, EvidenceChain, LockOrder, EverLocked, Sequenced, Predecessors, Grows, Stages
<1>3. QED
  BY <1>1, <1>2, IdleSound, RequestStep DEF Fail, Rows

-----------------------------------------------------------------------------
(* Isolation *)

LEMMA EverLockedFacts ==
  /\ Locked \subseteq EverLocked
  /\ \A l \in Locks : hung[l] # "never" => PointOf[l] \in EverLocked
BY DEF Locked, EverLocked

LEMMA LabelReads ==
  ASSUME Inductive, NEW r \in Requests, NEW labels \in SUBSET Labels,
         HangRead(r, labels) \/ TakeDownRead(r, labels) \/ RemoveRead(r, labels),
         UNCHANGED <<planVars, isolationVars, restorationVars>>
  PROVE  Inductive'
<1>1. CASE HangRead(r, labels)
  <2>1. status = "in_progress" /\ \E l \in labels : Begin(r, "hang", l)
    BY <1>1 DEF HangRead
  <2>2. PICK l \in labels : Begin(r, "hang", l)
    BY <2>1
  <2>3. Sound([op |-> "hang", pc |-> "begun", arg |-> l])
    BY <2>1 DEF Sound
  <2>4. QED
    BY <2>2, <2>3, Begins
<1>2. CASE TakeDownRead(r, labels)
  <2>1. PICK l \in labels : hung[l] = "applied" /\ Begin(r, "takeDown", l)
    BY <1>2 DEF TakeDownRead
  <2>2. Sound([op |-> "takeDown", pc |-> "begun", arg |-> l])
    BY <2>1, Parts DEF Sound, Rows, Stages
  <2>3. QED
    BY <2>1, <2>2, Begins
<1>3. CASE RemoveRead(r, labels)
  <2>1. status = "verified" /\ \E l \in labels : Begin(r, "unlock", l)
    BY <1>3 DEF RemoveRead, Restorable
  <2>2. PICK l \in labels : Begin(r, "unlock", l)
    BY <2>1
  <2>3. Sound([op |-> "unlock", pc |-> "begun", arg |-> l])
    BY <2>1, Parts DEF Sound, Rows, Stages, StampsLead
  <2>4. QED
    BY <2>2, <2>3, Begins
<1>4. QED
  BY <1>1, <1>2, <1>3

LEMMA IsolationReads ==
  ASSUME Inductive, NEW r \in Requests,
         StartRead(r) \/ VerifyRead(r) \/ MarkIsolatedRead(r) \/ MarkVerifiedRead(r),
         UNCHANGED <<planVars, isolationVars, restorationVars>>
  PROVE  Inductive'
<1> USE DEF Sound
<1>1. CASE StartRead(r)
  BY <1>1, Begins DEF StartRead, Args
<1>2. CASE VerifyRead(r)
  <2>1. status # "none" /\ \E p \in points : Begin(r, "verify", p)
    BY <1>2 DEF VerifyRead
  <2>2. points \subseteq Points
    BY Parts DEF Rows, RowTypes, PlanTypeOK
  <2>3. QED
    BY <2>1, <2>2, Begins DEF Args
<1>3. CASE MarkIsolatedRead(r)
  BY <1>3, Begins DEF MarkIsolatedRead, Args
<1>4. CASE MarkVerifiedRead(r)
  <2>1. "isolated" \in stamps
    BY <1>4, Parts DEF MarkVerifiedRead, Rows, Stages, StampsLead
  <2>2. QED
    BY <1>4, <2>1, Begins DEF MarkVerifiedRead, Args
<1>5. QED
  BY <1>1, <1>2, <1>3, <1>4

(* What a check finds locked stays among the points that ever were. *)
LEMMA IsolationChecks ==
  ASSUME Inductive, NEW r \in Requests,
         LockCheck(r) \/ TagCheck(r) \/ VerifyCheck(r) \/ MarkIsolatedCheck(r) \/ MarkVerifiedCheck(r),
         UNCHANGED <<planVars, isolationVars, restorationVars>>
  PROVE  Inductive'
<1> USE DEF Sound
<1>1. Sound(req[r]) /\ "checked" \in {"checked", "rows", "archive"}
  BY Parts
<1>2. CASE LockCheck(r) \/ TagCheck(r)
  <2>1. PICK q \in Request : /\ q.op = "hang" /\ q.pc = "checked" /\ q.arg = req[r].arg
                             /\ req[r].op = "hang" /\ req' = [req EXCEPT ![r] = q]
    BY <1>1, <1>2, GoesOn DEF LockCheck, TagCheck, HangCheck
  <2>2. q.arg \in Locks => Predecessors(PointOf[q.arg]) \subseteq EverLocked
    BY <1>2, <2>1, IsolationAssumption, EverLockedFacts
       DEF LockCheck, TagCheck, HangCheck, SequenceRespected, IsolationAssumption
  <2>3. QED
    BY <1>1, <2>1, <2>2, ReadStep
<1>3. CASE VerifyCheck(r)
  <2>1. PICK q \in Request : /\ q.op = "verify" /\ q.pc = "checked" /\ q.arg = req[r].arg
                             /\ req[r].op = "verify" /\ req' = [req EXCEPT ![r] = q]
    BY <1>1, <1>3, GoesOn DEF VerifyCheck
  <2>2. q.arg \in EverLocked
    BY <1>3, <2>1, EverLockedFacts DEF VerifyCheck
  <2>3. QED
    BY <1>1, <2>1, <2>2, ReadStep
<1>4. CASE MarkIsolatedCheck(r)
  <2>1. PICK q \in Request : /\ q.op = "isolate" /\ q.pc = "checked" /\ q.arg = req[r].arg
                             /\ req[r].op = "isolate" /\ req' = [req EXCEPT ![r] = q]
    BY <1>1, <1>4, GoesOn DEF MarkIsolatedCheck
  <2>2. Sequenced \subseteq EverLocked
    BY <1>4, EverLockedFacts DEF MarkIsolatedCheck, AllPointsLocked
  <2>3. QED
    BY <1>1, <2>1, <2>2, ReadStep
<1>5. CASE MarkVerifiedCheck(r)
  <2>1. PICK q \in Request : /\ q.op = "markVerified" /\ q.pc = "checked" /\ q.arg = req[r].arg
                             /\ req[r].op = "markVerified" /\ req' = [req EXCEPT ![r] = q]
    BY <1>1, <1>5, GoesOn DEF MarkVerifiedCheck
  <2>2. Sequenced \cap Requires \subseteq passed
    BY <1>5 DEF MarkVerifiedCheck, AllPointsVerified
  <2>3. QED
    BY <1>1, <2>1, <2>2, ReadStep
<1>6. QED
  BY <1>2, <1>3, <1>4, <1>5

LEMMA StartStep ==
  ASSUME Inductive, NEW r \in Requests, StartCommit(r),
         UNCHANGED <<points, sequence, configurations, deleted, stamps, hung, passed, restorationVars>>
  PROVE  Inductive'
<1> USE Parts DEF restorationVars
<1>1. \E q \in Request : Sound(q)' /\ req' = [req EXCEPT ![r] = q]
  BY Ends DEF StartCommit
<1>2. /\ status = "none" /\ status' = "in_progress" /\ plan' = "in_execution"
      /\ stamps = {} /\ passed = {}
  BY DEF StartCommit, Rows, Stages
<1>3. RowTypes' /\ Stages'
  BY <1>2 DEF Rows, RowTypes, PlanTypeOK, IsolationTypeOK, Stages, NoEarlyUnwinding, StampsLead
<1>4. EverLocked' = {}
  BY <1>2 DEF Rows, Stages, EverLocked, Labels
<1>5. EvidenceChain' /\ LockOrder'
  BY <1>2, <1>4 DEF EvidenceChain, LockOrder
<1>6. Grows
  BY <1>2 DEF Grows, EverLocked
<1>7. QED
  BY <1>1, <1>3, <1>5, <1>6, RequestStep DEF Rows

(* Whatever is hung makes its predecessors no less locked. *)
LEMMA HangStep ==
  ASSUME Inductive, NEW r \in Requests, NEW labels \in SUBSET Labels, HangInsert(r, labels),
         UNCHANGED <<planVars, status, stamps, passed, restorationVars>>
  PROVE  Inductive'
<1> USE Parts DEF planVars, restorationVars
<1> DEFINE l == req[r].arg
<1>1. /\ \E q \in Request : Sound(q)' /\ req' = [req EXCEPT ![r] = q]
      /\ Sound(req[r]) /\ req[r].op = "hang" /\ req[r].pc = "checked"
  BY Ends DEF HangInsert
<1>2. l \in Labels /\ hung' = [hung EXCEPT ![l] = "applied"]
  BY DEF HangInsert
<1>3. status # "none"
  BY <1>1 DEF Sound
<1>4. l \in Locks /\ plan = "in_execution" => Predecessors(PointOf[l]) \subseteq EverLocked
  BY <1>1 DEF Sound
<1> HIDE DEF l
<1>5. /\ EverLocked \subseteq EverLocked'
      /\ EverLocked' \subseteq EverLocked \cup {PointOf[k] : k \in {l} \cap Locks}
  BY <1>2 DEF EverLocked, Rows, RowTypes, IsolationTypeOK, Labels
<1>6. RowTypes' /\ Stages' /\ Grows
  BY <1>2, <1>3, <1>5 DEF Rows, RowTypes, PlanTypeOK, IsolationTypeOK, Stages, NoEarlyUnwinding,
                          StampsLead, Grows
<1>7. EvidenceChain'
  BY <1>5 DEF Rows, EvidenceChain, Sequenced
<1>8. LockOrder'
  <2>1. \A p : Predecessors(p)' = Predecessors(p)
    BY DEF Predecessors
  <2>2. QED
    BY <1>4, <1>5, <2>1 DEF Rows, LockOrder
<1>9. QED
  BY <1>1, <1>6, <1>7, <1>8, RequestStep DEF Rows

(* A label that is taken down was hung: the points that ever were locked stay. *)
LEMMA TakenDown ==
  ASSUME Inductive, NEW l \in Labels, hung[l] # "never", hung' = [hung EXCEPT ![l] = "removed"],
         UNCHANGED <<planVars, status, stamps, passed, restored, rechecked, archives>>,
         removals' \subseteq removals \cup {l}, removals' # {} => "verified" \in stamps
  PROVE  Grows /\ Rows'
<1> USE Parts DEF planVars
<1>1. \A k \in Labels : hung'[k] # "never" <=> hung[k] # "never"
  BY DEF Rows, RowTypes, IsolationTypeOK
<1>2. EverLocked' = EverLocked
  BY <1>1 DEF EverLocked, Labels
<1>3. status # "none"
  BY DEF Rows, Stages
<1>4. RowTypes' /\ Stages' /\ Grows
  BY <1>1, <1>2, <1>3 DEF Rows, RowTypes, PlanTypeOK, IsolationTypeOK, Stages, NoEarlyUnwinding,
                          StampsLead, Grows
<1>5. EvidenceChain' /\ LockOrder'
  BY <1>2 DEF Rows, EvidenceChain, LockOrder, Sequenced, Predecessors
<1>6. QED
  BY <1>4, <1>5 DEF Rows

LEMMA TakeDownStep ==
  ASSUME Inductive, NEW r \in Requests, NEW labels, TakeDownWrite(r, labels),
         UNCHANGED <<planVars, status, stamps, passed, restorationVars>>
  PROVE  Inductive'
<1>1. /\ \E q \in Request : Sound(q)' /\ req' = [req EXCEPT ![r] = q]
      /\ req[r].arg \in Labels /\ hung[req[r].arg] # "never"
  BY Ends DEF TakeDownWrite, Sound
<1>2. PICK l \in Labels : l = req[r].arg
  BY <1>1
<1>3. /\ hung[l] # "never" /\ hung' = [hung EXCEPT ![l] = "removed"]
      /\ UNCHANGED <<planVars, status, stamps, passed, restored, rechecked, archives>>
      /\ removals' = removals
  BY <1>1, <1>2 DEF TakeDownWrite, restorationVars
<1>4. removals # {} => "verified" \in stamps
  BY Parts DEF Rows, Stages, NoEarlyUnwinding
<1>5. Grows /\ Rows'
  BY <1>3, <1>4, TakenDown
<1>6. QED
  BY <1>1, <1>5, RequestStep

LEMMA VerifyStep ==
  ASSUME Inductive, NEW r \in Requests, VerifyInsert(r),
         UNCHANGED <<planVars, status, stamps, hung, restorationVars>>
  PROVE  Inductive'
<1> USE Parts DEF planVars, restorationVars
<1>1. /\ \E q \in Request : Sound(q)' /\ req' = [req EXCEPT ![r] = q]
      /\ req[r].arg \in Points \cap EverLocked /\ status # "none"
  BY Ends DEF VerifyInsert, Sound
<1>2. passed' = passed \cup {req[r].arg} /\ EverLocked' = EverLocked
  BY DEF VerifyInsert, EverLocked
<1>3. RowTypes' /\ Stages' /\ Grows
  BY <1>1, <1>2 DEF Rows, RowTypes, PlanTypeOK, IsolationTypeOK, Stages, NoEarlyUnwinding,
                    StampsLead, Grows
<1>4. EvidenceChain' /\ LockOrder'
  BY <1>1, <1>2 DEF Rows, EvidenceChain, LockOrder, Sequenced, Predecessors
<1>5. QED
  BY <1>1, <1>3, <1>4, RequestStep DEF Rows

(* A late completion may take the status back, but adds a time stamp that its
   check had the evidence for. *)
LEMMA MarkStep ==
  ASSUME Inductive, NEW r \in Requests, MarkIsolatedWrite(r) \/ MarkVerifiedWrite(r),
         UNCHANGED <<planVars, hung, passed, restorationVars>>
  PROVE  Inductive'
<1> USE Parts DEF planVars, restorationVars
<1>1. /\ \E q \in Request : Sound(q)' /\ req' = [req EXCEPT ![r] = q]
      /\ Sound(req[r]) /\ req[r].pc = "checked"
      /\ MarkIsolatedWrite(r) => req[r].op = "isolate"
      /\ MarkVerifiedWrite(r) => req[r].op = "markVerified"
  BY Ends DEF MarkIsolatedWrite, MarkVerifiedWrite
<1>2. PICK m \in {"isolated", "verified"} :
        /\ status' = m /\ stamps' = stamps \cup {m}
        /\ m = "isolated" /\ plan = "in_execution" => Sequenced \subseteq EverLocked
        /\ m = "verified" => "isolated" \in stamps
        /\ m = "verified" /\ plan = "in_execution" => Sequenced \cap Requires \subseteq passed
  BY <1>1 DEF MarkIsolatedWrite, MarkVerifiedWrite, Sound
<1>3. status # "none"
  BY <1>1 DEF Sound
<1>4. RowTypes' /\ Stages' /\ Grows
  BY <1>2, <1>3 DEF Rows, RowTypes, PlanTypeOK, IsolationTypeOK, Stages, NoEarlyUnwinding,
                    StampsLead, Grows, EverLocked
<1>5. EvidenceChain' /\ LockOrder'
  BY <1>2 DEF Rows, EvidenceChain, LockOrder, Sequenced, Predecessors, EverLocked
<1>6. QED
  BY <1>1, <1>4, <1>5, RequestStep DEF Rows

LEMMA IsolationKeeps ==
  ASSUME Inductive, NEW r \in Requests, IsolationStep(r), UNCHANGED restorationVars
  PROVE  Inductive'
<1>1. Locks \in SUBSET Labels /\ Tags \in SUBSET Labels
  BY DEF Labels
<1>2. CASE /\ LockInsert(r) \/ TagInsert(r)
           /\ UNCHANGED <<planVars, status, stamps, passed>>
  BY <1>1, <1>2, HangStep DEF LockInsert, TagInsert
<1>3. QED
  BY <1>1, <1>2, StartStep, TakeDownStep, VerifyStep, MarkStep, LabelReads, IsolationReads,
     IsolationChecks
     DEF IsolationStep, LockRead, TagRead, LockTakeDownRead,
         LockTakeDownWrite, TagTakeDownRead, TagTakeDownWrite

-----------------------------------------------------------------------------
(* Restoration *)

LEMMA RestorationReads ==
  ASSUME Inductive, NEW r \in Requests, RestoreRead(r) \/ CompleteRead(r) \/ RecheckRead(r),
         UNCHANGED <<planVars, isolationVars, restorationVars>>
  PROVE  Inductive'
<1> USE DEF Sound
<1>1. points \subseteq Points
  BY Parts DEF Rows, RowTypes, PlanTypeOK
<1>2. status = "verified" => "verified" \in stamps
  BY Parts DEF Rows, Stages, StampsLead
<1>3. CASE RestoreRead(r)
  <2>1. status = "verified" /\ \E p \in points : Begin(r, "restore", p)
    BY <1>3 DEF RestoreRead, Restorable
  <2>2. QED
    BY <1>1, <1>2, <2>1, Begins DEF Args
<1>4. CASE CompleteRead(r)
  BY <1>2, <1>4, Begins DEF CompleteRead, Restorable, Args
<1>5. CASE RecheckRead(r)
  <2>1. status # "none" /\ \E p \in points : Begin(r, "recheck", p)
    BY <1>5 DEF RecheckRead
  <2>2. QED
    BY <1>1, <2>1, Begins DEF Args
<1>6. QED
  BY <1>3, <1>4, <1>5

LEMMA RestorationChecks ==
  ASSUME Inductive, NEW r \in Requests, NEW labels \in SUBSET Labels,
         RemoveCheck(r, labels) \/ CompleteCheck(r),
         UNCHANGED <<planVars, isolationVars, restorationVars>>
  PROVE  Inductive'
<1> USE DEF Sound
<1>1. Sound(req[r]) /\ "checked" \in {"checked", "rows", "archive"}
  BY Parts
<1>2. CASE RemoveCheck(r, labels)
  <2>1. PICK q \in Request : /\ q.op = "unlock" /\ q.pc = "checked" /\ q.arg = req[r].arg
                             /\ req[r].op = "unlock" /\ req' = [req EXCEPT ![r] = q]
    BY <1>1, <1>2, GoesOn DEF RemoveCheck
  <2>2. q.arg \in Labels /\ hung[q.arg] # "never"
    BY <1>2, <2>1 DEF RemoveCheck
  <2>3. QED
    BY <1>1, <2>1, <2>2, ReadStep
<1>3. CASE CompleteCheck(r)
  <2>1. PICK q \in Request : /\ q.op = "complete" /\ q.pc = "checked" /\ q.arg = req[r].arg
                             /\ req[r].op = "complete" /\ req' = [req EXCEPT ![r] = q]
    BY <1>1, <1>3, GoesOn DEF CompleteCheck
  <2>2. Sequenced \subseteq restored
    BY <1>3 DEF CompleteCheck, AllPointsRestored
  <2>3. QED
    BY <1>1, <2>1, <2>2, ReadStep
<1>4. QED
  BY <1>2, <1>3

LEMMA RemoveStep ==
  ASSUME Inductive, NEW r \in Requests, NEW labels, RemoveCommit(r, labels),
         UNCHANGED <<planVars, status, stamps, passed, restored, rechecked, archives>>
  PROVE  Inductive'
<1>1. /\ \E q \in Request : Sound(q)' /\ req' = [req EXCEPT ![r] = q]
      /\ req[r].arg \in Labels /\ hung[req[r].arg] # "never" /\ "verified" \in stamps
  BY Ends DEF RemoveCommit, Sound
<1>2. PICK l \in Labels : l = req[r].arg
  BY <1>1
<1>3. /\ hung[l] # "never" /\ hung' = [hung EXCEPT ![l] = "removed"]
      /\ removals' = removals \cup {l}
  BY <1>1, <1>2 DEF RemoveCommit
<1>4. Grows /\ Rows'
  BY <1>1, <1>3, TakenDown
<1>5. QED
  BY <1>1, <1>4, RequestStep

(* Points that were restored or checked again. *)
LEMMA PointStep ==
  ASSUME Inductive, NEW r \in Requests,
         \/ /\ RestoreCommit(r)
            /\ UNCHANGED <<planVars, isolationVars, removals, rechecked, archives>>
         \/ /\ RecheckInsert(r)
            /\ UNCHANGED <<planVars, isolationVars, removals, restored, archives>>
  PROVE  Inductive'
<1> USE Parts DEF planVars, isolationVars
<1>1. /\ \E q \in Request : Sound(q)' /\ req' = [req EXCEPT ![r] = q]
      /\ req[r].arg \in Points
      /\ RestoreCommit(r) => "verified" \in stamps
  BY Ends DEF RestoreCommit, RecheckInsert, Sound
<1>2. /\ restored \subseteq restored' /\ restored' \subseteq restored \cup {req[r].arg}
      /\ restored' = restored \/ "verified" \in stamps
      /\ rechecked' \subseteq rechecked \cup {req[r].arg}
      /\ UNCHANGED <<planVars, isolationVars, removals, archives>>
  BY <1>1 DEF RestoreCommit, RecheckInsert
<1>3. RowTypes' /\ Stages' /\ Grows
  BY <1>1, <1>2 DEF EverLocked, Rows, RowTypes, PlanTypeOK, IsolationTypeOK, Stages, NoEarlyUnwinding,
                    StampsLead, Grows
<1>4. EvidenceChain' /\ LockOrder'
  BY <1>2 DEF Rows, EvidenceChain, LockOrder, Sequenced, Predecessors, EverLocked
<1>5. QED
  BY <1>1, <1>3, <1>4, RequestStep DEF Rows

LEMMA CompleteStep ==
  ASSUME Inductive, NEW r \in Requests, CompleteCommit(r),
         UNCHANGED <<planVars, hung, passed, restorationVars>>
  PROVE  Inductive'
<1> USE Parts DEF planVars, restorationVars
<1>1. PICK q \in Request : /\ q.op = "complete" /\ q.pc = "archive" /\ q.arg = req[r].arg
                           /\ req[r].op = "complete" /\ req' = [req EXCEPT ![r] = q]
  BY GoesOn DEF CompleteCommit
<1>2. req[r].pc = "checked" /\ Sound(req[r])
  BY DEF CompleteCommit, Pass, At
<1>3. /\ status' = "restored" /\ stamps' = stamps \cup {"restored"}
      /\ "verified" \in stamps /\ status # "none"
      /\ plan = "in_execution" => Sequenced \subseteq restored
  BY <1>1, <1>2 DEF CompleteCommit, Sound
<1>4. RowTypes' /\ Stages' /\ Grows
  BY <1>3 DEF Rows, RowTypes, PlanTypeOK, IsolationTypeOK, Stages, NoEarlyUnwinding,
              StampsLead, Grows, EverLocked
<1>5. EvidenceChain' /\ LockOrder'
  BY <1>3 DEF Rows, EvidenceChain, LockOrder, Sequenced, Predecessors, EverLocked
<1>6. Sound(q)'
  BY <1>1, <1>3 DEF Sound
<1>7. QED
  BY <1>1, <1>4, <1>5, <1>6, RequestStep DEF Rows

LEMMA ArchiveStep ==
  ASSUME Inductive, NEW r \in Requests, Archive(r),
         UNCHANGED <<planVars, isolationVars, removals, restored, rechecked>>
  PROVE  Inductive'
<1> USE Parts DEF planVars, isolationVars
<1>1. \E q \in Request : Sound(q)' /\ req' = [req EXCEPT ![r] = q]
  BY Ends DEF Archive
<1>2. archives' \in 0..MaxArchives
  BY ArchiveAssumption DEF Archive, Rows, RowTypes
<1>3. RowTypes' /\ Stages' /\ Grows
  BY <1>2 DEF Rows, RowTypes, PlanTypeOK, IsolationTypeOK, Stages, NoEarlyUnwinding,
              StampsLead, Grows, EverLocked
<1>4. EvidenceChain' /\ LockOrder'
  BY DEF Rows, EvidenceChain, LockOrder, Sequenced, Predecessors, EverLocked
<1>5. QED
  BY <1>1, <1>3, <1>4, RequestStep DEF Rows

LEMMA RestorationKeeps ==
  ASSUME Inductive, NEW r \in Requests, RestorationStep(r)
  PROVE  Inductive'
<1>1. Locks \in SUBSET Labels /\ Tags \in SUBSET Labels
  BY DEF Labels
<1>2. CASE /\ UNCHANGED <<planVars, isolationVars, restorationVars>>
           /\ \/ RemoveLockRead(r) \/ RemoveLockCheck(r)
              \/ RemoveTagRead(r) \/ RemoveTagCheck(r) \/ RestoreRead(r)
              \/ CompleteRead(r) \/ CompleteCheck(r) \/ RecheckRead(r)
  BY <1>1, <1>2, LabelReads, RestorationReads, RestorationChecks
     DEF RemoveLockRead, RemoveLockCheck, RemoveTagRead, RemoveTagCheck
<1>3. QED
  BY <1>2, RemoveStep, PointStep, CompleteStep, ArchiveStep
     DEF RestorationStep, RemoveLockCommit, RemoveTagCommit

-----------------------------------------------------------------------------

LEMMA PlanKeeps ==
  ASSUME Inductive, NEW r \in Requests, PlanStep(r), UNCHANGED <<isolationVars, restorationVars>>
  PROVE  Inductive'
<1>1. CASE (AddPointRead(r) \/ ConfigureRead(r)) /\ UNCHANGED planVars
  BY <1>1, PlanReads
<1>2. CASE AddPointInsert(r) /\ UNCHANGED <<plan, sequence, configurations, deleted>>
  BY <1>2, AddPointStep
<1>3. CASE ConfigureRows(r) /\ UNCHANGED <<plan, points, sequence, configurations>>
  BY <1>3, ConfigureRowsStep
<1>4. CASE ConfigureCommit(r) /\ UNCHANGED points
  BY <1>4, ConfigureCommitStep
<1>5. CASE Fail(r) /\ UNCHANGED <<plan, points, sequence, configurations>>
  BY <1>5, FailStep
<1>6. QED
  BY <1>1, <1>2, <1>3, <1>4, <1>5 DEF PlanStep

LEMMA InitInductive == Init => Inductive
<1> SUFFICES ASSUME Init PROVE Inductive
  OBVIOUS
<1> USE DEF Init, PlanInit, IsolationInit
<1>1. req \in [Requests -> Request] /\ \A r \in Requests : Sound(req[r])
  BY IdleSound
<1>2. RowTypes
  <2>1. sequence \in [{} -> Points]
    OBVIOUS
  <2>2. sequence \in Steps(Points)
    BY <2>1 DEF Steps
  <2>3. QED
    BY <2>2, PlanAssumption, ArchiveAssumption DEF RowTypes, PlanTypeOK, IsolationTypeOK
<1>3. Stages /\ EvidenceChain /\ LockOrder
  BY DEF Stages, NoEarlyUnwinding, StampsLead, EvidenceChain, LockOrder
<1>4. QED
  BY <1>1, <1>2, <1>3, Parts DEF Rows

LEMMA StutterInductive == ASSUME Inductive, UNCHANGED vars PROVE Inductive'
<1>1. UNCHANGED req /\ Rows' /\ Grows
  BY SameRows DEF vars
<1>2. ASSUME NEW r \in Requests PROVE Sound(req[r])'
  <2>1. PICK y : y = req[r]
    OBVIOUS
  <2>2. Sound(y)'
    BY <1>1, <2>1, Parts, SoundStays
  <2>3. QED
    BY <1>1, <2>1, <2>2 DEF Sound
<1>3. QED
  BY <1>1, <1>2, Parts, WholeAfter

LEMMA StepInductive == Inductive /\ [Next]_vars => Inductive'
BY PlanKeeps, IsolationKeeps, RestorationKeeps, StutterInductive DEF Next

(* The invariant of the procedure, types included. *)
THEOREM InductiveHolds == Spec => []Inductive
<1>1. Init => Inductive
  BY InitInductive
<1>2. Inductive /\ [Next]_vars => Inductive'
  BY StepInductive
<1>3. QED
  BY <1>1, <1>2, PTL DEF Spec

(* Every stage on record has its evidence, for any equipment and any number of
   requests that overlap: locks for the isolation, passed verifications for the
   verification, restorations for the end. *)
THEOREM EvidenceHolds == Spec => []EvidenceChain
<1>1. Inductive => EvidenceChain
  BY DEF Inductive
<1>2. QED
  BY <1>1, InductiveHolds, PTL

(* Locks go on in the order of the sequence, though the check and the insert of
   a lock are two steps and locks come off again. *)
THEOREM LocksInOrder == Spec => []LockOrder
<1>1. Inductive => LockOrder
  BY DEF Inductive
<1>2. QED
  BY <1>1, InductiveHolds, PTL

(* Nothing is restored before the verification is on record. *)
THEOREM RestorationWaits == Spec => []NoEarlyUnwinding
<1>1. Inductive => NoEarlyUnwinding
  BY DEF Inductive
<1>2. QED
  BY <1>1, InductiveHolds, PTL

-----------------------------------------------------------------------------
(* Configurations that overlap *)

(* What a transaction deleted and inserted stays apart from the rest for as long
   as the sequence stays and no other transaction joins. *)
LEMMA ApartStays ==
  ASSUME ConfigurationsApart, UNCHANGED sequence,
         \A q \in Configuring' :
            q \in Configuring /\ req'[q].arg = req[q].arg /\ deleted'[q] = deleted[q]
  PROVE  ConfigurationsApart'
BY DEF ConfigurationsApart, StepsAreUnique, Configuring, Kept

(* Every step but those of a configuration leaves the sequence alone, and its
   request outside a transaction of that kind. *)
LEMMA OtherSteps ==
  ASSUME Inductive, NEW r \in Requests,
         \/ AddPointRead(r) \/ ConfigureRead(r) \/ Fail(r)
         \/ AddPointInsert(r) /\ UNCHANGED deleted
         \/ IsolationStep(r) \/ RestorationStep(r),
         (AddPointRead(r) \/ ConfigureRead(r)) => UNCHANGED deleted,
         UNCHANGED sequence
  PROVE  \A q \in Configuring' :
            q \in Configuring /\ req'[q].arg = req[q].arg /\ deleted'[q] = deleted[q]
<1>1. req \in [Requests -> Request] /\ deleted \in [Requests -> SUBSET Numbers]
  BY Parts DEF Rows, RowTypes, PlanTypeOK
<1>2. \A q \in Requests : q # r => deleted'[q] = deleted[q]
  <2>1. CASE Fail(r)
    BY <1>1, <2>1 DEF Fail
  <2>2. CASE ~Fail(r)
    BY <2>2 DEF IsolationStep, RestorationStep, planVars
  <2>3. QED
    BY <2>1, <2>2
<1>3. (\A q \in Requests : q # r => req'[q] = req[q]) /\ ~(req'[r].op = "configure" /\ req'[r].pc = "rows")
  <2>1. CASE AddPointRead(r) \/ ConfigureRead(r) \/ Fail(r) \/ AddPointInsert(r)
    BY <1>1, <2>1 DEF AddPointRead, ConfigureRead, Fail, AddPointInsert, Begin, Finish, Idle
  <2>2. CASE IsolationStep(r)
    BY <1>1, <2>2 DEF IsolationStep, StartCommit, LockInsert, LockTakeDownWrite, TagInsert,
         TagTakeDownWrite, HangInsert, TakeDownWrite, VerifyInsert, MarkIsolatedWrite,
         MarkVerifiedWrite, StartRead, LockRead, TagRead, HangRead, LockCheck, TagCheck, HangCheck,
         LockTakeDownRead, TagTakeDownRead, TakeDownRead, VerifyRead, VerifyCheck,
         MarkIsolatedRead, MarkIsolatedCheck, MarkVerifiedRead, MarkVerifiedCheck,
         Begin, Pass, Finish, Idle, Request
  <2>3. CASE RestorationStep(r)
    BY <1>1, <2>3 DEF RestorationStep, RemoveLockCommit, RemoveTagCommit, RemoveCommit,
         RestoreCommit, CompleteCommit, Archive, RecheckInsert, RemoveLockRead, RemoveTagRead,
         RemoveRead, RemoveLockCheck, RemoveTagCheck, RemoveCheck, RestoreRead, CompleteRead,
         CompleteCheck, RecheckRead, Begin, Pass, Finish, Idle, Request
  <2>4. QED
    BY <2>1, <2>2, <2>3
<1>4. QED
  BY <1>2, <1>3 DEF Configuring, At

(* A transaction that begins leaves no row standing, and collides with none of
   those that are open. *)
LEMMA RowsApart ==
  ASSUME Inductive, ConfigurationsApart, NEW r \in Requests, ConfigureRows(r),
         UNCHANGED sequence
  PROVE  ConfigurationsApart'
<1>1. /\ req'[r].arg = req[r].arg
      /\ \A q \in Requests : q # r => req'[q] = req[q]
      /\ \A q \in Configuring : q # r
  BY Parts DEF ConfigureRows, Pass, Request, Configuring, At
<1>2. Configuring' \subseteq Configuring \cup {r}
  BY <1>1 DEF Configuring, At
<1>3. deleted'[r] = DOMAIN sequence /\ \A q \in Requests : q # r => deleted'[q] = deleted[q]
  BY Parts DEF ConfigureRows, Rows, RowTypes, PlanTypeOK
<1>4. ~Collide(req[r].arg, Kept(r)')
  BY <1>3 DEF Kept, Restrict, Collide, Range
<1>5. ASSUME NEW q \in Configuring, q # r
      PROVE  /\ ~Collide(req[q].arg, Kept(q)')
             /\ ~Collide(req[q].arg, req[r].arg) /\ ~Collide(req[r].arg, req[q].arg)
  <2>1. Kept(q)' = Kept(q)
    BY <1>3, <1>5 DEF Kept, Configuring
  <2>2. QED
    BY <2>1 DEF ConfigurationsApart, ConfigureRows, Collide
<1>6. StepsAreUnique'
  BY DEF ConfigurationsApart, StepsAreUnique
<1>7. ASSUME NEW x \in Configuring'
      PROVE  /\ ~Collide(req[x].arg, Kept(x))'
             /\ \A q \in (Configuring \ {x})' : ~Collide(req[x].arg, req[q].arg)'
  BY <1>1, <1>2, <1>4, <1>5, <1>7 DEF ConfigurationsApart, Configuring
<1>8. QED
  BY <1>6, <1>7 DEF ConfigurationsApart

(* The commit: the new rows collide with none of those kept, and what others have
   inserted collides with neither. *)
LEMMA CommitApart ==
  ASSUME Inductive, ConfigurationsApart, NEW r \in Requests, ConfigureCommit(r)
  PROVE  ConfigurationsApart'
<1> DEFINE s == req[r].arg
           k == Kept(r)
<1>1. /\ r \in Configuring /\ r \notin Configuring'
      /\ \A q \in Requests : q # r => req'[q] = req[q]
      /\ s \in Orders(Points)
  BY Parts DEF ConfigureCommit, Finish, Configuring, At, Idle, Sound
<1>2. /\ DOMAIN sequence' = DOMAIN s \cup DOMAIN k
      /\ \A n \in DOMAIN s : sequence'[n] = s[n]
      /\ \A n \in DOMAIN k : n \notin DOMAIN s => sequence'[n] = k[n]
  BY DEF ConfigureCommit
<1>3. DOMAIN k = DOMAIN sequence \ deleted[r] /\ \A n \in DOMAIN k : k[n] = sequence[n]
  BY DEF Kept, Restrict
<1>4. ~Collide(s, k) /\ IsInjective(sequence)
  BY <1>1 DEF ConfigurationsApart, StepsAreUnique
<1>5. IsInjective(s)
  BY <1>1 DEF Orders
<1>6. \A n \in DOMAIN k : n \notin DOMAIN s /\ sequence'[n] = sequence[n]
  BY <1>2, <1>3, <1>4 DEF Collide
<1>7. StepsAreUnique'
  <2> SUFFICES ASSUME NEW a \in DOMAIN sequence', NEW b \in DOMAIN sequence',
                      sequence'[a] = sequence'[b]
               PROVE  a = b
    BY DEF StepsAreUnique, IsInjective
  <2>1. CASE a \in DOMAIN s /\ b \in DOMAIN s
    BY <1>2, <1>5, <2>1 DEF IsInjective
  <2>2. CASE a \in DOMAIN k /\ b \in DOMAIN k
    BY <1>3, <1>4, <1>6, <2>2 DEF IsInjective
  <2>3. ASSUME NEW m \in DOMAIN s, NEW n \in DOMAIN k PROVE s[m] # k[n]
    BY <1>4, <2>3 DEF Collide, Range
  <2>4. QED
    BY <1>2, <1>3, <1>6, <2>1, <2>2, <2>3
<1>8. ASSUME NEW q \in Configuring'
      PROVE  q \in Configuring /\ q # r /\ req'[q] = req[q]
  BY <1>1, <1>8 DEF Configuring, At
<1>9. ASSUME NEW q \in Configuring' PROVE ~Collide(req'[q].arg, Kept(q)')
  <2>1. deleted'[q] = deleted[q] \ DOMAIN s
    BY <1>8, <1>9 DEF ConfigureCommit, Configuring
  <2>2. ~Collide(req[q].arg, s) /\ ~Collide(req[q].arg, Kept(q))
    BY <1>1, <1>8, <1>9 DEF ConfigurationsApart
  <2>3. /\ DOMAIN Kept(q)' = DOMAIN sequence' \ deleted'[q]
        /\ \A n \in DOMAIN Kept(q)' : Kept(q)'[n] = sequence'[n]
    BY DEF Kept, Restrict
  <2>4. DOMAIN Kept(q) = DOMAIN sequence \ deleted[q]
        /\ \A n \in DOMAIN Kept(q) : Kept(q)[n] = sequence[n]
    BY DEF Kept, Restrict
  <2>5. ASSUME NEW n \in DOMAIN Kept(q)'
        PROVE  \/ n \in DOMAIN s /\ Kept(q)'[n] = s[n]
               \/ n \in DOMAIN Kept(q) /\ Kept(q)'[n] = Kept(q)[n]
    BY <1>2, <1>3, <1>6, <2>1, <2>3, <2>4, <2>5
  <2>6. QED
    BY <1>8, <1>9, <2>2, <2>5 DEF Collide, Range
<1>10. ASSUME NEW x \in Configuring', NEW q \in (Configuring \ {x})'
       PROVE  ~Collide(req[x].arg, req[q].arg)'
  BY <1>8, <1>10 DEF ConfigurationsApart
<1>11. QED
  BY <1>7, <1>9, <1>10 DEF ConfigurationsApart

LEMMA StepApart ==
  ASSUME Inductive, ConfigurationsApart, [Next]_vars
  PROVE  ConfigurationsApart'
<1>1. CASE UNCHANGED vars
  BY <1>1, ApartStays DEF vars, planVars, Configuring, At
<1>2. ASSUME NEW r \in Requests, ConfigureRows(r), UNCHANGED sequence
      PROVE  ConfigurationsApart'
  BY <1>2, RowsApart
<1>3. ASSUME NEW r \in Requests, ConfigureCommit(r) PROVE ConfigurationsApart'
  BY <1>3, CommitApart
<1>4. ASSUME NEW r \in Requests, PlanStep(r) PROVE ConfigurationsApart'
  <2>1. CASE ConfigureRows(r) /\ UNCHANGED sequence
    BY <1>2, <2>1
  <2>2. CASE ConfigureCommit(r)
    BY <1>3, <2>2
  <2>3. CASE \/ (AddPointRead(r) \/ ConfigureRead(r)) /\ UNCHANGED planVars
             \/ Fail(r) /\ UNCHANGED sequence
             \/ AddPointInsert(r) /\ UNCHANGED <<sequence, deleted>>
    <3>1. UNCHANGED sequence
      BY <2>3 DEF planVars
    <3>2. (AddPointRead(r) \/ ConfigureRead(r)) => UNCHANGED deleted
      BY <2>3, Parts DEF planVars, AddPointRead, ConfigureRead, Fail, AddPointInsert, Begin, Finish,
                         At, Idle
    <3>3. QED
      BY <2>3, <3>1, <3>2, OtherSteps, ApartStays
  <2>4. QED
    BY <1>4, <2>1, <2>2, <2>3 DEF PlanStep
<1>5. ASSUME NEW r \in Requests, IsolationStep(r) \/ RestorationStep(r)
      PROVE  ConfigurationsApart'
  <2>1. UNCHANGED <<sequence, deleted>>
    BY <1>5 DEF IsolationStep, RestorationStep, planVars
  <2>2. QED
    BY <1>5, <2>1, OtherSteps, ApartStays
<1>6. QED
  BY <1>1, <1>4, <1>5 DEF Next

(* No point is in the sequence twice, although two configurations that chose
   different numbers and points may both commit: the unique indexes see to it. *)
THEOREM SequenceIsUnique == Spec => []StepsAreUnique
<1>1. Init => ConfigurationsApart
  BY DEF Init, PlanInit, ConfigurationsApart, StepsAreUnique, IsInjective, Configuring, At, Idle
<1>2. Inductive /\ ConfigurationsApart /\ [Next]_vars => ConfigurationsApart'
  BY StepApart
<1>3. ConfigurationsApart => StepsAreUnique
  BY DEF ConfigurationsApart
<1>4. QED
  BY <1>1, <1>2, <1>3, InductiveHolds, PTL DEF Spec

-----------------------------------------------------------------------------
(* From the lock to the restoration *)

(* A point of the sequence that is restored, or whose labels the restoration
   takes off, was locked before, and has passed where a verification is
   required. *)
RestoredWasIsolated ==
  plan = "in_execution" =>
    \A p \in Sequenced :
      p \in restored \/ (\E l \in removals : PointOf[l] = p) =>
        p \in EverLocked /\ (p \in Requires => p \in passed)

(* The evidence of the stages, point by point: nothing of the sequence is
   unwound that was not isolated and verified, whatever checks are out of date. *)
THEOREM UnwoundWasIsolated == Spec => []RestoredWasIsolated
<1>1. Inductive => RestoredWasIsolated
  <2> SUFFICES ASSUME Inductive, plan = "in_execution", NEW p \in Sequenced,
                      restored # {} \/ removals # {}
               PROVE  p \in EverLocked /\ (p \in Requires => p \in passed)
    BY DEF RestoredWasIsolated
  <2>1. {"isolated", "verified"} \subseteq stamps
    BY DEF Inductive, NoEarlyUnwinding, StampsLead
  <2>2. QED
    BY <2>1 DEF Inductive, EvidenceChain
<1>2. QED
  BY <1>1, InductiveHolds, PTL

(* A label is hung once, and taken off after it was hung. *)
LEMMA HungStep ==
  ASSUME Inductive, [Next]_vars
  PROVE  \/ UNCHANGED <<hung, removals>>
         \/ \E l \in Labels : /\ hung[l] = "never"
                              /\ hung' = [hung EXCEPT ![l] = "applied"]
                              /\ UNCHANGED removals
         \/ \E l \in Labels : /\ hung[l] # "never"
                              /\ hung' = [hung EXCEPT ![l] = "removed"]
                              /\ removals' \subseteq removals \cup {l}
<1>1. ASSUME NEW r \in Requests, LockInsert(r) \/ TagInsert(r), UNCHANGED restorationVars
      PROVE  \E l \in Labels : /\ hung[l] = "never"
                               /\ hung' = [hung EXCEPT ![l] = "applied"]
                               /\ UNCHANGED removals
  BY <1>1 DEF LockInsert, TagInsert, HangInsert, Labels, restorationVars
<1>2. ASSUME NEW r \in Requests,
             \/ (LockTakeDownWrite(r) \/ TagTakeDownWrite(r)) /\ UNCHANGED restorationVars
             \/ RemoveLockCommit(r) \/ RemoveTagCommit(r)
      PROVE  \E l \in Labels : /\ hung[l] # "never"
                               /\ hung' = [hung EXCEPT ![l] = "removed"]
                               /\ removals' \subseteq removals \cup {l}
  <2>1. req[r].arg \in Labels /\ hung[req[r].arg] # "never"
    BY <1>2, Ends DEF LockTakeDownWrite, TagTakeDownWrite, TakeDownWrite,
                      RemoveLockCommit, RemoveTagCommit, RemoveCommit, Sound
  <2>2. hung' = [hung EXCEPT ![req[r].arg] = "removed"]
    BY <1>2 DEF LockTakeDownWrite, TagTakeDownWrite, TakeDownWrite,
                RemoveLockCommit, RemoveTagCommit, RemoveCommit
  <2>3. removals' \subseteq removals \cup {req[r].arg}
    BY <1>2 DEF LockTakeDownWrite, TagTakeDownWrite, RemoveLockCommit, RemoveTagCommit,
                RemoveCommit, restorationVars
  <2>4. QED
    BY <2>1, <2>2, <2>3
<1>3. CASE UNCHANGED vars
  BY <1>3 DEF vars, isolationVars, restorationVars
<1>4. ASSUME NEW r \in Requests, RestorationStep(r),
             ~(RemoveLockCommit(r) \/ RemoveTagCommit(r))
      PROVE  UNCHANGED <<hung, removals>>
  BY <1>4 DEF RestorationStep, isolationVars, restorationVars
<1>5. ASSUME NEW r \in Requests, IsolationStep(r), UNCHANGED restorationVars,
             ~(LockInsert(r) \/ TagInsert(r) \/ LockTakeDownWrite(r) \/ TagTakeDownWrite(r))
      PROVE  UNCHANGED <<hung, removals>>
  BY <1>5 DEF IsolationStep, isolationVars, restorationVars
<1>6. ASSUME UNCHANGED <<isolationVars, restorationVars>>
      PROVE  UNCHANGED <<hung, removals>>
  BY <1>6 DEF isolationVars, restorationVars
<1>7. QED
  BY <1>1, <1>2, <1>3, <1>4, <1>5, <1>6 DEF Next

(* A label with a row in lock_removals or tag_removals is off. *)
RemovedIsOff == \A l \in removals : hung[l] = "removed"

(* No late check hangs a label again that was taken off, in the isolation or by
   the restoration, and nothing makes one that was hung look as if it never was. *)
LabelsAreUsedOnce ==
  \A l \in Labels :
    /\ hung[l] # "never" => hung'[l] # "never"
    /\ hung[l] = "removed" => hung'[l] = "removed"

(* The rows of the removals and those of the labels agree, though two services
   take labels off and only one writes a removal. *)
THEOREM RemovalsAreOff == Spec => []RemovedIsOff
<1>1. Init => RemovedIsOff
  BY DEF Init, RemovedIsOff
<1>2. Inductive /\ RemovedIsOff /\ [Next]_vars => RemovedIsOff'
  <2> SUFFICES ASSUME Inductive, RemovedIsOff, [Next]_vars PROVE RemovedIsOff'
    OBVIOUS
  <2>1. hung \in [Labels -> {"never", "applied", "removed"}] /\ removals \subseteq Labels
    BY DEF Inductive, TypeOK, IsolationTypeOK
  <2>2. QED
    BY <2>1, HungStep DEF RemovedIsOff
<1>3. QED
  BY <1>1, <1>2, InductiveHolds, PTL DEF Spec

(* A label goes on once and comes off once. *)
THEOREM LabelsStayOff == Spec => [][LabelsAreUsedOnce]_vars
<1>1. Inductive /\ [Next]_vars => LabelsAreUsedOnce
  <2> SUFFICES ASSUME Inductive, [Next]_vars PROVE LabelsAreUsedOnce
    OBVIOUS
  <2>1. hung \in [Labels -> {"never", "applied", "removed"}]
    BY DEF Inductive, TypeOK, IsolationTypeOK
  <2>2. QED
    BY <2>1, HungStep DEF LabelsAreUsedOnce
<1>2. QED
  BY <1>1, InductiveHolds, PTL DEF Spec

-----------------------------------------------------------------------------
(* The refinement of the stages *)

LEMMA NeedsFacts ==
  /\ DOMAIN EnergyNeeds = {"isolated", "verified", "restored"}
  /\ EnergyNeeds["isolated"] = {}
  /\ EnergyNeeds["verified"] = {"isolated"}
  /\ EnergyNeeds["restored"] = {"isolated", "verified"}
BY DEF EnergyNeeds

LEMMA EnergyStep == Inductive /\ [Next]_vars => [Energy!Next]_stamps
<1> SUFFICES ASSUME Inductive, [Next]_vars PROVE Energy!Next \/ UNCHANGED stamps
  OBVIOUS
<1> USE NeedsFacts DEF Energy!Next, Energy!Reach
<1>1. CASE UNCHANGED vars
  BY <1>1 DEF vars, isolationVars
<1>2. ASSUME NEW r \in Requests, MarkIsolatedWrite(r) PROVE Energy!Next
  BY <1>2 DEF MarkIsolatedWrite
<1>3. ASSUME NEW r \in Requests, MarkVerifiedWrite(r) PROVE Energy!Next
  <2>1. "isolated" \in stamps
    BY <1>3, Ends DEF MarkVerifiedWrite, Sound
  <2>2. QED
    BY <1>3, <2>1 DEF MarkVerifiedWrite
<1>4. ASSUME NEW r \in Requests, CompleteCommit(r) PROVE Energy!Next
  <2>1. "verified" \in stamps /\ "isolated" \in stamps
    BY <1>4, Parts DEF CompleteCommit, Pass, At, Sound, Rows, Stages, StampsLead
  <2>2. QED
    BY <1>4, <2>1 DEF CompleteCommit
<1>5. QED
  BY <1>1, <1>2, <1>3, <1>4 DEF Next, IsolationStep, RestorationStep, isolationVars

(* The stages of an execution are recorded in order and for good, although
   late requests take its status back. *)
THEOREM ProcedureImplementsStages == Spec => ImplementsEnergyStages
<1>1. Init => Energy!Init
  BY DEF Init, IsolationInit, Energy!Init
<1>2. Inductive /\ [Next]_vars => [Energy!Next]_stamps
  BY EnergyStep
<1>3. QED
  BY <1>1, <1>2, InductiveHolds, PTL DEF Spec, ImplementsEnergyStages, Energy!Spec
=============================================================================
