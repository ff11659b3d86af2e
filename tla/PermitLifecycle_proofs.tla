----------------------- MODULE PermitLifecycle_proofs -----------------------
(***************************************************************************)
(* Proofs about the life of a permit, for any number of overlapping         *)
(* requests, suspensions and days, and any set of operations.               *)
(***************************************************************************)
EXTENDS PermitLifecycle, TLAPS

WithoutSimops == "simops" \notin Operations

LEMMA InitInductive == Init => Inductive
<1> SUFFICES ASSUME Init PROVE Inductive
  OBVIOUS
<1> USE DEF Init
<1>1. \A r \in Requests : req[r] = Idle
  OBVIOUS
<1>2. \A r \in Requests : req[r].pc = "idle"
  BY <1>1 DEF Idle
<1>3. TypeOK
  <2>1. Idle \in Request
    BY DEF Idle, Request, Pc
  <2>2. RowTypeOK
    BY DEF RowTypeOK, PermitStatus
  <2>3. holds \in Seq(Hold)
    OBVIOUS
  <2>4. days \in 0..MaxDays
    BY LifecycleAssumption DEF LifecycleAssumption
  <2>5. QED
    BY <2>1, <2>2, <2>3, <2>4 DEF TypeOK, StoreTypeOK
<1>4. ClosedHasRecords /\ WorkIsFounded /\ (verified => PutUnderWay)
  BY DEF ClosedHasRecords, WorkIsFounded, InProgress
<1>5. MemoriesFounded
  BY NoEntryAssumption DEF NoEntryAssumption, PermitStatus, MemoriesFounded, InProgress
<1>6. RequestsFounded /\ OpenTransactions /\ SimopsFollows
  BY <1>2 DEF RequestsFounded, OnExecution, OnWork, OpenTransactions, At, SimopsFollows
<1>7. QED
  BY <1>3, <1>4, <1>5, <1>6 DEF Inductive

-----------------------------------------------------------------------------
(* One step of one request. *)

(* What has to be shown of a request's step: the records stay of their type and
   agree with the status, a permit once started or a conflict once rejected stays
   so, the Redis entry is one of those seen, and the request goes where the
   invariant lets it go. *)
LEMMA RequestStep ==
  ASSUME Inductive, NEW r \in Requests, NEW pc \in Pc, NEW s \in PermitStatus \cup {NoEntry},
         GoHaving(r, pc, s),
         StoreTypeOK', ClosedHasRecords', WorkIsFounded', (verified => PutUnderWay)',
         cache' \in {cache, status, NoEntry}, UNCHANGED loading,
         Started => Started',
         conflict' = conflict \/ ("simops" \in Operations /\ conflict' = "rejected"),
         Started' /\ ~Started => At(r, "activating"),
         verified => verified',
         verified' /\ ~verified => At(r, "verifying"),
         closure' /\ ~closure => At(r, "closing"),
         pc \in OnExecution => Started,
         pc \in OnWork => PutUnderWay,
         pc = "activating" => ~Started' /\ \A q \in Requests : ~At(q, "activating"),
         pc = "verifying" => ~verified' /\ \A q \in Requests : ~At(q, "verifying"),
         pc = "closing" => verified /\ ~closure' /\ \A q \in Requests : ~At(q, "closing"),
         pc \in {"simops", "simopsHold"} => conflict' = "rejected"
  PROVE  Inductive'
<1> USE DEF Inductive
<1>1. /\ req' \in [Requests -> Request]
      /\ req'[r].pc = pc
      /\ \A q \in Requests \ {r} : req'[q] = req[q]
  BY DEF GoHaving, TypeOK, Request
<1>2. TypeOK'
  BY <1>1 DEF TypeOK
<1>3. PutUnderWay => PutUnderWay'
  BY DEF PutUnderWay
<1>4. MemoriesFounded'
  BY <1>3, NoEntryAssumption
     DEF NoEntryAssumption, PermitStatus, MemoriesFounded, WorkIsFounded, ClosedHasRecords,
         InProgress
<1>5. RequestsFounded'
  BY <1>1, <1>3 DEF RequestsFounded
<1>6. OpenTransactions'
  BY <1>1 DEF OpenTransactions, At
<1>7. SimopsFollows'
  BY <1>1 DEF SimopsFollows
<1>8. QED
  BY <1>2, <1>4, <1>5, <1>6, <1>7

(* findOne leaves the entry, or fills it with the status of the row, and answers
   one of the two. *)
LEMMA FindOneCache ==
  ASSUME NEW s, FindOne(s)
  PROVE  cache' \in {cache, status} /\ s \in {cache, status}
BY DEF FindOne, CacheSet

(* A step that reads, or fails, moves nothing but the request. *)
LEMMA QuietStep ==
  ASSUME Inductive, NEW r \in Requests, NEW pc \in Pc, NEW s \in PermitStatus \cup {NoEntry},
         GoHaving(r, pc, s),
         cache' \in {cache, status},
         UNCHANGED <<status, loading, records, mdp, dates, job>>,
         pc \in OnExecution => Started,
         pc \in OnWork => PutUnderWay,
         pc = "activating" => ~Started /\ \A q \in Requests : ~At(q, "activating"),
         pc = "verifying" => ~verified /\ \A q \in Requests : ~At(q, "verifying"),
         pc = "closing" => verified /\ ~closure /\ \A q \in Requests : ~At(q, "closing"),
         pc \notin {"simops", "simopsHold"}
  PROVE  Inductive'
<1> USE DEF records, mdp, dates
<1>1. StoreTypeOK'
  BY DEF Inductive, TypeOK, StoreTypeOK, RowTypeOK
<1>2. UNCHANGED <<Started, PutUnderWay, verified, closure, conflict>>
  BY DEF Started, PutUnderWay
<1>3. ClosedHasRecords' /\ WorkIsFounded' /\ (verified => PutUnderWay)'
  BY <1>2 DEF Inductive, ClosedHasRecords, WorkIsFounded
<1>4. QED
  BY <1>1, <1>2, <1>3, RequestStep

(* Every operation that begins with findOne, with the status it wants: a status
   of a permit under way is only ever read of one that got there. *)
LEMMA ReadsStep ==
  ASSUME Inductive, NEW r \in Requests,
         NEW operation \in {"approve", "veto", "activate", "suspend", "resume", "verify", "close"},
         NEW answers \in SUBSET PermitStatus, Reads(r, operation, answers),
         operation \in OnExecution => Started,
         operation \in OnWork => answers \subseteq InProgress
  PROVE  Inductive'
<1>1. PICK s \in answers : FindOne(s)
  BY DEF Reads
<1>2. operation \in OnWork => PutUnderWay
  BY <1>1, FindOneCache DEF Inductive, MemoriesFounded, WorkIsFounded
<1>3. operation \in Pc
  BY DEF Pc
<1>4. GoHaving(r, operation, NoEntry)
  BY DEF Reads, Go
<1>5. cache' \in {cache, status}
  BY <1>1, FindOneCache
<1>6. UNCHANGED <<status, loading, records, mdp, dates, job>>
  BY DEF Reads
<1>7. QED
  BY <1>2, <1>3, <1>4, <1>5, <1>6, QuietStep

LEMMA FindingSteps ==
  ASSUME Inductive, NEW r \in Requests,
         \/ ApproveRead(r) \/ VetoRead(r) \/ ActivateRead(r) \/ SuspendRead(r)
         \/ ResumeRead(r) \/ VerifyRead(r) \/ CloseRead(r)
  PROVE  Inductive'
<1> USE DEF OnExecution, OnWork, PermitStatus, InProgress
<1>1. CASE ApproveRead(r)
  BY <1>1, ReadsStep DEF ApproveRead
<1>2. CASE VetoRead(r)
  BY <1>2, ReadsStep DEF VetoRead, VetoEligible
<1>3. CASE ActivateRead(r)
  BY <1>3, ReadsStep DEF ActivateRead
<1>4. CASE SuspendRead(r)
  BY <1>4, ReadsStep DEF SuspendRead, Started
<1>5. CASE ResumeRead(r)
  BY <1>5, ReadsStep DEF ResumeRead, Started
<1>6. CASE VerifyRead(r)
  BY <1>6, ReadsStep DEF VerifyRead
<1>7. CASE CloseRead(r)
  BY <1>7, ReadsStep DEF CloseRead
<1>8. QED
  BY <1>1, <1>2, <1>3, <1>4, <1>5, <1>6, <1>7

(* The operations that read the row, and the other steps that write nothing. *)
LEMMA WaitingSteps ==
  ASSUME Inductive, NEW r \in Requests,
         \/ RevalidateRead(r) \/ MdpSuspendRead(r) \/ ContinueRead(r) \/ DecideRead(r)
         \/ CancelRead(r) \/ ActivateInsert(r) \/ VerifyInsert(r) \/ CloseInsert(r)
         \/ Fail(r)
  PROVE  Inductive'
<1> USE DEF rowVars, Pc, OnExecution, OnWork
<1>1. status \in PermitStatus
  BY DEF Inductive, TypeOK, StoreTypeOK, RowTypeOK
<1>2. status \in InProgress => PutUnderWay
  BY DEF Inductive, WorkIsFounded
<1>3. CASE RevalidateRead(r)
  BY <1>1, <1>2, <1>3, QuietStep DEF RevalidateRead, RowReads
<1>4. CASE MdpSuspendRead(r)
  BY <1>1, <1>2, <1>4, QuietStep DEF MdpSuspendRead, RowReads, InProgress
<1>5. CASE ContinueRead(r)
  BY <1>1, <1>2, <1>5, QuietStep DEF ContinueRead, RowReads, InProgress
<1>6. CASE DecideRead(r)
  BY <1>6, QuietStep DEF DecideRead, Go
<1>7. CASE CancelRead(r)
  <2>1. CASE status \in InProgress
    BY <1>1, <1>2, <1>7, <2>1, QuietStep DEF CancelRead, RowReads
  <2>2. CASE status \notin InProgress
    BY <1>1, <1>7, <2>2, QuietStep DEF CancelRead, RowReads
  <2>3. QED
    BY <2>1, <2>2
<1>8. CASE ActivateInsert(r)
  BY <1>8, QuietStep DEF ActivateInsert, ExecutionAdmitted, Go, Started
<1>12. CASE VerifyInsert(r)
  BY <1>2, <1>12, QuietStep DEF VerifyInsert, VerificationAdmitted, Go, InProgress
<1>9. CASE CloseInsert(r)
  BY <1>2, <1>9, QuietStep DEF CloseInsert, ClosureAdmitted, Go, InProgress
<1>10. CASE Fail(r)
  BY <1>10, QuietStep DEF Fail, Go
<1>11. QED
  BY <1>3, <1>4, <1>5, <1>6, <1>7, <1>8, <1>9, <1>10, <1>12

-----------------------------------------------------------------------------
(* Steps that write. *)

(* A write of the status alone, to something that does not need the permit
   started unless it is, ends the request. *)
LEMMA StatusStep ==
  ASSUME Inductive, NEW r \in Requests, NEW s \in PermitStatus \ {"closed"},
         Transition(s), Go(r, "idle"), awaiting' \in BOOLEAN,
         cache' \in {cache, NoEntry},
         UNCHANGED <<loading, execution, verified, closure, mdp, dates, job>>,
         s \in InProgress => PutUnderWay
  PROVE  Inductive'
<1> USE DEF mdp, dates, Transition, Writable
<1>1. StoreTypeOK'
  BY DEF Inductive, TypeOK, StoreTypeOK, RowTypeOK
<1>2. UNCHANGED <<Started, PutUnderWay, verified, closure>>
  BY DEF Started, PutUnderWay
<1>3. ClosedHasRecords' /\ WorkIsFounded' /\ (verified => PutUnderWay)'
  BY <1>2 DEF Inductive, ClosedHasRecords, WorkIsFounded
<1>4. QED
  BY <1>1, <1>2, <1>3, RequestStep DEF Go, Pc, OnExecution, OnWork

LEMMA StatusSteps ==
  ASSUME Inductive, NEW r \in Requests,
         \/ ApproveCommit(r) \/ VetoCommit(r) \/ StopPermit(r) \/ RestartPermit(r)
         \/ CancelCommit(r)
  PROVE  Inductive'
<1> USE DEF records, PermitStatus, InProgress, Invalidate
<1>1. awaiting \in BOOLEAN /\ (At(r, "stop") \/ At(r, "restart") => PutUnderWay)
  BY DEF Inductive, TypeOK, StoreTypeOK, RequestsFounded, At, OnWork
<1>2. CASE ApproveCommit(r)
  BY <1>2, StatusStep DEF ApproveCommit
<1>3. CASE VetoCommit(r)
  BY <1>1, <1>3, StatusStep DEF VetoCommit
<1>4. CASE StopPermit(r)
  BY <1>1, <1>4, StatusStep DEF StopPermit
<1>5. CASE RestartPermit(r)
  BY <1>1, <1>5, StatusStep DEF RestartPermit
<1>6. CASE CancelCommit(r)
  BY <1>1, <1>6, StatusStep DEF CancelCommit
<1>7. QED
  BY <1>2, <1>3, <1>4, <1>5, <1>6

(* Activation, suspension, resumption and cancellation write the execution. *)
LEMMA ExecutionSteps ==
  ASSUME Inductive, NEW r \in Requests,
         ActivateCommit(r) \/ SuspendCommit(r) \/ ResumeCommit(r) \/ CancelExecution(r)
  PROVE  Inductive'
<1> USE DEF mdp, dates, rowVars, Transition, Writable, Invalidate
<1>1. /\ UNCHANGED <<loading, awaiting, verified, closure, mdp, dates, job>>
      /\ execution' \in {"running", "suspended"} \/ UNCHANGED execution
      /\ cache' \in {cache, NoEntry}
      /\ \/ status # "closed" /\ status' \in InProgress
         \/ UNCHANGED status
  BY DEF ActivateCommit, SuspendCommit, ResumeCommit, CancelExecution, InProgress
<1>2. (Started => Started') /\ (UNCHANGED status \/ Started')
  BY DEF ActivateCommit, SuspendCommit, ResumeCommit, CancelExecution, Started
<1>3. Started' => Started \/ At(r, "activating")
  BY DEF ActivateCommit, SuspendCommit, ResumeCommit, CancelExecution, Started, Inductive,
         RequestsFounded, OnExecution, At
<1>4. StoreTypeOK'
  BY <1>1 DEF Inductive, TypeOK, StoreTypeOK, RowTypeOK, InProgress, PermitStatus
<1>5. PutUnderWay => PutUnderWay'
  BY <1>1, <1>2 DEF PutUnderWay
<1>6. ClosedHasRecords' /\ WorkIsFounded' /\ (verified => PutUnderWay)'
  BY <1>1, <1>2, <1>5 DEF Inductive, ClosedHasRecords, WorkIsFounded, PutUnderWay, InProgress
<1>7. GoHaving(r, "idle", NoEntry) \/ GoHaving(r, "cancelling", NoEntry)
  BY DEF ActivateCommit, SuspendCommit, ResumeCommit, CancelExecution, Go
<1>8. QED
  BY <1>1, <1>2, <1>3, <1>4, <1>6, <1>7, RequestStep DEF Pc, OnExecution, OnWork

LEMMA ClosureSteps ==
  ASSUME Inductive, NEW r \in Requests, VerifyCommit(r) \/ CloseCommit(r)
  PROVE  Inductive'
<1> USE DEF mdp, dates, Transition, Writable, Invalidate
<1>1. /\ UNCHANGED <<loading, awaiting, execution, mdp, dates, job>>
      /\ cache' \in {cache, NoEntry}
      /\ verified' \in BOOLEAN /\ closure' \in BOOLEAN /\ status' \in {status, "closed"}
      /\ GoHaving(r, "idle", NoEntry)
  BY DEF VerifyCommit, CloseCommit, Go, Inductive, TypeOK, StoreTypeOK
<1>2. PutUnderWay
  BY DEF VerifyCommit, CloseCommit, Inductive, RequestsFounded, OnWork, At
<1>3. UNCHANGED <<Started, PutUnderWay>>
  BY <1>1 DEF Started, PutUnderWay
<1>4. StoreTypeOK'
  BY <1>1 DEF Inductive, TypeOK, StoreTypeOK, RowTypeOK, PermitStatus
<1>5. CASE VerifyCommit(r)
  <2>1. verified' /\ UNCHANGED <<status, closure>> /\ At(r, "verifying")
    BY <1>5 DEF VerifyCommit
  <2>2. ClosedHasRecords' /\ WorkIsFounded'
    BY <1>2, <1>3, <2>1 DEF Inductive, ClosedHasRecords, WorkIsFounded
  <2>3. QED
    BY <1>1, <1>2, <1>3, <1>4, <2>1, <2>2, RequestStep DEF Pc, OnExecution, OnWork
<1>6. CASE CloseCommit(r)
  <2>1. verified /\ verified' /\ closure' /\ status' = "closed" /\ At(r, "closing")
    BY <1>6 DEF CloseCommit, Inductive, OpenTransactions
  <2>2. ClosedHasRecords' /\ WorkIsFounded'
    BY <1>2, <1>3, <2>1 DEF ClosedHasRecords, WorkIsFounded
  <2>3. QED
    BY <1>1, <1>2, <1>3, <1>4, <2>1, <2>2, RequestStep DEF Pc, OnExecution, OnWork
<1>7. QED
  BY <1>5, <1>6

(* The steps of revalidation and extension that leave the permit's row alone. *)
LEMMA DailySteps ==
  ASSUME Inductive, NEW r \in Requests,
         \/ RevalidateInsert(r) \/ InsertHold(r) \/ ContinueHold(r)
         \/ DecideExtension(r) \/ Prolong(r)
  PROVE  Inductive'
<1> USE DEF mdp, dates, rowVars, records
<1>1. UNCHANGED <<status, cache, loading, awaiting, execution, verified, closure, job>>
  BY DEF RevalidateInsert, InsertHold, ContinueHold, DecideExtension, Prolong
<1>2. holds' \in Seq(Hold)
  <2>1. holds \in Seq(Hold)
    BY DEF Inductive, TypeOK, StoreTypeOK
  <2>2. CASE InsertHold(r)
    BY <2>1, <2>2 DEF InsertHold, Hold
  <2>3. CASE ContinueHold(r)
    <3>1. CASE HasOpenHold
      <4>1. holds # <<>> /\ holds' = [holds EXCEPT ![Len(holds)].open = FALSE]
        BY <2>3, <3>1 DEF ContinueHold, HasOpenHold
      <4>2. Len(holds) \in 1..Len(holds) /\ holds[Len(holds)] \in Hold
        BY <2>1, <4>1
      <4>3. [holds[Len(holds)] EXCEPT !.open = FALSE] \in Hold
        BY <4>2 DEF Hold
      <4>4. QED
        BY <2>1, <4>1, <4>2, <4>3
    <3>2. CASE ~HasOpenHold
      BY <2>1, <2>3, <3>2 DEF ContinueHold
    <3>3. QED
      BY <3>1, <3>2
  <2>4. CASE RevalidateInsert(r) \/ DecideExtension(r) \/ Prolong(r)
    BY <2>1, <2>4 DEF RevalidateInsert, DecideExtension, Prolong
  <2>5. QED
    BY <2>2, <2>3, <2>4
<1>3. StoreTypeOK'
  <2>1. days' \in 0..MaxDays
    <3>1. days \in 0..MaxDays /\ MaxDays \in Nat
      BY LifecycleAssumption DEF LifecycleAssumption, Inductive, TypeOK, StoreTypeOK
    <3>2. UNCHANGED days \/ (days < MaxDays /\ days' = days + 1)
      BY DEF RevalidateInsert, InsertHold, ContinueHold, DecideExtension, Prolong
    <3>3. QED
      BY <3>1, <3>2
  <2>2. /\ reval' \in {"none", "passed", "failed"}
        /\ conflict' \in {"open", "rejected"}
        /\ extension' \in {"none", "pending", "approved", "rejected"}
        /\ overdue' \in BOOLEAN
    BY DEF Inductive, TypeOK, StoreTypeOK, RevalidateInsert, InsertHold, ContinueHold,
           DecideExtension, Prolong
  <2>3. QED
    BY <1>1, <1>2, <2>1, <2>2 DEF Inductive, TypeOK, StoreTypeOK, RowTypeOK
<1>4. UNCHANGED <<Started, PutUnderWay, conflict>>
  BY <1>1 DEF Started, PutUnderWay, RevalidateInsert, InsertHold, ContinueHold, DecideExtension,
              Prolong
<1>5. ClosedHasRecords' /\ WorkIsFounded' /\ (verified => PutUnderWay)'
  BY <1>1, <1>4 DEF Inductive, ClosedHasRecords, WorkIsFounded
<1>6. \E pc \in {"idle", "hold", "stop", "restart", "prolong"} :
        /\ GoHaving(r, pc, NoEntry)
        /\ pc \in {"hold", "stop", "restart"} => PutUnderWay
  BY DEF RevalidateInsert, InsertHold, ContinueHold, DecideExtension, Prolong, Go,
         Inductive, RequestsFounded, OnWork, At
<1>7. QED
  BY <1>1, <1>3, <1>4, <1>5, <1>6, RequestStep DEF Pc, OnExecution, OnWork

(* The rejection of a conflict, and the suspension of the permit after it: in
   whatever status it may be stopped, and so perhaps before its activation. *)
LEMMA SimopsSteps ==
  ASSUME Inductive, NEW r \in Requests, Simops(r)
  PROVE  Inductive'
<1> USE DEF mdp, dates, rowVars, records, Go
<1>1. /\ UNCHANGED <<cache, loading, awaiting, execution, verified, closure, reval, days,
                      extension, overdue, job>>
      /\ status' = status \/ (status \in SimopsStoppable /\ status' = "suspended")
  BY DEF Simops, RejectConflict, SimopsSuspend, SimopsSkip, SimopsHold
<1>2. conflict' = conflict \/ ("simops" \in Operations /\ conflict' = "rejected")
  BY DEF Simops, RejectConflict, SimopsSuspend, SimopsSkip, SimopsHold, Starts
<1>3. conflict' = "rejected"
  BY DEF Simops, RejectConflict, SimopsSuspend, SimopsSkip, SimopsHold, Inductive,
         SimopsFollows, At
<1>4. holds' \in Seq(Hold)
  <2>1. holds \in Seq(Hold)
    BY DEF Inductive, TypeOK, StoreTypeOK
  <2>2. CASE SimopsHold(r)
    BY <2>1, <2>2 DEF SimopsHold, Hold
  <2>3. CASE RejectConflict(r) \/ SimopsSuspend(r) \/ SimopsSkip(r)
    BY <2>1, <2>3 DEF RejectConflict, SimopsSuspend, SimopsSkip
  <2>4. QED
    BY <2>2, <2>3 DEF Simops
<1>5. StoreTypeOK'
  BY <1>1, <1>3, <1>4 DEF Inductive, TypeOK, StoreTypeOK, RowTypeOK, PermitStatus
<1>6. UNCHANGED Started /\ PutUnderWay'
  BY <1>1, <1>3 DEF Started, PutUnderWay
<1>7. ClosedHasRecords' /\ WorkIsFounded' /\ (verified => PutUnderWay)'
  BY <1>1, <1>6 DEF Inductive, ClosedHasRecords, WorkIsFounded, SimopsStoppable
<1>8. \E pc \in {"idle", "simops", "simopsHold"} : GoHaving(r, pc, NoEntry)
  BY DEF Simops, RejectConflict, SimopsSuspend, SimopsSkip, SimopsHold
<1>9. QED
  BY <1>1, <1>2, <1>3, <1>5, <1>6, <1>7, <1>8, RequestStep DEF Pc, OnExecution, OnWork

-----------------------------------------------------------------------------
(* Steps of no request, and requests that begin with a write. *)

LEMMA UnattendedStep ==
  ASSUME Inductive, Expiry \/ Environment \/ \E r \in Requests : RequestExtension(r)
  PROVE  Inductive'
<1> USE DEF Expiry, EndPasses, JobRead, JobExpire, JobGivesUp, Environment, RowEnvironment,
            ReaderLoad, ReaderStore, EntryExpires, CacheSet, RequestExtension
<1>1. UNCHANGED <<records, mdp, conflict, req>>
  BY DEF dates
<1>2. status' = status \/ (status \in InProgress /\ status' = "expired")
  BY DEF rowVars
<1>3. {cache', loading'} \subseteq {cache, loading, status, NoEntry}
  BY DEF rowVars
<1>4. overdue' \in {TRUE, overdue} /\ job' \in {"idle", "found", job}
      /\ extension' \in {"pending", extension}
  BY DEF dates
<1>5. UNCHANGED <<Started, PutUnderWay, verified, closure>>
  BY <1>1 DEF records, Started, PutUnderWay
<1>6. TypeOK'
  <2>1. RowTypeOK'
    BY <1>2, <1>3 DEF Inductive, TypeOK, StoreTypeOK, RowTypeOK, PermitStatus
  <2>2. UNCHANGED <<awaiting, execution, verified, closure, holds, reval, days>>
    BY <1>1 DEF records, mdp
  <2>3. overdue' \in BOOLEAN /\ job' \in {"idle", "found"}
        /\ extension' \in {"none", "pending", "approved", "rejected"}
    BY <1>4 DEF Inductive, TypeOK, StoreTypeOK
  <2>4. StoreTypeOK'
    BY <1>1, <2>1, <2>2, <2>3 DEF Inductive, TypeOK, StoreTypeOK
  <2>5. QED
    BY <1>1, <2>4 DEF Inductive, TypeOK
<1>7. ClosedHasRecords' /\ WorkIsFounded' /\ (verified => PutUnderWay)'
  BY <1>2, <1>5 DEF Inductive, ClosedHasRecords, WorkIsFounded, InProgress
<1>8. MemoriesFounded'
  BY <1>3, <1>5, NoEntryAssumption
     DEF NoEntryAssumption, Inductive, MemoriesFounded, ClosedHasRecords, WorkIsFounded,
         PermitStatus, InProgress
<1>9. RequestsFounded' /\ OpenTransactions' /\ SimopsFollows'
  BY <1>1, <1>5 DEF Inductive, RequestsFounded, OpenTransactions, SimopsFollows, At
<1>10. QED
  BY <1>6, <1>7, <1>8, <1>9 DEF Inductive

LEMMA StepInductive ==
  ASSUME Inductive, [Next]_vars
  PROVE  Inductive'
<1>1. CASE UNCHANGED vars
  BY <1>1 DEF vars, rowVars, records, mdp, dates, Inductive, TypeOK, StoreTypeOK, RowTypeOK,
              ClosedHasRecords, WorkIsFounded, PutUnderWay, Started, MemoriesFounded,
              RequestsFounded, OpenTransactions, SimopsFollows, At
<1>2. ASSUME NEW r \in Requests, Step(r) PROVE Inductive'
  <2>1. CASE Simops(r)
    BY <2>1, SimopsSteps
  <2>2. CASE Approval(r)
    BY <2>2, FindingSteps, StatusSteps DEF Approval
  <2>3. CASE Activation(r)
    BY <2>3, FindingSteps, WaitingSteps, ExecutionSteps DEF Activation
  <2>4. CASE Suspension(r)
    BY <2>4, FindingSteps, ExecutionSteps DEF Suspension
  <2>5. CASE Verification(r)
    BY <2>5, FindingSteps, WaitingSteps, ClosureSteps DEF Verification
  <2>6. CASE Closure(r)
    BY <2>6, FindingSteps, WaitingSteps, ClosureSteps DEF Closure
  <2>7. CASE Revalidation(r)
    BY <2>7, WaitingSteps, DailySteps, StatusSteps DEF Revalidation
  <2>8. CASE Continuation(r)
    BY <2>8, WaitingSteps, DailySteps, StatusSteps DEF Continuation
  <2>9. CASE Extension(r)
    BY <2>9, UnattendedStep, WaitingSteps, DailySteps DEF Extension
  <2>10. CASE Cancellation(r)
    BY <2>10, WaitingSteps, ExecutionSteps, StatusSteps DEF Cancellation
  <2>11. CASE Fail(r)
    BY <2>11, WaitingSteps
  <2>12. QED
    BY <1>2, <2>1, <2>2, <2>3, <2>4, <2>5, <2>6, <2>7, <2>8, <2>9, <2>10, <2>11 DEF Step
<1>3. CASE Expiry \/ Environment
  BY <1>3, UnattendedStep
<1>4. QED
  BY <1>1, <1>2, <1>3 DEF Next

-----------------------------------------------------------------------------
(* Theorems. *)

(* The invariant of the proofs holds, for any number of requests that overlap in
   any of the operations. *)
THEOREM InductiveHolds == Spec => []Inductive
<1>1. Init => Inductive
  BY InitInductive
<1>2. Inductive /\ [Next]_vars => Inductive'
  BY StepInductive
<1>3. QED
  BY <1>1, <1>2, PTL DEF Spec

(* Every variable keeps its type: permits.status one of its eleven values, the
   suspension records well formed, each request where the code can be. *)
THEOREM TypeCorrect == Spec => []TypeOK
<1>1. Inductive => TypeOK
  BY DEF Inductive
<1>2. QED
  BY <1>1, InductiveHolds, PTL

(* Whatever operations overlap, a permit is closed exactly when it has a closure,
   and a closure has its verification. *)
THEOREM ClosureIsRecorded == Spec => []ClosedHasRecords
<1>1. Inductive => ClosedHasRecords
  BY DEF Inductive
<1>2. QED
  BY <1>1, InductiveHolds, PTL

(* Work is allowed, or held, without an activation only after a conflict the
   permit takes part in was rejected: no other operation lets it begin. *)
THEOREM WorkHasItsReason == Spec => []WorkIsFounded
<1>1. Inductive => WorkIsFounded
  BY DEF Inductive
<1>2. QED
  BY <1>1, InductiveHolds, PTL

(* While no conflict is rejected, what was put under way was activated. *)
LEMMA Unrejected ==
  ASSUME Inductive, conflict = "open"
  PROVE  ClosedForGood /\ (status \in InProgress => Started) /\ (verified => Started)
BY DEF Inductive, ClosedForGood, ClosedHasRecords, WorkIsFounded, PutUnderWay

(* A permit is closed exactly when it has a closure, it was then verified and
   activated, and nothing that read it before its closure undoes that. *)
THEOREM ClosedStaysClosed == WithoutSimops => (Spec => []ClosedForGood)
<1> SUFFICES ASSUME WithoutSimops PROVE Spec => []ClosedForGood
  OBVIOUS
<1>1. Inductive => ClosedForGood
  BY Unrejected DEF Inductive, SimopsFollows, WithoutSimops
<1>2. QED
  BY <1>1, InductiveHolds, PTL

-----------------------------------------------------------------------------
(* The stages. *)

NoRejection == conflict = "open"

StagesNext == [Stages!Next]_<<StageOf, status = "active", Verifying>>

LEMMA StagesInit == Init => Stages!Init
BY DEF Init, Stages!Init, StageOf, Started, Verifying, At, Idle

(* A request that ends, or goes elsewhere than into a verification, is the only
   one that may have been inside one. *)
LEMMA VerifyingEnds ==
  ASSUME Inductive, NEW r \in Requests, NEW pc \in Pc, NEW s, GoHaving(r, pc, s),
         pc # "verifying"
  PROVE  /\ ~At(r, "verifying") => UNCHANGED Verifying
         /\ At(r, "verifying") => Verifying = TRUE /\ Verifying' = FALSE
<1>1. /\ req'[r].pc = pc
      /\ \A q \in Requests \ {r} : req'[q] = req[q]
  BY DEF GoHaving, Inductive, TypeOK, Request
<1>2. At(r, "verifying") => \A q \in Requests \ {r} : ~At(q, "verifying")
  BY DEF Inductive, OpenTransactions
<1>3. ~At(r, "verifying") => (Verifying' <=> Verifying)
  BY <1>1 DEF Verifying, At
<1>4. At(r, "verifying") => Verifying /\ ~Verifying'
  BY <1>1, <1>2 DEF Verifying, At
<1>5. Verifying \in BOOLEAN /\ Verifying' \in BOOLEAN
  BY DEF Verifying
<1>6. QED
  BY <1>3, <1>4, <1>5

(* What a step may do to the records and the status, action by action. *)
LEMMA StagesStep ==
  ASSUME Inductive, Inductive', NoRejection, NoRejection', [Next]_vars
  PROVE  StagesNext
<1> USE DEF NoRejection
<1>0. /\ status = "closed" <=> closure
      /\ status = "active" => Started
      /\ verified => Started
      /\ status' = "active" => Started'
  BY Unrejected DEF Inductive, ClosedForGood, InProgress, ClosedHasRecords, WorkIsFounded,
                    PutUnderWay
<1> DEFINE Pauses == /\ UNCHANGED <<Started, verified, closure, Verifying>>
                     /\ closure => UNCHANGED status
<1>1. ASSUME Pauses PROVE StagesNext
  <2>1. UNCHANGED <<StageOf, Verifying>>
    BY <1>1 DEF StageOf
  <2>2. CASE (status = "active") = (status' = "active")
    BY <2>1, <2>2 DEF StagesNext
  <2>3. CASE (status = "active") # (status' = "active")
    <3>1. StageOf \in {"started", "verified"}
      BY <1>0, <1>1, <2>3 DEF StageOf
    <3>2. Stages!PauseOrGoOn
      BY <2>1, <2>3, <3>1 DEF Stages!PauseOrGoOn
    <3>3. QED
      BY <3>2 DEF StagesNext, Stages!Next
  <2>4. QED
    BY <2>2, <2>3
<1>2. CASE UNCHANGED vars \/ Expiry \/ Environment
  <2>1. UNCHANGED <<records, req>> /\ (UNCHANGED status \/ status \in InProgress)
    BY <1>2 DEF vars, rowVars, Expiry, EndPasses, JobRead, JobExpire, JobGivesUp, Environment,
                RowEnvironment, ReaderLoad, ReaderStore, EntryExpires
  <2>2. Pauses
    BY <1>0, <2>1 DEF records, Started, InProgress, Verifying, At
  <2>3. QED
    BY <1>1, <2>2
<1>3. ASSUME NEW r \in Requests, Step(r)
      PROVE  StagesNext
  <2>0. "idle" \in Pc /\ "cancelling" \in Pc
    BY DEF Pc
  <2>1. CASE ActivateCommit(r)
    <3>1. StageOf = "unstarted" /\ status # "active" /\ status' = "active"
      BY <1>0, <2>1 DEF Inductive, ActivateCommit, OpenTransactions, StageOf, Transition,
                        Writable
    <3>2. StageOf' = "started"
      BY <2>1, <3>1 DEF ActivateCommit, StageOf, Started
    <3>3. UNCHANGED Verifying
      BY <2>0, <2>1, VerifyingEnds DEF ActivateCommit, Go, At
    <3>4. QED
      BY <3>1, <3>2, <3>3 DEF StagesNext, Stages!Next, Stages!Start
  <2>2. CASE VerifyCommit(r)
    <3>1. /\ StageOf' = "verified"
          /\ UNCHANGED (status = "active")
      BY <1>0, <2>2 DEF Inductive, VerifyCommit, ClosedHasRecords, StageOf, At, OpenTransactions
    <3>2. Verifying = TRUE /\ Verifying' = FALSE
      BY <2>0, <2>2, VerifyingEnds DEF VerifyCommit, Go
    <3>3. QED
      BY <3>1, <3>2 DEF StagesNext, Stages!Next, Stages!Verify
  <2>3. CASE CloseCommit(r)
    <3>1. StageOf = "verified" /\ StageOf' = "closed" /\ status' = "closed"
      BY <2>3 DEF Inductive, CloseCommit, StageOf, OpenTransactions, Transition
    <3>2. UNCHANGED Verifying
      BY <2>0, <2>3, VerifyingEnds DEF CloseCommit, Go, At
    <3>3. QED
      BY <3>1, <3>2 DEF StagesNext, Stages!Next, Stages!Close
  <2>4. CASE VerifyInsert(r)
    <3>1. StageOf = "started" /\ status = "active" /\ ~Verifying
      BY <1>0, <2>4 DEF VerifyInsert, VerificationAdmitted, StageOf, Started, Verifying
    <3>2. Verifying'
      BY <2>4 DEF VerifyInsert, Go, GoHaving, Inductive, TypeOK, Verifying, At
    <3>3. UNCHANGED <<StageOf, status>>
      BY <2>4 DEF VerifyInsert, rowVars, records, StageOf, Started
    <3>4. QED
      BY <3>1, <3>2, <3>3 DEF StagesNext, Stages!Next, Stages!Inspect
  <2>5. CASE Fail(r)
    <3>1. UNCHANGED <<StageOf, status>>
      BY <2>5 DEF Fail, rowVars, records, StageOf, Started
    <3>2. UNCHANGED Verifying \/ (Verifying = TRUE /\ Verifying' = FALSE)
      BY <2>0, <2>5, VerifyingEnds DEF Fail, Go
    <3>3. QED
      BY <3>1, <3>2 DEF StagesNext, Stages!Next, Stages!GiveUp
  <2>6. CASE SuspendCommit(r) \/ ResumeCommit(r) \/ CancelExecution(r)
    <3>1. UNCHANGED <<Started, verified, closure>>
      BY <2>6 DEF SuspendCommit, ResumeCommit, CancelExecution, Inductive, RequestsFounded,
                  OnExecution, At, Started
    <3>2. ~closure \/ UNCHANGED status
      BY <1>0, <2>6 DEF SuspendCommit, ResumeCommit, CancelExecution, Transition, Writable,
                        rowVars
    <3>3. UNCHANGED Verifying
      BY <2>0, <2>6, VerifyingEnds DEF SuspendCommit, ResumeCommit, CancelExecution, Go, At
    <3>4. QED
      BY <1>1, <3>1, <3>2, <3>3
  <2>7. CASE /\ UNCHANGED <<execution, verified, closure>> /\ (UNCHANGED status \/ Writable)
             /\ \/ UNCHANGED req
                \/ ~At(r, "verifying") /\ \E pc \in Pc \ {"verifying"} : \E s : GoHaving(r, pc, s)
    <3>1. UNCHANGED Verifying
      BY <2>7, VerifyingEnds DEF Verifying, At
    <3>2. QED
      BY <1>0, <1>1, <2>7, <3>1 DEF Started, Writable
  <2>8. ~Simops(r)
    BY DEF Simops, RejectConflict, SimopsSuspend, SimopsSkip, SimopsHold, Inductive,
           SimopsFollows, At
  <2>9. CASE \/ ApproveRead(r) \/ ApproveCommit(r) \/ VetoRead(r) \/ VetoCommit(r)
             \/ ActivateRead(r) \/ ActivateInsert(r) \/ SuspendRead(r) \/ ResumeRead(r)
             \/ VerifyRead(r) \/ CloseRead(r) \/ CloseInsert(r) \/ RevalidateRead(r)
             \/ RevalidateInsert(r) \/ MdpSuspendRead(r) \/ InsertHold(r) \/ StopPermit(r)
             \/ ContinueRead(r) \/ ContinueHold(r) \/ RestartPermit(r) \/ RequestExtension(r)
             \/ DecideRead(r) \/ DecideExtension(r) \/ Prolong(r) \/ CancelRead(r)
             \/ CancelCommit(r)
    <3>1. UNCHANGED <<execution, verified, closure>> /\ (UNCHANGED status \/ Writable)
      BY <2>9
         DEF ApproveRead, ApproveCommit, VetoRead, VetoCommit, ActivateRead, ActivateInsert,
             SuspendRead, ResumeRead, VerifyRead, CloseRead, CloseInsert, RevalidateRead,
             RevalidateInsert, MdpSuspendRead, InsertHold, StopPermit, ContinueRead, ContinueHold,
             RestartPermit, RequestExtension, DecideRead, DecideExtension, Prolong, CancelRead,
             CancelCommit, Reads, RowReads, Transition, records, rowVars
    <3>2. UNCHANGED req \/ ~At(r, "verifying")
      BY <2>9
         DEF ApproveRead, ApproveCommit, VetoRead, VetoCommit, ActivateRead, ActivateInsert,
             SuspendRead, ResumeRead, VerifyRead, CloseRead, CloseInsert, RevalidateRead,
             RevalidateInsert, MdpSuspendRead, InsertHold, StopPermit, ContinueRead, ContinueHold,
             RestartPermit, RequestExtension, DecideRead, DecideExtension, Prolong, CancelRead,
             CancelCommit, Reads, RowReads, Starts, At
    <3>3. UNCHANGED req \/ \E pc \in Pc \ {"verifying"} : \E s : GoHaving(r, pc, s)
      BY <2>9
         DEF ApproveRead, ApproveCommit, VetoRead, VetoCommit, ActivateRead, ActivateInsert,
             SuspendRead, ResumeRead, VerifyRead, CloseRead, CloseInsert, RevalidateRead,
             RevalidateInsert, MdpSuspendRead, InsertHold, StopPermit, ContinueRead, ContinueHold,
             RestartPermit, RequestExtension, DecideRead, DecideExtension, Prolong, CancelRead,
             CancelCommit, Reads, RowReads, Go, Pc
    <3>4. QED
      BY <2>7, <3>1, <3>2, <3>3
  <2>10. QED
    BY <1>3, <2>1, <2>2, <2>3, <2>4, <2>5, <2>6, <2>8, <2>9
       DEF Step, Approval, Activation, Suspension, Verification, Closure, Revalidation,
           Continuation, Extension, Cancellation
<1>4. QED
  BY <1>2, <1>3 DEF Next

(* The life of a permit implements its stages unless a conflict it takes part in
   is rejected: whatever requests overlap, and whatever they read from Redis, work
   begins by an activation, a verification is begun once and while work is allowed,
   and after the closure nothing happens. *)
THEOREM StagesUnlessRejected == Spec /\ []NoRejection => ImplementsStages
<1>1. Init => Stages!Init
  BY StagesInit
<1>2. Inductive /\ Inductive' /\ NoRejection /\ NoRejection' /\ [Next]_vars
        => StagesNext
  BY StagesStep
<1>3. Spec => []Inductive
  BY InductiveHolds
<1>4. QED
  BY <1>1, <1>2, <1>3, PTL DEF Spec, ImplementsStages, Stages!Spec, StagesNext

(* So it does wherever nobody rejects conflicts. *)
THEOREM LifecycleImplementsStages == WithoutSimops => (Spec => ImplementsStages)
<1> SUFFICES ASSUME WithoutSimops PROVE Spec => ImplementsStages
  OBVIOUS
<1>1. Inductive => NoRejection
  BY DEF Inductive, SimopsFollows, WithoutSimops, NoRejection
<1>2. QED
  BY <1>1, InductiveHolds, StagesUnlessRejected, PTL

(* Whatever operations overlap, a closed permit is never anything else again. *)
THEOREM ClosedIsTheEnd == Spec => [][status = "closed" => status' = "closed"]_vars
<1> DEFINE Ends == status = "closed" => status' = "closed"
<1>1. ASSUME NEW r \in Requests, Step(r) PROVE Ends
  BY <1>1 DEF Step, Approval, Activation, Suspension, Verification, Closure, Revalidation,
           Continuation, Extension, Simops, Cancellation, ApproveRead, ApproveCommit, VetoRead,
           VetoCommit, ActivateRead, ActivateInsert, ActivateCommit, SuspendRead, SuspendCommit,
           ResumeRead, ResumeCommit, VerifyRead, VerifyInsert, VerifyCommit, CloseRead, CloseInsert,
           CloseCommit, RevalidateRead, RevalidateInsert, MdpSuspendRead, InsertHold,
           StopPermit, ContinueRead, ContinueHold, RestartPermit, RequestExtension, DecideRead,
           DecideExtension, Prolong, RejectConflict, SimopsSuspend, SimopsSkip, SimopsHold,
           SimopsStoppable, CancelRead, CancelExecution, CancelCommit, Fail, Reads, RowReads,
           Transition, Writable, rowVars
<1>2. ASSUME Expiry \/ Environment PROVE Ends
  <2>1. UNCHANGED status \/ status \in InProgress
    BY <1>2 DEF rowVars, Expiry, EndPasses, JobRead, JobExpire, JobGivesUp, Environment,
                RowEnvironment, ReaderLoad, ReaderStore, EntryExpires
  <2>2. QED
    BY <2>1 DEF InProgress
<1>3. [Next]_vars => [Ends]_vars
  <2>1. Next => Ends
    BY <1>1, <1>2 DEF Next
  <2>2. QED
    BY <2>1
<1>4. QED
  BY <1>3, PTL DEF Spec
=============================================================================
