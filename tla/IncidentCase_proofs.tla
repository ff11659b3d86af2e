------------------------- MODULE IncidentCase_proofs -------------------------
(***************************************************************************)
(* Proofs about an incident's case, for any number of permits, corrective   *)
(* actions and overlapping requests, and wherever a request breaks off.     *)
(***************************************************************************)
EXTENDS IncidentCase, TLAPS

Request == [pc : Pc, arg : Actions \cup (SUBSET Permits) \cup {Nothing}]

Later == {"reopen", "assign", "assigned", "check", "verify", "complete", "verified",
          "checkClose", "close", "closed", "archive"}

(* What the invariant says of a request. *)
Sound(q) ==
  /\ q.pc \in {"link", "cancel", "cancelNew"} => q.arg \subseteq Permits
  /\ q.pc = "cancel" => Linked \subseteq visited \cup q.arg
  /\ q.pc = "submitted" /\ path = "accident" => Linked \subseteq visited
  /\ q.pc # "idle" => status # "none"
  /\ q.pc \in Later \cup {"decide"} => Submitted
  /\ q.pc \in Later => CaseOpen
  /\ q.pc = "verify" => causes
  /\ q.pc = "complete" => verification
  /\ q.pc \in {"verified", "checkClose", "close", "closed", "archive"}
       => investigation = "completed"
  /\ q.pc = "closed" => closure
  /\ q.pc = "archive" => status = "closed"

Types ==
  /\ status \in Status
  /\ path \in {"near_miss", "accident"}
  /\ direct \in BOOLEAN
  /\ linked \in BOOLEAN
  /\ visited \subseteq Permits
  /\ decision \in {"none", "continue", "stop"}
  /\ investigation \in {"none", "assigned", "in_progress", "completed"}
  /\ causes \in BOOLEAN
  /\ action \in [Actions -> {"none", "open", "completed"}]
  /\ verification \in BOOLEAN
  /\ closure \in BOOLEAN
  /\ archive \in BOOLEAN

Rows == Types /\ AccidentCancels /\ StopIsCarriedOut /\ NearMissIsDecided /\ StatusKnows

LEMMA Parts ==
  Inductive <=> /\ Rows /\ LinkedFirst
                /\ req \in [Requests -> Request] /\ \A r \in Requests : Sound(req[r])
BY DEF Inductive, TypeOK, Types, Rows, LoopsLeft, RequestsKnow, Sound, Request, Later

LEMMA WholeAfter ==
  ASSUME Rows', LinkedFirst', req' \in [Requests -> Request], \A r \in Requests : Sound(req[r])'
  PROVE  Inductive'
BY DEF Inductive, TypeOK, Types, Rows, LoopsLeft, RequestsKnow, Sound, Request, Later

-----------------------------------------------------------------------------
(* Steps of a request *)

(* Records grow. *)
Grows ==
  /\ path' = path
  /\ visited \subseteq visited'
  /\ status # "none" => status' # "none"
  /\ Submitted => Submitted'
  /\ status = "closed" => status' = "closed"
  /\ decision # "none" => decision' # "none"
  /\ investigation = "completed" => investigation' = "completed"
  /\ (causes => causes') /\ (verification => verification') /\ (closure => closure')

LEMMA SoundStays ==
  ASSUME NEW q, Sound(q), Grows,
         linked' = linked \/ q.pc \notin {"cancel", "submitted"}
  PROVE  Sound(q)'
<1>1. CaseOpen => CaseOpen'
  BY DEF CaseOpen, Grows
<1>2. Linked' = Linked \/ q.pc \notin {"cancel", "submitted"}
  BY DEF Linked
<1>3. QED
  BY <1>1, <1>2 DEF Sound, Grows

(* A step of a request keeps the invariant if the rows keep theirs, the request
   becomes a sound one and no permit is linked behind a submission. *)
LEMMA RequestStep ==
  ASSUME Inductive, NEW r \in Requests, Grows, Rows', LinkedFirst',
         \/ linked' = linked
         \/ \A s \in Requests : req[s].pc \notin {"cancel", "submitted"},
         \E q \in Request : Sound(q)' /\ req' = [req EXCEPT ![r] = q]
  PROVE  Inductive'
<1>1. PICK q \in Request : Sound(q)' /\ req' = [req EXCEPT ![r] = q]
  OBVIOUS
<1>2. req' \in [Requests -> Request]
  BY <1>1, Parts
<1>3. ASSUME NEW x \in Requests PROVE Sound(req[x])'
  <2>1. CASE x = r
    <3>1. req'[x] = q
      BY <1>1, <2>1, Parts
    <3>2. QED
      BY <1>1, <3>1 DEF Sound
  <2>2. CASE x # r
    <3>1. PICK y : y = req[x]
      OBVIOUS
    <3>2. Sound(y)'
      BY <3>1, Parts, SoundStays
    <3>3. req'[x] = y
      BY <1>1, <2>2, <3>1, Parts
    <3>4. QED
      BY <3>2, <3>3 DEF Sound
  <2>3. QED
    BY <2>1, <2>2
<1>4. QED
  BY <1>2, <1>3, WholeAfter

(* Most steps link nothing and begin no submission; the status of a draft is
   changed by its submission only. *)
LEMMA PlainStep ==
  ASSUME Inductive, NEW r \in Requests, Grows, Rows', UNCHANGED <<direct, linked>>,
         status' = status \/ Submitted \/ req[r].pc = "submitted",
         \E q \in Request : /\ Sound(q)' /\ q.pc # "link"
                            /\ q.pc \in {"cancel", "submitted"} => req[r].pc = "cancel"
                            /\ req' = [req EXCEPT ![r] = q]
  PROVE  Inductive'
<1>1. PICK q \in Request : /\ Sound(q)' /\ q.pc # "link"
                           /\ q.pc \in {"cancel", "submitted"} => req[r].pc = "cancel"
                           /\ req' = [req EXCEPT ![r] = q]
  OBVIOUS
<1>2. ASSUME NEW x \in Requests, req'[x].pc = "link"
      PROVE  (direct' \/ status' = "draft") /\ \A s \in Requests : req'[s].pc \notin {"cancel", "submitted"}
  <2>1. x # r /\ req[x].pc = "link"
    BY <1>1, <1>2, Parts
  <2>2. direct \/ status = "draft"
    BY <2>1, Parts DEF LinkedFirst
  <2>3. \A s \in Requests : req[s].pc \notin {"cancel", "submitted"}
    BY <2>1, Parts DEF LinkedFirst
  <2>4. direct' \/ status' = "draft"
    BY <2>2, <2>3 DEF Submitted
  <2>5. QED
    BY <1>1, <2>3, <2>4, Parts
<1>3. LinkedFirst'
  BY <1>2 DEF LinkedFirst
<1>4. QED
  BY <1>1, <1>3, RequestStep

LEMMA NothingIsArgument == Nothing \in Actions \cup (SUBSET Permits) \cup {Nothing}
<1>1. \A S, x : x \in S \cup {x}
  OBVIOUS
<1>2. QED
  BY <1>1, Zenon

LEMMA IdleSound == Idle \in Request /\ Idle.pc = "idle" /\ Sound(Idle)'
<1>1. Idle \in Request /\ Idle.pc = "idle"
  BY NothingIsArgument DEF Idle, Request, Pc
<1>2. Idle.pc \notin Later \cup {"link", "cancel", "cancelNew", "submitted", "decide", "verify",
                               "complete", "verified", "checkClose", "close", "closed", "archive"}
  BY <1>1 DEF Later
<1>3. Sound(Idle)'
  BY <1>1, <1>2 DEF Sound
<1>4. QED
  BY <1>1, <1>3

LEMMA Ends ==
  ASSUME Inductive, NEW r \in Requests, NEW from, Step(r, from, "idle")
  PROVE  /\ \E q \in Request : /\ Sound(q)' /\ q.pc # "link"
                               /\ q.pc \in {"cancel", "submitted"} => req[r].pc = "cancel"
                               /\ req' = [req EXCEPT ![r] = q]
         /\ Sound(req[r]) /\ req[r].pc = from
BY Parts, IdleSound DEF Step

LEMMA GoesOn ==
  ASSUME Inductive, NEW r \in Requests, NEW from, NEW to \in Pc \ {"idle"}, Step(r, from, to)
  PROVE  /\ \E q \in Request : /\ q.pc = to /\ q.arg = req[r].arg
                               /\ req' = [req EXCEPT ![r] = q]
         /\ Sound(req[r]) /\ req[r].pc = from
<1>1. req[r] \in Request /\ Sound(req[r])
  BY Parts
<1>2. [req[r] EXCEPT !.pc = to] \in Request
  BY <1>1 DEF Request
<1>3. \E q \in Request : q.pc = to /\ q.arg = req[r].arg /\ req' = [req EXCEPT ![r] = q]
  <2>1. WITNESS [req[r] EXCEPT !.pc = to] \in Request
  <2>2. QED
    BY <1>1, Parts DEF Step, Request
<1>4. QED
  BY <1>1, <1>3 DEF Step

LEMMA SameRows ==
  ASSUME Inductive, UNCHANGED <<status, report, visited, decision, inquiry, ending>>
  PROVE  Grows /\ Rows' /\ UNCHANGED <<direct, linked, status>>
<1> USE Parts DEF report, inquiry, ending
<1>1. Grows
  BY DEF Grows, Submitted
<1>2. Rows'
  BY DEF Rows, Types, AccidentCancels, StopIsCarriedOut, NearMissIsDecided, StatusKnows,
         Linked, Submitted
<1>3. QED
  BY <1>1, <1>2

(* A request that begins and is sound begins. *)
LEMMA Begins ==
  ASSUME Inductive, NEW r \in Requests, NEW pc \in Pc \ {"link", "cancel", "submitted"},
         NEW arg \in Actions \cup (SUBSET Permits) \cup {Nothing},
         Begin(r, pc, arg), Sound([pc |-> pc, arg |-> arg]),
         UNCHANGED <<status, report, visited, decision, inquiry, ending>>
  PROVE  Inductive'
<1>1. PICK q \in Request : q = [pc |-> pc, arg |-> arg]
  BY DEF Request
<1>2. Grows /\ Rows' /\ UNCHANGED <<direct, linked, status>>
  BY SameRows
<1>3. Sound(q)'
  BY <1>1, <1>2, SoundStays
<1>4. q.pc # "link" /\ q.pc \notin {"cancel", "submitted"} /\ req' = [req EXCEPT ![r] = q]
  BY <1>1 DEF Begin
<1>5. QED
  BY <1>2, <1>3, <1>4, PlainStep

-----------------------------------------------------------------------------
(* Requests that read or check *)

LEMMA Reads ==
  ASSUME Inductive, NEW r \in Requests,
         \/ DecideRead(r) \/ AssignRead(r) \/ CauseRead(r) \/ AddActionRead(r)
         \/ SetActionRead(r) \/ VerifyRead(r) \/ CloseRead(r)
  PROVE  Inductive'
<1> USE DEF Pc
<1> DEFINE Fresh(pc, arg) == [pc |-> pc, arg |-> arg]
<1>1. StatusKnows /\ NearMissIsDecided /\ path \in {"near_miss", "accident"}
  BY Parts DEF Rows, Types
<1>2. CASE DecideRead(r)
  <2>1. Sound(Fresh("decide", Nothing))
    BY <1>2 DEF Sound, DecideRead, Submitted, Later
  <2>2. QED
    BY <1>2, <2>1, NothingIsArgument, Begins DEF DecideRead
<1>3. CASE AssignRead(r)
  <2>1. Sound(Fresh("assign", Nothing))
    BY <1>1, <1>3 DEF Sound, AssignRead, Submitted, Later, CaseOpen, NearMissIsDecided
  <2>2. QED
    BY <1>3, <2>1, NothingIsArgument, Begins DEF AssignRead
<1>4. CASE CauseRead(r)
  <2>1. Sound(Fresh("cause", Nothing))
    BY <1>1, <1>4 DEF Sound, CauseRead, Later, InvestigationOpen, StatusKnows
  <2>2. QED
    BY <1>4, <2>1, NothingIsArgument, Begins DEF CauseRead
<1>5. CASE AddActionRead(r)
  <2>1. PICK a \in Actions : Begin(r, "addAction", a)
    BY <1>5 DEF AddActionRead
  <2>2. Sound(Fresh("addAction", a))
    BY <1>1, <1>5 DEF Sound, AddActionRead, Later, InvestigationOpen, StatusKnows
  <2>3. QED
    BY <1>5, <2>1, <2>2, Begins DEF AddActionRead
<1>6. CASE SetActionRead(r)
  <2>1. PICK a \in Actions : Begin(r, "setAction", a)
    BY <1>6 DEF SetActionRead
  <2>2. Sound(Fresh("setAction", a))
    BY <1>1, <1>6 DEF Sound, SetActionRead, Later, InvestigationOpen, StatusKnows
  <2>3. QED
    BY <1>6, <2>1, <2>2, Begins DEF SetActionRead
<1>7. CASE VerifyRead(r)
  <2>1. Sound(Fresh("check", Nothing))
    BY <1>1, <1>7 DEF Sound, VerifyRead, Submitted, Later, CaseOpen, NearMissIsDecided
  <2>2. QED
    BY <1>7, <2>1, NothingIsArgument, Begins DEF VerifyRead
<1>8. CASE CloseRead(r)
  <2>1. Sound(Fresh("checkClose", Nothing))
    BY <1>1, <1>8 DEF Sound, CloseRead, Submitted, Later, CaseOpen, NearMissIsDecided, StatusKnows
  <2>2. QED
    BY <1>8, <2>1, NothingIsArgument, Begins DEF CloseRead
<1>9. QED
  BY <1>2, <1>3, <1>4, <1>5, <1>6, <1>7, <1>8

LEMMA VerifyCheckStep ==
  ASSUME Inductive, NEW r \in Requests, VerifyCheck(r)
  PROVE  Inductive'
<1>1. PICK q \in Request : q.pc = "verify" /\ req' = [req EXCEPT ![r] = q]
  BY GoesOn DEF VerifyCheck, Pc
<1>2. Sound(req[r]) /\ req[r].pc = "check"
  BY GoesOn DEF VerifyCheck, Pc
<1>3. Grows /\ Rows' /\ UNCHANGED <<direct, linked, status>>
  BY SameRows DEF VerifyCheck
<1>4. Sound(q)
  BY <1>1, <1>2 DEF Sound, Later, VerifyCheck, ReadyToVerify
<1>5. Sound(q)'
  BY <1>3, <1>4, SoundStays
<1>6. QED
  BY <1>1, <1>3, <1>5, PlainStep

LEMMA CloseCheckStep ==
  ASSUME Inductive, NEW r \in Requests, CloseCheck(r)
  PROVE  Inductive'
<1>1. PICK q \in Request : q.pc = "close" /\ req' = [req EXCEPT ![r] = q]
  BY GoesOn DEF CloseCheck, Pc
<1>2. Sound(req[r]) /\ req[r].pc = "checkClose"
  BY GoesOn DEF CloseCheck, Pc
<1>3. Grows /\ Rows' /\ UNCHANGED <<direct, linked, status>>
  BY SameRows DEF CloseCheck
<1>4. Sound(q)
  BY <1>1, <1>2 DEF Sound, Later
<1>5. Sound(q)'
  BY <1>3, <1>4, SoundStays
<1>6. QED
  BY <1>1, <1>3, <1>5, PlainStep

LEMMA FailStep ==
  ASSUME Inductive, NEW r \in Requests, Fail(r)
  PROVE  Inductive'
<1>1. Grows /\ Rows' /\ UNCHANGED <<direct, linked, status>>
  BY SameRows DEF Fail
<1>2. QED
  BY <1>1, IdleSound, PlainStep DEF Fail

-----------------------------------------------------------------------------
(* Requests that cancel permits *)

LEMMA CancelOneStep ==
  ASSUME Inductive, NEW r \in Requests, CancelOne(r)
  PROVE  Inductive'
<1> USE DEF CancelOne, report, inquiry, ending
<1>1. PICK p \in req[r].arg : /\ req' = [req EXCEPT ![r].arg = @ \ {p}]
                              /\ visited' = visited \cup {p}
  OBVIOUS
<1>2. req[r] \in Request /\ Sound(req[r]) /\ req[r].pc \in {"cancel", "cancelNew"}
  BY Parts
<1>3. req[r].arg \subseteq Permits /\ p \in Permits
  BY <1>1, <1>2 DEF Sound
<1>4. PICK q : q = [req[r] EXCEPT !.arg = @ \ {p}]
  OBVIOUS
<1>5. q.pc = req[r].pc /\ q.arg = req[r].arg \ {p} /\ req' = [req EXCEPT ![r] = q]
  BY <1>1, <1>2, <1>4, Parts DEF Request
<1>6. q \in Request
  BY <1>2, <1>3, <1>4 DEF Request
<1>7. Grows
  BY <1>1 DEF Grows, Submitted
<1>8. Rows'
  BY <1>1, <1>3, Parts DEF Rows, Types, AccidentCancels, StopIsCarriedOut, NearMissIsDecided,
                           StatusKnows, Linked, Submitted
<1>9. q.arg \subseteq Permits /\ (q.pc = "cancel" => Linked \subseteq visited' \cup q.arg)
  BY <1>1, <1>2, <1>3, <1>5 DEF Sound
<1>10. q.pc \notin Later \cup {"link", "submitted", "idle", "decide", "verify", "complete", "verified",
                              "checkClose", "close", "closed", "archive"}
  BY <1>2, <1>5 DEF Later
<1>11. status' # "none" /\ Linked' = Linked
  BY <1>2 DEF Sound, Linked
<1>12. Sound(q)'
  BY <1>9, <1>10, <1>11 DEF Sound
<1>13. QED
  BY <1>2, <1>5, <1>6, <1>7, <1>8, <1>10, <1>12, PlainStep

LEMMA CancelledStep ==
  ASSUME Inductive, NEW r \in Requests, Cancelled(r)
  PROVE  Inductive'
<1>1. Grows /\ Rows' /\ UNCHANGED <<direct, linked, status>>
  BY SameRows DEF Cancelled
<1>2. CASE Step(r, "cancel", "submitted")
  <2>1. PICK q \in Request : q.pc = "submitted" /\ req' = [req EXCEPT ![r] = q]
    BY <1>2, GoesOn DEF Pc
  <2>2. Sound(req[r]) /\ req[r].pc = "cancel"
    BY <1>2, GoesOn DEF Pc
  <2>3. Linked \subseteq visited
    BY <2>2 DEF Sound, Cancelled, AllVisited
  <2>4. Sound(q)
    BY <2>1, <2>2, <2>3 DEF Sound, Later
  <2>5. Sound(q)'
    BY <1>1, <2>4, SoundStays
  <2>6. QED
    BY <1>1, <2>1, <2>2, <2>5, PlainStep
<1>3. CASE Step(r, "cancelNew", "idle")
  BY <1>1, <1>3, Ends, PlainStep
<1>4. QED
  BY <1>2, <1>3 DEF Cancelled

-----------------------------------------------------------------------------
(* Requests that write the status *)

(* A case that is decided or needs no decision may take any later status. *)
LEMMA NewStatus ==
  ASSUME Inductive, UNCHANGED <<report, visited, decision, inquiry, ending>>,
         Submitted, CaseOpen, status # "closed",
         status' \in Status \ {"none", "draft"},
         status' \in {"verified", "closed"} => investigation = "completed"
  PROVE  Grows /\ Rows' /\ UNCHANGED <<direct, linked>>
<1> USE Parts DEF report, inquiry, ending
<1>1. Grows
  BY DEF Grows, Submitted
<1>2. Types' /\ StatusKnows'
  BY DEF Rows, Types, StatusKnows, Submitted
<1>3. AccidentCancels' /\ StopIsCarriedOut' /\ NearMissIsDecided'
  BY DEF Rows, Types, AccidentCancels, StopIsCarriedOut, NearMissIsDecided, Linked, Submitted, CaseOpen
<1>4. QED
  BY <1>1, <1>2, <1>3 DEF Rows

LEMMA StatusWrites ==
  ASSUME Inductive, NEW r \in Requests,
         Reopen(r) \/ AssignWrite(r) \/ VerifyWrite(r)
  PROVE  Inductive'
<1>1. CASE Reopen(r)
  <2>1. Submitted /\ CaseOpen
    BY <1>1, Ends DEF Reopen, Sound, Later
  <2>2. Grows /\ Rows' /\ UNCHANGED <<direct, linked>>
    BY <1>1, <2>1, NewStatus DEF Reopen, WriteStatus, Status
  <2>3. QED
    BY <1>1, <2>1, <2>2, Ends, PlainStep DEF Reopen
<1>2. CASE AssignWrite(r)
  <2>1. Submitted /\ CaseOpen
    BY <1>2, Ends DEF AssignWrite, Sound, Later
  <2>2. Grows /\ Rows' /\ UNCHANGED <<direct, linked>>
    BY <1>2, <2>1, NewStatus DEF AssignWrite, WriteStatus, Status
  <2>3. QED
    BY <1>2, <2>1, <2>2, Ends, PlainStep DEF AssignWrite
<1>3. CASE VerifyWrite(r)
  <2>1. Submitted /\ CaseOpen /\ investigation = "completed"
    BY <1>3, Ends DEF VerifyWrite, Sound, Later
  <2>2. Grows /\ Rows' /\ UNCHANGED <<direct, linked>>
    BY <1>3, <2>1, NewStatus DEF VerifyWrite, WriteStatus, Status
  <2>3. QED
    BY <1>3, <2>1, <2>2, Ends, PlainStep DEF VerifyWrite
<1>4. QED
  BY <1>1, <1>2, <1>3

LEMMA SubmitWriteStep ==
  ASSUME Inductive, NEW r \in Requests, SubmitWrite(r)
  PROVE  Inductive'
<1> USE Parts DEF report, inquiry, ending
<1>1. Sound(req[r]) /\ req[r].pc = "submitted"
  BY Ends DEF SubmitWrite
<1>2. status # "closed" /\ status # "none" /\ status' = SubmittedStatus
  BY <1>1 DEF SubmitWrite, WriteStatus, Sound
<1>3. status' \in {"open", "pending_hod_decision"} /\ (path = "near_miss" => status' = "pending_hod_decision")
  BY <1>2 DEF SubmittedStatus
<1>4. UNCHANGED <<path, direct, linked, visited, decision, investigation, causes, action,
                  verification, closure, archive>>
  BY DEF SubmitWrite
<1>5. path = "accident" => Linked' \subseteq visited'
  BY <1>1, <1>4 DEF Sound, Linked
<1>6. Grows
  BY <1>2, <1>3, <1>4 DEF Grows, Submitted
<1>7. Types' /\ StatusKnows'
  BY <1>2, <1>3, <1>4 DEF Rows, Types, StatusKnows, Status, Submitted
<1>8. AccidentCancels' /\ StopIsCarriedOut' /\ NearMissIsDecided'
  BY <1>3, <1>4, <1>5 DEF Rows, Types, AccidentCancels, StopIsCarriedOut, NearMissIsDecided, Linked
<1>9. QED
  BY <1>1, <1>4, <1>6, <1>7, <1>8, Ends, PlainStep DEF SubmitWrite, Rows

LEMMA CloseWriteStep ==
  ASSUME Inductive, NEW r \in Requests, CloseWrite(r)
  PROVE  Inductive'
<1>1. PICK q \in Request : q.pc = "archive" /\ req' = [req EXCEPT ![r] = q]
  BY GoesOn DEF CloseWrite, Pc
<1>2. Sound(req[r]) /\ req[r].pc = "closed"
  BY GoesOn DEF CloseWrite, Pc
<1>3. Submitted /\ CaseOpen /\ investigation = "completed"
  BY <1>2 DEF Sound, Later
<1>4. status # "closed" /\ status' = "closed" /\ UNCHANGED <<report, visited, decision, inquiry, ending>>
  BY DEF CloseWrite, WriteStatus
<1>5. Grows /\ Rows' /\ UNCHANGED <<direct, linked>>
  BY <1>3, <1>4, NewStatus DEF Status
<1>6. Submitted' /\ CaseOpen' /\ investigation' = "completed"
  BY <1>3, <1>4 DEF Submitted, CaseOpen, inquiry, report
<1>7. Sound(q)'
  BY <1>1, <1>4, <1>6 DEF Sound
<1>8. QED
  BY <1>1, <1>3, <1>5, <1>7, PlainStep

-----------------------------------------------------------------------------
(* Requests that write a record *)

LEMMA DecideCommitStep ==
  ASSUME Inductive, NEW r \in Requests, DecideCommit(r)
  PROVE  Inductive'
<1> USE Parts DEF report, inquiry, ending
<1>1. PICK q \in Request : q.pc = "reopen" /\ req' = [req EXCEPT ![r] = q]
  BY GoesOn DEF DecideCommit, Pc
<1>2. Sound(req[r]) /\ req[r].pc = "decide"
  BY GoesOn DEF DecideCommit, Pc
<1>3. Submitted /\ status # "none"
  BY <1>2 DEF Sound, Later
<1>4. UNCHANGED <<status, path, direct, linked, investigation, causes, action,
                  verification, closure, archive>>
  BY DEF DecideCommit
<1>5. /\ decision = "none" /\ decision' \in {"continue", "stop"}
      /\ visited' \in {visited, visited \cup Linked}
      /\ decision' = "stop" => Linked \subseteq visited'
  BY DEF DecideCommit, StopCancels
<1>6. Linked' = Linked /\ Linked \subseteq Permits
  BY <1>4 DEF Linked
<1>7. visited \subseteq visited' /\ visited' \subseteq Permits
  BY <1>5, <1>6 DEF Rows, Types
<1>8. Grows
  BY <1>4, <1>5, <1>7 DEF Grows, Submitted
<1>9. Types' /\ StatusKnows'
  BY <1>3, <1>4, <1>5, <1>7 DEF Rows, Types, StatusKnows, Submitted
<1>10. AccidentCancels' /\ StopIsCarriedOut' /\ NearMissIsDecided'
  BY <1>4, <1>5, <1>6, <1>7 DEF Rows, Types, AccidentCancels, StopIsCarriedOut, NearMissIsDecided
<1>11. Submitted' /\ CaseOpen' /\ status' # "none"
  BY <1>3, <1>4, <1>5 DEF Submitted, CaseOpen
<1>12. Sound(q)'
  BY <1>1, <1>11 DEF Sound
<1>13. QED
  BY <1>1, <1>4, <1>8, <1>9, <1>10, <1>12, PlainStep DEF Rows

(* Records of the investigation and of the end of the case. *)
LEMMA NewRecord ==
  ASSUME Inductive, UNCHANGED <<status, report, visited, decision>>,
         investigation' \in {investigation, "assigned", "in_progress", "completed"},
         investigation = "completed" => investigation' = "completed",
         status # "none",
         causes' \in BOOLEAN, action' \in [Actions -> {"none", "open", "completed"}],
         verification' \in BOOLEAN, closure' \in BOOLEAN, archive' \in BOOLEAN,
         (causes => causes') /\ (verification => verification') /\ (closure => closure')
  PROVE  Grows /\ Rows' /\ UNCHANGED <<status, direct, linked>>
<1> USE Parts DEF report
<1>1. Grows
  BY DEF Grows, Submitted
<1>2. Types' /\ StatusKnows'
  BY DEF Rows, Types, StatusKnows, Submitted
<1>3. AccidentCancels' /\ StopIsCarriedOut' /\ NearMissIsDecided'
  BY DEF Rows, AccidentCancels, StopIsCarriedOut, NearMissIsDecided, Linked
<1>4. QED
  BY <1>1, <1>2, <1>3 DEF Rows

LEMMA LastRecords ==
  ASSUME Inductive, NEW r \in Requests,
         CauseWrite(r) \/ AddActionInsert(r) \/ SetActionWrite(r) \/ ArchiveInsert(r)
  PROVE  Inductive'
<1> USE Parts DEF inquiry, ending, Rows, Types
<1>1. CASE CauseWrite(r)
  <2>1. status # "none"
    BY <1>1, Ends DEF CauseWrite, Sound
  <2>2. Grows /\ Rows' /\ UNCHANGED <<status, direct, linked>>
    BY <1>1, <2>1, NewRecord DEF CauseWrite
  <2>3. QED
    BY <1>1, <2>2, Ends, PlainStep DEF CauseWrite
<1>2. CASE AddActionInsert(r)
  <2>1. status # "none"
    BY <1>2, Ends DEF AddActionInsert, Sound
  <2>2. Grows /\ Rows' /\ UNCHANGED <<status, direct, linked>>
    BY <1>2, <2>1, NewRecord DEF AddActionInsert
  <2>3. QED
    BY <1>2, <2>2, Ends, PlainStep DEF AddActionInsert
<1>3. CASE SetActionWrite(r)
  <2>1. status # "none"
    BY <1>3, Ends DEF SetActionWrite, Sound
  <2>2. Grows /\ Rows' /\ UNCHANGED <<status, direct, linked>>
    BY <1>3, <2>1, NewRecord DEF SetActionWrite
  <2>3. QED
    BY <1>3, <2>2, Ends, PlainStep DEF SetActionWrite
<1>4. CASE ArchiveInsert(r)
  <2>1. status # "none"
    BY <1>4, Ends DEF ArchiveInsert, Sound
  <2>2. Grows /\ Rows' /\ UNCHANGED <<status, direct, linked>>
    BY <1>4, <2>1, NewRecord DEF ArchiveInsert
  <2>3. QED
    BY <1>4, <2>2, Ends, PlainStep DEF ArchiveInsert
<1>5. QED
  BY <1>1, <1>2, <1>3, <1>4

LEMMA AssignInsertStep ==
  ASSUME Inductive, NEW r \in Requests, AssignInsert(r)
  PROVE  Inductive'
<1>1. PICK q \in Request : q.pc = "assigned" /\ req' = [req EXCEPT ![r] = q]
  BY GoesOn DEF AssignInsert, Pc
<1>2. Sound(req[r]) /\ req[r].pc = "assign"
  BY GoesOn DEF AssignInsert, Pc
<1>3. status # "none"
  BY <1>2 DEF Sound
<1>4. Grows /\ Rows' /\ UNCHANGED <<status, direct, linked>>
  BY <1>3, NewRecord, Parts DEF AssignInsert, ending, Rows, Types
<1>5. Sound(q)
  BY <1>1, <1>2 DEF Sound, Later
<1>6. Sound(q)'
  BY <1>4, <1>5, SoundStays
<1>7. QED
  BY <1>1, <1>4, <1>6, PlainStep

LEMMA CauseInsertStep ==
  ASSUME Inductive, NEW r \in Requests, CauseInsert(r)
  PROVE  Inductive'
<1>1. PICK q \in Request : q.pc = "caused" /\ req' = [req EXCEPT ![r] = q]
  BY GoesOn DEF CauseInsert, Pc
<1>2. Sound(req[r]) /\ req[r].pc = "cause"
  BY GoesOn DEF CauseInsert, Pc
<1>3. status # "none"
  BY <1>2 DEF Sound
<1>4. Grows /\ Rows' /\ UNCHANGED <<status, direct, linked>>
  BY <1>3, NewRecord, Parts DEF CauseInsert, ending, Rows, Types
<1>5. Sound(q)
  BY <1>1, <1>3 DEF Sound, Later
<1>6. Sound(q)'
  BY <1>4, <1>5, SoundStays
<1>7. QED
  BY <1>1, <1>4, <1>6, PlainStep

LEMMA VerifyInsertStep ==
  ASSUME Inductive, NEW r \in Requests, VerifyInsert(r)
  PROVE  Inductive'
<1>1. PICK q \in Request : q.pc = "complete" /\ req' = [req EXCEPT ![r] = q]
  BY GoesOn DEF VerifyInsert, Pc
<1>2. Sound(req[r]) /\ req[r].pc = "verify"
  BY GoesOn DEF VerifyInsert, Pc
<1>3. status # "none" /\ Submitted /\ CaseOpen
  BY <1>2 DEF Sound, Later
<1>4. Grows /\ Rows' /\ UNCHANGED <<status, direct, linked>>
  BY <1>3, NewRecord, Parts DEF VerifyInsert, inquiry, Rows, Types
<1>5. status' # "none" /\ Submitted' /\ CaseOpen' /\ verification'
  BY <1>3, <1>4 DEF VerifyInsert, Submitted, CaseOpen, Grows
<1>6. Sound(q)'
  BY <1>1, <1>5 DEF Sound
<1>7. QED
  BY <1>1, <1>4, <1>6, PlainStep

LEMMA CompleteInvestigationStep ==
  ASSUME Inductive, NEW r \in Requests, CompleteInvestigation(r)
  PROVE  Inductive'
<1>1. PICK q \in Request : q.pc = "verified" /\ req' = [req EXCEPT ![r] = q]
  BY GoesOn DEF CompleteInvestigation, Pc
<1>2. Sound(req[r]) /\ req[r].pc = "complete"
  BY GoesOn DEF CompleteInvestigation, Pc
<1>3. status # "none" /\ Submitted /\ CaseOpen
  BY <1>2 DEF Sound, Later
<1>4. Grows /\ Rows' /\ UNCHANGED <<status, direct, linked>>
  BY <1>3, NewRecord, Parts DEF CompleteInvestigation, ending, Rows, Types
<1>5. status' # "none" /\ Submitted' /\ CaseOpen' /\ investigation' = "completed"
  BY <1>3, <1>4 DEF CompleteInvestigation, Submitted, CaseOpen, Grows
<1>6. Sound(q)'
  BY <1>1, <1>5 DEF Sound
<1>7. QED
  BY <1>1, <1>4, <1>6, PlainStep

LEMMA CloseInsertStep ==
  ASSUME Inductive, NEW r \in Requests, CloseInsert(r)
  PROVE  Inductive'
<1>1. PICK q \in Request : q.pc = "closed" /\ req' = [req EXCEPT ![r] = q]
  BY GoesOn DEF CloseInsert, Pc
<1>2. Sound(req[r]) /\ req[r].pc = "close"
  BY GoesOn DEF CloseInsert, Pc
<1>3. status # "none" /\ Submitted /\ CaseOpen /\ investigation = "completed"
  BY <1>2 DEF Sound, Later
<1>4. Grows /\ Rows' /\ UNCHANGED <<status, direct, linked>>
  BY <1>3, NewRecord, Parts DEF CloseInsert, inquiry, Rows, Types
<1>5. status' # "none" /\ Submitted' /\ CaseOpen' /\ investigation' = "completed" /\ closure'
  BY <1>3, <1>4 DEF CloseInsert, Submitted, CaseOpen, Grows
<1>6. Sound(q)'
  BY <1>1, <1>5 DEF Sound
<1>7. QED
  BY <1>1, <1>4, <1>6, PlainStep

-----------------------------------------------------------------------------
(* Report and submission: these may link permits or begin a cancellation *)

LEMMA CreateStep ==
  ASSUME Inductive, NEW r \in Requests, CreateDraft(r) \/ CreateSubmitted(r)
  PROVE  Inductive'
<1> USE Parts DEF report, inquiry, ending
<1>1. PICK a \in {{}, Permits} : Begin(r, "link", a)
  BY DEF CreateDraft, CreateSubmitted
<1>2. PICK q : q = [pc |-> "link", arg |-> a]
  OBVIOUS
<1>3. q \in Request /\ q.pc = "link" /\ q.arg \subseteq Permits /\ req' = [req EXCEPT ![r] = q]
  BY <1>1, <1>2 DEF Begin, Request, Pc
<1>4. /\ status = "none" /\ UNCHANGED <<path, linked, visited, decision, inquiry, ending>>
      /\ direct' \in BOOLEAN /\ status' \in {"draft", "open", "pending_hod_decision"}
      /\ status' = "draft" \/ direct'
      /\ status' = "open" => path = "accident"
  BY DEF CreateDraft, CreateSubmitted, Rows, Types
<1>5. \A s \in Requests : req[s].pc = "idle"
  BY <1>4 DEF Sound
<1>6. decision = "none" /\ investigation # "completed"
  BY <1>4 DEF Rows, StatusKnows, Submitted
<1>7. Grows
  BY <1>4 DEF Grows, Submitted
<1>8. Types' /\ StatusKnows'
  BY <1>4, <1>6 DEF Rows, Types, Status, StatusKnows, Submitted
<1>9. AccidentCancels' /\ StopIsCarriedOut' /\ NearMissIsDecided'
  BY <1>4, <1>6 DEF Rows, Types, AccidentCancels, StopIsCarriedOut, NearMissIsDecided
<1>10. \A s \in Requests : req'[s].pc \in {"idle", "link"}
  BY <1>3, <1>5
<1>11. LinkedFirst'
  BY <1>4, <1>10 DEF LinkedFirst
<1>12. Sound(q)'
  BY <1>3, <1>4 DEF Sound, Later
<1>13. QED
  BY <1>3, <1>4, <1>7, <1>8, <1>9, <1>11, <1>12, RequestStep DEF Rows

LEMMA LinkStep ==
  ASSUME Inductive, NEW r \in Requests, Link(r)
  PROVE  Inductive'
<1> USE Parts DEF report, inquiry, ending
<1>1. /\ req[r].pc = "link" /\ req[r] \in Request /\ Sound(req[r])
      /\ linked' = TRUE
      /\ UNCHANGED <<status, path, direct, visited, decision, inquiry, ending>>
  BY DEF Link, Step
<1>2. /\ direct \/ status = "draft"
      /\ status # "none"
      /\ \A s \in Requests : req[s].pc \notin {"cancel", "submitted"}
  BY <1>1 DEF LinkedFirst, Sound
<1>3. Grows
  BY <1>1 DEF Grows, Submitted
<1>4. Types' /\ StatusKnows'
  BY <1>1 DEF Rows, Types, StatusKnows, Submitted
<1>5. AccidentCancels' /\ StopIsCarriedOut' /\ NearMissIsDecided'
  BY <1>1, <1>2 DEF Rows, AccidentCancels, StopIsCarriedOut, NearMissIsDecided, StatusKnows, Submitted
<1>6. \E q \in Request : q.pc \in {"idle", "cancelNew"} /\ Sound(q)' /\ req' = [req EXCEPT ![r] = q]
  <2>1. CASE direct /\ path = "accident"
    <3>1. PICK q : q = [req[r] EXCEPT !.pc = "cancelNew"]
      OBVIOUS
    <3>2. q \in Request /\ q.pc = "cancelNew" /\ q.arg = req[r].arg
      BY <1>1, <3>1 DEF Request, Pc
    <3>3. req' = [req EXCEPT ![r] = q]
      BY <2>1, <3>1 DEF Link, Step
    <3>4. Sound(q)'
      BY <1>1, <1>2, <3>2 DEF Sound, Later
    <3>5. QED
      BY <3>2, <3>3, <3>4
  <2>2. CASE ~(direct /\ path = "accident")
    BY <2>2, IdleSound DEF Link, Step
  <2>3. QED
    BY <2>1, <2>2
<1>7. LinkedFirst'
  BY <1>1, <1>2, <1>6 DEF LinkedFirst
<1>8. QED
  BY <1>2, <1>3, <1>4, <1>5, <1>6, <1>7, RequestStep DEF Rows

LEMMA SubmitReadStep ==
  ASSUME Inductive, NEW r \in Requests, SubmitRead(r)
  PROVE  Inductive'
<1>1. Grows /\ Rows' /\ UNCHANGED <<direct, linked, status>>
  BY SameRows DEF SubmitRead
<1>2. status = "draft" /\ \A s \in Requests : req[s].pc # "link"
  BY DEF SubmitRead
<1>3. Linked \subseteq Permits
  BY DEF Linked
<1>4. \E q \in Request : q.pc \in {"cancel", "submitted"} /\ Sound(q) /\ req' = [req EXCEPT ![r] = q]
  <2>1. CASE path = "accident"
    <3>1. PICK q : q = [pc |-> "cancel", arg |-> Linked]
      OBVIOUS
    <3>2. q \in Request
      BY <1>3, <3>1 DEF Request, Pc
    <3>3. Sound(q)
      BY <1>2, <1>3, <3>1 DEF Sound, Later
    <3>4. QED
      BY <2>1, <3>1, <3>2, <3>3 DEF SubmitRead, Begin
  <2>2. CASE path # "accident"
    <3>1. PICK q : q = [pc |-> "submitted", arg |-> {}]
      OBVIOUS
    <3>2. q \in Request
      BY <3>1 DEF Request, Pc
    <3>3. Sound(q)
      BY <1>2, <2>2, <3>1 DEF Sound, Later
    <3>4. QED
      BY <2>2, <3>1, <3>2, <3>3 DEF SubmitRead, Begin
  <2>3. QED
    BY <2>1, <2>2
<1>5. \E q \in Request : q.pc \in {"cancel", "submitted"} /\ Sound(q)' /\ req' = [req EXCEPT ![r] = q]
  BY <1>1, <1>4, SoundStays
<1>6. LinkedFirst'
  BY <1>2, <1>5, Parts DEF LinkedFirst
<1>7. QED
  BY <1>1, <1>5, <1>6, RequestStep

-----------------------------------------------------------------------------
(* The invariant *)

LEMMA InitInductive ==
  ASSUME Init
  PROVE  Inductive
<1>1. Rows
  BY DEF Init, Rows, Types, AccidentCancels, StopIsCarriedOut, NearMissIsDecided, StatusKnows,
         Status, Linked
<1>2. Idle \in Request /\ Idle.pc = "idle"
  BY IdleSound
<1>3. req \in [Requests -> Request] /\ \A r \in Requests : req[r].pc = "idle"
  BY <1>2 DEF Init
<1>4. LinkedFirst
  BY <1>3 DEF LinkedFirst
<1>5. \A r \in Requests : Sound(req[r])
  BY <1>3 DEF Sound, Later
<1>6. QED
  BY <1>1, <1>3, <1>4, <1>5, Parts

LEMMA StutterInductive ==
  ASSUME Inductive, UNCHANGED vars
  PROVE  Inductive'
BY DEF Inductive, TypeOK, AccidentCancels, StopIsCarriedOut, NearMissIsDecided, StatusKnows,
       LinkedFirst, LoopsLeft, RequestsKnow, Submitted, CaseOpen, Linked,
       vars, report, inquiry, ending

LEMMA StepInductive ==
  ASSUME Inductive, [Next]_vars
  PROVE  Inductive'
<1>1. ASSUME NEW r \in Requests,
             \/ CreateDraft(r) \/ CreateSubmitted(r) \/ Link(r)
             \/ SubmitRead(r) \/ CancelOne(r) \/ Cancelled(r) \/ SubmitWrite(r)
             \/ DecideRead(r) \/ DecideCommit(r) \/ Reopen(r)
      PROVE  Inductive'
  BY <1>1, CreateStep, LinkStep, SubmitReadStep, CancelOneStep, CancelledStep, SubmitWriteStep,
     Reads, DecideCommitStep, StatusWrites
<1>2. ASSUME NEW r \in Requests,
             \/ AssignRead(r) \/ AssignInsert(r) \/ AssignWrite(r)
             \/ CauseRead(r) \/ CauseInsert(r) \/ CauseWrite(r)
             \/ AddActionRead(r) \/ AddActionInsert(r)
             \/ SetActionRead(r) \/ SetActionWrite(r)
      PROVE  Inductive'
  BY <1>2, Reads, AssignInsertStep, StatusWrites, CauseInsertStep, LastRecords
<1>3. ASSUME NEW r \in Requests,
             \/ VerifyRead(r) \/ VerifyCheck(r) \/ VerifyInsert(r)
             \/ CompleteInvestigation(r) \/ VerifyWrite(r)
             \/ CloseRead(r) \/ CloseCheck(r) \/ CloseInsert(r) \/ CloseWrite(r)
             \/ ArchiveInsert(r) \/ Fail(r)
      PROVE  Inductive'
  BY <1>3, Reads, VerifyCheckStep, VerifyInsertStep, CompleteInvestigationStep, StatusWrites,
     CloseCheckStep, CloseInsertStep, CloseWriteStep, LastRecords, FailStep
<1>4. QED
  BY <1>1, <1>2, <1>3, StutterInductive DEF Next

(* The invariant that carries the others: what a request has read, checked or
   written stays true until it uses it, whatever the other requests do. *)
THEOREM InductiveHolds == Spec => []Inductive
<1>1. Init => Inductive
  BY InitInductive
<1>2. Inductive /\ [Next]_vars => Inductive'
  BY StepInductive
<1>3. QED
  BY <1>1, <1>2, PTL DEF Spec

(* No accident reported as a draft is ever submitted with a linked permit that
   the cancellation has not dealt with. *)
THEOREM AccidentsCancel == Spec => []AccidentCancels
<1>1. Inductive => AccidentCancels
  BY DEF Inductive
<1>2. QED
  BY <1>1, InductiveHolds, PTL

(* No stop of a near miss submitted from its draft stands without its
   cancellations. *)
THEOREM StopsAreCarriedOut == Spec => []StopIsCarriedOut
<1>1. Inductive => StopIsCarriedOut
  BY DEF Inductive
<1>2. QED
  BY <1>1, InductiveHolds, PTL

(* No near miss is investigated, verified or closed undecided. *)
THEOREM NearMissesAreDecided == Spec => []NearMissIsDecided
<1>1. Inductive => NearMissIsDecided
  BY DEF Inductive
<1>2. QED
  BY <1>1, InductiveHolds, PTL

-----------------------------------------------------------------------------
(* The case file *)

LEMMA Membership ==
  /\ "cause" \in Record <=> causes
  /\ "verification" \in Record <=> verification
  /\ "completion" \in Record <=> investigation = "completed"
  /\ "closure" \in Record <=> closure
  /\ "closed" \in Record <=> status = "closed"
  /\ "archive" \in Record <=> archive
BY DEF Record

LEMMA FileBegins == Init => CaseFile!Init
BY DEF Init, CaseFile!Init, Record

(* A step that writes none of the records leaves the file as it is. *)
LEMMA FileStays ==
  ASSUME status' = "closed" <=> status = "closed",
         investigation' = "completed" <=> investigation = "completed",
         UNCHANGED <<causes, ending>>
  PROVE  UNCHANGED Record
BY DEF Record, ending

LEMMA Milestone ==
  ASSUME NEW m \in DOMAIN RecordNeeds, RecordNeeds[m] \subseteq Record, Record' = Record \cup {m}
  PROVE  CaseFile!Next
BY DEF CaseFile!Next, CaseFile!Reach

LEMMA CauseFiled ==
  ASSUME NEW r \in Requests, CauseInsert(r)
  PROVE  CaseFile!Next
<1>1. Record' = Record \cup {"cause"}
  BY DEF CauseInsert, Record, ending
<1>2. "cause" \in DOMAIN RecordNeeds /\ RecordNeeds["cause"] \subseteq Record
  BY DEF RecordNeeds
<1>3. QED
  BY <1>1, <1>2, Milestone

LEMMA VerificationFiled ==
  ASSUME Inductive, NEW r \in Requests, VerifyInsert(r)
  PROVE  CaseFile!Next
<1>1. Record' = Record \cup {"verification"}
  BY DEF VerifyInsert, Record, inquiry
<1>2. causes
  BY Parts DEF VerifyInsert, Step, Sound
<1>3. "verification" \in DOMAIN RecordNeeds /\ RecordNeeds["verification"] \subseteq Record
  BY <1>2, Membership DEF RecordNeeds
<1>4. QED
  BY <1>1, <1>3, Milestone

LEMMA CompletionFiled ==
  ASSUME Inductive, NEW r \in Requests, CompleteInvestigation(r)
  PROVE  CaseFile!Next
<1>1. Record' = Record \cup {"completion"}
  BY DEF CompleteInvestigation, Record, ending
<1>2. verification
  BY Parts DEF CompleteInvestigation, Step, Sound
<1>3. "completion" \in DOMAIN RecordNeeds /\ RecordNeeds["completion"] \subseteq Record
  BY <1>2, Membership DEF RecordNeeds
<1>4. QED
  BY <1>1, <1>3, Milestone

LEMMA ClosureFiled ==
  ASSUME Inductive, NEW r \in Requests, CloseInsert(r)
  PROVE  CaseFile!Next
<1>1. Record' = Record \cup {"closure"}
  BY DEF CloseInsert, Record, inquiry
<1>2. investigation = "completed"
  BY Parts DEF CloseInsert, Step, Sound
<1>3. "closure" \in DOMAIN RecordNeeds /\ RecordNeeds["closure"] \subseteq Record
  BY <1>2, Membership DEF RecordNeeds
<1>4. QED
  BY <1>1, <1>3, Milestone

LEMMA ClosedFiled ==
  ASSUME Inductive, NEW r \in Requests, CloseWrite(r)
  PROVE  CaseFile!Next
<1>1. Record' = Record \cup {"closed"}
  BY DEF CloseWrite, WriteStatus, Record, inquiry, ending
<1>2. closure
  BY Parts DEF CloseWrite, Step, Sound
<1>3. "closed" \in DOMAIN RecordNeeds /\ RecordNeeds["closed"] \subseteq Record
  BY <1>2, Membership DEF RecordNeeds
<1>4. QED
  BY <1>1, <1>3, Milestone

LEMMA ArchiveFiled ==
  ASSUME Inductive, NEW r \in Requests, ArchiveInsert(r)
  PROVE  CaseFile!Next
<1>1. Record' = Record \cup {"archive"}
  BY DEF ArchiveInsert, Record, inquiry
<1>2. status = "closed"
  BY Parts DEF ArchiveInsert, Step, Sound
<1>3. "archive" \in DOMAIN RecordNeeds /\ RecordNeeds["archive"] \subseteq Record
  BY <1>2, Membership DEF RecordNeeds
<1>4. QED
  BY <1>1, <1>3, Milestone

(* Steps that write the status of a case that is not closed, or another row. *)
LEMMA FileUntouched ==
  ASSUME Inductive, NEW r \in Requests,
         \/ CreateDraft(r) \/ CreateSubmitted(r) \/ SubmitWrite(r)
         \/ Reopen(r) \/ AssignWrite(r) \/ VerifyWrite(r)
         \/ AssignInsert(r) \/ CauseWrite(r) \/ AddActionInsert(r) \/ SetActionWrite(r)
  PROVE  UNCHANGED Record
<1> USE FileStays DEF inquiry, WriteStatus, SubmittedStatus
<1>1. CASE CreateDraft(r) \/ CreateSubmitted(r)
  BY <1>1 DEF CreateDraft, CreateSubmitted
<1>2. CASE SubmitWrite(r)
  BY <1>2 DEF SubmitWrite
<1>3. CASE Reopen(r) \/ AssignWrite(r) \/ VerifyWrite(r)
  BY <1>3 DEF Reopen, AssignWrite, VerifyWrite
<1>4. CASE AssignInsert(r)
  BY <1>4 DEF AssignInsert
<1>5. CASE CauseWrite(r)
  BY <1>5 DEF CauseWrite
<1>6. CASE AddActionInsert(r) \/ SetActionWrite(r)
  BY <1>6 DEF AddActionInsert, SetActionWrite
<1>7. QED
  BY <1>1, <1>2, <1>3, <1>4, <1>5, <1>6

LEMMA RowsUntouched ==
  ASSUME NEW r \in Requests,
         \/ Link(r) \/ SubmitRead(r) \/ CancelOne(r) \/ Cancelled(r)
         \/ DecideRead(r) \/ DecideCommit(r) \/ AssignRead(r) \/ CauseRead(r)
         \/ AddActionRead(r) \/ SetActionRead(r) \/ VerifyRead(r) \/ VerifyCheck(r)
         \/ CloseRead(r) \/ CloseCheck(r) \/ Fail(r)
  PROVE  UNCHANGED Record
<1>1. UNCHANGED <<status, inquiry, ending>>
  BY DEF Link, SubmitRead, CancelOne, Cancelled, DecideRead, DecideCommit, AssignRead, CauseRead,
         AddActionRead, SetActionRead, VerifyRead, VerifyCheck, CloseRead, CloseCheck, Fail
<1>2. QED
  BY <1>1, FileStays DEF inquiry

LEMMA FileStep ==
  ASSUME Inductive, [Next]_vars
  PROVE  [CaseFile!Next]_Record
<1>1. CASE UNCHANGED vars
  BY <1>1, FileStays DEF vars, inquiry
<1>2. CASE Next
  <2>1. PICK r \in Requests :
          \/ CreateDraft(r) \/ CreateSubmitted(r) \/ Link(r)
          \/ SubmitRead(r) \/ CancelOne(r) \/ Cancelled(r) \/ SubmitWrite(r)
          \/ DecideRead(r) \/ DecideCommit(r) \/ Reopen(r)
          \/ AssignRead(r) \/ AssignInsert(r) \/ AssignWrite(r)
          \/ CauseRead(r) \/ CauseInsert(r) \/ CauseWrite(r)
          \/ AddActionRead(r) \/ AddActionInsert(r)
          \/ SetActionRead(r) \/ SetActionWrite(r)
          \/ VerifyRead(r) \/ VerifyCheck(r) \/ VerifyInsert(r)
          \/ CompleteInvestigation(r) \/ VerifyWrite(r)
          \/ CloseRead(r) \/ CloseCheck(r) \/ CloseInsert(r) \/ CloseWrite(r)
          \/ ArchiveInsert(r) \/ Fail(r)
    BY <1>2 DEF Next
  <2>2. QED
    BY <2>1, CauseFiled, VerificationFiled, CompletionFiled, ClosureFiled, ClosedFiled,
       ArchiveFiled, FileUntouched, RowsUntouched
<1>3. QED
  BY <1>1, <1>2

(* The case implements its file: each milestone is recorded after those it
   needs, and none is ever taken back. *)
THEOREM CaseImplementsFile == Spec => ImplementsCaseFile
<1>1. Init => CaseFile!Init
  BY FileBegins
<1>2. Inductive /\ [Next]_vars => [CaseFile!Next]_Record
  BY FileStep
<1>3. QED
  BY <1>1, <1>2, InductiveHolds, PTL DEF Spec, ImplementsCaseFile, CaseFile!Spec

=============================================================================
