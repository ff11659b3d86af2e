---------------------------- MODULE IncidentCase ----------------------------
(***************************************************************************)
(* One incident from its report to its archive: submission with the         *)
(* cancellation of the linked permits, the head of department's decision on *)
(* a near miss, the investigation with its corrective actions, verification *)
(* and closure.  Three services write incidents.status, hardly ever in a    *)
(* transaction: each statement is a step, and a request may end after any.  *)
(***************************************************************************)
EXTENDS Naturals, FiniteSets

CONSTANTS
  Requests,   \* HTTP requests in flight at once
  Permits,    \* permits linked to the incident
  Actions,    \* corrective actions the investigation may get
  Nothing     \* the argument of a request that has none

VARIABLES
  status,         \* incidents.status, "none" before the report
  path,           \* severity_path
  direct,         \* the report was created as submitted, not as a draft
  linked,         \* the permits are linked to it
  visited,        \* permits a cancellation has dealt with: cancelled, or passed
                  \* over for a status that is not cancellable (PermitLifecycle
                  \* has the races on one permit)
  decision,       \* incident_hod_decisions
  investigation,  \* investigations.status
  causes,         \* root_causes has a row
  action,         \* corrective_actions.status
  verification,   \* incident_verifications has the incident's row
  closure,        \* incident_closures has it
  archive,        \* incident_archive has it
  req             \* the requests in flight

report  == <<path, direct, linked>>
inquiry == <<investigation, causes, action>>
ending  == <<verification, closure, archive>>
vars    == <<status, report, visited, decision, inquiry, ending, req>>

Status == {"none", "draft", "open", "pending_hod_decision", "investigating",
           "verified", "closed"}

Idle == [pc |-> "idle", arg |-> Nothing]

Pc == {"idle", "link", "cancelNew", "submit", "cancel", "submitted", "decide",
       "reopen", "assign", "assigned", "cause", "caused", "addAction",
       "setAction", "check", "verify", "complete", "verified", "checkClose",
       "close", "closed", "archive"}

TypeOK ==
  /\ status \in Status
  /\ path \in {"near_miss", "accident"}
  /\ direct \in BOOLEAN
  /\ linked \in BOOLEAN
  /\ visited \subseteq Permits
  /\ decision \in {"none", "continue", "stop"}
  /\ investigation \in {"none", "assigned", "in_progress", "completed"}
  /\ causes \in BOOLEAN
  /\ action \in [Actions -> {"none", "open", "completed"}]
  /\ verification \in BOOLEAN
  /\ closure \in BOOLEAN
  /\ archive \in BOOLEAN
  /\ req \in [Requests -> [pc : Pc, arg : Actions \cup (SUBSET Permits) \cup {Nothing}]]

Init ==
  /\ status = "none"
  /\ path \in {"near_miss", "accident"}
  /\ direct = FALSE
  /\ linked = FALSE
  /\ visited = {}
  /\ decision = "none"
  /\ investigation = "none"
  /\ causes = FALSE
  /\ action = [a \in Actions |-> "none"]
  /\ verification = FALSE
  /\ closure = FALSE
  /\ archive = FALSE
  /\ req = [r \in Requests |-> Idle]

-----------------------------------------------------------------------------

Begin(r, pc, arg) == req[r] = Idle /\ req' = [req EXCEPT ![r] = [pc |-> pc, arg |-> arg]]

Step(r, from, to) ==
  /\ req[r].pc = from
  /\ req' = [req EXCEPT ![r] = IF to = "idle" THEN Idle ELSE [@ EXCEPT !.pc = to]]

(* An update of the row, which the trigger refuses once it is closed; no update
   asks for the status the request read. *)
WriteStatus(s) == status # "closed" /\ status' = s

Outstanding == \E a \in Actions : action[a] = "open"

-----------------------------------------------------------------------------
(* Report and submission *)

CreateDraft(r) ==
  /\ status = "none"
  /\ Begin(r, "link", {})
  /\ status' = "draft"
  /\ UNCHANGED <<report, visited, decision, inquiry, ending>>

(* The row says submitted before the permits are linked and cancelled. *)
CreateSubmitted(r) ==
  /\ status = "none"
  /\ Begin(r, "link", Permits)
  /\ status' = IF path = "accident" THEN "open" ELSE "pending_hod_decision"
  /\ direct' = TRUE
  /\ UNCHANGED <<path, linked, visited, decision, inquiry, ending>>

Link(r) ==
  /\ Step(r, "link", IF direct /\ path = "accident" THEN "cancelNew" ELSE "idle")
  /\ linked' = TRUE
  /\ UNCHANGED <<status, path, direct, visited, decision, inquiry, ending>>

(* The permits linked, if the report got so far. *)
Linked == IF linked THEN Permits ELSE {}

(* Assumed: a draft is submitted after its creation has answered or failed. *)
SubmitRead(r) ==
  /\ status = "draft"
  /\ \A s \in Requests : req[s].pc # "link"
  /\ IF path = "accident" THEN Begin(r, "cancel", Linked) ELSE Begin(r, "submitted", {})
  /\ UNCHANGED <<status, report, visited, decision, inquiry, ending>>

(* cancelLinkedPermits, permit by permit. *)
CancelOne(r) ==
  /\ req[r].pc \in {"cancel", "cancelNew"}
  /\ \E p \in req[r].arg :
       /\ req' = [req EXCEPT ![r].arg = @ \ {p}]
       /\ visited' = visited \cup {p}
  /\ UNCHANGED <<status, report, decision, inquiry, ending>>

(* Mutant: the loop returns at the first permit it passes over. *)
MutAllVisited(r) == req[r].arg # Linked

AllVisited(r) == req[r].arg = {}

Cancelled(r) ==
  /\ AllVisited(r)
  /\ \/ Step(r, "cancel", "submitted")
     \/ Step(r, "cancelNew", "idle")
  /\ UNCHANGED <<status, report, visited, decision, inquiry, ending>>

(* Mutant: a submitted near miss is open at once. *)
MutSubmittedStatus == "open"

SubmittedStatus == IF path = "accident" THEN "open" ELSE "pending_hod_decision"

SubmitWrite(r) ==
  /\ Step(r, "submitted", "idle")
  /\ WriteStatus(SubmittedStatus)
  /\ UNCHANGED <<report, visited, decision, inquiry, ending>>

-----------------------------------------------------------------------------
(* The decision on a near miss *)

DecideRead(r) ==
  /\ path = "near_miss"
  /\ status = "pending_hod_decision"
  /\ Begin(r, "decide", Nothing)
  /\ UNCHANGED <<status, report, visited, decision, inquiry, ending>>

(* Mutant: the cancellation after a stop is left to a later call. *)
MutStopCancels == UNCHANGED visited

StopCancels == visited' = visited \cup Linked

(* The decision, unique for its incident, and the cancellation are one
   transaction; the status of the incident is written after it. *)
DecideCommit(r) ==
  /\ Step(r, "decide", "reopen")
  /\ decision = "none"
  /\ \/ decision' = "continue" /\ UNCHANGED visited
     \/ decision' = "stop" /\ StopCancels
  /\ UNCHANGED <<status, report, inquiry, ending>>

Reopen(r) ==
  /\ Step(r, "reopen", "idle")
  /\ WriteStatus("open")
  /\ UNCHANGED <<report, visited, decision, inquiry, ending>>

-----------------------------------------------------------------------------
(* The investigation *)

AssignRead(r) ==
  /\ status \in {"open", "investigating"}
  /\ investigation = "none"
  /\ Begin(r, "assign", Nothing)
  /\ UNCHANGED <<status, report, visited, decision, inquiry, ending>>

AssignInsert(r) ==
  /\ Step(r, "assign", "assigned")
  /\ investigation = "none"
  /\ investigation' = "assigned"
  /\ UNCHANGED <<status, report, visited, decision, causes, action, ending>>

AssignWrite(r) ==
  /\ Step(r, "assigned", "idle")
  /\ WriteStatus("investigating")
  /\ UNCHANGED <<report, visited, decision, inquiry, ending>>

(* What the services of the investigation ask for, once, before they write. *)
InvestigationOpen == investigation \in {"assigned", "in_progress"}

CauseRead(r) ==
  /\ InvestigationOpen
  /\ Begin(r, "cause", Nothing)
  /\ UNCHANGED <<status, report, visited, decision, inquiry, ending>>

CauseInsert(r) ==
  /\ Step(r, "cause", "caused")
  /\ causes' = TRUE
  /\ UNCHANGED <<status, report, visited, decision, investigation, action, ending>>

(* Mutant: the trigger on completed investigations is not installed. *)
MutCauseWrite(r) ==
  /\ Step(r, "caused", "idle")
  /\ investigation' = "in_progress"
  /\ UNCHANGED <<status, report, visited, decision, causes, action, ending>>

(* The trigger on completed investigations refuses a new status. *)
CauseWrite(r) ==
  /\ Step(r, "caused", "idle")
  /\ investigation # "completed"
  /\ investigation' = "in_progress"
  /\ UNCHANGED <<status, report, visited, decision, causes, action, ending>>

AddActionRead(r) ==
  /\ InvestigationOpen
  /\ \E a \in Actions : action[a] = "none" /\ Begin(r, "addAction", a)
  /\ UNCHANGED <<status, report, visited, decision, inquiry, ending>>

AddActionInsert(r) ==
  /\ Step(r, "addAction", "idle")
  /\ action[req[r].arg] = "none"
  /\ action' = [action EXCEPT ![req[r].arg] = "open"]
  /\ UNCHANGED <<status, report, visited, decision, investigation, causes, ending>>

SetActionRead(r) ==
  /\ InvestigationOpen
  /\ \E a \in Actions : action[a] # "none" /\ Begin(r, "setAction", a)
  /\ UNCHANGED <<status, report, visited, decision, inquiry, ending>>

(* A completed action may be opened again; completed stands for cancelled too. *)
SetActionWrite(r) ==
  /\ Step(r, "setAction", "idle")
  /\ \E s \in {"open", "completed"} : action' = [action EXCEPT ![req[r].arg] = s]
  /\ UNCHANGED <<status, report, visited, decision, investigation, causes, ending>>

-----------------------------------------------------------------------------
(* Verification and closure *)

VerifyRead(r) ==
  /\ status = "investigating"
  /\ Begin(r, "check", Nothing)
  /\ UNCHANGED <<status, report, visited, decision, inquiry, ending>>

ReadyToVerify == investigation # "none" /\ causes /\ ~Outstanding /\ ~verification

VerifyCheck(r) ==
  /\ Step(r, "check", "verify")
  /\ ReadyToVerify
  /\ UNCHANGED <<status, report, visited, decision, inquiry, ending>>

VerifyInsert(r) ==
  /\ Step(r, "verify", "complete")
  /\ ~verification
  /\ verification' = TRUE
  /\ UNCHANGED <<status, report, visited, decision, inquiry, closure, archive>>

(* Mutant: the investigation is given the status of the incident. *)
MutCompleteInvestigation(r) ==
  /\ Step(r, "complete", "verified")
  /\ investigation' = "verified"
  /\ UNCHANGED <<status, report, visited, decision, causes, action, ending>>

CompleteInvestigation(r) ==
  /\ Step(r, "complete", "verified")
  /\ investigation' = "completed"
  /\ UNCHANGED <<status, report, visited, decision, causes, action, ending>>

VerifyWrite(r) ==
  /\ Step(r, "verified", "idle")
  /\ WriteStatus("verified")
  /\ UNCHANGED <<report, visited, decision, inquiry, ending>>

CloseRead(r) ==
  /\ status = "verified"
  /\ Begin(r, "checkClose", Nothing)
  /\ UNCHANGED <<status, report, visited, decision, inquiry, ending>>

CloseCheck(r) ==
  /\ Step(r, "checkClose", "close")
  /\ verification
  /\ ~Outstanding
  /\ UNCHANGED <<status, report, visited, decision, inquiry, ending>>

CloseInsert(r) ==
  /\ Step(r, "close", "closed")
  /\ ~closure
  /\ closure' = TRUE
  /\ UNCHANGED <<status, report, visited, decision, inquiry, verification, archive>>

CloseWrite(r) ==
  /\ Step(r, "closed", "archive")
  /\ WriteStatus("closed")
  /\ UNCHANGED <<report, visited, decision, inquiry, ending>>

ArchiveInsert(r) ==
  /\ Step(r, "archive", "idle")
  /\ ~archive
  /\ archive' = TRUE
  /\ UNCHANGED <<status, report, visited, decision, inquiry, verification, closure>>

-----------------------------------------------------------------------------

(* A refusal, an error of the database or the end of the server. *)
Fail(r) ==
  /\ req[r] # Idle
  /\ req' = [req EXCEPT ![r] = Idle]
  /\ UNCHANGED <<status, report, visited, decision, inquiry, ending>>

Next ==
  \E r \in Requests :
    \/ CreateDraft(r) \/ CreateSubmitted(r) \/ Link(r)
    \/ SubmitRead(r) \/ CancelOne(r) \/ Cancelled(r) \/ SubmitWrite(r)
    \/ DecideRead(r) \/ DecideCommit(r) \/ Reopen(r)
    \/ AssignRead(r) \/ AssignInsert(r) \/ AssignWrite(r)
    \/ CauseRead(r) \/ CauseInsert(r) \/ CauseWrite(r)
    \/ AddActionRead(r) \/ AddActionInsert(r)
    \/ SetActionRead(r) \/ SetActionWrite(r)
    \/ VerifyRead(r) \/ VerifyCheck(r) \/ VerifyInsert(r)
    \/ CompleteInvestigation(r) \/ VerifyWrite(r)
    \/ CloseRead(r) \/ CloseCheck(r) \/ CloseInsert(r) \/ CloseWrite(r)
    \/ ArchiveInsert(r)
    \/ Fail(r)

Spec == Init /\ [][Next]_vars

-----------------------------------------------------------------------------

(* An accident reported as a draft counts as submitted only after every linked
   permit was cancelled or found to need no cancellation, however often the
   submission was repeated or broken off. *)
AccidentCancels ==
  path = "accident" /\ ~direct /\ status \notin {"none", "draft"} => Linked \subseteq visited

(* A decision to stop the work on a near miss submitted from its draft never
   stands without the cancellation of its permits.  (One created as submitted is
   listed, and may be decided, before its permits are linked.) *)
StopIsCarriedOut == decision = "stop" /\ ~direct => Linked \subseteq visited

(* No near miss gets past its decision: not by a late submission, nor by an
   assignment, verification or closure of any interleaving. *)
NearMissIsDecided ==
  path = "near_miss" /\ status \in {"open", "investigating", "verified", "closed"}
    => decision # "none"

(* The records of the case, in the order the paper trail needs. *)
Record ==
  { m \in {"cause", "verification", "completion", "closure", "closed", "archive"} :
      \/ m = "cause" /\ causes
      \/ m = "verification" /\ verification
      \/ m = "completion" /\ investigation = "completed"
      \/ m = "closure" /\ closure
      \/ m = "closed" /\ status = "closed"
      \/ m = "archive" /\ archive }

RecordNeeds ==
  [cause        |-> {},
   verification |-> {"cause"},
   completion   |-> {"verification"},
   closure      |-> {"completion"},
   closed       |-> {"closure"},
   archive      |-> {"closed"}]

CaseFile == INSTANCE Milestones WITH Needs <- RecordNeeds, reached <- Record

(* The case file grows in order and nothing in it is undone, whatever requests
   overlap and wherever one of them breaks off; closed is for good. *)
ImplementsCaseFile == CaseFile!Spec

-----------------------------------------------------------------------------
(* The inductive strengthening of the safety properties. *)

Submitted == status \notin {"none", "draft"}
CaseOpen  == path = "accident" \/ decision # "none"

(* What the status tells of the records, and they of it. *)
StatusKnows ==
  /\ investigation # "none" => status # "none"
  /\ decision # "none" => Submitted
  /\ status \in {"verified", "closed"} => investigation = "completed"

(* A draft is linked before it is submitted, one created as submitted at any
   time. *)
LinkedFirst ==
  \A r \in Requests : req[r].pc = "link" =>
    /\ direct \/ status = "draft"
    /\ \A s \in Requests : req[s].pc \notin {"cancel", "submitted"}

(* The permits that a submission has still to visit. *)
LoopsLeft ==
  \A r \in Requests :
    /\ req[r].pc \in {"link", "cancel", "cancelNew"} => req[r].arg \subseteq Permits
    /\ req[r].pc = "cancel" => Linked \subseteq visited \cup req[r].arg
    /\ req[r].pc = "submitted" /\ path = "accident" => Linked \subseteq visited

(* What a request has read, checked or written stays true. *)
RequestsKnow ==
  \A r \in Requests :
    /\ req[r].pc # "idle" => status # "none"
    /\ req[r].pc \in {"decide", "reopen", "assign", "assigned", "check", "verify", "complete",
                      "verified", "checkClose", "close", "closed", "archive"} => Submitted
    /\ req[r].pc \in {"reopen", "assign", "assigned", "check", "verify", "complete", "verified",
                      "checkClose", "close", "closed", "archive"} => CaseOpen
    /\ req[r].pc = "verify" => causes
    /\ req[r].pc = "complete" => verification
    /\ req[r].pc \in {"verified", "checkClose", "close", "closed", "archive"}
         => investigation = "completed"
    /\ req[r].pc = "closed" => closure
    /\ req[r].pc = "archive" => status = "closed"

Inductive ==
  /\ TypeOK
  /\ AccidentCancels
  /\ StopIsCarriedOut
  /\ NearMissIsDecided
  /\ StatusKnows
  /\ LinkedFirst
  /\ LoopsLeft
  /\ RequestsKnow
=============================================================================
