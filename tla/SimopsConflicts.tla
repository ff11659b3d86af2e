--------------------------- MODULE SimopsConflicts ---------------------------
(***************************************************************************)
(* Conflicts between permits planned for the same time and place or         *)
(* machine: the analysis that finds and records them, and their way to      *)
(* approval or rejection, which suspends the permits.  None of it is in a   *)
(* transaction: every statement is a step, and a request may end after any. *)
(***************************************************************************)
EXTENDS Naturals, FiniteSets

CONSTANTS
  Requests,   \* HTTP requests in flight at once
  Permits,
  Handled,    \* the conflicts that are assessed and resolved: bound
  Moving,     \* the permits whose status other services change: bound
  Plans,      \* the plans considered: a record of start, end, workstation,
              \* location and machine for each permit
  NoDate,     \* no planned start, or no planned end
  Nowhere,    \* no workstation, or no location
  NoMachine,  \* no machine
  NoArg       \* the argument of a request that has none

VARIABLES
  plan,        \* the plan of each permit
  permit,      \* its status: other (a draft, deferred, closed ...), working
               \* (pending_approval, approved, active) or suspended
  conflict,    \* simops_conflicts.status by fingerprint, "none" without a row
  involved,    \* conflicts whose conflict_participants are stored
  assessed,    \* conflicts with a row in conflict_assessments
  planned,     \* conflicts with a row in mitigation_plans
  resolution,  \* conflict_resolutions.outcome
  holds,       \* permit_suspensions made for a conflict
  req          \* the requests in flight

paperwork == <<assessed, planned, resolution>>
vars      == <<plan, permit, conflict, involved, paperwork, holds, req>>

-----------------------------------------------------------------------------
(* Detection *)

Dated(a) == NoDate \notin {a.start, a.end}

(* Times are half open: a permit may start when another ends. *)
SchedulesOverlap(a, b) == Dated(a) /\ Dated(b) /\ a.start < b.end /\ b.start < a.end

SharesLocation(a, b) ==
  \/ a.workstation = b.workstation /\ a.workstation # Nowhere
  \/ a.location = b.location /\ a.location # Nowhere

SharesEquipment(a, b) == a.machine = b.machine /\ a.machine # NoMachine

(* What two plans conflict on.  Different types only conflict where the
   location or the machine does too, so that they never decide it. *)
ConflictType(a, b) ==
  CASE ~SchedulesOverlap(a, b) -> "none"
    [] SchedulesOverlap(a, b) /\ SharesEquipment(a, b) -> "equipment"
    [] SchedulesOverlap(a, b) /\ ~SharesEquipment(a, b) /\ SharesLocation(a, b) -> "location"
    [] OTHER -> "none"

Pairs == {pq \in SUBSET Permits : Cardinality(pq) = 2}

Fingerprints == Pairs \X {"equipment", "location"}

ASSUME BoundsAssumption == Handled \subseteq Fingerprints /\ Moving \subseteq Permits

(* The conflicts among the permits of a set. *)
DetectConflicts(ps) ==
  {c \in Fingerprints :
     \E a, b \in ps : c = <<{a, b}, ConflictType(plan[a], plan[b])>>}

Analysable == {p \in Permits : permit[p] # "other"}

(* Mutant: the participants are selected without their conflict. *)
MutParticipants(c) == UNION {d[1] : d \in involved}

Participants(c) == IF c \in involved THEN c[1] ELSE {}

-----------------------------------------------------------------------------

(* A request: its conflict, what its loop has yet to do, and the permit it is at. *)
Request ==
  [pc       : {"idle", "persist", "insert", "involve", "assess", "setAssessed", "mitigate",
               "setPlanned", "approve", "setApproved", "reject", "setRejected",
               "participants", "suspend", "hold"},
   c        : Fingerprints \cup {NoArg},
   todo     : SUBSET (Fingerprints \cup Permits),
   p        : Permits \cup {NoArg}]

Idle == [pc |-> "idle", c |-> NoArg, todo |-> {}, p |-> NoArg]

Outcome == {"approved", "rejected"}

TypeOK ==
  /\ plan \in Plans
  /\ permit \in [Permits -> {"other", "working", "suspended"}]
  /\ conflict \in [Fingerprints -> {"none", "open", "assessed", "mitigation_planned"} \cup Outcome]
  /\ involved \subseteq Fingerprints
  /\ assessed \subseteq Fingerprints
  /\ planned \subseteq Fingerprints
  /\ resolution \in [Fingerprints -> {"none"} \cup Outcome]
  /\ holds \subseteq Permits \X Fingerprints
  /\ req \in [Requests -> Request]

Init ==
  /\ plan \in Plans
  /\ permit \in [Permits -> {"other", "working"}]
  /\ \A p \in Permits \ Moving : permit[p] = "working"
  /\ conflict = [c \in Fingerprints |-> "none"]
  /\ involved = {}
  /\ assessed = {}
  /\ planned = {}
  /\ resolution = [c \in Fingerprints |-> "none"]
  /\ holds = {}
  /\ req = [r \in Requests |-> Idle]

Begin(r, pc, c, todo) ==
  /\ req[r] = Idle
  /\ req' = [req EXCEPT ![r] = [Idle EXCEPT !.pc = pc, !.c = c, !.todo = todo]]

At(r, pc) == req[r].pc = pc

Goto(r, pc) ==
  req' = [req EXCEPT ![r] = IF pc = "idle" THEN Idle ELSE [@ EXCEPT !.pc = pc]]

-----------------------------------------------------------------------------
(* The analysis *)

(* All the permits are compared, whichever permit the caller asks about. *)
Analyse(r, about) ==
  /\ Begin(r, "persist", NoArg,
           {c \in DetectConflicts(Analysable) : about = NoArg \/ about \in c[1]})
  /\ UNCHANGED <<plan, permit, conflict, involved, paperwork, holds>>

(* Mutant: a conflict recorded before ends the analysis. *)
MutLookup(r) ==
  /\ At(r, "persist")
  /\ \E c \in req[r].todo :
       IF conflict[c] # "none" THEN req' = [req EXCEPT ![r].todo = {}]
                               ELSE req' = [req EXCEPT ![r].pc = "insert", ![r].c = c]
  /\ UNCHANGED <<plan, permit, conflict, involved, paperwork, holds>>

(* The next conflict: recorded before, or to be inserted. *)
Lookup(r) ==
  /\ At(r, "persist")
  /\ \E c \in req[r].todo :
       IF conflict[c] # "none" THEN req' = [req EXCEPT ![r].todo = @ \ {c}]
                               ELSE req' = [req EXCEPT ![r].pc = "insert", ![r].c = c]
  /\ UNCHANGED <<plan, permit, conflict, involved, paperwork, holds>>

InsertConflict(r) ==
  /\ At(r, "insert")
  /\ conflict[req[r].c] = "none"
  /\ conflict' = [conflict EXCEPT ![req[r].c] = "open"]
  /\ Goto(r, "involve")
  /\ UNCHANGED <<plan, permit, involved, paperwork, holds>>

(* The fingerprint is unique: the slower of two analyses is refused, and what it
   has not come to yet it leaves. *)
InsertRefused(r) ==
  /\ At(r, "insert")
  /\ conflict[req[r].c] # "none"
  /\ Goto(r, "idle")
  /\ UNCHANGED <<plan, permit, conflict, involved, paperwork, holds>>

(* And the alerts, the history and the notification, which nothing reads. *)
InsertParticipants(r) ==
  /\ At(r, "involve")
  /\ involved' = involved \cup {req[r].c}
  /\ req' = [req EXCEPT ![r].pc = "persist", ![r].c = NoArg, ![r].todo = @ \ {req[r].c}]
  /\ UNCHANGED <<plan, permit, conflict, paperwork, holds>>

(* The report counts what was created and what was skipped. *)
Report(r) ==
  /\ At(r, "persist")
  /\ req[r].todo = {}
  /\ Goto(r, "idle")
  /\ UNCHANGED <<plan, permit, conflict, involved, paperwork, holds>>

-----------------------------------------------------------------------------
(* Assessment, mitigation and resolution *)

(* requireOpenConflict with the statuses each operation allows. *)
Operation ==
  [assess   |-> {"open"},
   mitigate |-> {"assessed"},
   approve  |-> {"mitigation_planned"},
   reject   |-> {"open", "assessed", "mitigation_planned"}]

RequireOpenConflict(r) ==
  /\ \E op \in DOMAIN Operation, c \in Handled :
       /\ conflict[c] \in Operation[op]
       /\ Begin(r, op, c, {})
  /\ UNCHANGED <<plan, permit, conflict, involved, paperwork, holds>>

Assess(r) ==
  /\ At(r, "assess")
  /\ req[r].c \notin assessed
  /\ assessed' = assessed \cup {req[r].c}
  /\ Goto(r, "setAssessed")
  /\ UNCHANGED <<plan, permit, conflict, involved, planned, resolution, holds>>

(* An upsert: a plan may be replaced, even once it has been approved. *)
CreateMitigation(r) ==
  /\ At(r, "mitigate")
  /\ req[r].c \in assessed
  /\ planned' = planned \cup {req[r].c}
  /\ Goto(r, "setPlanned")
  /\ UNCHANGED <<plan, permit, conflict, involved, assessed, resolution, holds>>

ReadyToApprove(c) == c \in assessed /\ c \in planned

(* Mutant: the last resolution counts. *)
MutUnresolved(c) == TRUE

(* The unique index on the conflict of a resolution. *)
Unresolved(c) == resolution[c] = "none"

Approve(r) ==
  /\ At(r, "approve")
  /\ ReadyToApprove(req[r].c)
  /\ Unresolved(req[r].c)
  /\ resolution' = [resolution EXCEPT ![req[r].c] = "approved"]
  /\ Goto(r, "setApproved")
  /\ UNCHANGED <<plan, permit, conflict, involved, assessed, planned, holds>>

(* Mutant: the insert does nothing where there is a resolution. *)
MutReject(r) ==
  /\ At(r, "reject")
  /\ resolution' = [resolution EXCEPT ![req[r].c] = IF @ = "none" THEN "rejected" ELSE @]
  /\ Goto(r, "setRejected")
  /\ UNCHANGED <<plan, permit, conflict, involved, assessed, planned, holds>>

Reject(r) ==
  /\ At(r, "reject")
  /\ Unresolved(req[r].c)
  /\ resolution' = [resolution EXCEPT ![req[r].c] = "rejected"]
  /\ Goto(r, "setRejected")
  /\ UNCHANGED <<plan, permit, conflict, involved, assessed, planned, holds>>

(* The status is written to the row by its identifier alone. *)
SetStatus(r, at, status, next) ==
  /\ At(r, at)
  /\ conflict' = [conflict EXCEPT ![req[r].c] = status]
  /\ Goto(r, next)
  /\ UNCHANGED <<plan, permit, involved, paperwork, holds>>

SetAssessed(r) == SetStatus(r, "setAssessed", "assessed", "idle")
SetPlanned(r)  == SetStatus(r, "setPlanned", "mitigation_planned", "idle")

(* Mutant: the status has the name it had in the first schema. *)
MutSetApproved(r) == SetStatus(r, "setApproved", "resolved", "idle")

SetApproved(r) == SetStatus(r, "setApproved", "approved", "idle")
SetRejected(r) == SetStatus(r, "setRejected", "rejected", "participants")

-----------------------------------------------------------------------------
(* The suspension of the participants of a rejected conflict *)

SelectParticipants(r) ==
  /\ At(r, "participants")
  /\ req' = [req EXCEPT ![r].pc = "suspend", ![r].todo = Participants(req[r].c)]
  /\ UNCHANGED <<plan, permit, conflict, involved, paperwork, holds>>

(* One participant: it is held only if the update found it working. *)
Suspend(r) ==
  /\ At(r, "suspend")
  /\ \E p \in req[r].todo :
       IF permit[p] = "working"
         THEN /\ permit' = [permit EXCEPT ![p] = "suspended"]
              /\ req' = [req EXCEPT ![r].pc = "hold", ![r].p = p, ![r].todo = @ \ {p}]
         ELSE /\ req' = [req EXCEPT ![r].todo = @ \ {p}]
              /\ UNCHANGED permit
  /\ UNCHANGED <<plan, conflict, involved, paperwork, holds>>

InsertHold(r) ==
  /\ At(r, "hold")
  /\ holds' = holds \cup {<<req[r].p, req[r].c>>}
  /\ req' = [req EXCEPT ![r].pc = "suspend", ![r].p = NoArg]
  /\ UNCHANGED <<plan, permit, conflict, involved, paperwork>>

Rejected(r) ==
  /\ At(r, "suspend")
  /\ req[r].todo = {}
  /\ Goto(r, "idle")
  /\ UNCHANGED <<plan, permit, conflict, involved, paperwork, holds>>

-----------------------------------------------------------------------------

(* Another refusal, an error of the database or the end of the server. *)
Fail(r) ==
  /\ req[r] # Idle
  /\ Goto(r, "idle")
  /\ UNCHANGED <<plan, permit, conflict, involved, paperwork, holds>>

(* The other services; PermitLifecycle has what they do. *)
Elsewhere(p) ==
  /\ \E s \in {"other", "working", "suspended"} :
       s # permit[p] /\ permit' = [permit EXCEPT ![p] = s]
  /\ UNCHANGED <<plan, conflict, involved, paperwork, holds, req>>

Next ==
  \/ \E r \in Requests :
       \/ \E about \in Permits \cup {NoArg} : Analyse(r, about)
       \/ Lookup(r) \/ InsertConflict(r) \/ InsertRefused(r) \/ InsertParticipants(r)
       \/ Report(r)
       \/ RequireOpenConflict(r) \/ Assess(r) \/ CreateMitigation(r) \/ Approve(r)
       \/ Reject(r)
       \/ SetAssessed(r) \/ SetPlanned(r) \/ SetApproved(r) \/ SetRejected(r)
       \/ SelectParticipants(r) \/ Suspend(r) \/ InsertHold(r) \/ Rejected(r)
       \/ Fail(r)
  \/ \E p \in Moving : Elsewhere(p)

(* A request that has begun an analysis goes on with it. *)
AnalysisStep(r) ==
  Lookup(r) \/ InsertConflict(r) \/ InsertRefused(r) \/ InsertParticipants(r) \/ Report(r)

Spec == Init /\ [][Next]_vars /\ \A r \in Requests : WF_vars(AnalysisStep(r))

-----------------------------------------------------------------------------

Analysing(r) == req[r].pc \in {"persist", "insert", "involve"}

(* An analysis ends by neither its report nor the unique index. *)
BreakOff(r) == Analysing(r) /\ Fail(r) /\ ~Report(r) /\ ~InsertRefused(r)

(* The users go on asking for analyses of everything, and in the end these no
   longer break off. *)
KeepAnalysing ==
  /\ []<><<\E r \in Requests : Analyse(r, NoArg)>>_vars
  /\ <>[][\A r \in Requests : ~BreakOff(r)]_vars

(* The collisions that have no row. *)
Missing == {c \in DetectConflicts(Analysable) : conflict[c] = "none"}

(* Again and again every collision is recorded: analyses that cross refuse each
   other in the middle of their lists, but not for ever. *)
CollisionsAreRecorded == KeepAnalysing => []<>(Missing = {})

(* A conflict that says approved or rejected has that one resolution, however
   an approval and a rejection cross. *)
ResolvedOnce == \A c \in Fingerprints : conflict[c] \in Outcome => resolution[c] = conflict[c]

(* A permit is held only for a conflict that it takes part in and that was
   rejected: never for an approved one, or for another's. *)
HoldsFollowRejection ==
  \A h \in holds : h[1] \in h[2][1] /\ resolution[h[2]] = "rejected"

(* The records of every conflict. *)
Records ==
  UNION { {c \in Fingerprints : conflict[c] # "none"} \X {"detection"},
          assessed \X {"assessment"},
          planned \X {"mitigation"},
          {c \in Fingerprints : resolution[c] = "approved"} \X {"approval"} }

RecordNeeds ==
  [m \in Fingerprints \X {"detection", "assessment", "mitigation", "approval"} |->
     {m[1]} \X (CASE m[2] = "detection"  -> {}
                   [] m[2] = "assessment" -> {"detection"}
                   [] m[2] = "mitigation" -> {"assessment"}
                   [] m[2] = "approval"   -> {"assessment", "mitigation"})]

Files == INSTANCE Milestones WITH Needs <- RecordNeeds, reached <- Records

(* No conflict is approved without assessment and mitigation, no mitigation
   comes before the assessment, and none is taken back, though the status may
   be: a late mitigation writes its status over a resolution. *)
ImplementsConflictFiles == Files!Spec

-----------------------------------------------------------------------------
(* The inductive strengthening of the safety properties. *)

Recorded(c) == conflict[c] # "none"

(* What a request has found, recorded or resolved stays so until it is done. *)
Sound(q) ==
  /\ q.pc \in {"persist", "insert", "involve"} => q.todo \subseteq Fingerprints
  /\ q.pc \in {"insert", "involve"} => q.c \in q.todo
  /\ q.pc \in {"involve", "assess", "setAssessed", "mitigate", "setPlanned", "approve",
               "setApproved", "reject", "setRejected", "participants", "suspend", "hold"}
       => q.c \in Fingerprints /\ Recorded(q.c)
  /\ q.pc = "setApproved" => resolution[q.c] = "approved"
  /\ q.pc \in {"setRejected", "participants", "suspend", "hold"} => resolution[q.c] = "rejected"
  /\ q.pc \in {"suspend", "hold"} => q.todo \subseteq q.c[1]
  /\ q.pc = "hold" => q.p \in q.c[1]

Inductive ==
  /\ TypeOK
  /\ ResolvedOnce
  /\ HoldsFollowRejection
  /\ \A r \in Requests : Sound(req[r])
=============================================================================
