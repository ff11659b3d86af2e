---------------------------- MODULE Restoration ----------------------------
(***************************************************************************)
(* The restoration of the equipment after the work, and the whole LOTOTO    *)
(* procedure of one plan: planning, isolation and restoration by requests   *)
(* that overlap.                                                            *)
(***************************************************************************)
EXTENDS IsolationExecution

CONSTANT MaxArchives   \* bound: archive records in the history

ASSUME ArchiveAssumption == MaxArchives \in Nat

VARIABLES
  removals,   \* labels with a row in lock_removals or tag_removals
  restored,   \* points with an equipment_restorations row
  rechecked,  \* points with a passing restoration_verification
  archives    \* 'execution.archived' rows of the LOTOTO history

restorationVars == <<removals, restored, rechecked, archives>>
vars == <<planVars, isolationVars, restorationVars, req>>

Request ==
  [op : Operations \cup {"none"},
   pc : {"idle", "begun", "rows", "checked", "archive"},
   arg : Args \cup Labels]

TypeOK ==
  /\ PlanTypeOK
  /\ IsolationTypeOK
  /\ removals \subseteq Labels
  /\ restored \subseteq Points
  /\ rechecked \subseteq Points
  /\ archives \in 0..MaxArchives
  /\ req \in [Requests -> Request]

Init ==
  /\ PlanInit
  /\ IsolationInit
  /\ removals = {}
  /\ restored = {}
  /\ rechecked = {}
  /\ archives = 0

-----------------------------------------------------------------------------

(* Mutant: equipment is restored as soon as it is isolated. *)
MutRestorable == status \in {"isolated", "verified"}

(* getRestorableExecution *)
Restorable == status = "verified"

RemoveRead(r, labels) ==
  /\ Restorable
  /\ \E l \in labels : Begin(r, "unlock", l)

RemoveCheck(r, labels) ==
  /\ req[r].arg \in labels
  /\ Pass(r, "unlock", "begun", "checked")
  /\ hung[req[r].arg] = "applied"

(* The removal row, unique for its label, and the label in one transaction. *)
RemoveCommit(r, labels) ==
  /\ req[r].arg \in labels
  /\ Finish(r, "unlock", "checked")
  /\ req[r].arg \notin removals
  /\ removals' = removals \cup {req[r].arg}
  /\ hung' = [hung EXCEPT ![req[r].arg] = "removed"]

RemoveLockRead(r)   == RemoveRead(r, Locks)
RemoveLockCheck(r)  == RemoveCheck(r, Locks)
RemoveLockCommit(r) == RemoveCommit(r, Locks)

RemoveTagRead(r)   == RemoveRead(r, Tags)
RemoveTagCheck(r)  == RemoveCheck(r, Tags)
RemoveTagCommit(r) == RemoveCommit(r, Tags)

RestoreRead(r) ==
  /\ Restorable
  /\ \E p \in points \ restored : Begin(r, "restore", p)

RestoreCommit(r) ==
  /\ Finish(r, "restore", "begun")
  /\ req[r].arg \notin restored
  /\ restored' = restored \cup {req[r].arg}

CompleteRead(r) ==
  /\ Restorable
  /\ Begin(r, "complete", NoArg)

AllPointsRestored == sequence # <<>> /\ Sequenced \subseteq restored

CompleteCheck(r) ==
  /\ AllPointsRestored
  /\ Pass(r, "complete", "begun", "checked")

CompleteCommit(r) ==
  /\ Pass(r, "complete", "checked", "archive")
  /\ status' = "restored"
  /\ stamps' = stamps \cup {"restored"}

(* ArchiveService, outside the transaction: a crash before it loses the record,
   two completions write two. *)
Archive(r) ==
  /\ archives < MaxArchives
  /\ Finish(r, "complete", "archive")
  /\ archives' = archives + 1

RecheckRead(r) ==
  /\ status \in {"verified", "restored"}
  /\ \E p \in points \ rechecked : Begin(r, "recheck", p)

RecheckInsert(r) ==
  /\ Finish(r, "recheck", "begun")
  /\ req[r].arg \notin rechecked
  /\ rechecked' = rechecked \cup {req[r].arg}

RestorationStep(r) ==
  \/ (RemoveLockCommit(r) \/ RemoveTagCommit(r))
     /\ UNCHANGED <<planVars, status, stamps, passed, restored, rechecked, archives>>
  \/ RestoreCommit(r) /\ UNCHANGED <<planVars, isolationVars, removals, rechecked, archives>>
  \/ CompleteCommit(r) /\ UNCHANGED <<planVars, hung, passed, restorationVars>>
  \/ Archive(r) /\ UNCHANGED <<planVars, isolationVars, removals, restored, rechecked>>
  \/ RecheckInsert(r) /\ UNCHANGED <<planVars, isolationVars, removals, restored, archives>>
  \/ /\ \/ RemoveLockRead(r) \/ RemoveLockCheck(r)
        \/ RemoveTagRead(r) \/ RemoveTagCheck(r) \/ RestoreRead(r)
        \/ CompleteRead(r) \/ CompleteCheck(r) \/ RecheckRead(r)
     /\ UNCHANGED <<planVars, isolationVars, restorationVars>>

Next ==
  \E r \in Requests :
    \/ PlanStep(r) /\ UNCHANGED <<isolationVars, restorationVars>>
    \/ IsolationStep(r) /\ UNCHANGED restorationVars
    \/ RestorationStep(r)

Spec == Init /\ [][Next]_vars

-----------------------------------------------------------------------------

(* Once started, and as long as nothing set the plan back to ready, every
   stage on record has its evidence, whatever requests overlapped: an isolated
   execution had a lock at every point of the sequence, a verified one a passed
   verification wherever one is required, a restored one a restoration of every
   point; and a point that passed had been locked. *)
EvidenceChain ==
  plan = "in_execution" =>
    /\ "isolated" \in stamps => Sequenced \subseteq EverLocked
    /\ "verified" \in stamps => Sequenced \cap Requires \subseteq passed
    /\ "restored" \in stamps => Sequenced \subseteq restored
    /\ passed \subseteq EverLocked

(* Locks went on in the order of the sequence, even if they were checked by
   requests that overlapped, removed and hung again (FR-LTO-008). *)
LockOrder ==
  plan = "in_execution" =>
    \A p \in EverLocked : Predecessors(p) \subseteq EverLocked

(* No point is in the sequence twice, and so none before itself, although
   configurations that overlap may both commit. *)
StepsAreUnique == IsInjective(sequence)

(* Nothing is restored, and no lock is removed by the restoration, before the
   verification of the isolation is on record: a late completion of the
   isolation cannot let the restoration in early. *)
NoEarlyUnwinding == removals # {} \/ restored # {} => "verified" \in stamps

EnergyNeeds ==
  [isolated |-> {}, verified |-> {"isolated"}, restored |-> {"isolated", "verified"}]

Energy == INSTANCE Milestones WITH Needs <- EnergyNeeds, reached <- stamps

(* The stages of an execution are recorded in order and never taken back,
   although a late request may take back the status. *)
ImplementsEnergyStages == Energy!Spec

-----------------------------------------------------------------------------
(* The inductive strengthening of the safety properties. *)

(* What a request carries. *)
ArgumentsFit ==
  \A r \in Requests :
    /\ req[r].op \in {"addPoint", "verify", "restore", "recheck"} => req[r].arg \in Points
    /\ req[r].op = "configure" => req[r].arg \in Orders(Points)

(* Before the start there is nothing but the plan, and there is one start. *)
NothingBeforeStart ==
  /\ plan = "in_execution" => status # "none"
  /\ status = "none" =>
       /\ stamps = {} /\ passed = {}
       /\ \A l \in Labels : hung[l] = "never"
       /\ \A r \in Requests : req[r].op \in {"none", "addPoint", "configure", "start"}

(* The status may fall behind the time stamps, never run ahead of them. *)
StampsLead ==
  /\ status \in {"isolated", "verified", "restored"} => status \in stamps
  /\ "verified" \in stamps => "isolated" \in stamps
  /\ "restored" \in stamps => "verified" \in stamps

(* A request that has begun saw a stage that stays on record. *)
RequestsAfterStage ==
  \A r \in Requests :
    /\ req[r].op = "markVerified" => "isolated" \in stamps
    /\ req[r].op \in {"unlock", "restore", "complete"} => "verified" \in stamps
    /\ req[r].op = "takeDown" \/ At(r, "unlock", "checked")
         => req[r].arg \in Labels /\ hung[req[r].arg] # "never"

(* What a request has checked remains true of the history, if no longer of the
   present: the sequence is fixed until the plan is set back. *)
ChecksRemain ==
  \A r \in Requests :
    /\ At(r, "verify", "checked") => req[r].arg \in EverLocked
    /\ plan = "in_execution" =>
         /\ At(r, "isolate", "checked") => Sequenced \subseteq EverLocked
         /\ At(r, "markVerified", "checked") => Sequenced \cap Requires \subseteq passed
         /\ At(r, "complete", "checked") => Sequenced \subseteq restored
         /\ At(r, "hang", "checked") /\ req[r].arg \in Locks
              => Predecessors(PointOf[req[r].arg]) \subseteq EverLocked

Inductive ==
  /\ TypeOK
  /\ EvidenceChain
  /\ LockOrder
  /\ NoEarlyUnwinding
  /\ ArgumentsFit
  /\ NothingBeforeStart
  /\ StampsLead
  /\ RequestsAfterStage
  /\ ChecksRemain

(* The strengthening of StepsAreUnique: what an open configuration has inserted
   collides neither with what another has, nor with the rows it leaves. *)
ConfigurationsApart ==
  /\ StepsAreUnique
  /\ \A r \in Configuring :
       /\ ~Collide(req[r].arg, Kept(r))
       /\ \A q \in Configuring \ {r} : ~Collide(req[r].arg, req[q].arg)
=============================================================================
