------------------------- MODULE IsolationExecution -------------------------
(***************************************************************************)
(* The isolation of the equipment of a plan: start, locks and tags at the   *)
(* points, verification of each point, and the two completion steps.        *)
(***************************************************************************)
EXTENDS LototoPlan

CONSTANTS
  Requires,   \* points whose steps require a verification
  Locks,      \* locks that may be hung, each with the tag printed on it
  Tags,       \* tags that may be hung
  PointOf     \* the point each of them is for

ASSUME IsolationAssumption ==
  /\ Requires \subseteq Points
  /\ PointOf \in [Locks \cup Tags -> Points]
  /\ Locks \cap Tags = {}

VARIABLES
  status,    \* isolation_execution.status, "none" before start
  stamps,    \* which of isolated_at, verified_at and restored_at are set
  hung,      \* applied_locks and applied_tags: never, applied or removed
  passed     \* points with a passing isolation_verification

isolationVars == <<status, stamps, hung, passed>>

Labels == Locks \cup Tags

IsolationTypeOK ==
  /\ status \in {"none", "in_progress", "isolated", "verified", "restored"}
  /\ stamps \subseteq {"isolated", "verified", "restored"}
  /\ hung \in [Labels -> {"never", "applied", "removed"}]
  /\ passed \subseteq Points

IsolationInit ==
  /\ status = "none"
  /\ stamps = {}
  /\ hung = [l \in Labels |-> "never"]
  /\ passed = {}

-----------------------------------------------------------------------------

(* A point's lock by one of its tags; EverLocked looks at removed ones too. *)
Locked     == {PointOf[l] : l \in {k \in Locks : hung[k] = "applied"}}
EverLocked == {PointOf[l] : l \in {k \in Locks : hung[k] # "never"}}

Sequenced == Range(sequence)

(* Points with a lower sequence_order; none for a point outside the sequence. *)
Predecessors(p) ==
  {sequence[i] : i \in {i \in DOMAIN sequence : \E j \in DOMAIN sequence : i < j /\ sequence[j] = p}}

StartRead(r) ==
  /\ plan = "ready"
  /\ status = "none"
  /\ Begin(r, "start", NoArg)

(* The unique index on plan_id refuses a second execution. *)
StartCommit(r) ==
  /\ status = "none"
  /\ Finish(r, "start", "begun")
  /\ status' = "in_progress"
  /\ plan' = "in_execution"

(* assertLockSequence *)
SequenceRespected(p) == Predecessors(p) \subseteq Locked

(* LockService.apply and TagService.apply: the execution and the point, then
   the number on the label, which is unique at its point. *)
HangRead(r, labels) ==
  /\ status = "in_progress"
  /\ \E l \in labels : PointOf[l] \in points /\ Begin(r, "hang", l)

HangCheck(r, labels) ==
  /\ req[r].arg \in labels
  /\ Pass(r, "hang", "begun", "checked")
  /\ hung[req[r].arg] = "never"

HangInsert(r, labels) ==
  /\ req[r].arg \in labels
  /\ Finish(r, "hang", "checked")
  /\ hung[req[r].arg] = "never"
  /\ hung' = [hung EXCEPT ![req[r].arg] = "applied"]

LockRead(r)   == HangRead(r, Locks)
LockCheck(r)  == HangCheck(r, Locks) /\ SequenceRespected(PointOf[req[r].arg])
LockInsert(r) == HangInsert(r, Locks)

TagRead(r)   == HangRead(r, Tags)
TagCheck(r)  == HangCheck(r, Tags)
TagInsert(r) == HangInsert(r, Tags)

(* LockService.remove and TagService.remove look at the label alone, not at
   the status of the execution. *)
TakeDownRead(r, labels) ==
  \E l \in labels : hung[l] = "applied" /\ Begin(r, "takeDown", l)

TakeDownWrite(r, labels) ==
  /\ req[r].arg \in labels
  /\ Finish(r, "takeDown", "begun")
  /\ hung' = [hung EXCEPT ![req[r].arg] = "removed"]

LockTakeDownRead(r)  == TakeDownRead(r, Locks)
LockTakeDownWrite(r) == TakeDownWrite(r, Locks)
TagTakeDownRead(r)   == TakeDownRead(r, Tags)
TagTakeDownWrite(r)  == TakeDownWrite(r, Tags)

VerifyRead(r) ==
  /\ status \in {"in_progress", "isolated"}
  /\ \E p \in points : Begin(r, "verify", p)

VerifyCheck(r) ==
  /\ Pass(r, "verify", "begun", "checked")
  /\ req[r].arg \in Locked
  /\ req[r].arg \notin passed

(* A failed verification is a row nothing reads; a pass is unique. *)
VerifyInsert(r) ==
  /\ Finish(r, "verify", "checked")
  /\ req[r].arg \notin passed
  /\ passed' = passed \cup {req[r].arg}

MarkIsolatedRead(r) ==
  /\ status = "in_progress"
  /\ Begin(r, "isolate", NoArg)

(* Mutant: one locked point is enough. *)
MutAllPointsLocked == sequence # <<>> /\ Sequenced \cap Locked # {}

AllPointsLocked == sequence # <<>> /\ Sequenced \subseteq Locked

MarkIsolatedCheck(r) ==
  /\ AllPointsLocked
  /\ Pass(r, "isolate", "begun", "checked")

(* The two updates ask for no status of before: a late one takes the execution
   back, its time stamps stay. *)
MarkIsolatedWrite(r) ==
  /\ Finish(r, "isolate", "checked")
  /\ status' = "isolated"
  /\ stamps' = stamps \cup {"isolated"}

(* Mutant: the completion of the verification does not ask for isolation. *)
MutMarkVerifiedRead(r) ==
  /\ status \in {"in_progress", "isolated"}
  /\ Begin(r, "markVerified", NoArg)

MarkVerifiedRead(r) ==
  /\ status = "isolated"
  /\ Begin(r, "markVerified", NoArg)

(* assertAllPointsVerified *)
AllPointsVerified == Sequenced \cap Requires \subseteq passed

MarkVerifiedCheck(r) ==
  /\ AllPointsVerified
  /\ Pass(r, "markVerified", "begun", "checked")

MarkVerifiedWrite(r) ==
  /\ Finish(r, "markVerified", "checked")
  /\ status' = "verified"
  /\ stamps' = stamps \cup {"verified"}

IsolationStep(r) ==
  \/ StartCommit(r)
     /\ UNCHANGED <<points, sequence, configurations, deleted, stamps, hung, passed>>
  \/ /\ \/ LockInsert(r) \/ LockTakeDownWrite(r)
        \/ TagInsert(r) \/ TagTakeDownWrite(r)
     /\ UNCHANGED <<planVars, status, stamps, passed>>
  \/ VerifyInsert(r) /\ UNCHANGED <<planVars, status, stamps, hung>>
  \/ (MarkIsolatedWrite(r) \/ MarkVerifiedWrite(r)) /\ UNCHANGED <<planVars, hung, passed>>
  \/ /\ \/ StartRead(r)
        \/ LockRead(r) \/ LockCheck(r) \/ LockTakeDownRead(r)
        \/ TagRead(r) \/ TagCheck(r) \/ TagTakeDownRead(r)
        \/ VerifyRead(r) \/ VerifyCheck(r)
        \/ MarkIsolatedRead(r) \/ MarkIsolatedCheck(r)
        \/ MarkVerifiedRead(r) \/ MarkVerifiedCheck(r)
     /\ UNCHANGED <<planVars, isolationVars>>
=============================================================================
