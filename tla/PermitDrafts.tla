---------------------------- MODULE PermitDrafts ----------------------------
(***************************************************************************)
(* The permits of a tenant before and after their approval: drafts that are *)
(* created, edited, submitted under a new reference and renewed from an     *)
(* expired permit by requests that overlap, the incidents that name permits, *)
(* and the nightly cleanup of old drafts.  The workflow itself is in        *)
(* ApprovalWorkflow; here a decision is one step.  Status 'rejected' stands *)
(* for 'deferred' too.                                                      *)
(***************************************************************************)
EXTENDS FiniteSets, Integers, FiniteSetsExt

CONSTANTS
  Permits,    \* rows of the table, used or not yet
  Requests,   \* requests that may overlap
  Editors,    \* those of them that may edit a permit
  Parallel,   \* permits of types with a stage of several approvers
  Reportable, \* permits that incidents may name
  NoPermit

ASSUME DraftsAssumption == IsFiniteSet(Permits) /\ IsFiniteSet(Requests)

VARIABLES
  status,     \* permits.status, "none" before the row exists, "deleted" after
  reference,  \* the number in permits.reference, 0 for null
  valid,      \* permits that validateForSubmit accepts
  old,        \* drafts with updated_at before the cutoff: no edit refreshes it
  decided,    \* permits with rows in permit_approvals
  history,    \* permits with rows in approval_history
  linked,     \* those with a history row that references a decision
  reported,   \* permits with rows in incident_permits
  selected,   \* what the cleanup selected and has still to delete
  req         \* for each request, its place in the code and what it read

ledger == <<decided, history, linked, reported>>
rows == <<status, reference, valid, old, ledger>>
vars == <<rows, selected, req>>

Missing == {"none", "deleted"}
Statuses == Missing \cup {"draft", "pending_approval", "approved", "rejected", "expired"}

(* Every overlap of two submissions of one permit may use up another number. *)
MaxReference == Cardinality(Permits) * Cardinality(Requests)

Idle == [pc |-> "idle", on |-> NoPermit, number |-> 0]

TypeOK ==
  /\ status \in [Permits -> Statuses]
  /\ reference \in [Permits -> 0 .. MaxReference]
  /\ valid \subseteq Permits
  /\ old \subseteq Permits
  /\ decided \subseteq Permits
  /\ history \subseteq Permits
  /\ linked \subseteq history
  /\ reported \subseteq Permits
  /\ selected \subseteq Permits
  /\ req \in [Requests ->
       [pc : {"idle", "edit", "submit", "numbered"},
        on : Permits \cup {NoPermit},
        number : 0 .. MaxReference]]

Init ==
  /\ status = [p \in Permits |-> "none"]
  /\ reference = [p \in Permits |-> 0]
  /\ valid = {}
  /\ old = {}
  /\ decided = {}
  /\ history = {}
  /\ linked = {}
  /\ reported = {}
  /\ selected = {}
  /\ req = [r \in Requests |-> Idle]

-----------------------------------------------------------------------------
(* Requests *)

Exists(p) == status[p] \notin Missing

(* isEditablePermitStatus and isSubmittablePermitStatus: the same statuses. *)
Editable(p) == status[p] \in {"draft", "rejected"}

(* The number is the reference that a submission read. *)
Begin(r, pc, p, number) ==
  /\ req[r].pc = "idle"
  /\ req' = [req EXCEPT ![r] = [pc |-> pc, on |-> p, number |-> number]]

End(r) == req' = [req EXCEPT ![r] = Idle]

NewDraft(p, complete) ==
  /\ status[p] = "none"
  /\ status' = [status EXCEPT ![p] = "draft"]
  /\ valid' = IF complete THEN valid \cup {p} ELSE valid
  /\ UNCHANGED <<reference, old, ledger, selected>>

Create(p) ==
  /\ \E complete \in BOOLEAN : NewDraft(p, complete)
  /\ UNCHANGED req

EditRead(r, p) ==
  /\ r \in Editors
  /\ Editable(p)
  /\ Begin(r, "edit", p, 0)
  /\ UNCHANGED <<rows, selected>>

(* The transaction does not look at the status again.  It fails on a permit that
   is gone.  updated_at keeps its value. *)
EditCommit(r) ==
  /\ req[r].pc = "edit"
  /\ End(r)
  /\ \/ Exists(req[r].on) /\ valid' \in {valid \cup {req[r].on}, valid \ {req[r].on}}
     \/ ~Exists(req[r].on) /\ UNCHANGED valid
  /\ UNCHANGED <<status, reference, old, ledger, selected>>

SubmitRead(r, p) ==
  /\ Editable(p)
  /\ p \in valid
  /\ Begin(r, "submit", p, reference[p])
  /\ UNCHANGED <<rows, selected>>

References == {reference[p] : p \in {q \in Permits : Exists(q)}} \cup {0}

(* Mutant: the references are counted. *)
MutNextReference == Cardinality(References \ {0}) + 1

(* generatePermitReference: the largest number in the table, and one. *)
NextReference == Max(References) + 1

(* Only a permit that had no reference when it was read gets a new one. *)
SubmitNumber(r) ==
  /\ req[r].pc = "submit"
  /\ req' = [req EXCEPT ![r].pc = "numbered",
                        ![r].number = IF @ = 0 THEN NextReference ELSE @]
  /\ UNCHANGED <<rows, selected>>

(* Mutant: the table without its unique index. *)
MutFree(n, p) == TRUE

(* permits_tenant_reference_unique *)
Free(n, p) == \A q \in Permits \ {p} : Exists(q) => reference[q] # n

(* The statements of the transaction succeed: the permit is there, its number is
   free, and no history row references a decision that the reset deletes: of a
   stage that is not complete it deletes them.  The row that a resubmission adds
   to the history is not its first. *)
Submittable(r) ==
  LET p == req[r].on IN Exists(p) /\ p \notin linked /\ Free(req[r].number, p)

SubmitCommit(r) ==
  LET p == req[r].on IN
  /\ req[r].pc = "numbered"
  /\ Submittable(r)
  /\ status' = [status EXCEPT ![p] = "pending_approval"]
  /\ reference' = [reference EXCEPT ![p] = req[r].number]
  /\ old' = old \ {p}
  /\ decided' = decided \ {p}
  /\ End(r)
  /\ UNCHANGED <<valid, history, linked, reported, selected>>

SubmitFail(r) ==
  /\ req[r].pc = "numbered"
  /\ ~Submittable(r)
  /\ End(r)
  /\ UNCHANGED <<rows, selected>>

(* The renewal is a draft of its own, without a reference.  What is read of the
   expired permit before the insert no longer changes: one step. *)
Renew(p, q) ==
  /\ status[p] = "expired"
  /\ NewDraft(q, p \in valid)
  /\ UNCHANGED req

-----------------------------------------------------------------------------
(* What happens to a submitted permit *)

(* Mutant: a final decision writes no history. *)
MutDecide(p) ==
  /\ status[p] = "pending_approval"
  /\ \E to \in {"pending_approval", "approved", "rejected"} :
       status' = [status EXCEPT ![p] = to]
  /\ decided' = decided \cup {p}
  /\ UNCHANGED <<reference, valid, old, history, linked, reported, selected, req>>

(* A decision clears a stage, grants the permit or returns it. *)
Decide(p) ==
  /\ status[p] = "pending_approval"
  /\ \E to \in {"pending_approval", "approved", "rejected"} :
       status' = [status EXCEPT ![p] = to]
  /\ decided' = decided \cup {p}
  /\ history' = history \cup {p}
  /\ linked' = linked \cup {p}
  /\ UNCHANGED <<reference, valid, old, reported, selected, req>>

(* The approval of a parallel stage that others have still to approve. *)
DecidePartly(p) ==
  /\ p \in Parallel
  /\ status[p] = "pending_approval"
  /\ decided' = decided \cup {p}
  /\ UNCHANGED <<status, reference, valid, old, history, linked, reported, selected, req>>

(* A veto leaves a history row without a decision. *)
Veto(p) ==
  /\ status[p] \in {"pending_approval", "approved"}
  /\ status' = [status EXCEPT ![p] = "rejected"]
  /\ history' = history \cup {p}
  /\ UNCHANGED <<reference, valid, old, decided, linked, reported, selected, req>>

Expire(p) ==
  /\ status[p] = "approved"
  /\ status' = [status EXCEPT ![p] = "expired"]
  /\ UNCHANGED <<reference, valid, old, ledger, selected, req>>

(* An incident that is recorded names permits, drafts too; nothing takes a link
   back. *)
Report(p) ==
  /\ p \in Reportable /\ Exists(p)
  /\ reported' = reported \cup {p}
  /\ UNCHANGED <<status, reference, valid, old, decided, history, linked, selected, req>>

-----------------------------------------------------------------------------
(* cleanupStaleDrafts *)

Age(p) ==
  /\ status[p] = "draft"
  /\ p \notin old
  /\ old' = old \cup {p}
  /\ UNCHANGED <<status, reference, valid, ledger, selected, req>>

Stale == {p \in old : status[p] = "draft"}

Select ==
  /\ selected = {}
  /\ Stale # {}
  /\ selected' = Stale
  /\ UNCHANGED <<rows, req>>

(* The delete cascades to approval_history, whose trigger refuses it, and the
   key of incident_permits restricts it. *)
Deletable(p) == p \notin history \cup reported

(* A permit is deleted by its id, whatever its status has become. *)
Delete(p) ==
  /\ p \in selected
  /\ Deletable(p)
  /\ status' = [status EXCEPT ![p] = "deleted"]
  /\ selected' = selected \ {p}
  /\ reference' = [reference EXCEPT ![p] = 0]
  /\ valid' = valid \ {p}
  /\ old' = old \ {p}
  /\ decided' = decided \ {p}
  /\ UNCHANGED <<history, linked, reported, req>>


(* A refused delete ends the run of the job; its next attempt, or the next
   night, selects again. *)
Abort ==
  /\ \E p \in selected : ~Deletable(p)
  /\ selected' = {}
  /\ UNCHANGED <<rows, req>>

-----------------------------------------------------------------------------

Answer(r) == EditCommit(r) \/ SubmitNumber(r) \/ SubmitCommit(r) \/ SubmitFail(r)

Cleanup == Select \/ Abort \/ \E p \in Permits : Delete(p)

Next ==
  \/ \E p \in Permits :
       \/ Create(p) \/ Age(p) \/ Report(p)
       \/ Decide(p) \/ DecidePartly(p) \/ Veto(p) \/ Expire(p)
       \/ \E r \in Requests : EditRead(r, p) \/ SubmitRead(r, p)
       \/ \E q \in Permits : Renew(p, q)
  \/ \E r \in Requests : Answer(r)
  \/ Cleanup

(* Requests are answered, the job runs every night, and an issuer whose draft is
   complete submits it, and submits it again when that fails. *)
Fairness ==
  /\ \A r \in Requests : WF_vars(Answer(r))
  /\ \A p \in Permits : SF_vars(\E r \in Requests : SubmitRead(r, p))
  /\ WF_vars(Cleanup)

Spec == Init /\ [][Next]_vars /\ Fairness

-----------------------------------------------------------------------------

Granted(p) == status[p] \in {"approved", "expired"}

(* What was decided is kept: a permit that was granted stays in the table under
   its reference and does not wait for approval again, unless it is vetoed, and
   one that was turned down is not deleted, although the cleanup may have
   selected it as a draft and a second submission may still hold another number
   for it (permit-jobs.service.ts:60 and permit.service.ts:301 act on what they
   read before).  An approval of a stage that is not complete is no such
   decision: it may go, with its permit or without. *)
DecidedIsKept ==
  [][\A p \in Permits :
       /\ Granted(p) => /\ status'[p] \in {"approved", "rejected", "expired"}
                       /\ reference'[p] = reference[p]
       /\ status[p] = "rejected" => status'[p] # "deleted"]_vars

(* No complete draft waits for ever: submissions that take the same number fail
   on its index, but each failure means that another one got through. *)
SubmissionGetsThrough ==
  \A p \in Permits : []<>~(status[p] = "draft" /\ p \in valid)


-----------------------------------------------------------------------------
(* The inductive strengthening of TypeOK. *)

Submitted == {"pending_approval", "approved", "rejected", "expired"}

(* A submitted permit has a reference, and no other permit in the table has it. *)
ReferencesIdentify ==
  /\ \A p \in Permits : status[p] \in Submitted => reference[p] # 0
  /\ \A p \in Permits : status[p] \in Missing => reference[p] = 0
  /\ \A p, q \in Permits :
       Exists(p) /\ Exists(q) /\ reference[p] = reference[q] /\ reference[p] # 0 => p = q

(* What was decided is on record: the history references the decision that granted
   a permit, and a referenced decision is there. *)
DecisionsOnRecord ==
  /\ \A p \in Permits : Granted(p) => p \in linked
  /\ \A p \in Permits : status[p] = "rejected" => p \in history
  /\ linked \subseteq decided

RequestsOnPermits ==
  \A r \in Requests :
    /\ req[r].pc # "idle" => req[r].on \in Permits
    /\ req[r].pc = "numbered" => req[r].number # 0

(* The numbers used up are no more than the pairs of a permit and a request that
   gave it a new number: a permit keeps its first reference as long as it is there, so that no request
   does that twice for one permit. *)
UsedUp(pairs) ==
  /\ \A p \in Permits, r \in Requests : <<p, r>> \in pairs => status[p] = "deleted" \/ reference[p] # 0
  /\ \A p \in Permits : reference[p] <= Cardinality(pairs)
  /\ \A r \in Requests :
       \/ req[r].number <= Cardinality(pairs)
       \/ /\ req[r].pc = "numbered" /\ req[r].number = Cardinality(pairs) + 1
          /\ <<req[r].on, r>> \notin pairs
  /\ \A r \in Requests :
       req[r].pc = "submit" /\ req[r].number = 0 => <<req[r].on, r>> \notin pairs

NumbersAreCounted == \E pairs \in SUBSET (Permits \X Requests) : UsedUp(pairs)

Inductive ==
  /\ TypeOK
  /\ ReferencesIdentify
  /\ DecisionsOnRecord
  /\ RequestsOnPermits
  /\ NumbersAreCounted
=============================================================================
