------------------------ MODULE SimopsConflicts_proofs ------------------------
(***************************************************************************)
(* Proofs about conflicts between permits, for any permits, plans and       *)
(* number of overlapping requests, and wherever a request breaks off.       *)
(***************************************************************************)
EXTENDS SimopsConflicts, FiniteSetTheorems, TLAPS

Rows ==
  /\ plan \in Plans
  /\ permit \in [Permits -> {"other", "working", "suspended"}]
  /\ conflict \in [Fingerprints -> {"none", "open", "assessed", "mitigation_planned"} \cup Outcome]
  /\ involved \subseteq Fingerprints
  /\ assessed \subseteq Fingerprints
  /\ planned \subseteq Fingerprints
  /\ resolution \in [Fingerprints -> {"none"} \cup Outcome]
  /\ holds \subseteq Permits \X Fingerprints
  /\ ResolvedOnce
  /\ HoldsFollowRejection

LEMMA Parts ==
  Inductive <=> Rows /\ req \in [Requests -> Request] /\ \A r \in Requests : Sound(req[r])
BY DEF Inductive, TypeOK, Rows

LEMMA WholeAfter ==
  ASSUME Rows', req' \in [Requests -> Request], \A r \in Requests : Sound(req[r])'
  PROVE  Inductive'
BY DEF Inductive, TypeOK, Rows

(* A fingerprint begins with its permits. *)
LEMMA FingerprintPermits ==
  ASSUME NEW c \in Fingerprints
  PROVE  c[1] \subseteq Permits
BY DEF Fingerprints, Pairs

-----------------------------------------------------------------------------
(* Steps of a request *)

(* Rows are not deleted, and a resolution is for good. *)
Grows ==
  \A c \in Fingerprints :
    /\ Recorded(c) => Recorded(c)'
    /\ resolution[c] # "none" => resolution'[c] = resolution[c]

LEMMA SoundStays ==
  ASSUME NEW q \in Request, Sound(q), Grows
  PROVE  Sound(q)'
<1>1. ASSUME q.pc \in {"involve", "assess", "setAssessed", "mitigate", "setPlanned", "approve",
                       "setApproved", "reject", "setRejected", "participants", "suspend", "hold"}
      PROVE  q.c \in Fingerprints /\ Recorded(q.c)'
  BY <1>1 DEF Sound, Grows
<1>2. /\ q.pc = "setApproved" => resolution'[q.c] = "approved"
      /\ q.pc \in {"setRejected", "participants", "suspend", "hold"} => resolution'[q.c] = "rejected"
  BY DEF Sound, Grows
<1>3. QED
  BY <1>1, <1>2 DEF Sound, Recorded

(* A step keeps the invariant if the rows keep theirs and the request becomes
   a sound one. *)
LEMMA RequestStep ==
  ASSUME Inductive, NEW r \in Requests, Grows, Rows',
         \E q \in Request : Sound(q)' /\ req' = [req EXCEPT ![r] = q]
  PROVE  Inductive'
<1>1. PICK q \in Request : Sound(q)' /\ req' = [req EXCEPT ![r] = q]
  OBVIOUS
<1>2. req' \in [Requests -> Request]
  BY <1>1, Parts
<1>3. ASSUME NEW x \in Requests PROVE Sound(req[x])'
  <2>1. CASE x = r
    <3>1. req'[x] = q
      BY <1>1, <2>1, Parts
    <3>2. QED
      BY <1>1, <3>1 DEF Sound, Recorded
  <2>2. CASE x # r
    <3>1. PICK y \in Request : y = req[x]
      BY Parts
    <3>2. Sound(y)'
      BY <3>1, Parts, SoundStays
    <3>3. req'[x] = y
      BY <1>1, <2>2, <3>1, Parts
    <3>4. QED
      BY <3>2, <3>3 DEF Sound, Recorded
  <2>3. QED
    BY <2>1, <2>2
<1>4. QED
  BY <1>2, <1>3, WholeAfter

(* What a request relies on, where it changes no row. *)
LEMMA QuietRows ==
  ASSUME Inductive, UNCHANGED <<plan, permit, conflict, involved, paperwork, holds>>
  PROVE  Grows /\ Rows'
BY Parts DEF Grows, Recorded, Rows, ResolvedOnce, HoldsFollowRejection, paperwork

LEMMA QuietStep ==
  ASSUME Inductive, NEW r \in Requests, NEW q \in Request, Sound(q),
         req' = [req EXCEPT ![r] = q],
         UNCHANGED <<plan, permit, conflict, involved, paperwork, holds>>
  PROVE  Inductive'
BY QuietRows, SoundStays, RequestStep

LEMMA IdleSound == Idle \in Request /\ Sound(Idle) /\ Sound(Idle)'
<1>1. Idle \in Request /\ Idle.pc = "idle"
  BY DEF Idle, Request
<1>2. QED
  BY <1>1 DEF Sound

LEMMA Moves ==
  ASSUME Inductive, NEW r \in Requests, NEW from, At(r, from)
  PROVE  req[r] \in Request /\ Sound(req[r]) /\ req[r].pc = from
BY Parts DEF At

(* A request that goes on keeps its conflict and its list. *)
LEMMA GoesOn ==
  ASSUME Inductive, NEW r \in Requests,
         NEW to \in {"involve", "setAssessed", "setPlanned", "setApproved", "setRejected",
                     "participants"},
         Goto(r, to)
  PROVE  \E q \in Request : /\ q.pc = to /\ q.c = req[r].c /\ q.todo = req[r].todo
                            /\ req' = [req EXCEPT ![r] = q]
<1>1. req[r] \in Request
  BY Parts
<1>2. PICK q : q = [req[r] EXCEPT !.pc = to]
  OBVIOUS
<1>3. q \in Request /\ q.pc = to /\ q.c = req[r].c /\ q.todo = req[r].todo
  BY <1>1, <1>2 DEF Request
<1>4. req' = [req EXCEPT ![r] = q]
  BY <1>2 DEF Goto
<1>5. QED
  BY <1>3, <1>4

-----------------------------------------------------------------------------
(* The analysis *)

LEMMA AnalyseStep ==
  ASSUME Inductive, NEW r \in Requests, NEW about \in Permits \cup {NoArg}, Analyse(r, about)
  PROVE  Inductive'
<1> DEFINE found == {c \in DetectConflicts(Analysable) : about = NoArg \/ about \in c[1]}
<1>1. found \subseteq Fingerprints
  BY DEF DetectConflicts
<1>2. PICK q : q = [Idle EXCEPT !.pc = "persist", !.c = NoArg, !.todo = found]
  OBVIOUS
<1>3. req' = [req EXCEPT ![r] = q] /\ UNCHANGED <<plan, permit, conflict, involved, paperwork, holds>>
  BY <1>2 DEF Analyse, Begin
<1> HIDE DEF found
<1>4. q \in Request /\ q.pc = "persist" /\ q.todo \subseteq Fingerprints
  BY <1>1, <1>2 DEF Idle, Request
<1>5. Sound(q)
  BY <1>4 DEF Sound
<1>6. QED
  BY <1>3, <1>4, <1>5, QuietStep

LEMMA LookupStep ==
  ASSUME Inductive, NEW r \in Requests, Lookup(r)
  PROVE  Inductive'
<1>1. req[r] \in Request /\ Sound(req[r]) /\ req[r].pc = "persist"
  BY Moves DEF Lookup
<1>2. PICK c \in req[r].todo :
        IF conflict[c] # "none" THEN req' = [req EXCEPT ![r].todo = @ \ {c}]
                                ELSE req' = [req EXCEPT ![r].pc = "insert", ![r].c = c]
  BY DEF Lookup
<1>3. req[r].todo \subseteq Fingerprints
  BY <1>1 DEF Sound
<1>4. CASE Recorded(c)
  <2>1. PICK q : q = [req[r] EXCEPT !.todo = @ \ {c}]
    OBVIOUS
  <2>2. q \in Request /\ q.pc = "persist" /\ q.todo = req[r].todo \ {c}
    BY <1>1, <2>1 DEF Request
  <2>3. Sound(q)
    BY <1>3, <2>2 DEF Sound
  <2>4. req' = [req EXCEPT ![r] = q]
    BY <1>2, <1>4, <2>1, Parts DEF Recorded, Request
  <2>5. QED
    BY <2>2, <2>3, <2>4, QuietStep DEF Lookup
<1>5. CASE ~Recorded(c)
  <2>1. PICK q : q = [req[r] EXCEPT !.pc = "insert", !.c = c]
    OBVIOUS
  <2>2. q \in Request /\ q.pc = "insert" /\ q.c = c /\ q.todo = req[r].todo
    BY <1>1, <1>3, <2>1 DEF Request
  <2>3. Sound(q)
    BY <1>3, <2>2 DEF Sound
  <2>4. req' = [req EXCEPT ![r] = q]
    BY <1>2, <1>5, <2>1, Parts DEF Recorded, Request
  <2>5. QED
    BY <2>2, <2>3, <2>4, QuietStep DEF Lookup
<1>6. QED
  BY <1>4, <1>5

LEMMA InsertConflictStep ==
  ASSUME Inductive, NEW r \in Requests, InsertConflict(r)
  PROVE  Inductive'
<1>1. req[r] \in Request /\ Sound(req[r]) /\ req[r].pc = "insert"
  BY Moves DEF InsertConflict
<1>2. /\ req[r].c \in req[r].todo /\ req[r].todo \subseteq Fingerprints
      /\ req[r].c \in Fingerprints
  BY <1>1 DEF Sound
<1>3. /\ conflict' = [conflict EXCEPT ![req[r].c] = "open"]
      /\ UNCHANGED <<plan, permit, involved, assessed, planned, resolution, holds>>
  BY DEF InsertConflict, paperwork
<1>4. \A c \in Fingerprints : conflict'[c] = IF c = req[r].c THEN "open" ELSE conflict[c]
  BY <1>3, Parts DEF Rows
<1>5. Grows
  BY <1>3, <1>4 DEF Grows, Recorded
<1>6. Rows'
  BY <1>2, <1>3, <1>4, Parts DEF Rows, ResolvedOnce, HoldsFollowRejection, Outcome
<1>7. PICK q \in Request : /\ q.pc = "involve" /\ q.c = req[r].c /\ q.todo = req[r].todo
                           /\ req' = [req EXCEPT ![r] = q]
  BY GoesOn DEF InsertConflict
<1>8. Recorded(q.c)'
  BY <1>2, <1>4, <1>7 DEF Recorded
<1>9. Sound(q)'
  BY <1>2, <1>7, <1>8 DEF Sound, Recorded
<1>10. QED
  BY <1>5, <1>6, <1>7, <1>9, RequestStep

LEMMA InsertParticipantsStep ==
  ASSUME Inductive, NEW r \in Requests, InsertParticipants(r)
  PROVE  Inductive'
<1>1. req[r] \in Request /\ Sound(req[r]) /\ req[r].pc = "involve"
  BY Moves DEF InsertParticipants
<1>2. req[r].todo \subseteq Fingerprints /\ req[r].c \in Fingerprints
  BY <1>1 DEF Sound
<1>3. PICK q : q = [req[r] EXCEPT !.pc = "persist", !.c = NoArg, !.todo = @ \ {req[r].c}]
  OBVIOUS
<1>4. q \in Request /\ q.pc = "persist" /\ q.todo = req[r].todo \ {req[r].c}
  BY <1>1, <1>3 DEF Request
<1>5. Sound(q)
  BY <1>2, <1>4 DEF Sound
<1>6. Grows /\ Rows'
  BY <1>2, Parts DEF InsertParticipants, Grows, Recorded, Rows, ResolvedOnce,
                     HoldsFollowRejection, paperwork
<1>7. req' = [req EXCEPT ![r] = q]
  BY <1>3, Parts DEF InsertParticipants, Request
<1>8. QED
  BY <1>4, <1>5, <1>6, <1>7, SoundStays, RequestStep

(* Requests that end, and requests that select what they will do. *)
LEMMA EndStep ==
  ASSUME Inductive, NEW r \in Requests, Report(r) \/ InsertRefused(r) \/ Rejected(r) \/ Fail(r)
  PROVE  Inductive'
BY IdleSound, QuietStep DEF Report, InsertRefused, Rejected, Fail, Goto

-----------------------------------------------------------------------------
(* Assessment, mitigation and resolution *)

LEMMA RequireStep ==
  ASSUME Inductive, NEW r \in Requests, RequireOpenConflict(r)
  PROVE  Inductive'
<1>1. PICK op \in DOMAIN Operation, c \in Handled :
        conflict[c] \in Operation[op] /\ Begin(r, op, c, {})
  BY DEF RequireOpenConflict
<1>2. op \in {"assess", "mitigate", "approve", "reject"} /\ Recorded(c)
  BY <1>1 DEF Operation, Recorded
<1>3. c \in Fingerprints
  BY BoundsAssumption
<1>4. PICK q : q = [Idle EXCEPT !.pc = op, !.c = c, !.todo = {}]
  OBVIOUS
<1>5. q \in Request /\ q.pc = op /\ q.c = c
  BY <1>2, <1>3, <1>4 DEF Idle, Request
<1>6. Sound(q)
  BY <1>2, <1>3, <1>5 DEF Sound
<1>7. QED
  BY <1>1, <1>4, <1>5, <1>6, QuietStep DEF Begin, RequireOpenConflict

LEMMA AssessStep ==
  ASSUME Inductive, NEW r \in Requests, Assess(r)
  PROVE  Inductive'
<1>1. req[r] \in Request /\ Sound(req[r]) /\ req[r].pc = "assess"
  BY Moves DEF Assess
<1>2. req[r].c \in Fingerprints /\ Recorded(req[r].c)
  BY <1>1 DEF Sound
<1>3. Grows /\ Rows'
  BY <1>2, Parts DEF Assess, Grows, Recorded, Rows, ResolvedOnce, HoldsFollowRejection
<1>4. PICK q \in Request : q.pc = "setAssessed" /\ q.c = req[r].c /\ req' = [req EXCEPT ![r] = q]
  BY GoesOn DEF Assess
<1>5. Sound(q)
  BY <1>2, <1>4 DEF Sound
<1>6. QED
  BY <1>3, <1>4, <1>5, SoundStays, RequestStep

LEMMA CreateMitigationStep ==
  ASSUME Inductive, NEW r \in Requests, CreateMitigation(r)
  PROVE  Inductive'
<1>1. req[r] \in Request /\ Sound(req[r]) /\ req[r].pc = "mitigate"
  BY Moves DEF CreateMitigation
<1>2. req[r].c \in Fingerprints /\ Recorded(req[r].c)
  BY <1>1 DEF Sound
<1>3. Grows /\ Rows'
  BY <1>2, Parts DEF CreateMitigation, Grows, Recorded, Rows, ResolvedOnce, HoldsFollowRejection
<1>4. PICK q \in Request : q.pc = "setPlanned" /\ q.c = req[r].c /\ req' = [req EXCEPT ![r] = q]
  BY GoesOn DEF CreateMitigation
<1>5. Sound(q)
  BY <1>2, <1>4 DEF Sound
<1>6. QED
  BY <1>3, <1>4, <1>5, SoundStays, RequestStep

(* The insert of a resolution, which there was none of before. *)
LEMMA NewResolution ==
  ASSUME Inductive, NEW c \in Fingerprints, Unresolved(c), NEW o \in Outcome,
         resolution' = [resolution EXCEPT ![c] = o],
         UNCHANGED <<plan, permit, conflict, involved, assessed, planned, holds>>
  PROVE  Grows /\ Rows' /\ resolution'[c] = o
<1>1. \A d \in Fingerprints : resolution'[d] = IF d = c THEN o ELSE resolution[d]
  BY Parts DEF Rows
<1>2. Grows
  BY <1>1 DEF Grows, Recorded, Unresolved
<1>3. ResolvedOnce'
  BY <1>1, Parts DEF Rows, ResolvedOnce, Unresolved, Outcome
<1>4. HoldsFollowRejection'
  <2>1. ASSUME NEW h \in holds PROVE h[1] \in h[2][1] /\ resolution'[h[2]] = "rejected"
    <3>1. h[2] \in Fingerprints /\ h[1] \in h[2][1] /\ resolution[h[2]] = "rejected"
      BY Parts DEF Rows, HoldsFollowRejection
    <3>2. QED
      BY <1>1, <3>1 DEF Unresolved
  <2>2. QED
    BY <2>1 DEF HoldsFollowRejection
<1>5. QED
  BY <1>1, <1>2, <1>3, <1>4, Parts DEF Rows

LEMMA ApproveStep ==
  ASSUME Inductive, NEW r \in Requests, Approve(r)
  PROVE  Inductive'
<1>1. req[r] \in Request /\ Sound(req[r]) /\ req[r].pc = "approve"
  BY Moves DEF Approve
<1>2. req[r].c \in Fingerprints /\ Recorded(req[r].c)
  BY <1>1 DEF Sound
<1>3. Grows /\ Rows' /\ resolution'[req[r].c] = "approved"
  BY <1>2, NewResolution DEF Approve, Outcome
<1>4. PICK q \in Request : q.pc = "setApproved" /\ q.c = req[r].c /\ req' = [req EXCEPT ![r] = q]
  BY GoesOn DEF Approve
<1>5. Recorded(q.c)'
  BY <1>2, <1>3, <1>4 DEF Grows, Recorded
<1>6. Sound(q)'
  BY <1>2, <1>3, <1>4, <1>5 DEF Sound, Recorded
<1>7. QED
  BY <1>3, <1>4, <1>6, RequestStep

LEMMA RejectStep ==
  ASSUME Inductive, NEW r \in Requests, Reject(r)
  PROVE  Inductive'
<1>1. req[r] \in Request /\ Sound(req[r]) /\ req[r].pc = "reject"
  BY Moves DEF Reject
<1>2. req[r].c \in Fingerprints /\ Recorded(req[r].c)
  BY <1>1 DEF Sound
<1>3. Grows /\ Rows' /\ resolution'[req[r].c] = "rejected"
  BY <1>2, NewResolution DEF Reject, Outcome
<1>4. PICK q \in Request : q.pc = "setRejected" /\ q.c = req[r].c /\ req' = [req EXCEPT ![r] = q]
  BY GoesOn DEF Reject
<1>5. Recorded(q.c)'
  BY <1>2, <1>3, <1>4 DEF Grows, Recorded
<1>6. Sound(q)'
  BY <1>2, <1>3, <1>4, <1>5 DEF Sound, Recorded
<1>7. QED
  BY <1>3, <1>4, <1>6, RequestStep

(* A status written to a recorded conflict: an outcome only where it is that of
   the resolution. *)
LEMMA NewStatus ==
  ASSUME Inductive, NEW c \in Fingerprints,
         NEW s \in {"open", "assessed", "mitigation_planned"} \cup Outcome,
         s \in Outcome => resolution[c] = s,
         conflict' = [conflict EXCEPT ![c] = s],
         UNCHANGED <<plan, permit, involved, paperwork, holds>>
  PROVE  Grows /\ Rows'
<1>1. \A d \in Fingerprints : conflict'[d] = IF d = c THEN s ELSE conflict[d]
  BY Parts DEF Rows
<1>2. s # "none"
  BY DEF Outcome
<1>3. Grows
  BY <1>1, <1>2 DEF Grows, Recorded, paperwork
<1>4. ResolvedOnce'
  BY <1>1, Parts DEF Rows, ResolvedOnce, paperwork
<1>5. QED
  BY <1>3, <1>4, Parts DEF Rows, HoldsFollowRejection, paperwork

LEMMA StatusSteps ==
  ASSUME Inductive, NEW r \in Requests,
         SetAssessed(r) \/ SetPlanned(r) \/ SetApproved(r) \/ SetRejected(r)
  PROVE  Inductive'
<1>1. CASE SetAssessed(r)
  <2>1. req[r].c \in Fingerprints
    BY <1>1, Moves DEF SetAssessed, SetStatus, Sound
  <2>2. Grows /\ Rows'
    BY <1>1, <2>1, NewStatus DEF SetAssessed, SetStatus, Outcome
  <2>3. QED
    BY <1>1, <2>2, IdleSound, RequestStep DEF SetAssessed, SetStatus, Goto
<1>2. CASE SetPlanned(r)
  <2>1. req[r].c \in Fingerprints
    BY <1>2, Moves DEF SetPlanned, SetStatus, Sound
  <2>2. Grows /\ Rows'
    BY <1>2, <2>1, NewStatus DEF SetPlanned, SetStatus, Outcome
  <2>3. QED
    BY <1>2, <2>2, IdleSound, RequestStep DEF SetPlanned, SetStatus, Goto
<1>3. CASE SetApproved(r)
  <2>1. req[r].c \in Fingerprints /\ resolution[req[r].c] = "approved"
    BY <1>3, Moves DEF SetApproved, SetStatus, Sound
  <2>2. Grows /\ Rows'
    BY <1>3, <2>1, NewStatus DEF SetApproved, SetStatus, Outcome
  <2>3. QED
    BY <1>3, <2>2, IdleSound, RequestStep DEF SetApproved, SetStatus, Goto
<1>4. CASE SetRejected(r)
  <2>1. req[r].c \in Fingerprints /\ Recorded(req[r].c) /\ resolution[req[r].c] = "rejected"
    BY <1>4, Moves DEF SetRejected, SetStatus, Sound
  <2>2. Grows /\ Rows'
    BY <1>4, <2>1, NewStatus DEF SetRejected, SetStatus, Outcome
  <2>3. PICK q \in Request : q.pc = "participants" /\ q.c = req[r].c /\ req' = [req EXCEPT ![r] = q]
    BY <1>4, GoesOn DEF SetRejected, SetStatus
  <2>4. Sound(q)
    BY <2>1, <2>3 DEF Sound
  <2>5. QED
    BY <2>2, <2>3, <2>4, SoundStays, RequestStep
<1>5. QED
  BY <1>1, <1>2, <1>3, <1>4

-----------------------------------------------------------------------------
(* The suspension of the participants *)

LEMMA SelectParticipantsStep ==
  ASSUME Inductive, NEW r \in Requests, SelectParticipants(r)
  PROVE  Inductive'
<1>1. req[r] \in Request /\ Sound(req[r]) /\ req[r].pc = "participants"
  BY Moves DEF SelectParticipants
<1>2. /\ req[r].c \in Fingerprints /\ Recorded(req[r].c) /\ resolution[req[r].c] = "rejected"
  BY <1>1 DEF Sound
<1>3. Participants(req[r].c) \subseteq req[r].c[1] /\ req[r].c[1] \subseteq Permits
  BY <1>2, FingerprintPermits DEF Participants
<1>4. PICK q : /\ q = [req[r] EXCEPT !.pc = "suspend", !.todo = Participants(req[r].c)]
               /\ req' = [req EXCEPT ![r] = q]
  BY Parts DEF SelectParticipants
<1>5. q \in Request /\ q.pc = "suspend" /\ q.c = req[r].c /\ q.todo = Participants(req[r].c)
  BY <1>1, <1>3, <1>4 DEF Request
<1>6. Sound(q)
  BY <1>2, <1>3, <1>5 DEF Sound
<1>7. QED
  BY <1>4, <1>5, <1>6, QuietStep DEF SelectParticipants

LEMMA PermitRows ==
  ASSUME Inductive, permit' \in [Permits -> {"other", "working", "suspended"}],
         UNCHANGED <<plan, conflict, involved, paperwork, holds>>
  PROVE  Grows /\ Rows'
BY Parts DEF Grows, Recorded, Rows, ResolvedOnce, HoldsFollowRejection, paperwork

LEMMA SuspendStep ==
  ASSUME Inductive, NEW r \in Requests, Suspend(r)
  PROVE  Inductive'
<1>1. req[r] \in Request /\ Sound(req[r]) /\ req[r].pc = "suspend"
  BY Moves DEF Suspend
<1>2. /\ req[r].c \in Fingerprints /\ Recorded(req[r].c) /\ resolution[req[r].c] = "rejected"
      /\ req[r].todo \subseteq req[r].c[1] /\ req[r].c[1] \subseteq Permits
  BY <1>1, FingerprintPermits DEF Sound
<1>3. PICK p \in req[r].todo :
        IF permit[p] = "working"
          THEN /\ permit' = [permit EXCEPT ![p] = "suspended"]
               /\ req' = [req EXCEPT ![r].pc = "hold", ![r].p = p, ![r].todo = @ \ {p}]
          ELSE /\ req' = [req EXCEPT ![r].todo = @ \ {p}]
               /\ UNCHANGED permit
  BY DEF Suspend
<1>4. Grows /\ Rows'
  BY <1>3, PermitRows, Parts DEF Suspend, Rows
<1>5. CASE permit[p] = "working"
  <2>1. PICK q : q = [req[r] EXCEPT !.pc = "hold", !.p = p, !.todo = @ \ {p}]
    OBVIOUS
  <2>2. req' = [req EXCEPT ![r] = q]
    BY <1>3, <1>5, <2>1, Parts DEF Request
  <2>3. /\ q \in Request /\ q.pc = "hold" /\ q.c = req[r].c /\ q.todo = req[r].todo \ {p}
        /\ q.p = p
    BY <1>1, <1>2, <2>1 DEF Request
  <2>4. Sound(q)
    BY <1>2, <2>3 DEF Sound
  <2>5. QED
    BY <1>4, <2>2, <2>3, <2>4, SoundStays, RequestStep
<1>6. CASE permit[p] # "working"
  <2>1. PICK q : q = [req[r] EXCEPT !.todo = @ \ {p}]
    OBVIOUS
  <2>2. req' = [req EXCEPT ![r] = q]
    BY <1>3, <1>6, <2>1, Parts DEF Request
  <2>3. q \in Request /\ q.pc = "suspend" /\ q.c = req[r].c /\ q.todo = req[r].todo \ {p}
    BY <1>1, <2>1 DEF Request
  <2>4. Sound(q)
    BY <1>2, <2>3 DEF Sound
  <2>5. QED
    BY <1>4, <2>2, <2>3, <2>4, SoundStays, RequestStep
<1>7. QED
  BY <1>5, <1>6

LEMMA InsertHoldStep ==
  ASSUME Inductive, NEW r \in Requests, InsertHold(r)
  PROVE  Inductive'
<1>1. req[r] \in Request /\ Sound(req[r]) /\ req[r].pc = "hold"
  BY Moves DEF InsertHold
<1>2. /\ req[r].c \in Fingerprints /\ Recorded(req[r].c) /\ resolution[req[r].c] = "rejected"
      /\ req[r].todo \subseteq req[r].c[1] /\ req[r].p \in req[r].c[1]
      /\ req[r].c[1] \subseteq Permits
  BY <1>1, FingerprintPermits DEF Sound
<1>3. PICK h : h = <<req[r].p, req[r].c>>
  OBVIOUS
<1>4. /\ holds' = holds \cup {h}
      /\ UNCHANGED <<plan, permit, conflict, involved, assessed, planned, resolution>>
  BY <1>3 DEF InsertHold, paperwork
<1>5. h \in Permits \X Fingerprints /\ h[1] \in h[2][1] /\ resolution[h[2]] = "rejected"
  BY <1>2, <1>3
<1>6. HoldsFollowRejection'
  BY <1>4, <1>5, Parts DEF Rows, HoldsFollowRejection
<1>7. Grows /\ Rows'
  BY <1>4, <1>5, <1>6, Parts DEF Grows, Recorded, Rows, ResolvedOnce
<1>8. PICK q : q = [req[r] EXCEPT !.pc = "suspend", !.p = NoArg]
  OBVIOUS
<1>9. req' = [req EXCEPT ![r] = q]
  BY <1>8, Parts DEF InsertHold, Request
<1>10. q \in Request /\ q.pc = "suspend" /\ q.c = req[r].c /\ q.todo = req[r].todo
  BY <1>1, <1>8 DEF Request
<1>11. Sound(q)
  BY <1>2, <1>10 DEF Sound
<1>12. QED
  BY <1>7, <1>9, <1>10, <1>11, SoundStays, RequestStep

LEMMA ElsewhereStep ==
  ASSUME Inductive, NEW p \in Moving, Elsewhere(p)
  PROVE  Inductive'
<1>1. Grows /\ Rows'
  BY PermitRows, Parts DEF Elsewhere, Rows
<1>2. ASSUME NEW r \in Requests PROVE Sound(req[r])'
  <2>1. PICK q \in Request : q = req[r] /\ Sound(q)
    BY Parts
  <2>2. Sound(q)' /\ req'[r] = q
    BY <1>1, <2>1, SoundStays DEF Elsewhere
  <2>3. QED
    BY <2>2 DEF Sound, Recorded
<1>3. req' \in [Requests -> Request]
  BY Parts DEF Elsewhere
<1>4. QED
  BY <1>1, <1>2, <1>3, WholeAfter

-----------------------------------------------------------------------------
(* The invariant *)

LEMMA InitInductive ==
  ASSUME Init
  PROVE  Inductive
<1>1. Rows
  BY DEF Init, Rows, ResolvedOnce, HoldsFollowRejection, Outcome
<1>2. req \in [Requests -> Request] /\ \A r \in Requests : Sound(req[r])
  BY IdleSound DEF Init
<1>3. QED
  BY <1>1, <1>2, Parts

LEMMA StutterInductive ==
  ASSUME Inductive, UNCHANGED vars
  PROVE  Inductive'
BY DEF Inductive, TypeOK, ResolvedOnce, HoldsFollowRejection, Sound, Recorded, vars, paperwork

LEMMA StepInductive ==
  ASSUME Inductive, [Next]_vars
  PROVE  Inductive'
<1>1. ASSUME NEW r \in Requests,
             \/ \E about \in Permits \cup {NoArg} : Analyse(r, about)
             \/ Lookup(r) \/ InsertConflict(r) \/ InsertRefused(r) \/ InsertParticipants(r)
             \/ Report(r) \/ RequireOpenConflict(r) \/ Assess(r) \/ CreateMitigation(r)
             \/ Approve(r) \/ Reject(r)
      PROVE  Inductive'
  BY <1>1, AnalyseStep, LookupStep, InsertConflictStep, InsertParticipantsStep, EndStep,
     RequireStep, AssessStep, CreateMitigationStep, ApproveStep, RejectStep
<1>2. ASSUME NEW r \in Requests,
             \/ SetAssessed(r) \/ SetPlanned(r) \/ SetApproved(r) \/ SetRejected(r)
             \/ SelectParticipants(r) \/ Suspend(r) \/ InsertHold(r) \/ Rejected(r)
             \/ Fail(r)
      PROVE  Inductive'
  BY <1>2, StatusSteps, SelectParticipantsStep, SuspendStep, InsertHoldStep, EndStep
<1>3. ASSUME NEW p \in Moving, Elsewhere(p) PROVE Inductive'
  BY <1>3, ElsewhereStep
<1>4. QED
  BY <1>1, <1>2, <1>3, StutterInductive DEF Next

(* The invariant that carries the others: what a request has found, recorded or
   resolved stays so until it is done, whatever the other requests do. *)
THEOREM InductiveHolds == Spec => []Inductive
<1>1. Init => Inductive
  BY InitInductive
<1>2. Inductive /\ [Next]_vars => Inductive'
  BY StepInductive
<1>3. QED
  BY <1>1, <1>2, PTL DEF Spec

(* A status that is an outcome is the outcome of the one resolution. *)
THEOREM OneResolution == Spec => []ResolvedOnce
<1>1. Inductive => ResolvedOnce
  BY DEF Inductive
<1>2. QED
  BY <1>1, InductiveHolds, PTL

(* Permits are held for rejected conflicts of theirs only. *)
THEOREM HoldsAreJustified == Spec => []HoldsFollowRejection
<1>1. Inductive => HoldsFollowRejection
  BY DEF Inductive
<1>2. QED
  BY <1>1, InductiveHolds, PTL

-----------------------------------------------------------------------------
(* The files of the conflicts *)

Kinds == {"detection", "assessment", "mitigation", "approval"}

(* The record of a kind is in the file of a conflict. *)
Filed(c, k) ==
  \/ k = "detection" /\ conflict[c] # "none"
  \/ k = "assessment" /\ c \in assessed
  \/ k = "mitigation" /\ c \in planned
  \/ k = "approval" /\ resolution[c] = "approved"

LEMMA Membership ==
  Inductive => Records = {m \in Fingerprints \X Kinds : Filed(m[1], m[2])}
<1> HAVE Inductive
<1>1. assessed \subseteq Fingerprints /\ planned \subseteq Fingerprints
  BY Parts DEF Rows
<1>2. ASSUME NEW m \in Records PROVE m \in Fingerprints \X Kinds /\ Filed(m[1], m[2])
  BY <1>1 DEF Records, Kinds, Filed
<1>3. ASSUME NEW m \in Fingerprints \X Kinds, Filed(m[1], m[2]) PROVE m \in Records
  BY <1>3 DEF Records, Kinds, Filed
<1>4. QED
  BY <1>2, <1>3

LEMMA Needs ==
  ASSUME NEW c \in Fingerprints, NEW k \in Kinds
  PROVE  /\ <<c, k>> \in DOMAIN RecordNeeds
         /\ RecordNeeds[<<c, k>>] \subseteq Fingerprints \X Kinds
         /\ \A m \in RecordNeeds[<<c, k>>] :
              /\ m[1] = c
              /\ \/ k = "mitigation" /\ m[2] = "assessment"
                 \/ k = "assessment" /\ m[2] = "detection"
                 \/ k = "approval" /\ m[2] \in {"assessment", "mitigation"}
<1>1. <<c, k>> \in DOMAIN RecordNeeds
  BY DEF RecordNeeds, Kinds
<1>2. RecordNeeds[<<c, k>>] =
        {c} \X (CASE k = "detection"  -> {}
                  [] k = "assessment" -> {"detection"}
                  [] k = "mitigation" -> {"assessment"}
                  [] k = "approval"   -> {"assessment", "mitigation"})
  BY DEF RecordNeeds, Kinds
<1>3. QED
  BY <1>1, <1>2 DEF Kinds

(* A step that files one record, or one again, is a step of the files. *)
LEMMA FileOne ==
  ASSUME Inductive, Inductive', NEW c \in Fingerprints, NEW k \in Kinds,
         \A d \in Fingerprints, l \in Kinds : Filed(d, l)' <=> Filed(d, l) \/ (d = c /\ l = k),
         k = "assessment" => Filed(c, "detection"),
         k = "mitigation" => Filed(c, "assessment"),
         k = "approval" => Filed(c, "assessment") /\ Filed(c, "mitigation")
  PROVE  Files!Next
<1>1. (Records = {m \in Fingerprints \X Kinds : Filed(m[1], m[2])})'
  BY Membership, PTL
<1>2. Records' = Records \cup {<<c, k>>}
  BY <1>1, Membership
<1>3. RecordNeeds[<<c, k>>] \subseteq Records
  BY Membership, Needs
<1>4. QED
  BY <1>2, <1>3, Needs DEF Files!Next, Files!Reach

(* A step after which the same records are filed. *)
LEMMA FilesStay ==
  ASSUME Inductive,
         UNCHANGED <<assessed, planned>>,
         \A d \in Fingerprints : Recorded(d)' <=> Recorded(d),
         \A d \in Fingerprints : resolution'[d] = "approved" <=> resolution[d] = "approved"
  PROVE  UNCHANGED Records
BY DEF Records, Recorded

LEMMA Detected ==
  ASSUME Inductive, Inductive', NEW r \in Requests, InsertConflict(r)
  PROVE  Files!Next
<1>1. req[r].c \in Fingerprints
  BY Moves DEF InsertConflict, Sound, Request
<1>2. \A d \in Fingerprints, l \in Kinds :
        Filed(d, l)' <=> Filed(d, l) \/ (d = req[r].c /\ l = "detection")
  BY <1>1, Parts DEF InsertConflict, Filed, paperwork, Rows
<1>3. QED
  BY <1>1, <1>2, FileOne DEF Kinds

LEMMA Assessed ==
  ASSUME Inductive, Inductive', NEW r \in Requests, Assess(r)
  PROVE  Files!Next
<1>1. req[r].c \in Fingerprints /\ Recorded(req[r].c)
  BY Moves DEF Assess, Sound
<1>2. \A d \in Fingerprints, l \in Kinds :
        Filed(d, l)' <=> Filed(d, l) \/ (d = req[r].c /\ l = "assessment")
  BY <1>1 DEF Assess, Filed
<1>3. Filed(req[r].c, "detection")
  BY <1>1 DEF Filed, Recorded
<1>4. QED
  BY <1>1, <1>2, <1>3, FileOne DEF Kinds

LEMMA Mitigated ==
  ASSUME Inductive, Inductive', NEW r \in Requests, CreateMitigation(r)
  PROVE  Files!Next
<1>1. req[r].c \in Fingerprints
  BY Moves DEF CreateMitigation, Sound
<1>2. \A d \in Fingerprints, l \in Kinds :
        Filed(d, l)' <=> Filed(d, l) \/ (d = req[r].c /\ l = "mitigation")
  BY <1>1 DEF CreateMitigation, Filed
<1>3. Filed(req[r].c, "assessment")
  BY DEF CreateMitigation, Filed
<1>4. QED
  BY <1>1, <1>2, <1>3, FileOne DEF Kinds

LEMMA Approved ==
  ASSUME Inductive, Inductive', NEW r \in Requests, Approve(r)
  PROVE  Files!Next
<1>1. req[r].c \in Fingerprints
  BY Moves DEF Approve, Sound
<1>2. \A d \in Fingerprints, l \in Kinds :
        Filed(d, l)' <=> Filed(d, l) \/ (d = req[r].c /\ l = "approval")
  BY <1>1, Parts DEF Approve, Filed, Rows
<1>3. Filed(req[r].c, "assessment") /\ Filed(req[r].c, "mitigation")
  BY DEF Approve, ReadyToApprove, Filed
<1>4. QED
  BY <1>1, <1>2, <1>3, FileOne DEF Kinds

LEMMA RejectionUnfiled ==
  ASSUME Inductive, NEW r \in Requests, Reject(r)
  PROVE  UNCHANGED Records
<1>1. req[r].c \in Fingerprints
  BY Moves DEF Reject, Sound
<1>2. \A d \in Fingerprints : resolution'[d] = "approved" <=> resolution[d] = "approved"
  BY <1>1, Parts DEF Reject, Unresolved, Rows
<1>3. QED
  BY <1>2, FilesStay DEF Reject, Recorded

LEMMA StatusUnfiled ==
  ASSUME Inductive, NEW r \in Requests,
         SetAssessed(r) \/ SetPlanned(r) \/ SetApproved(r) \/ SetRejected(r)
  PROVE  UNCHANGED Records
<1>1. req[r].c \in Fingerprints /\ Recorded(req[r].c)
  BY Moves DEF SetAssessed, SetPlanned, SetApproved, SetRejected, SetStatus, Sound
<1>2. PICK s \in {"assessed", "mitigation_planned", "approved", "rejected"} :
        conflict' = [conflict EXCEPT ![req[r].c] = s]
  BY DEF SetAssessed, SetPlanned, SetApproved, SetRejected, SetStatus
<1>3. \A d \in Fingerprints : Recorded(d)' <=> Recorded(d)
  BY <1>1, <1>2, Parts DEF Recorded, Rows
<1>4. UNCHANGED paperwork
  BY DEF SetAssessed, SetPlanned, SetApproved, SetRejected, SetStatus
<1>5. QED
  BY <1>3, <1>4, FilesStay DEF paperwork

LEMMA OthersUnfiled ==
  ASSUME Inductive, UNCHANGED <<conflict, paperwork>>
  PROVE  UNCHANGED Records
BY DEF Records, paperwork

LEMMA FileStep ==
  ASSUME Inductive, [Next]_vars
  PROVE  [Files!Next]_Records
<1>1. Inductive'
  BY StepInductive
<1>2. ASSUME NEW r \in Requests,
             \/ InsertConflict(r) \/ Assess(r) \/ CreateMitigation(r) \/ Approve(r)
      PROVE  Files!Next
  BY <1>1, <1>2, Detected, Assessed, Mitigated, Approved
<1>3. ASSUME NEW r \in Requests,
             \/ Reject(r)
             \/ SetAssessed(r) \/ SetPlanned(r) \/ SetApproved(r) \/ SetRejected(r)
      PROVE  UNCHANGED Records
  BY <1>3, RejectionUnfiled, StatusUnfiled
<1>4. ASSUME NEW r \in Requests,
             \/ \E about \in Permits \cup {NoArg} : Analyse(r, about)
             \/ Lookup(r) \/ InsertRefused(r) \/ InsertParticipants(r) \/ Report(r)
             \/ RequireOpenConflict(r) \/ SelectParticipants(r) \/ Suspend(r)
             \/ InsertHold(r) \/ Rejected(r) \/ Fail(r)
      PROVE  UNCHANGED Records
  BY <1>4, OthersUnfiled DEF Analyse, Lookup, InsertRefused, InsertParticipants, Report, RequireOpenConflict,
                             SelectParticipants, Suspend, InsertHold, Rejected, Fail
<1>5. ASSUME NEW p \in Moving, Elsewhere(p) PROVE UNCHANGED Records
  BY <1>5, OthersUnfiled DEF Elsewhere
<1>6. UNCHANGED vars => UNCHANGED Records
  BY OthersUnfiled DEF vars
<1>7. QED
  BY <1>2, <1>3, <1>4, <1>5, <1>6 DEF Next

(* The conflicts implement their files: assessment before mitigation before
   approval, each recorded for good. *)
THEOREM ConflictsImplementFiles == Spec => ImplementsConflictFiles
<1>1. Init => Files!Init
  BY DEF Init, Files!Init, Records
<1>2. Inductive /\ [Next]_vars => [Files!Next]_Records
  BY FileStep
<1>3. QED
  BY <1>1, <1>2, InductiveHolds, PTL DEF Spec, ImplementsConflictFiles, Files!Spec

-----------------------------------------------------------------------------
(* What the analysis detects *)

(* The plans are for a time that both cover, and for the same place or
   machine. *)
Collide(a, b) ==
  SchedulesOverlap(a, b) /\ (SharesLocation(a, b) \/ SharesEquipment(a, b))

(* Comparing the ends is enough: plans whose times are not empty overlap
   exactly when some instant belongs to both. *)
LEMMA OverlapIsACommonInstant ==
  ASSUME NEW a, NEW b, a.start \in Nat, a.end \in Nat, b.start \in Nat, b.end \in Nat,
         Dated(a), Dated(b), a.start < a.end, b.start < b.end
  PROVE  SchedulesOverlap(a, b) <=>
           \E t \in Nat : a.start <= t /\ t < a.end /\ b.start <= t /\ t < b.end
<1>1. ASSUME SchedulesOverlap(a, b)
      PROVE  \E t \in Nat : a.start <= t /\ t < a.end /\ b.start <= t /\ t < b.end
  <2>1. CASE a.start <= b.start
    <3> WITNESS b.start \in Nat
    <3> QED
      BY <1>1, <2>1 DEF SchedulesOverlap
  <2>2. CASE b.start <= a.start
    <3> WITNESS a.start \in Nat
    <3> QED
      BY <1>1, <2>2 DEF SchedulesOverlap
  <2>3. QED
    BY <2>1, <2>2
<1>2. ASSUME NEW t \in Nat, a.start <= t, t < a.end, b.start <= t, t < b.end
      PROVE  SchedulesOverlap(a, b)
  BY <1>2 DEF SchedulesOverlap
<1>3. QED
  BY <1>1, <1>2

(* The type of a conflict does not depend on the order of the plans, and is one
   exactly where they collide. *)
LEMMA TypeOfAPair ==
  ASSUME NEW a, NEW b
  PROVE  /\ ConflictType(a, b) = ConflictType(b, a)
         /\ ConflictType(a, b) \in {"equipment", "location"} <=> Collide(a, b)
BY DEF ConflictType, Collide, SchedulesOverlap, SharesEquipment, SharesLocation

LEMMA PairOfTwo ==
  ASSUME NEW p \in Permits, NEW q \in Permits
  PROVE  {p, q} \in Pairs <=> p # q
<1>1. IsFiniteSet({p}) /\ Cardinality({p}) = 1
  BY FS_Singleton
<1>2. p # q => Cardinality({p} \cup {q}) = 2
  BY <1>1, FS_AddElement
<1>3. {p, q} = {p} \cup {q} /\ (p = q => {p, q} = {p})
  OBVIOUS
<1>4. QED
  BY <1>1, <1>2, <1>3 DEF Pairs

(* Of any permits, the conflicts detected are those of the pairs whose plans
   collide, and each pair has one, whichever of the two comes first. *)
LEMMA DetectionIsExact ==
  ASSUME NEW ps \in SUBSET Permits, NEW p \in ps, NEW q \in ps, p # q,
         NEW type \in {"equipment", "location"}
  PROVE  <<{p, q}, type>> \in DetectConflicts(ps) <=>
           Collide(plan[p], plan[q]) /\ type = ConflictType(plan[p], plan[q])
<1>1. <<{p, q}, type>> \in Fingerprints
  BY PairOfTwo DEF Fingerprints
<1>2. ASSUME <<{p, q}, type>> \in DetectConflicts(ps)
      PROVE  Collide(plan[p], plan[q]) /\ type = ConflictType(plan[p], plan[q])
  <2>1. PICK a \in ps, b \in ps : <<{p, q}, type>> = <<{a, b}, ConflictType(plan[a], plan[b])>>
    BY <1>2 DEF DetectConflicts
  <2>2. (a = p /\ b = q) \/ (a = q /\ b = p)
    BY <2>1
  <2>3. type = ConflictType(plan[p], plan[q])
    BY <2>1, <2>2, TypeOfAPair
  <2>4. QED
    BY <2>3, TypeOfAPair
<1>3. ASSUME Collide(plan[p], plan[q]), type = ConflictType(plan[p], plan[q])
      PROVE  <<{p, q}, type>> \in DetectConflicts(ps)
  BY <1>1, <1>3 DEF DetectConflicts
<1>4. QED
  BY <1>2, <1>3

(* An analysis puts on its list a conflict of each two permits it selects whose
   plans collide, and no other; if it is about one permit, those of that one. *)
OverlapsAreDetected ==
  \A r \in Requests, about \in Permits \cup {NoArg} : Analyse(r, about) =>
    \A p, q \in Analysable : p # q =>
      \A type \in {"equipment", "location"} :
        <<{p, q}, type>> \in req'[r].todo <=>
          /\ Collide(plan[p], plan[q]) /\ type = ConflictType(plan[p], plan[q])
          /\ about \in {NoArg, p, q}

(* And as long as it goes on, a conflict leaves the list only with a row in the
   table.  (A refused insert, an error or a crash ends it with what is left.) *)
ListsAreKept ==
  \A r \in Requests : Analysing(r) /\ req'[r] # Idle =>
    \A c \in req[r].todo \ req'[r].todo : Recorded(c)'

OverlapsAreFollowed == OverlapsAreDetected /\ ListsAreKept

(* The steps of one request leave the others alone. *)
LEMMA OwnRequest ==
  ASSUME Inductive, NEW r \in Requests, NEW x \in Requests, x # r,
         \E v : req' = [req EXCEPT ![r] = v]
  PROVE  req'[x] = req[x]
BY Parts

LEMMA KeepsList ==
  ASSUME Inductive, NEW r \in Requests, Analysing(r),
         Lookup(r) \/ InsertConflict(r) \/ InsertParticipants(r)
  PROVE  \A c \in req[r].todo \ req'[r].todo : Recorded(c)'
<1>1. req[r] \in Request /\ Sound(req[r])
  BY Parts
<1>2. CASE Lookup(r)
  BY <1>1, <1>2, Parts DEF Lookup, Recorded, Request
<1>3. CASE InsertConflict(r)
  <2>1. req'[r].todo = req[r].todo
    BY <1>1, <1>3, Parts DEF InsertConflict, Goto, Request
  <2>2. QED
    BY <2>1
<1>4. CASE InsertParticipants(r)
  <2>1. req'[r].todo = req[r].todo \ {req[r].c}
    BY <1>1, <1>4, Parts DEF InsertParticipants, Request
  <2>2. Recorded(req[r].c) /\ conflict' = conflict
    BY <1>1, <1>4 DEF InsertParticipants, At, Sound
  <2>3. QED
    BY <2>1, <2>2 DEF Recorded
<1>5. QED
  BY <1>2, <1>3, <1>4

LEMMA ListKept ==
  ASSUME Inductive, Next
  PROVE  ListsAreKept
<1> SUFFICES ASSUME NEW x \in Requests, Analysing(x), req'[x] # Idle
             PROVE  \A c \in req[x].todo \ req'[x].todo : Recorded(c)'
  BY DEF ListsAreKept
<1>1. req[x] \in Request /\ req[x] # Idle
  BY Parts DEF Idle, Analysing
<1>2. ASSUME NEW r \in Requests,
             \/ \E about \in Permits \cup {NoArg} : Analyse(r, about)
             \/ Lookup(r) \/ InsertConflict(r) \/ InsertRefused(r) \/ InsertParticipants(r)
             \/ Report(r) \/ RequireOpenConflict(r) \/ Fail(r)
      PROVE  \A c \in req[x].todo \ req'[x].todo : Recorded(c)'
  <2>1. CASE x = r
    <3>1. ~RequireOpenConflict(x) /\ \A about : ~Analyse(x, about)
      BY <1>1 DEF Analyse, RequireOpenConflict, Begin
    <3>2. ~Report(x) /\ ~InsertRefused(x) /\ ~Fail(x)
      BY Parts DEF Report, InsertRefused, Fail, Goto
    <3>3. QED
      BY <1>2, <2>1, <3>1, <3>2, KeepsList
  <2>2. CASE x # r
    <3>1. \E v : req' = [req EXCEPT ![r] = v]
      BY <1>2 DEF Analyse, Begin, Lookup, InsertConflict, InsertRefused, InsertParticipants,
                  Report, RequireOpenConflict, Fail, Goto
    <3>2. req'[x] = req[x]
      BY <2>2, <3>1, OwnRequest
    <3>3. QED
      BY <3>2
  <2>3. QED
    BY <2>1, <2>2
<1>3. ASSUME NEW r \in Requests,
             \/ Assess(r) \/ CreateMitigation(r) \/ Approve(r) \/ Reject(r)
             \/ SetAssessed(r) \/ SetPlanned(r) \/ SetApproved(r) \/ SetRejected(r)
             \/ SelectParticipants(r) \/ Suspend(r) \/ InsertHold(r) \/ Rejected(r)
      PROVE  req'[x] = req[x]
  <2>1. x # r
    BY <1>3 DEF Analysing, Assess, CreateMitigation, Approve, Reject, SetAssessed, SetPlanned,
                SetApproved, SetRejected, SetStatus, SelectParticipants, Suspend, InsertHold,
                Rejected, At
  <2>2. \E v : req' = [req EXCEPT ![r] = v]
    BY <1>3 DEF Assess, CreateMitigation, Approve, Reject, SetAssessed, SetPlanned, SetApproved,
                SetRejected, SetStatus, SelectParticipants, Suspend, InsertHold, Rejected, Goto
  <2>3. QED
    BY <2>1, <2>2, OwnRequest
<1>4. ASSUME NEW p \in Moving, Elsewhere(p) PROVE req'[x] = req[x]
  BY <1>4 DEF Elsewhere
<1>5. QED
  BY <1>2, <1>3, <1>4 DEF Next

(* Detection is exact, and an analysis follows up all it detected as long as
   nothing ends it: whatever other analyses and decisions go on, a conflict leaves
   its list only into the table. *)
THEOREM DetectionIsComplete == Spec => [][OverlapsAreFollowed]_vars
<1>1. ASSUME Inductive, NEW r \in Requests, NEW about \in Permits \cup {NoArg}, Analyse(r, about),
             NEW p \in Analysable, NEW q \in Analysable, p # q,
             NEW type \in {"equipment", "location"}
      PROVE  <<{p, q}, type>> \in req'[r].todo <=>
               /\ Collide(plan[p], plan[q]) /\ type = ConflictType(plan[p], plan[q])
               /\ about \in {NoArg, p, q}
  <2> DEFINE found == DetectConflicts(Analysable)
  <2>1. req'[r].todo = {c \in found : about = NoArg \/ about \in c[1]}
    BY <1>1, Parts DEF Analyse, Begin, Idle
  <2>2. Analysable \in SUBSET Permits
    BY DEF Analysable
  <2>3. <<{p, q}, type>> \in found <=>
          Collide(plan[p], plan[q]) /\ type = ConflictType(plan[p], plan[q])
    BY <1>1, <2>2, DetectionIsExact
  <2> HIDE DEF found
  <2>4. QED
    BY <2>1, <2>3
<1>2. Inductive /\ Next => OverlapsAreFollowed
  BY <1>1, ListKept DEF OverlapsAreDetected, OverlapsAreFollowed
<1>3. QED
  BY <1>2, InductiveHolds, PTL DEF Spec
=============================================================================
