------------------------ MODULE PermitDrafts_proofs ------------------------
(***************************************************************************)
(* Proofs about drafts and submissions, for any number of permits and       *)
(* requests: references identify permits, what was decided is on record, and *)
(* decided permits are left alone by the cleanup and by overlapping          *)
(* submissions.                                                             *)
(***************************************************************************)
EXTENDS PermitDrafts, FiniteSetTheorems, WellFoundedInduction, TLAPS

-----------------------------------------------------------------------------
(* The largest reference. *)

LEMMA BoundedHasMax ==
  ASSUME NEW S \in SUBSET Nat, S # {}, NEW N \in Nat, \A x \in S : x <= N
  PROVE  \E x \in S : \A y \in S : x >= y
<1> DEFINE R == OpToRel(<, Nat)
           Bounds == {n \in Nat : \A x \in S : x <= n}
<1>1. IsWellFoundedOn(R, Nat)
  BY NatLessThanWellFounded
<1>2. \A y, z \in Nat : y < z => <<y, z>> \in R
  BY DEF OpToRel
<1>3. Bounds \subseteq Nat /\ Bounds # {}
  OBVIOUS
<1> HIDE DEF R
<1>4. PICK n \in Bounds : \A m \in Bounds : ~(<<m, n>> \in R)
  BY <1>1, <1>3, WFMin
<1>5. \A m \in Bounds : ~(m < n)
  BY <1>2, <1>3, <1>4
<1>6. n \in Nat /\ \A x \in S : x <= n
  OBVIOUS
<1>7. ASSUME n \notin S PROVE FALSE
  <2>1. \A x \in S : x < n
    BY <1>6, <1>7
  <2>2. n # 0
    <3>1. PICK x \in S : x \in Nat
      OBVIOUS
    <3>2. QED
      BY <1>6, <2>1, <3>1
  <2>3. n - 1 \in Nat /\ n - 1 < n /\ \A x \in S : x <= n - 1
    BY <1>6, <2>1, <2>2
  <2>4. n - 1 \in Bounds
    BY <2>3
  <2>5. QED
    BY <1>5, <2>3, <2>4
<1>8. QED
  BY <1>6, <1>7

(* The next number follows the largest in the table. *)
LEMMA NextFollows ==
  ASSUME reference \in [Permits -> Nat], NEW N \in Nat, \A p \in Permits : reference[p] <= N
  PROVE  NextReference \in Nat /\ NextReference # 0 /\ NextReference <= N + 1
<1>1. References \in SUBSET Nat /\ References # {} /\ \A x \in References : x <= N
  BY DEF References
<1> HIDE DEF References
<1>2. PICK m \in References : \A y \in References : m >= y
  BY <1>1, BoundedHasMax
<1>3. Max(References) \in References
  BY <1>2 DEF Max
<1>4. Max(References) \in Nat /\ Max(References) <= N
  BY <1>1, <1>3
<1>5. QED
  BY <1>4 DEF NextReference

-----------------------------------------------------------------------------
(* Types, with numbers of any size. *)

Place == [pc : {"idle", "edit", "submit", "numbered"}, on : Permits \cup {NoPermit}, number : Nat]

Shape ==
  /\ status \in [Permits -> Statuses]
  /\ reference \in [Permits -> Nat]
  /\ valid \subseteq Permits
  /\ old \subseteq Permits
  /\ decided \subseteq Permits
  /\ history \subseteq Permits
  /\ linked \subseteq history
  /\ reported \subseteq Permits
  /\ selected \subseteq Permits
  /\ req \in [Requests -> Place]

LEMMA PairsFacts ==
  /\ MaxReference \in Nat
  /\ \A pairs \in SUBSET (Permits \X Requests) :
       /\ IsFiniteSet(pairs)
       /\ Cardinality(pairs) \in Nat
       /\ Cardinality(pairs) <= MaxReference
       /\ \A pair \in Permits \X Requests : pair \notin pairs =>
            /\ Cardinality(pairs \cup {pair}) = Cardinality(pairs) + 1
            /\ Cardinality(pairs) + 1 <= MaxReference
<1>1. /\ IsFiniteSet(Permits \X Requests)
      /\ Cardinality(Permits \X Requests) = MaxReference
  BY DraftsAssumption, FS_Product DEF DraftsAssumption, MaxReference
<1>2. ASSUME NEW pairs \in SUBSET (Permits \X Requests)
      PROVE  /\ IsFiniteSet(pairs)
             /\ Cardinality(pairs) \in Nat
             /\ Cardinality(pairs) <= MaxReference
  BY <1>1, FS_Subset, FS_CardinalityType
<1>3. ASSUME NEW pairs \in SUBSET (Permits \X Requests), NEW pair \in Permits \X Requests,
             pair \notin pairs
      PROVE  /\ Cardinality(pairs \cup {pair}) = Cardinality(pairs) + 1
             /\ Cardinality(pairs) + 1 <= MaxReference
  <2>1. Cardinality(pairs \cup {pair}) = Cardinality(pairs) + 1
    BY <1>2, <1>3, FS_AddElement
  <2>2. pairs \cup {pair} \in SUBSET (Permits \X Requests)
    OBVIOUS
  <2>3. QED
    BY <1>2, <2>1, <2>2
<1>4. MaxReference \in Nat
  BY <1>1, FS_CardinalityType
<1>5. QED
  BY <1>2, <1>3, <1>4

LEMMA TypeIsShape == TypeOK => Shape
<1> SUFFICES ASSUME TypeOK PROVE Shape
  OBVIOUS
<1>1. MaxReference \in Nat
  BY PairsFacts
<1>2. 0 .. MaxReference \subseteq Nat
  BY <1>1
<1>3. reference \in [Permits -> Nat] /\ req \in [Requests -> Place]
  BY <1>2 DEF TypeOK, Place
<1>4. QED
  BY <1>3 DEF TypeOK, Shape

(* No number is larger than the pairs that used one up, and they are at most as
   many as there are. *)
LEMMA ShapeIsType == Shape /\ RequestsOnPermits /\ NumbersAreCounted => TypeOK
<1> SUFFICES ASSUME Shape, RequestsOnPermits, NumbersAreCounted PROVE TypeOK
  OBVIOUS
<1>1. PICK pairs \in SUBSET (Permits \X Requests) : UsedUp(pairs)
  BY DEF NumbersAreCounted
<1>2. Cardinality(pairs) \in Nat /\ Cardinality(pairs) <= MaxReference /\ MaxReference \in Nat
  BY PairsFacts
<1>3. \A p \in Permits : reference[p] \in 0 .. MaxReference
  BY <1>1, <1>2 DEF Shape, UsedUp
<1>4. ASSUME NEW r \in Requests PROVE req[r].number \in 0 .. MaxReference
  <2>1. req[r].number \in Nat
    BY DEF Shape, Place
  <2>2. CASE req[r].number <= Cardinality(pairs)
    BY <1>2, <2>1, <2>2
  <2>3. CASE /\ req[r].pc = "numbered" /\ req[r].number = Cardinality(pairs) + 1
             /\ <<req[r].on, r>> \notin pairs
    <3>1. <<req[r].on, r>> \in Permits \X Requests
      BY <2>3 DEF RequestsOnPermits
    <3>2. Cardinality(pairs) + 1 <= MaxReference
      BY <2>3, <3>1, PairsFacts
    <3>3. QED
      BY <1>2, <2>1, <2>3, <3>2
  <2>4. QED
    BY <1>1, <2>2, <2>3 DEF UsedUp
<1>5. reference \in [Permits -> 0 .. MaxReference]
  BY <1>3 DEF Shape
<1>6. req \in [Requests ->
        [pc : {"idle", "edit", "submit", "numbered"},
         on : Permits \cup {NoPermit},
         number : 0 .. MaxReference]]
  BY <1>4 DEF Shape, Place
<1>7. QED
  BY <1>5, <1>6 DEF Shape, TypeOK

LEMMA ShapeIsTypeNext == (Shape /\ RequestsOnPermits /\ NumbersAreCounted => TypeOK)'
BY ShapeIsType, PTL

-----------------------------------------------------------------------------
(* The references of the permits in the table. *)

LEMMA InitInductive == Init => Inductive
<1> SUFFICES ASSUME Init PROVE Inductive
  OBVIOUS
<1>1. Idle \in Place /\ Idle.pc = "idle" /\ Idle.number = 0
  BY DEF Idle, Place
<1>2. Shape
  BY <1>1 DEF Init, Shape, Statuses, Missing
<1>3. ReferencesIdentify /\ DecisionsOnRecord /\ RequestsOnPermits
  BY <1>1 DEF Init, ReferencesIdentify, DecisionsOnRecord, Granted, RequestsOnPermits,
              Submitted, Exists, Missing
<1>4. UsedUp({})
  BY <1>1, FS_EmptySet DEF Init, UsedUp
<1>5. NumbersAreCounted
  BY <1>4 DEF NumbersAreCounted
<1>6. QED
  BY <1>2, <1>3, <1>5, ShapeIsType DEF Inductive

(* A step that moves one permit to another status, or none, and no request. *)
LEMMA RowStep ==
  ASSUME Inductive, UNCHANGED <<reference, req>>, Shape', DecisionsOnRecord',
         \/ UNCHANGED status
         \/ \E p \in Permits, s \in Statuses \ Missing :
              /\ status' = [status EXCEPT ![p] = s]
              /\ s \in Submitted => status[p] \in Submitted
              /\ Exists(p) \/ status[p] = "none"
  PROVE  Inductive'
<1>1. ReferencesIdentify'
  BY DEF Inductive, TypeOK, ReferencesIdentify, Exists, Missing
<1>2. RequestsOnPermits'
  BY DEF Inductive, RequestsOnPermits
<1>3. \A q \in Permits : status[q] = "deleted" => status'[q] = "deleted"
  BY DEF Inductive, TypeOK, Exists, Missing
<1>4. NumbersAreCounted'
  BY <1>3 DEF Inductive, NumbersAreCounted, UsedUp
<1>5. QED
  BY <1>1, <1>2, <1>4, ShapeIsTypeNext DEF Inductive

(* The number of a permit that is deleted is free again. *)
LEMMA DeleteStep ==
  ASSUME Inductive, NEW p \in Permits, Delete(p)
  PROVE  Inductive'
<1>0. Shape
  BY TypeIsShape DEF Inductive
<1>1. /\ status' = [status EXCEPT ![p] = "deleted"]
      /\ reference' = [reference EXCEPT ![p] = 0]
      /\ selected' \subseteq selected /\ valid' \subseteq valid /\ old' \subseteq old
      /\ decided' = decided \ {p} /\ p \notin history
      /\ UNCHANGED <<history, linked, reported, req>>
  BY DEF Delete, Deletable
<1>2. /\ status'[p] = "deleted" /\ reference'[p] = 0
      /\ \A q \in Permits \ {p} : status'[q] = status[q] /\ reference'[q] = reference[q]
  BY <1>0, <1>1 DEF Shape
<1>3. Shape'
  BY <1>0, <1>1 DEF Shape, Statuses, Missing
<1>4. ReferencesIdentify'
  BY <1>2 DEF Inductive, ReferencesIdentify, Exists, Missing, Submitted
<1>5. DecisionsOnRecord'
  BY <1>0, <1>1, <1>2 DEF Inductive, DecisionsOnRecord, Granted, Shape
<1>6. RequestsOnPermits'
  BY <1>1 DEF Inductive, RequestsOnPermits
<1>7. PICK pairs \in SUBSET (Permits \X Requests) : UsedUp(pairs)
  BY DEF Inductive, NumbersAreCounted
<1>8. Cardinality(pairs) \in Nat
  BY PairsFacts
<1>9. \A q \in Permits : reference'[q] <= Cardinality(pairs)
  BY <1>2, <1>7, <1>8 DEF UsedUp
<1>10. UsedUp(pairs)'
  BY <1>1, <1>2, <1>7, <1>9 DEF UsedUp
<1>11. QED
  BY <1>3, <1>4, <1>5, <1>6, <1>10, ShapeIsTypeNext DEF Inductive, NumbersAreCounted

(* The steps of no request. *)
LEMMA RowSteps ==
  ASSUME Inductive,
         \/ \E p \in Permits :
              \/ Create(p) \/ Age(p) \/ Report(p)
              \/ Decide(p) \/ DecidePartly(p) \/ Veto(p) \/ Expire(p)
              \/ \E q \in Permits : Renew(p, q)
         \/ Select \/ Abort
  PROVE  Inductive'
<1> USE DEF Statuses, Missing, Submitted, Exists, rows, ledger
<1>0. Shape /\ DecisionsOnRecord
  BY TypeIsShape DEF Inductive
<1>1. ASSUME NEW p \in Permits, NEW complete, NewDraft(p, complete), UNCHANGED req
      PROVE  Inductive'
  <2>1. /\ status[p] = "none" /\ status' = [status EXCEPT ![p] = "draft"]
        /\ valid' \subseteq valid \cup {p}
        /\ UNCHANGED <<reference, old, ledger, selected, req>>
    BY <1>1 DEF NewDraft
  <2>2. Shape'
    BY <1>0, <2>1 DEF Shape
  <2>3. DecisionsOnRecord'
    BY <1>0, <2>1 DEF Shape, DecisionsOnRecord, Granted
  <2>4. QED
    BY <2>1, <2>2, <2>3, RowStep
<1>2. ASSUME NEW p \in Permits, Decide(p) \/ Veto(p) \/ Expire(p) PROVE Inductive'
  <2>1. PICK s \in Submitted : status' = [status EXCEPT ![p] = s]
    BY <1>2 DEF Decide, Veto, Expire
  <2>2. /\ status[p] \in Submitted
        /\ UNCHANGED <<reference, valid, old, reported, selected, req>>
        /\ history' \subseteq history \cup {p} /\ linked' \subseteq linked \cup {p}
        /\ history \subseteq history' /\ linked \subseteq linked'
        /\ p \in linked' => p \in linked \/ p \in history'
        /\ decided' \subseteq decided \cup {p} /\ decided \subseteq decided'
        /\ p \in linked' => p \in linked \/ p \in decided'
    BY <1>2 DEF Decide, Veto, Expire
  <2>3. Shape'
    BY <1>0, <2>1, <2>2 DEF Shape
  <2>4. s \in {"approved", "expired"} => p \in linked'
    BY <1>0, <1>2, <2>1 DEF Decide, Veto, Expire, DecisionsOnRecord, Granted, Shape
  <2>5. s = "rejected" => p \in history'
    BY <1>0, <1>2, <2>1 DEF Decide, Veto, Expire, Shape
  <2>6. DecisionsOnRecord'
    BY <1>0, <2>1, <2>2, <2>4, <2>5 DEF Shape, DecisionsOnRecord, Granted
  <2>7. QED
    BY <2>1, <2>2, <2>3, <2>6, RowStep
<1>3. ASSUME NEW p \in Permits, DecidePartly(p) \/ Report(p) PROVE Inductive'
  <2>1. /\ UNCHANGED <<status, reference, valid, old, history, linked, selected, req>>
        /\ decided \subseteq decided' /\ decided' \subseteq decided \cup {p}
        /\ reported' \subseteq reported \cup {p}
    BY <1>3 DEF DecidePartly, Report
  <2>2. Shape'
    BY <1>0, <2>1 DEF Shape
  <2>3. DecisionsOnRecord'
    BY <1>0, <2>1 DEF DecisionsOnRecord, Granted
  <2>4. QED
    BY <2>1, <2>2, <2>3, RowStep
<1>4. CASE Select \/ Abort \/ \E p \in Permits : Age(p)
  <2>1. UNCHANGED <<status, reference, valid, ledger, req>>
    BY <1>4 DEF Select, Abort, Age
  <2>2. old' \subseteq Permits /\ selected' \subseteq Permits
    BY <1>0, <1>4 DEF Select, Abort, Age, Stale, Shape
  <2>3. Shape'
    BY <1>0, <2>1, <2>2 DEF Shape
  <2>4. DecisionsOnRecord'
    BY <1>0, <2>1 DEF DecisionsOnRecord, Granted
  <2>5. QED
    BY <2>1, <2>3, <2>4, RowStep
<1>5. QED
  BY <1>1, <1>2, <1>3, <1>4 DEF Create, Renew

(* A request moves on and leaves references and statuses alone. *)
LEMMA PlaceStep ==
  ASSUME Inductive, NEW r \in Requests, NEW new \in Place, req' = [req EXCEPT ![r] = new],
         UNCHANGED <<status, reference, old, ledger, selected>>,
         valid' \subseteq Permits,
         new.pc # "idle" => new.on \in Permits,
         new.pc = "numbered" => new.number # 0,
         \A pairs \in SUBSET (Permits \X Requests) : UsedUp(pairs) =>
           /\ \/ new.number <= Cardinality(pairs)
              \/ /\ new.pc = "numbered" /\ new.number = Cardinality(pairs) + 1
                 /\ <<new.on, r>> \notin pairs
           /\ new.pc = "submit" /\ new.number = 0 => <<new.on, r>> \notin pairs
  PROVE  Inductive'
<1> USE DEF ledger
<1>0. Shape
  BY TypeIsShape DEF Inductive
<1>1. req'[r] = new /\ \A q \in Requests \ {r} : req'[q] = req[q]
  BY <1>0 DEF Shape
<1>2. Shape'
  BY <1>0 DEF Shape
<1>3. ReferencesIdentify' /\ DecisionsOnRecord' /\ RequestsOnPermits'
  BY <1>1 DEF Inductive, ReferencesIdentify, DecisionsOnRecord, Granted, RequestsOnPermits,
              Exists
<1>4. PICK pairs \in SUBSET (Permits \X Requests) : UsedUp(pairs)
  BY DEF Inductive, NumbersAreCounted
<1>5. UsedUp(pairs)'
  BY <1>1, <1>4 DEF UsedUp
<1>6. NumbersAreCounted'
  BY <1>5 DEF NumbersAreCounted
<1>7. QED
  BY <1>2, <1>3, <1>6, ShapeIsTypeNext DEF Inductive

LEMMA PlaceSteps ==
  ASSUME Inductive, NEW r \in Requests,
         \/ EditCommit(r) \/ SubmitNumber(r) \/ SubmitFail(r)
         \/ \E p \in Permits : EditRead(r, p) \/ SubmitRead(r, p)
  PROVE  Inductive'
<1> USE DEF rows, ledger
<1>0. Shape
  BY TypeIsShape DEF Inductive
<1>1. \A pairs \in SUBSET (Permits \X Requests) : Cardinality(pairs) \in Nat
  BY PairsFacts
<1>2. Idle \in Place /\ Idle.pc = "idle" /\ Idle.number = 0
  BY DEF Idle, Place
<1>3. CASE EditCommit(r) \/ SubmitFail(r)
  <2>1. /\ req' = [req EXCEPT ![r] = Idle]
        /\ UNCHANGED <<status, reference, old, ledger, selected>>
    BY <1>3 DEF EditCommit, SubmitFail, End
  <2>2. valid' \subseteq Permits
    <3>1. CASE SubmitFail(r)
      BY <1>0, <3>1 DEF SubmitFail, Shape
    <3>2. CASE EditCommit(r)
      <4>1. req[r].on \in Permits
        BY <3>2 DEF EditCommit, Inductive, RequestsOnPermits
      <4>2. QED
        BY <1>0, <3>2, <4>1 DEF EditCommit, Shape
    <3>3. QED
      BY <1>3, <3>1, <3>2
  <2>3. \A pairs \in SUBSET (Permits \X Requests) : Idle.number <= Cardinality(pairs)
    BY <1>1, <1>2
  <2>4. QED
    BY <1>2, <2>1, <2>2, <2>3, PlaceStep
<1>4. ASSUME NEW p \in Permits, EditRead(r, p) PROVE Inductive'
  <2> DEFINE new == [pc |-> "edit", on |-> p, number |-> 0]
  <2>1. new \in Place /\ new.pc = "edit" /\ new.on = p /\ new.number = 0
    BY DEF Place
  <2>2. req' = [req EXCEPT ![r] = new] /\ UNCHANGED <<rows, selected>>
    BY <1>4 DEF EditRead, Begin
  <2> HIDE DEF new
  <2>3. valid' \subseteq Permits
    BY <1>0, <2>2 DEF Shape
  <2>4. \A pairs \in SUBSET (Permits \X Requests) : new.number <= Cardinality(pairs)
    BY <1>1, <2>1
  <2>5. QED
    BY <2>1, <2>2, <2>3, <2>4, PlaceStep DEF rows
<1>5. ASSUME NEW p \in Permits, SubmitRead(r, p) PROVE Inductive'
  <2> DEFINE new == [pc |-> "submit", on |-> p, number |-> reference[p]]
  <2>1. new \in Place /\ new.pc = "submit" /\ new.on = p /\ new.number = reference[p]
    BY <1>0 DEF Place, Shape
  <2>2. req' = [req EXCEPT ![r] = new] /\ UNCHANGED <<rows, selected>>
    BY <1>5 DEF SubmitRead, Begin
  <2> HIDE DEF new
  <2>3. valid' \subseteq Permits
    BY <1>0, <2>2 DEF Shape
  <2>4. ASSUME NEW pairs \in SUBSET (Permits \X Requests), UsedUp(pairs)
        PROVE  /\ reference[p] <= Cardinality(pairs)
               /\ reference[p] = 0 => <<p, r>> \notin pairs
    BY <1>5, <2>4 DEF SubmitRead, Editable, UsedUp
  <2>5. QED
    BY <2>1, <2>2, <2>3, <2>4, PlaceStep
<1>6. CASE SubmitNumber(r)
  <2> DEFINE p == req[r].on
             number == IF req[r].number = 0 THEN NextReference ELSE req[r].number
             new == [req[r] EXCEPT !.pc = "numbered", !.number = number]
  <2>1. req[r] \in Place /\ req[r].pc = "submit" /\ p \in Permits
    BY <1>0, <1>6 DEF SubmitNumber, Shape, Inductive, RequestsOnPermits
  <2>2. ASSUME NEW pairs \in SUBSET (Permits \X Requests), UsedUp(pairs)
        PROVE  /\ number \in Nat /\ number # 0
               /\ \/ number <= Cardinality(pairs)
                  \/ number = Cardinality(pairs) + 1 /\ <<p, r>> \notin pairs
    <3>1. CASE req[r].number # 0
      BY <2>1, <2>2, <3>1 DEF UsedUp, Place
    <3>2. CASE req[r].number = 0
      <4>1. <<p, r>> \notin pairs
        BY <2>1, <2>2, <3>2 DEF UsedUp
      <4>2. \A q \in Permits : reference[q] <= Cardinality(pairs)
        BY <2>2 DEF UsedUp
      <4>3. /\ NextReference \in Nat /\ NextReference # 0
            /\ NextReference <= Cardinality(pairs) + 1
        BY <1>0, <1>1, <4>2, NextFollows DEF Shape
      <4>4. QED
        BY <1>1, <3>2, <4>1, <4>3
    <3>3. QED
      BY <3>1, <3>2
  <2>3. number \in Nat /\ number # 0
    BY <2>2 DEF Inductive, NumbersAreCounted
  <2> HIDE DEF number
  <2>4. new \in Place /\ new.pc = "numbered" /\ new.on = p /\ new.number = number
    BY <2>1, <2>3 DEF Place
  <2>5. req' = [req EXCEPT ![r] = new] /\ UNCHANGED <<rows, selected>>
    BY <1>0, <1>6, <2>1 DEF SubmitNumber, number, Shape, Place
  <2> HIDE DEF new
  <2>6. valid' \subseteq Permits
    BY <1>0, <2>5 DEF Shape
  <2>7. QED
    BY <2>1, <2>2, <2>3, <2>4, <2>5, <2>6, PlaceStep
<1>7. QED
  BY <1>3, <1>4, <1>5, <1>6

(* A submission takes the number it found, if nobody has it by now; the first
   number of a permit uses up the pair of the permit and the request. *)
LEMMA NumberStep ==
  ASSUME Inductive, NEW r \in Requests, SubmitCommit(r)
  PROVE  Inductive'
<1>0. Shape
  BY TypeIsShape DEF Inductive
<1>p. PICK p \in Permits, number \in Nat : p = req[r].on /\ number = req[r].number
  BY <1>0 DEF SubmitCommit, Inductive, RequestsOnPermits, Shape, Place
<1>1. p \in Permits /\ number \in Nat /\ number # 0 /\ req[r].pc = "numbered"
  BY <1>p DEF SubmitCommit, Inductive, RequestsOnPermits
<1>2. /\ Exists(p) /\ Free(number, p)
      /\ status' = [status EXCEPT ![p] = "pending_approval"]
      /\ reference' = [reference EXCEPT ![p] = number]
      /\ req' = [req EXCEPT ![r] = Idle]
      /\ old' = old \ {p} /\ decided' = decided \ {p} /\ p \notin linked
      /\ UNCHANGED <<valid, history, linked, reported, selected>>
  BY <1>p DEF SubmitCommit, Submittable, End
<1>3. Idle \in Place /\ Idle.pc = "idle" /\ Idle.number = 0
  BY DEF Idle, Place
<1>4. /\ req'[r] = Idle /\ \A q \in Requests \ {r} : req'[q] = req[q]
      /\ reference'[p] = number /\ \A q \in Permits \ {p} : reference'[q] = reference[q]
      /\ status'[p] = "pending_approval" /\ \A q \in Permits \ {p} : status'[q] = status[q]
  BY <1>0, <1>1, <1>2 DEF Shape
<1>5. PICK pairs \in SUBSET (Permits \X Requests) : UsedUp(pairs)
  BY DEF Inductive, NumbersAreCounted
<1>6. Cardinality(pairs) \in Nat
  BY PairsFacts
<1>7. Shape'
  BY <1>0, <1>1, <1>2, <1>3 DEF Shape, Statuses
<1>8. ReferencesIdentify'
  BY <1>1, <1>2, <1>4 DEF Inductive, ReferencesIdentify, Free, Exists, Missing
<1>9. DecisionsOnRecord' /\ RequestsOnPermits'
  <2>1. DecisionsOnRecord'
    BY <1>2, <1>4 DEF Inductive, DecisionsOnRecord, Granted
  <2>2. RequestsOnPermits'
    BY <1>3, <1>4 DEF Inductive, RequestsOnPermits
  <2>3. QED
    BY <2>1, <2>2
<1>10. NumbersAreCounted'
  <2>1. CASE number <= Cardinality(pairs)
    <3>1. UsedUp(pairs)'
      BY <1>1, <1>3, <1>4, <1>5, <1>6, <2>1 DEF UsedUp
    <3>2. QED
      BY <3>1 DEF NumbersAreCounted
  <2>2. CASE number = Cardinality(pairs) + 1 /\ <<p, r>> \notin pairs
    <3> DEFINE more == pairs \cup {<<p, r>>}
    <3>1. more \in SUBSET (Permits \X Requests) /\ Cardinality(more) = Cardinality(pairs) + 1
      BY <1>1, <2>2, PairsFacts
    <3>2. \A q \in Permits, x \in Requests :
            <<q, x>> \in more <=> <<q, x>> \in pairs \/ (q = p /\ x = r)
      OBVIOUS
    <3> HIDE DEF more
    <3>3. \A q \in Permits, x \in Requests :
            <<q, x>> \in more => status'[q] = "deleted" \/ reference'[q] # 0
      BY <1>1, <1>4, <1>5, <3>2 DEF UsedUp
    <3>4. \A q \in Permits : reference'[q] <= Cardinality(more)
      <4>1. ASSUME NEW q \in Permits \ {p} PROVE reference'[q] <= Cardinality(more)
        <5>1. reference[q] <= Cardinality(pairs) /\ reference[q] \in Nat
          BY <1>0, <1>5 DEF UsedUp, Shape
        <5>2. QED
          BY <1>4, <1>6, <3>1, <5>1
      <4>2. reference'[p] <= Cardinality(more)
        BY <1>1, <1>4, <1>6, <2>2, <3>1
      <4>3. QED
        BY <4>1, <4>2
    <3>5. ASSUME NEW x \in Requests PROVE req'[x].number <= Cardinality(more)
      <4>1. CASE x = r
        BY <1>3, <1>4, <1>6, <3>1, <4>1
      <4>2. CASE x # r
        <5>1. req'[x] = req[x] /\ req[x].number \in Nat
          BY <1>0, <1>4, <4>2 DEF Shape, Place
        <5>2. req[x].number <= Cardinality(pairs) \/ req[x].number = Cardinality(pairs) + 1
          BY <1>5 DEF UsedUp
        <5>3. QED
          BY <1>6, <3>1, <5>1, <5>2
      <4>3. QED
        BY <4>1, <4>2
    <3>6. ASSUME NEW x \in Requests, req'[x].pc = "submit", req'[x].number = 0
          PROVE  <<req'[x].on, x>> \notin more
      <4>1. x # r /\ req'[x] = req[x] /\ req[x].on \in Permits
        BY <1>3, <1>4, <3>6 DEF Inductive, RequestsOnPermits
      <4>2. <<req[x].on, x>> \notin pairs
        BY <1>5, <3>6, <4>1 DEF UsedUp
      <4>3. QED
        BY <3>2, <4>1, <4>2
    <3>7. UsedUp(more)'
      BY <3>3, <3>4, <3>5, <3>6 DEF UsedUp
    <3>8. QED
      BY <3>1, <3>7 DEF NumbersAreCounted
  <2>3. QED
    BY <1>5, <1>p, <2>1, <2>2 DEF UsedUp
<1>11. QED
  BY <1>7, <1>8, <1>9, <1>10, ShapeIsTypeNext DEF Inductive

LEMMA StepInductive == Inductive /\ [Next]_vars => Inductive'
<1> SUFFICES ASSUME Inductive, [Next]_vars PROVE Inductive'
  OBVIOUS
<1>1. CASE UNCHANGED vars
  <2>1. Shape'
    BY <1>1, TypeIsShape DEF Inductive, Shape, vars, rows, ledger
  <2>2. DecisionsOnRecord'
    BY <1>1 DEF Inductive, DecisionsOnRecord, Granted, vars, rows, ledger
  <2>3. QED
    BY <1>1, <2>1, <2>2, RowStep DEF vars, rows, ledger
<1>2. CASE Next
  BY <1>2, RowSteps, DeleteStep, PlaceSteps, NumberStep DEF Next, Answer, Cleanup
<1>3. QED
  BY <1>1, <1>2

(* For any number of permits and overlapping requests: every variable keeps its
   type, a submitted permit has a reference no other permit in the table has, and
   references are used up no faster than permits get their first. *)
THEOREM InductiveHolds == Spec => []Inductive
<1>1. Init => Inductive
  BY InitInductive
<1>2. Inductive /\ [Next]_vars => Inductive'
  BY StepInductive
<1>3. QED
  BY <1>1, <1>2, PTL DEF Spec

(* The reference identifies a permit: submissions that took the same number from
   the same maximum do not both store it. *)
THEOREM ReferencesAreUnique == Spec => []ReferencesIdentify
BY InductiveHolds, PTL DEF Inductive

(* The types, with the bound on references: overlapping submissions that fail use
   up no number, and no request uses up two for one permit. *)
THEOREM TypeCorrect == Spec => []TypeOK
BY InductiveHolds, PTL DEF Inductive

-----------------------------------------------------------------------------
(* What was decided *)

KeepsDecided ==
  \A p \in Permits :
    /\ Granted(p) => /\ status'[p] \in {"approved", "rejected", "expired"}
                    /\ reference'[p] = reference[p]
    /\ status[p] = "rejected" => status'[p] # "deleted"

LEMMA StepKeeps == Inductive /\ [Next]_vars => [KeepsDecided]_vars
<1> SUFFICES ASSUME Inductive, [Next]_vars PROVE KeepsDecided
  OBVIOUS
<1> USE DEF KeepsDecided, Granted, rows, ledger
<1>0. status \in [Permits -> Statuses] /\ reference \in [Permits -> 0 .. MaxReference]
  BY DEF Inductive, TypeOK
<1>1. CASE UNCHANGED <<status, reference>>
  BY <1>1
<1>2. ASSUME NEW p \in Permits, NEW complete, NewDraft(p, complete)
      PROVE  KeepsDecided
  BY <1>0, <1>2 DEF NewDraft
<1>3. ASSUME NEW p \in Permits, Decide(p) \/ Veto(p) \/ Expire(p)
      PROVE  KeepsDecided
  BY <1>0, <1>3 DEF Decide, Veto, Expire
<1>4. ASSUME NEW p \in Permits, Age(p) \/ Report(p) \/ DecidePartly(p)
      PROVE  KeepsDecided
  BY <1>1, <1>4 DEF Age, Report, DecidePartly
<1>5. ASSUME NEW r \in Requests,
             \/ EditCommit(r) \/ SubmitNumber(r) \/ SubmitFail(r)
             \/ \E p \in Permits : EditRead(r, p) \/ SubmitRead(r, p)
      PROVE  KeepsDecided
  BY <1>1, <1>5 DEF EditCommit, SubmitNumber, SubmitFail, EditRead, SubmitRead
<1>6. CASE Select \/ Abort
  BY <1>1, <1>6 DEF Select, Abort
(* The reset of a late submission fails on the history of a granted permit. *)
<1>7. ASSUME NEW r \in Requests, SubmitCommit(r) PROVE KeepsDecided
  <2> DEFINE q == req[r].on
  <2>1. ~Granted(q) \/ q \notin Permits
    BY <1>7 DEF SubmitCommit, Submittable, Inductive, DecisionsOnRecord
  <2>2. /\ status' = [status EXCEPT ![q] = "pending_approval"]
        /\ reference' = [reference EXCEPT ![q] = req[r].number]
    BY <1>7 DEF SubmitCommit
  <2> HIDE DEF q
  <2>3. QED
    BY <1>0, <2>1, <2>2
(* The trigger on the history is what stops the cleanup. *)
<1>8. ASSUME NEW p \in Permits, Delete(p) PROVE KeepsDecided
  <2>1. ~Granted(p) /\ status[p] # "rejected"
    BY <1>8 DEF Delete, Deletable, Inductive, DecisionsOnRecord, TypeOK
  <2>2. /\ status' = [status EXCEPT ![p] = "deleted"]
        /\ reference' = [reference EXCEPT ![p] = 0]
    BY <1>8 DEF Delete
  <2>3. QED
    BY <1>0, <2>1, <2>2
<1>9. CASE UNCHANGED vars
  BY <1>1, <1>9 DEF vars
<1>10. QED
  BY <1>2, <1>3, <1>4, <1>5, <1>6, <1>7, <1>8, <1>9 DEF Next, Answer, Cleanup, Create, Renew

(* What was decided is kept: a permit that was granted is neither deleted nor
   renumbered nor sent back to approval, and one that was turned down is not
   deleted, although the cleanup and submissions act on what they read before. *)
THEOREM DecidedStays == Spec => DecidedIsKept
<1>1. Inductive /\ [Next]_vars => [KeepsDecided]_vars
  BY StepKeeps
<1>2. QED
  BY <1>1, InductiveHolds, PTL DEF Spec, DecidedIsKept, KeepsDecided
=============================================================================
