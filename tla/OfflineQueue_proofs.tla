------------------------ MODULE OfflineQueue_proofs ------------------------
(***************************************************************************)
(* Proofs about the offline queue, for any number of items, attempts and    *)
(* deaths of the app.                                                       *)
(***************************************************************************)
EXTENDS OfflineQueue, FiniteSetTheorems, WellFoundedInduction, TLAPS

(* The item a pass is at is one of those to be sent, and the first of them. *)
LEMMA CurrentIsFirst ==
  ASSUME todo \subseteq Items, todo # {}
  PROVE  Current \in todo /\ \A j \in todo : Current <= j
<1> DEFINE R == OpToRel(<, Nat)
<1>1. IsWellFoundedOn(R, Nat)
  BY NatLessThanWellFounded
<1>2. \A y, z \in Nat : y < z => <<y, z>> \in R
  BY DEF OpToRel
<1> HIDE DEF R
<1>3. todo \subseteq Nat
  BY Bounds DEF Items
<1>4. PICK x \in todo : \A y \in todo : ~(<<y, x>> \in R)
  BY <1>1, <1>3, WFMin
<1>5. ASSUME NEW y \in todo PROVE x <= y
  <2>1. ~(y < x)
    BY <1>2, <1>3, <1>4
  <2>2. QED
    BY <1>3, <2>1
<1>6. QED
  BY <1>5 DEF Current

LEMMA SameTodo == UNCHANGED todo => Current' = Current
BY DEF Current

(* What is late now was late or awaited. *)
LEMMA LateIsSent ==
  ASSUME late \in [Items -> Nat]
  PROVE  /\ LateNow \in [Items -> Nat]
         /\ \A j \in Items : LateNow[j] > 0 => Awaited(j) \/ late[j] > 0
<1> DEFINE c == Current
<1>1. LateNow = IF pass = "wait" THEN [late EXCEPT ![c] = @ + 1] ELSE late
  BY DEF LateNow
<1>2. \A j \in Items : Awaited(j) <=> pass = "wait" /\ c = j
  BY DEF Awaited
<1> HIDE DEF c
<1> DEFINE L == [i \in Items |-> IF i = c THEN late[i] + 1 ELSE late[i]]
<1>3. [late EXCEPT ![c] = @ + 1] = L
  OBVIOUS
<1>4. L \in [Items -> Nat] /\ \A j \in Items : j # c => L[j] = late[j]
  OBVIOUS
<1> HIDE DEF L
<1>5. CASE pass = "wait"
  BY <1>1, <1>2, <1>3, <1>4, <1>5
<1>6. CASE pass # "wait"
  BY <1>1, <1>2, <1>6
<1>7. QED
  BY <1>5, <1>6

LEMMA PendingCount ==
  ASSUME row \in [Items -> {"new", "pending", "failed", "gone"}]
  PROVE  Cardinality(Pending) \in 0 .. MaxItems
<1>1. IsFiniteSet(Items) /\ Cardinality(Items) = MaxItems
  BY Bounds, FS_Interval DEF Items
<1>2. Pending \subseteq Items
  BY DEF Pending
<1>3. QED
  BY <1>1, <1>2, FS_Subset, FS_CardinalityType

-----------------------------------------------------------------------------
(* The invariant in parts. *)

Flags == app \in BOOLEAN /\ online \in BOOLEAN /\ session \in BOOLEAN

QueueTypeOK ==
  /\ row \in [Items -> {"new", "pending", "failed", "gone"}]
  /\ attempts \in [Items -> 0 .. MaxAttempts + MaxKills]
  /\ count \in 0 .. MaxItems
  /\ pass \in {"off", "ask", "next", "wait", "silent", "ok", "denied", "error",
              "mark", "recount"}
  /\ todo \subseteq Items
  /\ late \in [Items -> Nat]
  /\ accepted \subseteq Items
  /\ kills \in 0 .. MaxKills

Order == QueuedInOrder /\ SentInOrder /\ OrderKept

LEMMA Parts ==
  Inductive <=> Flags /\ QueueTypeOK /\ NothingLost /\ PassAtItem /\ Order /\ AttemptsBounded
BY DEF Inductive, TypeOK, Flags, QueueTypeOK, Order

LEMMA WholeAfter ==
  ASSUME Flags', QueueTypeOK', NothingLost', PassAtItem', Order', AttemptsBounded'
  PROVE  Inductive'
BY DEF Inductive, TypeOK, Flags, QueueTypeOK, Order

LEMMA ItemsAreNumbers == Items \subseteq Nat /\ MaxItems \in Nat /\ MaxKills \in Nat /\ MaxAttempts \in Nat \ {0}
BY Bounds DEF Items

LEMMA InitInductive == Init => Inductive
<1> SUFFICES ASSUME Init PROVE Inductive
  OBVIOUS
<1>1. Flags
  BY Zenon DEF Init, Flags
<1>2. QueueTypeOK
  BY ItemsAreNumbers DEF Init, QueueTypeOK
<1>3. NothingLost /\ PassAtItem /\ Order
  BY DEF Init, NothingLost, PassAtItem, Order, QueuedInOrder, SentInOrder, Awaited, OrderKept, Pending
<1>4. AttemptsBounded
  BY ItemsAreNumbers DEF Init, AttemptsBounded
<1>5. QED
  BY <1>1, <1>2, <1>3, <1>4, Parts

-----------------------------------------------------------------------------
(* The app *)

LEMMA EnqueueStep == ASSUME Inductive, NEW i \in Items, Enqueue(i) PROVE Inductive'
<1> USE Parts, ItemsAreNumbers, SameTodo DEF Enqueue, phone, world, server
<1>1. Flags'
  BY Zenon DEF Flags
<1>2. QueueTypeOK' /\ NothingLost' /\ PassAtItem' /\ AttemptsBounded'
  BY DEF QueueTypeOK, NothingLost, PassAtItem, AttemptsBounded
<1>3. QueuedInOrder'
  <2>1. \A j \in Items : j < i => row[j] # "new"
    BY DEF Items
  <2>2. ASSUME NEW j \in todo PROVE j < i
    <3>1. j \in Items /\ row[j] # "new" /\ row[i] = "new"
      BY DEF Order, QueuedInOrder, Pending
    <3>2. ~(i < j) /\ i # j
      BY <3>1 DEF Order, QueuedInOrder
    <3>3. QED
      BY <3>1, <3>2
  <2>3. QED
    BY <2>1, <2>2 DEF Order, QueuedInOrder, Pending, QueueTypeOK
<1>4. SentInOrder' /\ OrderKept'
  BY DEF Order, SentInOrder, Awaited, OrderKept, QueueTypeOK
<1>5. QED
  BY <1>1, <1>2, <1>3, <1>4, WholeAfter DEF Order

LEMMA LaunchStep == ASSUME Inductive, Launch PROVE Inductive'
<1> USE Parts, SameTodo DEF Launch, table, world, server
<1>1. Flags'
  BY Zenon DEF Flags
<1>2. QueueTypeOK'
  BY PendingCount DEF QueueTypeOK
<1>3. NothingLost' /\ PassAtItem' /\ AttemptsBounded'
  BY DEF NothingLost, PassAtItem, AttemptsBounded
<1>4. Order'
  BY DEF Order, QueuedInOrder, SentInOrder, Awaited, OrderKept, Pending
<1>5. QED
  BY <1>1, <1>2, <1>3, <1>4, WholeAfter

LEMMA KillStep == ASSUME Inductive, Kill PROVE Inductive'
<1> USE Parts, ItemsAreNumbers, LateIsSent DEF Kill, table
<1>1. Flags'
  BY Zenon DEF Flags
<1>2. QueueTypeOK' /\ NothingLost' /\ PassAtItem'
  BY DEF QueueTypeOK, NothingLost, PassAtItem
<1>3. Order'
  BY DEF Order, QueuedInOrder, SentInOrder, Awaited, OrderKept, Pending, QueueTypeOK
<1>4. AttemptsBounded'
  BY DEF AttemptsBounded, QueueTypeOK
<1>5. QED
  BY <1>1, <1>2, <1>3, <1>4, WholeAfter

-----------------------------------------------------------------------------
(* A pass *)

(* Steps that only move the pass on: with what it has to send, or with nothing. *)
LEMMA PassMoves ==
  ASSUME Inductive, UNCHANGED <<table, app, world, server>>,
         count' \in 0 .. MaxItems,
         pass' \in {"off", "ask", "next", "recount"},
         pass # "mark",
         UNCHANGED todo \/ todo' \in {{}, Pending}
  PROVE  Inductive'
<1> USE Parts, SameTodo DEF table, world, server
<1>1. Flags'
  BY Zenon DEF Flags
<1>2. QueueTypeOK' /\ NothingLost' /\ PassAtItem'
  BY DEF QueueTypeOK, NothingLost, PassAtItem, Pending
<1>3. QueuedInOrder'
  BY DEF Order, QueuedInOrder, Pending
<1>4. SentInOrder' /\ OrderKept' /\ AttemptsBounded'
  BY DEF Order, SentInOrder, Awaited, OrderKept, AttemptsBounded
<1>5. QED
  BY <1>1, <1>2, <1>3, <1>4, WholeAfter DEF Order

LEMMA PassMovesStep ==
  ASSUME Inductive, SyncNow \/ Ask \/ Finish \/ Denied \/ Recount
  PROVE  Inductive'
<1>1. CASE SyncNow
  BY <1>1, PassMoves, Parts DEF SyncNow, QueueTypeOK
<1>2. CASE Ask
  BY <1>2, PassMoves, Parts DEF Ask, QueueTypeOK
<1>3. CASE Finish
  BY <1>3, PassMoves, Parts DEF Finish, QueueTypeOK
<1>4. CASE Denied
  BY <1>4, PassMoves, Parts DEF Denied, QueueTypeOK
<1>5. CASE Recount
  BY <1>5, PassMoves, PendingCount, Parts DEF Recount, QueueTypeOK
<1>6. QED
  BY <1>1, <1>2, <1>3, <1>4, <1>5

(* The request that is sent goes past items that are settled: what is pending and
   earlier would be sent before it. *)
LEMMA SendStep == ASSUME Inductive, Send PROVE Inductive'
<1> USE Parts, SameTodo, ItemsAreNumbers DEF Send, table, world, server
<1>1. Flags'
  BY Zenon DEF Flags
<1>2. Current \in todo /\ \A j \in todo : Current <= j
  BY CurrentIsFirst DEF QueueTypeOK
<1>3. QueueTypeOK' /\ NothingLost' /\ PassAtItem' /\ AttemptsBounded'
  BY <1>2 DEF QueueTypeOK, NothingLost, PassAtItem, AttemptsBounded
<1>4. QueuedInOrder' /\ OrderKept'
  BY DEF Order, QueuedInOrder, OrderKept, Pending
<1>5. SentInOrder'
  <2>1. ASSUME NEW i \in Items, i < Current PROVE i \in accepted \/ row[i] = "failed"
    <3>1. Current \in Items /\ row[Current] # "new"
      BY <1>2 DEF Order, QueuedInOrder, Pending, QueueTypeOK
    <3>2. row[i] # "new"
      BY <2>1, <3>1 DEF Order, QueuedInOrder
    <3>3. row[i] # "pending"
      BY <1>2, <2>1, <3>1 DEF Order, QueuedInOrder, Pending
    <3>4. QED
      BY <3>2, <3>3 DEF NothingLost, QueueTypeOK
  <2>2. QED
    BY <1>2, <2>1 DEF Order, SentInOrder, Awaited, QueueTypeOK
<1>6. QED
  BY <1>1, <1>3, <1>4, <1>5, WholeAfter DEF Order

LEMMA RemoveItemStep == ASSUME Inductive, RemoveItem PROVE Inductive'
<1> USE Parts, ItemsAreNumbers DEF RemoveItem, Answered, world, server
<1>1. Flags'
  BY Zenon DEF Flags
<1>2. Current \in todo /\ Current \in accepted /\ Current \in Items /\ row[Current] = "pending"
  BY CurrentIsFirst DEF QueueTypeOK, PassAtItem, Order, QueuedInOrder, Pending
<1> DEFINE c == Current
<1>3. row' = [row EXCEPT ![c] = "gone"] /\ todo' = todo \ {c} /\ pass' = "next"
  OBVIOUS
<1> HIDE DEF c
<1>4. QueueTypeOK' /\ NothingLost' /\ PassAtItem'
  BY <1>2, <1>3 DEF QueueTypeOK, NothingLost, PassAtItem, c
<1>5. QueuedInOrder'
  BY <1>2, <1>3 DEF Order, QueuedInOrder, Pending, QueueTypeOK, c
<1>6. SentInOrder' /\ OrderKept'
  BY <1>2, <1>3 DEF Order, SentInOrder, Awaited, OrderKept, QueueTypeOK, c
<1>7. AttemptsBounded'
  BY <1>2, <1>3 DEF AttemptsBounded, QueueTypeOK, c
<1>8. QED
  BY <1>1, <1>4, <1>5, <1>6, <1>7, WholeAfter DEF Order

LEMMA CountAttemptStep == ASSUME Inductive, CountAttempt PROVE Inductive'
<1> USE Parts, SameTodo, ItemsAreNumbers DEF CountAttempt, world, server
<1>1. Flags'
  BY Zenon DEF Flags
<1>2. Current \in Items /\ row[Current] = "pending"
  BY CurrentIsFirst DEF QueueTypeOK, PassAtItem, Order, QueuedInOrder, Pending
<1>3. attempts[Current] < MaxAttempts + kills
  BY <1>2 DEF AttemptsBounded
<1>4. QueueTypeOK'
  BY <1>2, <1>3 DEF QueueTypeOK
<1>5. NothingLost' /\ PassAtItem' /\ Order'
  BY DEF NothingLost, PassAtItem, Order, QueuedInOrder, SentInOrder, Awaited, OrderKept, Pending
<1>6. AttemptsBounded'
  BY <1>2, <1>3 DEF AttemptsBounded, QueueTypeOK
<1>7. QED
  BY <1>1, <1>4, <1>5, <1>6, WholeAfter

LEMMA MarkStep == ASSUME Inductive, Mark PROVE Inductive'
<1> USE Parts, ItemsAreNumbers DEF Mark, Spent, world, server
<1>1. Flags'
  BY Zenon DEF Flags
<1> DEFINE c == Current
<1>2. c \in Items /\ row[c] = "pending"
  BY CurrentIsFirst DEF QueueTypeOK, PassAtItem, Order, QueuedInOrder, Pending
<1>3. /\ row' = IF attempts[c] >= MaxAttempts THEN [row EXCEPT ![c] = "failed"] ELSE row
      /\ pass = "mark" /\ pass' = "recount" /\ todo' = {}
  OBVIOUS
<1>4. \A i \in Items : i = c \/ row[i] \in {"failed", "gone"} \/ attempts[i] < MaxAttempts + kills
  BY DEF AttemptsBounded
<1> HIDE DEF c
<1>5. QueueTypeOK' /\ NothingLost' /\ PassAtItem'
  BY <1>2, <1>3 DEF QueueTypeOK, NothingLost, PassAtItem
<1>6. Order'
  BY <1>2, <1>3 DEF Order, QueuedInOrder, SentInOrder, Awaited, OrderKept, Pending, QueueTypeOK
<1>7. AttemptsBounded'
  BY <1>2, <1>3, <1>4 DEF AttemptsBounded, QueueTypeOK
<1>8. QED
  BY <1>1, <1>5, <1>6, <1>7, WholeAfter

-----------------------------------------------------------------------------
(* The world *)

(* A request leaves the network; if the server carried it out, it is one that
   went past settled items only. *)
LEMMA AnswerStep ==
  ASSUME Inductive, NEW i \in Items, NEW outcome \in {"ok", "error", "denied"},
         Answer(i, outcome),
         \/ accepted' = accepted \cup {i}
         \/ outcome # "ok" /\ UNCHANGED accepted
  PROVE  Inductive'
<1> USE Parts, SameTodo DEF Answer, Arrive, Awaited, table, world
<1>1. Flags'
  BY Zenon DEF Flags
<1>2. QueueTypeOK' /\ NothingLost' /\ PassAtItem'
  BY DEF QueueTypeOK, NothingLost, PassAtItem
<1>3. Order'
  BY DEF Order, QueuedInOrder, SentInOrder, OrderKept, Pending, QueueTypeOK
<1>4. AttemptsBounded'
  BY DEF AttemptsBounded
<1>5. QED
  BY <1>1, <1>2, <1>3, <1>4, WholeAfter

LEMMA LoseStep == ASSUME Inductive, NEW i \in Items, Lose(i) PROVE Inductive'
<1> USE Parts, SameTodo DEF Lose, Arrive, Awaited, table, world
<1>1. Flags'
  BY Zenon DEF Flags
<1>2. QueueTypeOK' /\ NothingLost' /\ PassAtItem' /\ AttemptsBounded'
  BY DEF QueueTypeOK, NothingLost, PassAtItem, AttemptsBounded
<1>3. Order'
  BY DEF Order, QueuedInOrder, SentInOrder, OrderKept, Pending, QueueTypeOK
<1>4. QED
  BY <1>1, <1>2, <1>3, WholeAfter

LEMMA NetworkErrorStep == ASSUME Inductive, NetworkError PROVE Inductive'
<1> USE Parts, SameTodo, LateIsSent DEF NetworkError, table, world
<1>1. Flags'
  BY Zenon DEF Flags
<1>2. QueueTypeOK' /\ NothingLost' /\ PassAtItem' /\ AttemptsBounded'
  BY DEF QueueTypeOK, NothingLost, PassAtItem, AttemptsBounded
<1>3. QueuedInOrder' /\ OrderKept'
  BY DEF Order, QueuedInOrder, OrderKept, Pending
<1>4. SentInOrder'
  BY DEF Order, SentInOrder, Awaited, QueueTypeOK
<1>5. QED
  BY <1>1, <1>2, <1>3, <1>4, WholeAfter DEF Order

LEMMA StandStill ==
  ASSUME Inductive, Flags', UNCHANGED <<table, count, pass, todo, kills, server>>
  PROVE  Inductive'
<1> USE Parts, SameTodo DEF table, server
<1>1. QueueTypeOK' /\ NothingLost' /\ PassAtItem' /\ AttemptsBounded'
  BY DEF QueueTypeOK, NothingLost, PassAtItem, AttemptsBounded
<1>2. Order'
  BY DEF Order, QueuedInOrder, SentInOrder, Awaited, OrderKept, Pending
<1>3. QED
  BY <1>1, <1>2, WholeAfter

LEMMA WorldStep == ASSUME Inductive, Connectivity \/ Session \/ UNCHANGED vars PROVE Inductive'
<1>1. Flags'
  BY Parts, Zenon DEF Flags, Connectivity, Session, vars, phone, world
<1>2. QED
  BY <1>1, StandStill DEF Connectivity, Session, vars, phone, world, table, server

-----------------------------------------------------------------------------

LEMMA StepInductive == Inductive /\ [Next]_vars => Inductive'
<1> SUFFICES ASSUME Inductive, [Next]_vars PROVE Inductive'
  OBVIOUS
<1>1. CASE Launch \/ Kill \/ NetworkError \/ Connectivity \/ Session \/ UNCHANGED vars
  BY <1>1, LaunchStep, KillStep, NetworkErrorStep, WorldStep
<1>2. CASE Pass
  BY <1>2, PassMovesStep, SendStep, RemoveItemStep, CountAttemptStep, MarkStep DEF Pass
<1>3. ASSUME NEW i \in Items, Enqueue(i) \/ Lose(i) PROVE Inductive'
  BY <1>3, EnqueueStep, LoseStep
<1>4. ASSUME NEW i \in Items, Accept(i) \/ Refuse(i) \/ Unauthorized(i) PROVE Inductive'
  BY <1>4, AnswerStep DEF Accept, Refuse, Unauthorized
<1>5. QED
  BY <1>1, <1>2, <1>3, <1>4 DEF Next

(* The invariant, types and the bound on attempts included. *)
THEOREM InductiveHolds == Spec => []Inductive
<1>1. Init => Inductive
  BY InitInductive
<1>2. Inductive /\ [Next]_vars => Inductive'
  BY StepInductive
<1>3. QED
  BY <1>1, <1>2, PTL DEF Spec

(* No item leaves the queue unless the server has carried it out, whatever is
   lost, late or refused and however often the app is killed. *)
THEOREM NothingIsLost == Spec => []NothingLost
<1>1. Inductive => NothingLost
  BY DEF Inductive
<1>2. QED
  BY <1>1, InductiveHolds, PTL

(* The server first carries the items out in the order in which they were queued,
   past items that failed for good and no others; an attempt that was given up may
   be carried out once more at any time. *)
THEOREM OrderIsKept == Spec => []OrderKept
<1>1. Inductive => OrderKept
  BY DEF Inductive
<1>2. QED
  BY <1>1, InductiveHolds, PTL

(* No item is tried for ever: MAX_SYNC_ATTEMPTS, and one attempt more for each time
   the app was killed between sending it and counting. *)
THEOREM AttemptsEnd == Spec => []AttemptsBounded
<1>1. Inductive => AttemptsBounded
  BY DEF Inductive
<1>2. QED
  BY <1>1, InductiveHolds, PTL
=============================================================================
