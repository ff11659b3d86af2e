---------------------------- MODULE OfflineQueue ----------------------------
(***************************************************************************)
(* The offline queue of the mobile app: screens store the requests they     *)
(* could not send, and the provider sends them one by one, in passes, when  *)
(* it believes that there are some.  The network loses and delays requests  *)
(* and answers, the session expires, the app is killed and started again.   *)
(***************************************************************************)
EXTENDS Naturals, FiniteSets

CONSTANTS
  MaxItems,      \* requests that are ever queued: bound
  MaxAttempts,   \* MAX_SYNC_ATTEMPTS
  MaxKills       \* how often the app is killed: bound

ASSUME Bounds == {MaxItems, MaxKills} \subseteq Nat /\ MaxAttempts \in Nat \ {0}

Items == 1 .. MaxItems    \* by their ids

VARIABLES
  row,        \* the item: not queued yet, pending, failed, or gone from the table
  attempts,   \* sync_queue.attempts
  app,        \* the app runs and its provider is ready
  count,      \* pendingCount
  pass,       \* where the pass of the provider is, "off" between two
  todo,       \* the items the pass has yet to send
  online,     \* what NetInfo says
  session,    \* the server accepts the access token
  late,       \* how many requests for the item are on their way and given up
  accepted,   \* items the server has carried out by a request of the queue
  kills       \* how often the app has been killed

table  == <<row, attempts>>
phone  == <<app, count, pass, todo>>
world  == <<online, session, kills>>
server == <<late, accepted>>
vars   == <<table, phone, world, server>>

TypeOK ==
  /\ row \in [Items -> {"new", "pending", "failed", "gone"}]
  /\ attempts \in [Items -> 0 .. MaxAttempts + MaxKills]
  /\ app \in BOOLEAN
  /\ count \in 0 .. MaxItems
  /\ pass \in {"off", "ask", "next", "wait", "silent", "ok", "denied", "error",
              "mark", "recount"}
  /\ todo \subseteq Items
  /\ online \in BOOLEAN
  /\ session \in BOOLEAN
  /\ late \in [Items -> Nat]
  /\ accepted \subseteq Items
  /\ kills \in 0 .. MaxKills

Pending == {i \in Items : row[i] = "pending"}

(* The item a pass is at: they are selected in the order of their ids. *)
Current == CHOOSE i \in todo : \A j \in todo : i <= j

(* The app awaits the answer to a request for the item, which is on its way. *)
Awaited(i) == pass = "wait" /\ Current = i

(* What is late when the app no longer awaits an answer. *)
LateNow == IF pass = "wait" THEN [late EXCEPT ![Current] = @ + 1] ELSE late

Init ==
  /\ row = [i \in Items |-> "new"]
  /\ attempts = [i \in Items |-> 0]
  /\ app = FALSE
  /\ count = 0
  /\ pass = "off"
  /\ todo = {}
  /\ online \in BOOLEAN
  /\ session = TRUE
  /\ late = [i \in Items |-> 0]
  /\ accepted = {}
  /\ kills = 0

-----------------------------------------------------------------------------
(* The app *)

(* A screen queues a request, whose failure it took for a missing network;
   nothing tells the provider. *)
Enqueue(i) ==
  /\ app
  /\ row[i] = "new"
  /\ \A j \in 1 .. i - 1 : row[j] # "new"
  /\ row' = [row EXCEPT ![i] = "pending"]
  /\ UNCHANGED <<attempts, phone, world, server>>

Launch ==
  /\ ~app
  /\ app' = TRUE
  /\ count' = Cardinality(Pending)
  /\ UNCHANGED <<table, pass, todo, world, server>>

Kill ==
  /\ app
  /\ kills < MaxKills
  /\ app' = FALSE
  /\ count' = 0
  /\ pass' = "off"
  /\ todo' = {}
  /\ late' = LateNow
  /\ kills' = kills + 1
  /\ UNCHANGED <<table, online, session, accepted>>

-----------------------------------------------------------------------------
(* A pass *)

(* The effect of the provider and the button of the status panel, which is
   disabled in the same cases. *)
SyncNow ==
  /\ app
  /\ online
  /\ count # 0
  /\ pass = "off"
  /\ pass' = "ask"
  /\ UNCHANGED <<table, app, count, todo, world, server>>

Ask ==
  /\ pass = "ask"
  /\ IF online
       THEN /\ pass' = "next"
            /\ todo' = Pending
       ELSE pass' = "recount" /\ UNCHANGED todo
  /\ UNCHANGED <<table, app, count, world, server>>

(* Each attempt is a request of its own, whatever became of the ones before. *)
Send ==
  /\ pass = "next"
  /\ todo # {}
  /\ pass' = "wait"
  /\ UNCHANGED <<table, app, count, todo, world, server>>

Finish ==
  /\ pass = "next"
  /\ todo = {}
  /\ pass' = "recount"
  /\ UNCHANGED <<table, app, count, todo, world, server>>

(* Mutant: the item is removed without regard to the answer. *)
MutAnswered == {"ok", "denied"}

(* The outcomes after which the item is removed. *)
Answered == {"ok"}

RemoveItem ==
  /\ pass \in Answered
  /\ row' = [row EXCEPT ![Current] = "gone"]
  /\ todo' = todo \ {Current}
  /\ pass' = "next"
  /\ UNCHANGED <<attempts, app, count, world, server>>

(* The session has expired: the pass ends and no attempt is counted. *)
Denied ==
  /\ pass = "denied"
  /\ todo' = {}
  /\ pass' = "recount"
  /\ UNCHANGED <<table, app, count, world, server>>

CountAttempt ==
  /\ pass = "error"
  /\ attempts' = [attempts EXCEPT ![Current] = @ + 1]
  /\ pass' = "mark"
  /\ UNCHANGED <<row, app, count, todo, world, server>>

(* Mutant: the limit is met exactly or never. *)
MutSpent(i) == attempts[i] = MaxAttempts

Spent(i) == attempts[i] >= MaxAttempts

(* Mutant: the pass goes on with the next item. *)
MutMark ==
  /\ pass = "mark"
  /\ row' = IF Spent(Current) THEN [row EXCEPT ![Current] = "failed"] ELSE row
  /\ todo' = todo \ {Current}
  /\ pass' = "next"
  /\ UNCHANGED <<attempts, app, count, world, server>>

(* The item has failed for good at the limit; the pass ends either way. *)
Mark ==
  /\ pass = "mark"
  /\ row' = IF Spent(Current) THEN [row EXCEPT ![Current] = "failed"] ELSE row
  /\ todo' = {}
  /\ pass' = "recount"
  /\ UNCHANGED <<attempts, app, count, world, server>>

(* Mutant: the count is brought up to date by the next start only. *)
MutRecount ==
  /\ pass = "recount"
  /\ pass' = "off"
  /\ UNCHANGED <<table, app, count, todo, world, server>>

Recount ==
  /\ pass = "recount"
  /\ count' = Cardinality(Pending)
  /\ pass' = "off"
  /\ UNCHANGED <<table, app, todo, world, server>>

-----------------------------------------------------------------------------
(* The world *)

(* The phone gives up on a request: its connection broke.  The request itself
   may arrive later.  The app sets no time limit of its own. *)
NetworkError ==
  /\ pass \in {"wait", "silent"}
  /\ pass' = "error"
  /\ late' = LateNow
  /\ UNCHANGED <<table, app, count, todo, world, accepted>>

(* A request for the item is no longer on its way: the one the app awaits, of
   which the app learns one of these outcomes, or one that was given up. *)
Arrive(i, outcomes) ==
  /\ \/ Awaited(i) /\ pass' \in outcomes /\ UNCHANGED late
     \/ late[i] > 0 /\ late' = [late EXCEPT ![i] = @ - 1] /\ UNCHANGED pass
  /\ UNCHANGED <<table, app, count, todo, world>>

(* The server handles a request.  Its answer reaches the app or is lost. *)
Answer(i, outcome) == Arrive(i, {outcome, "silent"})

Accept(i) == session /\ Answer(i, "ok") /\ accepted' = accepted \cup {i}

(* A refusal, as of a request about a permit that has only a local name. *)
Refuse(i) == session /\ Answer(i, "error") /\ UNCHANGED accepted

Unauthorized(i) == ~session /\ Answer(i, "denied") /\ UNCHANGED accepted

Lose(i) == Arrive(i, {"silent"}) /\ UNCHANGED accepted

Connectivity ==
  /\ online' = ~online
  /\ UNCHANGED <<table, phone, session, kills, server>>

Session ==
  /\ session' = ~session
  /\ UNCHANGED <<table, phone, online, kills, server>>

-----------------------------------------------------------------------------

Pass ==
  \/ SyncNow \/ Ask \/ Send \/ Finish \/ RemoveItem \/ Denied
  \/ CountAttempt \/ Mark \/ Recount

Next ==
  \/ Launch \/ Kill \/ Pass \/ NetworkError \/ Connectivity \/ Session
  \/ \E i \in Items :
       Enqueue(i) \/ Accept(i) \/ Refuse(i) \/ Unauthorized(i) \/ Lose(i)

(* The app takes the next step of a pass when that is its own to take: queries of
   its database settle and effects run.  That a request settles is not assumed:
   a request nobody answers holds the pass. *)
Spec == Init /\ [][Next]_vars /\ WF_vars(Pass)

-----------------------------------------------------------------------------

(* An item is gone from the queue only when the server has carried it out,
   whatever was lost or late and whenever the app was killed. *)
NothingLost == \A i \in Items : row[i] = "gone" => i \in accepted

(* The server first carries the items out in the order of the queue: an item
   gets there only past earlier ones that have been carried out or have failed for
   good.  (An attempt that was given up may arrive once more, at any time.) *)
OrderKept ==
  \A i, j \in Items : i < j /\ j \in accepted => i \in accepted \/ row[i] = "failed"

Connected == app /\ online /\ session

(* Once the connection and the session stay, and every request is answered or
   given up in the end, the passes come to an end: the items the provider knows of
   are sent or fail, and none is tried for ever. *)
CountedIsSettled ==
  <>[]Connected /\ []<>(pass \notin {"wait", "silent"}) => (count # 0 ~> count = 0)

-----------------------------------------------------------------------------
(* The inductive strengthening of NothingLost and OrderKept. *)

(* A pass that is at an item has one, and knows of its answer what is true. *)
PassAtItem ==
  /\ pass \in {"wait", "silent", "ok", "denied", "error", "mark"} => todo # {}
  /\ pass = "ok" => Current \in accepted

(* Items are queued in order, and a pass leaves out only what came later. *)
QueuedInOrder ==
  /\ \A i, j \in Items : i < j /\ row[j] # "new" => row[i] # "new"
  /\ todo \subseteq Pending
  /\ \A i \in Pending \ todo, j \in todo : j < i

(* What is on its way to the server went past settled items only. *)
SentInOrder ==
  \A i, j \in Items :
    i < j /\ (Awaited(j) \/ late[j] > 0) => i \in accepted \/ row[i] = "failed"

(* Each attempt is followed by its mark, unless the app is killed in between. *)
AttemptsBounded ==
  \A i \in Items :
    /\ attempts[i] <= MaxAttempts + kills
    /\ \/ row[i] \in {"failed", "gone"}
       \/ pass = "mark" /\ Current = i
       \/ attempts[i] < MaxAttempts + kills

Inductive ==
  /\ TypeOK
  /\ NothingLost
  /\ OrderKept
  /\ PassAtItem
  /\ QueuedInOrder
  /\ SentInOrder
  /\ AttemptsBounded
=============================================================================
