------------------------------ MODULE PermitRow ------------------------------
(***************************************************************************)
(* One row of the permits table and its Redis entry.  Every service of the *)
(* backend that moves a permit reads it through PermitService.findOne, a    *)
(* cache-aside read, and writes the row in PostgreSQL; most of them then    *)
(* delete the Redis entry, some never do.  Reads and writes of the two      *)
(* stores interleave, so the entry may hold a status the row left long ago. *)
(***************************************************************************)
CONSTANT NoEntry            \* "no value": a Redis miss, or no fill in flight

VARIABLES
  status,                   \* permits.status, as committed
  cache,                    \* the status inside permit:detail:<tenant>:<id>
  loading                   \* what a GET read from the row and has yet to store

rowVars == <<status, cache, loading>>

PermitStatus ==
  { "draft", "pending_approval", "approved", "rejected", "deferred", "active",
    "suspended", "pending_closure", "closed", "expired", "cancelled" }

ASSUME NoEntryAssumption == NoEntry \notin PermitStatus

RowTypeOK ==
  /\ status \in PermitStatus
  /\ cache \in PermitStatus \cup {NoEntry}
  /\ loading \in PermitStatus \cup {NoEntry}

RowInit ==
  /\ status = "draft"
  /\ cache = NoEntry
  /\ loading = NoEntry

-----------------------------------------------------------------------------

(* CacheService swallows every Redis error: a read that fails is a miss, a
   write or a delete that fails leaves the entry as it was. *)
CacheSet(s) == cache' \in {s, cache}
Invalidate  == cache' \in {NoEntry, cache}

(* PermitService.findOne answers s: the entry if there is one, the row
   otherwise, and then the row is written into Redis. *)
FindOne(s) ==
  \/ cache # NoEntry /\ s = cache /\ UNCHANGED cache
  \/ s = status /\ CacheSet(s)

(* A reader (GET /permits/:id, a review, a dashboard) that misses loads the row
   and stores it later: the row may change, and its entry be deleted, between. *)
ReaderLoad ==
  /\ cache = NoEntry
  /\ loading = NoEntry
  /\ loading' = status
  /\ UNCHANGED <<status, cache>>

ReaderStore ==
  /\ loading # NoEntry
  /\ CacheSet(loading)
  /\ loading' = NoEntry
  /\ UNCHANGED status

(* The time to live of the entry runs out. *)
EntryExpires ==
  /\ cache # NoEntry
  /\ cache' = NoEntry
  /\ UNCHANGED <<status, loading>>

RowEnvironment == ReaderLoad \/ ReaderStore \/ EntryExpires
=============================================================================
