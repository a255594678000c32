--------------------------- MODULE RestoredCache ---------------------------
(***************************************************************************)
(* What a restore does to the second copy of an answer.  It replaces the   *)
(* rows of the database and leaves Redis alone                             *)
(* (app/services/backup_service.py:175-205), while checks of the same      *)
(* address go on (app/services/validation_service.py).                     *)
(*                                                                         *)
(* A check is reduced to the steps that read or write one of the two       *)
(* copies, for one address, and a restore to its DELETE of                 *)
(* validation_results, together with what it fills in, and its commit;     *)
(* Validation and Backup have the rest.  A stored result is the request    *)
(* that found it, or a member of Elsewhere when it came with an archive:   *)
(* which of the rows of the address is the newest, and whether it is       *)
(* fresh, is left open.                                                    *)
(***************************************************************************)
EXTENDS Naturals

CONSTANTS
    Requests,    \* the calls of validate(), each made at most once
    Elsewhere,   \* results that only an archive from elsewhere brings
    Id,          \* the primary key of each result, where foreign keys matter
    Backends,    \* the databases to consider
    Ttls,        \* values ttl_days takes, in clock units
    MaxTime,     \* bound: the clock stops here
    MaxLag,      \* bound: clock ticks one request may last
    None         \* no row, no entry, no restore

Stored == Requests \cup Elsewhere
Entry == [row : Stored, expires : Nat]
Replacement == [deleted : SUBSET Stored, data : SUBSET Stored]

ASSUME RestoredCacheAssumption ==
    /\ Requests \cap Elsewhere = {}
    /\ \A q, r \in Requests : Id[q] = Id[r] => q = r  \* one sequence
    /\ Backends \subseteq {"sqlite", "postgres", "mysql"}
    /\ Ttls \subseteq Nat \ {0}
    /\ MaxTime \in Nat /\ MaxLag \in Nat
    /\ None \notin Stored \cup Entry \cup Replacement \cup Nat

VARIABLES
    backend,     \* database.type
    now,         \* the wall clock, in units of the TTL
    ttl,         \* _ttl_seconds
    rows,        \* committed rows of the address
    cache,       \* what Redis holds under its key
    pc,          \* where each request is in validate()
    row,         \* the row a request has in hand; its own is the request itself
    began,       \* when a request started
    archive,     \* the rows in the archive an operator has
    replacing,   \* what the open transaction of a restore has deleted and inserts
    restored     \* (history) when the last restore was committed

Ids(S) == {Id[x] : x \in S}

database == <<backend, rows, archive, replacing, restored>>
vars == <<database, now, ttl, cache, pc, row, began>>

Init ==
    /\ backend \in Backends
    /\ now = 0
    /\ ttl \in Ttls
    /\ rows = {}
    /\ cache = None
    /\ pc = [r \in Requests |-> "idle"]
    /\ row = [r \in Requests |-> None]
    /\ began = [r \in Requests |-> 0]
    /\ archive \in {S \in SUBSET Elsewhere : \A x, y \in S : Id[x] = Id[y] => x = y}
    /\ replacing = None
    /\ restored = None

-----------------------------------------------------------------------------
(* What the steps read *)

InFlight == {r \in Requests : pc[r] \notin {"idle", "done"}}
Hit == cache # None /\ now < cache.expires

(* SQLite has one writer; MySQL's unqualified DELETE locks the whole table *)
MayInsert == backend = "postgres" \/ replacing = None

(* The foreign key of an event: a row of that id is there and stays, or is   *)
(* the request's own.  SQLite is used without PRAGMA foreign_keys.           *)
Staying == IF replacing = None THEN rows ELSE rows \ replacing.deleted
MayRefer(r) == backend = "sqlite" \/ row[r] = r \/ Id[row[r]] \in Ids(Staying)

(* what r has inserted and not committed *)
Uncommitted(r) == pc[r] \in {"hitCache", "hitCommit", "commit"} \/ (pc[r] = "event" /\ row[r] = r)

(* a primary key is free or waits; SQLite takes max + 1 *)
Free(ids, S) == backend = "sqlite" \/ ids \cap Ids(S) = {}

(* mutation: the DELETE waits for nobody *)
DeleteAtOnce == replacing = None

(* A restore waits for the transactions that have written; on PostgreSQL     *)
(* only for those whose event refers to a row that is to go.                 *)
MayDelete ==
    /\ replacing = None
    /\ \A r \in Requests : Uncommitted(r) => backend = "postgres" /\ row[r] = r

-----------------------------------------------------------------------------
(* validate() *)

Goto(r, label) == pc' = [pc EXCEPT ![r] = label]

Finish(r) ==
    /\ Goto(r, "done")
    /\ row' = [row EXCEPT ![r] = None]
    /\ began' = [began EXCEPT ![r] = 0]

CacheSet(x) ==
    \/ cache' = [row |-> x, expires |-> now + ttl]
    \/ UNCHANGED cache  \* Redis failed

Start(r, force) ==
    /\ pc[r] = "idle"
    /\ Goto(r, IF force THEN "compare" ELSE "get")
    /\ began' = [began EXCEPT ![r] = now]
    /\ UNCHANGED <<database, now, ttl, cache, row>>

CacheHit(r) ==
    /\ pc[r] = "get"
    /\ Hit
    /\ Finish(r)
    /\ UNCHANGED <<database, now, ttl, cache>>

(* also when Redis fails *)
CacheMiss(r) ==
    /\ pc[r] = "get"
    /\ Goto(r, "latest")
    /\ UNCHANGED <<database, now, ttl, cache, row, began>>

LatestFresh(r) ==
    /\ pc[r] = "latest"
    /\ \E x \in rows : row' = [row EXCEPT ![r] = x]
    /\ Goto(r, "hitEvent")
    /\ UNCHANGED <<database, now, ttl, cache, began>>

LatestStale(r) ==
    /\ pc[r] = "latest"
    /\ Goto(r, "compare")
    /\ UNCHANGED <<database, now, ttl, cache, row, began>>

RecordHit(r) ==
    /\ pc[r] = "hitEvent"
    /\ MayInsert /\ MayRefer(r)
    /\ Goto(r, "hitCache")
    /\ UNCHANGED <<database, now, ttl, cache, row, began>>

(* inside the transaction that has inserted the event *)
WarmCache(r) ==
    /\ pc[r] = "hitCache"
    /\ CacheSet(row[r])
    /\ Goto(r, "hitCommit")
    /\ UNCHANGED <<database, now, ttl, row, began>>

CommitHit(r) ==
    /\ pc[r] = "hitCommit"
    /\ Finish(r)
    /\ UNCHANGED <<database, now, ttl, cache>>

(* The provider has answered; the answer is that of a stored row, or a new   *)
(* one is inserted.  One that a restore deletes before the event is recorded *)
(* is refused with it, as a failure, unless its id is in use again.          *)
SameHash(r) ==
    /\ pc[r] = "compare"
    /\ \E x \in rows : row' = [row EXCEPT ![r] = x]
    /\ Goto(r, "event")
    /\ UNCHANGED <<database, now, ttl, cache, began>>

InsertRow(r) ==
    /\ pc[r] = "compare"
    /\ MayInsert
    /\ Free({Id[r]}, rows \cup IF replacing = None THEN {} ELSE replacing.data)
    /\ row' = [row EXCEPT ![r] = r]
    /\ Goto(r, "event")
    /\ UNCHANGED <<database, now, ttl, cache, began>>

(* mutation: Redis is written before the commit *)
CacheBeforeCommit(r) ==
    /\ pc[r] = "event"
    /\ MayInsert /\ MayRefer(r)
    /\ CacheSet(row[r])
    /\ Goto(r, "commit")
    /\ UNCHANGED <<database, now, ttl, row, began>>

RecordCheck(r) ==
    /\ pc[r] = "event"
    /\ MayInsert /\ MayRefer(r)
    /\ Goto(r, "commit")
    /\ UNCHANGED <<database, now, ttl, cache, row, began>>

(* only a row of its own becomes visible *)
CommitCheck(r) ==
    /\ pc[r] = "commit"
    /\ rows' = rows \cup ({row[r]} \cap {r})
    /\ Goto(r, "set")
    /\ UNCHANGED <<backend, archive, replacing, restored, now, ttl, cache, row, began>>

(* after the commit, in nobody's transaction *)
CacheResult(r) ==
    /\ pc[r] = "set"
    /\ CacheSet(row[r])
    /\ Finish(r)
    /\ UNCHANGED <<database, now, ttl>>

(* a statement raises, a foreign key included, the provider fails, or the    *)
(* process dies                                                              *)
Fail(r) ==
    /\ r \in InFlight
    /\ Finish(r)
    /\ UNCHANGED <<database, now, ttl, cache>>

-----------------------------------------------------------------------------
(* make_backup and restore *)

MakeBackup ==
    /\ archive' = rows
    /\ UNCHANGED <<backend, rows, replacing, restored, now, ttl, cache, pc, row, began>>

Delete ==
    /\ MayDelete
    /\ replacing' = [deleted |-> rows, data |-> archive]
    /\ UNCHANGED <<backend, rows, archive, restored, now, ttl, cache, pc, row, began>>

(* The commit.  A row that became visible since the DELETE stays.            *)
Apply ==
    /\ replacing # None
    /\ Free(Ids(replacing.data), Staying \cup {r \in Requests : row[r] = r /\ Uncommitted(r)})
    /\ rows' = Staying \cup replacing.data
    /\ replacing' = None
    /\ restored' = now
    /\ UNCHANGED <<backend, archive, now, ttl, cache, pc, row, began>>

RestoreFails ==
    /\ replacing # None
    /\ replacing' = None
    /\ UNCHANGED <<backend, rows, archive, restored, now, ttl, cache, pc, row, began>>

Tick ==
    /\ now < MaxTime
    /\ \A r \in InFlight : now < began[r] + MaxLag
    /\ now' = now + 1
    /\ UNCHANGED <<database, ttl, cache, pc, row, began>>

SetTtlDays(d) ==
    /\ d # ttl
    /\ ttl' = d
    /\ UNCHANGED <<database, now, cache, pc, row, began>>

Advance(r) ==
    \/ CacheHit(r) \/ CacheMiss(r) \/ LatestFresh(r) \/ LatestStale(r)
    \/ RecordHit(r) \/ WarmCache(r) \/ CommitHit(r)
    \/ SameHash(r) \/ InsertRow(r) \/ RecordCheck(r) \/ CommitCheck(r) \/ CacheResult(r)

Next ==
    \/ \E r \in Requests : (\E f \in BOOLEAN : Start(r, f)) \/ Advance(r) \/ Fail(r)
    \/ MakeBackup \/ Delete \/ Apply \/ RestoreFails
    \/ Tick
    \/ \E d \in Ttls : SetTtlDays(d)

Spec == Init /\ [][Next]_vars

-----------------------------------------------------------------------------
(* Properties *)

TypeOK ==
    /\ backend \in Backends /\ now \in Nat /\ ttl \in Ttls
    /\ rows \subseteq Stored /\ archive \subseteq Stored
    /\ cache \in Entry \cup {None}
    /\ pc \in [Requests -> {"idle", "get", "latest", "hitEvent", "hitCache", "hitCommit",
                            "compare", "event", "commit", "set", "done"}]
    /\ row \in [Requests -> Stored \cup {None}]
    /\ began \in [Requests -> Nat]
    /\ replacing \in Replacement \cup {None}
    /\ restored \in Nat \cup {None}

(* An answer without its row is served from Redis only after a restore, and  *)
(* no longer than a TTL after it, and the time a check takes that had the    *)
(* row in hand when it was replaced (backup_service.py:176,                  *)
(* validation_service.py:87, 97).                                            *)
OrphansExpire ==
    Hit /\ cache.row \notin rows =>
        restored # None /\ \E t \in Ttls : cache.expires <= restored + t + MaxLag

(* With foreign keys a database hit copies to Redis only what is in the      *)
(* database at that moment: its event, not yet committed, keeps the row      *)
(* until the copy is made, whatever restore is waiting.  The one exception   *)
(* is a row that a restore has replaced by another of the same id, which     *)
(* takes an archive from elsewhere: the foreign key is content with that     *)
(* (validation_service.py:84-87, models.py:69).                              *)
HitsAreStored ==
    [][\A r \in Requests : backend # "sqlite" /\ pc[r] = "hitCache" /\ pc'[r] = "hitCommit" =>
          \/ row[r] \in rows
          \/ \E x \in rows : Id[x] = Id[row[r]] /\ {x, row[r]} \cap Elsewhere # {}]_vars
=============================================================================
