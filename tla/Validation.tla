----------------------------- MODULE Validation -----------------------------
(***************************************************************************)
(* One run of ValidationService.validate for every member of Requests:     *)
(* cache, then database, then provider (app/services/validation_service.py)*)
(* over the result store (app/db/repository.py, app/db/session.py) and the *)
(* Redis cache (app/cache/redis_cache.py).                                 *)
(*                                                                         *)
(* A step is what the event loop runs between two awaits: one statement,   *)
(* one Redis command, one answer of the provider.  A transaction's writes  *)
(* stay with the request (dirty) until its commit; everybody else reads    *)
(* committed rows.  The result payload is reduced to the outcome (the      *)
(* fields upstream decides), the spelling the caller used (email_raw) and  *)
(* checked_at.                                                             *)
(***************************************************************************)
EXTENDS Integers, FiniteSets

CONSTANTS
    Requests,     \* the calls of validate(), each made at most once
    Emails,       \* normalised addresses
    Inputs,       \* addresses as callers spell them
    Normalise,    \* Inputs -> Emails: normalise()
    Outcomes,     \* what upstream can say of an address
    Malformed,    \* the outcomes ValidationResponse refuses
    Backend,      \* "sqlite", "postgres" or "mysql"
    Ttls,         \* values ttl_days takes, in clock units
    Faults,       \* which of "redis", "db", "commit", "provider", "crash" can fail
    MaxTime,      \* bound: the clock stops here
    MaxLag,       \* bound: clock ticks one request may last
    MaxInFlight,  \* bound: requests served at once
    None          \* absence of a row, a payload, an entry or an answer

ASSUME NormaliseAssumption == Normalise \in [Inputs -> Emails]
ASSUME MalformedAssumption == Malformed \subseteq Outcomes
ASSUME BackendAssumption == Backend \in {"sqlite", "postgres", "mysql"}
ASSUME TtlAssumption == Ttls \subseteq Nat \ {0}
ASSUME BoundAssumption == MaxTime \in Nat /\ MaxLag \in Nat /\ MaxInFlight \in Nat

Result == [outcome : Outcomes, email_raw : Inputs, checked_at : Nat]
Row    == [id : Nat, email : Emails, result : Result, created_at : Nat]
Event  == [request : Requests, email : Emails, result_id : Nat]
Entry  == [result : Result, expires : Nat]
Answer == [source : {"cache", "db", "provider"}, result : Result]

ASSUME NoneAssumption ==
    None \notin Row \cup Result \cup Entry \cup Answer \cup Inputs

VARIABLES
    now,      \* the wall clock, in units of the TTL
    ttl,      \* _ttl_days and _ttl_seconds, always set together
    rows,     \* committed validation_results
    events,   \* committed verification_events
    nextId,   \* the id the next INSERT into validation_results gets
    cache,    \* Redis: what is stored under each address's key
    pc,       \* where each request is in validate()
    input,    \* its email_input
    force,    \* its force flag
    began,    \* when it started
    row,      \* latest_row, then row: the result it has in hand, or is about to insert
    raw,      \* the payload the provider returned to it
    dirty,    \* what its transaction has written and not committed
    answer    \* what it returned; None while running or when it raised

store   == <<rows, events, nextId>>
locals  == <<pc, input, force, began, row, raw, dirty, answer>>
vars    == <<now, ttl, store, cache, locals>>

Init ==
    /\ now = 0
    /\ ttl \in Ttls
    /\ rows = {}
    /\ events = {}
    /\ nextId = 1
    /\ cache = [e \in Emails |-> None]
    /\ pc = [r \in Requests |-> "idle"]
    /\ input = [r \in Requests |-> None]
    /\ force = [r \in Requests |-> FALSE]
    /\ began = [r \in Requests |-> 0]
    /\ row = [r \in Requests |-> None]
    /\ raw = [r \in Requests |-> None]
    /\ dirty = [r \in Requests |-> {}]
    /\ answer = [r \in Requests |-> None]

-----------------------------------------------------------------------------
(* What the steps read *)

Email(r) == Normalise[input[r]]
InFlight == {r \in Requests : pc[r] \notin {"idle", "done"}}

(* result_hash leaves out checked_at (and cached, source) but not email_raw *)
Hash(result) == <<result.outcome, result.email_raw>>

(* ORDER BY created_at DESC, id DESC *)
NewerThan(x, y) ==
    \/ x.created_at > y.created_at
    \/ x.created_at = y.created_at /\ x.id > y.id
RowsOf(e) == {x \in rows : x.email = e}
IsLatest(x, e) == x \in RowsOf(e) /\ \A y \in RowsOf(e) \ {x} : NewerThan(x, y)

(* mutation: a row exactly a TTL old is still fresh *)
FreshAtTtl(x) == now - x.created_at <= ttl

Fresh(x) == now - x.created_at < ttl
Hit(e) == cache[e] # None /\ now < cache[e].expires

(* SQLite lets one transaction write at a time, from its first INSERT on;   *)
(* a MySQL transaction keeps reading the snapshot of its first SELECT.      *)
MayWrite(r) == Backend = "sqlite" => \A q \in Requests \ {r} : dirty[q] = {}
RereadsSnapshot(r) == Backend = "mysql" /\ ~force[r]

-----------------------------------------------------------------------------
(* Pieces of the steps *)

Goto(r, label) == pc' = [pc EXCEPT ![r] = label]

EventOf(r) == [request |-> r, email |-> Email(r), result_id |-> row[r].id]

Commit(r) ==
    /\ rows' = IF "row" \in dirty[r] THEN rows \cup {row[r]} ELSE rows
    /\ events' = IF "event" \in dirty[r] THEN events \cup {EventOf(r)} ELSE events

(* mutation: a session that ends without closing its transaction *)
FinishOpen(r, a) ==
    /\ Goto(r, "done")
    /\ answer' = [answer EXCEPT ![r] = a]
    /\ began' = [began EXCEPT ![r] = 0]
    /\ row' = [row EXCEPT ![r] = None]
    /\ raw' = [raw EXCEPT ![r] = None]
    /\ UNCHANGED <<input, force, dirty>>

(* the request is over: its locals are gone and so is what it left uncommitted *)
Finish(r, a) ==
    /\ Goto(r, "done")
    /\ answer' = [answer EXCEPT ![r] = a]
    /\ began' = [began EXCEPT ![r] = 0]
    /\ row' = [row EXCEPT ![r] = None]
    /\ raw' = [raw EXCEPT ![r] = None]
    /\ dirty' = [dirty EXCEPT ![r] = {}]
    /\ UNCHANGED <<input, force>>

(* the caller's own spelling replaces the stored one; model_validate raises  *)
(* on a malformed payload                                                    *)
Respond(r, source, result) ==
    Finish(r, IF result.outcome \in Malformed THEN None
              ELSE [source |-> source, result |-> [result EXCEPT !.email_raw = input[r]]])

(* SQLite hands out max(id) + 1, so an id that was rolled back comes again;  *)
(* the sequences of the other two do not roll back.                          *)
ReturnIds(R) ==
    nextId' = IF Backend = "sqlite" /\ \E r \in R : "row" \in dirty[r]
              THEN nextId - 1 ELSE nextId

CacheSet(e, result) ==
    \/ cache' = [cache EXCEPT ![e] = [result |-> result, expires |-> now + ttl]]
    \/ "redis" \in Faults /\ UNCHANGED cache

-----------------------------------------------------------------------------
(* validate(), step by step *)

Start(r, i, f) ==
    /\ pc[r] = "idle"
    /\ Cardinality(InFlight) < MaxInFlight
    /\ Goto(r, IF f THEN "provider" ELSE "get")
    /\ input' = [input EXCEPT ![r] = i]
    /\ force' = [force EXCEPT ![r] = f]
    /\ began' = [began EXCEPT ![r] = now]
    /\ UNCHANGED <<now, ttl, store, cache, row, raw, dirty, answer>>

CacheHit(r) ==
    /\ pc[r] = "get"
    /\ Hit(Email(r))
    /\ Respond(r, "cache", cache[Email(r)].result)
    /\ UNCHANGED <<now, ttl, store, cache>>

CacheMiss(r) ==
    /\ pc[r] = "get"
    /\ ~Hit(Email(r)) \/ "redis" \in Faults
    /\ Goto(r, "latest")
    /\ UNCHANGED <<now, ttl, store, cache, input, force, began, row, raw, dirty, answer>>

LatestFresh(r) ==
    /\ pc[r] = "latest"
    /\ \E x \in rows :
          /\ IsLatest(x, Email(r))
          /\ Fresh(x)
          /\ row' = [row EXCEPT ![r] = x]
    /\ Goto(r, "hitEvent")
    /\ UNCHANGED <<now, ttl, store, cache, input, force, began, raw, dirty, answer>>

LatestStale(r) ==
    /\ pc[r] = "latest"
    /\ \/ RowsOf(Email(r)) = {} /\ UNCHANGED row
       \/ \E x \in rows :
             /\ IsLatest(x, Email(r))
             /\ ~Fresh(x)
             /\ row' = [row EXCEPT ![r] = x]
    /\ Goto(r, "provider")
    /\ UNCHANGED <<now, ttl, store, cache, input, force, began, raw, dirty, answer>>

RecordHit(r) ==
    /\ pc[r] = "hitEvent"
    /\ MayWrite(r)
    /\ dirty' = [dirty EXCEPT ![r] = {"event"}]
    /\ Goto(r, "hitCache")
    /\ UNCHANGED <<now, ttl, store, cache, input, force, began, row, raw, answer>>

(* cache.set and _response run inside the transaction: a payload that does  *)
(* not validate rolls the event back but stays cached                       *)
WarmCache(r) ==
    /\ pc[r] = "hitCache"
    /\ CacheSet(Email(r), row[r].result)
    /\ IF row[r].result.outcome \in Malformed
       THEN Finish(r, None)
       ELSE Goto(r, "hitCommit") /\ UNCHANGED <<input, force, began, row, raw, dirty, answer>>
    /\ UNCHANGED <<now, ttl, store>>

(* mutation: the event of a database hit is not committed *)
AnswerWithoutCommit(r) ==
    /\ pc[r] = "hitCommit"
    /\ Respond(r, "db", row[r].result)
    /\ UNCHANGED <<now, ttl, store, cache>>

CommitHit(r) ==
    /\ pc[r] = "hitCommit"
    /\ Commit(r)
    /\ Respond(r, "db", row[r].result)
    /\ UNCHANGED <<now, ttl, nextId, cache>>

ProviderAnswers(r) ==
    /\ pc[r] = "provider"
    /\ \E o \in Outcomes :
          raw' = [raw EXCEPT ![r] =
                    [outcome |-> o, email_raw |-> input[r], checked_at |-> now]]
    /\ Goto(r, "compare")
    /\ UNCHANGED <<now, ttl, store, cache, input, force, began, row, dirty, answer>>

ProviderFails(r) ==
    /\ pc[r] = "provider"
    /\ "provider" \in Faults
    /\ Finish(r, None)
    /\ UNCHANGED <<now, ttl, store, cache>>

(* mutation: insert_if_changed compares with the oldest row *)
Oldest(r, x) ==
    \/ x = None /\ RowsOf(Email(r)) = {}
    \/ x \in RowsOf(Email(r)) /\ \A y \in RowsOf(Email(r)) \ {x} : NewerThan(y, x)

(* what SELECT ... LIMIT 1 returns to this transaction *)
Current(r, x) ==
    IF RereadsSnapshot(r) THEN x = row[r]
    ELSE \/ x = None /\ RowsOf(Email(r)) = {}
         \/ IsLatest(x, Email(r))

SameHash(r) ==
    /\ pc[r] = "compare"
    /\ \E x \in rows :
          /\ Current(r, x)
          /\ Hash(x.result) = Hash(raw[r])
          /\ row' = [row EXCEPT ![r] = x]
    /\ Goto(r, "event")
    /\ UNCHANGED <<now, ttl, store, cache, input, force, began, raw, dirty, answer>>

(* The new row before its INSERT: created_at is evaluated when the statement *)
(* is built, before it waits for anything; the id is the database's.         *)
Unsaved(r) == [id |-> 0, email |-> Email(r), result |-> raw[r], created_at |-> now]

(* mutation: a re-check always appends *)
AlwaysChanged(r) ==
    /\ pc[r] = "compare"
    /\ row' = [row EXCEPT ![r] = Unsaved(r)]
    /\ Goto(r, "insert")
    /\ UNCHANGED <<now, ttl, store, cache, input, force, began, raw, dirty, answer>>

Changed(r) ==
    /\ pc[r] = "compare"
    /\ \E x \in rows \cup {None} :
          /\ Current(r, x)
          /\ x # None => Hash(x.result) # Hash(raw[r])
    /\ row' = [row EXCEPT ![r] = Unsaved(r)]
    /\ Goto(r, "insert")
    /\ UNCHANGED <<now, ttl, store, cache, input, force, began, raw, dirty, answer>>

(* mutation: rows are inserted beside another open transaction *)
InsertRowBeside(r) ==
    /\ pc[r] = "insert"
    /\ row' = [row EXCEPT ![r].id = nextId]
    /\ nextId' = nextId + 1
    /\ dirty' = [dirty EXCEPT ![r] = {"row"}]
    /\ Goto(r, "event")
    /\ UNCHANGED <<now, ttl, rows, events, cache, input, force, began, raw, answer>>

InsertRow(r) ==
    /\ pc[r] = "insert"
    /\ MayWrite(r)
    /\ row' = [row EXCEPT ![r].id = nextId]
    /\ nextId' = nextId + 1
    /\ dirty' = [dirty EXCEPT ![r] = {"row"}]
    /\ Goto(r, "event")
    /\ UNCHANGED <<now, ttl, rows, events, cache, input, force, began, raw, answer>>

(* mutation: the result is cached before the commit *)
CacheBeforeCommit(r) ==
    /\ pc[r] = "event"
    /\ MayWrite(r)
    /\ CacheSet(Email(r), raw[r])
    /\ dirty' = [dirty EXCEPT ![r] = @ \cup {"event"}]
    /\ Goto(r, "commit")
    /\ UNCHANGED <<now, ttl, store, input, force, began, row, raw, answer>>

RecordCheck(r) ==
    /\ pc[r] = "event"
    /\ MayWrite(r)
    /\ dirty' = [dirty EXCEPT ![r] = @ \cup {"event"}]
    /\ Goto(r, "commit")
    /\ UNCHANGED <<now, ttl, store, cache, input, force, began, row, raw, answer>>

CommitCheck(r) ==
    /\ pc[r] = "commit"
    /\ Commit(r)
    /\ dirty' = [dirty EXCEPT ![r] = {}]
    /\ Goto(r, "set")
    /\ UNCHANGED <<now, ttl, nextId, cache, input, force, began, row, raw, answer>>

(* mutation: a forced check leaves Redis alone *)
CacheUnlessForced(r) ==
    /\ pc[r] = "set"
    /\ IF force[r] THEN UNCHANGED cache ELSE CacheSet(Email(r), raw[r])
    /\ Respond(r, "provider", raw[r])
    /\ UNCHANGED <<now, ttl, store>>

(* mutation: only a new row is cached *)
CacheIfChanged(r) ==
    /\ pc[r] = "set"
    /\ IF row[r].result = raw[r] THEN CacheSet(Email(r), raw[r]) ELSE UNCHANGED cache
    /\ Respond(r, "provider", raw[r])
    /\ UNCHANGED <<now, ttl, store>>

CacheResult(r) ==
    /\ pc[r] = "set"
    /\ CacheSet(Email(r), raw[r])
    /\ Respond(r, "provider", raw[r])
    /\ UNCHANGED <<now, ttl, store>>

(* mutation: session_scope commits what was written before the error *)
CommitOnError(r) ==
    /\ "db" \in Faults
    /\ pc[r] \in {"latest", "hitEvent", "compare", "insert", "event"}
    /\ Commit(r)
    /\ Finish(r, None)
    /\ UNCHANGED <<now, ttl, nextId, cache>>

(* any statement raises: session_scope rolls back *)
StatementFails(r) ==
    /\ "db" \in Faults
    /\ pc[r] \in {"latest", "hitEvent", "compare", "insert", "event"}
    /\ Finish(r, None)
    /\ ReturnIds({r})
    /\ UNCHANGED <<now, ttl, rows, events, cache>>

(* the commit raises: it was refused, or it took effect all the same and     *)
(* only its confirmation is lost                                             *)
CommitFails(r) ==
    /\ pc[r] \in {"hitCommit", "commit"}
    /\ \/ "db" \in Faults /\ ReturnIds({r}) /\ UNCHANGED <<rows, events>>
       \/ "commit" \in Faults /\ Commit(r) /\ UNCHANGED nextId
    /\ Finish(r, None)
    /\ UNCHANGED <<now, ttl, cache>>

-----------------------------------------------------------------------------
(* The surroundings *)

(* the process dies: requests and open transactions are gone, the database  *)
(* and Redis stay                                                           *)
Crash ==
    /\ "crash" \in Faults
    /\ InFlight # {}
    /\ pc' = [r \in Requests |-> IF r \in InFlight THEN "done" ELSE pc[r]]
    /\ began' = [r \in Requests |-> 0]
    /\ row' = [r \in Requests |-> None]
    /\ raw' = [r \in Requests |-> None]
    /\ dirty' = [r \in Requests |-> {}]
    /\ ReturnIds(Requests)
    /\ UNCHANGED <<now, ttl, rows, events, cache, input, force, answer>>

Tick ==
    /\ now < MaxTime
    /\ \A r \in InFlight : now < began[r] + MaxLag
    /\ now' = now + 1
    /\ UNCHANGED <<ttl, store, cache, locals>>

(* set_ttl_days, called by PUT /settings at any moment *)
SetTtlDays(d) ==
    /\ d # ttl
    /\ ttl' = d
    /\ UNCHANGED <<now, store, cache, locals>>

(* one await of the handler completes *)
Advance(r) ==
    \/ CacheHit(r) \/ CacheMiss(r)
    \/ LatestFresh(r) \/ LatestStale(r)
    \/ RecordHit(r) \/ WarmCache(r) \/ CommitHit(r)
    \/ ProviderAnswers(r) \/ ProviderFails(r)
    \/ SameHash(r) \/ Changed(r) \/ InsertRow(r)
    \/ RecordCheck(r) \/ CommitCheck(r) \/ CacheResult(r)

Next ==
    \/ \E r \in Requests :
          \/ \E i \in Inputs, f \in BOOLEAN : Start(r, i, f)
          \/ Advance(r)
          \/ StatementFails(r) \/ CommitFails(r)
    \/ Crash
    \/ Tick
    \/ \E d \in Ttls : SetTtlDays(d)

Spec == Init /\ [][Next]_vars

(* A request that is being served moves on: every statement, Redis command   *)
(* and attempt upstream has a timeout, after which it returns or raises.     *)
Fairness == \A r \in Requests : WF_vars(Advance(r))
FairSpec == Spec /\ Fairness
-----------------------------------------------------------------------------
(* Properties *)

Types ==
    /\ now \in Nat /\ ttl \in Ttls /\ nextId \in Nat
    /\ rows \subseteq Row /\ events \subseteq Event
    /\ cache \in [Emails -> Entry \cup {None}]
    /\ pc \in [Requests -> {"idle", "get", "latest", "hitEvent", "hitCache", "hitCommit",
                            "provider", "compare", "insert", "event", "commit", "set", "done"}]
    /\ input \in [Requests -> Inputs \cup {None}]
    /\ force \in [Requests -> BOOLEAN]
    /\ began \in [Requests -> Nat]
    /\ row \in [Requests -> Row \cup {None}]
    /\ raw \in [Requests -> Result \cup {None}]
    /\ dirty \in [Requests -> SUBSET {"row", "event"}]
    /\ answer \in [Requests -> Answer \cup {None}]

(* Every variable keeps its shape, and a request has pending writes only in  *)
(* the states in which its transaction is open: none are left behind by a    *)
(* request that is over (session.py:44-55).                                  *)
TypeOK ==
    /\ Types
    /\ \A r \in Requests :
          /\ "row" \in dirty[r] => pc[r] \in {"event", "commit"}
          /\ "event" \in dirty[r] => pc[r] \in {"hitCache", "hitCommit", "commit"}

(* Two stored results never share a primary key, whatever was rolled back    *)
(* and whoever inserted at the same time (ids of repository.py:59-60).       *)
RowIdsUnique == \A x, y \in rows : x.id = y.id => x = y

(* A verification event always refers to a stored result of the address that *)
(* was checked: the id record_event is given is still there, and committed,  *)
(* when the event commits (repository.py:64-80).                             *)
EventsReferToRows ==
    \A ev \in events : \E x \in rows : x.id = ev.result_id /\ x.email = ev.email

(* A stored result never appears without the event of the check that found   *)
(* it: the two INSERTs of a check are committed together or not at all.      *)
EveryRowWasChecked == \A x \in rows : \E ev \in events : ev.result_id = x.id

(* A check answered from the database or the provider has its event, a Redis *)
(* hit leaves none, and an unanswered idle request has none (README, step 5).*)
RecordedIffNotCached ==
    \A r \in Requests :
        LET recorded == \E ev \in events : ev.request = r
        IN  IF answer[r] # None
            THEN recorded <=> answer[r].source # "cache"
            ELSE recorded => pc[r] \in {"set", "done"}

(* Redis never holds an outcome that the database does not: what is cached    *)
(* for an address was committed for that address before (cache.set follows   *)
(* the commit of the row, validation_service.py:97, or its SELECT, :87).     *)
CacheBackedByRow ==
    \A e \in Emails : cache[e] # None =>
        \E x \in RowsOf(e) : Hash(x.result) = Hash(cache[e].result)

(* "Every check is also recorded as a lightweight verification event" (README *)
(* and models.py): a check that was answered has its event.                  *)
EveryCheckIsRecorded ==
    \A r \in Requests : answer[r] # None => \E ev \in events : ev.request = r

(* latest() steps back only between checks that overlap.  created_at is set  *)
(* before the INSERT waits, so a result can become visible behind one that   *)
(* is newer by created_at, but only if that one was made while its own check *)
(* was under way (repository.py:40-48, 59-60); and on SQLite, with one       *)
(* writer, results become visible in the order of their ids.                 *)
StepsBackOnlyByOverlap ==
    [][\A r \in Requests : pc[r] = "commit" /\ row[r] \in rows' \ rows =>
          \A y \in RowsOf(Email(r)) :
              /\ NewerThan(y, row[r]) => y.created_at >= began[r]
              /\ Backend = "sqlite" => y.id < row[r].id]_vars

Adjacent(x, y) ==
    /\ NewerThan(y, x)
    /\ \A z \in RowsOf(x.email) : ~(NewerThan(z, x) /\ NewerThan(y, z))

(* "A re-check writes a new row only when the result changed" (README): no two *)
(* revisions of an address that follow each other are the same.              *)
NoRepeatedRevision ==
    \A x, y \in rows :
        x.email = y.email /\ Adjacent(x, y) => Hash(x.result) # Hash(y.result)

(* A revision that repeats its predecessor is the work of two checks that     *)
(* overlapped: a check that begins when the one that inserted the            *)
(* predecessor must be over does not insert it again.                        *)
RepeatsNeedOverlap ==
    [][\A r \in Requests : pc[r] = "commit" =>
          \A x \in rows :
              x.email = Email(r) /\ row[r] \in rows' \ rows /\ x.created_at + MaxLag < began[r] =>
                  ~(Adjacent(x, row[r]) /\ Hash(x.result) = Hash(raw[r]))]_vars

Answers(r) == answer[r] = None /\ answer'[r] # None
Age(r) == now - answer'[r].result.checked_at

(* An unforced answer is never older than two TTLs: a row may be almost a TTL *)
(* old when a database hit copies it to Redis for another full TTL           *)
(* (validation_service.py:87).  Each of the two requests involved may last   *)
(* MaxLag besides.                                                           *)
AnswersWithinTwoTtls ==
    [][\A r \in Requests : Answers(r) =>
          \E t, u \in Ttls : Age(r) <= (t - 1) + (u - 1) + 2 * MaxLag]_vars

(* "ttl_days: how long a stored result is reused before the provider is       *)
(* called again" (README): no answer is older than the longest TTL.          *)
AnswersWithinTtl ==
    [][\A r \in Requests : Answers(r) => \E t \in Ttls : Age(r) <= (t - 1) + 2 * MaxLag]_vars

(* When checks follow one another, Redis works, the process lives and a      *)
(* commit that raises took no effect, every answer says what the newest      *)
(* stored revision says, whichever of the three sources gave it (the         *)
(* spelling is the caller's own, validation_service.py:67).                  *)
AnswersAreLatest ==
    [][\A r \in Requests : Answers(r) =>
          \E x \in rows' : IsLatest(x, Email(r))' /\ x.result.outcome = answer'[r].result.outcome]_vars

(* When checks follow one another, Redis works and the TTL is not changed,    *)
(* the provider is not asked again about an address within a TTL of its last *)
(* answer unless the caller forces it, also when that answer changed nothing *)
(* and so left created_at of the newest row as it was.                       *)
ReusedForTtl ==
    [][\A r \in Requests : pc[r] = "provider" /\ pc'[r] = "compare" /\ ~force[r] =>
          \A q \in Requests :
              answer[q] # None /\ answer[q].source = "provider" /\ Normalise[input[q]] = Email(r)
                  => answer[q].result.checked_at + ttl <= now]_vars

(* Every request that is being served comes to its end: nobody waits for ever *)
(* for the write lock.                                                       *)
EveryRequestEnds == \A r \in Requests : (pc[r] # "idle") ~> (pc[r] = "done")

(* The next await of a request can complete: its SELECT finds what it looks  *)
(* for, and if it writes next, nobody else's transaction is in its way.      *)
CanAdvance(r) ==
    \/ pc[r] \in {"get", "provider", "hitCache", "hitCommit", "commit", "set"}
    \/ pc[r] = "latest" /\ (RowsOf(Email(r)) = {} \/ \E x \in rows : IsLatest(x, Email(r)))
    \/ pc[r] = "compare" /\ \E x \in rows \cup {None} : Current(r, x)
    \/ pc[r] \in {"hitEvent", "insert", "event"} /\ MayWrite(r)

(* Whoever is held up is held up by a writer that is not: on SQLite requests *)
(* never wait for one another in a circle (session.py:28-31, 44-55), and an  *)
(* address with rows always has a newest one to be answered from             *)
(* (repository.py:40-48).                                                    *)
HeldUpByAWriter ==
    \A r \in InFlight :
        CanAdvance(r) \/ \E q \in InFlight \ {r} : dirty[q] # {} /\ CanAdvance(q)

History == INSTANCE HistoryLog WITH Rows <- Row

(* The service implements the append-only record of HistoryLog: the INSERTs  *)
(* of a check become visible together, once per check, and nothing that was  *)
(* recorded is changed or removed (models.py:1-7, session.py:44-55).         *)
ImplementsHistoryLog == History!Spec
=============================================================================
