------------------------ MODULE RestoredCacheProofs ------------------------
(***************************************************************************)
(* What holds of RestoredCache for any requests and archives, each         *)
(* database, any TTLs and bounds.                                          *)
(***************************************************************************)
EXTENDS RestoredCache, TLAPS

USE RestoredCacheAssumption

-----------------------------------------------------------------------------
(* The inductive invariant *)

(* A request that is served began at most MaxLag ago, and no restore is yet  *)
(* to come.                                                                  *)
Timed ==
    /\ \A r \in InFlight : began[r] <= now /\ now <= began[r] + MaxLag
    /\ restored # None => restored <= now

(* What a request has in hand is in the database, or it is about to insert   *)
(* it, or a restore came in between.                                         *)
Backed(r) ==
    pc[r] \in {"hitEvent", "hitCache", "hitCommit", "event", "commit", "set"} =>
        /\ row[r] \in Stored
        /\ \/ row[r] \in rows
           \/ row[r] = r /\ pc[r] \in {"event", "commit"}
           \/ restored # None /\ began[r] <= restored

(* An entry expires within a TTL from now, and one without its row within a  *)
(* TTL of the restore.                                                       *)
Expires ==
    cache # None =>
        /\ \E t \in Ttls : cache.expires <= now + t
        /\ cache.row \notin rows =>
               restored # None /\ \E t \in Ttls : cache.expires <= restored + t + MaxLag

(* A request's own row is not to be found anywhere before it is committed.   *)
Found == rows \cup archive \cup (IF replacing = None THEN {} ELSE replacing.data)
Unfound(r) == r \in Found => pc[r] \in {"set", "done"}

(* With foreign keys, the event of a database hit holds the row of its id. *)
Held(r) ==
    /\ pc[r] \in {"hitEvent", "hitCache", "hitCommit"} => row[r] # r
    /\ backend # "sqlite" /\ pc[r] = "hitCache" => row[r] \in Stored /\ Id[row[r]] \in Ids(Staying)

IInv ==
    /\ TypeOK
    /\ Timed
    /\ Expires
    /\ \A r \in Requests : Backed(r) /\ Unfound(r) /\ Held(r)

-----------------------------------------------------------------------------
(* Every step preserves it, conjunct by conjunct *)

(* What is written to Redis is an entry. *)
LEMMA EntrySet ==
    ASSUME TypeOK, NEW x \in Stored, CacheSet(x)
    PROVE  cache' \in Entry \cup {None}
  BY DEF TypeOK, CacheSet, Entry

(* The types of the variables. *)
LEMMA TypeStep == IInv /\ [Next]_vars => TypeOK'
<1> SUFFICES ASSUME IInv, [Next]_vars PROVE TypeOK'
  OBVIOUS
<1> USE DEF TypeOK
<1>1. TypeOK
  BY DEF IInv
<1>2. ASSUME NEW r \in Requests, WarmCache(r) \/ CacheResult(r) PROVE TypeOK'
  <2>1. row[r] \in Stored
    BY <1>2 DEF IInv, Backed, WarmCache, CacheResult
  <2>2. cache' \in Entry \cup {None}
    BY <1>1, <1>2, <2>1, EntrySet DEF WarmCache, CacheResult
  <2>3. QED
    BY <1>1, <1>2, <2>2 DEF WarmCache, CacheResult, Goto, Finish, database
<1>3. ASSUME NEW r \in Requests, CommitCheck(r) PROVE TypeOK'
  BY <1>1, <1>3 DEF CommitCheck, Goto, Stored
<1>4. ASSUME NEW r \in Requests, NEW f \in BOOLEAN, Start(r, f) PROVE TypeOK'
  BY <1>1, <1>4 DEF Start, Goto, database
<1>5. ASSUME NEW r \in Requests, LatestFresh(r) \/ SameHash(r) \/ InsertRow(r) PROVE TypeOK'
  <2>1. PICK x \in Stored : row' = [row EXCEPT ![r] = x]
    BY <1>1, <1>5 DEF LatestFresh, SameHash, InsertRow, Stored
  <2>2. QED
    BY <1>1, <1>5, <2>1 DEF LatestFresh, SameHash, InsertRow, Goto, database
<1>6. ASSUME NEW r \in Requests,
             \/ CacheHit(r) \/ CacheMiss(r) \/ LatestStale(r) \/ RecordHit(r) \/ CommitHit(r)
             \/ RecordCheck(r) \/ Fail(r)
      PROVE  TypeOK'
  BY <1>1, <1>6
  DEF CacheHit, CacheMiss, LatestStale, RecordHit, CommitHit, RecordCheck, Fail, Goto, Finish, database
<1>7. CASE Delete
  BY <1>1, <1>7 DEF Delete, Replacement
<1>8. CASE Apply
  BY <1>1, <1>8 DEF Apply, Staying, Replacement
<1>9. CASE MakeBackup \/ RestoreFails \/ Tick \/ \E d \in Ttls : SetTtlDays(d)
  BY <1>1, <1>9 DEF MakeBackup, RestoreFails, Tick, SetTtlDays, database
<1>10. CASE UNCHANGED vars
  BY <1>1, <1>10 DEF vars, database
<1>11. QED
  BY <1>2, <1>3, <1>4, <1>5, <1>6, <1>7, <1>8, <1>9, <1>10 DEF Next, Advance

(* Time passes only while every request has some left. *)
LEMMA TimedStep == IInv /\ [Next]_vars => Timed'
<1> SUFFICES ASSUME IInv, [Next]_vars PROVE Timed'
  OBVIOUS
<1> USE DEF IInv, TypeOK, Timed, InFlight
<1>1. ASSUME NEW r \in Requests, NEW f \in BOOLEAN, Start(r, f) PROVE Timed'
  BY <1>1 DEF Start, Goto, database
<1>2. ASSUME NEW r \in Requests, Advance(r) \/ Fail(r) PROVE Timed'
  BY <1>2
  DEF Advance, CacheHit, CacheMiss, LatestFresh, LatestStale, RecordHit, WarmCache, CommitHit,
      SameHash, InsertRow, RecordCheck, CommitCheck, CacheResult, Fail, Goto, Finish, database
<1>3. CASE Tick
  BY <1>3 DEF Tick, database
<1>4. CASE Apply
  BY <1>4 DEF Apply
<1>5. CASE MakeBackup \/ Delete \/ RestoreFails \/ (\E d \in Ttls : SetTtlDays(d)) \/ UNCHANGED vars
  BY <1>5 DEF MakeBackup, Delete, RestoreFails, SetTtlDays, vars, database
<1>6. QED
  BY <1>1, <1>2, <1>3, <1>4, <1>5 DEF Next

(* Nobody commits another's own row, and an archive holds committed rows. *)
LEMMA UnfoundStep == IInv /\ [Next]_vars => (\A q \in Requests : Unfound(q))'
<1> SUFFICES ASSUME IInv, [Next]_vars, NEW q \in Requests PROVE Unfound(q)'
  OBVIOUS
<1> USE DEF IInv, TypeOK, Unfound, Found
<1>1. ASSUME NEW r \in Requests, CommitCheck(r) PROVE Unfound(q)'
  BY <1>1 DEF CommitCheck, Goto
<1>2. ASSUME NEW r \in Requests, NEW f \in BOOLEAN, Start(r, f) PROVE Unfound(q)'
  BY <1>2 DEF Start, Goto, database
<1>3. ASSUME NEW r \in Requests, Advance(r) \/ Fail(r), ~CommitCheck(r) PROVE Unfound(q)'
  BY <1>3
  DEF Advance, CacheHit, CacheMiss, LatestFresh, LatestStale, RecordHit, WarmCache, CommitHit,
      SameHash, InsertRow, RecordCheck, CacheResult, Fail, Goto, Finish, database, InFlight
<1>4. CASE MakeBackup \/ Delete \/ Apply \/ RestoreFails
  BY <1>4 DEF MakeBackup, Delete, Apply, Staying, RestoreFails, Replacement
<1>5. CASE Tick \/ (\E d \in Ttls : SetTtlDays(d)) \/ UNCHANGED vars
  BY <1>5 DEF Tick, SetTtlDays, vars, database
<1>6. QED
  BY <1>1, <1>2, <1>3, <1>4, <1>5 DEF Next

(* What a request has in hand was read, or will be committed by itself. *)
LEMMA BackedStep == IInv /\ [Next]_vars => (\A q \in Requests : Backed(q))'
<1> SUFFICES ASSUME IInv, [Next]_vars, NEW q \in Requests PROVE Backed(q)'
  OBVIOUS
<1> USE DEF IInv, TypeOK, Backed, Stored
<1>1. ASSUME NEW r \in Requests, NEW f \in BOOLEAN, Start(r, f) PROVE Backed(q)'
  BY <1>1 DEF Start, Goto, database
<1>2. ASSUME NEW r \in Requests,
             \/ CacheHit(r) \/ CacheMiss(r) \/ LatestFresh(r) \/ LatestStale(r) \/ RecordHit(r)
             \/ WarmCache(r) \/ CommitHit(r) \/ Fail(r)
      PROVE  Backed(q)'
  BY <1>2
  DEF CacheHit, CacheMiss, LatestFresh, LatestStale, RecordHit, WarmCache, CommitHit, Fail, Goto,
      Finish, database
<1>3. ASSUME NEW r \in Requests,
             SameHash(r) \/ InsertRow(r) \/ RecordCheck(r) \/ CommitCheck(r) \/ CacheResult(r)
      PROVE  Backed(q)'
  <2>1. CASE SameHash(r)
    BY <2>1 DEF SameHash, Goto, database
  <2>2. CASE InsertRow(r)
    BY <2>2 DEF InsertRow, Goto, database
  <2>3. CASE RecordCheck(r)
    BY <2>3 DEF RecordCheck, Goto, database
  <2>4. CASE CommitCheck(r)
    BY <2>4 DEF CommitCheck, Goto
  <2>5. CASE CacheResult(r)
    BY <2>5 DEF CacheResult, Goto, Finish, database
  <2>6. QED
    BY <1>3, <2>1, <2>2, <2>3, <2>4, <2>5
<1>4. CASE Apply
  BY <1>4 DEF Apply, Staying, Timed, InFlight
<1>5. CASE \/ MakeBackup \/ Delete \/ RestoreFails \/ Tick
           \/ (\E d \in Ttls : SetTtlDays(d)) \/ UNCHANGED vars
  BY <1>5 DEF MakeBackup, Delete, RestoreFails, Tick, SetTtlDays, vars, database
<1>6. QED
  BY <1>1, <1>2, <1>3, <1>4, <1>5 DEF Next, Advance

(* A restore does not take away what the event of a database hit refers to. *)
LEMMA HeldStep == IInv /\ [Next]_vars => (\A q \in Requests : Held(q))'
<1> SUFFICES ASSUME IInv, [Next]_vars, NEW q \in Requests PROVE Held(q)'
  OBVIOUS
<1> USE DEF IInv, TypeOK, Held
<1>1. ASSUME NEW r \in Requests, NEW f \in BOOLEAN, Start(r, f) PROVE Held(q)'
  BY <1>1 DEF Start, Goto, database, Ids, Staying
<1>2. ASSUME NEW r \in Requests, LatestFresh(r) PROVE Held(q)'
  BY <1>2 DEF LatestFresh, Unfound, Found, Goto, database, Ids, Staying
<1>3. ASSUME NEW r \in Requests, RecordHit(r) PROVE Held(q)'
  <2>1. row[r] \in Stored /\ row[r] # r
    BY <1>3 DEF RecordHit, Backed
  <2>2. backend # "sqlite" => Id[row[r]] \in Ids(Staying)
    BY <1>3, <2>1 DEF RecordHit, MayRefer
  <2>3. QED
    BY <1>3, <2>1, <2>2 DEF RecordHit, Goto, database, Ids, Staying
<1>4. ASSUME NEW r \in Requests, CommitCheck(r) PROVE Held(q)'
  <2>1. Ids(Staying) \subseteq Ids(Staying)'
    BY <1>4 DEF CommitCheck, Ids, Staying
  <2>2. QED
    BY <1>4, <2>1 DEF CommitCheck, Goto
<1>5. ASSUME NEW r \in Requests,
             (Advance(r) \/ Fail(r)) /\ ~LatestFresh(r) /\ ~RecordHit(r) /\ ~CommitCheck(r)
      PROVE  Held(q)'
  BY <1>5
  DEF Advance, CacheHit, CacheMiss, LatestStale, WarmCache, CommitHit, SameHash, InsertRow,
      RecordCheck, CacheResult, Fail, Goto, Finish, database, Ids, Staying
<1>6. CASE Delete
  BY <1>6 DEF Delete, MayDelete, Uncommitted
<1>7. CASE Apply \/ RestoreFails
  <2>1. Ids(Staying) \subseteq Ids(Staying)'
    BY <1>7 DEF Apply, RestoreFails, Ids, Staying
  <2>2. QED
    BY <1>7, <2>1 DEF Apply, RestoreFails
<1>8. CASE MakeBackup \/ Tick \/ (\E d \in Ttls : SetTtlDays(d)) \/ UNCHANGED vars
  BY <1>8 DEF MakeBackup, Tick, SetTtlDays, vars, database, Ids, Staying
<1>9. QED
  BY <1>1, <1>2, <1>3, <1>4, <1>5, <1>6, <1>7, <1>8 DEF Next

(* What is set expires a TTL later; without its row, the restore was at most *)
(* as long ago as the request may last.                                      *)
LEMMA SetExpires ==
    ASSUME IInv, NEW r \in Requests, pc[r] \in {"hitCache", "set"}, CacheSet(row[r]),
           UNCHANGED <<rows, restored, now>>
    PROVE  Expires'
<1> USE DEF IInv, TypeOK
<1>1. CASE UNCHANGED cache
  BY <1>1 DEF Expires
<1>2. CASE cache' = [row |-> row[r], expires |-> now + ttl]
  <2>1. ttl \in Ttls /\ cache'.expires = now + ttl /\ cache'.row = row[r] /\ now \in Nat /\ ttl \in Nat
    BY <1>2
  <2>2. row[r] \notin rows => restored # None /\ now + ttl <= restored + ttl + MaxLag
    <3>1. now <= began[r] + MaxLag /\ began[r] \in Nat /\ (restored # None => restored \in Nat)
      BY DEF Timed, InFlight
    <3>2. row[r] \notin rows => restored # None /\ began[r] <= restored
      BY DEF Backed
    <3>3. QED
      BY <2>1, <3>1, <3>2
  <2>3. QED
    BY <2>1, <2>2 DEF Expires
<1>3. QED
  BY <1>1, <1>2 DEF CacheSet

(* An entry outlives its row by no more than was left of it. *)
LEMMA ExpiresStep == IInv /\ [Next]_vars => Expires'
<1> SUFFICES ASSUME IInv, [Next]_vars PROVE Expires'
  OBVIOUS
<1> USE DEF IInv, TypeOK
<1>1. ASSUME NEW r \in Requests, WarmCache(r) \/ CacheResult(r) PROVE Expires'
  <2>1. pc[r] \in {"hitCache", "set"} /\ CacheSet(row[r]) /\ UNCHANGED <<rows, restored, now>>
    BY <1>1 DEF WarmCache, CacheResult, database
  <2>2. QED
    BY <2>1, SetExpires
<1>2. CASE Apply
  <2>1. UNCHANGED <<cache, now>> /\ restored' = now /\ now \in Nat
    BY <1>2 DEF Apply
  <2>2. cache # None => \E t \in Ttls : cache.expires <= now + t + MaxLag
    <3>1. \A t \in Ttls : cache # None => cache.expires \in Nat /\ t \in Nat
      BY DEF Entry
    <3>2. QED
      BY <2>1, <3>1 DEF Expires
  <2>3. restored' # None
    BY <2>1
  <2>4. QED
    BY <2>1, <2>2, <2>3 DEF Expires
<1>3. CASE Tick
  <2>1. UNCHANGED <<cache, rows, restored>> /\ now' = now + 1 /\ now \in Nat
    BY <1>3 DEF Tick, database
  <2>2. \A t \in Ttls : cache # None /\ cache.expires <= now + t => cache.expires <= now' + t
    BY <2>1 DEF Entry
  <2>3. QED
    BY <2>1, <2>2 DEF Expires
<1>4. CASE UNCHANGED <<cache, now, restored>> /\ rows \subseteq rows'
  BY <1>4 DEF Expires
<1>5. QED
  BY <1>1, <1>2, <1>3, <1>4
  DEF Next, Start, Advance, CacheHit, CacheMiss, LatestFresh, LatestStale, RecordHit, CommitHit,
      SameHash, InsertRow, RecordCheck, CommitCheck, Fail, MakeBackup, Delete, RestoreFails,
      SetTtlDays, vars, database

-----------------------------------------------------------------------------
(* What follows *)

(* The initial state satisfies the invariant. *)
LEMMA InitInv == Init => IInv
<1> SUFFICES ASSUME Init PROVE IInv
  OBVIOUS
<1>1. TypeOK
  BY DEF Init, TypeOK, Stored
<1>2. Timed /\ Expires
  BY DEF Init, Timed, Expires, InFlight
<1>3. \A r \in Requests : Backed(r) /\ Unfound(r) /\ Held(r)
  BY DEF Init, Backed, Unfound, Found, Held
<1>4. QED
  BY <1>1, <1>2, <1>3 DEF IInv

(* The invariant holds in every reachable state. *)
THEOREM Invariant == Spec => []IInv
<1>1. IInv /\ [Next]_vars => IInv'
  BY TypeStep, TimedStep, BackedStep, UnfoundStep, HeldStep, ExpiresStep DEF IInv
<1>2. QED
  BY InitInv, <1>1, PTL DEF Spec

(* The variables keep their types. *)
THEOREM TypeCorrect == Spec => []TypeOK
<1>1. IInv => TypeOK
  BY DEF IInv
<1>2. QED
  BY <1>1, Invariant, PTL

(* An answer whose row a restore has replaced is gone a TTL after it, and    *)
(* the time of one check.                                                    *)
THEOREM OrphansAreGone == Spec => []OrphansExpire
<1>1. IInv => OrphansExpire
  BY DEF IInv, Expires, OrphansExpire, Hit
<1>2. QED
  BY <1>1, Invariant, PTL

(* With foreign keys, a database hit caches a row that is in the database,   *)
(* or one whose id another row has, when one of the two came with an archive *)
(* from elsewhere: two checks are never given the same id.                   *)
THEOREM HitsHoldTheirRow == Spec => HitsAreStored
<1> DEFINE Stays ==
      \A r \in Requests : backend # "sqlite" /\ pc[r] = "hitCache" /\ pc'[r] = "hitCommit" =>
          \/ row[r] \in rows
          \/ \E x \in rows : Id[x] = Id[row[r]] /\ {x, row[r]} \cap Elsewhere # {}
<1>1. IInv => [Stays]_vars
  <2> SUFFICES ASSUME IInv, NEW r \in Requests, backend # "sqlite", pc[r] = "hitCache"
               PROVE  \/ row[r] \in rows
                      \/ \E x \in rows : Id[x] = Id[row[r]] /\ {x, row[r]} \cap Elsewhere # {}
    OBVIOUS
  <2>1. PICK x \in rows : Id[x] = Id[row[r]]
    BY DEF IInv, Held, Ids, Staying
  <2>2. x \in Stored /\ row[r] \in Stored
    BY DEF IInv, TypeOK, Held
  <2>3. CASE x \in Requests /\ row[r] \in Requests
    BY <2>1, <2>3
  <2>4. CASE x \in Elsewhere \/ row[r] \in Elsewhere
    BY <2>1, <2>4
  <2>5. QED
    BY <2>2, <2>3, <2>4 DEF Stored
<1>2. QED
  BY <1>1, Invariant, PTL DEF HitsAreStored
=============================================================================
