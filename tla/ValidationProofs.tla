-------------------------- MODULE ValidationProofs --------------------------
(***************************************************************************)
(* What holds of Validation for every set of requests, addresses, outcomes *)
(* and TTLs, on each backend and whatever fails.                           *)
(***************************************************************************)
EXTENDS Validation, FiniteSetTheorems, TLAPS

-----------------------------------------------------------------------------
(* The inductive invariant *)

(* What a request has in hand at each point of validate(): the row it holds *)
(* is committed, or is the one it is inserting or has inserted.             *)
InHand(r) ==
    /\ pc[r] # "idle" => input[r] \in Inputs
    /\ pc[r] \in {"compare", "insert", "event", "commit", "set"} => raw[r] \in Result
    /\ pc[r] \in {"hitEvent", "hitCache", "hitCommit", "insert", "event", "commit", "set"} =>
          row[r] \in Row
    /\ pc[r] \in {"insert", "event", "commit", "set"} => Hash(row[r].result) = Hash(raw[r])
    /\ pc[r] \in {"idle", "done"} => row[r] = None
    /\ row[r] # None =>
          /\ row[r].email = Email(r)
          /\ row[r] \in rows \/ "row" \in dirty[r] \/ pc[r] = "insert"

(* When its transaction has written what. *)
Transaction(r) ==
    /\ "row" \in dirty[r] => pc[r] \in {"event", "commit"}
    /\ "event" \in dirty[r] => pc[r] \in {"hitCache", "hitCommit", "commit"}
    /\ pc[r] \in {"hitCache", "hitCommit", "commit"} => "event" \in dirty[r]

(* No event of a check is visible before its commit. *)
Unrecorded(r) ==
    pc[r] \notin {"set", "done"} => \A ev \in events : ev.request # r

(* Ids in use, committed or not, are different and below nextId. *)
IdsBelowNext ==
    /\ \A x \in rows : x.id < nextId
    /\ \A r \in Requests : "row" \in dirty[r] =>
          row[r].id < nextId /\ \A x \in rows : x.id # row[r].id
    /\ \A q, r \in Requests :
          q # r /\ "row" \in dirty[q] /\ "row" \in dirty[r] => row[q].id # row[r].id

(* On SQLite there is one writer, and its row has the last id given out, so  *)
(* giving that id back does not free one that is in use.                     *)
OneWriter ==
    Backend = "sqlite" =>
        /\ \A q, r \in Requests : dirty[q] # {} /\ dirty[r] # {} => q = r
        /\ \A r \in Requests : "row" \in dirty[r] =>
              nextId = row[r].id + 1 /\ \A x \in rows : x.id < row[r].id

Requested == \A r \in Requests : InHand(r) /\ Transaction(r) /\ Unrecorded(r)

IInv ==
    /\ Types
    /\ Requested
    /\ IdsBelowNext
    /\ OneWriter
    /\ RowIdsUnique
    /\ EventsReferToRows
    /\ EveryRowWasChecked
    /\ CacheBackedByRow

-----------------------------------------------------------------------------
(* Every step preserves it, conjunct by conjunct *)

USE NormaliseAssumption, MalformedAssumption, BackendAssumption, TtlAssumption,
    BoundAssumption, NoneAssumption

(* What is answered of a result is an answer, or nothing when it is refused. *)
LEMMA AnswerTypes ==
    ASSUME NEW r \in Requests, input[r] \in Inputs, NEW source \in {"cache", "db", "provider"},
           NEW result \in Result, Respond(r, source, result)
    PROVE  \E a \in Answer \cup {None} : Finish(r, a)
<1>1. [result EXCEPT !.email_raw = input[r]] \in Result
  BY DEF Result
<1>2. QED
  BY <1>1 DEF Respond, Answer

(* The types of the variables. *)
LEMMA TypeStep == IInv /\ [Next]_vars => Types'
<1> SUFFICES ASSUME IInv, [Next]_vars PROVE Types'
  OBVIOUS
<1>1. ASSUME NEW r \in Requests, NEW i \in Inputs, NEW f \in BOOLEAN, Start(r, i, f)
     PROVE  Types'
  BY <1>1
    DEF IInv, Requested, Types, InHand, Transaction, Email, Result, Row, Event, Entry,
        Answer, Start, Goto, store
<1>2. ASSUME NEW r \in Requests, CacheHit(r) PROVE Types'
  <2>1. cache[Email(r)] \in Entry /\ cache[Email(r)].result \in Result /\ input[r] \in Inputs
    BY <1>2 DEF IInv, Requested, Types, InHand, CacheHit, Hit, Email, Entry
  <2>2. PICK a \in Answer \cup {None} : Finish(r, a)
    BY <2>1, <1>2, AnswerTypes DEF CacheHit
  <2>3. QED
    BY <2>2, <1>2 DEF IInv, Types, CacheHit, Finish, Goto, store
<1>3. ASSUME NEW r \in Requests, CacheMiss(r) PROVE Types'
  BY <1>3
    DEF IInv, Requested, Types, InHand, Transaction, Email, Result, Row, Event, Entry,
        Answer, CacheMiss, Goto, store
<1>4. ASSUME NEW r \in Requests, LatestFresh(r) PROVE Types'
  BY <1>4
    DEF IInv, Requested, Types, InHand, Transaction, Email, Result, Row, Event, Entry,
        Answer, LatestFresh, Goto, store
<1>5. ASSUME NEW r \in Requests, LatestStale(r) PROVE Types'
  BY <1>5
    DEF IInv, Requested, Types, InHand, Transaction, Email, Result, Row, Event, Entry,
        Answer, LatestStale, Goto, store
<1>6. ASSUME NEW r \in Requests, RecordHit(r) PROVE Types'
  BY <1>6
    DEF IInv, Requested, Types, InHand, Transaction, Email, Result, Row, Event, Entry,
        Answer, RecordHit, Goto, store
<1>7. ASSUME NEW r \in Requests, WarmCache(r) PROVE Types'
  <2>1. row[r].result \in Result
    BY <1>7 DEF IInv, Requested, InHand, WarmCache, Row
  <2>2. cache' \in [Emails -> Entry \cup {None}]
    <3>1. [result |-> row[r].result, expires |-> now + ttl] \in Entry
      BY <2>1 DEF IInv, Types, Entry
    <3>2. QED
      BY <3>1, <1>7 DEF IInv, Types, WarmCache, CacheSet
  <2>3. CASE row[r].result.outcome \in Malformed
    BY <2>2, <2>3, <1>7 DEF IInv, Types, WarmCache, Finish, Goto, store
  <2>4. CASE row[r].result.outcome \notin Malformed
    BY <2>2, <2>4, <1>7 DEF IInv, Types, WarmCache, Goto, store
  <2>5. QED
    BY <2>3, <2>4
<1>8. ASSUME NEW r \in Requests, CommitHit(r) PROVE Types'
  <2>1. row[r].result \in Result /\ row[r] \in Row /\ input[r] \in Inputs
    BY <1>8 DEF IInv, Requested, InHand, CommitHit, Row
  <2>2. PICK a \in Answer \cup {None} : Finish(r, a)
    BY <2>1, <1>8, AnswerTypes DEF CommitHit
  <2>3. rows' \subseteq Row /\ events' \subseteq Event
    BY <2>1, <1>8 DEF IInv, Types, Email, Row, Event, CommitHit, Commit, EventOf
  <2>4. QED
    BY <2>2, <2>3, <1>8 DEF IInv, Types, CommitHit, Finish, Goto
<1>9. ASSUME NEW r \in Requests, ProviderAnswers(r) PROVE Types'
  BY <1>9
    DEF IInv, Requested, Types, InHand, Transaction, Email, Result, Row, Event, Entry,
        Answer, ProviderAnswers, Goto, store
<1>10. ASSUME NEW r \in Requests, ProviderFails(r) PROVE Types'
  BY <1>10
    DEF IInv, Requested, Types, InHand, Transaction, Email, Result, Row, Event, Entry,
        Answer, ProviderFails, Goto, store, Finish
<1>11. ASSUME NEW r \in Requests, SameHash(r) PROVE Types'
  BY <1>11
    DEF IInv, Requested, Types, InHand, Transaction, Email, Result, Row, Event, Entry,
        Answer, SameHash, Goto, store
<1>12. ASSUME NEW r \in Requests, Changed(r) PROVE Types'
  BY <1>12
    DEF IInv, Requested, Types, InHand, Transaction, Email, Result, Row, Event, Entry,
        Answer, Changed, Unsaved, Goto, store
<1>13. ASSUME NEW r \in Requests, InsertRow(r) PROVE Types'
  BY <1>13
    DEF IInv, Requested, Types, InHand, Transaction, Email, Result, Row, Event, Entry,
        Answer, InsertRow, Goto, store
<1>14. ASSUME NEW r \in Requests, RecordCheck(r) PROVE Types'
  BY <1>14
    DEF IInv, Requested, Types, InHand, Transaction, Email, Result, Row, Event, Entry,
        Answer, RecordCheck, Goto, store
<1>15. ASSUME NEW r \in Requests, CommitCheck(r) PROVE Types'
  BY <1>15
    DEF IInv, Requested, Types, InHand, Transaction, Email, Result, Row, Event, Entry,
        Answer, CommitCheck, Goto, store, Commit, EventOf
<1>16. ASSUME NEW r \in Requests, CacheResult(r) PROVE Types'
  <2>1. raw[r] \in Result /\ input[r] \in Inputs
    BY <1>16 DEF IInv, Requested, InHand, CacheResult
  <2>2. PICK a \in Answer \cup {None} : Finish(r, a)
    BY <2>1, <1>16, AnswerTypes DEF CacheResult
  <2>3. cache' \in [Emails -> Entry \cup {None}]
    <3>1. [result |-> raw[r], expires |-> now + ttl] \in Entry
      BY <2>1 DEF IInv, Types, Entry
    <3>2. QED
      BY <3>1, <1>16 DEF IInv, Types, CacheResult, CacheSet
  <2>4. QED
    BY <2>2, <2>3, <1>16 DEF IInv, Types, CacheResult, Finish, Goto, store
<1>17. ASSUME NEW r \in Requests, StatementFails(r) PROVE Types'
  <2>1. nextId' \in Nat
    BY <1>17 DEF IInv, Requested, Types, InHand, Transaction, OneWriter, StatementFails,
             ReturnIds, Row
  <2>2. QED
    BY <2>1, <1>17 DEF IInv, Types, StatementFails, Finish, Goto
<1>18. CASE Crash
  <2>1. nextId' \in Nat
    <3>1. ASSUME NEW r \in Requests, "row" \in dirty[r], Backend = "sqlite"
          PROVE  nextId - 1 \in Nat
      BY <3>1 DEF IInv, Requested, Types, InHand, Transaction, OneWriter, Row
    <3>2. QED
      BY <3>1, <1>18 DEF IInv, Types, Crash, ReturnIds
  <2>2. QED
    BY <2>1, <1>18 DEF IInv, Types, Crash
<1>19. CASE Tick
  BY <1>19
    DEF IInv, Requested, Types, InHand, Transaction, Email, Result, Row, Event, Entry,
        Answer, Tick, store, locals
<1>20. ASSUME NEW d \in Ttls, SetTtlDays(d) PROVE Types'
  BY <1>20
    DEF IInv, Requested, Types, InHand, Transaction, Email, Result, Row, Event, Entry,
        Answer, SetTtlDays, store, locals
<1>21. CASE UNCHANGED vars
  BY <1>21
    DEF IInv, Requested, Types, InHand, Transaction, Email, Result, Row, Event, Entry,
        Answer, vars, store, locals
<1>22. ASSUME NEW r \in Requests, CommitFails(r) PROVE Types'
  <2>1. nextId' \in Nat
    BY <1>22 DEF IInv, Requested, Types, InHand, Transaction, OneWriter, CommitFails,
             ReturnIds, Row
  <2>2. rows' \subseteq Row /\ events' \subseteq Event
    BY <1>22 DEF IInv, Requested, Types, InHand, Email, Row, Event, CommitFails, Commit, EventOf
  <2>3. QED
    BY <2>1, <2>2, <1>22 DEF IInv, Types, CommitFails, Finish, Goto
<1>23. QED
  BY <1>1, <1>2, <1>3, <1>4, <1>5, <1>6, <1>7, <1>8, <1>9, <1>10, <1>11, <1>12, <1>13, <1>14,
      <1>15, <1>16, <1>17, <1>18, <1>19, <1>20, <1>21, <1>22
    DEF Next, Advance

(* What each request has in hand. *)
LEMMA InHandStep == IInv /\ [Next]_vars => (\A q \in Requests : InHand(q))'
<1> SUFFICES ASSUME IInv, [Next]_vars PROVE (\A q \in Requests : InHand(q))'
  OBVIOUS
<1>1. ASSUME NEW r \in Requests, NEW i \in Inputs, NEW f \in BOOLEAN, Start(r, i, f)
     PROVE  (\A q \in Requests : InHand(q))'
  BY <1>1
    DEF IInv, Requested, Types, InHand, Transaction, Email, Hash, Result, Row, RowsOf,
        IsLatest, Current, RereadsSnapshot, Start, Goto, store
<1>2. ASSUME NEW r \in Requests, CacheHit(r) PROVE (\A q \in Requests : InHand(q))'
  BY <1>2
    DEF IInv, Requested, Types, InHand, Transaction, Email, Hash, Result, Row, RowsOf,
        IsLatest, Current, RereadsSnapshot, CacheHit, Goto, store, Respond, Finish
<1>3. ASSUME NEW r \in Requests, CacheMiss(r) PROVE (\A q \in Requests : InHand(q))'
  BY <1>3
    DEF IInv, Requested, Types, InHand, Transaction, Email, Hash, Result, Row, RowsOf,
        IsLatest, Current, RereadsSnapshot, CacheMiss, Goto, store
<1>4. ASSUME NEW r \in Requests, LatestFresh(r) PROVE (\A q \in Requests : InHand(q))'
  BY <1>4
    DEF IInv, Requested, Types, InHand, Transaction, Email, Hash, Result, Row, RowsOf,
        IsLatest, Current, RereadsSnapshot, LatestFresh, Goto, store
<1>5. ASSUME NEW r \in Requests, LatestStale(r) PROVE (\A q \in Requests : InHand(q))'
  BY <1>5
    DEF IInv, Requested, Types, InHand, Transaction, Email, Hash, Result, Row, RowsOf,
        IsLatest, Current, RereadsSnapshot, LatestStale, Goto, store
<1>6. ASSUME NEW r \in Requests, RecordHit(r) PROVE (\A q \in Requests : InHand(q))'
  BY <1>6
    DEF IInv, Requested, Types, InHand, Transaction, Email, Hash, Result, Row, RowsOf,
        IsLatest, Current, RereadsSnapshot, RecordHit, Goto, store
<1>7. ASSUME NEW r \in Requests, WarmCache(r) PROVE (\A q \in Requests : InHand(q))'
  BY <1>7
    DEF IInv, Requested, Types, InHand, Transaction, Email, Hash, Result, Row, RowsOf,
        IsLatest, Current, RereadsSnapshot, WarmCache, Goto, store, Finish, CacheSet
<1>8. ASSUME NEW r \in Requests, CommitHit(r) PROVE (\A q \in Requests : InHand(q))'
  BY <1>8
    DEF IInv, Requested, Types, InHand, Transaction, Email, Hash, Result, Row, RowsOf,
        IsLatest, Current, RereadsSnapshot, CommitHit, Goto, store, Commit, EventOf, Respond,
        Finish
<1>9. ASSUME NEW r \in Requests, ProviderAnswers(r) PROVE (\A q \in Requests : InHand(q))'
  BY <1>9
    DEF IInv, Requested, Types, InHand, Transaction, Email, Hash, Result, Row, RowsOf,
        IsLatest, Current, RereadsSnapshot, ProviderAnswers, Goto, store
<1>10. ASSUME NEW r \in Requests, ProviderFails(r) PROVE (\A q \in Requests : InHand(q))'
  BY <1>10
    DEF IInv, Requested, Types, InHand, Transaction, Email, Hash, Result, Row, RowsOf,
        IsLatest, Current, RereadsSnapshot, ProviderFails, Goto, store, Finish
<1>11. ASSUME NEW r \in Requests, SameHash(r) PROVE (\A q \in Requests : InHand(q))'
  BY <1>11
    DEF IInv, Requested, Types, InHand, Transaction, Email, Hash, Result, Row, RowsOf,
        IsLatest, Current, RereadsSnapshot, SameHash, Goto, store
<1>12. ASSUME NEW r \in Requests, Changed(r) PROVE (\A q \in Requests : InHand(q))'
  BY <1>12
    DEF IInv, Requested, Types, InHand, Transaction, Email, Hash, Result, Row, RowsOf,
        IsLatest, Current, RereadsSnapshot, Changed, Unsaved, Goto, store
<1>13. ASSUME NEW r \in Requests, InsertRow(r) PROVE (\A q \in Requests : InHand(q))'
  BY <1>13
    DEF IInv, Requested, Types, InHand, Transaction, Email, Hash, Result, Row, RowsOf,
        IsLatest, Current, RereadsSnapshot, InsertRow, Goto, store
<1>14. ASSUME NEW r \in Requests, RecordCheck(r) PROVE (\A q \in Requests : InHand(q))'
  BY <1>14
    DEF IInv, Requested, Types, InHand, Transaction, Email, Hash, Result, Row, RowsOf,
        IsLatest, Current, RereadsSnapshot, RecordCheck, Goto, store
<1>15. ASSUME NEW r \in Requests, CommitCheck(r) PROVE (\A q \in Requests : InHand(q))'
  BY <1>15
    DEF IInv, Requested, Types, InHand, Transaction, Email, Hash, Result, Row, RowsOf,
        IsLatest, Current, RereadsSnapshot, CommitCheck, Goto, store, Commit, EventOf
<1>16. ASSUME NEW r \in Requests, CacheResult(r) PROVE (\A q \in Requests : InHand(q))'
  BY <1>16
    DEF IInv, Requested, Types, InHand, Transaction, Email, Hash, Result, Row, RowsOf,
        IsLatest, Current, RereadsSnapshot, CacheResult, Goto, store, CacheSet, Respond,
        Finish
<1>17. ASSUME NEW r \in Requests, StatementFails(r) PROVE (\A q \in Requests : InHand(q))'
  BY <1>17
    DEF IInv, Requested, Types, InHand, Transaction, Email, Hash, Result, Row, RowsOf,
        IsLatest, Current, RereadsSnapshot, StatementFails, Goto, store, Finish, ReturnIds
<1>18. CASE Crash
  BY <1>18
    DEF IInv, Requested, Types, InHand, Transaction, Email, Hash, Result, Row, RowsOf,
        IsLatest, Current, RereadsSnapshot, Crash, ReturnIds, InFlight
<1>19. CASE Tick
  BY <1>19
    DEF IInv, Requested, Types, InHand, Transaction, Email, Hash, Result, Row, RowsOf,
        IsLatest, Current, RereadsSnapshot, Tick, store, locals
<1>20. ASSUME NEW d \in Ttls, SetTtlDays(d) PROVE (\A q \in Requests : InHand(q))'
  BY <1>20
    DEF IInv, Requested, Types, InHand, Transaction, Email, Hash, Result, Row, RowsOf,
        IsLatest, Current, RereadsSnapshot, SetTtlDays, store, locals
<1>21. CASE UNCHANGED vars
  BY <1>21
    DEF IInv, Requested, Types, InHand, Transaction, Email, Hash, Result, Row, RowsOf,
        IsLatest, Current, RereadsSnapshot, vars, store, locals
<1>22. ASSUME NEW r \in Requests, CommitFails(r) PROVE (\A q \in Requests : InHand(q))'
  BY <1>22
    DEF IInv, Requested, Types, InHand, Transaction, Email, Hash, Result, Row, RowsOf,
        CommitFails, Goto, Finish, Commit
<1>23. QED
  BY <1>1, <1>2, <1>3, <1>4, <1>5, <1>6, <1>7, <1>8, <1>9, <1>10, <1>11, <1>12, <1>13, <1>14,
      <1>15, <1>16, <1>17, <1>18, <1>19, <1>20, <1>21, <1>22
    DEF Next, Advance

(* What each transaction has written. *)
LEMMA TransactionStep == IInv /\ [Next]_vars => (\A q \in Requests : Transaction(q))'
<1> SUFFICES ASSUME IInv, [Next]_vars PROVE (\A q \in Requests : Transaction(q))'
  OBVIOUS
<1>1. ASSUME NEW r \in Requests, NEW i \in Inputs, NEW f \in BOOLEAN, Start(r, i, f)
     PROVE  (\A q \in Requests : Transaction(q))'
  BY <1>1 DEF IInv, Requested, Types, Transaction, Start, Goto, store
<1>2. ASSUME NEW r \in Requests, CacheHit(r) PROVE (\A q \in Requests : Transaction(q))'
  BY <1>2 DEF IInv, Requested, Types, Transaction, CacheHit, Goto, store, Respond, Finish
<1>3. ASSUME NEW r \in Requests, CacheMiss(r) PROVE (\A q \in Requests : Transaction(q))'
  BY <1>3 DEF IInv, Requested, Types, Transaction, CacheMiss, Goto, store
<1>4. ASSUME NEW r \in Requests, LatestFresh(r) PROVE (\A q \in Requests : Transaction(q))'
  BY <1>4 DEF IInv, Requested, Types, Transaction, LatestFresh, Goto, store
<1>5. ASSUME NEW r \in Requests, LatestStale(r) PROVE (\A q \in Requests : Transaction(q))'
  BY <1>5 DEF IInv, Requested, Types, Transaction, LatestStale, Goto, store
<1>6. ASSUME NEW r \in Requests, RecordHit(r) PROVE (\A q \in Requests : Transaction(q))'
  BY <1>6 DEF IInv, Requested, Types, Transaction, RecordHit, Goto, store
<1>7. ASSUME NEW r \in Requests, WarmCache(r) PROVE (\A q \in Requests : Transaction(q))'
  <2>1. CASE row[r].result.outcome \in Malformed
    BY <2>1, <1>7 DEF IInv, Requested, Types, Transaction, WarmCache, Finish, Goto
  <2>2. CASE row[r].result.outcome \notin Malformed
    BY <2>2, <1>7 DEF IInv, Requested, Types, Transaction, WarmCache, Goto
  <2>3. QED
    BY <2>1, <2>2
<1>8. ASSUME NEW r \in Requests, CommitHit(r) PROVE (\A q \in Requests : Transaction(q))'
  BY <1>8
    DEF IInv, Requested, Types, Transaction, CommitHit, Goto, store, Commit, EventOf,
        Respond, Finish
<1>9. ASSUME NEW r \in Requests, ProviderAnswers(r) PROVE (\A q \in Requests : Transaction(q))'
  BY <1>9 DEF IInv, Requested, Types, Transaction, ProviderAnswers, Goto, store
<1>10. ASSUME NEW r \in Requests, ProviderFails(r) PROVE (\A q \in Requests : Transaction(q))'
  BY <1>10 DEF IInv, Requested, Types, Transaction, ProviderFails, Goto, store, Finish
<1>11. ASSUME NEW r \in Requests, SameHash(r) PROVE (\A q \in Requests : Transaction(q))'
  BY <1>11 DEF IInv, Requested, Types, Transaction, SameHash, Goto, store
<1>12. ASSUME NEW r \in Requests, Changed(r) PROVE (\A q \in Requests : Transaction(q))'
  BY <1>12 DEF IInv, Requested, Types, Transaction, Changed, Unsaved, Goto, store
<1>13. ASSUME NEW r \in Requests, InsertRow(r) PROVE (\A q \in Requests : Transaction(q))'
  BY <1>13 DEF IInv, Requested, Types, Transaction, InsertRow, Goto, store
<1>14. ASSUME NEW r \in Requests, RecordCheck(r) PROVE (\A q \in Requests : Transaction(q))'
  BY <1>14 DEF IInv, Requested, Types, Transaction, RecordCheck, Goto, store
<1>15. ASSUME NEW r \in Requests, CommitCheck(r) PROVE (\A q \in Requests : Transaction(q))'
  BY <1>15 DEF IInv, Requested, Types, Transaction, CommitCheck, Goto, store, Commit, EventOf
<1>16. ASSUME NEW r \in Requests, CacheResult(r) PROVE (\A q \in Requests : Transaction(q))'
  BY <1>16
    DEF IInv, Requested, Types, Transaction, CacheResult, Goto, store, CacheSet, Respond,
        Finish
<1>17. ASSUME NEW r \in Requests, StatementFails(r) PROVE (\A q \in Requests : Transaction(q))'
  BY <1>17
    DEF IInv, Requested, Types, Transaction, StatementFails, Goto, store, Finish, ReturnIds
<1>18. CASE Crash
  BY <1>18 DEF IInv, Requested, Types, Transaction, Crash, ReturnIds, InFlight
<1>19. CASE Tick
  BY <1>19 DEF IInv, Requested, Types, Transaction, Tick, store, locals
<1>20. ASSUME NEW d \in Ttls, SetTtlDays(d) PROVE (\A q \in Requests : Transaction(q))'
  BY <1>20 DEF IInv, Requested, Types, Transaction, SetTtlDays, store, locals
<1>21. CASE UNCHANGED vars
  BY <1>21 DEF IInv, Requested, Types, Transaction, vars, store, locals
<1>22. ASSUME NEW r \in Requests, CommitFails(r) PROVE (\A q \in Requests : Transaction(q))'
  BY <1>22 DEF IInv, Requested, Types, Transaction, CommitFails, Goto, Finish
<1>23. QED
  BY <1>1, <1>2, <1>3, <1>4, <1>5, <1>6, <1>7, <1>8, <1>9, <1>10, <1>11, <1>12, <1>13, <1>14,
      <1>15, <1>16, <1>17, <1>18, <1>19, <1>20, <1>21, <1>22
    DEF Next, Advance

(* Events become visible with the commit only. *)
LEMMA UnrecordedStep == IInv /\ [Next]_vars => (\A q \in Requests : Unrecorded(q))'
<1> SUFFICES ASSUME IInv, [Next]_vars PROVE (\A q \in Requests : Unrecorded(q))'
  OBVIOUS
<1>1. ASSUME NEW r \in Requests, CommitHit(r) PROVE (\A q \in Requests : Unrecorded(q))'
  BY <1>1
    DEF IInv, Requested, Types, Transaction, Unrecorded, Event, CommitHit, Goto, store,
        Commit, EventOf, Respond, Finish
<1>2. ASSUME NEW r \in Requests, CommitCheck(r) PROVE (\A q \in Requests : Unrecorded(q))'
  BY <1>2
    DEF IInv, Requested, Types, Transaction, Unrecorded, Event, CommitCheck, Goto, store,
        Commit, EventOf
<1>3. CASE Crash
  BY <1>3
    DEF IInv, Requested, Types, Transaction, Unrecorded, Event, Crash, ReturnIds, InFlight
<1>4. ASSUME NEW r \in Requests,
            \/ CacheHit(r) \/ CacheMiss(r) \/ LatestFresh(r) \/ LatestStale(r)
            \/ RecordHit(r) \/ WarmCache(r) \/ ProviderAnswers(r) \/ ProviderFails(r)
            \/ SameHash(r) \/ Changed(r) \/ InsertRow(r) \/ RecordCheck(r)
            \/ CacheResult(r) \/ StatementFails(r)
     PROVE  (\A q \in Requests : Unrecorded(q))'
  BY <1>4 DEF IInv, Requested, Types, Transaction, Unrecorded, Event,
    CacheHit, CacheMiss, LatestFresh, LatestStale, RecordHit, WarmCache, ProviderAnswers,
    ProviderFails, SameHash, Changed, Unsaved, InsertRow, RecordCheck, CacheResult, StatementFails,
    Goto, Respond, Finish, store
<1>5. ASSUME NEW r \in Requests, NEW i \in Inputs, NEW f \in BOOLEAN, Start(r, i, f)
     PROVE  (\A q \in Requests : Unrecorded(q))'
  BY <1>5 DEF IInv, Requested, Types, Transaction, Unrecorded, Event, Start, Goto, store
<1>6. CASE Tick \/ (\E d \in Ttls : SetTtlDays(d)) \/ UNCHANGED vars
  BY <1>6
    DEF IInv, Requested, Types, Transaction, Unrecorded, Event, Tick, SetTtlDays, vars,
        store, locals
<1>7. ASSUME NEW r \in Requests, CommitFails(r) PROVE (\A q \in Requests : Unrecorded(q))'
  BY <1>7
    DEF IInv, Requested, Types, Transaction, Unrecorded, Event, CommitFails, Goto, Commit,
        EventOf, Finish
<1>8. QED
  BY <1>1, <1>2, <1>3, <1>4, <1>5, <1>6, <1>7 DEF Next, Advance

(* Ids in use stay different and below nextId: the delicate steps are the INSERT and
   the two that give an id back. *)
LEMMA IdsStep == IInv /\ [Next]_vars => IdsBelowNext'
<1> SUFFICES ASSUME IInv, [Next]_vars PROVE IdsBelowNext'
  OBVIOUS
<1>1. ASSUME NEW r \in Requests, LatestFresh(r) PROVE IdsBelowNext'
  BY <1>1
    DEF IInv, Requested, Types, InHand, Transaction, IdsBelowNext, OneWriter, Row,
        LatestFresh, Goto, store
<1>2. ASSUME NEW r \in Requests, LatestStale(r) PROVE IdsBelowNext'
  BY <1>2
    DEF IInv, Requested, Types, InHand, Transaction, IdsBelowNext, OneWriter, Row,
        LatestStale, Goto, store
<1>3. ASSUME NEW r \in Requests, CommitHit(r) PROVE IdsBelowNext'
  BY <1>3
    DEF IInv, Requested, Types, InHand, Transaction, IdsBelowNext, OneWriter, Row, CommitHit,
        Goto, store, Commit, EventOf, Respond, Finish
<1>4. ASSUME NEW r \in Requests, SameHash(r) PROVE IdsBelowNext'
  BY <1>4
    DEF IInv, Requested, Types, InHand, Transaction, IdsBelowNext, OneWriter, Row, SameHash,
        Goto, store
<1>5. ASSUME NEW r \in Requests, Changed(r) PROVE IdsBelowNext'
  BY <1>5
    DEF IInv, Requested, Types, InHand, Transaction, IdsBelowNext, OneWriter, Row, Changed,
        Goto, store
<1>6. ASSUME NEW r \in Requests, InsertRow(r) PROVE IdsBelowNext'
  BY <1>6
    DEF IInv, Requested, Types, InHand, Transaction, IdsBelowNext, OneWriter, Row, InsertRow,
        Goto, store
<1>7. ASSUME NEW r \in Requests, RecordCheck(r) PROVE IdsBelowNext'
  BY <1>7
    DEF IInv, Requested, Types, InHand, Transaction, IdsBelowNext, OneWriter, Row,
        RecordCheck, Goto, store
<1>8. ASSUME NEW r \in Requests, CommitCheck(r) PROVE IdsBelowNext'
  BY <1>8
    DEF IInv, Requested, Types, InHand, Transaction, IdsBelowNext, OneWriter, Row,
        CommitCheck, Goto, store, Commit, EventOf
<1>9. ASSUME NEW r \in Requests, StatementFails(r) PROVE IdsBelowNext'
  BY <1>9
    DEF IInv, Requested, Types, InHand, Transaction, IdsBelowNext, OneWriter, Row,
        StatementFails, Goto, store, Finish, ReturnIds
<1>10. CASE Crash
  BY <1>10
    DEF IInv, Requested, Types, InHand, Transaction, IdsBelowNext, OneWriter, Row, Crash,
        ReturnIds, InFlight
<1>11. ASSUME NEW r \in Requests,
            \/ CacheHit(r) \/ CacheMiss(r) \/ RecordHit(r) \/ WarmCache(r)
            \/ ProviderAnswers(r) \/ ProviderFails(r) \/ CacheResult(r)
     PROVE  IdsBelowNext'
  <2>1. /\ UNCHANGED <<rows, nextId>>
        /\ \A q \in Requests : "row" \in dirty'[q] => "row" \in dirty[q] /\ row'[q] = row[q]
    BY <1>11 DEF IInv, Requested, Types, InHand, Transaction,
      CacheHit, CacheMiss, RecordHit, WarmCache, ProviderAnswers, ProviderFails, CacheResult,
      Goto, Respond, Finish, store
  <2>2. QED
    BY <2>1 DEF IInv, Types, InHand, Transaction, IdsBelowNext, OneWriter, Row
<1>12. ASSUME NEW r \in Requests, NEW i \in Inputs, NEW f \in BOOLEAN, Start(r, i, f)
     PROVE  IdsBelowNext'
  BY <1>12
    DEF IInv, Requested, Types, InHand, Transaction, IdsBelowNext, OneWriter, Row, Start,
        Goto, store
<1>13. CASE Tick \/ (\E d \in Ttls : SetTtlDays(d)) \/ UNCHANGED vars
  BY <1>13
    DEF IInv, Requested, Types, InHand, Transaction, IdsBelowNext, OneWriter, Row, Tick,
        SetTtlDays, vars, store, locals
<1>14. ASSUME NEW r \in Requests, CommitFails(r) PROVE IdsBelowNext'
  BY <1>14
    DEF IInv, Requested, Types, InHand, Transaction, IdsBelowNext, OneWriter, Row,
        CommitFails, Goto, Finish, Commit, ReturnIds
<1>15. QED
  BY <1>1, <1>2, <1>3, <1>4, <1>5, <1>6, <1>7, <1>8, <1>9, <1>10, <1>11, <1>12, <1>13, <1>14
    DEF Next, Advance

(* One writer on SQLite, holding the last id. *)
LEMMA OneWriterStep == IInv /\ [Next]_vars => OneWriter'
<1> SUFFICES ASSUME IInv, [Next]_vars PROVE OneWriter'
  OBVIOUS
<1>1. ASSUME NEW r \in Requests, RecordHit(r) PROVE OneWriter'
  BY <1>1
    DEF IInv, Requested, Types, InHand, Transaction, IdsBelowNext, OneWriter, Row, MayWrite,
        RecordHit, Goto, store
<1>2. ASSUME NEW r \in Requests, CommitHit(r) PROVE OneWriter'
  BY <1>2
    DEF IInv, Requested, Types, InHand, Transaction, IdsBelowNext, OneWriter, Row, MayWrite,
        CommitHit, Goto, store, Commit, EventOf, Respond, Finish
<1>3. ASSUME NEW r \in Requests, InsertRow(r) PROVE OneWriter'
  BY <1>3
    DEF IInv, Requested, Types, InHand, Transaction, IdsBelowNext, OneWriter, Row, MayWrite,
        InsertRow, Goto, store
<1>4. ASSUME NEW r \in Requests, RecordCheck(r) PROVE OneWriter'
  BY <1>4
    DEF IInv, Requested, Types, InHand, Transaction, IdsBelowNext, OneWriter, Row, MayWrite,
        RecordCheck, Goto, store
<1>5. ASSUME NEW r \in Requests, CommitCheck(r) PROVE OneWriter'
  BY <1>5
    DEF IInv, Requested, Types, InHand, Transaction, IdsBelowNext, OneWriter, Row, MayWrite,
        CommitCheck, Goto, store, Commit, EventOf
<1>6. ASSUME NEW r \in Requests, StatementFails(r) PROVE OneWriter'
  BY <1>6
    DEF IInv, Requested, Types, InHand, Transaction, IdsBelowNext, OneWriter, Row, MayWrite,
        StatementFails, Goto, store, Finish, ReturnIds
<1>7. CASE Crash
  BY <1>7
    DEF IInv, Requested, Types, InHand, Transaction, IdsBelowNext, OneWriter, Row, MayWrite,
        Crash, ReturnIds, InFlight
<1>8. ASSUME NEW r \in Requests,
            \/ CacheHit(r) \/ CacheMiss(r) \/ LatestFresh(r) \/ LatestStale(r)
            \/ WarmCache(r) \/ ProviderAnswers(r) \/ ProviderFails(r) \/ SameHash(r)
            \/ Changed(r) \/ CacheResult(r)
     PROVE  OneWriter'
  <2>1. /\ UNCHANGED <<rows, nextId>>
        /\ \A q \in Requests : dirty'[q] \in {dirty[q], {}} /\ ("row" \in dirty'[q] => row'[q] = row[q])
    BY <1>8 DEF IInv, Requested, Types, Transaction,
      CacheHit, CacheMiss, LatestFresh, LatestStale, WarmCache, ProviderAnswers,
      ProviderFails, SameHash, Changed, CacheResult, Goto, Respond, Finish, store
  <2>2. QED
    BY <2>1 DEF IInv, OneWriter
<1>9. ASSUME NEW r \in Requests, NEW i \in Inputs, NEW f \in BOOLEAN, Start(r, i, f)
     PROVE  OneWriter'
  BY <1>9
    DEF IInv, Requested, Types, InHand, Transaction, IdsBelowNext, OneWriter, Row, MayWrite,
        Start, Goto, store
<1>10. CASE Tick \/ (\E d \in Ttls : SetTtlDays(d)) \/ UNCHANGED vars
  BY <1>10
    DEF IInv, Requested, Types, InHand, Transaction, IdsBelowNext, OneWriter, Row, MayWrite,
        Tick, SetTtlDays, vars, store, locals
<1>11. ASSUME NEW r \in Requests, CommitFails(r) PROVE OneWriter'
  BY <1>11
    DEF IInv, Requested, Types, InHand, Transaction, IdsBelowNext, OneWriter, Row, MayWrite,
        CommitFails, Goto, Finish, Commit, ReturnIds
<1>12. QED
  BY <1>1, <1>2, <1>3, <1>4, <1>5, <1>6, <1>7, <1>8, <1>9, <1>10, <1>11 DEF Next, Advance

(* A commit does not bring in an id that is already there. *)
LEMMA UniqueStep == IInv /\ [Next]_vars => RowIdsUnique'
<1> SUFFICES ASSUME IInv, [Next]_vars PROVE RowIdsUnique'
  OBVIOUS
<1>1. ASSUME NEW r \in Requests, CommitHit(r) PROVE RowIdsUnique'
  BY <1>1
    DEF IInv, Requested, Types, Transaction, IdsBelowNext, RowIdsUnique, CommitHit, Goto,
        store, Commit, EventOf, Respond, Finish
<1>2. ASSUME NEW r \in Requests, CommitCheck(r) PROVE RowIdsUnique'
  BY <1>2
    DEF IInv, Requested, Types, Transaction, IdsBelowNext, RowIdsUnique, CommitCheck, Goto,
        store, Commit, EventOf
<1>3. CASE rows' = rows
  BY <1>3 DEF IInv, Requested, Types, Transaction, IdsBelowNext, RowIdsUnique
<1>4. ASSUME NEW r \in Requests, CommitFails(r) PROVE RowIdsUnique'
  BY <1>4
    DEF IInv, Requested, Types, Transaction, IdsBelowNext, RowIdsUnique, CommitFails, Commit
<1>5. QED
  BY <1>1, <1>2, <1>3, <1>4
  DEF Next, Advance, Start, CacheHit, CacheMiss, LatestFresh, LatestStale, RecordHit,
        WarmCache, ProviderAnswers, ProviderFails, SameHash, Changed, Unsaved, InsertRow, RecordCheck,
        CacheResult, StatementFails, Crash, Tick, SetTtlDays, vars, store, locals,
      Goto, Respond, Finish

(* A commit brings in an event together with the row it refers to. *)
LEMMA EventsStep == IInv /\ [Next]_vars => EventsReferToRows'
<1> SUFFICES ASSUME IInv, [Next]_vars PROVE EventsReferToRows'
  OBVIOUS
<1>1. ASSUME NEW r \in Requests, CommitHit(r) PROVE EventsReferToRows'
  BY <1>1
    DEF IInv, Requested, Types, InHand, Transaction, EventsReferToRows, CommitHit, Goto,
        store, Commit, EventOf, Respond, Finish
<1>2. ASSUME NEW r \in Requests, CommitCheck(r) PROVE EventsReferToRows'
  BY <1>2
    DEF IInv, Requested, Types, InHand, Transaction, EventsReferToRows, CommitCheck, Goto,
        store, Commit, EventOf
<1>3. CASE UNCHANGED <<rows, events>>
  BY <1>3 DEF IInv, Requested, Types, InHand, Transaction, EventsReferToRows
<1>4. ASSUME NEW r \in Requests, CommitFails(r) PROVE EventsReferToRows'
  BY <1>4
    DEF IInv, Requested, Types, InHand, Transaction, EventsReferToRows, CommitFails, Commit,
        EventOf
<1>5. QED
  BY <1>1, <1>2, <1>3, <1>4
  DEF Next, Advance, Start, CacheHit, CacheMiss, LatestFresh, LatestStale, RecordHit,
        WarmCache, ProviderAnswers, ProviderFails, SameHash, Changed, Unsaved, InsertRow, RecordCheck,
        CacheResult, StatementFails, Crash, Tick, SetTtlDays, vars, store, locals,
      Goto, Respond, Finish

(* A commit brings in a row together with its event. *)
LEMMA RowsStep == IInv /\ [Next]_vars => EveryRowWasChecked'
<1> SUFFICES ASSUME IInv, [Next]_vars PROVE EveryRowWasChecked'
  OBVIOUS
<1>1. ASSUME NEW r \in Requests, CommitHit(r) PROVE EveryRowWasChecked'
  BY <1>1
    DEF IInv, Requested, Types, Transaction, EveryRowWasChecked, CommitHit, Goto, store,
        Commit, EventOf, Respond, Finish
<1>2. ASSUME NEW r \in Requests, CommitCheck(r) PROVE EveryRowWasChecked'
  <2>1. EventOf(r) \in events' /\ EventOf(r).result_id = row[r].id
    BY <1>2 DEF IInv, Requested, Types, Transaction, CommitCheck, Commit, EventOf
  <2>2. rows' \subseteq rows \cup {row[r]} /\ events \subseteq events'
    BY <1>2 DEF CommitCheck, Commit
  <2>3. QED
    BY <2>1, <2>2 DEF IInv, EveryRowWasChecked
<1>3. CASE UNCHANGED <<rows, events>>
  BY <1>3 DEF IInv, Requested, Types, Transaction, EveryRowWasChecked
<1>4. ASSUME NEW r \in Requests, CommitFails(r) PROVE EveryRowWasChecked'
  <2>1. CASE UNCHANGED <<rows, events>>
    BY <1>3, <2>1
  <2>2. CASE Commit(r)
    <3>1. EventOf(r) \in events' /\ EventOf(r).result_id = row[r].id
      BY <1>4, <2>2 DEF IInv, Requested, Types, Transaction, CommitFails, Commit, EventOf
    <3>2. rows' \subseteq rows \cup {row[r]} /\ events \subseteq events'
      BY <2>2 DEF Commit
    <3>3. QED
      BY <3>1, <3>2 DEF IInv, EveryRowWasChecked
  <2>3. QED
    BY <1>4, <2>1, <2>2 DEF CommitFails
<1>5. QED
  BY <1>1, <1>2, <1>3, <1>4
  DEF Next, Advance, Start, CacheHit, CacheMiss, LatestFresh, LatestStale, RecordHit,
        WarmCache, ProviderAnswers, ProviderFails, SameHash, Changed, Unsaved, InsertRow, RecordCheck,
        CacheResult, StatementFails, Crash, Tick, SetTtlDays, vars, store, locals,
      Goto, Respond, Finish

(* Both places that write to Redis hold a committed row. *)
LEMMA CacheStep == IInv /\ [Next]_vars => CacheBackedByRow'
<1> SUFFICES ASSUME IInv, [Next]_vars PROVE CacheBackedByRow'
  OBVIOUS
<1>1. ASSUME NEW r \in Requests, WarmCache(r) PROVE CacheBackedByRow'
  BY <1>1
    DEF IInv, Requested, Types, InHand, Transaction, CacheBackedByRow, RowsOf, Hash, Email,
        WarmCache, Goto, store, Finish, CacheSet
<1>2. ASSUME NEW r \in Requests, CommitHit(r) PROVE CacheBackedByRow'
  BY <1>2
    DEF IInv, Requested, Types, InHand, Transaction, CacheBackedByRow, RowsOf, Hash, Email,
        CommitHit, Goto, store, Commit, EventOf, Respond, Finish
<1>3. ASSUME NEW r \in Requests, CommitCheck(r) PROVE CacheBackedByRow'
  BY <1>3
    DEF IInv, Requested, Types, InHand, Transaction, CacheBackedByRow, RowsOf, Hash, Email,
        CommitCheck, Goto, store, Commit, EventOf
<1>4. ASSUME NEW r \in Requests, CacheResult(r) PROVE CacheBackedByRow'
  BY <1>4
    DEF IInv, Requested, Types, InHand, Transaction, CacheBackedByRow, RowsOf, Hash, Email,
        CacheResult, Goto, store, CacheSet, Respond, Finish
<1>5. CASE UNCHANGED <<rows, cache>>
  BY <1>5
    DEF IInv, Requested, Types, InHand, Transaction, CacheBackedByRow, RowsOf, Hash, Email
<1>6. ASSUME NEW r \in Requests, CommitFails(r) PROVE CacheBackedByRow'
  BY <1>6 DEF IInv, CacheBackedByRow, RowsOf, Hash, CommitFails, Commit
<1>7. QED
  BY <1>1, <1>2, <1>3, <1>4, <1>5, <1>6
  DEF Next, Advance, Start, CacheHit, CacheMiss, LatestFresh, LatestStale, RecordHit,
        ProviderAnswers, ProviderFails, SameHash, Changed, Unsaved, InsertRow, RecordCheck,
        StatementFails, Crash, Tick, SetTtlDays, vars, store, locals,
      Goto, Respond, Finish

-----------------------------------------------------------------------------
(* The invariant holds throughout *)

(* The initial state satisfies it. *)
LEMMA InitInv == Init => IInv
<1> SUFFICES ASSUME Init PROVE IInv
  OBVIOUS
<1>1. Types
  BY DEF Init, Types
<1>2. Requested
  BY DEF Init, Requested, InHand, Transaction, Unrecorded
<1>3. IdsBelowNext /\ OneWriter
  BY DEF Init, IdsBelowNext, OneWriter
<1>4. RowIdsUnique /\ EventsReferToRows /\ EveryRowWasChecked /\ CacheBackedByRow
  BY DEF Init, RowIdsUnique, EventsReferToRows, EveryRowWasChecked, CacheBackedByRow
<1>5. QED
  BY <1>1, <1>2, <1>3, <1>4 DEF IInv

(* Every step preserves it. *)
LEMMA NextInv == IInv /\ [Next]_vars => IInv'
<1> SUFFICES ASSUME IInv, [Next]_vars PROVE IInv'
  OBVIOUS
<1>1. Requested'
  BY InHandStep, TransactionStep, UnrecordedStep DEF Requested
<1>2. QED
  BY <1>1, TypeStep, IdsStep, OneWriterStep, UniqueStep, EventsStep, RowsStep, CacheStep
  DEF IInv

(* The inductive invariant holds in every reachable state. *)
THEOREM Invariant == Spec => []IInv
  BY InitInv, NextInv, PTL DEF Spec

(* The variables keep their types, and no request has pending writes but in  *)
(* the states in which its transaction is open, for every set of requests    *)
(* and addresses, on every backend, whatever fails.                          *)
THEOREM TypeCorrect == Spec => []TypeOK
<1>1. IInv => TypeOK
  BY DEF IInv, TypeOK, Requested, Transaction
<1>2. QED
  BY <1>1, Invariant, PTL

(* Stored results never share an id, although SQLite hands out again the ids *)
(* of INSERTs that were rolled back.                                         *)
THEOREM IdsUnique == Spec => []RowIdsUnique
<1>1. IInv => RowIdsUnique
  BY DEF IInv
<1>2. QED
  BY <1>1, Invariant, PTL

(* Every committed event refers to a committed result of its address,        *)
(* although the check that wrote it may have had the row of another in hand. *)
THEOREM EventsAgree == Spec => []EventsReferToRows
<1>1. IInv => EventsReferToRows
  BY DEF IInv
<1>2. QED
  BY <1>1, Invariant, PTL

(* Every committed result has the event of a check: no failure and no crash  *)
(* comes between the two.                                                    *)
THEOREM RowsAreChecked == Spec => []EveryRowWasChecked
<1>1. IInv => EveryRowWasChecked
  BY DEF IInv
<1>2. QED
  BY <1>1, Invariant, PTL

(* Redis never holds an outcome that was not committed for the address.      *)
THEOREM CacheIsBacked == Spec => []CacheBackedByRow
<1>1. IInv => CacheBackedByRow
  BY DEF IInv
<1>2. QED
  BY <1>1, Invariant, PTL

-----------------------------------------------------------------------------
(* Who has left an event *)

(* A request has no answer before its end, and has left its event when only  *)
(* the cache is still to be written.                                         *)
Answered ==
    \A r \in Requests :
        /\ pc[r] # "done" => answer[r] = None
        /\ pc[r] = "set" => \E ev \in events : ev.request = r

Settled == Answered /\ RecordedIffNotCached

(* Every step keeps the relation between answers and events. *)
LEMMA SettledStep == IInv /\ Settled /\ [Next]_vars => Settled'
<1> SUFFICES ASSUME IInv, Settled, [Next]_vars PROVE Settled'
  OBVIOUS
<1> USE DEF Settled, Answered, RecordedIffNotCached
<1>1. ASSUME NEW r \in Requests, CacheHit(r) PROVE Settled'
  BY <1>1 DEF IInv, Requested, Types, Unrecorded, CacheHit, Respond, Finish, Goto, store
<1>2. ASSUME NEW r \in Requests, CommitHit(r) PROVE Settled'
  <2>1. \A q \in Requests : (\E ev \in events' : ev.request = q)
                              <=> q = r \/ \E ev \in events : ev.request = q
    <3>1. events' = events \cup {EventOf(r)}
      BY <1>2 DEF IInv, Requested, Transaction, CommitHit, Commit
    <3>2. EventOf(r).request = r
      BY DEF EventOf
    <3>3. QED
      BY <3>1, <3>2
  <2>2. PICK a : Finish(r, a) /\ (a # None => a.source = "db")
    BY <1>2 DEF CommitHit, Respond
  <2>3. QED
    BY <2>1, <2>2 DEF IInv, Types, Finish, Goto
<1>3. ASSUME NEW r \in Requests, CommitCheck(r) PROVE Settled'
  <2>1. \A q \in Requests : (\E ev \in events' : ev.request = q)
                              <=> q = r \/ \E ev \in events : ev.request = q
    <3>1. events' = events \cup {EventOf(r)}
      BY <1>3 DEF IInv, Requested, Transaction, CommitCheck, Commit
    <3>2. EventOf(r).request = r
      BY DEF EventOf
    <3>3. QED
      BY <3>1, <3>2
  <2>2. QED
    BY <2>1, <1>3 DEF IInv, Types, CommitCheck, Goto
<1>4. ASSUME NEW r \in Requests, CacheResult(r) PROVE Settled'
  BY <1>4 DEF IInv, Types, CacheResult, Respond, Finish, Goto, store
<1>5. ASSUME NEW r \in Requests,
            ProviderFails(r) \/ StatementFails(r) \/ WarmCache(r)
     PROVE  Settled'
  BY <1>5 DEF IInv, Requested, Types, Unrecorded, ProviderFails, StatementFails, WarmCache,
              Finish, Goto, store
<1>6. ASSUME NEW r \in Requests,
            \/ CacheMiss(r) \/ LatestFresh(r) \/ LatestStale(r) \/ RecordHit(r)
            \/ ProviderAnswers(r) \/ SameHash(r) \/ Changed(r) \/ InsertRow(r)
            \/ RecordCheck(r)
            \/ \E i \in Inputs, f \in BOOLEAN : Start(r, i, f)
     PROVE  Settled'
  BY <1>6 DEF IInv, Types, CacheMiss, LatestFresh, LatestStale, RecordHit, ProviderAnswers,
              SameHash, Changed, Unsaved, InsertRow, RecordCheck, Start, Goto, store
<1>7. CASE Crash
  BY <1>7 DEF IInv, Types, Crash, InFlight
<1>8. CASE Tick \/ (\E d \in Ttls : SetTtlDays(d)) \/ UNCHANGED vars
  BY <1>8 DEF Tick, SetTtlDays, vars, store, locals
<1>9. ASSUME NEW r \in Requests, CommitFails(r) PROVE Settled'
  <2>1. \A q \in Requests \ {r} : (\E ev \in events' : ev.request = q)
                                    <=> \E ev \in events : ev.request = q
    BY <1>9 DEF CommitFails, Commit, EventOf
  <2>2. QED
    BY <2>1, <1>9 DEF IInv, Types, CommitFails, Finish, Goto
<1>10. QED
  BY <1>1, <1>2, <1>3, <1>4, <1>5, <1>6, <1>7, <1>8, <1>9 DEF Next, Advance

(* Whatever fails, an answer that is not from Redis has its event, one from  *)
(* Redis has none, and who has none has no answer to give yet.               *)
THEOREM RecordedOrCached == Spec => []RecordedIffNotCached
<1>1. Init => Settled
  BY DEF Init, Settled, Answered, RecordedIffNotCached
<1>2. Settled => RecordedIffNotCached
  BY DEF Settled
<1>3. QED
  BY <1>1, <1>2, SettledStep, Invariant, PTL DEF Spec

-----------------------------------------------------------------------------
(* The service implements the append-only record *)

(* A commit adds one event to the record, with its row if that is new. *)
LEMMA CommitIsRecorded ==
    ASSUME IInv, NEW r \in Requests, pc[r] \in {"hitCommit", "commit"}, Commit(r)
    PROVE  History!Next
<1>1. ~History!Recorded(r)
  BY DEF IInv, Requested, Unrecorded, History!Recorded
<1>2. "event" \in dirty[r] /\ row[r] \in Row /\ row[r].email = Email(r)
  BY NoneAssumption DEF IInv, Requested, InHand, Transaction
<1>3. events' = events \cup {History!EventFor(r, row[r])}
  BY <1>2 DEF Commit, EventOf, History!EventFor
<1>4. CASE "row" \in dirty[r]
  <2>1. History!Revise(r, row[r])
    BY <1>1, <1>3, <1>4 DEF IInv, IdsBelowNext, Commit, History!Revise
  <2>2. row[r] \in rows' \ rows
    BY <1>4, <2>1 DEF IInv, IdsBelowNext, Commit, History!Revise
  <2>3. QED
    BY <2>1, <2>2, <1>2 DEF History!Next
<1>5. CASE "row" \notin dirty[r]
  <2>1. row[r] \in rows
    BY <1>2, <1>5, NoneAssumption DEF IInv, Requested, InHand
  <2>2. History!Confirm(r, row[r])
    BY <1>1, <1>3, <1>5, <2>1 DEF Commit, History!Confirm
  <2>3. QED
    BY <2>1, <2>2 DEF History!Next
<1>6. QED
  BY <1>4, <1>5

(* No other step touches the record. *)
LEMMA StepIsRecorded == IInv /\ [Next]_vars => [History!Next]_<<rows, events>>
<1> SUFFICES ASSUME IInv, [Next]_vars PROVE [History!Next]_<<rows, events>>
  OBVIOUS
<1>1. ASSUME NEW r \in Requests, CommitHit(r) \/ CommitCheck(r) PROVE History!Next
  BY <1>1, CommitIsRecorded DEF CommitHit, CommitCheck
<1>2. CASE UNCHANGED <<rows, events>>
  BY <1>2
<1>3. ASSUME NEW r \in Requests, CommitFails(r) PROVE [History!Next]_<<rows, events>>
  BY <1>3, CommitIsRecorded DEF CommitFails
<1>4. QED
  BY <1>1, <1>2, <1>3
  DEF Next, Advance, Start, CacheHit, CacheMiss, LatestFresh, LatestStale, RecordHit,
        WarmCache,
      ProviderAnswers, ProviderFails, SameHash, Changed, Unsaved, InsertRow, RecordCheck, CacheResult,
      StatementFails, Crash, Tick, SetTtlDays, vars, store, locals

(* Whatever interleaves, crashes or is rolled back, the two tables behave as  *)
(* the append-only record: a check becomes visible in one step, at most once, *)
(* and nothing recorded is changed or removed.                                *)
THEOREM Implements == Spec => ImplementsHistoryLog
<1>1. Init => History!Init
  BY DEF Init, History!Init
<1>2. QED
  BY <1>1, StepIsRecorded, Invariant, PTL DEF Spec, History!Spec, ImplementsHistoryLog

-----------------------------------------------------------------------------
(* A request that is held up is held up by one that is not *)

(* Of a finite table, one row of an address is the newest: with the rows of  *)
(* the address that are newer than it, each row has a number of its own.     *)
LEMMA NewestExists ==
    ASSUME NEW S, S \subseteq Row, IsFiniteSet(S), S # {}, \A x, y \in S : x.id = y.id => x = y
    PROVE  \E m \in S : \A y \in S \ {m} : NewerThan(m, y)
<1> DEFINE above(x) == {y \in S : NewerThan(y, x)}
           n == Cardinality(S)
           f == [x \in S |-> Cardinality(above(x))]
<1>1. n \in Nat /\ n # 0
  BY FS_CardinalityType, FS_EmptySet
<1>2. \A x \in S : x.id \in Nat /\ x.created_at \in Nat
  BY DEF Row
<1>3. \A x, y \in S : x # y => NewerThan(x, y) \/ NewerThan(y, x)
  BY <1>2 DEF NewerThan
<1>4. \A x \in S : ~NewerThan(x, x)
  BY <1>2 DEF NewerThan
<1>5. \A x, y, z \in S : NewerThan(x, y) /\ NewerThan(y, z) => NewerThan(x, z)
  BY <1>2 DEF NewerThan
<1>6. ASSUME NEW x \in S
      PROVE  IsFiniteSet(above(x)) /\ Cardinality(above(x)) \in Nat /\ Cardinality(above(x)) < n
  <2>1. above(x) \subseteq S /\ x \notin above(x)
    BY <1>4
  <2>2. IsFiniteSet(above(x)) /\ Cardinality(above(x)) <= n /\ (n = Cardinality(above(x)) => S = above(x))
    BY <2>1, FS_Subset
  <2>3. Cardinality(above(x)) \in Nat
    BY <2>2, FS_CardinalityType
  <2>4. QED
    BY <1>1, <2>1, <2>2, <2>3
<1>7. ASSUME NEW x \in S, NEW y \in S, NewerThan(y, x)
      PROVE  Cardinality(above(y)) < Cardinality(above(x))
  <2>1. above(y) \subseteq above(x) /\ y \in above(x) /\ y \notin above(y)
    BY <1>4, <1>5, <1>7
  <2>2. /\ Cardinality(above(y)) <= Cardinality(above(x))
        /\ (Cardinality(above(x)) = Cardinality(above(y)) => above(x) = above(y))
    BY <1>6, <2>1, FS_Subset
  <2> HIDE DEF above, n
  <2>3. QED
    BY <1>6, <2>1, <2>2
<1>8. f \in Injection(S, 0..(n - 1))
  <2> HIDE DEF above, n
  <2>1. f \in [S -> 0..(n - 1)]
    BY <1>1, <1>6
  <2>2. \A x, y \in S : f[x] = f[y] => x = y
    <3> SUFFICES ASSUME NEW x \in S, NEW y \in S, f[x] = f[y], x # y PROVE FALSE
      OBVIOUS
    <3>1. NewerThan(x, y) \/ NewerThan(y, x)
      BY <1>3
    <3>2. QED
      BY <1>6, <1>7, <3>1
  <2> HIDE DEF f
  <2>3. QED
    BY <2>1, <2>2 DEF Injection, IsInjective
<1>9. IsFiniteSet(0..(n - 1)) /\ Cardinality(0..(n - 1)) = n
  <2> HIDE DEF n
  <2>1. n - 1 \in Int /\ ~(0 > n - 1) /\ (n - 1) - 0 + 1 = n
    BY <1>1
  <2>2. QED
    BY <2>1, FS_Interval
<1>10. f \in Surjection(S, 0..(n - 1))
  BY <1>8, <1>9, FS_Injection
<1>11. PICK m \in S : Cardinality(above(m)) = 0
  <2>1. 0 \in 0..(n - 1)
    BY <1>1
  <2>2. PICK m \in S : f[m] = 0
    BY <1>10, <2>1 DEF Surjection
  <2>3. QED
    BY <2>2
<1>12. above(m) = {}
  BY <1>6, <1>11, FS_EmptySet
<1>13. QED
  BY <1>3, <1>12

(* The table stays finite: a step commits one row at most. *)
LEMMA FiniteStep == IsFiniteSet(rows) /\ [Next]_vars => IsFiniteSet(rows)'
<1> SUFFICES ASSUME IsFiniteSet(rows), [Next]_vars PROVE IsFiniteSet(rows')
  OBVIOUS
<1>1. ASSUME NEW r \in Requests, Commit(r) PROVE IsFiniteSet(rows')
  <2>1. rows' = rows \/ rows' = rows \cup {row[r]}
    BY <1>1 DEF Commit
  <2>2. QED
    BY <2>1, FS_AddElement
<1>2. CASE rows' = rows
  BY <1>2
<1>3. QED
  BY <1>1, <1>2
  DEF Next, Advance, Start, CacheHit, CacheMiss, LatestFresh, LatestStale, RecordHit,
      WarmCache, CommitHit, ProviderAnswers, ProviderFails, SameHash, Changed, Unsaved, InsertRow,
      RecordCheck, CommitCheck, CacheResult, StatementFails, CommitFails, Crash, Tick, SetTtlDays, vars, store

(* No request waits for anything but the write lock, and who has that goes   *)
(* on; the two SELECTs always find their row, or find that there is none.    *)
THEOREM WritersGoOn == Spec => []HeldUpByAWriter
<1>1. IInv /\ IsFiniteSet(rows) => HeldUpByAWriter
  <2> SUFFICES ASSUME IInv, IsFiniteSet(rows), NEW r \in InFlight
               PROVE  CanAdvance(r) \/ \E q \in InFlight \ {r} : dirty[q] # {} /\ CanAdvance(q)
    BY DEF HeldUpByAWriter
  <2> USE DEF IInv, Types
  <2>1. r \in Requests /\ pc[r] \notin {"idle", "done"}
    BY DEF InFlight
  <2>2. RowsOf(Email(r)) = {} \/ \E x \in rows : IsLatest(x, Email(r))
    <3> DEFINE S == RowsOf(Email(r))
    <3>1. S \subseteq rows
      BY DEF RowsOf
    <3>2. IsFiniteSet(S) /\ S \subseteq Row /\ \A x, y \in S : x.id = y.id => x = y
      BY <3>1, FS_Subset DEF RowIdsUnique
    <3> HIDE DEF S
    <3>3. S = {} \/ \E m \in S : \A y \in S \ {m} : NewerThan(m, y)
      BY <3>2, NewestExists
    <3> USE DEF S
    <3>4. QED
      BY <3>1, <3>3 DEF IsLatest
  <2>3. pc[r] = "compare" => \E x \in rows \cup {None} : Current(r, x)
    <3>1. pc[r] = "compare" => row[r] \in rows \cup {None}
      BY <2>1 DEF Requested, InHand, Transaction
    <3>2. QED
      BY <2>2, <3>1 DEF Current
  <2>4. pc[r] \in {"hitEvent", "insert", "event"} =>
            MayWrite(r) \/ \E q \in InFlight \ {r} : dirty[q] # {} /\ CanAdvance(q)
    <3> SUFFICES ASSUME ~MayWrite(r)
                 PROVE  \E q \in InFlight \ {r} : dirty[q] # {} /\ CanAdvance(q)
      OBVIOUS
    <3>1. PICK q \in Requests \ {r} : Backend = "sqlite" /\ dirty[q] # {}
      BY DEF MayWrite
    <3>2. pc[q] \in {"event", "commit", "hitCache", "hitCommit"}
      BY <3>1 DEF Requested, Transaction
    <3>3. MayWrite(q)
      BY <3>1 DEF OneWriter, MayWrite
    <3>4. QED
      BY <3>1, <3>2, <3>3 DEF InFlight, CanAdvance
  <2>5. QED
    BY <2>1, <2>2, <2>3, <2>4 DEF CanAdvance
<1>2. Init => IsFiniteSet(rows)
  BY FS_EmptySet DEF Init
<1>3. QED
  BY <1>1, <1>2, FiniteStep, Invariant, PTL DEF Spec
=============================================================================
