------------------------ MODULE ValidationTimeProofs ------------------------
(***************************************************************************)
(* What holds of Validation as time passes: how old an answer can be, which*)
(* checks can repeat a revision, and what checks that follow one another   *)
(* can rely on.                                                            *)
(***************************************************************************)
EXTENDS ValidationProofs, FiniteSetTheorems

-----------------------------------------------------------------------------
(* The inductive invariants *)

(* A request lasts MaxLag at most, and what it learns it learns meanwhile.   *)
Serving(r) == pc[r] \notin {"idle", "done"}

Timed(r) ==
    /\ Serving(r) => began[r] <= now /\ now <= began[r] + MaxLag
    /\ pc[r] \in {"compare", "insert", "event", "commit", "set"} =>
          began[r] <= raw[r].checked_at /\ raw[r].checked_at <= now

(* The row of a request that others do not see yet.                          *)
Unseen(r) == pc[r] = "insert" \/ "row" \in dirty[r]

(* A result is stored by the request that obtained it.                       *)
Dated(x) == x.created_at <= now /\ x.created_at <= x.result.checked_at + MaxLag

Clocked ==
    /\ \A r \in Requests : Timed(r)
    /\ \A x \in rows : Dated(x)
    /\ \A r \in Requests : Unseen(r) => Dated(row[r]) /\ began[r] <= row[r].created_at

(* A row that was found fresh is less than a TTL older than the request; an  *)
(* entry of Redis adds a TTL to that.                                        *)
FoundFresh(r) ==
    pc[r] \in {"hitEvent", "hitCache", "hitCommit"} =>
        \E t \in Ttls : began[r] <= row[r].result.checked_at + (t - 1) + MaxLag

EntriesExpire ==
    \A e \in Emails : cache[e] # None =>
        \E t, u \in Ttls : cache[e].expires <= cache[e].result.checked_at + (t - 1) + u + 2 * MaxLag

Aged == (\A r \in Requests : FoundFresh(r)) /\ EntriesExpire

(* Of the rows of checks that were over when a request began, none with the  *)
(* outcome it brings is the newest it has seen, or it does not insert.       *)
Over(r, x) == x.email = Email(r) /\ x.created_at + MaxLag < began[r]
Same(r, x) == Hash(x.result) = Hash(raw[r])

Compared(r) ==
    /\ pc[r] \in {"provider", "compare"} /\ RereadsSnapshot(r) =>
          \A x \in rows : Over(r, x) => row[r] # None /\ (x = row[r] \/ NewerThan(row[r], x))
    /\ pc[r] = "insert" =>
          \A x \in rows : Over(r, x) /\ Same(r, x) =>
              \E z \in RowsOf(Email(r)) : NewerThan(z, x) /\ z.created_at <= row[r].created_at
    /\ "row" \in dirty[r] =>
          \A x \in rows : Over(r, x) /\ Same(r, x) =>
              \E z \in RowsOf(Email(r)) : NewerThan(z, x) /\ NewerThan(row[r], z)

(* One request at a time. *)
Alone == \A q, r \in Requests : Serving(q) /\ Serving(r) => q = r

IsCurrent(r, x) ==
    \/ x = None /\ RowsOf(Email(r)) = {}
    \/ x # None /\ IsLatest(x, Email(r))

(* What a request knows that is alone. *)
Knows(r) ==
    /\ pc[r] \in {"provider", "compare"} /\ RereadsSnapshot(r) => IsCurrent(r, row[r])
    /\ pc[r] \in {"hitEvent", "hitCache", "hitCommit", "set"} => IsLatest(row[r], Email(r))
    /\ pc[r] \in {"event", "commit"} /\ "row" \notin dirty[r] => IsLatest(row[r], Email(r))
    /\ Unseen(r) => \A x \in rows : IsLatest(x, Email(r)) => ~Same(r, x)
    /\ pc[r] = "insert" => \A x \in RowsOf(Email(r)) : x.created_at <= row[r].created_at
    /\ "row" \in dirty[r] => \A x \in RowsOf(Email(r)) : NewerThan(row[r], x)

Sequential == Alone /\ (\A r \in Requests : Knows(r)) /\ NoRepeatedRevision

(* Redis has the newest result, or is about to be told. *)
ShowsNewest(e) == \E x \in rows : IsLatest(x, e) /\ x.result.outcome = cache[e].result.outcome

CacheIsCurrent ==
    \A e \in Emails : cache[e] # None =>
        ShowsNewest(e) \/ \E r \in Requests : pc[r] = "set" /\ Email(r) = e

(* What the provider said is in Redis for a TTL. *)
Provided(q) == answer[q] # None /\ answer[q].source = "provider"
Spent(q) == answer[q].result.checked_at + ttl <= now

Reusable(q) ==
    Provided(q) =>
        /\ pc[q] = "done" /\ input[q] \in Inputs
        /\ answer[q].result.checked_at <= now
        /\ Spent(q) \/ (cache[Email(q)] # None /\ answer[q].result.checked_at + ttl <= cache[Email(q)].expires)

Missed(r) ==
    pc[r] \in {"latest", "provider"} /\ ~force[r] =>
        \A q \in Requests : Provided(q) /\ Email(q) = Email(r) => Spent(q)

Reuse == \A r \in Requests : Reusable(r) /\ Missed(r)

-----------------------------------------------------------------------------
(* Time *)

(* What time says of the rows concerns the numbers in them.                  *)
LEMMA RowTypes ==
    ASSUME IInv
    PROVE  /\ \A x \in rows : x \in Row /\ x.created_at \in Nat /\ x.result.checked_at \in Nat /\ x.id \in Nat
           /\ \A r \in Requests : row[r] # None =>
                 row[r] \in Row /\ row[r].created_at \in Nat /\ row[r].result.checked_at \in Nat /\ row[r].id \in Nat
           /\ \A r \in Requests : Unseen(r) => row[r] # None
           /\ \A r \in Requests : raw[r] # None => raw[r] \in Result /\ raw[r].checked_at \in Nat
           /\ now \in Nat /\ ttl \in Ttls /\ MaxLag \in Nat /\ nextId \in Nat
           /\ \A r \in Requests : began[r] \in Nat
<1>1. \A x \in Row : x.created_at \in Nat /\ x.result.checked_at \in Nat /\ x.id \in Nat
  BY DEF Row, Result
<1>2. \A x \in Result : x.checked_at \in Nat
  BY DEF Result
<1>3. Types
  BY DEF IInv
<1>4. \A r \in Requests : Unseen(r) => row[r] # None
  BY NoneAssumption DEF IInv, Requested, InHand, Transaction, Unseen
<1>5. QED
  BY <1>1, <1>2, <1>3, <1>4, BoundAssumption DEF Types

(* The clock goes on only while no request has lasted too long, and what a   *)
(* request writes down it dates with the time of the step.                   *)
LEMMA ClockedStep == IInv /\ Clocked /\ [Next]_vars => Clocked'
<1> SUFFICES ASSUME IInv, Clocked, [Next]_vars PROVE Clocked'
  OBVIOUS
<1> USE RowTypes DEF Clocked, Timed, Dated, Serving, Unseen
<1>1. ASSUME NEW r \in Requests, NEW i \in Inputs, NEW f \in BOOLEAN, Start(r, i, f)
      PROVE  Clocked'
  <2>1. "row" \notin dirty[r]
    BY <1>1 DEF IInv, Requested, Transaction, Start
  <2>2. \A q \in Requests : Timed(q)'
    BY <1>1 DEF IInv, Types, Start, Goto, store
  <2>3. \A q \in Requests : Unseen(q)' => Dated(row[q])' /\ began'[q] <= row'[q].created_at
    BY <2>1, <1>1 DEF IInv, Types, Start, Goto, store
  <2>4. QED
    BY <2>2, <2>3, <1>1 DEF Start, store
<1>2. ASSUME NEW r \in Requests, CommitHit(r) \/ CommitCheck(r) \/ CommitFails(r) PROVE Clocked'
  <2>1. /\ rows' \in {rows, IF "row" \in dirty[r] THEN rows \cup {row[r]} ELSE rows}
        /\ now' = now /\ pc'[r] \in {"set", "done"} /\ \A q \in Requests \ {r} : pc'[q] = pc[q]
        /\ pc'[r] = "set" => pc[r] = "commit" /\ UNCHANGED <<began, raw>>
        /\ dirty' = [dirty EXCEPT ![r] = {}]
        /\ \A q \in Requests \ {r} : began'[q] = began[q] /\ row'[q] = row[q] /\ raw'[q] = raw[q]
    <3>1. CASE CommitHit(r)
      BY <3>1 DEF IInv, Types, CommitHit, Commit, Respond, Finish, Goto
    <3>2. CASE CommitCheck(r)
      BY <3>2 DEF IInv, Types, CommitCheck, Commit, Goto
    <3>3. CASE CommitFails(r)
      BY <3>3 DEF IInv, Types, CommitFails, Commit, Finish, Goto
    <3>4. QED
      BY <1>2, <3>1, <3>2, <3>3
  <2>2. \A x \in rows' : Dated(x)'
    BY <2>1
  <2>3. \A q \in Requests : Timed(q)'
    BY <2>1 DEF IInv, Types
  <2>4. QED
    BY <2>1, <2>2, <2>3 DEF IInv, Types
<1>3. ASSUME NEW r \in Requests, InsertRow(r) PROVE Clocked'
  <2>1. /\ \A q \in Requests : Unseen(q)' => Unseen(q) /\ row'[q].created_at = row[q].created_at
                                             /\ row'[q].result = row[q].result
        /\ UNCHANGED <<now, rows, began, raw>>
    BY <1>3 DEF IInv, Types, Requested, InHand, InsertRow, Row, Goto
  <2>2. \A q \in Requests : Timed(q)'
    BY <2>1, <1>3 DEF IInv, Types, InsertRow, Goto
  <2>3. QED
    BY <2>1, <2>2
<1>4. ASSUME NEW r \in Requests, ProviderAnswers(r) PROVE Clocked'
  BY <1>4 DEF IInv, Types, Requested, Transaction, ProviderAnswers, Goto, store
<1>5. ASSUME NEW r \in Requests, Changed(r) PROVE Clocked'
  <2>1. /\ row' = [row EXCEPT ![r] = Unsaved(r)] /\ pc[r] = "compare" /\ pc' = [pc EXCEPT ![r] = "insert"]
        /\ UNCHANGED <<now, rows, began, raw, dirty>>
    BY <1>5 DEF Changed, Goto, store
  <2>2. raw[r] # None
    BY <2>1, NoneAssumption DEF IInv, Requested, InHand
  <2>3. Dated(Unsaved(r)) /\ began[r] <= Unsaved(r).created_at
    BY <2>1, <2>2 DEF Unsaved
  <2>4. \A q \in Requests : Timed(q)'
    BY <2>1 DEF IInv, Types
  <2>5. QED
    BY <2>1, <2>3, <2>4 DEF IInv, Types
<1>6. ASSUME NEW r \in Requests,
             CacheHit(r) \/ WarmCache(r) \/ ProviderFails(r) \/ CacheResult(r) \/ StatementFails(r)
      PROVE  Clocked'
  BY <1>6
    DEF IInv, Types, Requested, Transaction, CacheHit, WarmCache, ProviderFails, CacheResult,
        StatementFails, CommitFails, Respond, Finish, Goto, store
<1>7. ASSUME NEW r \in Requests,
             \/ CacheMiss(r) \/ LatestFresh(r) \/ LatestStale(r) \/ RecordHit(r)
             \/ SameHash(r) \/ RecordCheck(r)
      PROVE  Clocked'
  BY <1>7
    DEF IInv, Types, Requested, Transaction, CacheMiss, LatestFresh, LatestStale, RecordHit, SameHash,
        RecordCheck, Goto, store
<1>8. CASE Crash
  BY <1>8 DEF IInv, Types, Crash, InFlight
<1>9. CASE Tick
  BY <1>9, NoneAssumption DEF IInv, Types, Requested, InHand, Tick, InFlight, store, locals
<1>10. CASE (\E d \in Ttls : SetTtlDays(d)) \/ UNCHANGED vars
  BY <1>10 DEF SetTtlDays, vars, store, locals
<1>11. QED
  BY <1>1, <1>2, <1>3, <1>4, <1>5, <1>6, <1>7, <1>8, <1>9, <1>10 DEF Next, Advance

(* Requests last MaxLag at most, and rows are dated within that. *)
LEMMA ClockedAlways == Spec => []Clocked
<1>1. Init => Clocked
  BY DEF Init, Clocked, Timed, Serving, Unseen
<1>2. QED
  BY <1>1, ClockedStep, Invariant, PTL DEF Spec

(* What a step leaves as it was of a request. *)
Unmoved(q) ==
    /\ pc'[q] = pc[q] /\ input'[q] = input[q] /\ force'[q] = force[q] /\ began'[q] = began[q]
    /\ row'[q] = row[q] /\ raw'[q] = raw[q] /\ dirty'[q] = dirty[q] /\ answer'[q] = answer[q]

Moves(r) ==
    \/ \E i \in Inputs, f \in BOOLEAN : Start(r, i, f)
    \/ Advance(r)
    \/ StatementFails(r) \/ CommitFails(r)

(* One request moves at a time, and neither the clock nor the TTL with it.   *)
LEMMA OneMoves ==
    ASSUME IInv, NEW r \in Requests, Moves(r)
    PROVE  now' = now /\ ttl' = ttl /\ \A q \in Requests \ {r} : Unmoved(q)
<1> USE DEF Unmoved
<1>1. CASE \E i \in Inputs, f \in BOOLEAN : Start(r, i, f)
  BY <1>1 DEF IInv, Types, Start, Goto
<1>2. CASE CacheHit(r) \/ CommitHit(r) \/ CacheResult(r)
  BY <1>2 DEF IInv, Types, CacheHit, CommitHit, CacheResult, Respond, Finish, Goto
<1>3. CASE WarmCache(r) \/ ProviderFails(r) \/ StatementFails(r) \/ CommitFails(r)
  BY <1>3 DEF IInv, Types, WarmCache, ProviderFails, StatementFails, CommitFails, Finish, Goto
<1>4. CASE \/ CacheMiss(r) \/ LatestFresh(r) \/ LatestStale(r) \/ RecordHit(r) \/ ProviderAnswers(r)
           \/ SameHash(r) \/ Changed(r) \/ InsertRow(r) \/ RecordCheck(r) \/ CommitCheck(r)
  BY <1>4 DEF IInv, Types, CacheMiss, LatestFresh, LatestStale, RecordHit, ProviderAnswers,
              SameHash, Changed, InsertRow, RecordCheck, CommitCheck, Goto
<1>5. QED
  BY <1>1, <1>2, <1>3, <1>4 DEF Moves, Advance

(* When it does not move either, nothing happens but that. *)
LEMMA NobodyMoves ==
    ASSUME IInv, Tick \/ (\E d \in Ttls : SetTtlDays(d)) \/ UNCHANGED vars
    PROVE  rows' = rows /\ cache' = cache /\ nextId' = nextId /\ \A q \in Requests : Unmoved(q)
BY DEF Tick, SetTtlDays, vars, store, locals, Unmoved

(* A step is of one of three kinds. *)
LEMMA Steps ==
    ASSUME [Next]_vars
    PROVE  \/ \E r \in Requests : Moves(r)
           \/ Crash
           \/ Tick \/ (\E d \in Ttls : SetTtlDays(d)) \/ UNCHANGED vars
BY DEF Next, Moves

-----------------------------------------------------------------------------
(* How old an answer can be *)

(* The numbers in an entry of Redis. *)
LEMMA EntryTypes ==
    ASSUME IInv
    PROVE  /\ \A e \in Emails : cache[e] # None =>
                 cache[e] \in Entry /\ cache[e].expires \in Nat /\ cache[e].result.checked_at \in Nat
           /\ \A r \in Requests : pc[r] # "idle" => Email(r) \in Emails
           /\ \A t \in Ttls : t \in Nat /\ t >= 1
<1>1. \A e \in Entry : e.expires \in Nat /\ e.result.checked_at \in Nat
  BY DEF Entry, Result
<1>2. \A t \in Ttls : t \in Nat /\ t >= 1
  BY TtlAssumption
<1>3. QED
  BY <1>1, <1>2, NormaliseAssumption DEF IInv, Types, Requested, InHand, Email

(* An answer is the result it was given, but for the spelling. *)
LEMMA AnswerKeeps ==
    ASSUME IInv, NEW r \in Requests, NEW source, NEW result \in Result, Respond(r, source, result),
           answer'[r] # None
    PROVE  /\ answer'[r].result.outcome = result.outcome
           /\ answer'[r].result.checked_at = result.checked_at
BY DEF IInv, Types, Respond, Finish, Result

(* A row found fresh is a TTL old at most when it was found. *)
LEMMA FoundFreshStep == IInv /\ Clocked /\ Aged /\ [Next]_vars => (\A q \in Requests : FoundFresh(q))'
<1> SUFFICES ASSUME IInv, Clocked, Aged, [Next]_vars PROVE (\A q \in Requests : FoundFresh(q))'
  OBVIOUS
<1>1. ASSUME NEW r \in Requests, Moves(r) PROVE (\A q \in Requests : FoundFresh(q))'
  <2>1. \A q \in Requests \ {r} : FoundFresh(q)'
    BY <1>1, OneMoves DEF Unmoved, Aged, FoundFresh
  <2>2. CASE LatestFresh(r)
    <3>1. PICK x \in rows : Fresh(x) /\ row'[r] = x
      BY <2>2 DEF IInv, Types, LatestFresh
    <3>2. began[r] <= x.result.checked_at + (ttl - 1) + MaxLag
      BY <2>2, <3>1, RowTypes, EntryTypes DEF Clocked, Timed, Dated, Serving, LatestFresh, Fresh
    <3>3. FoundFresh(r)'
      BY <2>2, <3>1, <3>2, RowTypes DEF LatestFresh, FoundFresh
    <3>4. QED
      BY <2>1, <3>3
  <2>3. CASE RecordHit(r)
    BY <2>1, <2>3 DEF RecordHit, Aged, FoundFresh
  <2>4. CASE WarmCache(r)
    BY <2>1, <2>4 DEF IInv, Types, WarmCache, Finish, Goto, Aged, FoundFresh
  <2>5. CASE pc'[r] \notin {"hitEvent", "hitCache", "hitCommit"}
    BY <2>1, <2>5 DEF FoundFresh
  <2>6. QED
    BY <1>1, <2>2, <2>3, <2>4, <2>5
    DEF IInv, Types, Moves, Advance, Start, CacheHit, CacheMiss, LatestStale, CommitHit, ProviderAnswers,
        ProviderFails, SameHash, Changed, InsertRow, RecordCheck, CommitCheck, CacheResult, StatementFails, CommitFails,
        Respond, Finish, Goto
<1>2. CASE Crash
  BY <1>2 DEF Crash, InFlight, Aged, FoundFresh
<1>3. CASE Tick \/ (\E d \in Ttls : SetTtlDays(d)) \/ UNCHANGED vars
  BY <1>3, NobodyMoves DEF Unmoved, Aged, FoundFresh
<1>4. QED
  BY <1>1, <1>2, <1>3, Steps

(* Redis keeps what it is given for a TTL. *)
LEMMA EntriesExpireStep == IInv /\ Clocked /\ Aged /\ [Next]_vars => EntriesExpire'
<1> SUFFICES ASSUME IInv, Clocked, Aged, [Next]_vars PROVE EntriesExpire'
  OBVIOUS
<1>1. ASSUME NEW r \in Requests, NEW x, x.checked_at \in Nat, CacheSet(Email(r), x), NEW t \in Ttls,
             now <= x.checked_at + (t - 1) + 2 * MaxLag
      PROVE  EntriesExpire'
  <2>1. now + ttl <= x.checked_at + (t - 1) + ttl + 2 * MaxLag
    BY <1>1, RowTypes, EntryTypes
  <2>2. QED
    BY <1>1, <2>1, RowTypes DEF IInv, Types, CacheSet, Aged, EntriesExpire
<1>2. ASSUME NEW r \in Requests, WarmCache(r) PROVE EntriesExpire'
  <2>1. row[r] # None
    BY <1>2, NoneAssumption DEF IInv, Requested, InHand, WarmCache
  <2>2. PICK t \in Ttls : began[r] <= row[r].result.checked_at + (t - 1) + MaxLag
    BY <1>2 DEF Aged, FoundFresh, WarmCache
  <2>3. now <= row[r].result.checked_at + (t - 1) + 2 * MaxLag
    BY <1>2, <2>1, <2>2, RowTypes, EntryTypes DEF Clocked, Timed, Serving, WarmCache
  <2>4. QED
    BY <1>1, <1>2, <2>1, <2>3, RowTypes DEF WarmCache
<1>3. ASSUME NEW r \in Requests, CacheResult(r) PROVE EntriesExpire'
  <2>1. raw[r] # None
    BY <1>3, NoneAssumption DEF IInv, Requested, InHand, CacheResult
  <2>2. now <= raw[r].checked_at + (ttl - 1) + 2 * MaxLag
    BY <1>3, <2>1, RowTypes, EntryTypes DEF Clocked, Timed, Serving, CacheResult
  <2>3. QED
    BY <1>1, <1>3, <2>1, <2>2, RowTypes DEF CacheResult
<1>4. CASE UNCHANGED cache
  BY <1>4 DEF Aged, EntriesExpire
<1>5. QED
  BY <1>2, <1>3, <1>4
  DEF Next, Advance, Start, CacheHit, CacheMiss, LatestFresh, LatestStale, RecordHit, CommitHit,
      ProviderAnswers, ProviderFails, SameHash, Changed, InsertRow, RecordCheck, CommitCheck,
      StatementFails, CommitFails, Crash, Tick, SetTtlDays, vars

(* A database hit puts a row that is nearly a TTL old in Redis for another   *)
(* TTL, and that is the worst there is: no unforced answer is older than two *)
(* TTLs and what the two requests lasted, whatever values the TTL takes.     *)
THEOREM AnswersAreRecent == Spec => AnswersWithinTwoTtls
<1>1. Init => Aged
  BY DEF Init, Aged, FoundFresh, EntriesExpire
<1>2. IInv /\ Clocked /\ Aged /\ [Next]_vars => Aged'
  BY FoundFreshStep, EntriesExpireStep DEF Aged
<1>3. Spec => []Aged
  BY <1>1, <1>2, Invariant, ClockedAlways, PTL DEF Spec
<1> DEFINE Recent == \A r \in Requests : Answers(r) =>
                        \E t, u \in Ttls : Age(r) <= (t - 1) + (u - 1) + 2 * MaxLag
<1>4. IInv /\ Clocked /\ Aged /\ [Next]_vars => [Recent]_vars
  <2> SUFFICES ASSUME IInv, Clocked, Aged, Next, NEW r \in Requests, Answers(r)
               PROVE  \E t, u \in Ttls : Age(r) <= (t - 1) + (u - 1) + 2 * MaxLag
    OBVIOUS
  <2>1. CASE CacheHit(r)
    <3>1. cache[Email(r)] # None /\ now < cache[Email(r)].expires /\ Email(r) \in Emails
      BY <2>1, EntryTypes DEF CacheHit, Hit
    <3>2. answer'[r].result.checked_at = cache[Email(r)].result.checked_at
      BY <2>1, <3>1, AnswerKeeps DEF IInv, Types, CacheHit, Answers, Entry
    <3>3. PICK t, u \in Ttls :
             cache[Email(r)].expires <= cache[Email(r)].result.checked_at + (t - 1) + u + 2 * MaxLag
      BY <3>1 DEF Aged, EntriesExpire
    <3>4. now - cache[Email(r)].result.checked_at <= (t - 1) + (u - 1) + 2 * MaxLag
      BY <3>1, <3>3, RowTypes, EntryTypes
    <3>5. QED
      BY <3>2, <3>4 DEF Age
  <2>2. CASE CommitHit(r)
    <3>1. row[r] # None
      BY <2>2, NoneAssumption DEF IInv, Requested, InHand, CommitHit
    <3>2. answer'[r].result.checked_at = row[r].result.checked_at
      BY <2>2, <3>1, AnswerKeeps, RowTypes DEF CommitHit, Answers, Row
    <3>3. PICK t \in Ttls : began[r] <= row[r].result.checked_at + (t - 1) + MaxLag
      BY <2>2 DEF Aged, FoundFresh, CommitHit
    <3>4. now - row[r].result.checked_at <= (t - 1) + (t - 1) + 2 * MaxLag
      BY <2>2, <3>1, <3>3, RowTypes, EntryTypes DEF Clocked, Timed, Serving, CommitHit
    <3>5. QED
      BY <3>2, <3>4 DEF Age
  <2>3. CASE CacheResult(r)
    <3>1. raw[r] # None
      BY <2>3, NoneAssumption DEF IInv, Requested, InHand, CacheResult
    <3>2. answer'[r].result.checked_at = raw[r].checked_at
      BY <2>3, <3>1, AnswerKeeps, RowTypes DEF CacheResult, Answers
    <3>3. now - raw[r].checked_at <= (ttl - 1) + (ttl - 1) + 2 * MaxLag
      BY <2>3, <3>1, RowTypes, EntryTypes DEF Clocked, Timed, Serving, CacheResult
    <3>4. QED
      BY <3>2, <3>3, RowTypes DEF Age
  <2>4. CASE answer'[r] \in {answer[r], None}
    BY <2>4 DEF Answers
  <2>5. QED
    <3>1. ASSUME NEW q \in Requests, Moves(q), q # r PROVE answer'[r] = answer[r]
      BY <3>1, OneMoves DEF Unmoved
    <3>2. CASE Moves(r)
      BY <2>1, <2>2, <2>3, <2>4, <3>2
      DEF IInv, Types, Moves, Advance, Start, CacheMiss, LatestFresh, LatestStale, RecordHit, WarmCache,
          ProviderAnswers, ProviderFails, SameHash, Changed, InsertRow, RecordCheck, CommitCheck,
          StatementFails, CommitFails, Finish
    <3>3. CASE Crash
      BY <2>4, <3>3 DEF Crash
    <3>4. CASE Tick \/ (\E d \in Ttls : SetTtlDays(d)) \/ UNCHANGED vars
      BY <2>4, <3>4, NobodyMoves DEF Unmoved
    <3>5. QED
      BY <2>4, <3>1, <3>2, <3>3, <3>4, Steps
<1>5. QED
  BY <1>3, <1>4, Invariant, ClockedAlways, PTL DEF Spec, AnswersWithinTwoTtls

-----------------------------------------------------------------------------
(* Which checks can repeat a revision *)

(* A result becomes visible when the check that inserted it commits. *)
LEMMA NewRows ==
    ASSUME IInv, [Next]_vars
    PROVE  /\ rows \subseteq rows'
           /\ \A x \in rows' \ rows : \E r \in Requests :
                 /\ pc[r] = "commit" /\ "row" \in dirty[r] /\ x = row[r]
                 /\ rows' = rows \cup {x}
<1>1. ASSUME NEW r \in Requests, CommitHit(r) PROVE rows' = rows
  BY <1>1 DEF IInv, Requested, Transaction, CommitHit, Commit
<1>2. ASSUME NEW r \in Requests, CommitCheck(r)
      PROVE  pc[r] = "commit" /\ rows' = IF "row" \in dirty[r] THEN rows \cup {row[r]} ELSE rows
  BY <1>2 DEF CommitCheck, Commit
<1>3. ASSUME NEW r \in Requests, CommitFails(r)
      PROVE  \/ rows' = rows
             \/ pc[r] = "commit" /\ "row" \in dirty[r] /\ rows' = rows \cup {row[r]}
  BY <1>3 DEF IInv, Requested, Transaction, CommitFails, Commit
<1>4. QED
  BY <1>1, <1>2, <1>3
  DEF Next, Advance, Start, CacheHit, CacheMiss, LatestFresh, LatestStale, RecordHit, WarmCache,
      ProviderAnswers, ProviderFails, SameHash, Changed, InsertRow, RecordCheck, CacheResult,
      StatementFails, Crash, Tick, SetTtlDays, vars, store

(* A result that becomes visible was made while every request in flight was  *)
(* being served, or not long before.                                         *)
LEMMA NewRowsAreRecent ==
    ASSUME IInv, Clocked, [Next]_vars, NEW q \in Requests, Serving(q), NEW x \in rows' \ rows
    PROVE  ~(x.created_at + MaxLag < began[q])
<1>1. PICK r \in Requests : pc[r] = "commit" /\ "row" \in dirty[r] /\ x = row[r]
  BY NewRows
<1>2. began[r] <= x.created_at /\ now <= began[r] + MaxLag /\ began[q] <= now
  BY <1>1 DEF Clocked, Timed, Serving, Unseen
<1>3. row[r] # None
  BY <1>1, RowTypes DEF Unseen
<1>4. QED
  BY <1>1, <1>2, <1>3, RowTypes

(* What a request that does not move has compared stays so. *)
LEMMA ComparedUnmoved ==
    ASSUME IInv, Clocked, [Next]_vars, NEW q \in Requests, Compared(q), Unmoved(q)
    PROVE  Compared(q)'
<1>1. Email(q)' = Email(q) /\ RowsOf(Email(q)) \subseteq RowsOf(Email(q))' /\ RereadsSnapshot(q)' = RereadsSnapshot(q)
  BY NewRows DEF Unmoved, Email, RowsOf, RereadsSnapshot
<1>2. ASSUME NEW x \in rows', Serving(q), Over(q, x)' PROVE x \in rows /\ Over(q, x)
  BY <1>1, <1>2, NewRowsAreRecent DEF Over, Unmoved
<1>3. \A x : Same(q, x)' <=> Same(q, x)
  BY DEF Same, Hash, Unmoved
<1>4. "row" \in dirty[q] => Serving(q)
  BY DEF IInv, Requested, Transaction, Serving
<1>5. QED
  BY <1>1, <1>2, <1>3, <1>4 DEF Compared, Unmoved, Serving, NewerThan

(* When a request finds the outcome changed, a row with that outcome that    *)
(* was there when it began is not the newest.                                *)
LEMMA ComparedChanged ==
    ASSUME IInv, Clocked, NEW r \in Requests, Compared(r), Changed(r)
    PROVE  Compared(r)'
<1>1. PICK x \in rows \cup {None} : Current(r, x) /\ (x # None => Hash(x.result) # Hash(raw[r]))
  BY DEF Changed
<1>2. pc'[r] = "insert" /\ "row" \notin dirty'[r] /\ rows' = rows /\ Email(r)' = Email(r)
      /\ raw' = raw /\ began' = began /\ row'[r].created_at = now
  BY DEF IInv, Types, Requested, Transaction, Changed, Unsaved, Goto, store, Email
<1>3. row[r] # None => row[r] \in RowsOf(Email(r))
  BY DEF IInv, Requested, InHand, Transaction, Changed, RowsOf
<1>4. ASSUME NEW y \in rows, Over(r, y), Same(r, y)
      PROVE  \E z \in RowsOf(Email(r)) : NewerThan(z, y)
  <2>1. CASE RereadsSnapshot(r)
    <3>1. row[r] # None /\ (y = row[r] \/ NewerThan(row[r], y))
      BY <2>1, <1>4 DEF Compared, Changed
    <3>2. x = row[r]
      BY <2>1, <1>1 DEF Current
    <3>3. QED
      BY <3>1, <3>2, <1>1, <1>3, <1>4 DEF Same
  <2>2. CASE ~RereadsSnapshot(r)
    <3>1. x # None /\ IsLatest(x, Email(r))
      BY <2>2, <1>1, <1>4, RowTypes, NoneAssumption DEF Current, IsLatest, Over, RowsOf
    <3>2. y \in RowsOf(Email(r)) /\ y # x
      BY <3>1, <1>1, <1>4 DEF Over, Same, RowsOf
    <3>3. QED
      BY <3>1, <3>2 DEF IsLatest
  <2>3. QED
    BY <2>1, <2>2
<1>5. \A z \in rows : z.created_at <= now
  BY DEF Clocked, Dated
<1>6. QED
  BY <1>2, <1>4, <1>5 DEF Compared, Over, Same, Hash, RowsOf, NewerThan

(* Its INSERT gives the row an id above those that are there. *)
LEMMA ComparedInserted ==
    ASSUME IInv, NEW r \in Requests, Compared(r), InsertRow(r)
    PROVE  Compared(r)'
<1>1. row[r] \in Row /\ pc[r] = "insert"
  BY DEF IInv, Requested, InHand, InsertRow
<1>2. /\ pc'[r] = "event" /\ rows' = rows /\ Email(r)' = Email(r) /\ raw' = raw /\ began' = began
      /\ row'[r].created_at = row[r].created_at /\ row'[r].id = nextId
  BY <1>1 DEF IInv, Types, InsertRow, Goto, Email, Row
<1>3. ASSUME NEW z \in rows, z.created_at <= row[r].created_at PROVE NewerThan(row'[r], z)
  <2>1. z.id < nextId
    BY DEF IInv, IdsBelowNext
  <2>2. row[r] # None
    BY <1>1, NoneAssumption
  <2>3. QED
    BY <1>2, <1>3, <2>1, <2>2, RowTypes DEF NewerThan
<1>4. QED
  BY <1>1, <1>2, <1>3 DEF Compared, Over, Same, Hash, RowsOf, NewerThan

(* Every step keeps what requests have compared. *)
LEMMA ComparedStep ==
    IInv /\ Clocked /\ (\A q \in Requests : Compared(q)) /\ [Next]_vars => (\A q \in Requests : Compared(q))'
<1> SUFFICES ASSUME IInv, Clocked, \A q \in Requests : Compared(q), [Next]_vars
             PROVE  (\A q \in Requests : Compared(q))'
  OBVIOUS
<1>1. ASSUME NEW r \in Requests, Moves(r) PROVE (\A q \in Requests : Compared(q))'
  <2>1. \A q \in Requests \ {r} : Compared(q)'
    BY <1>1, OneMoves, ComparedUnmoved
  <2>2. CASE LatestStale(r)
    <3>1. "row" \notin dirty'[r] /\ pc'[r] = "provider" /\ rows' = rows /\ Email(r)' = Email(r) /\ began' = began
      BY <2>2 DEF IInv, Types, Requested, Transaction, LatestStale, Goto, store, Email
    <3>2. RowsOf(Email(r)) = {} \/ \E x \in rows : IsLatest(x, Email(r)) /\ row'[r] = x
      BY <2>2 DEF IInv, Types, LatestStale
    <3>3. \A x \in rows : x # None
      BY RowTypes, NoneAssumption
    <3>4. Compared(r)'
      BY <3>1, <3>2, <3>3 DEF Compared, Over, IsLatest, RowsOf, NewerThan
    <3>5. QED
      BY <2>1, <3>4
  <2>3. CASE ProviderAnswers(r)
    <3>1. /\ "row" \notin dirty'[r] /\ pc[r] = "provider" /\ pc'[r] = "compare" /\ rows' = rows
          /\ Email(r)' = Email(r) /\ began' = began /\ row' = row /\ RereadsSnapshot(r)' = RereadsSnapshot(r)
      BY <2>3 DEF IInv, Types, Requested, Transaction, ProviderAnswers, Goto, store, Email, RereadsSnapshot
    <3>2. Compared(r)'
      BY <3>1 DEF Compared, Over, NewerThan
    <3>3. QED
      BY <2>1, <3>2
  <2>4. CASE Changed(r)
    BY <2>1, <2>4, ComparedChanged
  <2>5. CASE InsertRow(r)
    BY <2>1, <2>5, ComparedInserted
  <2>6. CASE RecordCheck(r)
    <3>1. /\ pc'[r] = "commit" /\ rows' = rows /\ Email(r)' = Email(r) /\ began' = began /\ row' = row
          /\ raw' = raw /\ ("row" \in dirty'[r] => "row" \in dirty[r])
      BY <2>6 DEF IInv, Types, RecordCheck, Goto, store, Email
    <3>2. Compared(r)'
      BY <3>1 DEF Compared, Over, Same, Hash, RowsOf, NewerThan
    <3>3. QED
      BY <2>1, <3>2
  <2>7. CASE "row" \notin dirty'[r] /\ (pc'[r] \in {"provider", "compare"} => force'[r]) /\ pc'[r] # "insert"
    BY <2>1, <2>7 DEF Compared, RereadsSnapshot
  <2>8. QED
    BY <1>1, <2>2, <2>3, <2>4, <2>5, <2>6, <2>7
    DEF IInv, Types, Requested, Transaction, Moves, Advance, Start, CacheHit, CacheMiss, LatestFresh,
        RecordHit, WarmCache, CommitHit, ProviderFails, SameHash, CommitCheck, CacheResult, StatementFails, CommitFails,
        Respond, Finish, Goto
<1>2. CASE Crash
  BY <1>2 DEF Crash, InFlight, Compared
<1>3. CASE Tick \/ (\E d \in Ttls : SetTtlDays(d)) \/ UNCHANGED vars
  BY <1>3, NobodyMoves, ComparedUnmoved
<1>4. QED
  BY <1>1, <1>2, <1>3, Steps

(* A revision that repeats the one before it is the work of two checks that  *)
(* overlapped: who begins when the other must be over has seen its row.      *)
THEOREM OnlyOverlapsRepeat == Spec => RepeatsNeedOverlap
<1>1. Init => \A q \in Requests : Compared(q)
  BY DEF Init, Compared
<1>2. Spec => []\A q \in Requests : Compared(q)
  BY <1>1, ComparedStep, Invariant, ClockedAlways, PTL DEF Spec
<1> DEFINE New(r) == pc[r] = "commit" =>
          \A x \in rows :
              x.email = Email(r) /\ row[r] \in rows' \ rows /\ x.created_at + MaxLag < began[r] =>
                  ~(Adjacent(x, row[r]) /\ Hash(x.result) = Hash(raw[r]))
           Needed == \A r \in Requests : New(r)
<1>3. IInv /\ (\A q \in Requests : Compared(q)) /\ [Next]_vars => [Needed]_vars
  <2> SUFFICES ASSUME IInv, \A q \in Requests : Compared(q), Next, NEW r \in Requests, pc[r] = "commit",
                      NEW x \in rows, x.email = Email(r), row[r] \in rows' \ rows,
                      x.created_at + MaxLag < began[r], Hash(x.result) = Hash(raw[r])
               PROVE  ~Adjacent(x, row[r])
    OBVIOUS
  <2>1. "row" \in dirty[r]
    BY NoneAssumption DEF IInv, Requested, InHand
  <2>2. \E z \in RowsOf(Email(r)) : NewerThan(z, x) /\ NewerThan(row[r], z)
    BY <2>1 DEF Compared, Over, Same
  <2>3. QED
    BY <2>2 DEF Adjacent
<1>4. QED
  BY <1>2, <1>3, Invariant, PTL DEF Spec, RepeatsNeedOverlap

(* A result can become visible behind a newer one on every backend, because  *)
(* it is dated before its INSERT waits; but only behind one that was made    *)
(* while its own check was under way, and on SQLite with a higher id.        *)
THEOREM LateOnlyByOverlap == Spec => StepsBackOnlyByOverlap
<1> DEFINE Behind == \A r \in Requests : pc[r] = "commit" /\ row[r] \in rows' \ rows =>
              \A y \in RowsOf(Email(r)) :
                  /\ NewerThan(y, row[r]) => y.created_at >= began[r]
                  /\ Backend = "sqlite" => y.id < row[r].id
<1>1. IInv /\ Clocked /\ [Next]_vars => [Behind]_vars
  <2> SUFFICES ASSUME IInv, Clocked, NEW r \in Requests, pc[r] = "commit", row[r] \in rows' \ rows,
                      NEW y \in RowsOf(Email(r)), row[r] \in Row
               PROVE  /\ NewerThan(y, row[r]) => y.created_at >= began[r]
                      /\ Backend = "sqlite" => y.id < row[r].id
    BY DEF IInv, Requested, InHand
  <2>1. "row" \in dirty[r] /\ row[r] # None /\ y \in rows
    BY NoneAssumption DEF IInv, Requested, InHand, RowsOf
  <2>2. began[r] <= row[r].created_at
    BY <2>1 DEF Clocked, Unseen
  <2>3. NewerThan(y, row[r]) => y.created_at >= began[r]
    BY <2>1, <2>2, RowTypes DEF NewerThan
  <2>4. Backend = "sqlite" => y.id < row[r].id
    BY <2>1 DEF IInv, OneWriter
  <2>5. QED
    BY <2>3, <2>4
<1>2. QED
  BY <1>1, Invariant, ClockedAlways, PTL DEF Spec, StepsBackOnlyByOverlap

-----------------------------------------------------------------------------
(* One request at a time *)

(* The rows of an address are in order. *)
LEMMA Order ==
    ASSUME IInv
    PROVE  /\ \A x, y \in rows : x # y => NewerThan(x, y) \/ NewerThan(y, x)
           /\ \A x, y \in rows : ~(NewerThan(x, y) /\ NewerThan(y, x))
           /\ \A r \in Requests : "row" \in dirty[r] =>
                 ~NewerThan(row[r], row[r]) /\ \A y \in rows : ~(NewerThan(row[r], y) /\ NewerThan(y, row[r]))
<1>1. \A x, y \in rows : x.id = y.id => x = y
  BY DEF IInv, RowIdsUnique
<1>2. QED
  BY <1>1, RowTypes DEF NewerThan, Unseen

(* Who moves is being served before or after, and nobody else is. *)
LEMMA AloneStep ==
    ASSUME MaxInFlight = 1, IInv, Alone, NEW r \in Requests, Moves(r)
    PROVE  \A q \in Requests \ {r} : ~Serving(q) /\ ~Serving(q)'
<1>1. CASE \E i \in Inputs, f \in BOOLEAN : Start(r, i, f)
  <2>1. Cardinality(InFlight) < 1
    BY <1>1 DEF Start
  <2>2. ASSUME NEW q \in Requests, Serving(q) PROVE FALSE
    <3>1. InFlight = {q}
      BY <2>2 DEF InFlight, Alone, Serving
    <3>2. QED
      BY <2>1, <3>1, FS_Singleton
  <2>3. QED
    BY <2>2, <1>1, OneMoves DEF Unmoved, Serving
<1>2. CASE Serving(r)
  BY <1>2, OneMoves DEF Alone, Unmoved, Serving
<1>3. QED
  BY <1>1, <1>2
  DEF Moves, Advance, CacheHit, CacheMiss, LatestFresh, LatestStale, RecordHit, WarmCache, CommitHit,
      ProviderAnswers, ProviderFails, SameHash, Changed, InsertRow, RecordCheck, CommitCheck,
      CacheResult, StatementFails, CommitFails, Serving

(* The bound on the requests in flight is kept. *)
LEMMA AloneKept ==
    ASSUME MaxInFlight = 1, IInv, Alone, [Next]_vars
    PROVE  Alone'
<1>1. ASSUME NEW r \in Requests, Moves(r) PROVE Alone'
  BY <1>1, AloneStep DEF Alone
<1>2. CASE Crash
  BY <1>2 DEF Crash, InFlight, Alone, Serving
<1>3. CASE Tick \/ (\E d \in Ttls : SetTtlDays(d)) \/ UNCHANGED vars
  BY <1>3, NobodyMoves DEF Unmoved, Alone, Serving
<1>4. QED
  BY <1>1, <1>2, <1>3, Steps

(* A request that is not being served claims to know nothing. *)
LEMMA KnowsNothing == ASSUME IInv, NEW q \in Requests, ~Serving(q) PROVE Knows(q)
BY DEF IInv, Requested, Transaction, Serving, Knows, Unseen

(* The row in hand of a check that found its outcome again is the newest. *)
LEMMA KnowsSame == ASSUME IInv, NEW r \in Requests, Knows(r), SameHash(r) PROVE Knows(r)'
<1>1. PICK x \in rows : Current(r, x) /\ row'[r] = x
  BY DEF IInv, Types, SameHash
<1>2. x # None
  BY RowTypes, NoneAssumption
<1>3. IsLatest(x, Email(r))
  BY <1>1, <1>2 DEF Current, Knows, Unseen, IsCurrent, SameHash
<1>4. pc'[r] = "event" /\ "row" \notin dirty'[r] /\ rows' = rows /\ Email(r)' = Email(r)
  BY DEF IInv, Types, Requested, Transaction, SameHash, Goto, store, Email
<1>5. QED
  BY <1>1, <1>3, <1>4 DEF Knows, Unseen, IsLatest, RowsOf, NewerThan

(* One that found it changed inserts what the newest does not say. *)
LEMMA KnowsChanged == ASSUME IInv, Clocked, NEW r \in Requests, Knows(r), Changed(r) PROVE Knows(r)'
<1>1. PICK x \in rows \cup {None} : Current(r, x) /\ (x # None => Hash(x.result) # Hash(raw[r]))
  BY DEF Changed
<1>2. IsCurrent(r, x)
  BY <1>1, RowTypes, NoneAssumption DEF Current, Knows, Unseen, IsCurrent, IsLatest, RowsOf, Changed
<1>3. \A y \in rows : IsLatest(y, Email(r)) => ~Same(r, y)
  BY <1>1, <1>2, Order DEF IsCurrent, IsLatest, RowsOf, Same
<1>4. pc'[r] = "insert" /\ "row" \notin dirty'[r] /\ rows' = rows /\ Email(r)' = Email(r) /\ raw' = raw
      /\ row'[r].created_at = now
  BY DEF IInv, Types, Requested, Transaction, Changed, Unsaved, Goto, store, Email
<1>5. \A z \in rows : z.created_at <= now
  BY DEF Clocked, Dated
<1>6. QED
  BY <1>3, <1>4, <1>5 DEF Knows, Unseen, IsLatest, RowsOf, NewerThan, Same, Hash

(* Its row is the newest of the address, first to itself and then to all. *)
LEMMA KnowsInserted == ASSUME IInv, NEW r \in Requests, Knows(r), InsertRow(r) PROVE Knows(r)'
<1>1. row[r] \in Row /\ row[r] # None /\ pc[r] = "insert"
  BY NoneAssumption DEF IInv, Requested, InHand, InsertRow
<1>2. /\ pc'[r] = "event" /\ rows' = rows /\ Email(r)' = Email(r) /\ raw' = raw
      /\ row'[r].created_at = row[r].created_at /\ row'[r].id = nextId /\ "row" \in dirty'[r]
  BY <1>1 DEF IInv, Types, InsertRow, Goto, Email, Row
<1>3. \A z \in RowsOf(Email(r)) : NewerThan(row'[r], z)
  <2>1. \A z \in RowsOf(Email(r)) : z \in rows /\ z.created_at <= row[r].created_at /\ z.id < nextId
    BY <1>1 DEF Knows, Unseen, IInv, IdsBelowNext, RowsOf
  <2>2. QED
    BY <1>1, <1>2, <2>1, RowTypes DEF NewerThan
<1>4. QED
  BY <1>1, <1>2, <1>3 DEF Knows, Unseen, IsLatest, RowsOf, NewerThan, Same, Hash

(* Its commit makes the row in hand the newest of all. *)
LEMMA KnowsCommitted == ASSUME IInv, NEW r \in Requests, Knows(r), CommitCheck(r) PROVE Knows(r)'
<1>1. /\ pc[r] = "commit" /\ pc'[r] = "set" /\ dirty'[r] = {} /\ row' = row /\ Email(r)' = Email(r)
      /\ rows' = IF "row" \in dirty[r] THEN rows \cup {row[r]} ELSE rows
  BY DEF IInv, Types, CommitCheck, Commit, Goto, Email
<1>2. row[r].email = Email(r)
  BY <1>1, NoneAssumption DEF IInv, Requested, InHand
<1>3. IsLatest(row[r], Email(r))'
  <2>1. CASE "row" \in dirty[r]
    <3>1. RowsOf(Email(r))' = RowsOf(Email(r)) \cup {row[r]}
      BY <1>1, <1>2, <2>1 DEF RowsOf
    <3>2. \A y \in RowsOf(Email(r)) : NewerThan(row[r], y)
      BY <2>1 DEF Knows, Unseen
    <3>3. QED
      BY <1>1, <3>1, <3>2 DEF IsLatest, NewerThan
  <2>2. CASE "row" \notin dirty[r]
    BY <1>1, <2>2 DEF Knows, Unseen, IsLatest, RowsOf, NewerThan
  <2>3. QED
    BY <2>1, <2>2
<1>4. QED
  BY <1>1, <1>3 DEF Knows, Unseen

(* Whoever is served alone knows the newest row. *)
LEMMA KnowsStep ==
    ASSUME MaxInFlight = 1, IInv, Clocked, Alone, \A q \in Requests : Knows(q), [Next]_vars
    PROVE  (\A q \in Requests : Knows(q))'
<1>1. ASSUME NEW r \in Requests, Moves(r) PROVE (\A q \in Requests : Knows(q))'
  <2>1. \A q \in Requests \ {r} : Knows(q)'
    BY <1>1, AloneStep, NextInv, KnowsNothing DEF IInv, Requested, Transaction, Serving, Knows, Unseen, Unmoved
  <2>2. CASE LatestFresh(r) \/ LatestStale(r)
    <3>1. /\ pc'[r] \in {"hitEvent", "provider"} /\ "row" \notin dirty'[r] /\ rows' = rows /\ Email(r)' = Email(r)
          /\ \/ pc'[r] = "provider" /\ RowsOf(Email(r)) = {} /\ row' = row
             \/ \E x \in rows : IsLatest(x, Email(r)) /\ row'[r] = x
      BY <2>2 DEF IInv, Types, Requested, Transaction, LatestFresh, LatestStale, Goto, store, Email
    <3>2. row[r] # None => row[r] \in RowsOf(Email(r))
      BY <2>2 DEF IInv, Requested, InHand, Transaction, LatestFresh, LatestStale, RowsOf
    <3>3. \A x \in rows : x # None
      BY RowTypes, NoneAssumption
    <3>4. Knows(r)'
      BY <3>1, <3>2, <3>3 DEF Knows, Unseen, IsCurrent, IsLatest, RowsOf, NewerThan
    <3>5. QED
      BY <2>1, <3>4
  <2>3. CASE RecordHit(r) \/ WarmCache(r) \/ ProviderAnswers(r) \/ RecordCheck(r)
    <3>1. rows' = rows /\ Email(r)' = Email(r) /\ RereadsSnapshot(r)' = RereadsSnapshot(r)
      BY <2>3 DEF RecordHit, WarmCache, ProviderAnswers, RecordCheck, Finish, store, Email, RereadsSnapshot
    <3>2. \/ pc'[r] = "done" /\ "row" \notin dirty'[r]
          \/ /\ row' = row /\ "row" \notin dirty'[r]
             /\ pc[r] \in {"hitEvent", "hitCache"} /\ pc'[r] \in {"hitCache", "hitCommit"}
          \/ /\ row' = row /\ "row" \notin dirty'[r]
             /\ pc[r] = "provider" /\ pc'[r] = "compare"
          \/ /\ row' = row /\ raw' = raw /\ ("row" \in dirty'[r] <=> "row" \in dirty[r])
             /\ pc[r] = "event" /\ pc'[r] = "commit"
      BY <2>3 DEF IInv, Types, Requested, Transaction, RecordHit, WarmCache, ProviderAnswers, RecordCheck,
                  Finish, Goto
    <3>3. Knows(r)'
      BY <3>1, <3>2 DEF Knows, Unseen, IsCurrent, IsLatest, RowsOf, NewerThan, Same, Hash
    <3>4. QED
      BY <2>1, <3>3
  <2>4. CASE SameHash(r) \/ Changed(r) \/ InsertRow(r) \/ CommitCheck(r)
    BY <2>1, <2>4, KnowsSame, KnowsChanged, KnowsInserted, KnowsCommitted
  <2>5. CASE "row" \notin dirty'[r] /\ pc'[r] \in {"get", "latest", "done"}
    BY <2>1, <2>5 DEF Knows, Unseen
  <2>6. ASSUME NEW i \in Inputs, NEW f \in BOOLEAN, Start(r, i, f) PROVE (\A q \in Requests : Knows(q))'
    <3>1. "row" \notin dirty'[r]
      BY <2>6 DEF IInv, Requested, Transaction, Start
    <3>2. CASE f
      <4>1. pc'[r] = "provider" /\ force'[r]
        BY <2>6, <3>2 DEF IInv, Types, Start, Goto
      <4>2. QED
        BY <2>1, <3>1, <4>1 DEF Knows, Unseen, RereadsSnapshot
    <3>3. CASE ~f
      <4>1. pc'[r] = "get"
        BY <2>6, <3>3 DEF IInv, Types, Start, Goto
      <4>2. QED
        BY <2>5, <3>1, <4>1
    <3>4. QED
      BY <3>2, <3>3
  <2>7. CASE \/ CacheHit(r) \/ CommitHit(r) \/ CacheResult(r) \/ ProviderFails(r)
             \/ StatementFails(r) \/ CommitFails(r)
    <3>1. \E a : Finish(r, a)
      BY <2>7 DEF CacheHit, CommitHit, CacheResult, ProviderFails, StatementFails, CommitFails, Respond
    <3>2. QED
      BY <2>5, <3>1 DEF IInv, Types, Finish, Goto
  <2>8. CASE CacheMiss(r)
    BY <2>5, <2>8 DEF IInv, Types, Requested, Transaction, CacheMiss, Goto
  <2>9. QED
    BY <1>1, <2>2, <2>3, <2>4, <2>6, <2>7, <2>8 DEF Moves, Advance
<1>2. CASE Crash
  BY <1>2 DEF Crash, InFlight, Knows, Unseen
<1>3. CASE Tick \/ (\E d \in Ttls : SetTtlDays(d)) \/ UNCHANGED vars
  BY <1>3, NobodyMoves
  DEF Unmoved, Knows, Unseen, IsCurrent, IsLatest, RowsOf, NewerThan, Same, Hash, Email, RereadsSnapshot
<1>4. QED
  BY <1>1, <1>2, <1>3, Steps

(* A row goes on top of one that says something else. *)
LEMMA NoRepeatStep ==
    ASSUME IInv, \A q \in Requests : Knows(q), NoRepeatedRevision, [Next]_vars
    PROVE  NoRepeatedRevision'
<1>1. ASSUME NEW x \in rows', NEW y \in rows', x.email = y.email, Adjacent(x, y)'
      PROVE  Hash(x.result) # Hash(y.result)
  <2>1. rows \subseteq rows' /\ NewerThan(y, x)
        /\ \A z \in rows' : z.email = x.email => ~(NewerThan(z, x) /\ NewerThan(y, z))
    BY <1>1, NewRows DEF Adjacent, RowsOf, NewerThan
  <2>2. CASE x \in rows /\ y \in rows
    BY <2>1, <2>2, <1>1 DEF NoRepeatedRevision, Adjacent, RowsOf
  <2>3. CASE x \notin rows \/ y \notin rows
    <3>1. PICK r \in Requests : "row" \in dirty[r] /\ pc[r] = "commit" /\ rows' = rows \cup {row[r]}
      BY <2>3, NewRows DEF CommitCheck
    <3>2. row[r].email = Email(r) /\ Hash(row[r].result) = Hash(raw[r])
      BY <3>1, NoneAssumption DEF IInv, Requested, InHand
    <3>3. \A z \in RowsOf(Email(r)) : NewerThan(row[r], z)
      BY <3>1 DEF Knows, Unseen
    <3>4. y = row[r] /\ x \in RowsOf(Email(r))
      BY <1>1, <2>1, <2>3, <3>1, <3>2, <3>3, Order DEF RowsOf
    <3>5. IsLatest(x, Email(r))
      BY <2>1, <3>2, <3>3, <3>4, Order DEF IsLatest, RowsOf
    <3>6. QED
      BY <3>1, <3>2, <3>4, <3>5 DEF Knows, Unseen, Same, RowsOf
  <2>4. QED
    BY <2>2, <2>3
<1>2. QED
  BY <1>1 DEF NoRepeatedRevision, Hash

(* What requests know that follow one another. *)
LEMMA SequentialAlways ==
    ASSUME MaxInFlight = 1
    PROVE  Spec => []Sequential
<1>1. Init => Sequential
  BY DEF Init, Sequential, Alone, Serving, Knows, Unseen, NoRepeatedRevision
<1>2. IInv /\ Clocked /\ Sequential /\ [Next]_vars => Sequential'
  BY AloneKept, KnowsStep, NoRepeatStep DEF Sequential
<1>3. QED
  BY <1>1, <1>2, Invariant, ClockedAlways, PTL DEF Spec

(* While checks follow one another a new row is written only when the result *)
(* changed, on each backend, whatever fails and wherever the process dies.   *)
THEOREM SequentialNeverRepeats ==
    ASSUME MaxInFlight = 1
    PROVE  Spec => []NoRepeatedRevision
<1>1. Sequential => NoRepeatedRevision
  BY DEF Sequential
<1>2. QED
  BY <1>1, SequentialAlways, PTL

-----------------------------------------------------------------------------
(* Answers are up to date *)

(* Only the request that has committed a revision keeps Redis behind it.     *)
LEMMA CacheCurrentStep ==
    ASSUME MaxInFlight = 1, {"redis", "crash", "commit"} \cap Faults = {},
           IInv, Sequential, CacheIsCurrent, [Next]_vars
    PROVE  CacheIsCurrent'
<1>1. ASSUME NEW e \in Emails, cache'[e] = cache[e], cache[e] # None,
             RowsOf(e)' = RowsOf(e), \A r \in Requests : pc[r] = "set" => pc'[r] = "set" /\ Email(r)' = Email(r)
      PROVE  ShowsNewest(e)' \/ \E r \in Requests : pc'[r] = "set" /\ Email(r)' = e
  BY <1>1 DEF CacheIsCurrent, ShowsNewest, IsLatest, RowsOf, NewerThan, Hash
<1>2. ASSUME NEW r \in Requests, Moves(r) PROVE CacheIsCurrent'
  <2>1. \A q \in Requests \ {r} : ~Serving(q)
    BY <1>2, AloneStep DEF Sequential
  <2>2. CASE CommitCheck(r)
    <3>1. /\ pc'[r] = "set" /\ Email(r)' = Email(r) /\ cache' = cache
          /\ rows' = IF "row" \in dirty[r] THEN rows \cup {row[r]} ELSE rows
      BY <2>2 DEF IInv, Types, CommitCheck, Commit, Goto, Email
    <3>2. row[r].email = Email(r)
      BY <2>2, NoneAssumption DEF IInv, Requested, InHand, CommitCheck
    <3>3. \A e \in Emails : e # Email(r) => RowsOf(e)' = RowsOf(e)
      BY <3>1, <3>2 DEF RowsOf
    <3>4. \A q \in Requests : pc[q] # "set"
      BY <2>1, <2>2 DEF Serving, CommitCheck
    <3>5. QED
      BY <1>1, <3>1, <3>3, <3>4 DEF CacheIsCurrent
  <2>3. CASE WarmCache(r)
    <3>1. /\ cache' = [cache EXCEPT ![Email(r)] = [result |-> row[r].result, expires |-> now + ttl]]
          /\ rows' = rows
      BY <2>3 DEF WarmCache, CacheSet, store
    <3>2. IsLatest(row[r], Email(r))
      BY <2>3 DEF Sequential, Knows, Unseen, WarmCache
    <3>3. \A q \in Requests : pc[q] # "set"
      BY <2>1, <2>3 DEF Serving, WarmCache
    <3>4. Email(r) \in Emails
      BY <2>3, EntryTypes DEF WarmCache
    <3>5. ASSUME NEW e \in Emails, e = Email(r) PROVE ShowsNewest(e)'
      <4>1. cache'[e].result = row[r].result
        BY <3>1, <3>5 DEF IInv, Types
      <4>2. \A x : IsLatest(x, e) => x \in rows' /\ IsLatest(x, e)'
        BY <3>1 DEF IsLatest, RowsOf, NewerThan
      <4>3. QED
        BY <3>2, <3>5, <4>1, <4>2 DEF ShowsNewest, Hash
    <3>6. \A e \in Emails : e # Email(r) => cache'[e] = cache[e] /\ RowsOf(e)' = RowsOf(e)
      BY <3>1 DEF IInv, Types, RowsOf
    <3>7. QED
      BY <1>1, <3>3, <3>5, <3>6 DEF CacheIsCurrent
  <2>4. CASE CacheResult(r)
    <3>1. /\ cache' = [cache EXCEPT ![Email(r)] = [result |-> raw[r], expires |-> now + ttl]]
          /\ rows' = rows
      BY <2>4 DEF CacheResult, CacheSet, store
    <3>2. IsLatest(row[r], Email(r)) /\ Hash(row[r].result) = Hash(raw[r])
      BY <2>4 DEF IInv, Requested, InHand, Sequential, Knows, Unseen, CacheResult
    <3>3. \A q \in Requests : pc[q] = "set" => Email(q) = Email(r)
      BY <2>1 DEF Serving
    <3>4. Email(r) \in Emails
      BY <2>4, EntryTypes DEF CacheResult
    <3>5. ASSUME NEW e \in Emails, e = Email(r) PROVE ShowsNewest(e)'
      <4>1. cache'[e].result = raw[r]
        BY <3>1, <3>5 DEF IInv, Types
      <4>2. \A x : IsLatest(x, e) => x \in rows' /\ IsLatest(x, e)'
        BY <3>1 DEF IsLatest, RowsOf, NewerThan
      <4>3. QED
        BY <3>2, <3>5, <4>1, <4>2 DEF ShowsNewest, Hash
    <3>6. \A e \in Emails : e # Email(r) => cache'[e] = cache[e] /\ (cache[e] # None => ShowsNewest(e))
      BY <3>1, <3>3 DEF IInv, Types, CacheIsCurrent
    <3>7. \A e \in Emails : ShowsNewest(e) /\ cache'[e] = cache[e] => ShowsNewest(e)'
      BY <3>1 DEF ShowsNewest, IsLatest, RowsOf, NewerThan, Hash
    <3>8. QED
      BY <3>5, <3>6, <3>7 DEF CacheIsCurrent
  <2>5. CASE rows' = rows /\ cache' = cache /\ pc[r] # "set"
    <3>1. \A q \in Requests : pc[q] # "set"
      BY <2>1, <2>5 DEF Serving
    <3>2. \A e : RowsOf(e)' = RowsOf(e)
      BY <2>5 DEF RowsOf
    <3>3. QED
      BY <1>1, <2>5, <3>1, <3>2 DEF CacheIsCurrent
  <2>6. CASE CommitHit(r)
    BY <2>5, <2>6 DEF IInv, Requested, Transaction, CommitHit, Commit
  <2>7. CASE CommitFails(r)
    BY <2>5, <2>7 DEF CommitFails
  <2>8. QED
    BY <1>2, <2>2, <2>3, <2>4, <2>5, <2>6, <2>7
    DEF Moves, Advance, Start, CacheHit, CacheMiss, LatestFresh, LatestStale, RecordHit,
        ProviderAnswers, ProviderFails, SameHash, Changed, InsertRow, RecordCheck, StatementFails, store
<1>3. CASE Tick \/ (\E d \in Ttls : SetTtlDays(d)) \/ UNCHANGED vars
  <2>1. \A e : RowsOf(e)' = RowsOf(e)
    BY <1>3, NobodyMoves DEF RowsOf
  <2>2. \A q \in Requests : pc'[q] = pc[q] /\ Email(q)' = Email(q)
    BY <1>3, NobodyMoves DEF Unmoved, Email
  <2>3. QED
    BY <1>1, <1>3, <2>1, <2>2, NobodyMoves DEF CacheIsCurrent
<1>4. QED
  BY <1>2, <1>3, Steps DEF Crash

(* While checks follow one another, Redis works, the process lives and a     *)
(* commit that raises took no effect, the answer says what the newest        *)
(* revision says, whichever source it comes from.                            *)
THEOREM SequentialAnswersAreLatest ==
    ASSUME MaxInFlight = 1, {"redis", "crash", "commit"} \cap Faults = {}
    PROVE  Spec => AnswersAreLatest
<1>1. Init => CacheIsCurrent
  BY DEF Init, CacheIsCurrent
<1>2. IInv /\ Sequential /\ CacheIsCurrent /\ [Next]_vars => CacheIsCurrent'
  BY CacheCurrentStep
<1>3. Spec => []CacheIsCurrent
  BY <1>1, <1>2, Invariant, SequentialAlways, PTL DEF Spec
<1> DEFINE Current1(r) == \E x \in rows' : IsLatest(x, Email(r))' /\ x.result.outcome = answer'[r].result.outcome
           Latest == \A r \in Requests : Answers(r) => Current1(r)
<1>4. IInv /\ Sequential /\ CacheIsCurrent /\ [Next]_vars => [Latest]_vars
  <2> SUFFICES ASSUME IInv, Sequential, CacheIsCurrent, Next, NEW r \in Requests, Answers(r)
               PROVE  Current1(r)
    OBVIOUS
  <2>1. \A x : rows' = rows /\ input' = input /\ IsLatest(x, Email(r)) => IsLatest(x, Email(r))'
    BY DEF IsLatest, RowsOf, NewerThan, Email
  <2>2. CASE CacheHit(r)
    <3>1. cache[Email(r)] # None /\ Email(r) \in Emails /\ rows' = rows /\ input' = input
      BY <2>2, EntryTypes DEF CacheHit, Hit, Respond, Finish, store
    <3>2. answer'[r].result.outcome = cache[Email(r)].result.outcome
      BY <2>2, <3>1, AnswerKeeps DEF IInv, Types, CacheHit, Answers, Entry
    <3>3. ASSUME NEW q \in Requests, pc[q] = "set" PROVE FALSE
      BY <2>2, <3>3 DEF Sequential, Alone, Serving, CacheHit
    <3>4. ShowsNewest(Email(r))
      BY <3>1, <3>3 DEF CacheIsCurrent
    <3>5. QED
      BY <2>1, <3>1, <3>2, <3>4 DEF ShowsNewest, IsLatest, RowsOf
  <2>3. CASE CommitHit(r)
    <3>1. rows' = rows /\ input' = input
      BY <2>3 DEF IInv, Requested, Transaction, CommitHit, Commit, Respond, Finish
    <3>2. answer'[r].result.outcome = row[r].result.outcome
      BY <2>3, AnswerKeeps DEF IInv, Requested, InHand, CommitHit, Answers, Row
    <3>3. IsLatest(row[r], Email(r))
      BY <2>3 DEF Sequential, Knows, Unseen, CommitHit
    <3>4. QED
      BY <2>1, <3>1, <3>2, <3>3 DEF IsLatest, RowsOf
  <2>4. CASE CacheResult(r)
    <3>1. rows' = rows /\ input' = input
      BY <2>4 DEF CacheResult, Respond, Finish, store
    <3>2. answer'[r].result.outcome = raw[r].outcome
      BY <2>4, AnswerKeeps DEF IInv, Requested, InHand, CacheResult, Answers
    <3>3. IsLatest(row[r], Email(r)) /\ Hash(row[r].result) = Hash(raw[r])
      BY <2>4 DEF IInv, Requested, InHand, Sequential, Knows, Unseen, CacheResult
    <3>4. QED
      BY <2>1, <3>1, <3>2, <3>3 DEF IsLatest, RowsOf, Hash
  <2>5. CASE answer'[r] \in {answer[r], None}
    BY <2>5 DEF Answers
  <2>6. QED
    <3>1. ASSUME NEW q \in Requests, Moves(q), q # r PROVE answer'[r] = answer[r]
      BY <3>1, OneMoves DEF Unmoved
    <3>2. CASE Moves(r)
      BY <2>2, <2>3, <2>4, <2>5, <3>2
      DEF IInv, Types, Moves, Advance, Start, CacheMiss, LatestFresh, LatestStale, RecordHit, WarmCache,
          ProviderAnswers, ProviderFails, SameHash, Changed, InsertRow, RecordCheck, CommitCheck,
          StatementFails, CommitFails, Finish
    <3>3. CASE Crash
      BY <2>5, <3>3 DEF Crash
    <3>4. CASE Tick \/ (\E d \in Ttls : SetTtlDays(d)) \/ UNCHANGED vars
      BY <2>5, <3>4, NobodyMoves DEF Unmoved
    <3>5. QED
      BY <2>5, <3>1, <3>2, <3>3, <3>4, Steps
<1>5. QED
  BY <1>3, <1>4, Invariant, SequentialAlways, PTL DEF Spec, AnswersAreLatest

-----------------------------------------------------------------------------
(* Answers of the provider are reused *)

(* A request that has not ended has no answer. *)
LEMMA SettledAlways == Spec => []Settled
<1>1. Init => Settled
  BY DEF Init, Settled, Answered, RecordedIffNotCached
<1>2. QED
  BY <1>1, SettledStep, Invariant, PTL DEF Spec

(* What the next lemmas suppose of a step. *)
Steady ==
    /\ MaxInFlight = 1 /\ "redis" \notin Faults /\ \A s, t \in Ttls : s = t
    /\ IInv /\ Clocked /\ Settled /\ Alone /\ Reuse

(* The provider's answers are dated by the past. *)
LEMMA ProvidedTypes ==
    ASSUME IInv, Settled, NEW q \in Requests, Provided(q)
    PROVE  answer[q].result.checked_at \in Nat /\ pc[q] = "done" /\ ~Serving(q)
<1>1. answer[q] \in Answer
  BY DEF IInv, Types, Provided
<1>2. answer[q].result.checked_at \in Nat
  BY <1>1 DEF Answer, Result
<1>3. QED
  BY <1>2 DEF Settled, Answered, Serving, Provided

(* What Redis was given outlasts the TTL of the answer, whatever is written  *)
(* over it.                                                                  *)
LEMMA ReusableKept ==
    ASSUME Steady, ttl' = ttl, now' \in Nat, now <= now',
           \/ cache' = cache
           \/ now' = now /\ \E e \in Emails, x \in Result :
                 cache' = [cache EXCEPT ![e] = [result |-> x, expires |-> now + ttl]],
           NEW q \in Requests,
           answer'[q] = answer[q], input'[q] = input[q], pc[q] = "done" => pc'[q] = "done"
    PROVE  Reusable(q)'
<1> USE DEF Steady
<1>1. SUFFICES ASSUME Provided(q) PROVE Reusable(q)'
  BY DEF Provided, Reusable
<1>2. /\ pc[q] = "done" /\ input[q] \in Inputs
      /\ answer[q].result.checked_at <= now /\ answer[q].result.checked_at \in Nat
      /\ Spent(q) \/ (cache[Email(q)] # None /\ answer[q].result.checked_at + ttl <= cache[Email(q)].expires)
  BY <1>1, ProvidedTypes DEF Reuse, Reusable
<1>3. Email(q)' = Email(q) /\ Email(q) \in Emails
  BY <1>2, EntryTypes DEF Email
<1>4. ttl \in Nat
  BY RowTypes, EntryTypes
<1>5. Spent(q) => Spent(q)'
  BY <1>2, <1>4, RowTypes DEF Spent
<1>6. CASE cache' = cache
  BY <1>2, <1>3, <1>5, <1>6, RowTypes DEF Reusable
<1>7. ASSUME NEW e \in Emails, NEW x \in Result, now' = now,
             cache' = [cache EXCEPT ![e] = [result |-> x, expires |-> now + ttl]]
      PROVE  Reusable(q)'
  <2>1. [result |-> x, expires |-> now + ttl] # None
    BY <1>4, RowTypes, NoneAssumption DEF Entry
  <2>2. CASE e = Email(q)
    <3>1. cache'[Email(q)] # None /\ cache'[Email(q)].expires = now + ttl
      BY <1>7, <2>1, <2>2 DEF IInv, Types
    <3>2. answer[q].result.checked_at + ttl <= now + ttl
      BY <1>2, <1>4, RowTypes
    <3>3. QED
      BY <1>2, <1>3, <1>7, <3>1, <3>2 DEF Reusable
  <2>3. CASE e # Email(q)
    <3>1. cache'[Email(q)] = cache[Email(q)]
      BY <1>3, <1>7, <2>3 DEF IInv, Types
    <3>2. QED
      BY <1>2, <1>3, <1>5, <1>7, <3>1 DEF Reusable
  <2>4. QED
    BY <2>2, <2>3
<1>8. QED
  BY <1>6, <1>7

(* The provider's answer goes to Redis for a TTL. *)
LEMMA ReusableAnswered ==
    ASSUME Steady, NEW r \in Requests, CacheResult(r)
    PROVE  Reusable(r)'
<1> USE DEF Steady
<1>1. /\ pc'[r] = "done" /\ input' = input /\ input[r] \in Inputs /\ now' = now /\ ttl' = ttl
      /\ raw[r] \in Result /\ Respond(r, "provider", raw[r])
  BY DEF IInv, Types, Requested, InHand, CacheResult, Respond, Finish, Goto
<1>2. raw[r].checked_at <= now /\ raw[r].checked_at \in Nat /\ ttl \in Nat
  BY <1>1, RowTypes, EntryTypes, NoneAssumption DEF Clocked, Timed, CacheResult
<1>3. cache' = [cache EXCEPT ![Email(r)] = [result |-> raw[r], expires |-> now + ttl]]
  BY DEF CacheResult, CacheSet
<1>4. Email(r) \in Emails
  BY EntryTypes DEF CacheResult
<1>5. [result |-> raw[r], expires |-> now + ttl] # None
  BY <1>1, <1>2, RowTypes, NoneAssumption DEF Entry
<1>6. cache'[Email(r)] # None /\ cache'[Email(r)].expires = now + ttl
  BY <1>3, <1>4, <1>5 DEF IInv, Types
<1>7. raw[r].checked_at + ttl <= now + ttl
  BY <1>2, RowTypes
<1>8. Email(r)' = Email(r)
  BY <1>1 DEF Email
<1>9. answer'[r] # None => answer'[r].result.checked_at = raw[r].checked_at
  BY <1>1, AnswerKeeps
<1>10. QED
  BY <1>1, <1>2, <1>6, <1>7, <1>8, <1>9 DEF Reusable, Provided

(* What a step of a request can write to Redis. *)
LEMMA CacheWrites ==
    ASSUME Steady, NEW r \in Requests, Moves(r)
    PROVE  \/ cache' = cache
           \/ \E e \in Emails, x \in Result :
                 cache' = [cache EXCEPT ![e] = [result |-> x, expires |-> now + ttl]]
<1> USE DEF Steady
<1>1. CASE WarmCache(r)
  <2>1. row[r].result \in Result /\ Email(r) \in Emails
    BY <1>1, EntryTypes DEF IInv, Requested, InHand, WarmCache, Row
  <2>2. QED
    BY <1>1, <2>1 DEF WarmCache, CacheSet
<1>2. CASE CacheResult(r)
  <2>1. raw[r] \in Result /\ Email(r) \in Emails
    BY <1>2, EntryTypes DEF IInv, Requested, InHand, CacheResult
  <2>2. QED
    BY <1>2, <2>1 DEF CacheResult, CacheSet
<1>3. QED
  BY <1>1, <1>2
  DEF Moves, Advance, Start, CacheHit, CacheMiss, LatestFresh, LatestStale, RecordHit, CommitHit,
      ProviderAnswers, ProviderFails, SameHash, Changed, InsertRow, RecordCheck, CommitCheck, StatementFails, CommitFails

(* The other answers are not the provider's. *)
LEMMA NotProvided ==
    ASSUME Steady, NEW r \in Requests, Moves(r), ~CacheResult(r)
    PROVE  ~Provided(r)'
<1> USE DEF Steady
<1>1. pc[r] # "done" /\ answer[r] = None
  BY DEF Settled, Answered, Moves, Advance, Start, CacheHit, CacheMiss, LatestFresh, LatestStale, RecordHit,
         WarmCache, CommitHit, ProviderAnswers, ProviderFails, SameHash, Changed, InsertRow, RecordCheck,
         CommitCheck, CacheResult, StatementFails, CommitFails
<1>2. CASE CacheHit(r) \/ CommitHit(r)
  <2>1. PICK s \in {"cache", "db"} : \E x : Respond(r, s, x)
    BY <1>2 DEF CacheHit, CommitHit
  <2>2. QED
    BY <2>1 DEF IInv, Types, Respond, Finish, Provided
<1>3. CASE answer'[r] \in {answer[r], None}
  BY <1>1, <1>3 DEF Provided
<1>4. QED
  BY <1>2, <1>3
  DEF IInv, Types, Moves, Advance, Start, CacheMiss, LatestFresh, LatestStale, RecordHit, WarmCache,
      ProviderAnswers, ProviderFails, SameHash, Changed, InsertRow, RecordCheck, CommitCheck,
      StatementFails, CommitFails, Finish

(* A TTL that has one value does not change. *)
LEMMA TtlStays == ASSUME Steady, \E d \in Ttls : SetTtlDays(d) PROVE FALSE
BY RowTypes DEF Steady, SetTtlDays

(* No step takes from Redis what may still be reused. *)
LEMMA ReusableStep == ASSUME Steady, [Next]_vars PROVE (\A q \in Requests : Reusable(q))'
<1>1. ASSUME NEW r \in Requests, Moves(r) PROVE (\A q \in Requests : Reusable(q))'
  <2>1. now' = now /\ ttl' = ttl /\ now \in Nat /\ now <= now
    BY <1>1, OneMoves, RowTypes DEF Steady
  <2>2. ASSUME NEW q \in Requests, q # r PROVE Reusable(q)'
    BY <1>1, <2>1, <2>2, OneMoves, CacheWrites, ReusableKept DEF Steady, Unmoved
  <2>3. Reusable(r)'
    BY <1>1, ReusableAnswered, NotProvided DEF Reusable
  <2>4. QED
    BY <2>2, <2>3
<1>2. CASE Crash
  <2>1. now' = now /\ ttl' = ttl /\ now \in Nat /\ now <= now /\ cache' = cache /\ answer' = answer /\ input' = input
    BY <1>2, RowTypes DEF Steady, Crash
  <2>2. \A q \in Requests : pc[q] = "done" => pc'[q] = "done"
    BY <1>2 DEF Crash, InFlight
  <2>3. QED
    BY <2>1, <2>2, ReusableKept
<1>3. CASE Tick \/ UNCHANGED vars
  <2>1. now' \in Nat /\ now <= now' /\ ttl' = ttl
    BY <1>3, RowTypes DEF Steady, Tick, vars
  <2>2. cache' = cache /\ \A q \in Requests : Unmoved(q)
    BY <1>3, NobodyMoves DEF Steady
  <2>3. QED
    BY <2>1, <2>2, ReusableKept DEF Unmoved
<1>4. QED
  BY <1>1, <1>2, <1>3, TtlStays, Steps

(* Redis is asked before the database, and gives the answer back for a TTL. *)
LEMMA MissedStep == ASSUME Steady, [Next]_vars PROVE (\A r \in Requests : Missed(r))'
<1> USE DEF Steady
<1>1. ASSUME NEW q \in Requests, Unmoved(q), Provided(q)', ttl' = ttl, now' \in Nat, now <= now', Spent(q)
      PROVE  Spent(q)'
  BY <1>1, RowTypes, EntryTypes, ProvidedTypes DEF Unmoved, Spent, Provided
<1>2. Settled'
  BY SettledStep
<1>3. ASSUME NEW r \in Requests, Moves(r) PROVE (\A q \in Requests : Missed(q))'
  <2>1. \A q \in Requests \ {r} : Missed(q)'
    BY <1>3, AloneStep DEF Serving, Missed
  <2>2. CASE CacheMiss(r) \/ LatestStale(r)
    <3>1. SUFFICES ASSUME ~force'[r], NEW q \in Requests, Provided(q)', Email(q)' = Email(r)'
                   PROVE  Spent(q)'
      BY <2>1 DEF Missed
    <3>2. pc'[r] \in {"latest", "provider"} /\ Email(r)' = Email(r) /\ now' = now /\ ttl' = ttl /\ force' = force
      BY <2>2 DEF IInv, Types, CacheMiss, LatestStale, Goto, Email
    <3>3. q # r
      BY <3>1, <3>2, <1>2 DEF Settled, Answered, Provided
    <3>4. Unmoved(q) /\ Provided(q) /\ Email(q) = Email(r)
      BY <1>3, <3>1, <3>2, <3>3, OneMoves DEF Unmoved, Provided, Email
    <3>5. Spent(q)
      <4>1. CASE LatestStale(r)
        BY <3>1, <3>2, <3>4, <4>1 DEF Reuse, Missed, LatestStale
      <4>2. CASE CacheMiss(r)
        <5>1. ~Hit(Email(q)) /\ Email(q) \in Emails
          BY <3>4, <4>2, EntryTypes DEF CacheMiss
        <5>2. Spent(q) \/ (cache[Email(q)] # None /\ answer[q].result.checked_at + ttl <= cache[Email(q)].expires)
          BY <3>4 DEF Reuse, Reusable
        <5>3. QED
          BY <5>1, <5>2, <3>4, ProvidedTypes, EntryTypes, RowTypes DEF Hit, Spent
      <4>3. QED
        BY <2>2, <4>1, <4>2
    <3>6. QED
      BY <3>2, <3>4, <3>5 DEF Unmoved, Spent
  <2>3. ASSUME NEW i \in Inputs, NEW f \in BOOLEAN, Start(r, i, f) PROVE (\A q \in Requests : Missed(q))'
    <3>1. CASE f
      <4>1. force'[r]
        BY <2>3, <3>1 DEF IInv, Types, Start
      <4>2. QED
        BY <2>1, <4>1 DEF Missed
    <3>2. CASE ~f
      <4>1. pc'[r] = "get"
        BY <2>3, <3>2 DEF IInv, Types, Start, Goto
      <4>2. QED
        BY <2>1, <4>1 DEF Missed
    <3>3. QED
      BY <3>1, <3>2
  <2>4. CASE pc'[r] \notin {"latest", "provider"}
    BY <2>1, <2>4 DEF Missed
  <2>5. QED
    BY <1>3, <2>2, <2>3, <2>4
    DEF IInv, Types, Moves, Advance, CacheHit, LatestFresh, RecordHit, WarmCache, CommitHit,
        ProviderAnswers, ProviderFails, SameHash, Changed, InsertRow, RecordCheck, CommitCheck,
        CacheResult, StatementFails, CommitFails, Respond, Finish, Goto
<1>4. CASE Crash
  BY <1>4 DEF Crash, InFlight, Missed
<1>5. CASE Tick \/ UNCHANGED vars
  <2>1. now' \in Nat /\ now <= now' /\ ttl' = ttl
    BY <1>5, RowTypes DEF Tick, vars
  <2>2. \A q \in Requests : Unmoved(q)
    BY <1>5, NobodyMoves
  <2>3. ASSUME NEW r \in Requests, pc'[r] \in {"latest", "provider"}, ~force'[r],
               NEW q \in Requests, Provided(q)', Email(q)' = Email(r)'
        PROVE  Spent(q)'
    <3>1. Spent(q)
      BY <2>2, <2>3 DEF Unmoved, Provided, Email, Reuse, Missed
    <3>2. QED
      BY <1>1, <2>1, <2>2, <2>3, <3>1 DEF Unmoved
  <2>4. QED
    BY <2>3 DEF Missed
<1>6. QED
  BY <1>3, <1>4, <1>5, TtlStays, Steps

(* While checks follow one another, Redis works and the TTL stays as it is,  *)
(* the provider is not asked about an address within a TTL of its last       *)
(* answer unless the caller forces it, although created_at of the row does   *)
(* not move when the outcome is the same: Redis covers what the row does not.*)
THEOREM SequentialReuse ==
    ASSUME MaxInFlight = 1, "redis" \notin Faults, \A s, t \in Ttls : s = t
    PROVE  Spec => ReusedForTtl
<1>1. Init => Reuse
  BY DEF Init, Reuse, Reusable, Missed, Provided
<1>2. IInv /\ Clocked /\ Settled /\ Sequential /\ Reuse /\ [Next]_vars => Reuse'
  BY ReusableStep, MissedStep DEF Steady, Reuse, Sequential
<1>3. Spec => []Reuse
  BY <1>1, <1>2, Invariant, ClockedAlways, SettledAlways, SequentialAlways, PTL DEF Spec
<1> DEFINE Due(r) == \A q \in Requests :
              answer[q] # None /\ answer[q].source = "provider" /\ Normalise[input[q]] = Email(r)
                  => answer[q].result.checked_at + ttl <= now
           Asked == \A r \in Requests : pc[r] = "provider" /\ pc'[r] = "compare" /\ ~force[r] => Due(r)
<1>4. Reuse => [Asked]_vars
  BY DEF Reuse, Missed, Provided, Spent, Email
<1>5. QED
  BY <1>3, <1>4, PTL DEF ReusedForTtl
=============================================================================
