---------------------------- MODULE AccessProofs ----------------------------
(***************************************************************************)
(* What holds of Access for any number of administration calls, any TTLs   *)
(* and tokens, any configuration, and any limit and window.                *)
(***************************************************************************)
EXTENDS Access, FiniteSetTheorems, TLAPS

USE LimiterAssumption

-----------------------------------------------------------------------------
(* The limiter: its part of the inductive invariant, and why each of its     *)
(* steps keeps it *)

Admitted == {n \in DOMAIN hits : hits[n].ok}

(* the hits admitted in the current window, and a window's length before it  *)
Since == {n \in Admitted : hits[n].at >= bucket.start}
Before == {n \in Admitted : hits[n].at < bucket.start /\ hits[n].at > bucket.start - Window}

(* No hit is later than the window or than now. *)
Dated == \A n \in DOMAIN hits : hits[n].at < bucket.start + Window /\ hits[n].at <= now

(* The count is that of the admitted hits until the limit is reached; the    *)
(* window before cannot reach into this one with more than a limit.          *)
Counted ==
    /\ bucket.start <= now
    /\ bucket.count <= Limit => Cardinality(Since) = bucket.count
    /\ bucket.count > Limit => Cardinality(Since) = Limit
    /\ Cardinality(Before) <= Limit
    /\ bucket.count <= Len(hits)

LimiterInv ==
    /\ LimiterTypeOK
    /\ Dated
    /\ Counted
    /\ NeverTwiceTheLimit
    /\ RefusedOnlyWhenSpent

-----------------------------------------------------------------------------
(* Sets of hits *)

(* Any of the hits make a finite set, and fewer hits a smaller one. *)
LEMMA HitsAreFinite ==
    ASSUME NEW R, NEW h \in Seq(R), NEW S \in SUBSET DOMAIN h, NEW T \in SUBSET S
    PROVE  /\ IsFiniteSet(S) /\ IsFiniteSet(T)
           /\ Cardinality(S) \in Nat /\ Cardinality(T) \in Nat
           /\ Cardinality(T) <= Cardinality(S)
<1>1. DOMAIN h = 1..Len(h) /\ Len(h) \in Nat
  OBVIOUS
<1>2. IsFiniteSet(DOMAIN h)
  BY <1>1, FS_Interval
<1>3. IsFiniteSet(S) /\ IsFiniteSet(T) /\ Cardinality(T) <= Cardinality(S)
  BY <1>2, FS_Subset
<1>4. QED
  BY <1>3, FS_CardinalityType

(* Two sets of hits have no more members together than one by one. *)
LEMMA HitsAddUp ==
    ASSUME NEW S, NEW T, IsFiniteSet(S), IsFiniteSet(T), NEW U \in SUBSET (S \cup T)
    PROVE  IsFiniteSet(U) /\ Cardinality(U) <= Cardinality(S) + Cardinality(T)
<1>1. /\ IsFiniteSet(S \cup T)
      /\ Cardinality(S \cup T) = Cardinality(S) + Cardinality(T) - Cardinality(S \cap T)
  BY FS_Union
<1>2. IsFiniteSet(U) /\ Cardinality(U) <= Cardinality(S \cup T)
  BY <1>1, FS_Subset
<1>3. IsFiniteSet(S \cap T)
  BY FS_Subset
<1>4. Cardinality(S \cap T) \in Nat /\ Cardinality(S) \in Nat /\ Cardinality(T) \in Nat
      /\ Cardinality(U) \in Nat
  BY <1>2, <1>3, FS_CardinalityType
<1>5. QED
  BY <1>1, <1>2, <1>4

(* The members of a sequence. *)
LEMMA Members == ASSUME NEW S, NEW s \in Seq(S), NEW n \in DOMAIN s PROVE s[n] \in S
  OBVIOUS

(* What a hit in the record is. *)
LEMMA HitTypes ==
    ASSUME NEW h \in Seq([at : 0..MaxTime, ok : BOOLEAN]), NEW n \in DOMAIN h
    PROVE  h[n].at \in Nat
<1>1. h[n] \in [at : 0..MaxTime, ok : BOOLEAN]
  BY Members
<1>2. QED
  BY <1>1

-----------------------------------------------------------------------------
(* The steps *)

(* The limiter starts well, and again after a restart. *)
LEMMA LimiterStarts == now \in 0..MaxTime /\ bucket = Fresh /\ hits = <<>> => LimiterInv
<1> SUFFICES ASSUME now \in 0..MaxTime, bucket = Fresh, hits = <<>> PROVE LimiterInv
  OBVIOUS
<1>1. Since = {} /\ Before = {} /\ \A t \in 0..MaxTime : AdmittedFrom(t) = {}
  BY DEF Since, Before, Admitted, AdmittedFrom
<1>2. LimiterTypeOK /\ Dated /\ RefusedOnlyWhenSpent
  BY DEF LimiterTypeOK, Fresh, Dated, RefusedOnlyWhenSpent
<1>3. Counted
  BY <1>1, FS_EmptySet DEF Counted, Fresh
<1>4. NeverTwiceTheLimit
  BY <1>1, FS_EmptySet DEF NeverTwiceTheLimit
<1>5. QED
  BY <1>2, <1>3, <1>4 DEF LimiterInv

(* Time alone changes nothing. *)
LEMMA TickStep == LimiterInv /\ Tick => LimiterInv'
<1> SUFFICES ASSUME LimiterInv, Tick PROVE LimiterInv'
  OBVIOUS
<1>1. now' = now + 1 /\ now' \in 0..MaxTime /\ bucket' = bucket /\ hits' = hits /\ now \in Nat
  BY DEF Tick, LimiterInv, LimiterTypeOK
<1>2. LimiterTypeOK'
  BY <1>1 DEF LimiterInv, LimiterTypeOK
<1>3. Dated'
  <2>1. \A n \in DOMAIN hits : hits[n].at \in Nat
    BY HitTypes DEF LimiterInv, LimiterTypeOK
  <2>2. QED
    BY <1>1, <2>1 DEF LimiterInv, Dated
<1>4. Counted'
  BY <1>1 DEF LimiterInv, LimiterTypeOK, Counted, Since, Before, Admitted
<1>5. NeverTwiceTheLimit' /\ RefusedOnlyWhenSpent'
  BY <1>1 DEF LimiterInv, NeverTwiceTheLimit, RefusedOnlyWhenSpent, AdmittedFrom
<1>6. QED
  BY <1>2, <1>3, <1>4, <1>5 DEF LimiterInv

(* What a hit adds to the record, whatever window it falls in. *)
LEMMA HitAdds ==
    ASSUME LimiterInv, Check
    PROVE  LET N == Len(hits) + 1
               ok == bucket'.count <= Limit
           IN  /\ DOMAIN hits' = DOMAIN hits \cup {N} /\ N \notin DOMAIN hits
               /\ \A n \in DOMAIN hits : hits'[n] = hits[n] /\ n < N
               /\ hits'[N].at = now /\ (hits'[N].ok <=> ok)
               /\ hits' \in Seq([at : 0..MaxTime, ok : BOOLEAN]) /\ Len(hits') = N /\ N <= MaxHits
               /\ Admitted' = Admitted \cup IF ok THEN {N} ELSE {}
<1> DEFINE N == Len(hits) + 1
           ok == bucket'.count <= Limit
<1>1. hits \in Seq([at : 0..MaxTime, ok : BOOLEAN]) /\ [at |-> now, ok |-> ok] \in [at : 0..MaxTime, ok : BOOLEAN]
  BY DEF LimiterInv, LimiterTypeOK
<1>2. hits' = Append(hits, [at |-> now, ok |-> ok]) /\ Len(hits) < MaxHits
  BY DEF Check
<1>3. /\ DOMAIN hits' = DOMAIN hits \cup {N} /\ N \notin DOMAIN hits
      /\ \A n \in DOMAIN hits : hits'[n] = hits[n] /\ n < N
      /\ hits'[N] = [at |-> now, ok |-> ok]
      /\ hits' \in Seq([at : 0..MaxTime, ok : BOOLEAN]) /\ Len(hits') = N /\ N <= MaxHits
  BY <1>1, <1>2
<1>4. hits'[N].ok <=> ok
  <2>1. bucket'.count \in Nat /\ Limit \in Nat
    BY DEF Check, Current, Fresh, LimiterInv, LimiterTypeOK
  <2>2. \A x, y \in Nat : (x <= y) = TRUE \/ (x <= y) = FALSE
    OBVIOUS
  <2>3. CASE ok = TRUE
    <3>1. hits'[N] = [at |-> now, ok |-> TRUE]
      BY <1>3, <2>3
    <3>2. QED
      BY <2>3, <3>1
  <2>4. CASE ok = FALSE
    <3>1. hits'[N] = [at |-> now, ok |-> FALSE]
      BY <1>3, <2>4
    <3>2. QED
      BY <2>4, <3>1
  <2>5. QED
    BY <2>1, <2>2, <2>3, <2>4
<1>5. Admitted' = Admitted \cup IF ok THEN {N} ELSE {}
  BY <1>3, <1>4 DEF Admitted
<1>6. QED
  BY <1>3, <1>4, <1>5

(* An admitted hit is one that its window's count had room for; the counts    *)
(* follow, and what was before a new window was in the last one.              *)
LEMMA CheckCounts == LimiterInv /\ Check => Dated' /\ Counted'
<1> SUFFICES ASSUME LimiterInv, Check PROVE Dated' /\ Counted'
  OBVIOUS
<1> DEFINE N == Len(hits) + 1
           ok == bucket'.count <= Limit
<1>1. /\ DOMAIN hits' = DOMAIN hits \cup {N} /\ N \notin DOMAIN hits
      /\ \A n \in DOMAIN hits : hits'[n] = hits[n]
      /\ hits'[N].at = now
      /\ Admitted' = Admitted \cup IF ok THEN {N} ELSE {}
  BY HitAdds
<1>2. /\ now' = now /\ now \in Nat
      /\ bucket.start \in Nat /\ bucket.count \in Nat /\ bucket.start <= now
      /\ \A n \in DOMAIN hits : hits[n].at \in Nat /\ hits[n].at <= now
                                  /\ hits[n].at < bucket.start + Window
  <2>1. \A n \in DOMAIN hits : hits[n].at \in Nat
    BY HitTypes DEF LimiterInv, LimiterTypeOK
  <2>2. QED
    BY <2>1 DEF Check, LimiterInv, LimiterTypeOK, Counted, Dated
<1>3. Len(hits) \in Nat /\ Len(hits') = Len(hits) + 1
  BY HitAdds DEF LimiterInv, LimiterTypeOK
<1>4. Admitted \subseteq DOMAIN hits /\ Since \subseteq Admitted /\ Before \subseteq Admitted
  BY DEF Admitted, Since, Before
<1>5. /\ IsFiniteSet(Since) /\ Cardinality(Since) \in Nat
      /\ IsFiniteSet(Before) /\ Cardinality(Before) \in Nat
  BY <1>4, HitsAreFinite DEF LimiterInv, LimiterTypeOK
<1>6. ASSUME Current = bucket PROVE Dated' /\ Counted'
  <2>1. bucket'.start = bucket.start /\ bucket'.count = bucket.count + 1
    BY <1>6 DEF Check, LimiterInv, LimiterTypeOK
  <2>2. Before' = Before
    BY <1>1, <1>2, <1>4, <2>1 DEF Before
  <2>3. Since' = Since \cup IF ok THEN {N} ELSE {}
    BY <1>1, <1>2, <1>4, <2>1 DEF Since
  <2>4. N \notin Since
    BY <1>1, <1>4
  <2>5. Cardinality(Since') = Cardinality(Since) + IF ok THEN 1 ELSE 0
    <3>1. CASE ok
      <4>1. Since' = Since \cup {N}
        BY <2>3, <3>1
      <4>2. QED
        BY <1>5, <2>4, <3>1, <4>1, FS_AddElement
    <3>2. CASE ~ok
      BY <1>5, <2>3, <3>2
    <3>3. QED
      BY <3>1, <3>2
  <2>6. Counted'
    BY <1>2, <1>3, <1>5, <2>1, <2>2, <2>5 DEF LimiterInv, Counted
  <2>7. now < bucket.start + Window
    BY <1>2, <1>6, <2>1 DEF Current, Fresh
  <2>8. QED
    BY <1>1, <1>2, <2>1, <2>6, <2>7 DEF Dated
<1>7. ASSUME Current = Fresh, hits = <<>> \/ now - bucket.start >= Window PROVE Dated' /\ Counted'
  <2>1. bucket'.start = now /\ bucket'.count = 1
    BY <1>7 DEF Check, Fresh
  <2>2. \A n \in DOMAIN hits : hits[n].at < now
    BY <1>2, <1>7
  <2>3. Before' \subseteq Since
    BY <1>1, <1>2, <1>4, <1>7, <2>1 DEF Before, Since
  <2>4. Since' = IF ok THEN {N} ELSE {}
    BY <1>1, <1>2, <1>4, <2>1, <2>2 DEF Since
  <2>5. Cardinality(Since') = IF ok THEN 1 ELSE 0
    BY <2>4, FS_EmptySet, FS_Singleton
  <2>6. IsFiniteSet(Before') /\ Cardinality(Before') <= Cardinality(Since) /\ Cardinality(Before') \in Nat
    BY <1>5, <2>3, FS_Subset, FS_CardinalityType
  <2>7. Cardinality(Since) <= Limit
    BY <1>2, <1>5 DEF LimiterInv, Counted
  <2>8. Limit \in Nat
    OBVIOUS
  <2>9. Counted'
    <3>1. CASE ok
      BY <1>2, <1>3, <2>1, <2>5, <2>6, <2>7, <3>1, <1>5, <2>8 DEF Counted
    <3>2. CASE ~ok
      BY <1>2, <1>3, <2>1, <2>5, <2>6, <2>7, <3>2, <1>5, <2>8 DEF Counted
    <3>3. QED
      BY <3>1, <3>2
  <2>10. QED
    BY <1>1, <1>2, <2>1, <2>2, <2>9 DEF Dated
<1>8. QED
  BY <1>6, <1>7 DEF Current

(* What was admitted less than a window ago was admitted in this window or   *)
(* in what can still be seen of the one before.                              *)
LEMMA CheckNeverTwice == LimiterInv /\ Check => NeverTwiceTheLimit'
<1> SUFFICES ASSUME LimiterInv, Check, NEW t \in 0..MaxTime
             PROVE  Cardinality(AdmittedFrom(t)') <= 2 * Limit
  BY DEF NeverTwiceTheLimit, AdmittedFrom
<1> DEFINE N == Len(hits) + 1
<1>1. /\ DOMAIN hits' = DOMAIN hits \cup {N} /\ N \notin DOMAIN hits
      /\ \A n \in DOMAIN hits : hits'[n] = hits[n]
      /\ hits'[N].at = now
      /\ hits' \in Seq([at : 0..MaxTime, ok : BOOLEAN])
  BY HitAdds
<1>2. \A n \in DOMAIN hits' : hits'[n].at \in Nat
  BY <1>1, HitTypes
<1>3. Counted' /\ now' = now /\ now \in Nat /\ Limit \in Nat /\ bucket'.start \in Nat
      /\ bucket'.count \in Nat
  BY CheckCounts DEF Check, Current, Fresh, LimiterInv, LimiterTypeOK
<1>4. CASE t + Window - 1 < now
  <2>1. AdmittedFrom(t)' = AdmittedFrom(t)
    BY <1>1, <1>2, <1>4 DEF AdmittedFrom
  <2>2. QED
    BY <2>1 DEF LimiterInv, NeverTwiceTheLimit
<1>5. CASE ~(t + Window - 1 < now)
  <2>1. AdmittedFrom(t)' \subseteq Since' \cup Before'
    BY <1>2, <1>3, <1>5 DEF AdmittedFrom, Since, Before, Admitted, Counted
  <2>2. Since' \subseteq DOMAIN hits' /\ Before' \subseteq DOMAIN hits'
    BY DEF Since, Before, Admitted
  <2>3. /\ IsFiniteSet(Since') /\ IsFiniteSet(Before')
        /\ Cardinality(Since') \in Nat /\ Cardinality(Before') \in Nat
    BY <1>1, <2>2, HitsAreFinite
  <2>4. /\ IsFiniteSet(AdmittedFrom(t)')
        /\ Cardinality(AdmittedFrom(t)') <= Cardinality(Since') + Cardinality(Before')
    BY <2>1, <2>3, HitsAddUp
  <2>5. Cardinality(AdmittedFrom(t)') \in Nat
    BY <2>4, FS_CardinalityType
  <2>6. Cardinality(Since') <= Limit /\ Cardinality(Before') <= Limit
    BY <1>3, <2>3 DEF Counted
  <2>7. QED
    BY <1>3, <2>3, <2>4, <2>5, <2>6
<1>6. QED
  BY <1>4, <1>5

(* A refused hit finds the count at the limit, and so many hits admitted in  *)
(* this window.                                                              *)
LEMMA CheckRefused == LimiterInv /\ Check => RefusedOnlyWhenSpent'
<1> DEFINE N == Len(hits) + 1
           Earlier(n) == {k \in AdmittedFrom(hits[n].at - Window + 1) : k < n}
<1> SUFFICES ASSUME LimiterInv, Check, NEW n \in DOMAIN hits', ~hits'[n].ok
             PROVE  Cardinality(Earlier(n)') >= Limit
  BY DEF RefusedOnlyWhenSpent
<1>1. /\ DOMAIN hits' = DOMAIN hits \cup {N} /\ N \notin DOMAIN hits
      /\ \A k \in DOMAIN hits : hits'[k] = hits[k] /\ k < N
      /\ hits'[N].at = now /\ (hits'[N].ok <=> bucket'.count <= Limit)
      /\ hits' \in Seq([at : 0..MaxTime, ok : BOOLEAN])
  BY HitAdds
<1>2. CASE n # N
  <2>1. n \in DOMAIN hits /\ ~hits[n].ok /\ DOMAIN hits \subseteq Nat /\ N \in Nat
    BY <1>1, <1>2 DEF LimiterInv, LimiterTypeOK
  <2>2. Earlier(n)' = Earlier(n)
    BY <1>1, <2>1 DEF AdmittedFrom
  <2>3. QED
    BY <2>1, <2>2 DEF LimiterInv, RefusedOnlyWhenSpent
<1>3. CASE n = N
  <2>1. /\ now \in Nat /\ Limit \in Nat
        /\ bucket.start \in Nat /\ bucket.count \in Nat /\ bucket.start <= now
        /\ \A k \in DOMAIN hits : hits[k].at \in Nat /\ hits[k].at <= now
    <3>1. \A k \in DOMAIN hits : hits[k].at \in Nat
      BY HitTypes DEF LimiterInv, LimiterTypeOK
    <3>2. QED
      BY <3>1 DEF LimiterInv, LimiterTypeOK, Counted, Dated
  <2>2. Earlier(n)' = {k \in DOMAIN hits' : hits'[k].ok /\ hits'[k].at \in (now - Window + 1)..now
                                           /\ k < N}
    <3>1. hits'[n].at = now
      BY <1>1, <1>3
    <3>2. now - Window + 1 + Window - 1 = now
      BY <2>1
    <3>3. QED
      BY <1>3, <3>1, <3>2 DEF AdmittedFrom
  <2>3. Earlier(n)' \subseteq DOMAIN hits'
    BY <2>2
  <2>4. ~(bucket'.count <= Limit)
    BY <1>1, <1>3
  <2>5. IsFiniteSet(Earlier(n)') /\ Cardinality(Earlier(n)') \in Nat
    BY <1>1, <2>3, HitsAreFinite
  <2>6. CASE Current = bucket /\ now - bucket.start < Window
    <3>1. bucket.count >= Limit
      BY <2>1, <2>4, <2>6 DEF Check, LimiterInv, LimiterTypeOK
    <3>2. Since \subseteq Earlier(n)'
      BY <1>1, <2>1, <2>2, <2>6 DEF Since, Admitted
    <3>3. Cardinality(Since) <= Cardinality(Earlier(n)')
      BY <2>5, <3>2, FS_Subset
    <3>4. Cardinality(Since) = Limit
      BY <2>1, <3>1 DEF LimiterInv, Counted
    <3>5. QED
      BY <2>1, <2>5, <3>3, <3>4
  <2>7. CASE Current = Fresh
    <3>1. bucket'.count = 1
      BY <2>7 DEF Check, Fresh
    <3>2. QED
      BY <2>1, <2>4, <2>5, <3>1
  <2>8. QED
    BY <2>1, <2>6, <2>7 DEF Current
<1>4. QED
  BY <1>2, <1>3

(* A hit keeps the limiter's promises. *)
LEMMA CheckStep == LimiterInv /\ Check => LimiterInv'
<1> SUFFICES ASSUME LimiterInv, Check PROVE LimiterInv'
  OBVIOUS
<1>1. /\ hits' \in Seq([at : 0..MaxTime, ok : BOOLEAN]) /\ Len(hits') <= MaxHits
      /\ Len(hits) \in Nat /\ Len(hits) < MaxHits
  BY HitAdds DEF Check, LimiterInv, LimiterTypeOK
<1>2. now' \in 0..MaxTime /\ bucket' \in [start : 0..MaxTime, count : 0..MaxHits]
  BY <1>1 DEF Check, Current, Fresh, LimiterInv, LimiterTypeOK, Counted
<1>3. LimiterTypeOK'
  BY <1>1, <1>2 DEF LimiterTypeOK
<1>4. QED
  BY <1>3, CheckCounts, CheckNeverTwice, CheckRefused DEF LimiterInv

-----------------------------------------------------------------------------
(* Settings and tokens *)

USE AccessAssumption

-----------------------------------------------------------------------------
(* The inductive invariant *)

(* Whatever can get into the memory of the process has been committed.       *)
KnownToken(t) == t = None \/ t \in stored
Effect(c) == IF task[c].op = "restore" THEN read[c] ELSE task[c].new

Known(c) ==
    /\ pc[c] \in {"write", "commit"} /\ task[c].op = "set" /\ task[c].key = "token" =>
           KnownToken(read[c])
    /\ pc[c] = "assign" => KnownToken(Effect(c))
    /\ Working(c) /\ task[c].op = "restore" => KnownToken(task[c].new.token)

AllKnown ==
    /\ KnownToken(table.token) /\ KnownToken(memory.token)
    /\ \A c \in Calls : Known(c)

(* Calls that write the same row know of each other. *)
Doing(c, k) == Working(c) /\ k \in Writes(task[c])

Meeting ==
    \A c, d \in Calls, k \in Keys : c # d /\ Doing(c, k) /\ Doing(d, k) => ~alone[c] /\ ~clean[k]

(* What a call has done, if nothing came in between. *)
Keyed(c) == Working(c) /\ task[c].op # "restore"
SetsTtl(c) == pc[c] \in {"find", "write", "commit"} /\ task[c].op = "set" /\ task[c].key = "ttl"

Done(c) ==
    /\ Keyed(c) /\ ~alone[c] => ~clean[task[c].key]
    /\ Keyed(c) /\ alone[c] /\ pc[c] \in {"write", "commit"} => read[c] = table[task[c].key]
    /\ SetsTtl(c) /\ alone[c] => memory.ttl = task[c].new
    /\ pc[c] = "assign" /\ (alone[c] \/ clean.token) => table.token = Effect(c)
    /\ pc[c] \in {"reload", "assign"} =>
          "token" \in Writes(task[c]) /\ (task[c].op = "restore" => ~clean.ttl)

(* A call that has changed one copy and not yet the other. *)
Midway(c, k) == IF k = "ttl" THEN SetsTtl(c) ELSE pc[c] \in {"reload", "assign"}

Follows ==
    \A k \in Keys :
        clean[k] => memory[k] = Loaded(table)[k] \/ \E c \in Calls : Doing(c, k) /\ Midway(c, k)

(* What a call in progress is about, by how far it is. *)
Staged(c) ==
    /\ pc[c] \in {"set", "find"} => task[c].op # "restore"
    /\ pc[c] = "set" => task[c].key = "ttl"
    /\ pc[c] = "reload" => task[c].op = "restore"

IInv ==
    /\ TypeOK
    /\ LimiterInv
    /\ \A c \in Calls : Staged(c)
    /\ AllKnown
    /\ Meeting
    /\ \A c \in Calls : Done(c)
    /\ Follows

-----------------------------------------------------------------------------
(* Tasks and rows *)

(* What there is to do. *)
LEMMA TaskKinds ==
    ASSUME NEW t \in Tasks
    PROVE  \/ t.op = "set" /\ t.key = "ttl" /\ t.new \in Ttls
           \/ t.op = "set" /\ t.key = "token" /\ t.new \in Tokens
           \/ t.op = "delete" /\ t.key = "token" /\ t.new = None
           \/ t.op = "restore" /\ t.new \in Stored
  BY DEF Tasks

(* Which rows a task writes. *)
LEMMA RowsWritten ==
    ASSUME NEW t \in Tasks
    PROVE  /\ Writes(t) \subseteq Keys
           /\ t.op = "restore" => Writes(t) = Keys
           /\ t.op # "restore" => Writes(t) = {t.key} /\ t.key \in Keys
  BY TaskKinds DEF Writes, Keys

(* What a start makes of the rows. *)
LEMMA LoadedRows ==
    ASSUME NEW row \in Stored
    PROVE  /\ Loaded(row)["ttl"] = IF row.ttl = None THEN DefaultTtl ELSE row.ttl
           /\ Loaded(row)["token"] = row.token
           /\ Loaded(row) \in [ttl : Ttls \cup {DefaultTtl}, token : Optional(Tokens)]
  BY DEF Loaded, Stored, Optional

(* What a transaction makes of the rows. *)
LEMMA RowsAfter ==
    ASSUME TypeOK, NEW c \in Calls, Working(c), NEW k \in Keys
    PROVE  /\ Written(c) \in Stored
           /\ k \notin Writes(task[c]) => Written(c)[k] = table[k]
           /\ task[c].op = "restore" => Written(c) = task[c].new
           /\ task[c].op # "restore" =>
                  Written(c)[task[c].key] = IF task[c].new = read[c] THEN table[task[c].key] ELSE task[c].new
<1>1. task[c] \in Tasks /\ table \in Stored
  BY DEF TypeOK
<1>2. CASE task[c].op = "restore"
  BY <1>1, <1>2, TaskKinds, RowsWritten DEF Written
<1>3. CASE task[c].op # "restore"
  <2>1. task[c].key \in Keys /\ Writes(task[c]) = {task[c].key}
    BY <1>1, <1>3, RowsWritten
  <2>2. Written(c) = IF task[c].new = read[c] THEN table ELSE [table EXCEPT ![task[c].key] = task[c].new]
    BY <1>3 DEF Written
  <2>3. [table EXCEPT ![task[c].key] = task[c].new] \in Stored
    BY <1>1, <1>3, TaskKinds DEF Stored, Optional
  <2>4. DOMAIN table = Keys
    BY <1>1 DEF Stored, Keys
  <2>5. QED
    BY <1>1, <1>3, <2>1, <2>2, <2>3, <2>4
<1>4. QED
  BY <1>2, <1>3

(* The limiter does not mind what the administration does. *)
LEMMA LimiterStutters == LimiterInv /\ UNCHANGED limiterVars => LimiterInv'
  BY DEF LimiterInv, limiterVars, LimiterTypeOK, Dated, Counted, Since, Before, Admitted,
         NeverTwiceTheLimit, RefusedOnlyWhenSpent, AdmittedFrom

-----------------------------------------------------------------------------
(* What a step leaves as it was *)

(* A step of another call, of the script: what this one relies on is left    *)
(* alone, or it is no longer alone.                                          *)
Undisturbed(d) ==
    /\ pc'[d] = pc[d] /\ task'[d] = task[d] /\ read'[d] = read[d]
    /\ alone'[d] => alone[d]
    /\ \A k \in Keys :
           Doing(d, k) =>
               /\ clean'[k] => clean[k]
               /\ Keyed(d) /\ alone[d] /\ ~alone'[d] => ~clean'[k]
               /\ table'[k] # table[k] => ~alone'[d] /\ ~clean'[k]
    /\ Doing(d, "ttl") /\ memory'.ttl # memory.ttl => ~alone'[d]

LEMMA DoneKept ==
    ASSUME TypeOK, NEW d \in Calls, Done(d), Undisturbed(d)
    PROVE  Done(d)'
<1>1. CASE ~Working(d)
  BY <1>1 DEF Undisturbed, Done, Working, Keyed, SetsTtl
<1>2. CASE Working(d)
  <2>1. task[d] \in Tasks
    BY <1>2 DEF TypeOK
  <2>2. task[d].op # "restore" => task[d].key \in Keys /\ Doing(d, task[d].key)
    BY <1>2, <2>1, RowsWritten DEF Doing
  <2>3. \A k \in Keys : k \in Writes(task[d]) => Doing(d, k)
    BY <1>2 DEF Doing
  <2>4. "token" \in Keys /\ "ttl" \in Keys
    BY DEF Keys
  <2>5. Writes(task'[d]) = Writes(task[d])
    BY DEF Undisturbed
  <2>6. task[d].op = "restore" => Writes(task[d]) = Keys
    BY <2>1, RowsWritten
  <2>7. (Keyed(d) /\ ~alone[d] => ~clean[task[d].key])'
    BY <2>2 DEF Undisturbed, Done, Working, Keyed
  <2>8. (Keyed(d) /\ alone[d] /\ pc[d] \in {"write", "commit"} => read[d] = table[task[d].key])'
    BY <2>2 DEF Undisturbed, Done, Working, Keyed
  <2>9. (SetsTtl(d) /\ alone[d] => memory.ttl = task[d].new)'
    BY <2>2 DEF Undisturbed, Done, SetsTtl
  <2>10. (pc[d] = "assign" /\ (alone[d] \/ clean.token) => table.token = Effect(d))'
    BY <2>3, <2>4 DEF Undisturbed, Done, Effect
  <2>11. (pc[d] \in {"reload", "assign"} =>
             "token" \in Writes(task[d]) /\ (task[d].op = "restore" => ~clean.ttl))'
    BY <2>3, <2>4, <2>5, <2>6 DEF Undisturbed, Done
  <2>12. QED
    BY <2>7, <2>8, <2>9, <2>10, <2>11 DEF Done
<1>3. QED
  BY <1>1, <1>2

(* No call begins. *)
LEMMA MeetingKept ==
    ASSUME Meeting,
           \A d \in Calls, k \in Keys : Doing(d, k)' => Doing(d, k) /\ (alone'[d] => alone[d]),
           \A k \in Keys : clean'[k] => clean[k]
    PROVE  Meeting'
  BY DEF Meeting

(* No copy changes, and calls stay where they are in between. *)
LEMMA FollowsKept ==
    ASSUME Follows, NEW k \in Keys, clean'[k] => clean[k],
           memory'[k] = memory[k], table'[k] = table[k], table \in Stored, table' \in Stored,
           \A d \in Calls : Doing(d, k) /\ Midway(d, k) => (Doing(d, k) /\ Midway(d, k))'
    PROVE  (clean[k] => memory[k] = Loaded(table)[k] \/ \E d \in Calls : Doing(d, k) /\ Midway(d, k))'
<1>1. Loaded(table')[k] = Loaded(table)[k]
  BY LoadedRows DEF Keys
<1>2. QED
  BY <1>1 DEF Follows

(* What has been committed stays known. *)
LEMMA KnownKept ==
    ASSUME stored \subseteq stored', NEW d \in Calls, Known(d),
           pc'[d] = pc[d], task'[d] = task[d], read'[d] = read[d]
    PROVE  Known(d)'
  BY DEF Known, KnownToken, Effect, Working

-----------------------------------------------------------------------------
(* The steps *)

(* A call begins: it and those that write the same rows know of each other.  *)
LEMMA AskStep ==
    ASSUME IInv, NEW c \in Calls, NEW t \in Tasks, NEW label, Ask(c, t, label),
           minted' \in 0..MaxTokens,
           \/ label = "set" /\ t.op = "set" /\ t.key = "ttl"
           \/ label = "find" /\ t.op # "restore" /\ t.key = "token"
           \/ label = "write" /\ t.op = "restore" /\ KnownToken(t.new.token)
    PROVE  IInv'
<1> DEFINE met == Others(c, Writes(t))
<1>1. /\ pc[c] = "idle" /\ ~Working(c)
      /\ UNCHANGED <<config, limiterVars, table, memory, read, stored>>
      /\ task' = [task EXCEPT ![c] = t] /\ pc' = [pc EXCEPT ![c] = label]
      /\ alone' = [d \in Calls |-> IF d = c THEN met = {} ELSE alone[d] /\ d \notin met]
      /\ clean' = Unclean(IF met = {} THEN {} ELSE Writes(t))
  BY DEF Ask, Goto, Working, Meets
<1>2. /\ task'[c] = t /\ pc'[c] = label
      /\ \A d \in Calls \ {c} : task'[d] = task[d] /\ pc'[d] = pc[d]
  BY <1>1 DEF IInv, TypeOK
<1>3. /\ alone'[c] <=> met = {}
      /\ \A d \in Calls \ {c} : alone'[d] <=> (alone[d] /\ d \notin met)
  BY <1>1
<1>4. \A k \in Keys : clean'[k] <=> (clean[k] /\ (met = {} \/ k \notin Writes(t)))
  BY <1>1 DEF Unclean
<1>5. TypeOK'
  <2>1. alone' \in [Calls -> BOOLEAN]
    BY <1>1, Zenon
  <2>2. clean' \in [Keys -> BOOLEAN]
    BY <1>1, Zenon DEF Unclean
  <2>3. task' \in [Calls -> Tasks \cup {None}]
    BY <1>1 DEF IInv, TypeOK
  <2>4. pc' \in [Calls -> {"idle", "set", "find", "write", "commit", "reload", "assign"}]
    BY <1>1 DEF IInv, TypeOK
  <2>5. \A d \in Calls : Working(d)' => task'[d] \in Tasks
    BY <1>2 DEF IInv, TypeOK, Working
  <2>6. Coherent(config)' /\ table' \in Stored
        /\ memory' \in [ttl : Ttls \cup {DefaultTtl}, token : Optional(Tokens)]
        /\ read' \in [Calls -> Optional(Ttls \cup Tokens)] /\ stored' \subseteq Tokens
    BY <1>1 DEF IInv, TypeOK, Coherent
  <2>7. LimiterTypeOK'
    BY <1>1 DEF IInv, TypeOK, LimiterTypeOK, limiterVars
  <2>8. QED
    BY <2>1, <2>2, <2>3, <2>4, <2>5, <2>6, <2>7 DEF TypeOK
<1>6. LimiterInv'
  BY <1>1, LimiterStutters DEF IInv
<1>7. \A d \in Calls : Staged(d)'
  BY <1>2 DEF IInv, Staged
<1>8. AllKnown'
  <2>1. Known(c)'
    BY <1>1, <1>2 DEF Known, KnownToken, Working
  <2>2. \A d \in Calls \ {c} : Known(d)'
    BY <1>1, <1>2, KnownKept DEF IInv, AllKnown
  <2>3. QED
    BY <1>1, <2>1, <2>2 DEF IInv, AllKnown, KnownToken
<1>9. \A d \in Calls \ {c}, k \in Keys :
          /\ Doing(d, k)' <=> Doing(d, k)
          /\ Doing(d, k) /\ k \in Writes(t) => d \in met
  BY <1>2 DEF Doing, Working, Others
<1>10. Writes(task'[c]) = Writes(t) /\ Writes(t) \subseteq Keys
  BY <1>2, RowsWritten
<1>11. Meeting'
  <2> SUFFICES ASSUME NEW d \in Calls, NEW e \in Calls, NEW k \in Keys,
                      d # e, Doing(d, k)', Doing(e, k)'
               PROVE  ~alone'[d] /\ ~clean'[k]
    BY DEF Meeting
  <2>1. CASE d = c
    BY <1>3, <1>4, <1>9, <1>10, <2>1 DEF Doing
  <2>2. CASE e = c
    BY <1>3, <1>4, <1>9, <1>10, <2>2 DEF Doing
  <2>3. CASE d # c /\ e # c
    BY <1>3, <1>4, <1>9, <2>3 DEF IInv, Meeting
  <2>4. QED
    BY <2>1, <2>2, <2>3
<1>12. \A d \in Calls : Done(d)'
  <2>1. Done(c)'
    <3>1. t.op # "restore" => Writes(t) = {t.key} /\ t.key \in Keys
      BY RowsWritten
    <3>2. (Keyed(c) /\ ~alone[c] => ~clean[task[c].key])'
      BY <1>2, <1>3, <1>4, <3>1 DEF Keyed
    <3>3. QED
      BY <1>2, <3>2 DEF Done, Keyed, SetsTtl
  <2>2. ASSUME NEW d \in Calls \ {c} PROVE Undisturbed(d)
    <3>1. \A k \in Keys : Doing(d, k) /\ d \in met /\ k \notin Writes(t) => ~Keyed(d)
      <4> SUFFICES ASSUME NEW k \in Keys, Doing(d, k), d \in met, k \notin Writes(t), Keyed(d)
                   PROVE  FALSE
        OBVIOUS
      <4>1. task[d] \in Tasks /\ Writes(task[d]) \cap Writes(t) # {}
        BY DEF Doing, IInv, TypeOK, Others
      <4>2. QED
        BY <4>1, RowsWritten DEF Doing, Keyed
    <3>2. QED
      BY <1>1, <1>2, <1>3, <1>4, <3>1 DEF Undisturbed
  <2>3. \A d \in Calls \ {c} : Done(d)'
    BY <2>2, DoneKept DEF IInv
  <2>4. QED
    BY <2>1, <2>3
<1>13. Follows'
  <2>1. \A d \in Calls, k \in Keys : Doing(d, k) /\ Midway(d, k) => d # c /\ (Doing(d, k) /\ Midway(d, k))'
    BY <1>1, <1>2, <1>9 DEF Midway, SetsTtl, Doing
  <2>2. table \in Stored /\ table' \in Stored
    BY <1>1 DEF IInv, TypeOK
  <2>3. QED
    BY <1>1, <1>4, <2>1, <2>2, FollowsKept DEF IInv, Follows
<1>14. QED
  BY <1>5, <1>6, <1>7, <1>8, <1>11, <1>12, <1>13 DEF IInv

(* A call moves on, having read a row or set the TTL in memory. *)
LEMMA MoveStep ==
    ASSUME IInv, NEW c \in Calls, Working(c), Working(c)',
           UNCHANGED <<config, limiterVars, table, minted, task, history>>,
           pc' \in [Calls -> {"idle", "set", "find", "write", "commit", "reload", "assign"}],
           read' \in [Calls -> Optional(Ttls \cup Tokens)],
           \A d \in Calls \ {c} : pc'[d] = pc[d] /\ read'[d] = read[d],
           memory' \in [ttl : Ttls \cup {DefaultTtl}, token : Optional(Tokens)],
           memory'.token = memory.token,
           memory'.ttl # memory.ttl => Doing(c, "ttl") /\ Midway(c, "ttl")',
           \A k \in Keys : Midway(c, k) => Midway(c, k)',
           Staged(c)', Known(c)', Done(c)'
    PROVE  IInv'
<1>1. \A d \in Calls, k \in Keys : Doing(d, k)' <=> Doing(d, k)
  BY DEF Doing, Working
<1>2. table' = table /\ task' = task /\ stored' = stored /\ alone' = alone /\ clean' = clean
  BY DEF history
<1>3. TypeOK'
  <2>1. LimiterTypeOK'
    BY DEF IInv, TypeOK, LimiterTypeOK, limiterVars
  <2>2. \A d \in Calls : Working(d)' => task'[d] \in Tasks
    BY <1>2 DEF IInv, TypeOK, Working
  <2>3. QED
    BY <1>2, <2>1, <2>2 DEF IInv, TypeOK, Coherent
<1>4. LimiterInv'
  BY LimiterStutters DEF IInv
<1>5. \A d \in Calls : Staged(d)'
  BY <1>2 DEF IInv, Staged
<1>6. AllKnown'
  <2>1. \A d \in Calls \ {c} : Known(d)'
    BY <1>2, KnownKept DEF IInv, AllKnown
  <2>2. QED
    BY <1>2, <2>1 DEF IInv, AllKnown, KnownToken
<1>7. Meeting'
  BY <1>1, <1>2, MeetingKept DEF IInv
<1>8. \A d \in Calls : Done(d)'
  <2>1. ASSUME NEW d \in Calls \ {c} PROVE Undisturbed(d)
    <3>1. Doing(d, "ttl") /\ memory'.ttl # memory.ttl => ~alone'[d]
      BY <1>2 DEF IInv, Meeting, Keys
    <3>2. QED
      BY <1>2, <3>1 DEF Undisturbed
  <2>2. QED
    BY <2>1, DoneKept DEF IInv
<1>9. Follows'
  <2>1. \A d \in Calls \ {c}, k \in Keys : Midway(d, k)' <=> Midway(d, k)
    BY <1>2 DEF Midway, SetsTtl
  <2>2. table \in Stored /\ table' \in Stored
    BY <1>2 DEF IInv, TypeOK
  <2>3. ASSUME NEW k \in Keys, memory'[k] = memory[k]
        PROVE  (clean[k] => memory[k] = Loaded(table)[k] \/ \E d \in Calls : Doing(d, k) /\ Midway(d, k))'
    BY <1>1, <1>2, <2>1, <2>2, <2>3, FollowsKept DEF IInv
  <2>4. ASSUME NEW k \in Keys, memory'[k] # memory[k]
        PROVE  (\E d \in Calls : Doing(d, k) /\ Midway(d, k))'
    BY <1>1, <2>4 DEF Keys
  <2>5. QED
    BY <2>3, <2>4 DEF Follows
<1>10. QED
  BY <1>3, <1>4, <1>5, <1>6, <1>7, <1>8, <1>9 DEF IInv

(* The TTL in memory is set before the row is looked for. *)
LEMMA SetStep ==
    ASSUME IInv, NEW c \in Calls, SetTtlDays(c)
    PROVE  IInv'
<1>1. /\ pc[c] = "set" /\ Working(c)
      /\ memory' = [memory EXCEPT !.ttl = task[c].new]
      /\ pc' = [pc EXCEPT ![c] = "find"]
      /\ UNCHANGED <<config, limiterVars, table, minted, task, read, history>>
  BY DEF SetTtlDays, Goto, Working
<1>2. task[c].op = "set" /\ task[c].key = "ttl" /\ task[c].new \in Ttls
  BY <1>1, TaskKinds DEF IInv, TypeOK, Staged
<1>3. /\ pc'[c] = "find" /\ Working(c)'
      /\ \A d \in Calls \ {c} : pc'[d] = pc[d]
      /\ pc' \in [Calls -> {"idle", "set", "find", "write", "commit", "reload", "assign"}]
  BY <1>1 DEF IInv, TypeOK, Working
<1>4. /\ memory' \in [ttl : Ttls \cup {DefaultTtl}, token : Optional(Tokens)]
      /\ memory'.token = memory.token /\ memory'.ttl = task[c].new
  BY <1>1, <1>2 DEF IInv, TypeOK
<1>5. Doing(c, "ttl") /\ Midway(c, "ttl")'
  BY <1>1, <1>2, <1>3 DEF Doing, Midway, SetsTtl, Writes
<1>6. \A k \in Keys : Midway(c, k) => Midway(c, k)'
  BY <1>1, <1>5 DEF Midway, Keys
<1>7. Staged(c)' /\ Known(c)'
  BY <1>1, <1>2, <1>3 DEF Staged, Known
<1>8. Done(c)'
  <2>1. (Keyed(c) /\ ~alone[c] => ~clean[task[c].key])'
    BY <1>1, <1>2 DEF IInv, Done, Keyed, history
  <2>2. QED
    BY <1>1, <1>3, <1>4, <2>1 DEF Done, SetsTtl
<1>9. read' \in [Calls -> Optional(Ttls \cup Tokens)] /\ \A d \in Calls : read'[d] = read[d]
  BY <1>1 DEF IInv, TypeOK
<1>10. QED
  BY <1>1, <1>3, <1>4, <1>5, <1>6, <1>7, <1>8, <1>9, MoveStep

(* The row is looked for. *)
LEMMA FindStep ==
    ASSUME IInv, NEW c \in Calls, Find(c)
    PROVE  IInv'
<1>1. /\ pc[c] = "find" /\ Working(c)
      /\ read' = [read EXCEPT ![c] = table[task[c].key]]
      /\ pc' = [pc EXCEPT ![c] = "write"]
      /\ UNCHANGED <<config, limiterVars, table, memory, minted, task, history>>
  BY DEF Find, Goto, Working
<1>2. task[c] \in Tasks /\ task[c].op # "restore" /\ task[c].key \in Keys
  BY <1>1, RowsWritten DEF IInv, TypeOK, Staged
<1>3. table[task[c].key] \in Optional(Ttls \cup Tokens)
  BY <1>2 DEF IInv, TypeOK, Stored, Keys, Optional
<1>4. /\ pc'[c] = "write" /\ Working(c)' /\ read'[c] = table[task[c].key]
      /\ \A d \in Calls \ {c} : pc'[d] = pc[d] /\ read'[d] = read[d]
      /\ pc' \in [Calls -> {"idle", "set", "find", "write", "commit", "reload", "assign"}]
      /\ read' \in [Calls -> Optional(Ttls \cup Tokens)]
  BY <1>1, <1>3 DEF IInv, TypeOK, Working
<1>5. \A k \in Keys : Midway(c, k) => Midway(c, k)'
  BY <1>1, <1>4 DEF Midway, SetsTtl
<1>6. Staged(c)'
  BY <1>1, <1>4 DEF Staged
<1>7. Known(c)'
  BY <1>1, <1>2, <1>4 DEF IInv, Known, AllKnown, KnownToken, history
<1>8. Done(c)'
  <2>1. (Keyed(c) /\ ~alone[c] => ~clean[task[c].key])'
    BY <1>1, <1>2 DEF IInv, Done, Keyed, history
  <2>2. (SetsTtl(c) /\ alone[c] => memory.ttl = task[c].new)'
    BY <1>1, <1>2 DEF IInv, Done, SetsTtl, history
  <2>3. QED
    BY <1>1, <1>4, <2>1, <2>2 DEF Done
<1>9. QED
  BY <1>1, <1>4, <1>5, <1>6, <1>7, <1>8, MoveStep DEF IInv, TypeOK

(* It is written. *)
LEMMA WriteStep ==
    ASSUME IInv, NEW c \in Calls, Write(c)
    PROVE  IInv'
<1>1. /\ pc[c] = "write" /\ Working(c)
      /\ pc' = [pc EXCEPT ![c] = "commit"]
      /\ UNCHANGED <<config, limiterVars, table, memory, minted, task, read, history>>
  BY DEF Write, Goto, Working
<1>2. /\ pc'[c] = "commit" /\ Working(c)'
      /\ \A d \in Calls \ {c} : pc'[d] = pc[d] /\ read'[d] = read[d]
      /\ pc' \in [Calls -> {"idle", "set", "find", "write", "commit", "reload", "assign"}]
      /\ read' \in [Calls -> Optional(Ttls \cup Tokens)]
  BY <1>1 DEF IInv, TypeOK, Working
<1>3. \A k \in Keys : Midway(c, k) => Midway(c, k)'
  BY <1>1, <1>2 DEF Midway, SetsTtl
<1>4. Staged(c)'
  BY <1>1, <1>2 DEF Staged
<1>5. Known(c)'
  BY <1>1, <1>2 DEF IInv, Known, AllKnown, KnownToken, history, Working
<1>6. Done(c)'
  BY <1>1, <1>2 DEF IInv, Done, Keyed, SetsTtl, history
<1>7. QED
  BY <1>1, <1>2, <1>3, <1>4, <1>5, <1>6, MoveStep DEF IInv, TypeOK

(* The token a restore brought is read back. *)
LEMMA ReloadStep ==
    ASSUME IInv, NEW c \in Calls, Reload(c)
    PROVE  IInv'
<1>1. /\ pc[c] = "reload" /\ Working(c)
      /\ read' = [read EXCEPT ![c] = table.token]
      /\ pc' = [pc EXCEPT ![c] = "assign"]
      /\ UNCHANGED <<config, limiterVars, table, memory, minted, task, history>>
  BY DEF Reload, Goto, Working
<1>2. task[c].op = "restore" /\ table.token \in Optional(Ttls \cup Tokens)
  BY <1>1 DEF IInv, TypeOK, Staged, Stored, Optional
<1>3. /\ pc'[c] = "assign" /\ Working(c)' /\ read'[c] = table.token
      /\ \A d \in Calls \ {c} : pc'[d] = pc[d] /\ read'[d] = read[d]
      /\ pc' \in [Calls -> {"idle", "set", "find", "write", "commit", "reload", "assign"}]
      /\ read' \in [Calls -> Optional(Ttls \cup Tokens)]
  BY <1>1, <1>2 DEF IInv, TypeOK, Working
<1>4. \A k \in Keys : Midway(c, k) => Midway(c, k)'
  BY <1>1, <1>3 DEF Midway, SetsTtl
<1>5. Staged(c)'
  BY <1>3 DEF Staged
<1>6. Known(c)'
  BY <1>1, <1>2, <1>3 DEF IInv, Known, AllKnown, KnownToken, Effect, history
<1>7. Done(c)'
  BY <1>1, <1>2, <1>3 DEF IInv, Done, Keyed, SetsTtl, Effect, Writes, history
<1>8. QED
  BY <1>1, <1>3, <1>4, <1>5, <1>6, <1>7, MoveStep DEF IInv, TypeOK

(* A call ends. *)
LEMMA EndEffects ==
    ASSUME TypeOK, NEW c \in Calls, End(c)
    PROVE  /\ pc'[c] = "idle" /\ alone'[c]
           /\ \A d \in Calls \ {c} :
                  pc'[d] = pc[d] /\ task'[d] = task[d] /\ read'[d] = read[d] /\ (alone'[d] <=> alone[d])
           /\ pc' \in [Calls -> {"idle", "set", "find", "write", "commit", "reload", "assign"}]
           /\ task' \in [Calls -> Tasks \cup {None}]
           /\ read' \in [Calls -> Optional(Ttls \cup Tokens)]
           /\ alone' \in [Calls -> BOOLEAN]
           /\ \A d \in Calls : Working(d)' => task'[d] \in Tasks
           /\ \A d \in Calls \ {c}, k \in Keys : (Doing(d, k)' <=> Doing(d, k)) /\ (Midway(d, k)' <=> Midway(d, k))
           /\ \A k \in Keys : ~Doing(c, k)'
<1>1. /\ pc' = [pc EXCEPT ![c] = "idle"] /\ task' = [task EXCEPT ![c] = None]
      /\ read' = [read EXCEPT ![c] = None] /\ alone' = [alone EXCEPT ![c] = TRUE]
  BY DEF End, Goto
<1>2. alone \in [Calls -> BOOLEAN]
  BY DEF TypeOK
<1>3. alone' \in [Calls -> BOOLEAN]
  BY <1>1, <1>2
<1>4. alone'[c] /\ \A d \in Calls \ {c} : alone'[d] <=> alone[d]
  BY <1>1, <1>2
<1>5. /\ pc'[c] = "idle"
      /\ \A d \in Calls \ {c} : pc'[d] = pc[d] /\ task'[d] = task[d] /\ read'[d] = read[d]
      /\ pc' \in [Calls -> {"idle", "set", "find", "write", "commit", "reload", "assign"}]
      /\ task' \in [Calls -> Tasks \cup {None}]
      /\ read' \in [Calls -> Optional(Ttls \cup Tokens)]
  BY <1>1 DEF TypeOK, Optional
<1>6. \A d \in Calls : Working(d)' => task'[d] \in Tasks
  BY <1>5 DEF TypeOK, Working
<1>7. /\ \A d \in Calls \ {c}, k \in Keys : (Doing(d, k)' <=> Doing(d, k)) /\ (Midway(d, k)' <=> Midway(d, k))
      /\ \A k \in Keys : ~Doing(c, k)'
  BY <1>5 DEF Doing, Midway, SetsTtl, Working
<1>8. QED
  BY <1>3, <1>4, <1>5, <1>6, <1>7

(* Rows change under a call in progress only if it knows that it has company. *)
LEMMA RowsOfOthers ==
    ASSUME IInv, NEW c \in Calls, Working(c), table' \in {table, Written(c)}
    PROVE  /\ table' \in Stored
           /\ \A k \in Keys : table'[k] # table[k] => Doing(c, k)
           /\ \A d \in Calls \ {c}, k \in Keys :
                  Doing(d, k) /\ table'[k] # table[k] => ~alone[d] /\ ~alone[c] /\ ~clean[k]
<1>1. table' \in Stored /\ \A k \in Keys : table'[k] # table[k] => Doing(c, k)
  BY RowsAfter DEF IInv, TypeOK, Doing, Keys
<1>2. QED
  BY <1>1 DEF IInv, Meeting

(* What is committed is known, and what was known before still is. *)
LEMMA CommitsAreKnown ==
    ASSUME IInv, table' \in Stored, memory' = memory, stored' = stored \cup ({table'.token} \ {None})
    PROVE  /\ stored' \subseteq Tokens /\ stored \subseteq stored'
           /\ KnownToken(table.token)' /\ KnownToken(memory.token)'
  BY DEF IInv, TypeOK, AllKnown, KnownToken, Stored, Optional

(* A TTL is committed, and its call ends. *)
LEMMA CommitTtlStep ==
    ASSUME IInv, NEW c \in Calls, Commit(c), task[c].op # "restore", task[c].key # "token"
    PROVE  IInv'
<1>1. /\ pc[c] = "commit" /\ Working(c)
      /\ table' = Written(c) /\ stored' = stored \cup ({table'.token} \ {None})
      /\ End(c)
      /\ clean' = [clean EXCEPT !.ttl = @ \/ alone[c]]
      /\ UNCHANGED <<config, limiterVars, memory, minted>>
  BY DEF Commit, Working
<1>2. /\ task[c] \in Tasks /\ task[c].op = "set" /\ task[c].key = "ttl" /\ task[c].new \in Ttls
      /\ Writes(task[c]) = {"ttl"} /\ Doing(c, "ttl") /\ "ttl" \in Keys
  BY <1>1, TaskKinds, RowsWritten DEF IInv, TypeOK, Doing, Keys
<1>3. clean \in [Keys -> BOOLEAN] /\ alone \in [Calls -> BOOLEAN]
  BY DEF IInv, TypeOK
<1>4. clean' \in [Keys -> BOOLEAN]
  BY <1>1, <1>3, Zenon
<1>5. (clean'["ttl"] <=> clean["ttl"] \/ alone[c]) /\ \A k \in Keys \ {"ttl"} : clean'[k] <=> clean[k]
  BY <1>1, <1>2, <1>3
<1>6. /\ table' \in Stored /\ table'.token = table.token
      /\ table'.ttl = IF task[c].new = read[c] THEN table.ttl ELSE task[c].new
  BY <1>1, <1>2, RowsAfter DEF IInv, Keys
<1>7. TypeOK'
  <2>1. LimiterTypeOK' /\ Coherent(config)'
    BY <1>1 DEF IInv, TypeOK, LimiterTypeOK, limiterVars, Coherent
  <2>2. QED
    BY <1>1, <1>4, <1>6, <2>1, EndEffects, CommitsAreKnown DEF IInv, TypeOK
<1>8. LimiterInv'
  BY <1>1, LimiterStutters DEF IInv
<1>9. \A d \in Calls : Staged(d)'
  BY <1>1, EndEffects DEF IInv, Staged
<1>10. AllKnown'
  <2>1. Known(c)'
    BY <1>1, EndEffects DEF Known, Working, IInv
  <2>2. \A d \in Calls \ {c} : Known(d)'
    BY <1>1, <1>6, EndEffects, CommitsAreKnown, KnownKept DEF IInv, AllKnown
  <2>3. QED
    BY <1>1, <1>6, <2>1, <2>2, CommitsAreKnown DEF AllKnown
<1>11. \A d \in Calls \ {c} : Doing(d, "ttl") => ~alone[d] /\ ~clean'["ttl"]
  BY <1>2, <1>5 DEF IInv, Meeting
<1>12. \A d \in Calls \ {c} :
          /\ pc'[d] = pc[d] /\ task'[d] = task[d] /\ read'[d] = read[d] /\ (alone'[d] <=> alone[d])
          /\ \A k \in Keys : Doing(d, k)' <=> Doing(d, k)
  BY <1>1, EndEffects DEF IInv
<1>13. \A k \in Keys : ~Doing(c, k)'
  BY <1>1, EndEffects DEF IInv
<1>14. Meeting'
  BY <1>5, <1>11, <1>12, <1>13 DEF IInv, Meeting
<1>15. \A d \in Calls : Done(d)'
  <2>1. Done(c)'
    BY <1>1, EndEffects DEF Done, Keyed, SetsTtl, Working, IInv
  <2>2. ASSUME NEW d \in Calls \ {c} PROVE Undisturbed(d)
    BY <1>1, <1>5, <1>6, <1>11, <1>12 DEF Undisturbed, Keys
  <2>3. QED
    BY <2>1, <2>2, DoneKept DEF IInv
<1>16. Follows'
  <2>1. (clean["ttl"] => memory["ttl"] = Loaded(table)["ttl"])'
    <3>1. SUFFICES ASSUME clean'["ttl"] PROVE memory'["ttl"] = Loaded(table')["ttl"]
      OBVIOUS
    <3>2. alone[c]
      BY <1>1, <1>2, <1>5, <3>1 DEF IInv, Done, Keyed
    <3>3. memory.ttl = task[c].new /\ read[c] = table.ttl
      BY <1>1, <1>2, <3>2 DEF IInv, Done, Keyed, SetsTtl
    <3>4. table'.ttl = task[c].new /\ task[c].new # None
      BY <1>2, <1>6, <3>3
    <3>5. QED
      BY <1>1, <1>6, <3>3, <3>4, LoadedRows
  <2>2. \A d \in Calls : Doing(d, "token") /\ Midway(d, "token") => (Doing(d, "token") /\ Midway(d, "token"))'
    BY <1>1, <1>12 DEF Midway, Keys
  <2>3. (clean["token"] => memory["token"] = Loaded(table)["token"]
                           \/ \E d \in Calls : Doing(d, "token") /\ Midway(d, "token"))'
    BY <1>1, <1>5, <1>6, <2>2, FollowsKept DEF IInv, TypeOK, Keys
  <2>4. QED
    BY <2>1, <2>3 DEF Follows, Keys
<1>17. QED
  BY <1>7, <1>8, <1>9, <1>10, <1>14, <1>15, <1>16 DEF IInv

(* A token, or a restore, is committed, and memory has yet to follow. *)
LEMMA CommitTokenStep ==
    ASSUME IInv, NEW c \in Calls, Commit(c), task[c].op = "restore" \/ task[c].key = "token"
    PROVE  IInv'
<1> DEFINE label == IF task[c].op = "restore" THEN "reload" ELSE "assign"
<1>1. /\ pc[c] = "commit" /\ Working(c)
      /\ table' = Written(c) /\ stored' = stored \cup ({table'.token} \ {None})
      /\ pc' = [pc EXCEPT ![c] = label]
      /\ UNCHANGED <<config, limiterVars, memory, minted, task, read, alone>>
      /\ clean' = IF task[c].op = "restore" THEN Unclean({"ttl"}) ELSE clean
  BY DEF Commit, Working, Goto
<1>2. /\ task[c] \in Tasks
      /\ task[c].op = "restore" => Writes(task[c]) = Keys /\ task[c].new \in Stored
      /\ task[c].op # "restore" => Writes(task[c]) = {"token"}
      /\ task[c].op = "set" /\ task[c].key = "token" => task[c].new \in Tokens
      /\ task[c].op # "restore" /\ task[c].op # "set" => task[c].new = None
      /\ "token" \in Writes(task[c]) /\ "token" \in Keys /\ "ttl" \in Keys
  BY <1>1, TaskKinds, RowsWritten DEF IInv, TypeOK, Doing, Keys
<1>3. clean \in [Keys -> BOOLEAN]
  BY DEF IInv, TypeOK
<1>4. clean' \in [Keys -> BOOLEAN]
  BY <1>1, <1>3, Zenon DEF Unclean
<1>5. \A k \in Keys : clean'[k] <=> (clean[k] /\ (task[c].op = "restore" => k # "ttl"))
  BY <1>1, <1>3 DEF Unclean
<1>6. /\ table' \in Stored
      /\ \A k \in Keys : table'[k] # table[k] => Doing(c, k)
      /\ \A d \in Calls \ {c}, k \in Keys :
             Doing(d, k) /\ table'[k] # table[k] => ~alone[d] /\ ~clean[k]
  BY <1>1, RowsOfOthers
<1>7. /\ pc'[c] = label
      /\ \A d \in Calls \ {c} : pc'[d] = pc[d]
      /\ pc' \in [Calls -> {"idle", "set", "find", "write", "commit", "reload", "assign"}]
      /\ \A d \in Calls : Working(d)' <=> Working(d)
      /\ \A d \in Calls, k \in Keys : Doing(d, k)' <=> Doing(d, k)
  BY <1>1 DEF IInv, TypeOK, Working, Doing
<1>8. TypeOK'
  <2>1. LimiterTypeOK' /\ Coherent(config)'
    BY <1>1 DEF IInv, TypeOK, LimiterTypeOK, limiterVars, Coherent
  <2>2. QED
    BY <1>1, <1>4, <1>6, <1>7, <2>1, CommitsAreKnown DEF IInv, TypeOK
<1>9. LimiterInv'
  BY <1>1, LimiterStutters DEF IInv
<1>10. \A d \in Calls : Staged(d)'
  BY <1>1, <1>7 DEF IInv, Staged
<1>11. stored \subseteq stored' /\ KnownToken(table.token)' /\ KnownToken(memory.token)'
  BY <1>1, <1>6, CommitsAreKnown
<1>12. ASSUME task[c].op # "restore" PROVE KnownToken(Effect(c))'
  <2>1. table'.token = IF task[c].new = read[c] THEN table.token ELSE task[c].new
    BY <1>1, <1>2, <1>12, RowsAfter DEF IInv
  <2>2. CASE task[c].new = read[c] /\ task[c].op = "set"
    BY <1>1, <1>2, <1>11, <1>12, <2>2 DEF IInv, AllKnown, Known, KnownToken, Effect
  <2>3. CASE task[c].new # read[c]
    BY <1>1, <1>11, <1>12, <2>1, <2>3 DEF KnownToken, Effect
  <2>4. CASE task[c].op # "set"
    BY <1>1, <1>2, <1>12, <2>4 DEF KnownToken, Effect
  <2>5. QED
    BY <2>2, <2>3, <2>4
<1>13. AllKnown'
  <2>1. Known(c)'
    BY <1>1, <1>7, <1>11, <1>12 DEF IInv, AllKnown, Known, KnownToken
  <2>2. \A d \in Calls \ {c} : Known(d)'
    BY <1>1, <1>7, <1>11, KnownKept DEF IInv, AllKnown
  <2>3. QED
    BY <1>11, <2>1, <2>2 DEF AllKnown
<1>14. Meeting'
  BY <1>1, <1>5, <1>7, MeetingKept DEF IInv
<1>15. \A d \in Calls : Done(d)'
  <2>1. (Keyed(c) /\ ~alone[c] => ~clean[task[c].key])'
    BY <1>1, <1>5, <1>7 DEF IInv, Done, Keyed
  <2>2. ASSUME task[c].op # "restore", alone[c] \/ clean["token"] PROVE table'.token = Effect(c)'
    <3>1. alone[c] /\ read[c] = table.token
      BY <1>1, <2>2 DEF IInv, Done, Keyed
    <3>2. table'.token = IF task[c].new = read[c] THEN table.token ELSE task[c].new
      BY <1>1, <1>2, <2>2, RowsAfter DEF IInv
    <3>3. QED
      BY <1>1, <2>2, <3>1, <3>2 DEF Effect
  <2>3. Done(c)'
    BY <1>1, <1>2, <1>5, <1>7, <2>1, <2>2 DEF Done, SetsTtl
  <2>4. ASSUME NEW d \in Calls \ {c} PROVE Undisturbed(d)
    BY <1>1, <1>5, <1>6, <1>7 DEF Undisturbed
  <2>5. QED
    BY <2>3, <2>4, DoneKept DEF IInv
<1>16. Follows'
  <2>1. Doing(c, "token")' /\ Midway(c, "token")'
    BY <1>1, <1>2, <1>7 DEF Doing, Midway
  <2>2. CASE task[c].op = "restore"
    BY <1>5, <2>1, <2>2 DEF Follows, Keys
  <2>3. CASE task[c].op # "restore"
    <3>1. table'["ttl"] = table["ttl"]
      BY <1>2, <1>6, <2>3 DEF Doing
    <3>2. \A d \in Calls : Doing(d, "ttl") /\ Midway(d, "ttl") => (Doing(d, "ttl") /\ Midway(d, "ttl"))'
      BY <1>1, <1>2, <1>7, <2>3 DEF Midway, SetsTtl
    <3>3. (clean["ttl"] => memory["ttl"] = Loaded(table)["ttl"]
                           \/ \E d \in Calls : Doing(d, "ttl") /\ Midway(d, "ttl"))'
      BY <1>1, <1>2, <1>5, <1>6, <3>1, <3>2, FollowsKept DEF IInv, TypeOK
    <3>4. QED
      BY <2>1, <3>3 DEF Follows, Keys
  <2>4. QED
    BY <2>2, <2>3
<1>17. QED
  BY <1>8, <1>9, <1>10, <1>13, <1>14, <1>15, <1>16 DEF IInv

(* The token is assigned, and the call ends. *)
LEMMA AssignStep ==
    ASSUME IInv, NEW c \in Calls, Assign(c)
    PROVE  IInv'
<1>1. /\ pc[c] = "assign" /\ Working(c)
      /\ memory' = [memory EXCEPT !.token = Effect(c)]
      /\ End(c)
      /\ clean' = [clean EXCEPT !.token = @ \/ alone[c]]
      /\ UNCHANGED <<config, limiterVars, table, minted, stored>>
  BY DEF Assign, Working, Effect
<1>2. Doing(c, "token") /\ "token" \in Keys /\ "ttl" \in Keys
  BY <1>1 DEF IInv, Done, Doing, Keys
<1>3. clean \in [Keys -> BOOLEAN] /\ alone \in [Calls -> BOOLEAN]
  BY DEF IInv, TypeOK
<1>4. clean' \in [Keys -> BOOLEAN]
  BY <1>1, <1>3, Zenon
<1>5. (clean'["token"] <=> clean["token"] \/ alone[c]) /\ \A k \in Keys \ {"token"} : clean'[k] <=> clean[k]
  BY <1>1, <1>2, <1>3
<1>6. KnownToken(Effect(c)) /\ Effect(c) \in Optional(Tokens)
  BY <1>1 DEF IInv, TypeOK, AllKnown, Known, KnownToken, Optional
<1>7. /\ memory' \in [ttl : Ttls \cup {DefaultTtl}, token : Optional(Tokens)]
      /\ memory'.token = Effect(c) /\ memory'.ttl = memory.ttl
  BY <1>1, <1>6 DEF IInv, TypeOK
<1>8. TypeOK'
  <2>1. LimiterTypeOK' /\ Coherent(config)'
    BY <1>1 DEF IInv, TypeOK, LimiterTypeOK, limiterVars, Coherent
  <2>2. QED
    BY <1>1, <1>4, <1>7, <2>1, EndEffects DEF IInv, TypeOK
<1>9. LimiterInv'
  BY <1>1, LimiterStutters DEF IInv
<1>10. \A d \in Calls : Staged(d)'
  BY <1>1, EndEffects DEF IInv, Staged
<1>11. AllKnown'
  <2>1. Known(c)'
    BY <1>1, EndEffects DEF Known, Working, IInv
  <2>2. \A d \in Calls \ {c} : Known(d)'
    BY <1>1, EndEffects, KnownKept DEF IInv, AllKnown
  <2>3. QED
    BY <1>1, <1>6, <1>7, <2>1, <2>2 DEF IInv, AllKnown, KnownToken
<1>12. \A d \in Calls \ {c} : Doing(d, "token") => ~alone[d] /\ ~clean'["token"]
  BY <1>2, <1>5 DEF IInv, Meeting
<1>13. \A d \in Calls \ {c} :
          /\ pc'[d] = pc[d] /\ task'[d] = task[d] /\ read'[d] = read[d] /\ (alone'[d] <=> alone[d])
          /\ \A k \in Keys : (Doing(d, k)' <=> Doing(d, k)) /\ (Midway(d, k)' <=> Midway(d, k))
  BY <1>1, EndEffects DEF IInv
<1>14. \A k \in Keys : ~Doing(c, k)'
  BY <1>1, EndEffects DEF IInv
<1>15. Meeting'
  BY <1>5, <1>12, <1>13, <1>14 DEF IInv, Meeting
<1>16. \A d \in Calls : Done(d)'
  <2>1. Done(c)'
    BY <1>1, EndEffects DEF Done, Keyed, SetsTtl, Working, IInv
  <2>2. ASSUME NEW d \in Calls \ {c} PROVE Undisturbed(d)
    BY <1>1, <1>5, <1>7, <1>12, <1>13 DEF Undisturbed, Keys
  <2>3. QED
    BY <2>1, <2>2, DoneKept DEF IInv
<1>17. Follows'
  <2>1. clean'["token"] => memory'["token"] = Loaded(table')["token"]
    BY <1>1, <1>5, <1>7, LoadedRows DEF IInv, Done, TypeOK
  <2>2. Doing(c, "ttl") => ~clean["ttl"]
    <3>1. SUFFICES ASSUME Doing(c, "ttl") PROVE task[c].op = "restore"
      BY <1>1 DEF IInv, Done
    <3>2. task[c] \in Tasks
      BY <1>1 DEF IInv, TypeOK
    <3>3. QED
      BY <1>2, <3>1, <3>2, RowsWritten DEF Doing
  <2>3. (clean["ttl"] => memory["ttl"] = Loaded(table)["ttl"]
                         \/ \E d \in Calls : Doing(d, "ttl") /\ Midway(d, "ttl"))'
    <3>1. SUFFICES ASSUME clean'["ttl"]
                   PROVE  \/ memory'["ttl"] = Loaded(table')["ttl"]
                          \/ \E d \in Calls : Doing(d, "ttl")' /\ Midway(d, "ttl")'
      OBVIOUS
    <3>2. clean["ttl"]
      BY <1>2, <1>5, <3>1 DEF Keys
    <3>3. memory["ttl"] = Loaded(table)["ttl"] \/ \E d \in Calls : Doing(d, "ttl") /\ Midway(d, "ttl")
      BY <1>2, <3>2 DEF IInv, Follows
    <3>4. QED
      BY <1>1, <1>2, <1>7, <1>13, <2>2, <3>2, <3>3
  <2>4. QED
    BY <2>1, <2>3 DEF Follows, Keys
<1>18. QED
  BY <1>8, <1>9, <1>10, <1>11, <1>15, <1>16, <1>17 DEF IInv

(* A call fails: what may now differ counts as unclean. *)
LEMMA FailStep ==
    ASSUME IInv, NEW c \in Calls, Fail(c)
    PROVE  IInv'
<1> DEFINE dirty == IF table' # table \/ pc[c] = "reload" THEN Keys
                    ELSE IF task[c].op = "set" /\ task[c].key = "ttl" THEN {"ttl"} ELSE {}
<1>1. /\ Working(c) /\ pc[c] \notin {"set", "assign"}
      /\ table' \in {table, Written(c)} /\ stored' = stored \cup ({table'.token} \ {None})
      /\ clean' = Unclean(dirty)
      /\ End(c)
      /\ UNCHANGED <<config, limiterVars, memory, minted>>
  BY DEF Fail
<1>2. clean' \in [Keys -> BOOLEAN]
  BY <1>1, Zenon DEF Unclean
<1>3. \A k \in Keys : clean'[k] <=> (clean[k] /\ k \notin dirty)
  BY <1>1 DEF Unclean
<1>4. /\ table' \in Stored
      /\ \A d \in Calls \ {c}, k \in Keys :
             Doing(d, k) /\ table'[k] # table[k] => ~alone[d] /\ ~clean[k]
  BY <1>1, RowsOfOthers
<1>5. TypeOK'
  <2>1. LimiterTypeOK' /\ Coherent(config)'
    BY <1>1 DEF IInv, TypeOK, LimiterTypeOK, limiterVars, Coherent
  <2>2. QED
    BY <1>1, <1>2, <1>4, <2>1, EndEffects, CommitsAreKnown DEF IInv, TypeOK
<1>6. LimiterInv'
  BY <1>1, LimiterStutters DEF IInv
<1>7. \A d \in Calls : Staged(d)'
  BY <1>1, EndEffects DEF IInv, Staged
<1>8. AllKnown'
  <2>1. Known(c)'
    BY <1>1, EndEffects DEF Known, Working, IInv
  <2>2. \A d \in Calls \ {c} : Known(d)'
    BY <1>1, <1>4, EndEffects, CommitsAreKnown, KnownKept DEF IInv, AllKnown
  <2>3. QED
    BY <1>1, <1>4, <2>1, <2>2, CommitsAreKnown DEF AllKnown
<1>9. \A d \in Calls \ {c} :
          /\ pc'[d] = pc[d] /\ task'[d] = task[d] /\ read'[d] = read[d] /\ (alone'[d] <=> alone[d])
          /\ \A k \in Keys : (Doing(d, k)' <=> Doing(d, k)) /\ (Midway(d, k)' <=> Midway(d, k))
  BY <1>1, EndEffects DEF IInv
<1>10. \A k \in Keys : ~Doing(c, k)'
  BY <1>1, EndEffects DEF IInv
<1>11. Meeting'
  BY <1>3, <1>9, <1>10, MeetingKept DEF IInv
<1>12. \A d \in Calls : Done(d)'
  <2>1. Done(c)'
    BY <1>1, EndEffects DEF Done, Keyed, SetsTtl, Working, IInv
  <2>2. ASSUME NEW d \in Calls \ {c} PROVE Undisturbed(d)
    BY <1>1, <1>3, <1>4, <1>9, Zenon DEF Undisturbed
  <2>3. QED
    BY <2>1, <2>2, DoneKept DEF IInv
<1>13. Follows'
  <2>1. CASE table' # table \/ pc[c] = "reload"
    BY <1>3, <2>1 DEF Follows
  <2>2. CASE table' = table /\ pc[c] # "reload"
    <3>1. ASSUME NEW k \in Keys, k \notin dirty, NEW d \in Calls, Doing(d, k), Midway(d, k)
          PROVE  Doing(d, k)' /\ Midway(d, k)'
      <4>1. d # c
        BY <1>1, <2>2, <3>1 DEF Midway, SetsTtl, Keys
      <4>2. QED
        BY <1>9, <3>1, <4>1
    <3>2. ASSUME NEW k \in Keys, k \notin dirty
          PROVE  (clean[k] => memory[k] = Loaded(table)[k] \/ \E d \in Calls : Doing(d, k) /\ Midway(d, k))'
      BY <1>1, <1>3, <1>4, <2>2, <3>1, <3>2, FollowsKept DEF IInv, TypeOK
    <3>3. QED
      BY <1>3, <3>2 DEF Follows
  <2>3. QED
    BY <2>1, <2>2
<1>14. QED
  BY <1>5, <1>6, <1>7, <1>8, <1>11, <1>12, <1>13 DEF IInv

(* The script stores a token, whoever else is about to. *)
LEMMA ScriptStep == IInv /\ Script => IInv'
<1> SUFFICES ASSUME IInv, Script PROVE IInv'
  OBVIOUS
<1>1. /\ minted < MaxTokens /\ minted' = minted + 1
      /\ table' = [table EXCEPT !.token = minted']
      /\ stored' = stored \cup {minted'}
      /\ alone' = [c \in Calls |-> alone[c] /\ (Working(c) => "token" \notin Writes(task[c]))]
      /\ clean' = Unclean({"token"})
      /\ UNCHANGED <<config, limiterVars, memory, pc, task, read>>
  BY DEF Script
<1>2. minted' \in Tokens /\ minted' \in 0..MaxTokens
  BY <1>1 DEF IInv, TypeOK, Tokens
<1>3. clean' \in [Keys -> BOOLEAN] /\ alone' \in [Calls -> BOOLEAN]
  BY <1>1, Zenon DEF Unclean
<1>4. /\ \A k \in Keys : clean'[k] <=> (clean[k] /\ k # "token")
      /\ \A d \in Calls : alone'[d] <=> (alone[d] /\ ~Doing(d, "token"))
  BY <1>1 DEF Unclean, Doing
<1>5. table' \in Stored /\ table'.token = minted' /\ table'.ttl = table.ttl
  BY <1>1, <1>2 DEF IInv, TypeOK, Stored, Optional
<1>6. \A d \in Calls, k \in Keys : (Doing(d, k)' <=> Doing(d, k)) /\ (Midway(d, k)' <=> Midway(d, k))
  BY <1>1 DEF Doing, Working, Midway, SetsTtl
<1>7. TypeOK'
  <2>1. LimiterTypeOK' /\ Coherent(config)'
    BY <1>1 DEF IInv, TypeOK, LimiterTypeOK, limiterVars, Coherent
  <2>2. \A d \in Calls : Working(d)' => task'[d] \in Tasks
    BY <1>1 DEF IInv, TypeOK, Working
  <2>3. QED
    BY <1>1, <1>2, <1>3, <1>5, <2>1, <2>2 DEF IInv, TypeOK
<1>8. LimiterInv'
  BY <1>1, LimiterStutters DEF IInv
<1>9. \A d \in Calls : Staged(d)'
  BY <1>1 DEF IInv, Staged
<1>10. AllKnown'
  <2>1. \A d \in Calls : Known(d)'
    BY <1>1, KnownKept DEF IInv, AllKnown
  <2>2. QED
    BY <1>1, <1>5, <2>1 DEF IInv, AllKnown, KnownToken
<1>11. Meeting'
  BY <1>4, <1>6, MeetingKept DEF IInv
<1>12. \A d \in Calls : Done(d)'
  <2>1. ASSUME NEW d \in Calls PROVE Undisturbed(d)
    <3>1. Keyed(d) /\ Doing(d, "token") => \A k \in Keys : Doing(d, k) => k = "token"
      BY RowsWritten DEF IInv, TypeOK, Keyed, Doing
    <3>2. QED
      BY <1>1, <1>4, <1>5, <3>1 DEF Undisturbed, Keys
  <2>2. QED
    BY <2>1, DoneKept DEF IInv
<1>13. Follows'
  <2>1. ASSUME NEW k \in Keys, k # "token"
        PROVE  (clean[k] => memory[k] = Loaded(table)[k] \/ \E d \in Calls : Doing(d, k) /\ Midway(d, k))'
    <3>1. table'[k] = table[k]
      BY <1>5, <2>1 DEF Keys
    <3>2. QED
      BY <1>1, <1>4, <1>5, <1>6, <3>1, FollowsKept DEF IInv, TypeOK
  <2>2. QED
    BY <1>4, <2>1 DEF Follows
<1>14. QED
  BY <1>7, <1>8, <1>9, <1>10, <1>11, <1>12, <1>13 DEF IInv

(* A start finds what was committed, and nobody at work. *)
Starting ==
    /\ table \in Stored /\ KnownToken(table.token) /\ memory = Loaded(table)
    /\ \A c \in Calls : pc[c] = "idle"

(* Then whatever calls in progress must keep holds. *)
LEMMA Started == Starting => AllKnown /\ Meeting /\ Follows /\ \A c \in Calls : Staged(c) /\ Done(c)
<1> SUFFICES ASSUME Starting PROVE AllKnown /\ Meeting /\ Follows /\ \A c \in Calls : Staged(c) /\ Done(c)
  OBVIOUS
<1>1. \A c \in Calls : pc[c] = "idle" /\ ~Working(c)
  BY DEF Starting, Working
<1>2. AllKnown
  <2>1. memory.token = table.token
    BY LoadedRows DEF Starting
  <2>2. QED
    BY <1>1, <2>1 DEF Starting, AllKnown, Known, KnownToken
<1>3. Meeting /\ Follows
  BY <1>1 DEF Starting, Meeting, Doing, Follows
<1>4. \A c \in Calls : Staged(c) /\ Done(c)
  BY <1>1 DEF Staged, Done, Keyed, SetsTtl
<1>5. QED
  BY <1>2, <1>3, <1>4

(* The first start: nothing is stored, and nobody has hit the limiter.      *)
LEMMA InitInv == Init => IInv
<1> SUFFICES ASSUME Init PROVE IInv
  OBVIOUS
<1>1. LimiterInv
  BY LimiterAssumption, LimiterStarts DEF Init, LimiterInit
<1>2. table \in Stored /\ KnownToken(table.token)
  <2>1. table = [ttl |-> None, token |-> None]
    BY DEF Init
  <2>2. QED
    BY <2>1 DEF Stored, Optional, KnownToken
<1>3. TypeOK
  <2>1. memory \in [ttl : Ttls \cup {DefaultTtl}, token : Optional(Tokens)]
    BY <1>2, LoadedRows DEF Init
  <2>2. Coherent(config)
    BY DEF Init
  <2>3. alone \in [Calls -> BOOLEAN] /\ clean \in [Keys -> BOOLEAN]
    BY DEF Init
  <2>4. LimiterTypeOK
    BY <1>1 DEF LimiterInv
  <2>5. \A c \in Calls : ~Working(c)
    BY DEF Init, Working
  <2>6. QED
    BY <1>2, <2>1, <2>2, <2>3, <2>4, <2>5 DEF Init, TypeOK, Optional
<1>4. AllKnown /\ Meeting /\ Follows /\ \A c \in Calls : Staged(c) /\ Done(c)
  BY <1>2, Started DEF Init, Starting
<1>5. QED
  BY <1>1, <1>3, <1>4 DEF IInv

(* A restart: the calls in progress are gone, and memory is loaded again.    *)
LEMMA RestartStep == IInv /\ Restart => IInv'
<1> DEFINE anew == now \in 0..MaxTime /\ bucket = Fresh /\ hits = <<>>
<1>1. (anew => LimiterInv)'
  BY LimiterStarts, PTL
<1>2. (Starting => AllKnown /\ Meeting /\ Follows /\ \A c \in Calls : Staged(c) /\ Done(c))'
  BY Started, PTL
<1> SUFFICES ASSUME IInv, Restart PROVE IInv'
  OBVIOUS
<1>3. /\ memory' = Loaded(table)
      /\ pc' = [c \in Calls |-> "idle"] /\ task' = [c \in Calls |-> None]
      /\ read' = [c \in Calls |-> None] /\ alone' = [c \in Calls |-> TRUE]
      /\ clean' = [k \in Keys |-> TRUE]
      /\ UNCHANGED <<config, table, minted, stored, now>>
      /\ bucket' = Fresh /\ hits' = <<>>
  BY DEF Restart
<1>4. LimiterInv'
  <2>1. anew'
    BY <1>3 DEF IInv, LimiterInv, LimiterTypeOK, Fresh
  <2>2. QED
    BY <1>1, <2>1
<1>5. (AllKnown /\ Meeting /\ Follows /\ \A c \in Calls : Staged(c) /\ Done(c))'
  <2>1. Starting'
    BY <1>3 DEF IInv, TypeOK, AllKnown, KnownToken, Starting, Loaded
  <2>2. QED
    BY <1>2, <2>1
<1>6. TypeOK'
  <2>1. memory' \in [ttl : Ttls \cup {DefaultTtl}, token : Optional(Tokens)]
    BY <1>3, LoadedRows DEF IInv, TypeOK
  <2>2. alone' \in [Calls -> BOOLEAN] /\ clean' \in [Keys -> BOOLEAN]
    BY <1>3
  <2>3. LimiterTypeOK' /\ Coherent(config)'
    BY <1>3, <1>4 DEF IInv, TypeOK, LimiterInv, Coherent
  <2>4. QED
    BY <1>3, <2>1, <2>2, <2>3 DEF IInv, TypeOK, Optional, Working
<1>7. QED
  BY <1>4, <1>5, <1>6 DEF IInv

(* The limiter's own steps leave the rest alone. *)
LEMMA LimiterStep ==
    ASSUME IInv, Check \/ Tick, UNCHANGED <<config, adminVars>>
    PROVE  IInv'
<1>1. UNCHANGED <<config, table, memory, minted, pc, task, read, stored, alone, clean>>
  BY DEF adminVars, history
<1>2. LimiterInv'
  BY TickStep, CheckStep DEF IInv
<1>3. TypeOK'
  BY <1>1, <1>2 DEF IInv, TypeOK, LimiterInv, Coherent, Working
<1>4. AllKnown'
  BY <1>1 DEF IInv, AllKnown, Known, KnownToken, Effect, Working
<1>5. Meeting' /\ Follows'
  BY <1>1 DEF IInv, Meeting, Follows, Doing, Midway, SetsTtl, Working
<1>6. \A c \in Calls : Staged(c)' /\ Done(c)'
  BY <1>1 DEF IInv, Staged, Done, Keyed, SetsTtl, Effect, Working
<1>7. QED
  BY <1>2, <1>3, <1>4, <1>5, <1>6 DEF IInv

-----------------------------------------------------------------------------
(* The theorems *)

(* Every step of an administration call. *)
LEMMA CallStep ==
    ASSUME IInv, NEW c \in Calls,
           \/ UpdateSettings(c) \/ RotateToken(c) \/ DeleteToken(c) \/ Restore(c)
           \/ SetTtlDays(c) \/ Find(c) \/ Write(c) \/ Commit(c) \/ Reload(c) \/ Assign(c)
           \/ Fail(c)
    PROVE  IInv'
<1>1. minted \in 0..MaxTokens
  BY DEF IInv, TypeOK
<1>2. CASE UpdateSettings(c)
  <2>1. PICK d \in Ttls : Ask(c, [op |-> "set", key |-> "ttl", new |-> d], "set") /\ minted' = minted
    BY <1>2 DEF UpdateSettings
  <2>2. [op |-> "set", key |-> "ttl", new |-> d] \in Tasks
    BY DEF Tasks
  <2>3. QED
    BY <1>1, <2>1, <2>2, AskStep
<1>3. CASE RotateToken(c)
  <2>1. minted' = minted + 1 /\ minted' \in Tokens /\ minted' \in 0..MaxTokens
    BY <1>1, <1>3 DEF RotateToken, Tokens
  <2>2. Ask(c, [op |-> "set", key |-> "token", new |-> minted + 1], "find")
    BY <1>3, <2>1 DEF RotateToken
  <2>3. [op |-> "set", key |-> "token", new |-> minted + 1] \in Tasks
    BY <2>1 DEF Tasks
  <2>4. QED
    BY <2>1, <2>2, <2>3, AskStep
<1>4. CASE DeleteToken(c)
  <2>1. [op |-> "delete", key |-> "token", new |-> None] \in Tasks
    BY DEF Tasks
  <2>2. QED
    BY <1>1, <1>4, <2>1, AskStep DEF DeleteToken
<1>5. CASE Restore(c)
  <2>1. PICK d \in Optional(Ttls), t \in Optional(stored) :
            Ask(c, [op |-> "restore", new |-> [ttl |-> d, token |-> t]], "write") /\ minted' = minted
    BY <1>5 DEF Restore
  <2>2. [op |-> "restore", new |-> [ttl |-> d, token |-> t]] \in Tasks
    BY DEF Tasks, Stored, Optional, IInv, TypeOK
  <2>3. KnownToken(t)
    BY DEF KnownToken, Optional
  <2>4. QED
    BY <1>1, <2>1, <2>2, <2>3, AskStep
<1>6. CASE Commit(c)
  BY <1>6, CommitTtlStep, CommitTokenStep
<1>7. QED
  BY <1>2, <1>3, <1>4, <1>5, <1>6, SetStep, FindStep, WriteStep, ReloadStep, AssignStep, FailStep

(* The invariant holds in every reachable state. *)
THEOREM Invariant == Spec => []IInv
<1>1. IInv /\ [Next]_vars => IInv'
  <2> SUFFICES ASSUME IInv, [Next]_vars PROVE IInv'
    OBVIOUS
  <2>1. ASSUME NEW c \in Calls,
               \/ UpdateSettings(c) \/ RotateToken(c) \/ DeleteToken(c) \/ Restore(c)
               \/ SetTtlDays(c) \/ Find(c) \/ Write(c) \/ Commit(c) \/ Reload(c) \/ Assign(c)
               \/ Fail(c)
        PROVE  IInv'
    BY <2>1, CallStep
  <2>2. CASE Script
    BY <2>2, ScriptStep
  <2>3. CASE Restart
    BY <2>3, RestartStep
  <2>4. CASE Validate \/ (Tick /\ UNCHANGED <<config, adminVars>>)
    BY <2>4, LimiterStep DEF Validate
  <2>5. CASE UNCHANGED vars
    <3>1. UNCHANGED <<config, table, memory, minted, pc, task, read, stored, alone, clean, limiterVars>>
      BY <2>5 DEF vars, adminVars, history
    <3>2. LimiterInv' /\ TypeOK'
      BY <3>1, LimiterStutters DEF IInv, TypeOK, LimiterInv, Coherent, Working
    <3>3. AllKnown' /\ Meeting' /\ Follows'
      BY <3>1 DEF IInv, AllKnown, Known, KnownToken, Effect, Meeting, Follows, Doing, Midway, SetsTtl, Working
    <3>4. \A c \in Calls : Staged(c)' /\ Done(c)'
      BY <3>1 DEF IInv, Staged, Done, Keyed, SetsTtl, Effect, Working
    <3>5. QED
      BY <3>2, <3>3, <3>4 DEF IInv
  <2>6. QED
    BY <2>1, <2>2, <2>3, <2>4, <2>5 DEF Next
<1>2. QED
  BY InitInv, <1>1, PTL DEF Spec

(* Every variable keeps its type, whichever calls, scripts and restarts meet. *)
THEOREM TypeCorrect == Spec => []TypeOK
<1>1. IInv => TypeOK
  BY DEF IInv
<1>2. QED
  BY Invariant, <1>1, PTL

(* With API auth on, only a token whose hash was committed opens /validate   *)
(* (deps.py:56-80, routes_settings.py:91-93).                                *)
THEOREM OnlyStoredTokens == Spec => []OnlyStoredTokensOpenTheApi
<1>1. IInv => OnlyStoredTokensOpenTheApi
  BY DEF IInv, AllKnown, KnownToken, OnlyStoredTokensOpenTheApi, RequireApi, ValidApiToken
<1>2. QED
  BY Invariant, <1>1, PTL

(* What is in memory is what a restart would find, unless something has      *)
(* happened that may part them (routes_settings.py:72-75, 89-105).           *)
THEOREM MemoryFollows == Spec => []MemoryFollowsTable
<1>1. IInv => MemoryFollowsTable
  <2> SUFFICES ASSUME IInv, NEW k \in Keys, clean[k],
                      \A c \in Calls : Working(c) => k \notin Writes(task[c])
               PROVE  memory[k] = Loaded(table)[k]
    BY DEF MemoryFollowsTable
  <2>1. \A c \in Calls : ~Doing(c, k)
    BY DEF Doing
  <2>2. QED
    BY <2>1 DEF IInv, Follows
<1>2. QED
  BY Invariant, <1>1, PTL

(* No interval as long as a window sees more than two limits of hits         *)
(* admitted, for any limit and window (ratelimit.py:30).                     *)
THEOREM TwiceAtMost == Spec => []NeverTwiceTheLimit
<1>1. IInv => NeverTwiceTheLimit
  BY DEF IInv, LimiterInv
<1>2. QED
  BY Invariant, <1>1, PTL

(* A hit is refused only when a whole limit was admitted less than a window  *)
(* before it (ratelimit.py:29-34).                                           *)
THEOREM RefusedWhenSpent == Spec => []RefusedOnlyWhenSpent
<1>1. IInv => RefusedOnlyWhenSpent
  BY DEF IInv, LimiterInv
<1>2. QED
  BY Invariant, <1>1, PTL
=============================================================================
