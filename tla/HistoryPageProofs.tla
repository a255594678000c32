-------------------------- MODULE HistoryPageProofs --------------------------
(***************************************************************************)
(* What holds of the history page for any addresses, page sizes, answers   *)
(* and bounds: the pages of a growing table, what settles on the screen,   *)
(* what a visitor sees who goes from page to page, and the revisions.      *)
(***************************************************************************)
EXTENDS HistoryPage, FiniteSetTheorems, TLAPS

-----------------------------------------------------------------------------
(* The inductive invariant *)

TableOK ==
    /\ table \subseteq Row /\ IsFiniteSet(table)
    /\ \A r \in table : r.id <= Cardinality(table)
    /\ \A r, s \in table : r.id = s.id => r = s

ControlsOK ==
    /\ box \in Searches /\ controls \in Query
    /\ asked \in Nat \ {0} /\ newest \in 0..asked /\ error \in BOOLEAN

Size(query) == Cardinality(Matching(query))
Edge(query) == query.offset + query.limit

(* Of what is due, the first k rows of the listing have been shown. *)
Covers(query, due, shown, k) == \A r \in due : Rank(query, r) < k => r \in shown

Fits(p) ==
    /\ p.rows # {} => p.total >= p.query.offset + Cardinality(p.rows)
    /\ \A r \in p.rows : p.counts[r.email] >= Cardinality({s \in p.rows : s.email = r.email})

(* A page on its way was, and is, in the table. *)
Answered(p) ==
    /\ p \in Requests /\ p.n \in 1..asked
    /\ IsFiniteSet(p.rows) /\ Cardinality(p.rows) <= p.query.limit
    /\ p.rows \subseteq Matching(p.query)
    /\ p.rows # {} => p.query.offset + Cardinality(p.rows) <= Size(p.query)
    /\ p.step = "done" => Fits(p) /\ p.total <= Size(p.query)

(* What a visitor is owed whose walk begins with this page. *)
First(p) ==
    p.query.offset = 0 /\ p.step # "rows" =>
        /\ p.due \subseteq Matching(p.query) /\ Covers(p.query, p.due, p.rows, p.query.limit)
        /\ p.rows = {} => p.due = {}
        /\ p.step = "done" /\ p.total <= p.query.limit => p.due \subseteq p.rows

Shown == page # None => page \in Requests /\ page.n \in 1..asked /\ Cardinality(page.rows) <= page.query.limit /\ Fits(page)

(* The page asked for last is on its way or has arrived. *)
Latest ==
    /\ \A p \in pending : p.n = asked => p.query = controls
    /\ page # None => page.n <= newest /\ (page.n = asked => page.query = controls)
    /\ newest > 0 => page # None
    /\ error \/ newest = asked \/ \E p \in pending : p.n = asked

(* Between two pages of a walk, and while one is on its way. *)
Resting ==
    /\ page # None /\ page.query = controls /\ page.total <= Size(controls)
    /\ Covers(controls, walk.due, walk.shown, Edge(controls))
    /\ page.total <= Edge(controls) => walk.due \subseteq walk.shown
    /\ page.rows = {} => walk.due = {}

Waiting(p) ==
    /\ pending = {p} /\ p.query = controls /\ controls.offset # 0
    /\ controls.offset < Size(controls)
    /\ Covers(controls, walk.due, walk.shown, controls.offset)
    /\ p.step # "rows" => p.rows # {} /\ Covers(controls, walk.due, walk.shown \cup p.rows, Edge(controls))
    /\ p.step = "done" /\ p.total <= Edge(controls) => walk.due \subseteq walk.shown \cup p.rows

Walking ==
    walk # None =>
        /\ walk \in [due : SUBSET Row, shown : SUBSET Row] /\ walk.due \subseteq Matching(controls)
        /\ IF pending = {} THEN Resting ELSE \E p \in pending : Waiting(p)

Results == {ToSchema(raw, email_raw, now) : raw \in Answers, email_raw \in Spellings, now \in Times}

Revised ==
    /\ revisions \in Seq(Results) /\ Len(revisions) <= MaxRevisions
    /\ latest = None <=> revisions = <<>>
    /\ HashAgreesWithDiff

IInv ==
    /\ TableOK
    /\ ControlsOK
    /\ \A p \in pending : Answered(p) /\ First(p)
    /\ Shown
    /\ Latest
    /\ Walking
    /\ Revised

-----------------------------------------------------------------------------
(* Numbers *)

(* The greater of two numbers. *)
LEMMA MaxOfTwo == ASSUME NEW a \in Int, NEW b \in Int PROVE Max({a, b}) = IF a >= b THEN a ELSE b
<1>1. \E m \in {a, b} : \A x \in {a, b} : m >= x
  OBVIOUS
<1>2. Max({a, b}) \in {a, b} /\ \A x \in {a, b} : Max({a, b}) >= x
  BY <1>1 DEF Max
<1>3. QED
  BY <1>2

(* The smaller of two numbers. *)
LEMMA MinOfTwo == ASSUME NEW a \in Int, NEW b \in Int PROVE Min({a, b}) = IF a <= b THEN a ELSE b
<1>1. \E m \in {a, b} : \A x \in {a, b} : m <= x
  OBVIOUS
<1>2. Min({a, b}) \in {a, b} /\ \A x \in {a, b} : Min({a, b}) <= x
  BY <1>1 DEF Min
<1>3. QED
  BY <1>2

(* The sizes on offer are within the limits. *)
LEMMA ClampKeeps == ASSUME NEW limit \in PageSizes PROVE ClampLimit(limit) = limit /\ limit \in Nat \ {0}
<1>1. limit \in 1..MaxPage /\ MaxPage \in Nat
  BY HistoryAssumption
<1>2. Min({limit, MaxPage}) = limit
  BY <1>1, MinOfTwo
<1>3. Max({1, limit}) = limit
  BY <1>1, MaxOfTwo
<1>4. QED
  BY <1>1, <1>2, <1>3 DEF ClampLimit

-----------------------------------------------------------------------------
(* The order of a listing *)

(* The columns are numbers. *)
LEMMA Columns ==
    ASSUME TableOK, NEW q \in Query, NEW r \in Matching(q)
    PROVE  /\ r \in table /\ r.id \in Nat /\ r.email \in Emails /\ SortColumn(q, r) \in Nat
           /\ q.order \in {"asc", "desc"}
  BY HistoryAssumption DEF TableOK, Matching, Row, SortColumn, Query

(* No row comes before itself. *)
LEMMA OrderStrict == ASSUME TableOK, NEW q \in Query, NEW r \in Matching(q) PROVE ~Before(q, r, r)
  BY Columns DEF Before

(* The order is transitive. *)
LEMMA OrderTransitive ==
    ASSUME TableOK, NEW q \in Query, NEW r \in Matching(q), NEW s \in Matching(q), NEW t \in Matching(q),
           Before(q, r, s), Before(q, s, t)
    PROVE  Before(q, r, t)
  BY Columns DEF Before

(* It is total, since the id comes last. *)
LEMMA OrderTotal ==
    ASSUME TableOK, NEW q \in Query, NEW r \in Matching(q), NEW s \in Matching(q), r # s
    PROVE  Before(q, r, s) \/ Before(q, s, r)
<1>1. r.id # s.id
  BY Columns DEF TableOK
<1>2. QED
  BY <1>1, Columns DEF Before

(* A row that comes later has more rows before it. *)
LEMMA RankGrows ==
    ASSUME TableOK, NEW q \in Query, NEW r \in Matching(q), NEW s \in Matching(q), Before(q, r, s)
    PROVE  Rank(q, r) < Rank(q, s)
<1> DEFINE above(x) == {y \in Matching(q) : Before(q, y, x)}
<1>1. IsFiniteSet(Matching(q))
  BY FS_Subset DEF TableOK, Matching
<1>2. IsFiniteSet(above(r)) /\ IsFiniteSet(above(s))
  BY <1>1, FS_Subset
<1>3. above(r) \in SUBSET above(s)
  BY OrderTransitive
<1>4. r \in above(s) /\ r \notin above(r)
  BY OrderStrict
<1> HIDE DEF above
<1>5. Cardinality(above(r)) \in Nat /\ Cardinality(above(s)) \in Nat
  BY <1>2, FS_CardinalityType
<1>6. Cardinality(above(r)) < Cardinality(above(s))
  BY <1>2, <1>3, <1>4, <1>5, FS_Subset
<1>7. QED
  BY <1>6 DEF above, Rank

(* Ranks are numbers from 0 on. *)
LEMMA RankBounds ==
    ASSUME TableOK, NEW q \in Query
    PROVE  /\ IsFiniteSet(Matching(q)) /\ Size(q) \in Nat
           /\ \A r \in Matching(q) : Rank(q, r) \in Nat /\ Rank(q, r) < Size(q)
<1>1. IsFiniteSet(Matching(q))
  BY FS_Subset DEF TableOK, Matching
<1>2. Cardinality(Matching(q)) \in Nat
  BY <1>1, FS_CardinalityType
<1>3. ASSUME NEW r \in Matching(q) PROVE Rank(q, r) \in Nat /\ Rank(q, r) < Cardinality(Matching(q))
  <2> DEFINE above == {y \in Matching(q) : Before(q, y, r)}
  <2>1. above \in SUBSET Matching(q) /\ r \notin above
    BY OrderStrict
  <2>2. Rank(q, r) = Cardinality(above)
    BY DEF Rank
  <2> HIDE DEF above
  <2>3. IsFiniteSet(above) /\ Cardinality(above) <= Cardinality(Matching(q))
        /\ (Cardinality(above) = Cardinality(Matching(q)) => above = Matching(q))
    BY <1>1, <2>1, FS_Subset
  <2>4. Cardinality(above) \in Nat
    BY <2>3, FS_CardinalityType
  <2>5. QED
    BY <1>2, <2>1, <2>2, <2>3, <2>4
<1>4. QED
  BY <1>1, <1>2, <1>3 DEF Size

(* Two rows have two ranks. *)
LEMMA RankInjective ==
    ASSUME TableOK, NEW q \in Query, NEW r \in Matching(q), NEW s \in Matching(q), Rank(q, r) = Rank(q, s)
    PROVE  r = s
<1> SUFFICES ASSUME r # s PROVE FALSE
  OBVIOUS
<1>1. Rank(q, r) < Rank(q, s) \/ Rank(q, s) < Rank(q, r)
  BY OrderTotal, RankGrows
<1>2. QED
  BY <1>1, RankBounds

(* Rows whose ranks are in an interval are as many as it at most. *)
LEMMA Interval ==
    ASSUME TableOK, NEW q \in Query, NEW R \in SUBSET Matching(q), NEW a \in Nat, NEW b \in Int,
           \A r \in R : Rank(q, r) \in a..b
    PROVE  IsFiniteSet(R) /\ Cardinality(R) <= Cardinality(a..b) /\ IsFiniteSet(a..b)
<1>1. [r \in R |-> Rank(q, r)] \in Injection(R, a..b)
  BY RankInjective DEF Injection, IsInjective
<1>2. IsFiniteSet(a..b)
  BY FS_Interval
<1>3. QED
  BY <1>1, <1>2, FS_Injection

(* Every rank below the number of rows is taken. *)
LEMMA RankOnto ==
    ASSUME TableOK, NEW q \in Query, NEW k \in Nat, k < Size(q)
    PROVE  \E r \in Matching(q) : Rank(q, r) = k
<1> DEFINE n == Size(q)
           f == [r \in Matching(q) |-> Rank(q, r)]
<1>1. n \in Nat /\ \A r \in Matching(q) : Rank(q, r) \in 0..(n - 1)
  BY RankBounds
<1>2. f \in Injection(Matching(q), 0..(n - 1))
  BY <1>1, RankInjective DEF Injection, IsInjective
<1>3. Cardinality(Matching(q)) = n /\ k < n
  BY DEF Size
<1> HIDE DEF n
<1>4. IsFiniteSet(0..(n - 1)) /\ Cardinality(0..(n - 1)) = n
  <2>1. n - 1 \in Int /\ (0 > n - 1 <=> n = 0) /\ (n - 1) - 0 + 1 = n
    BY <1>1
  <2>2. QED
    BY <2>1, FS_Interval
<1>5. f \in Surjection(Matching(q), 0..(n - 1))
  BY <1>2, <1>3, <1>4, FS_Injection
<1>6. k \in 0..(n - 1)
  BY <1>1, <1>3
<1>7. QED
  BY <1>5, <1>6 DEF Surjection

-----------------------------------------------------------------------------
(* The pages of a listing *)

(* A page is as long as the size or as what is left, and nothing lies        *)
(* between two pages.                                                        *)
LEMMA PageRows ==
    ASSUME TableOK, NEW q \in Query
    PROVE  /\ Page(q) \subseteq Matching(q) /\ IsFiniteSet(Page(q)) /\ Cardinality(Page(q)) \in Nat
           /\ Cardinality(Page(q)) <= q.limit
           /\ Page(q) # {} => q.offset + Cardinality(Page(q)) <= Size(q)
           /\ q.offset < Size(q) => Page(q) # {}
           /\ \A r \in Matching(q) : q.offset <= Rank(q, r) /\ Rank(q, r) < Edge(q) => r \in Page(q)
<1> DEFINE o == q.offset
           l == q.limit
<1>1. o \in Nat /\ l \in Nat \ {0} /\ ClampLimit(l) = l
  BY ClampKeeps DEF Query
<1>2. Page(q) = {r \in Matching(q) : Rank(q, r) \in o..(o + l - 1)} /\ Edge(q) = o + l
  BY <1>1 DEF Page, Edge
<1>3. /\ Size(q) \in Nat
      /\ \A r \in Matching(q) : Rank(q, r) \in Nat /\ Rank(q, r) < Size(q)
  BY RankBounds
<1> HIDE DEF o, l
<1>4. \A r \in Matching(q) : o <= Rank(q, r) /\ Rank(q, r) < o + l => r \in Page(q)
  BY <1>1, <1>2, <1>3
<1>5. /\ IsFiniteSet(Page(q)) /\ Cardinality(Page(q)) <= Cardinality(o..(o + l - 1))
  BY <1>1, <1>2, Interval
<1>6. Cardinality(Page(q)) \in Nat
  BY <1>5, FS_CardinalityType
<1>7. Cardinality(Page(q)) <= l
  <2>1. Cardinality(o..(o + l - 1)) = l
    <3>1. o + l - 1 \in Int /\ ~(o > o + l - 1) /\ (o + l - 1) - o + 1 = l
      BY <1>1
    <3>2. QED
      BY <1>1, <3>1, FS_Interval
  <2>2. QED
    BY <1>5, <2>1
<1>8. ASSUME Page(q) # {} PROVE o + Cardinality(Page(q)) <= Size(q)
  <2> DEFINE n == Size(q)
  <2>1. n \in Nat /\ \A r \in Page(q) : Rank(q, r) \in o..(n - 1)
    BY <1>1, <1>2, <1>3
  <2> HIDE DEF n
  <2>2. Cardinality(Page(q)) <= Cardinality(o..(n - 1))
    BY <1>1, <1>2, <2>1, Interval
  <2>3. o <= n - 1
    BY <1>1, <1>8, <2>1
  <2>4. Cardinality(o..(n - 1)) = n - o
    <3>1. n - 1 \in Int /\ ~(o > n - 1) /\ (n - 1) - o + 1 = n - o
      BY <1>1, <2>1, <2>3
    <3>2. QED
      BY <1>1, <3>1, FS_Interval
  <2>5. o + Cardinality(Page(q)) <= n
    BY <1>1, <1>6, <2>1, <2>2, <2>4
  <2>6. QED
    BY <2>5 DEF n
<1>9. ASSUME o < Size(q) PROVE Page(q) # {}
  BY <1>1, <1>4, <1>9, RankOnto
<1>10. QED
  BY <1>2, <1>4, <1>5, <1>6, <1>7, <1>8, <1>9 DEF o, l

(* When the table grows, rows move down. *)
LEMMA Growth ==
    ASSUME TableOK, TableOK', table \subseteq table', NEW CONSTANT q \in Query
    PROVE  /\ Matching(q) \subseteq Matching(q)' /\ Size(q) <= Size(q)'
           /\ \A r \in Matching(q) : Rank(q, r) <= Rank(q, r)'
<1> DEFINE all(S) == {r \in S : q.search \in {Everything, r.email}}
           above(S, r) == {s \in all(S) : Before(q, s, r)}
<1>1. IsFiniteSet(all(table')) /\ all(table) \in SUBSET all(table')
  BY FS_Subset DEF TableOK
<1>2. ASSUME NEW r \in all(table)
      PROVE  IsFiniteSet(above(table', r)) /\ above(table, r) \in SUBSET above(table', r)
  BY <1>1, FS_Subset
<1>3. /\ Matching(q) = all(table) /\ Matching(q)' = all(table')
      /\ Size(q) = Cardinality(all(table)) /\ Size(q)' = Cardinality(all(table'))
      /\ \A r : Rank(q, r) = Cardinality(above(table, r)) /\ Rank(q, r)' = Cardinality(above(table', r))
  BY DEF Matching, Size, Rank, Before, SortColumn
<1> HIDE DEF all, above
<1>4. Cardinality(all(table)) <= Cardinality(all(table'))
  BY <1>1, FS_Subset
<1>5. ASSUME NEW r \in all(table) PROVE Cardinality(above(table, r)) <= Cardinality(above(table', r))
  BY <1>2, FS_Subset
<1>6. QED
  BY <1>1, <1>3, <1>4, <1>5

(* Ranks are numbers after a step, too. *)
LEMMA RanksNext ==
    ASSUME TableOK', NEW CONSTANT q \in Query
    PROVE  Size(q)' \in Nat /\ \A r \in Matching(q)' : Rank(q, r)' \in Nat
<1> DEFINE all(S) == {r \in S : q.search \in {Everything, r.email}}
           above(S, r) == {s \in all(S) : Before(q, s, r)}
<1>1. IsFiniteSet(all(table')) /\ \A r : above(table', r) \in SUBSET all(table')
  BY FS_Subset DEF TableOK
<1>2. /\ Size(q)' = Cardinality(all(table'))
      /\ \A r : Rank(q, r)' = Cardinality(above(table', r))
  BY DEF Matching, Size, Rank, Before, SortColumn
<1> HIDE DEF all, above
<1>3. Cardinality(all(table')) \in Nat
  BY <1>1, FS_CardinalityType
<1>4. \A r : IsFiniteSet(above(table', r))
  BY <1>1, FS_Subset
<1>5. \A r : Cardinality(above(table', r)) \in Nat
  BY <1>4, FS_CardinalityType
<1>6. QED
  BY <1>2, <1>3, <1>5

(* A check adds a row, with an id of its own. *)
LEMMA RecordTable == ASSUME TableOK, Record PROVE TableOK' /\ table \subseteq table'
<1>1. PICK e \in Emails : table' = table \cup {[id |-> Cardinality(table) + 1, email |-> e]}
  BY DEF Record
<1> DEFINE n == Cardinality(table)
           x == [id |-> n + 1, email |-> e]
<1>2. n \in Nat
  BY FS_CardinalityType DEF TableOK
<1>3. \A r \in table : r.id \in Nat /\ r.id <= n
  BY DEF TableOK, Row
<1>4. x \notin table /\ x \in Row /\ x.id = n + 1
  BY <1>2, <1>3 DEF Row
<1> HIDE DEF n
<1>5. IsFiniteSet(table') /\ Cardinality(table') = n + 1
  BY <1>1, <1>4, FS_AddElement DEF TableOK, n
<1>6. \A r \in table' : r.id <= n + 1
  BY <1>1, <1>2, <1>3 DEF n
<1>7. \A r, s \in table' : r.id = s.id => r = s
  <2>1. \A r \in table' : r \in table \/ r = x
    BY <1>1 DEF n
  <2>2. \A r \in table : r.id # n + 1
    BY <1>2, <1>3
  <2>3. QED
    BY <1>4, <2>1, <2>2 DEF TableOK
<1>8. table' \subseteq Row
  BY <1>1, <1>4 DEF TableOK, n
<1>9. QED
  BY <1>1, <1>5, <1>6, <1>7, <1>8 DEF TableOK

-----------------------------------------------------------------------------
(* What a step leaves as it was *)

(* What has been shown of a listing stays so when the table grows. *)
LEMMA CoversKept ==
    ASSUME TableOK, TableOK', table \subseteq table', NEW CONSTANT q \in Query,
           NEW CONSTANT due, NEW CONSTANT shown, NEW CONSTANT k \in Nat,
           due \subseteq Matching(q), Covers(q, due, shown, k)
    PROVE  due \subseteq Matching(q)' /\ \A r \in due : Rank(q, r)' < k => r \in shown
<1>1. /\ Matching(q) \subseteq Matching(q)'
      /\ \A r \in Matching(q) : Rank(q, r) <= Rank(q, r)'
  BY Growth
<1>2. \A r \in Matching(q) : Rank(q, r) \in Nat
  BY RankBounds
<1>3. \A r \in Matching(q)' : Rank(q, r)' \in Nat
  BY RanksNext
<1>4. ASSUME NEW r \in due, Rank(q, r)' < k PROVE r \in shown
  <2>1. Rank(q, r) < k
    BY <1>1, <1>2, <1>3, <1>4
  <2>2. QED
    BY <2>1 DEF Covers
<1>5. QED
  BY <1>1, <1>4

(* So does a page that is on its way. *)
LEMMA PendingKept ==
    ASSUME TableOK, TableOK', table \subseteq table', asked \in Nat, asked' \in Nat, asked <= asked',
           NEW CONSTANT p, Answered(p), First(p)
    PROVE  Answered(p)' /\ First(p)'
<1>1. p \in Requests /\ p.query \in Query /\ p.query.limit \in Nat /\ p.query.offset \in Nat /\ p.total \in Nat
      /\ p.n \in Nat
  <2>1. p \in Requests /\ p.query \in Query
    BY DEF Answered, Requests
  <2>2. QED
    BY <2>1, ClampKeeps DEF Query, Requests
<1>2. Matching(p.query) \subseteq Matching(p.query)' /\ Size(p.query) <= Size(p.query)'
  BY <1>1, Growth
<1>3. Size(p.query) \in Nat
  BY <1>1, RankBounds
<1>4. Size(p.query)' \in Nat
  BY <1>1, RanksNext
<1>5. Cardinality(p.rows) \in Nat
  BY FS_CardinalityType DEF Answered
<1>6. Answered(p)'
  <2>1. p.rows # {} => p.query.offset + Cardinality(p.rows) <= Size(p.query)'
    BY <1>1, <1>2, <1>3, <1>4, <1>5 DEF Answered
  <2>2. p.step = "done" => Fits(p) /\ p.total <= Size(p.query)'
    BY <1>1, <1>2, <1>3, <1>4 DEF Answered
  <2>3. p.n \in 1..asked' /\ p.rows \subseteq Matching(p.query)'
    BY <1>1, <1>2 DEF Answered
  <2>4. QED
    BY <2>1, <2>2, <2>3 DEF Answered, Fits
<1>7. First(p)'
  <2> SUFFICES ASSUME p.query.offset = 0, p.step # "rows"
               PROVE  /\ p.due \subseteq Matching(p.query)'
                      /\ \A r \in p.due : Rank(p.query, r)' < p.query.limit => r \in p.rows
                      /\ p.rows = {} => p.due = {}
                      /\ p.step = "done" /\ p.total <= p.query.limit => p.due \subseteq p.rows
    BY DEF First, Covers
  <2>1. p.due \subseteq Matching(p.query) /\ Covers(p.query, p.due, p.rows, p.query.limit)
    BY DEF First
  <2>2. p.due \subseteq Matching(p.query)' /\ \A r \in p.due : Rank(p.query, r)' < p.query.limit => r \in p.rows
    BY <1>1, <2>1, CoversKept
  <2>3. QED
    BY <2>2 DEF First
<1>8. QED
  BY <1>6, <1>7

(* The page on the screen needs no table. *)
LEMMA ShownKept ==
    ASSUME Shown, page' = page, asked \in Nat, asked' \in Nat, asked <= asked'
    PROVE  Shown'
  BY DEF Shown, Fits, Requests

(* The revisions are the business of checks alone. *)
LEMMA RevisedKept == ASSUME Revised, UNCHANGED revisionVars PROVE Revised'
  BY DEF Revised, revisionVars, HashAgreesWithDiff, Results

-----------------------------------------------------------------------------
(* The steps of the server *)

(* A walk goes on while rows are added. *)
LEMMA WalkGrows ==
    ASSUME IInv, TableOK', table \subseteq table', UNCHANGED <<controls, pending, page, walk>>
    PROVE  Walking'
<1> SUFFICES ASSUME walk # None PROVE Walking'
  BY DEF Walking
<1>1. PICK q \in Query : q = controls
  BY DEF IInv, ControlsOK
<1>2. PICK w \in [due : SUBSET Row, shown : SUBSET Row] : w = walk
  BY DEF IInv, Walking
<1>3. TableOK /\ w.due \subseteq Matching(q)
  BY <1>1, <1>2 DEF IInv, Walking
<1>4. q.offset \in Nat /\ q.limit \in Nat /\ Edge(q) \in Nat
  BY ClampKeeps DEF Query, Edge
<1>5. /\ Size(q) \in Nat /\ Size(q)' \in Nat /\ Size(q) <= Size(q)'
      /\ w.due \subseteq Matching(q)'
  <2>1. Size(q) \in Nat
    BY <1>3, RankBounds
  <2>2. Size(q)' \in Nat
    BY RanksNext
  <2>3. QED
    BY <1>3, <2>1, <2>2, Growth
<1>6. ASSUME NEW CONSTANT k \in Nat, NEW CONSTANT shown, Covers(q, w.due, shown, k)
      PROVE  \A r \in w.due : Rank(q, r)' < k => r \in shown
  BY <1>3, <1>6, CoversKept
<1>7. CASE pending = {}
  <2>1. /\ page # None /\ page.query = q /\ page.total <= Size(q)
        /\ Covers(q, w.due, w.shown, Edge(q))
        /\ page.total <= Edge(q) => w.due \subseteq w.shown
        /\ page.rows = {} => w.due = {}
    BY <1>1, <1>2, <1>7 DEF IInv, Walking, Resting
  <2>2. \A r \in w.due : Rank(q, r)' < Edge(q) => r \in w.shown
    BY <1>4, <1>6, <2>1
  <2>3. page.total <= Size(q)'
    <3>1. page.total \in Nat
      BY <2>1 DEF IInv, Shown, Requests
    <3>2. QED
      BY <1>5, <2>1, <3>1
  <2>4. Resting'
    BY <1>1, <1>2, <2>1, <2>2, <2>3 DEF Resting, Covers, Edge
  <2>5. QED
    BY <1>1, <1>2, <1>5, <1>7, <2>4 DEF Walking
<1>8. CASE pending # {}
  <2>1. PICK p \in pending : Waiting(p)
    BY <1>8 DEF IInv, Walking
  <2>2. /\ pending = {p} /\ p.query = q /\ q.offset # 0
        /\ q.offset < Size(q)
        /\ Covers(q, w.due, w.shown, q.offset)
        /\ p.step # "rows" => p.rows # {} /\ Covers(q, w.due, w.shown \cup p.rows, Edge(q))
        /\ p.step = "done" /\ p.total <= Edge(q) => w.due \subseteq w.shown \cup p.rows
    BY <1>1, <1>2, <2>1 DEF Waiting
  <2>3. \A r \in w.due : Rank(q, r)' < q.offset => r \in w.shown
    BY <1>4, <1>6, <2>2
  <2>4. p.step # "rows" => \A r \in w.due : Rank(q, r)' < Edge(q) => r \in w.shown \cup p.rows
    BY <1>4, <1>6, <2>2
  <2>5. q.offset < Size(q)'
    BY <1>4, <1>5, <2>2
  <2>6. Waiting(p)'
    BY <1>1, <1>2, <2>2, <2>3, <2>4, <2>5 DEF Waiting, Covers, Edge
  <2>7. QED
    BY <1>1, <1>2, <1>5, <2>1, <2>6 DEF Walking
<1>9. QED
  BY <1>7, <1>8

(* A check stores a row. *)
LEMMA RecordStep == ASSUME IInv, Record PROVE IInv'
<1>1. TableOK' /\ table \subseteq table'
  BY RecordTable DEF IInv
<1>2. UNCHANGED <<box, controls, asked, pending, page, error, newest, walk, revisionVars>>
  BY DEF Record
<1>3. asked \in Nat /\ ControlsOK' /\ Latest'
  BY <1>2 DEF IInv, ControlsOK, Latest
<1>4. Shown' /\ Revised'
  BY <1>2, <1>3, ShownKept, RevisedKept DEF IInv
<1>5. ASSUME NEW p \in pending PROVE Answered(p)' /\ First(p)'
  BY <1>1, <1>2, <1>3, PendingKept DEF IInv
<1>6. Walking'
  BY <1>1, <1>2, WalkGrows
<1>7. QED
  BY <1>1, <1>2, <1>3, <1>4, <1>5, <1>6 DEF IInv

(* An answer comes nearer; everything else stays. *)
LEMMA AnswerStep ==
    ASSUME IInv, NEW p \in pending, NEW CONSTANT q, Answer(p, q), q.n = p.n, q.query = p.query,
           Answered(q), First(q),
           walk # None /\ Waiting(p) =>
               /\ q.step # "rows" =>
                      q.rows # {} /\ Covers(p.query, walk.due, walk.shown \cup q.rows, Edge(p.query))
               /\ q.step = "done" /\ q.total <= Edge(p.query) => walk.due \subseteq walk.shown \cup q.rows
    PROVE  IInv'
<1>1. /\ pending' = (pending \ {p}) \cup {q}
      /\ UNCHANGED <<table, box, controls, asked, page, error, newest, walk, revisionVars>>
  BY DEF Answer
<1>2. TableOK' /\ ControlsOK' /\ asked \in Nat
  BY <1>1 DEF IInv, TableOK, ControlsOK
<1>3. Shown' /\ Revised'
  BY <1>1, <1>2, ShownKept, RevisedKept DEF IInv
<1>4. ASSUME NEW r \in pending' PROVE Answered(r)' /\ First(r)'
  <2>1. Answered(r) /\ First(r)
    BY <1>1 DEF IInv
  <2>2. QED
    BY <1>1, <1>2, <2>1, PendingKept DEF IInv
<1>5. Latest'
  BY <1>1 DEF IInv, Latest
<1>6. Walking'
  <2> SUFFICES ASSUME walk # None PROVE Walking'
    BY <1>1 DEF Walking
  <2>1. Waiting(p) /\ pending = {p}
    <3>1. PICK r \in pending : Waiting(r)
      BY DEF IInv, Walking
    <3>2. QED
      BY <3>1 DEF Waiting
  <2>2. pending' = {q}
    BY <1>1, <2>1
  <2>3. /\ p.query = controls /\ controls.offset # 0 /\ controls.offset < Size(controls)
        /\ Covers(controls, walk.due, walk.shown, controls.offset)
    BY <2>1 DEF Waiting
  <2>4. Waiting(q)'
    BY <1>1, <2>1, <2>2, <2>3 DEF Waiting, Covers, Edge, Size, Matching, Rank, Before, SortColumn
  <2>5. QED
    BY <1>1, <2>2, <2>4 DEF IInv, Walking, Matching
<1>7. QED
  BY <1>2, <1>3, <1>4, <1>5, <1>6 DEF IInv

(* The first SELECT: the rows of the page, and what a walk that begins with  *)
(* it is about.                                                              *)
LEMMA ReadRowsStep == ASSUME IInv, NEW p \in pending, ReadRows(p) PROVE IInv'
<1> DEFINE due == IF p.query.offset = 0 THEN Matching(p.query) ELSE {}
<1>1. PICK q : q = [p EXCEPT !.step = "count", !.rows = Page(p.query), !.due = due]
  OBVIOUS
<1>2. p.step = "rows" /\ Answer(p, q)
  BY <1>1 DEF ReadRows
<1>3. TableOK /\ p \in Requests /\ p.query \in Query /\ p.n \in 1..asked
  BY DEF IInv, Answered, Requests
<1>4. q.n = p.n /\ q.query = p.query /\ q.step = "count" /\ q.rows = Page(p.query) /\ q.due = due
  BY <1>1, <1>3 DEF Requests
<1>5. /\ Page(p.query) \subseteq Matching(p.query) /\ IsFiniteSet(Page(p.query))
      /\ Cardinality(Page(p.query)) <= p.query.limit
      /\ Page(p.query) # {} => p.query.offset + Cardinality(Page(p.query)) <= Size(p.query)
      /\ p.query.offset < Size(p.query) => Page(p.query) # {}
      /\ \A r \in Matching(p.query) :
             p.query.offset <= Rank(p.query, r) /\ Rank(p.query, r) < Edge(p.query) => r \in Page(p.query)
  BY <1>3, PageRows
<1>6. /\ \A r \in Matching(p.query) : Rank(p.query, r) \in Nat /\ Rank(p.query, r) < Size(p.query)
      /\ p.query.offset \in Nat /\ p.query.limit \in Nat \ {0} /\ Size(p.query) \in Nat
  BY <1>3, RankBounds, ClampKeeps DEF Query
<1>7. Matching(p.query) \subseteq Row
  BY <1>3 DEF TableOK, Matching
<1>8. q \in Requests
  <2>1. Page(p.query) \in SUBSET Row /\ due \in SUBSET Row
    BY <1>5, <1>7
  <2> HIDE DEF due
  <2>2. QED
    BY <1>1, <1>3, <2>1 DEF Requests
<1>9. Answered(q)
  BY <1>3, <1>4, <1>5, <1>8 DEF Answered
<1>10. First(q)
  <2> SUFFICES ASSUME p.query.offset = 0
               PROVE  /\ \A r \in Matching(p.query) : Rank(p.query, r) < p.query.limit => r \in Page(p.query)
                      /\ Page(p.query) = {} => Matching(p.query) = {}
    BY <1>4 DEF First, Covers
  <2>1. Edge(p.query) = p.query.limit
    BY <1>6 DEF Edge
  <2>2. Page(p.query) = {} => Matching(p.query) = {}
    <3>1. \A r \in Matching(p.query) : 0 < Size(p.query)
      BY <1>6
    <3>2. QED
      BY <1>5, <3>1
  <2>3. QED
    BY <1>5, <1>6, <2>1, <2>2
<1>11. ASSUME walk # None, Waiting(p)
       PROVE  Page(p.query) # {} /\ Covers(p.query, walk.due, walk.shown \cup Page(p.query), Edge(p.query))
  <2>1. /\ p.query = controls /\ p.query.offset < Size(p.query)
        /\ Covers(p.query, walk.due, walk.shown, p.query.offset)
    BY <1>11 DEF Waiting
  <2>2. walk.due \subseteq Matching(p.query)
    BY <1>11, <2>1 DEF IInv, Walking
  <2>3. QED
    BY <1>5, <1>6, <2>1, <2>2 DEF Covers
<1>12. QED
  BY <1>2, <1>4, <1>9, <1>10, <1>11, AnswerStep

(* The other two: the total, and the revisions of each address.              *)
LEMMA CountStep == ASSUME IInv, NEW p \in pending, Count(p) PROVE IInv'
<1>1. PICK q : q = [p EXCEPT !.step = "done", !.total = Cardinality(Matching(p.query)), !.counts = Counts(p.rows)]
  OBVIOUS
<1>2. p.step = "count" /\ Answer(p, q)
  BY <1>1 DEF Count
<1>3. TableOK /\ p \in Requests /\ p.query \in Query /\ Answered(p) /\ First(p)
  BY DEF IInv, Answered, Requests
<1>4. /\ q.n = p.n /\ q.query = p.query /\ q.step = "done" /\ q.rows = p.rows /\ q.due = p.due
      /\ q.total = Size(p.query) /\ q.counts = Counts(p.rows)
  BY <1>1, <1>3 DEF Requests, Size
<1>5. /\ Size(p.query) \in Nat /\ p.query.offset \in Nat /\ p.query.limit \in Nat
      /\ \A r \in Matching(p.query) : Rank(p.query, r) \in Nat /\ Rank(p.query, r) < Size(p.query)
  BY <1>3, RankBounds, ClampKeeps DEF Query
<1>6. ASSUME NEW e \in Emails
      PROVE  /\ Counts(p.rows)[e] \in Nat
             /\ \A r \in p.rows : r.email = e => Counts(p.rows)[e] >= Cardinality({s \in p.rows : s.email = e})
  <2> DEFINE counted == {r \in table : r.email = e /\ \E s \in p.rows : s.email = e}
             here == {s \in p.rows : s.email = e}
  <2>1. IsFiniteSet(counted)
    BY <1>3, FS_Subset DEF TableOK
  <2>2. here \in SUBSET counted
    BY <1>3 DEF Answered, Matching
  <2>3. Counts(p.rows)[e] = Cardinality(counted)
    BY DEF Counts
  <2> HIDE DEF counted, here
  <2>4. Cardinality(counted) \in Nat /\ Cardinality(here) \in Nat /\ Cardinality(here) <= Cardinality(counted)
    BY <2>1, <2>2, FS_Subset, FS_CardinalityType
  <2>5. QED
    BY <2>3, <2>4 DEF here
<1>7. q \in Requests
  <2>1. Counts(p.rows) \in [Emails -> Nat]
    BY <1>6 DEF Counts
  <2>2. Cardinality(Matching(p.query)) \in Nat
    BY <1>5 DEF Size
  <2>3. QED
    BY <1>1, <1>3, <2>1, <2>2 DEF Requests
<1>8. Fits(q)
  <2>1. q.rows # {} => q.total >= q.query.offset + Cardinality(q.rows)
    <3>1. Cardinality(p.rows) \in Nat
      BY <1>3, FS_CardinalityType DEF Answered
    <3>2. QED
      BY <1>3, <1>4, <1>5, <3>1 DEF Answered
  <2>2. \A r \in p.rows : r.email \in Emails
    BY <1>3 DEF Requests, Row
  <2>3. QED
    BY <1>4, <1>6, <2>1, <2>2 DEF Fits
<1>9. Answered(q)
  BY <1>3, <1>4, <1>5, <1>7, <1>8 DEF Answered
<1>10. ASSUME NEW D, NEW S, D \subseteq Matching(p.query), NEW k \in Nat, Covers(p.query, D, S, k),
              Size(p.query) <= k
       PROVE  D \subseteq S
  BY <1>5, <1>10 DEF Covers
<1>11. First(q)
  <2> SUFFICES ASSUME p.query.offset = 0
               PROVE  /\ p.due \subseteq Matching(p.query) /\ Covers(p.query, p.due, p.rows, p.query.limit)
                      /\ p.rows = {} => p.due = {}
                      /\ Size(p.query) <= p.query.limit => p.due \subseteq p.rows
    BY <1>4 DEF First
  <2>1. /\ p.due \subseteq Matching(p.query) /\ Covers(p.query, p.due, p.rows, p.query.limit)
        /\ p.rows = {} => p.due = {}
    BY <1>2, <1>3 DEF First
  <2>2. QED
    BY <1>5, <1>10, <2>1
<1>12. ASSUME walk # None, Waiting(p)
       PROVE  /\ p.rows # {} /\ Covers(p.query, walk.due, walk.shown \cup p.rows, Edge(p.query))
              /\ Size(p.query) <= Edge(p.query) => walk.due \subseteq walk.shown \cup p.rows
  <2>1. p.rows # {} /\ Covers(p.query, walk.due, walk.shown \cup p.rows, Edge(p.query))
    BY <1>2, <1>12 DEF Waiting
  <2>2. walk.due \subseteq Matching(p.query)
    BY <1>12 DEF IInv, Walking, Waiting
  <2>3. Edge(p.query) \in Nat
    BY <1>5 DEF Edge
  <2>4. QED
    BY <1>10, <2>1, <2>2, <2>3
<1>13. QED
  BY <1>2, <1>4, <1>9, <1>11, <1>12, AnswerStep

-----------------------------------------------------------------------------
(* The steps of the page *)

(* A page arrives, and stands for whatever was there. *)
LEMMA ArriveStep == ASSUME IInv, NEW p \in pending, Arrive(p) PROVE IInv'
<1>1. /\ p.step = "done"
      /\ pending' = pending \ {p}
      /\ page' = [p EXCEPT !.due = {}]
      /\ newest' = Max({newest, p.n})
      /\ walk' = IF p.query # controls \/ pending' # {} THEN None
                 ELSE IF p.query.offset = 0 THEN [due |-> p.due, shown |-> p.rows]
                 ELSE IF walk = None THEN None ELSE [walk EXCEPT !.shown = @ \cup p.rows]
      /\ UNCHANGED <<table, box, controls, asked, error, revisionVars>>
  BY DEF Arrive
<1>2. Answered(p) /\ First(p) /\ p \in Requests /\ p.n \in 1..asked /\ TableOK
  BY DEF IInv, Answered
<1>3. /\ page' \in Requests /\ page' # None
      /\ page'.n = p.n /\ page'.query = p.query /\ page'.rows = p.rows /\ page'.total = p.total
      /\ page'.counts = p.counts
  <2>1. page' \in Requests /\ page'.n = p.n /\ page'.query = p.query /\ page'.rows = p.rows
        /\ page'.total = p.total /\ page'.counts = p.counts
    BY <1>1, <1>2 DEF Requests
  <2>2. QED
    BY <2>1, HistoryAssumption
<1>4. newest \in 0..asked /\ asked \in Nat \ {0} /\ newest' \in 0..asked /\ newest' >= newest /\ newest' >= p.n
      /\ newest' > 0
  <2>1. newest \in 0..asked /\ asked \in Nat \ {0} /\ p.n \in Int
    BY <1>2 DEF IInv, ControlsOK
  <2>2. newest' = IF newest >= p.n THEN newest ELSE p.n
    BY <1>1, <2>1, MaxOfTwo
  <2>3. QED
    BY <1>2, <2>1, <2>2
<1>5. TableOK' /\ ControlsOK' /\ Revised'
  BY <1>1, <1>4, RevisedKept DEF IInv, TableOK, ControlsOK
<1>6. ASSUME NEW r \in pending' PROVE Answered(r)' /\ First(r)'
  BY <1>1, <1>4, <1>5, PendingKept DEF IInv
<1>7. Shown'
  <2>1. Cardinality(p.rows) <= p.query.limit /\ Fits(p)
    BY <1>1, <1>2 DEF Answered
  <2>2. QED
    BY <1>1, <1>2, <1>3, <2>1 DEF Shown, Fits
<1>8. Latest'
  <2>1. p.n = asked => p.query = controls /\ newest' = asked
    BY <1>4 DEF IInv, Latest
  <2>2. newest = asked => newest' = asked
    BY <1>4
  <2>3. error' \/ newest' = asked' \/ \E r \in pending' : r.n = asked'
    <3>1. CASE error \/ newest = asked \/ p.n = asked
      BY <1>1, <2>1, <2>2, <3>1
    <3>2. CASE ~(error \/ newest = asked \/ p.n = asked)
      <4>1. PICK r \in pending : r.n = asked
        BY <3>2 DEF IInv, Latest
      <4>2. r \in pending'
        BY <1>1, <3>2, <4>1
      <4>3. QED
        BY <1>1, <4>1, <4>2
    <3>3. QED
      BY <3>1, <3>2
  <2>4. \A r \in pending' : r.n = asked' => r.query = controls'
    BY <1>1 DEF IInv, Latest
  <2>5. page'.n <= newest' /\ (page'.n = asked' => page'.query = controls')
    BY <1>1, <1>3, <1>4, <2>1
  <2>6. QED
    BY <1>3, <2>3, <2>4, <2>5 DEF Latest
<1>9. Walking'
  <2> SUFFICES ASSUME p.query = controls, pending' = {}, walk' # None PROVE Walking'
    BY <1>1 DEF Walking
  <2>1. p.query \in Query /\ p.query.offset \in Nat /\ p.query.limit \in Nat /\ p.total <= Size(p.query)
    <3>1. p.query \in Query
      BY <1>2 DEF Requests
    <3>2. QED
      BY <1>1, <1>2, <3>1, ClampKeeps DEF Query, Answered
  <2>2. ASSUME NEW D, NEW S, walk' = [due |-> D, shown |-> S], D \in SUBSET Row, S \in SUBSET Row,
               D \subseteq Matching(p.query), Covers(p.query, D, S, Edge(p.query)),
               p.total <= Edge(p.query) => D \subseteq S, p.rows = {} => D = {}
        PROVE  Walking'
    <3>1. walk'.due = D /\ walk'.shown = S /\ walk' \in [due : SUBSET Row, shown : SUBSET Row]
      BY <2>2
    <3>2. page'.query = controls' /\ page'.total <= Size(controls)'
      BY <1>1, <1>3, <2>1 DEF Size, Matching
    <3>3. D \subseteq Matching(controls)' /\ Covers(controls, walk.due, walk.shown, Edge(controls))'
      BY <1>1, <2>2, <3>1 DEF Covers, Matching, Rank, Before, SortColumn, Edge
    <3>4. (page.total <= Edge(controls) => walk.due \subseteq walk.shown)' /\ (page.rows = {} => walk.due = {})'
      BY <1>1, <1>3, <2>2, <3>1 DEF Edge
    <3>5. Resting'
      BY <1>3, <3>2, <3>3, <3>4 DEF Resting
    <3>6. QED
      BY <3>1, <3>3, <3>5 DEF Walking
  <2>3. CASE p.query.offset = 0
    <3>1. walk' = [due |-> p.due, shown |-> p.rows]
      BY <1>1, <2>3
    <3>2. Edge(p.query) = p.query.limit
      BY <2>1, <2>3 DEF Edge
    <3>3. p.due \in SUBSET Row /\ p.rows \in SUBSET Row
      BY <1>2 DEF Requests
    <3>4. /\ p.due \subseteq Matching(p.query) /\ Covers(p.query, p.due, p.rows, p.query.limit)
          /\ p.rows = {} => p.due = {}
          /\ p.total <= p.query.limit => p.due \subseteq p.rows
      BY <1>1, <1>2, <2>3 DEF First
    <3>5. QED
      BY <2>2, <3>1, <3>2, <3>3, <3>4
  <2>4. CASE p.query.offset # 0
    <3>1. walk # None /\ walk' = [walk EXCEPT !.shown = @ \cup p.rows]
      BY <1>1, <2>4
    <3>2. PICK r \in pending : Waiting(r)
      BY <3>1 DEF IInv, Walking
    <3>3. r = p
      BY <3>2 DEF Waiting
    <3>4. walk \in [due : SUBSET Row, shown : SUBSET Row] /\ walk.due \subseteq Matching(p.query)
      BY <3>1 DEF IInv, Walking
    <3>5. walk' = [due |-> walk.due, shown |-> walk.shown \cup p.rows]
      BY <3>1, <3>4
    <3>6. /\ p.rows # {} /\ Covers(p.query, walk.due, walk.shown \cup p.rows, Edge(p.query))
          /\ p.total <= Edge(p.query) => walk.due \subseteq walk.shown \cup p.rows
      BY <1>1, <3>2, <3>3 DEF Waiting
    <3>7. walk.due \in SUBSET Row /\ walk.shown \cup p.rows \in SUBSET Row
      BY <1>2, <3>4 DEF Requests
    <3>8. QED
      BY <2>2, <3>4, <3>5, <3>6, <3>7
  <2>5. QED
    BY <2>3, <2>4
<1>10. QED
  BY <1>5, <1>6, <1>7, <1>8, <1>9 DEF IInv

(* A request fails, and with it the walk. *)
LEMMA FailStep == ASSUME IInv, NEW p \in pending, Fail(p) PROVE IInv'
<1>1. /\ pending' = pending \ {p} /\ error' = TRUE /\ walk' = None
      /\ UNCHANGED <<table, box, controls, asked, page, newest, revisionVars>>
  BY DEF Fail
<1>2. TableOK' /\ ControlsOK' /\ asked \in Nat
  BY <1>1 DEF IInv, TableOK, ControlsOK
<1>3. Shown' /\ Revised' /\ Latest' /\ Walking'
  BY <1>1, <1>2, ShownKept, RevisedKept DEF IInv, Latest, Walking
<1>4. ASSUME NEW r \in pending' PROVE Answered(r)' /\ First(r)'
  BY <1>1, <1>2, PendingKept DEF IInv
<1>5. QED
  BY <1>2, <1>3, <1>4 DEF IInv

(* A control is set to what it was, or a page is asked for; what becomes of  *)
(* the walk depends on the control.                                          *)
LEMMA ControlEffects ==
    ASSUME IInv, NEW CONSTANT c \in Query, Control(c), box' \in Searches
    PROVE  /\ TableOK' /\ ControlsOK' /\ Shown' /\ Latest' /\ Revised'
           /\ \A p \in pending' : Answered(p)' /\ First(p)'
           /\ c # controls => \E p : pending' = pending \cup {p} /\ p.query = c /\ p.step = "rows"
<1>1. controls' = c /\ UNCHANGED <<table, page, newest, revisionVars>>
  BY DEF Control
<1>2. asked \in Nat \ {0} /\ newest \in 0..asked
  BY DEF IInv, ControlsOK
<1>3. TableOK'
  BY <1>1 DEF IInv, TableOK
<1>4. Revised'
  BY <1>1, RevisedKept DEF IInv
<1>5. CASE c = controls
  <2>1. UNCHANGED <<asked, pending, error>>
    BY <1>5 DEF Control
  <2>2. ControlsOK' /\ Latest' /\ Shown'
    BY <1>1, <1>2, <1>5, <2>1, ShownKept DEF IInv, ControlsOK, Latest
  <2>3. \A p \in pending' : Answered(p)' /\ First(p)'
    BY <1>1, <1>2, <1>3, <2>1, PendingKept DEF IInv
  <2>4. QED
    BY <1>3, <1>4, <1>5, <2>2, <2>3
<1>6. CASE c # controls
  <2>1. asked' = asked + 1 /\ pending' = pending \cup {Request(asked', c)} /\ error' = FALSE
    BY <1>6 DEF Control
  <2>2. PICK q : q = Request(asked + 1, c)
    OBVIOUS
  <2>3. /\ q.n = asked + 1 /\ q.query = c /\ q.step = "rows" /\ q.rows = {} /\ q.due = {}
    BY <2>2 DEF Request
  <2>4. q \in Requests
    BY <1>2, <2>2 DEF Request, Requests, NoCounts
  <2>5. ASSUME NEW p \in pending PROVE Answered(p)' /\ First(p)' /\ p.n \in 1..asked
    <3>1. asked' \in Nat /\ asked <= asked'
      BY <1>2, <2>1
    <3>2. QED
      BY <1>1, <1>2, <1>3, <3>1, PendingKept DEF IInv, Answered
  <2>6. Answered(q)' /\ First(q)'
    <3>1. IsFiniteSet({}) /\ Cardinality({}) = 0
      BY FS_EmptySet
    <3>2. 0 <= c.limit
      BY ClampKeeps DEF Query
    <3>3. q.n \in 1..asked'
      BY <1>2, <2>1, <2>3
    <3>4. QED
      BY <2>3, <2>4, <3>1, <3>2, <3>3 DEF Answered, First
  <2>7. ControlsOK'
    <3>1. asked' \in Nat \ {0} /\ newest' \in 0..asked'
      BY <1>1, <1>2, <2>1
    <3>2. error' \in BOOLEAN
      BY <2>1, Zenon
    <3>3. QED
      BY <1>1, <3>1, <3>2 DEF ControlsOK
  <2>8. Shown'
    BY <1>1, <1>2, <2>1, ShownKept DEF IInv
  <2>9. Latest'
    <3>1. \A p \in pending : p.n # asked'
      BY <1>2, <2>1, <2>5
    <3>2. page # None => page.n # asked' /\ page.n <= newest
      BY <1>2, <2>1 DEF IInv, Latest, Shown
    <3>3. QED
      BY <1>1, <2>1, <2>2, <2>3, <3>1, <3>2 DEF IInv, Latest
  <2>10. QED
    BY <1>3, <1>4, <2>1, <2>2, <2>3, <2>5, <2>6, <2>7, <2>8, <2>9
<1>7. QED
  BY <1>5, <1>6

(* Any control but the button "next". *)
LEMMA ElsewhereStep ==
    ASSUME IInv, NEW CONSTANT c \in Query, Elsewhere(c), box' \in Searches
    PROVE  IInv'
<1>1. Control(c) /\ walk' = None
  BY DEF Elsewhere
<1>2. /\ TableOK' /\ ControlsOK' /\ Shown' /\ Latest' /\ Revised'
      /\ \A p \in pending' : Answered(p)' /\ First(p)'
  BY <1>1, ControlEffects
<1>3. QED
  BY <1>1, <1>2 DEF IInv, Walking

(* They leave the controls well typed. *)
LEMMA ControlsStep ==
    ASSUME IInv, Resize \/ ToggleSort \/ Type \/ Debounce \/ Prev
    PROVE  IInv'
<1>1. PICK q \in Query : q = controls
  BY DEF IInv, ControlsOK
<1>2. box \in Searches
  BY DEF IInv, ControlsOK
<1>3. q.limit \in Nat \ {0} /\ q.offset \in Nat /\ q.limit \in PageSizes
  BY ClampKeeps DEF Query
<1>4. CASE Resize
  <2>1. PICK l \in PageSizes : Elsewhere([controls EXCEPT !.limit = l, !.offset = 0]) /\ box' = box
    BY <1>4 DEF Resize
  <2>2. [q EXCEPT !.limit = l, !.offset = 0] \in Query
    BY DEF Query
  <2>3. PICK c \in Query : Elsewhere(c)
    BY <1>1, <2>1, <2>2
  <2>4. QED
    BY <1>2, <2>1, <2>3, ElsewhereStep
<1>5. CASE ToggleSort
  <2>1. PICK s \in {"created_at", "email"} :
            /\ Elsewhere([controls EXCEPT !.sort = s, !.offset = 0,
                              !.order = IF s = controls.sort /\ @ = "desc" THEN "asc" ELSE "desc"])
            /\ box' = box
    BY <1>5 DEF ToggleSort
  <2>2. PICK d \in {"asc", "desc"} :
            d = IF s = q.sort /\ q.order = "desc" THEN "asc" ELSE "desc"
    OBVIOUS
  <2>3. [q EXCEPT !.sort = s, !.offset = 0, !.order = d] \in Query
    BY DEF Query
  <2>4. PICK c \in Query : Elsewhere(c)
    BY <1>1, <2>1, <2>2, <2>3
  <2>5. QED
    BY <1>2, <2>1, <2>4, ElsewhereStep
<1>6. CASE Type
  <2>1. Elsewhere([controls EXCEPT !.offset = 0]) /\ box' \in Searches
    BY <1>6 DEF Type
  <2>2. [q EXCEPT !.offset = 0] \in Query
    BY DEF Query
  <2>3. PICK c \in Query : Elsewhere(c)
    BY <1>1, <2>1, <2>2
  <2>4. QED
    BY <2>1, <2>3, ElsewhereStep
<1>7. CASE Debounce
  <2>1. Elsewhere([controls EXCEPT !.search = box]) /\ box' = box
    BY <1>7 DEF Debounce
  <2>2. [q EXCEPT !.search = box] \in Query
    BY <1>2 DEF Query
  <2>3. PICK c \in Query : Elsewhere(c)
    BY <1>1, <2>1, <2>2
  <2>4. QED
    BY <1>2, <2>1, <2>3, ElsewhereStep
<1>8. CASE Prev
  <2>1. Elsewhere([controls EXCEPT !.offset = Max({0, @ - controls.limit})]) /\ box' = box
    BY <1>8 DEF Prev
  <2>2. Max({0, q.offset - q.limit}) \in Nat
    <3>1. Max({0, q.offset - q.limit}) = IF 0 >= q.offset - q.limit THEN 0 ELSE q.offset - q.limit
      BY <1>3, MaxOfTwo
    <3>2. QED
      BY <1>3, <3>1
  <2>3. [q EXCEPT !.offset = Max({0, q.offset - q.limit})] \in Query
    BY <2>2 DEF Query
  <2>4. PICK c \in Query : Elsewhere(c)
    BY <1>1, <2>1, <2>3
  <2>5. QED
    BY <1>2, <2>1, <2>4, ElsewhereStep
<1>9. QED
  BY <1>4, <1>5, <1>6, <1>7, <1>8

(* The button "next": a walk that has rested goes on where it was. *)
LEMMA ForwardStep == ASSUME IInv, Forward PROVE IInv'
<1>1. PICK q \in Query : q = controls
  BY DEF IInv, ControlsOK
<1>2. q.limit \in Nat \ {0} /\ q.offset \in Nat
  BY ClampKeeps DEF Query
<1>3. /\ ~AtTheEnd /\ box' = box
      /\ Control([controls EXCEPT !.offset = @ + controls.limit])
      /\ walk' = IF Settled THEN walk ELSE None
  BY DEF Forward
<1>4. PICK c \in Query : c = [q EXCEPT !.offset = q.offset + q.limit]
  <2>1. q.offset + q.limit \in Nat
    BY <1>2
  <2>2. [q EXCEPT !.offset = q.offset + q.limit] \in Query
    BY <2>1 DEF Query
  <2>3. QED
    BY <2>2
<1>5. Control(c) /\ controls' = c /\ table' = table
  BY <1>1, <1>3, <1>4 DEF Control
<1>6. /\ c.offset = Edge(q) /\ c.offset # 0 /\ c # q
      /\ c.limit = q.limit /\ c.sort = q.sort /\ c.order = q.order /\ c.search = q.search
  BY <1>2, <1>4 DEF Edge, Query
<1>7. /\ TableOK' /\ ControlsOK' /\ Shown' /\ Latest' /\ Revised'
      /\ \A p \in pending' : Answered(p)' /\ First(p)'
      /\ \E p : pending' = pending \cup {p} /\ p.query = c /\ p.step = "rows"
  <2>1. box' \in Searches
    BY <1>3 DEF IInv, ControlsOK
  <2>2. QED
    BY <1>1, <1>5, <1>6, <2>1, ControlEffects
<1>8. Walking'
  <2> SUFFICES ASSUME Settled, walk # None, walk' = walk PROVE Walking'
    BY <1>3 DEF Walking
  <2>1. PICK p : pending' = {p} /\ p.query = c /\ p.step = "rows"
    BY <1>7 DEF Settled
  <2>2. pending = {} /\ page # None
    BY DEF Settled
  <2>3. /\ walk \in [due : SUBSET Row, shown : SUBSET Row] /\ walk.due \subseteq Matching(q)
        /\ page.total <= Size(q) /\ Covers(q, walk.due, walk.shown, Edge(q))
    BY <1>1, <2>2 DEF IInv, Walking, Resting
  <2>4. Edge(q) < Size(q)
    <3>1. ~(Edge(q) >= page.total)
      BY <1>1, <1>3, <2>2 DEF AtTheEnd, Total, Edge
    <3>2. page.total \in Nat /\ Edge(q) \in Nat /\ Size(q) \in Nat
      BY <1>2, <2>2, RankBounds DEF IInv, Shown, Requests, Edge
    <3>3. QED
      BY <2>3, <3>1, <3>2
  <2>5. Matching(controls)' = Matching(q) /\ Size(controls)' = Size(q)
    BY <1>5, <1>6 DEF Matching, Size
  <2>6. \A r : Rank(controls, r)' = Rank(q, r)
    BY <1>5, <1>6 DEF Rank, Matching, Before, SortColumn
  <2>7. Waiting(p)'
    <3>1. /\ pending' = {p} /\ p.query = controls' /\ controls'.offset # 0
          /\ controls'.offset < Size(controls)'
      BY <1>5, <1>6, <2>1, <2>4, <2>5
    <3>2. \A r \in walk'.due : Rank(controls, r)' < controls'.offset => r \in walk'.shown
      BY <1>5, <1>6, <2>3, <2>6 DEF Covers
    <3>3. QED
      BY <2>1, <3>1, <3>2 DEF Waiting, Covers
  <2>8. QED
    BY <2>1, <2>3, <2>5, <2>7 DEF Walking
<1>9. QED
  BY <1>7, <1>8 DEF IInv

-----------------------------------------------------------------------------
(* The revisions *)

(* Results with one hash do not differ in what a diff shows. *)
LEMMA SameHash == ASSUME NEW a, NEW b, ResultHash(a) = ResultHash(b) PROVE Diff(a, b) = {}
<1>1. ASSUME NEW f \in Fields \ VolatileFields PROVE a[f] = b[f]
  <2>1. ResultHash(a)[f] = a[f] /\ ResultHash(b)[f] = b[f]
    BY DEF ResultHash
  <2>2. QED
    BY <2>1
<1>2. QED
  BY <1>1 DEF Diff, Volatile, VolatileFields

(* Results with two hashes differ in a value or in its text. *)
LEMMA OtherHash ==
    ASSUME NEW a, NEW b, ResultHash(a) # ResultHash(b)
    PROVE  Diff(a, b) # {} \/ Respelled(a, b) # {}
<1>1. PICK f \in Fields \ VolatileFields : a[f] # b[f]
  BY DEF ResultHash
<1>2. QED
  BY <1>1 DEF Diff, Respelled, Volatile, VolatileFields

(* A check adds a result, or finds it there. *)
LEMMA CheckRevises == ASSUME Revised, Check PROVE Revised'
<1>1. PICK x \in Results :
          /\ latest' = x
          /\ \/ /\ revisions # <<>> /\ ResultHash(Last(revisions)) = ResultHash(x)
                /\ revisions' = revisions
             \/ /\ revisions = <<>> \/ ResultHash(Last(revisions)) # ResultHash(x)
                /\ Len(revisions) < MaxRevisions
                /\ revisions' = Append(revisions, x)
  BY DEF Check, Results
<1>2. x # None
  BY RevisionsAssumption DEF Results
<1>3. revisions \in Seq(Results) /\ Len(revisions) \in Nat /\ MaxRevisions \in Nat /\ Len(revisions) <= MaxRevisions
  BY RevisionsAssumption DEF Revised
<1>4. CASE revisions # <<>> /\ ResultHash(Last(revisions)) = ResultHash(x) /\ revisions' = revisions
  <2>1. Diff(Last(revisions), x) = {}
    BY <1>4, SameHash
  <2>2. HashAgreesWithDiff'
    BY <1>1, <1>4, <2>1 DEF Revised, HashAgreesWithDiff
  <2>3. QED
    BY <1>1, <1>2, <1>4, <2>2 DEF Revised, Results
<1>5. CASE /\ revisions = <<>> \/ ResultHash(Last(revisions)) # ResultHash(x)
           /\ Len(revisions) < MaxRevisions
           /\ revisions' = Append(revisions, x)
  <2> DEFINE k == Len(revisions)
  <2>1. /\ revisions' \in Seq(Results) /\ Len(revisions') = k + 1 /\ revisions'[k + 1] = x
        /\ \A n \in 1..k : revisions'[n] = revisions[n]
        /\ revisions' # <<>>
    BY <1>3, <1>5
  <2>2. Diff(Last(revisions'), x) = {}
    <3>1. Last(revisions') = x
      BY <2>1 DEF Last
    <3>2. QED
      BY <3>1, SameHash
  <2>3. ASSUME NEW n \in 2..(k + 1)
        PROVE  Diff(revisions'[n - 1], revisions'[n]) # {} \/ Respelled(revisions'[n - 1], revisions'[n]) # {}
    <3>1. CASE n \in 2..k
      <4>1. revisions'[n - 1] = revisions[n - 1] /\ revisions'[n] = revisions[n]
        BY <1>3, <2>1, <3>1
      <4>2. QED
        BY <3>1, <4>1 DEF Revised, HashAgreesWithDiff
    <3>2. CASE n = k + 1 /\ k >= 1
      <4>1. revisions # <<>> /\ revisions'[n - 1] = Last(revisions) /\ revisions'[n] = x
        BY <1>3, <2>1, <3>2 DEF Last
      <4>2. QED
        BY <1>5, <4>1, OtherHash
    <3>3. QED
      BY <1>3, <3>1, <3>2
  <2>4. HashAgreesWithDiff'
    BY <1>1, <2>1, <2>2, <2>3 DEF HashAgreesWithDiff
  <2>5. QED
    BY <1>1, <1>2, <1>3, <1>5, <2>1, <2>4 DEF Revised, Results
<1>6. QED
  BY <1>1, <1>4, <1>5

-----------------------------------------------------------------------------
(* The specification *)

(* The page has been opened and nothing is there yet. *)
LEMMA InitInv == Init => IInv
<1> SUFFICES ASSUME Init PROVE IInv
  OBVIOUS
<1>1. /\ table = {} /\ pending = {Request(1, controls)} /\ asked = 1 /\ newest = 0 /\ page = None /\ walk = None
      /\ controls \in [limit : {DefaultLimit}, offset : {0}, sort : {"created_at"}, order : {"desc"},
                       search : {Everything}]
      /\ box = Everything /\ error = FALSE /\ revisions = <<>> /\ latest = None
  BY DEF Init, RevisionsInit
<1>2. TableOK
  BY <1>1, FS_EmptySet DEF TableOK
<1>3. controls \in Query
  BY <1>1, HistoryAssumption DEF Query
<1>4. ControlsOK
  <2>1. error \in BOOLEAN
    BY <1>1, Zenon
  <2>2. asked \in Nat \ {0} /\ newest \in 0..asked
    BY <1>1
  <2>3. QED
    BY <1>1, <1>3, <2>1, <2>2, HistoryAssumption DEF ControlsOK
<1>5. PICK q : q = Request(1, controls)
  OBVIOUS
<1>6. /\ q.n = 1 /\ q.query = controls /\ q.step = "rows" /\ q.rows = {} /\ q.due = {} /\ q \in Requests
  BY <1>3, <1>5 DEF Request, Requests, NoCounts
<1>7. Answered(q) /\ First(q)
  <2>1. IsFiniteSet({}) /\ Cardinality({}) = 0
    BY FS_EmptySet
  <2>2. 0 <= controls.limit
    BY <1>3, ClampKeeps DEF Query
  <2>3. QED
    BY <1>1, <1>6, <2>1, <2>2 DEF Answered, First
<1>8. Shown /\ Walking /\ Latest
  BY <1>1, <1>5, <1>6 DEF Shown, Walking, Latest
<1>9. Revised
  <2>1. revisions \in Seq(Results) /\ Len(revisions) = 0
    BY <1>1
  <2>2. HashAgreesWithDiff
    BY <1>1, <2>1 DEF HashAgreesWithDiff
  <2>3. QED
    BY <1>1, <2>1, <2>2, RevisionsAssumption DEF Revised
<1>10. QED
  BY <1>1, <1>2, <1>4, <1>5, <1>7, <1>8, <1>9 DEF IInv

(* Checks of the one address, and steps of nobody. *)
LEMMA PageStays == ASSUME IInv, UNCHANGED pageVars, Revised' PROVE IInv'
<1>1. UNCHANGED <<table, box, controls, asked, pending, page, error, newest, walk>>
  BY DEF pageVars
<1>2. TableOK' /\ ControlsOK' /\ Latest' /\ asked \in Nat
  BY <1>1 DEF IInv, TableOK, ControlsOK, Latest
<1>3. Shown' /\ Walking'
  BY <1>1, <1>2, ShownKept, WalkGrows DEF IInv
<1>4. \A p \in pending' : Answered(p)' /\ First(p)'
  BY <1>1, <1>2, PendingKept DEF IInv
<1>5. QED
  BY <1>2, <1>3, <1>4 DEF IInv

(* Every step keeps the invariant. *)
LEMMA NextInv == IInv /\ [Next]_vars => IInv'
<1> SUFFICES ASSUME IInv, [Next]_vars PROVE IInv'
  OBVIOUS
<1>1. CASE Record
  BY <1>1, RecordStep
<1>2. CASE Resize \/ ToggleSort \/ Type \/ Debounce \/ Prev
  BY <1>2, ControlsStep
<1>3. CASE Forward
  BY <1>3, ForwardStep
<1>4. ASSUME NEW p \in pending, ReadRows(p) \/ Count(p) \/ Arrive(p) \/ Fail(p) PROVE IInv'
  BY <1>4, ReadRowsStep, CountStep, ArriveStep, FailStep
<1>5. CASE Check /\ UNCHANGED pageVars
  BY <1>5, CheckRevises, PageStays DEF IInv
<1>6. CASE UNCHANGED vars
  BY <1>6, RevisedKept, PageStays DEF IInv, vars
<1>7. QED
  BY <1>1, <1>2, <1>3, <1>4, <1>5, <1>6 DEF Next, PageStep

(* The invariant holds in every state that can be reached. *)
THEOREM Invariant == Spec => []IInv
<1>1. QED
  BY InitInv, NextInv, PTL DEF Spec

(* The variables of the page, of what is on its way and of the revisions     *)
(* keep their types, and no page is longer than its size.                    *)
THEOREM TypeCorrect == Spec => []TypeOK
<1>1. IInv => TypeOK
  <2> SUFFICES ASSUME IInv PROVE TypeOK
    OBVIOUS
  <2>1. (\A p \in pending : IsRequest(p)) /\ (page = None \/ IsRequest(page))
    BY DEF IInv, Answered, Shown, IsRequest
  <2>2. walk = None \/ walk.due \cup walk.shown \subseteq Row
    BY DEF IInv, Walking
  <2>3. RevisionsTypeOK
    <3>1. \A x \in Results : DOMAIN x = Fields
      <4>1. \A raw, email_raw, now : DOMAIN ToSchema(raw, email_raw, now) = Fields
        BY Zenon DEF ToSchema
      <4>2. QED
        BY <4>1 DEF Results
    <3>2. \A n \in DOMAIN revisions : revisions[n] \in Results
      BY DEF IInv, Revised
    <3>3. QED
      BY <3>1, <3>2 DEF IInv, Revised, RevisionsTypeOK
  <2>4. QED
    BY <2>1, <2>2, <2>3 DEF IInv, TableOK, ControlsOK, TypeOK
<1>2. QED
  BY <1>1, Invariant, PTL

(* What settles on the screen is what the controls ask for, unless a request *)
(* failed or a page took the place of a later one (History.tsx:28-39).       *)
THEOREM SettlesAsAsked == Spec => []SettledPageIsAskedFor
<1>1. IInv => SettledPageIsAskedFor
  <2> SUFFICES ASSUME IInv, pending = {}, ~error PROVE page # None /\ (page.n = newest => page.query = controls)
    BY DEF SettledPageIsAskedFor
  <2>1. newest = asked /\ newest > 0
    BY DEF IInv, Latest, ControlsOK
  <2>2. QED
    BY <2>1 DEF IInv, Latest
<1>2. QED
  BY <1>1, Invariant, PTL

(* Who goes from page to page sees every row that was there at the start,    *)
(* however many are added (repository.py:145-175, History.tsx:191).          *)
THEOREM WalksAreComplete == Spec => []WalkShowsEverything
<1>1. IInv => WalkShowsEverything
  <2> SUFFICES ASSUME IInv, walk # None, Settled
               PROVE  (AtTheEnd => walk.due \subseteq walk.shown) /\ (page.rows = {} => walk.due = {})
    BY DEF WalkShowsEverything
  <2>1. Resting
    BY DEF IInv, Walking, Settled
  <2>2. AtTheEnd => page.total <= Edge(controls)
    <3>1. page.total \in Nat /\ controls.offset \in Nat /\ controls.limit \in Nat
      <4>1. controls \in Query /\ page \in Requests
        BY <2>1 DEF IInv, ControlsOK, Shown, Resting
      <4>2. QED
        BY <4>1, ClampKeeps DEF Query, Requests
    <3>2. QED
      BY <2>1, <3>1 DEF AtTheEnd, Total, Edge, Resting
  <2>3. QED
    BY <2>1, <2>2 DEF Resting
<1>2. QED
  BY <1>1, Invariant, PTL

(* The total beside a page covers its rows, and each row counts among the    *)
(* revisions of its address (history_service.py:54-62).                      *)
THEOREM CountsFit == Spec => []PageFitsCounts
<1>1. IInv => PageFitsCounts
  BY DEF IInv, Shown, Fits, PageFitsCounts
<1>2. QED
  BY <1>1, Invariant, PTL

(* Two revisions in a row differ in what their diff shows or in the text of  *)
(* a value, and the newest not at all from what the last check said          *)
(* (repository.py:28-32, 55-57, history_service.py:86-92).                   *)
THEOREM RevisionsDiffer == Spec => []HashAgreesWithDiff
<1>1. IInv => HashAgreesWithDiff
  BY DEF IInv, Revised
<1>2. QED
  BY <1>1, Invariant, PTL
=============================================================================
