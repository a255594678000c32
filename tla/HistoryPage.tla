---------------------------- MODULE HistoryPage ----------------------------
(***************************************************************************)
(* The history page of the web interface (frontend/src/pages/History.tsx)  *)
(* and the listing behind it (app/services/history_service.py, paginate and*)
(* counts_by_email of app/db/repository.py): three SELECTs for a page over *)
(* a table that grows, and pages that arrive in any order.  Revisions has  *)
(* what the page links to.                                                 *)
(*                                                                         *)
(* Each SELECT sees what is committed by then, as on PostgreSQL; the others*)
(* allow fewer behaviours.  The table only grows: a restore is in Backup.  *)
(***************************************************************************)
EXTENDS Integers, FiniteSetsExt, Revisions

CONSTANTS
    Emails,       \* numbers, in the order of the addresses
    Searches,     \* the addresses searched for, and 0 for no search
    PageSizes,    \* the page sizes the page offers
    DefaultLimit, \* the one it starts with
    MaxPage,      \* MAX_PAGE
    MaxRows,      \* bound: rows in the table
    MaxRequests   \* bound: pages asked for

VARIABLES
    table,        \* rows of validation_results
    box,          \* what is typed in the search box
    controls,     \* limit, offset, sort, order, and the debounced search
    asked,        \* how many pages have been asked for
    pending,      \* requests on their way, and how far the server is
    page, error,  \* what is shown
    newest,       \* (history) the latest asked for of the pages that have arrived
    walk          \* (history) of a visitor who goes from the first page on by next alone

pageVars == <<table, box, controls, asked, pending, page, error, newest, walk>>
vars == <<pageVars, revisionVars>>

Everything == 0

Row == [id : Nat, email : Emails]

Query == [limit : PageSizes, offset : Nat, sort : {"created_at", "email"}, order : {"asc", "desc"}, search : Searches]

Requests == [n : Nat, query : Query, step : {"rows", "count", "done"}, rows : SUBSET Row, total : Nat,
             counts : [Emails -> Nat], due : SUBSET Row]

ASSUME HistoryAssumption ==
    /\ Emails \subseteq Nat
    /\ Everything \in Searches
    /\ MaxPage \in Nat /\ PageSizes \subseteq 1..MaxPage /\ DefaultLimit \in PageSizes
    /\ None \notin Requests

NoCounts == [e \in Emails |-> 0]

Request(n, query) ==
    [n |-> n, query |-> query, step |-> "rows", rows |-> {}, total |-> 0, counts |-> NoCounts, due |-> {}]

Init ==
    /\ table = {}
    /\ box = Everything
    /\ controls \in [limit : {DefaultLimit}, offset : {0}, sort : {"created_at"}, order : {"desc"}, search : {Everything}]
    /\ asked = 1
    /\ pending = {Request(1, controls)}
    /\ page = None
    /\ error = FALSE
    /\ newest = 0
    /\ walk = None
    /\ RevisionsInit

-----------------------------------------------------------------------------
(* The server *)

(* a check stores a row; ids are in the order of created_at *)
Record ==
    LET n == Cardinality(table)
    IN  /\ n < MaxRows
        /\ \E e \in Emails : table' = table \cup {[id |-> n + 1, email |-> e]}
        /\ UNCHANGED <<box, controls, asked, pending, page, error, newest, walk, revisionVars>>

Matching(query) == {r \in table : query.search \in {Everything, r.email}}

SortColumn(query, r) == IF query.sort = "email" THEN r.email ELSE r.id

(* the column as asked, then the id, always ascending *)
Before(query, r, s) ==
    LET x == SortColumn(query, r)
        y == SortColumn(query, s)
    IN  IF x = y THEN r.id < s.id ELSE (x < y) = (query.order = "asc")

(* mutation: the largest page is one short *)
ClampBelow(limit) == Max({1, Min({limit, MaxPage - 1})})

ClampLimit(limit) == Max({1, Min({limit, MaxPage})})

Rank(query, r) == Cardinality({s \in Matching(query) : Before(query, s, r)})

(* mutation: one row too many *)
PageInclusive(query) == {r \in Matching(query) : Rank(query, r) \in query.offset..(query.offset + ClampLimit(query.limit))}

Page(query) == {r \in Matching(query) : Rank(query, r) \in query.offset..(query.offset + ClampLimit(query.limit) - 1)}

Counts(rows) == [e \in Emails |-> Cardinality({r \in table : r.email = e /\ \E s \in rows : s.email = e})]

Answer(p, q) ==
    /\ pending' = (pending \ {p}) \cup {q}
    /\ UNCHANGED <<table, box, controls, asked, page, error, newest, walk, revisionVars>>

ReadRows(p) ==
    /\ p.step = "rows"
    /\ Answer(p, [p EXCEPT !.step = "count", !.rows = Page(p.query), !.due = IF p.query.offset = 0 THEN Matching(p.query) ELSE {}])

(* mutation: the total counts addresses, not rows *)
CountAddresses(p) ==
    /\ p.step = "count"
    /\ Answer(p, [p EXCEPT !.step = "done", !.total = Cardinality({r.email : r \in Matching(p.query)}),
                           !.counts = Counts(p.rows)])

(* the total and the revision counts, which are not compared, in one step *)
Count(p) ==
    /\ p.step = "count"
    /\ Answer(p, [p EXCEPT !.step = "done", !.total = Cardinality(Matching(p.query)), !.counts = Counts(p.rows)])

-----------------------------------------------------------------------------
(* The page *)

Total == IF page = None THEN 0 ELSE page.total
AtTheEnd == controls.offset + controls.limit >= Total

(* nothing is on its way, and what is shown is what the controls say *)
Settled == pending = {} /\ ~error /\ box = controls.search /\ page # None /\ page.query = controls

(* the effect that follows a render in which a control has changed *)
Control(c) ==
    /\ controls' = c
    /\ IF c = controls THEN UNCHANGED <<asked, pending, error>>
       ELSE /\ asked < MaxRequests
            /\ asked' = asked + 1
            /\ pending' = pending \cup {Request(asked', c)}
            /\ error' = FALSE
    /\ UNCHANGED <<table, page, newest, revisionVars>>

Elsewhere(c) == Control(c) /\ walk' = None

Resize ==
    \E l \in PageSizes \ {controls.limit} : Elsewhere([controls EXCEPT !.limit = l, !.offset = 0]) /\ UNCHANGED box

ToggleSort ==
    \E s \in {"created_at", "email"} :
        /\ Elsewhere([controls EXCEPT !.sort = s, !.offset = 0,
                          !.order = IF s = controls.sort /\ @ = "desc" THEN "asc" ELSE "desc"])
        /\ UNCHANGED box

Type ==
    /\ \E s \in Searches \ {box} : box' = s
    /\ Elsewhere([controls EXCEPT !.offset = 0])

Debounce ==
    /\ box # controls.search
    /\ Elsewhere([controls EXCEPT !.search = box])
    /\ UNCHANGED box

Prev ==
    /\ controls.offset # 0
    /\ Elsewhere([controls EXCEPT !.offset = Max({0, @ - controls.limit})])
    /\ UNCHANGED box

(* mutation: the offset is moved and nothing is fetched *)
NextUnfetched ==
    /\ ~AtTheEnd
    /\ controls' = [controls EXCEPT !.offset = @ + controls.limit]
    /\ UNCHANGED <<table, box, asked, pending, page, error, newest, walk, revisionVars>>

(* the button "next" *)
Forward ==
    /\ ~AtTheEnd
    /\ Control([controls EXCEPT !.offset = @ + controls.limit])
    /\ walk' = IF Settled THEN walk ELSE None
    /\ UNCHANGED box

Arrive(p) ==
    /\ p.step = "done"
    /\ pending' = pending \ {p}
    /\ page' = [p EXCEPT !.due = {}]
    /\ newest' = Max({newest, p.n})
    /\ walk' = IF p.query # controls \/ pending' # {} THEN None
               ELSE IF p.query.offset = 0 THEN [due |-> p.due, shown |-> p.rows]
               ELSE IF walk = None THEN None ELSE [walk EXCEPT !.shown = @ \cup p.rows]
    /\ UNCHANGED <<table, box, controls, asked, error, revisionVars>>

(* the request is lost, refused or fails on the server *)
Fail(p) ==
    /\ pending' = pending \ {p}
    /\ error' = TRUE
    /\ walk' = None
    /\ UNCHANGED <<table, box, controls, asked, page, newest, revisionVars>>

PageStep ==
    \/ Record
    \/ Resize \/ ToggleSort \/ Type \/ Debounce \/ Prev \/ Forward
    \/ \E p \in pending : ReadRows(p) \/ Count(p) \/ Arrive(p) \/ Fail(p)

Next ==
    \/ PageStep
    \/ Check /\ UNCHANGED pageVars

Spec == Init /\ [][Next]_vars

-----------------------------------------------------------------------------
(* Properties *)

IsRequest(p) == p \in Requests /\ p.n \in 1..asked /\ Cardinality(p.rows) <= p.query.limit

TypeOK ==
    /\ table \subseteq Row
    /\ box \in Searches
    /\ controls \in Query
    /\ \A p \in pending : IsRequest(p)
    /\ page = None \/ IsRequest(page)
    /\ error \in BOOLEAN /\ newest \in 0..asked
    /\ walk = None \/ walk.due \cup walk.shown \subseteq Row
    /\ RevisionsTypeOK

(* Once nothing is on its way and the search has been taken over, the page   *)
(* is the one the controls ask for, unless a request failed or the page took *)
(* the place of one that was asked for later (History.tsx:28-39).            *)
SettledPageIsAskedFor ==
    pending = {} /\ box = controls.search /\ ~error =>
        page # None /\ (page.n = newest => page.query = controls)

(* Who waits for each page and goes on until there is no next one has seen   *)
(* every row that was there when the first page was read, whatever was added *)
(* since, and no empty page (repository.py:145-175, History.tsx:50-52, 191). *)
WalkShowsEverything ==
    walk # None /\ Settled =>
        /\ AtTheEnd => walk.due \subseteq walk.shown
        /\ page.rows = {} => walk.due = {}

(* The numbers beside a page fit it: the total covers its rows, and each row *)
(* counts among the revisions of its address (history_service.py:54-62).     *)
PageFitsCounts ==
    page # None =>
        /\ page.rows # {} => page.total >= page.query.offset + Cardinality(page.rows)
        /\ \A r \in page.rows : page.counts[r.email] >= Cardinality({s \in page.rows : s.email = r.email})
=============================================================================
