----------------------------- MODULE HistoryLog -----------------------------
(***************************************************************************)
(* What the result store promises: a permanent, append-only record.        *)
(* A check of an address is recorded in one step, at most once, either     *)
(* against a revision that is already there or together with a new one;    *)
(* nothing recorded is ever changed or removed                             *)
(* (docstrings of app/db/models.py and app/db/repository.py).              *)
(***************************************************************************)
EXTENDS Naturals

CONSTANTS Requests, Rows

VARIABLES rows, events

Init == rows = {} /\ events = {}

EventFor(q, x) == [request |-> q, email |-> x.email, result_id |-> x.id]
Recorded(q) == \E ev \in events : ev.request = q

(* the outcome is the one of revision x *)
Confirm(q, x) ==
    /\ ~Recorded(q)
    /\ x \in rows
    /\ events' = events \cup {EventFor(q, x)}
    /\ UNCHANGED rows

(* the outcome is a new revision x, under a primary key of its own *)
Revise(q, x) ==
    /\ ~Recorded(q)
    /\ \A y \in rows : y.id # x.id
    /\ rows' = rows \cup {x}
    /\ events' = events \cup {EventFor(q, x)}

(* a new revision is looked for among the rows there are afterwards: Rows    *)
(* may be infinite                                                           *)
Next == \E q \in Requests : \/ \E x \in rows : Confirm(q, x)
                            \/ \E x \in rows' \ rows : x \in Rows /\ Revise(q, x)

Spec == Init /\ [][Next]_<<rows, events>>
=============================================================================
