-------------------------------- MODULE Gate --------------------------------
(***************************************************************************)
(* What the politeness gate promises to the service it calls: never more   *)
(* than so many attempts at once, and so much time between two starts,     *)
(* whoever asks and whoever gives up waiting (docstring of                 *)
(* app/providers/mailboxlayer/politeness.py).                              *)
(***************************************************************************)
EXTENDS Naturals, FiniteSets

CONSTANTS Callers, MaxConcurrent, MinInterval

VARIABLES
    inside,   \* the callers whose attempt is on its way
    since     \* time since the last start, as far as MinInterval

Init == inside = {} /\ since = MinInterval

Start(c) ==
    /\ c \notin inside
    /\ Cardinality(inside) < MaxConcurrent
    /\ since = MinInterval
    /\ inside' = inside \cup {c}
    /\ since' = 0

End(c) ==
    /\ c \in inside
    /\ inside' = inside \ {c}
    /\ UNCHANGED since

Tick == since < MinInterval /\ since' = since + 1 /\ UNCHANGED inside

Next == (\E c \in Callers : Start(c) \/ End(c)) \/ Tick

Spec == Init /\ [][Next]_<<inside, since>>
=============================================================================
