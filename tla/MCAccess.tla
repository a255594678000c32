------------------------------ MODULE MCAccess ------------------------------
(* Small instances of Access for TLC. *)
EXTENDS Access, TLC

(* API authentication with and without the other kind, and an open service   *)
(* that listens to the world                                                 *)
Cases ==
    {[api |-> TRUE, ui |-> u, password |-> u, loopback |-> FALSE] : u \in BOOLEAN}
    \cup {[api |-> FALSE, ui |-> FALSE, password |-> FALSE, loopback |-> FALSE]}

Symmetry == Permutations(Calls)

(* the limiter and the rest meet at a restart only, so that each is explored *)
(* with the other at its start                                               *)
OneAtATime ==
    \/ hits = <<>> /\ now = 0
    \/ minted = 0 /\ table.ttl = None /\ \A c \in Calls : ~Working(c)
=============================================================================
