-------------------------- MODULE MCRestoredCache --------------------------
(* A small instance of RestoredCache for TLC. *)
EXTENDS RestoredCache

(* what comes from elsewhere has the ids that requests are given here *)
OneOfTheIds == CHOOSE r \in Requests : TRUE
SharedId == [s \in Stored |-> IF s \in Elsewhere THEN OneOfTheIds ELSE s]
=============================================================================
