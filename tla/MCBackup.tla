------------------------------ MODULE MCBackup ------------------------------
(* Small instances of Backup for TLC. *)
EXTENDS Backup, TLC

(* what another instance backed up: one check, the same archive damaged, and *)
(* two checks                                                                *)
OneCheck == [rows |-> {[id |-> 1, by |-> None]},
             events |-> {[id |-> 1, result_id |-> 1, by |-> None]}]
TwoChecks == [rows |-> {[id |-> i, by |-> None] : i \in {1, 2}},
              events |-> {[id |-> i, result_id |-> i, by |-> None] : i \in {1, 2}}]
FromElsewhere == {[data |-> OneCheck, sound |-> TRUE, during |-> Empty],
                  [data |-> [OneCheck EXCEPT !.events = {}], sound |-> FALSE, during |-> Empty],
                  [data |-> TwoChecks, sound |-> TRUE, during |-> Empty]}

Symmetry == Permutations(Checks) \cup Permutations(Jobs)
=============================================================================
