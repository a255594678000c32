--------------------------- MODULE MCHistoryPage ---------------------------
(* Small instances of HistoryPage for TLC. *)
EXTENDS HistoryPage

Good == [format_valid |-> "true", mx_found |-> "true", smtp_check |-> "true", catch_all |-> "null",
         disposable |-> "false", did_you_mean |-> "", score |-> "1"]

(* an answer for each verdict, and answers that differ in one signal only *)
RawAnswers ==
    {Good} \cup {[Good EXCEPT !.score = s] : s \in {"0.8", "1.0"}}
    \cup {[Good EXCEPT !.smtp_check = s] : s \in {"false", "null", "1"}}
    \cup {[Good EXCEPT !.did_you_mean = s] : s \in {"null", "another"}}
    \cup {[Good EXCEPT !.mx_found = "false"], [Good EXCEPT !.format_valid = "false"],
          [Good EXCEPT !.format_valid = "false", !.mx_found = "false"],
          [Good EXCEPT !.catch_all = "true"], [Good EXCEPT !.disposable = "true"]}

(* Next, with what it interleaves kept apart: the page and the revisions     *)
(* share nothing, so that each is explored with the other at its start       *)
PageAtStart == asked = 1 /\ table = {} /\ page = None /\ ~error /\ box = Everything

NextOneAtATime ==
    \/ revisions = <<>> /\ PageStep
    \/ PageAtStart /\ Check /\ UNCHANGED pageVars

SpecOneAtATime == Init /\ [][NextOneAtATime]_vars
=============================================================================
