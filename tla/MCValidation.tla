---------------------------- MODULE MCValidation ----------------------------
(* Small instances of Validation for TLC. *)
EXTENDS Validation, TLC

CONSTANTS e1, i1, i2

(* one address, with one or two spellings of it *)
OneSpelling == i1 :> e1
TwoSpellings == i1 :> e1 @@ i2 :> e1

RequestSymmetry == Permutations(Requests)
Symmetry == RequestSymmetry \cup Permutations(Outcomes)
SpellingSymmetry == RequestSymmetry \cup Permutations(Inputs)
=============================================================================
