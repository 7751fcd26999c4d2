----------------------------- MODULE MCHarness -----------------------------
(***************************************************************************)
(* Two goroutines changing two variables of two values, with and without   *)
(* the discipline of recording one at a time, twice from Init.             *)
(***************************************************************************)
EXTENDS Harness, TLC

Symmetry == Permutations(Goroutines) \cup Permutations(Variables) \cup Permutations(Vals)
=============================================================================
