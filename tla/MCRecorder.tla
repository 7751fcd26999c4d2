----------------------------- MODULE MCRecorder -----------------------------
(***************************************************************************)
(* Two variables, two values, two restarts, up to MaxLen states per trace. *)
(***************************************************************************)
EXTENDS Recorder, TLC

Symmetry == Permutations(Vals) \cup Permutations(Variables)
=============================================================================
