---------------------------- MODULE MCFat32Store ----------------------------
(***************************************************************************)
(* Model checking of Fat32Store: the symmetry of the payloads.               *)
(***************************************************************************)
EXTENDS Fat32Store, TLC

Symmetry == Permutations(Payloads)
=============================================================================
