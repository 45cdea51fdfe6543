---------------------------- MODULE MCLifecycle ----------------------------
(* Lifecycle with the bounds of the cfg files. *)
EXTENDS Lifecycle, TLC

Symmetry == Permutations(Controllers) \cup Permutations(Images)
=============================================================================
