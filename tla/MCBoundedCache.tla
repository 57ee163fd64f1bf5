---------------------------- MODULE MCBoundedCache ----------------------------
(* Small instances of BoundedCache for TLC. *)
EXTENDS BoundedCache, TLC

Symmetry == Permutations(Keys) \cup Permutations(Images)
=============================================================================
