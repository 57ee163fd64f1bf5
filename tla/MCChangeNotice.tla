----------------------------- MODULE MCChangeNotice -----------------------------
(* Small instances of ChangeNotice for TLC. *)
EXTENDS ChangeNotice, TLC

Symmetry == Permutations(Tasks)
=============================================================================
