--------------------------- MODULE MCCompilerWorker ---------------------------
(* Small instances of CompilerWorker for TLC. *)
EXTENDS CompilerWorker, TLC

Symmetry == Permutations(Foreground) \cup Permutations(Requests \ Foreground)
=============================================================================
