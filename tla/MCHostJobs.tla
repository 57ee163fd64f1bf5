----------------------------- MODULE MCHostJobs -----------------------------
(* Small instances of HostJobs for TLC. *)
EXTENDS HostJobs, TLC

CONSTANTS c1, c2, r1, r2

\* Two requests or a shared one. The ids are interchangeable, so that NamedIds leaves out
\* no case.
AnyId    == [c \in Callers |-> {r1, r2}]
NamedIds == (c1 :> {r1}) @@ (c2 :> {r1, r2})
SharedId == [c \in Callers |-> {r1}]

Symmetry == Permutations(Callers) \cup Permutations({r1, r2})
=============================================================================
