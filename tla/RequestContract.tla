-------------------------- MODULE RequestContract --------------------------
(***************************************************************************)
(* What the persistent host promises about one request, whatever threads,  *)
(* retries, reloads and lost messages lie between the caller and Unity     *)
(* (docs/DEVELOPMENT.md "Preserve these boundaries", docs/COMMANDS.md):    *)
(*                                                                         *)
(*   - Unity runs the request at most once;                                *)
(*   - the request gets at most one answer, which never changes;           *)
(*   - "result" is only answered for a request Unity ran;                  *)
(*   - "not_started" is only answered for a request that Unity has not run *)
(*     and never will; anything uncertain is answered "unknown".           *)
(*                                                                         *)
(* HostJobs, Connector and Routing implement this specification.           *)
(***************************************************************************)
EXTENDS Naturals

CONSTANTS Requests,  \* the requests accepted by the host
          None       \* no answer yet

VARIABLES effect,    \* effect[r]: how often Unity ran r
          outcome    \* outcome[r]: the completion class answered for r

vars == <<effect, outcome>>

Outcomes == {None, "result", "not_started", "unknown"}

TypeOK == /\ effect \in [Requests -> Nat]
          /\ outcome \in [Requests -> Outcomes]

Init == /\ effect = [r \in Requests |-> 0]
        /\ outcome = [r \in Requests |-> None]

\* Unity runs r. It may do so after the caller was told "unknown".
Execute(r) ==
    /\ effect[r] = 0
    /\ outcome[r] \in {None, "unknown"}
    /\ effect' = [effect EXCEPT ![r] = 1]
    /\ UNCHANGED outcome

\* The request is answered once. Only "unknown" is allowed in both worlds.
Answer(r, o) ==
    /\ outcome[r] = None
    /\ o = "result" => effect[r] = 1
    /\ o = "not_started" => effect[r] = 0
    /\ outcome' = [outcome EXCEPT ![r] = o]
    /\ UNCHANGED effect

\* A host that stops turns several requests away in one step.
TurnAway(S) ==
    /\ \A r \in S : outcome[r] = None /\ effect[r] = 0
    /\ outcome' = [r \in Requests |-> IF r \in S THEN "not_started" ELSE outcome[r]]
    /\ UNCHANGED effect

Next == \/ \E r \in Requests : \/ Execute(r)
                                \/ \E o \in Outcomes \ {None} : Answer(r, o)
        \/ \E S \in SUBSET Requests : TurnAway(S)

Spec == Init /\ [][Next]_vars

-----------------------------------------------------------------------------
\* A request answered "not_started" was never run, and one that was run was run once.
Honest == \A r \in Requests :
              /\ effect[r] \in {0, 1}
              /\ outcome[r] = "not_started" => effect[r] = 0
              /\ outcome[r] = "result" => effect[r] = 1
=============================================================================
