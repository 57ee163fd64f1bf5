----------------------------- MODULE MCConnector -----------------------------
(* An assembly that the host compiled, beside a tool or a query of the        *)
(* editor's state, each from the host or not.                                 *)
EXTENDS Connector, TLC

CONSTANTS r1, r2
MCKinds == (r1 :> {"exec"}) @@ (r2 :> {"tool", "control"})
=============================================================================
