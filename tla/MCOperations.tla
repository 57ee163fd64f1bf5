------------------------------ MODULE MCOperations ------------------------------
(* Model values and paths for TLC: a project inside another one.              *)
EXTENDS Operations, TLC

MCInner == <<"work", "game">>
MCOuter == <<"work">>
MCWants == {[by |-> "project", path |-> MCInner], [by |-> "project", path |-> <<"game">>],
            [by |-> "cwd", path |-> <<"work", "game", "Assets">>], [by |-> "port", port |-> 8090]}

CONSTANTS c1, c2

Situation(k1, k2, capacity, outer, carries, lossy) ==
  [kind |-> (c1 :> k1) @@ (c2 :> k2), capacity |-> capacity, outer |-> outer, carries |-> carries,
   lossy |-> lossy]

\* Two imports at once, with and without an explicit compilation, which Unity
\* may keep over a reload or not; play mode against an import, and against stop
\* with a full table of receipts; a live probe beside an import.  In the last two
\* any write of the heartbeat may fail.
MCSetups ==
  {Situation("reserialize", "compile", 2, FALSE, FALSE, FALSE), Situation("refresh", "compile", 1, FALSE, TRUE, FALSE),
   Situation("play", "compile", 2, FALSE, FALSE, FALSE),
   Situation("play", "stop", 1, TRUE, FALSE, TRUE),             Situation("ready", "refresh", 2, TRUE, TRUE, TRUE)}
================================================================================
