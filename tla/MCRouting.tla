------------------------------- MODULE MCRouting -------------------------------
(* Model values and situations for TLC.                                       *)
EXTENDS Routing, TLC

CONSTANTS k1, k2, i1, i2, v1, v2, h1, h2

MCRegisters == (i1 :> v1) @@ (i2 :> v2)

Cli(syntax, quiet, session, backend, target) ==
  [syntax |-> syntax, quiet |-> quiet, session |-> session, backend |-> backend,
   target |-> target]

Light     == Cli(TRUE, TRUE, FALSE, "auto", "capable")
LightOld  == Cli(TRUE, FALSE, FALSE, "host", "old")
Full      == Cli(FALSE, FALSE, FALSE, "auto", "capable")
InSession == Cli(FALSE, TRUE, TRUE, "auto", "capable")
HostLine  == Cli(FALSE, TRUE, TRUE, "host", "capable")
Override  == Cli(FALSE, TRUE, FALSE, "host", "override")
Legacy    == Cli(TRUE, TRUE, FALSE, "legacy", "capable")

Situation(line1, line2, hosts, installers, kills, notice, denied) ==
  [lines |-> (k1 :> line1) @@ (k2 :> line2), hosts |-> hosts,
   installers |-> installers, crashes |-> kills, due |-> notice, denied |-> denied]

\* Hosts without commands: two under an update and a crash; two of one runtime,
\* and one at a time under an update, with files that cannot be written or removed.
Alone ==
  {Situation(None, None, {h1, h2}, {i1, i2}, 1, FALSE, FALSE),
   Situation(None, None, {h1, h2}, {i1}, 1, FALSE, TRUE),
   Situation(None, None, {h1}, {i1, i2}, 1, FALSE, TRUE)}

\* A full command over the update of a runtime, and one for the host alone over
\* two hosts of one runtime.
Served ==
  {Situation(Full, None, {h1}, {i1, i2}, 0, FALSE, FALSE),
   Situation(HostLine, None, {h1, h2}, {i1}, 0, FALSE, FALSE)}

\* Over one host that stops or crashes: a light command beside one for an old
\* Connector, and commands that may print the update notice; a light, a session's
\* and a full command under a crash; commands that never use the host.
SingleHost ==
  {Situation(Light, LightOld, {h1}, {i1}, 0, notice, FALSE) : notice \in BOOLEAN} \cup
  {Situation(Full, None, {h1}, {i1}, 0, TRUE, FALSE),
   Situation(InSession, None, {h1}, {i1}, 1, FALSE, FALSE),
   Situation(Light, None, {h1}, {i1}, 1, FALSE, TRUE),
   Situation(HostLine, None, {h1}, {i1}, 1, FALSE, TRUE),
   Situation(Override, Legacy, {h1}, {i1}, 0, FALSE, FALSE)}

MCPlans == Alone \cup Served \cup SingleHost
================================================================================
