------------------------------- MODULE Discovery -------------------------------
(* client.py: which running editor a command is for.  Every editor keeps one  *)
(* instance file; a client reads all of them and picks one, by port, by       *)
(* project path or by its working directory.  A path is the sequence of its   *)
(* parts (_path_parts); an instance is a record with the fields project,      *)
(* port, pid and state.  Timestamps only break ties between instances that    *)
(* are otherwise equally good, so each operator gives the SET of instances    *)
(* the code may return: empty is DiscoveryError, several is "whichever file   *)
(* is the newest".                                                            *)
EXTENDS FiniteSets, SequencesExt

IsActive(i) == i.state # "stopped"

IsSameOrChild(path, parent) == IsPrefix(parent, path)

HasPathSuffix(path, suffix) == IsSuffix(suffix, path)

\* Paths that contain one path lie on one chain: their lengths order them.
MostSpecific(S) == {i \in S : \A j \in S : Len(j.project) <= Len(i.project)}

FindByPort(instances, port) == {i \in instances : i.port = port}

FindActiveByPort(instances, port) == {i \in FindByPort(instances, port) : IsActive(i)}

\* An exact match, else the innermost project around the path, else the only
\* project the path is the tail of.
FindByProject(alive, path) ==
  LET exact      == {i \in alive : i.project = path}
      containing == {i \in alive : IsSameOrChild(path, i.project)}
      suffix     == {i \in alive : HasPathSuffix(i.project, path)}
  IN  IF exact # {} THEN exact
      ELSE IF containing # {} THEN MostSpecific(containing)
      ELSE IF Cardinality(suffix) = 1 THEN suffix ELSE {}

\* The innermost project around the working directory, else the newest editor.
FindByCwd(alive, cwd) ==
  LET around == {i \in alive : IsSameOrChild(cwd, i.project)}
  IN  IF around # {} THEN MostSpecific(around) ELSE alive

\* want is [by |-> "port", port |-> _], [by |-> "project", path |-> _] or
\* [by |-> "cwd", path |-> _].
Discover(instances, want) ==
  LET alive == {i \in instances : IsActive(i)}
  IN  CASE want.by = "port"    -> FindActiveByPort(instances, want.port)
        [] want.by = "project" -> FindByProject(alive, want.path)
        [] want.by = "cwd"     -> FindByCwd(alive, want.path)
================================================================================
