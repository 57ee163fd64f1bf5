------------------------------ MODULE Operations ------------------------------
(* Waited editor operations: refresh, reserialize, compile, play, stop and    *)
(* wait-ready, from the client's call to its verdict.  adapter.py and         *)
(* client.py are the clients; EditorOperations.cs, Heartbeat.cs and the       *)
(* command handlers are the editor.  A reply with a receipt is confirmed by   *)
(* asking the live editor about that receipt; a reply without one, or a lost  *)
(* reply, is confirmed from the editor's instance file.  Unity itself is      *)
(* external: it compiles, reloads the domain, changes play mode, quits and    *)
(* crashes.  A second editor, of a project around this one, may be open.      *)
(*                                                                            *)
(* owes[c] is what Unity still has to do for the command of client c; ran and *)
(* unmarked are history, which no step reads but to name a file's age.        *)
EXTENDS Discovery, Naturals

CONSTANTS Clients, Wants, None,
          Setups,               \* situations: [kind, capacity, outer, carries, lossy]
          Inner, Outer,         \* the project's path, and one around it
          Port, OuterPort,
          MaxPid                \* bound: editor processes

ASSUME OperationsAssumption ==
  /\ IsFiniteSet(Clients)
  /\ \A s \in Setups :
       /\ s.kind \in [Clients -> {"refresh", "compile", "reserialize", "play", "stop", "ready"}]
       /\ s.capacity \in Nat \ {0} /\ {s.outer, s.carries, s.lossy} \subseteq BOOLEAN
  /\ Inner # Outer /\ IsSameOrChild(Inner, Outer) /\ Port # OuterPort
  /\ \A want \in Wants : want.by \in {"port", "project", "cwd"}
  /\ MaxPid \in Nat \ {0}
  /\ None \notin {"id", "noid", "error", "unknown", "confirmed", "failed"}

VARIABLES client,     \* what each client knows and where it is
          flight,     \* clients whose command may still be executed
          editor,     \* the Unity process: pid, alive, up, mode, carried, forced
          receipts,   \* EditorOperations.Receipts
          file,       \* the editor's instance file, or None
          setup,      \* what the clients ask for, how many receipts are kept (64
                      \* in the code), whether the outer editor is open, whether
                      \* Unity may keep a compile request over a reload, whether
                      \* heartbeat writes may fail; constant
          owes, ran,
          unmarked    \* clients whose command's busy mark could not be written

clientVars == <<client, flight>>
unityVars  == <<editor, receipts, file, owes>>
vars == <<clientVars, unityVars, setup, ran, unmarked>>

Kind(c) == setup.kind[c]
Carries == setup.carries
ImportKinds == {"refresh", "compile", "reserialize"}
Flags  == {"finished", "explicit", "compiling", "compiled", "failed", "reload", "code",
           "event", "completed", "cancelled", "moved"}
States == {"ready", "refreshing", "compiling", "reloading", "entering_playmode",
           "exiting_playmode", "playing", "stopped"}
Owed   == {"nothing", "asked", "compile", "reload", "event", "cancelled", "lost"}

\* at: how many commands had run before it was handed out.
Receipt == [at : Nat, id : Clients, kind : {"refresh", "reserialize", "play", "stop"},
            flags : SUBSET Flags]
File    == [project : {Inner}, port : {Port}, pid : 1..MaxPid, state : States,
            newer : SUBSET Clients, after : SUBSET Clients]

TypeOK ==
  /\ client \in [Clients -> [target : 0..MaxPid, seen : 0..1,
                   pc : {"start", "send", "wait", "receipt", "beat", "live", "unlink", "done"},
                   back : {None, "start", "receipt", "beat", "live"},
                   reply : {None, "id", "noid", "error", "unknown"},
                   result : {None, "confirmed", "failed"},
                   from : {None, Inner, Outer}]]
  /\ flight \subseteq Clients
  /\ editor \in [pid : 1..MaxPid, alive : BOOLEAN, up : BOOLEAN, carried : BOOLEAN,
                 mode : {"edit", "entering", "arriving", "playing", "exiting"},
                 forced : States \cup {None}]
  /\ receipts \subseteq Receipt /\ Cardinality(receipts) <= setup.capacity
  /\ file \in File \cup {None} /\ setup \in Setups
  /\ owes \in [Clients -> Owed] /\ ran \in [Clients -> BOOLEAN]
  /\ unmarked \subseteq Clients

--------------------------------------------------------------------------------
(* Receipts.  The list is a set; `at` keeps its order.                         *)

Has(r, flag) == flag \in r.flags
Pending(rs)  == {r \in rs : ~Has(r, "completed")}
Active(rs)   == {r \in Pending(rs) : r.kind \in {"refresh", "reserialize"}}
Oldest(rs)   == CHOOSE r \in rs : \A q \in rs : r.at <= q.at

\* The chosen receipts gain the flags `on` and lose `off`.
Mark(rs, chosen, on, off) ==
  {IF r \in chosen THEN [r EXCEPT !.flags = (@ \ off) \cup on] ELSE r : r \in rs}

CanBegin == Cardinality(receipts) < setup.capacity \/ Pending(receipts) # receipts

NewReceipt(c, kind, flags) ==
  [at |-> Cardinality({d \in Clients : ran[d]}), id |-> c, kind |-> kind, flags |-> flags]

Begin_unbounded(c, kind, flags) == receipts \cup {NewReceipt(c, kind, flags)}

\* The oldest completed receipt makes room for the new one.
Begin(c, kind, flags) ==
  LET kept == IF Cardinality(receipts) < setup.capacity THEN receipts
              ELSE receipts \ {Oldest(receipts \ Pending(receipts))}
  IN  kept \cup {NewReceipt(c, kind, flags)}

Abandon(rs, c) == {r \in rs : r.id = c => Has(r, "completed")}

\* A code import nobody tracks may reload the domain without a callback: a
\* receipt already handed out is withdrawn rather than confirmed too early.
Untracked(r)  == ~Has(r, "compiling") /\ ~Has(r, "explicit")
Withdrawn(rs) == {r \in Active(rs) : Has(r, "finished") /\ Untracked(r)}
CodeImported(rs) == Mark(rs \ Withdrawn(rs), Active(rs), {"code"}, {})

FinishSynchronous(rs, c) ==
  LET own == {r \in rs : r.id = c}
  IN  IF \E r \in own : Has(r, "code") /\ Untracked(r)
      THEN Abandon(rs, c)
      ELSE Mark(rs, own, {"finished"}, {})

CompilationStarted(rs) == Mark(rs, Active(rs), {"compiling"}, {"compiled", "failed", "reload"})

CompilationFinished(rs, how) ==
  Mark(rs, {r \in Active(rs) : Has(r, "compiling")},
       CASE how = "built"  -> {"compiled", "reload"}
         [] how = "failed" -> {"compiled", "failed"}
         [] how = "empty"  -> {"compiled"}, {})

\* A finished reload is the evidence for an import of an earlier domain.
AfterAssemblyReload(rs) ==
  LET served == Mark(rs, Active(rs), {"finished", "compiled"}, {})
  IN  Mark(served, served, {"moved"}, {})

PlayModeStateChanged_same(rs, entered) ==
  Mark(rs, {r \in rs : (r.kind = "play") = (entered = "playing")}, {"event"}, {})

PlayModeStateChanged(rs, entered) ==
  LET open    == Pending(rs) \ Active(rs)
      reached == {r \in open : (r.kind = "play") = (entered = "playing")}
  IN  Mark(Mark(rs, open \ reached, {"completed", "cancelled"}, {}), reached, {"event"}, {})

Complete_early(r) ==
  /\ ~Has(r, "completed")
  /\ IF r.kind \in {"play", "stop"} THEN Has(r, "event")
     ELSE /\ Has(r, "finished")
          /\ Has(r, "explicit") \/ Has(r, "compiling") => Has(r, "compiled")

Complete(r) ==
  /\ ~Has(r, "completed")
  /\ IF r.kind \in {"play", "stop"} THEN Has(r, "event")
     ELSE /\ Has(r, "finished")
          /\ Has(r, "explicit")  => Has(r, "compiled")
          /\ Has(r, "compiling") => Has(r, "compiled")
          /\ Has(r, "reload")    => Has(r, "moved")

\* What the editor says of the receipt of client c.
Snapshot(c) ==
  LET own == {r \in receipts : r.id = c}
  IN  IF own = {} THEN "unknown"
      ELSE LET r == CHOOSE r \in own : TRUE
           IN  IF Has(r, "cancelled") THEN "cancelled"
               ELSE IF Has(r, "completed") THEN "completed" ELSE "pending"

--------------------------------------------------------------------------------
(* The editor's state and its instance file.                                  *)

Settle(from, to) == [c \in Clients |-> IF owes[c] = from THEN to ELSE owes[c]]
Owing(what)  == {c \in Clients : owes[c] = what}
IsCompiling(e, o) ==
  (\E c \in Clients : o[c] = "compile") \/ (e.carried /\ \E c \in Clients : o[c] = "asked")

\* The first unfinished receipt keeps the editor visibly busy.
PendingState(rs) ==
  IF Pending(rs) = {} THEN None
  ELSE LET r == Oldest(Pending(rs))
       IN  CASE r.kind = "play" -> "entering_playmode"
             [] r.kind = "stop" -> "exiting_playmode"
             [] OTHER -> IF Has(r, "explicit") \/ Has(r, "compiling") THEN "compiling" ELSE "refreshing"

GetState(e, rs, o) ==
  IF e.forced # None THEN e.forced
  ELSE IF IsCompiling(e, o) THEN "compiling"
  ELSE IF PendingState(rs) # None THEN PendingState(rs)
  ELSE IF e.mode \in {"playing", "exiting"} THEN "playing" ELSE "ready"

Newer == {c \in Clients : client[c].pc \notin {"start", "done"}}

\* Heartbeat.Write: newer are the clients whose baseline is an older file,
\* after those whose command had run (a ghost).
FileOf(e, state) ==
  [project |-> Inner, port |-> Port, pid |-> e.pid, state |-> state,
   newer |-> Newer, after |-> {c \in Newer : ran'[c]}]

Publish(e, rs, o, written) ==
  /\ editor' = e /\ receipts' = rs /\ owes' = o
  /\ file' = IF written THEN FileOf(e, GetState(e, rs, o)) ELSE file

\* A write that fails is swallowed: the former file stays.
Outcomes == {TRUE, ~setup.lossy}

Write(e, rs, o) == \E written \in Outcomes : Publish(e, rs, o, written)

NoteMark(c, written) == unmarked' = IF written THEN unmarked ELSE unmarked \cup {c}

MarkRequested_silent(c, forced, rs, o) ==
  \E written \in Outcomes :
    Publish([editor EXCEPT !.forced = forced], rs, o, FALSE) /\ NoteMark(c, written)

\* MarkRefreshRequested, MarkCompileRequested: the busy state is on disk before
\* the command is answered, if it can be written.
MarkRequested(c, forced, rs, o) ==
  \E written \in Outcomes :
    Publish([editor EXCEPT !.forced = forced], rs, o, written) /\ NoteMark(c, written)

OuterFile == [project |-> Outer, port |-> OuterPort, pid |-> MaxPid + 1, state |-> "ready"]
Instances == (IF file = None THEN {} ELSE {[project |-> file.project, port |-> file.port,
                                            pid |-> file.pid, state |-> file.state]})
             \cup (IF setup.outer THEN {OuterFile} ELSE {})

IsProcessDead(pid) == pid <= MaxPid /\ ~(editor.alive /\ editor.pid = pid)

--------------------------------------------------------------------------------
(* Clients.                                                                   *)

Goto(c, pc) == client' = [client EXCEPT ![c].pc = pc]

\* The caller gets an error: a failed reply or wait, or another project's editor.
Fail(c) ==
  client' = [client EXCEPT ![c].pc = "done", ![c].target = 0, ![c].seen = 0,
                           ![c].reply = None, ![c].result = "failed"]

Confirm(c, i) ==
  client' = [client EXCEPT ![c].pc = "done", ![c].target = 0, ![c].seen = 0,
                           ![c].result = "confirmed", ![c].from = i.project]

\* A scan that meets the file of a dead process removes it, in a second step:
\* by then another editor may have written its own under the same name.
ScanDead(c) ==
  /\ client[c].pc \in {"start", "receipt", "beat", "live"}
  /\ file # None /\ IsProcessDead(file.pid)
  /\ client' = [client EXCEPT ![c].pc = "unlink", ![c].back = client[c].pc]
  /\ UNCHANGED <<flight, unityVars, setup, ran, unmarked>>

Unlink(c) ==
  /\ client[c].pc = "unlink"
  /\ file' = None
  /\ client' = [client EXCEPT ![c].pc = client[c].back, ![c].back = None]
  /\ UNCHANGED <<flight, editor, receipts, owes, setup, ran, unmarked>>

\* The scan is over: every file left belongs to a living process.
Scanned == file # None => ~IsProcessDead(file.pid)

\* discover_instance chooses the target; its timestamp is the baseline.
Resolve(c) ==
  /\ client[c].pc = "start" /\ Scanned
  /\ \E want \in Wants : \E i \in Discover(Instances, want) :
       IF i.project = Inner
       THEN client' = [client EXCEPT ![c].pc = IF Kind(c) = "ready" THEN "live" ELSE "send",
                                     ![c].target = i.pid]
       ELSE Fail(c)
  /\ UNCHANGED <<flight, unityVars, setup, ran, unmarked>>

Unanswered(c) == client' = [client EXCEPT ![c].pc = "beat", ![c].reply = "unknown"]

\* _send_disruptive_command: a send that fails may still have been accepted,
\* so it counts as sent, with its completion unknown.
Send(c) ==
  /\ client[c].pc = "send"
  /\ \/ /\ editor.alive /\ editor.up
        /\ flight' = flight \cup {c}
        /\ Goto(c, "wait")
     \/ /\ UNCHANGED flight
        /\ Unanswered(c)
  /\ UNCHANGED <<unityVars, setup, ran, unmarked>>

\* The connection broke or the send timed out; the command may still run.
GiveUp(c) ==
  /\ client[c].pc = "wait"
  /\ Unanswered(c)
  /\ UNCHANGED <<flight, unityVars, setup, ran, unmarked>>

\* The choice of _wait_after_operation: by receipt when there is one.
Receive(c) ==
  /\ client[c].pc = "wait" /\ client[c].reply # None
  /\ CASE client[c].reply = "error" -> Fail(c)
       [] client[c].reply = "id"    -> Goto(c, "receipt")
       [] client[c].reply = "noid"  -> Goto(c, "beat")
  /\ UNCHANGED <<flight, unityVars, setup, ran, unmarked>>

Wanted(c) == IF Kind(c) = "play" THEN "playing" ELSE "ready"

\* _resolve_same_project: the baseline's path, looked up again on every poll.
SameProject == Discover(Instances, [by |-> "project", path |-> Inner])

Answers(i) == editor.alive /\ editor.up /\ i.pid = editor.pid

\* completed_operation: only this process can speak of the receipt, and only a
\* completed one counts; every other live answer is read again.
PollReceipt(c) ==
  /\ client[c].pc = "receipt" /\ Scanned
  /\ \E i \in SameProject :
       IF i.pid # client[c].target
       THEN Fail(c)
       ELSE /\ Answers(i)
            /\ \/ /\ Snapshot(c) \in {"unknown", "cancelled"}
                  /\ Fail(c)
               \/ /\ Snapshot(c) = "completed"
                  /\ GetState(editor, receipts, owes) = Wanted(c)
                  /\ Confirm(c, i)
  /\ UNCHANGED <<flight, unityVars, setup, ran, unmarked>>

Fresh(c, i) == i.project = Outer \/ c \in file.newer

\* wait_for_state: a newer file in the wanted state, for ready twice in a row
\* (stable_sec).  The outer editor's file is rewritten all the time.
PollHeartbeat(c) ==
  /\ client[c].pc = "beat" /\ Scanned
  /\ IF \E i \in SameProject : Fresh(c, i) /\ i.state = Wanted(c)
     THEN LET i == CHOOSE i \in SameProject : TRUE
          IN  IF client[c].seen = 0 /\ Wanted(c) = "ready"
              THEN client' = [client EXCEPT ![c].seen = 1]
              ELSE Confirm(c, i)
     ELSE client' = [client EXCEPT ![c].seen = 0]
  /\ UNCHANGED <<flight, unityVars, setup, ran, unmarked>>

\* resolve_live_instance: the live state, from the process the file names.
PollLive(c) ==
  /\ client[c].pc = "live" /\ Scanned
  /\ \E i \in SameProject :
       IF i.project # Inner
       THEN Fail(c)
       ELSE /\ Answers(i) /\ GetState(editor, receipts, owes) = "ready"
            /\ Confirm(c, i)
  /\ UNCHANGED <<flight, unityVars, setup, ran, unmarked>>

Timeout(c) ==
  /\ client[c].pc \in {"receipt", "beat", "live"}
  /\ Fail(c)
  /\ UNCHANGED <<flight, unityVars, setup, ran, unmarked>>

--------------------------------------------------------------------------------
(* The editor executes a command.                                             *)

Answer(c, reply) ==
  /\ flight' = flight \ {c}
  /\ client' = IF client[c].pc = "wait" /\ client[c].reply = None
               THEN [client EXCEPT ![c].reply = reply] ELSE client
  /\ UNCHANGED setup

Refuse(c) == Answer(c, "error") /\ UNCHANGED <<unityVars, ran, unmarked>>

\* Unity reloads for a finished compilation before it begins another one.
CanCompile == Owing("compile") \cup Owing("reload") = {}

CanExecute(c) == c \in flight /\ editor.alive /\ editor.up

\* What the synchronous import finds: only data; code Unity will compile later;
\* code it compiles at once; a library that reloads the domain; a failure.
Imported(c, found, rs) ==
  CASE found = "data" -> rs
    [] found \in {"code", "library", "failure"} -> CodeImported(rs)
    [] found = "now"  -> CompilationStarted(CodeImported(rs))

\* refresh knows from the paths it is given whether scripts are among them.
BusyMarks(c) ==
  CASE Kind(c) = "compile"     -> {"compiling"}
    [] Kind(c) = "reserialize" -> {"refreshing"}
    [] OTHER                   -> {"compiling", "refreshing"}

\* A refresh that comes with --force is not refused in play mode.
Import(c, found, forced) ==
  LET explicit == Kind(c) = "compile"
      kind     == IF explicit THEN "refresh" ELSE Kind(c)
      begun    == Begin(c, kind, IF explicit THEN {"explicit"} ELSE {})
      done     == FinishSynchronous(Imported(c, found, begun), c)
      kept     == \E r \in done : r.id = c
      owed     == CASE found = "now"     -> "compile"
                    [] found = "library" -> IF explicit THEN "asked" ELSE "reload"
                    [] found = "code"    -> "asked"
                    [] found = "data"    -> IF explicit THEN "asked" ELSE "nothing"
  IN  /\ CanExecute(c) /\ Kind(c) \in ImportKinds
      /\ CanBegin /\ forced \in BusyMarks(c)
      /\ found = "now" => CanCompile
      /\ ran' = [ran EXCEPT ![c] = TRUE]
      /\ IF found = "failure"
         THEN /\ Answer(c, "error")
              /\ MarkRequested(c, forced, Abandon(Imported(c, found, begun), c), owes)
         ELSE /\ Answer(c, IF kept THEN "id" ELSE "noid")
              /\ MarkRequested(c, forced, done,
                       [(IF found = "now" THEN Settle("asked", "compile") ELSE owes) EXCEPT ![c] = owed])

RefuseImport(c) ==
  /\ CanExecute(c) /\ Kind(c) \in ImportKinds
  /\ ~CanBegin \/ (Kind(c) # "reserialize" /\ editor.mode \notin {"edit", "exiting"})
  /\ Refuse(c)

IsPlaying == editor.mode \in {"playing", "exiting"}

ChangePlayMode(c) ==
  LET play == Kind(c) = "play"
  IN  /\ CanExecute(c) /\ Kind(c) \in {"play", "stop"}
      /\ play # IsPlaying /\ CanBegin
      /\ ran' = [ran EXCEPT ![c] = TRUE] /\ UNCHANGED unmarked
      /\ Answer(c, "id")
      /\ Write([editor EXCEPT !.mode = IF play THEN "entering" ELSE "exiting",
                  !.forced = IF play THEN "entering_playmode" ELSE "exiting_playmode"],
               Begin(c, Kind(c), {}), [owes EXCEPT ![c] = "event"])

\* "Already in play mode", "Already stopped": success, and no receipt.
AlreadyThere(c) ==
  /\ CanExecute(c) /\ Kind(c) \in {"play", "stop"}
  /\ (Kind(c) = "play") = IsPlaying
  /\ ran' = [ran EXCEPT ![c] = TRUE] /\ UNCHANGED unmarked
  /\ Answer(c, "noid")
  /\ UNCHANGED unityVars

RefusePlayMode(c) ==
  /\ CanExecute(c) /\ Kind(c) \in {"play", "stop"}
  /\ (Kind(c) = "play") # IsPlaying /\ ~CanBegin
  /\ Refuse(c)

--------------------------------------------------------------------------------
(* The editor between commands.                                               *)

Running == editor.alive /\ editor.up
EditorStep == UNCHANGED <<clientVars, setup, ran, unmarked>>

\* EditorOperations.Tick
OperationsTick ==
  LET after == Mark(receipts, {r \in receipts : Complete(r)}, {"completed"}, {})
  IN  /\ EditorStep
      /\ Running /\ ~IsCompiling(editor, owes)
      /\ after # receipts
      /\ IF Pending(after) = {}
         THEN Write([editor EXCEPT !.forced = None], after, owes)
         ELSE receipts' = after /\ UNCHANGED <<editor, file, owes>>

HeartbeatTick_quiet(written) ==
  /\ EditorStep
  /\ Running /\ file # None
  /\ \E forced \in {editor.forced, None} :
       Publish([editor EXCEPT !.forced = forced], receipts, owes, written)

\* Heartbeat.Tick: the grace period of a forced state may be over or not.
HeartbeatTick(written) ==
  /\ EditorStep
  /\ Running
  /\ \E forced \in {editor.forced, None} :
       Publish([editor EXCEPT !.forced = forced], receipts, owes, written)

CompileStart ==
  /\ Running /\ Owing("asked") # {} /\ CanCompile
  /\ receipts' = CompilationStarted(receipts)
  /\ owes' = Settle("asked", "compile")
  /\ editor' = [editor EXCEPT !.carried = FALSE]
  /\ UNCHANGED file /\ EditorStep

CompileEnd(how) ==
  /\ Running /\ Owing("compile") # {}
  /\ receipts' = CompilationFinished(receipts, how)
  /\ owes' = Settle("compile", IF how = "built" THEN "reload" ELSE "nothing")
  /\ UNCHANGED <<editor, file>> /\ EditorStep

\* A request with nothing to compile may reload the domain without a callback.
NoChange ==
  /\ Running /\ Owing("asked") # {} /\ Owing("compile") = {} /\ ~editor.carried
  /\ owes' = Settle("asked", "reload")
  /\ UNCHANGED <<editor, receipts, file>> /\ EditorStep

ReloadStart ==
  /\ Running /\ Owing("compile") = {}
  /\ Owing("reload") # {} \/ (editor.mode = "entering" /\ Owing("asked") = {})
  /\ flight' = {}
  /\ UNCHANGED <<client, setup, ran, unmarked>>
  /\ Write([editor EXCEPT !.up = FALSE, !.forced = "reloading"], receipts, owes)

\* Requests the reload did not serve are compiled for in the new domain.
ReloadEnd ==
  /\ EditorStep
  /\ editor.alive /\ ~editor.up
  /\ \E carried \in {FALSE, Carries} :
       Write([editor EXCEPT !.up = TRUE, !.forced = None, !.carried = carried,
                !.mode = IF @ = "entering" THEN "arriving" ELSE @],
             AfterAssemblyReload(receipts),
             [c \in Clients |-> IF owes[c] = "reload" \/ (owes[c] = "asked" /\ ~carried)
                                THEN "nothing" ELSE owes[c]])

\* playModeStateChanged: the transition ends where it was going, or back.
PlayModeEvent(entered) ==
  LET reached(c) == owes[c] = "event" /\ (Kind(c) = "play") = (entered = "playing")
  IN  /\ EditorStep
      /\ Running /\ editor.mode \in {"entering", "arriving", "exiting"}
      /\ Owing("asked") \cup Owing("compile") \cup Owing("reload") = {}
      /\ Write([editor EXCEPT !.mode = entered, !.forced = None],
               PlayModeStateChanged(receipts, entered),
               [c \in Clients |-> IF owes[c] # "event" THEN owes[c]
                                  ELSE IF reached(c) THEN "nothing" ELSE "cancelled"])

\* An import of the editor's own, after a command returned: it may schedule a
\* reload that the command's receipt has no callback for.
LateImport ==
  /\ Running
  /\ \E r \in Withdrawn(receipts) : ~Has(r, "code")
  /\ receipts' = CodeImported(receipts)
  /\ owes' = [c \in Clients |-> IF \E r \in Withdrawn(receipts) : r.id = c
                                THEN "reload" ELSE owes[c]]
  /\ UNCHANGED <<editor, file>> /\ EditorStep

\* The process is gone with its receipts; a clean exit first says "stopped".
Exit(cleanly) ==
  /\ UNCHANGED <<client, setup, ran, unmarked>>
  /\ editor.alive
  /\ editor' = [editor EXCEPT !.alive = FALSE, !.up = FALSE, !.forced = None,
                  !.carried = FALSE, !.mode = "edit"]
  /\ file' = IF cleanly THEN FileOf(editor, "stopped") ELSE file
  /\ receipts' = {} /\ flight' = {}
  /\ owes' = [c \in Clients |-> IF owes[c] = "nothing" THEN "nothing" ELSE "lost"]

Launch ==
  /\ EditorStep
  /\ ~editor.alive /\ editor.pid < MaxPid
  /\ Write([editor EXCEPT !.pid = @ + 1, !.alive = TRUE, !.up = TRUE], receipts, owes)

Init ==
  /\ setup \in Setups
  /\ client = [c \in Clients |-> [target |-> 0, seen |-> 0, pc |-> "start", back |-> None,
                                  reply |-> None, result |-> None, from |-> None]]
  /\ flight = {} /\ receipts = {}
  /\ editor = [pid |-> 1, alive |-> TRUE, up |-> TRUE, carried |-> FALSE, mode |-> "edit", forced |-> None]
  /\ file = [project |-> Inner, port |-> Port, pid |-> 1, state |-> "ready", newer |-> {}, after |-> {}]
  /\ owes = [c \in Clients |-> "nothing"] /\ ran = [c \in Clients |-> FALSE] /\ unmarked = {}

ClientStep(c) ==
  \/ ScanDead(c) \/ Unlink(c) \/ Resolve(c) \/ Send(c) \/ GiveUp(c) \/ Receive(c)
  \/ PollReceipt(c) \/ PollHeartbeat(c) \/ PollLive(c) \/ Timeout(c)

Execute(c) ==
  \/ \E found \in {"data", "code", "now", "library", "failure"}, forced \in BusyMarks(c) :
       Import(c, found, forced)
  \/ RefuseImport(c) \/ ChangePlayMode(c) \/ AlreadyThere(c) \/ RefusePlayMode(c)

Unity ==
  \/ CompileStart \/ NoChange \/ (\E how \in {"built", "failed", "empty"} : CompileEnd(how))
  \/ ReloadStart \/ ReloadEnd \/ (\E entered \in {"playing", "edit"} : PlayModeEvent(entered))

Next ==
  \/ \E c \in Clients : ClientStep(c) \/ Execute(c)
  \/ OperationsTick \/ (\E written \in Outcomes : HeartbeatTick(written)) \/ Unity \/ LateImport
  \/ (\E cleanly \in BOOLEAN : Exit(cleanly)) \/ Launch

Spec == Init /\ [][Next]_vars

\* The editor's update loop runs, its file is not out of reach for ever, and
\* Unity ends what it began; a client that is about to remove a file does so.
FairSpec ==
  /\ Spec
  /\ WF_vars(OperationsTick) /\ WF_vars(HeartbeatTick(TRUE)) /\ WF_vars(Unity)
  /\ \A c \in Clients : WF_vars(Unlink(c))

--------------------------------------------------------------------------------
(* Properties.                                                                *)

\* An explicit compilation is told that it is done by any domain reload
\* (EditorOperations.AfterAssemblyReload), also by one its request outlives.
Trusted(c) == Kind(c) = "compile" => ~Carries

\* A command that was confirmed by its receipt has run, and Unity owes it no
\* compilation, no domain reload and no play-mode event (docs/COMMANDS.md:38-45,
\* docs/DEVELOPMENT.md:61-65); compile only where a reload serves its request.
ConfirmedMeansDone ==
  \A c \in Clients :
    Trusted(c) /\ client[c].result = "confirmed" /\ client[c].reply = "id" =>
      ran[c] /\ owes[c] = "nothing"

\* The instance file confirms an import that came back without a receipt.
ImportConfirmed(c) ==
  /\ client[c].pc = "beat" /\ client[c].reply = "noid" /\ Kind(c) \in ImportKinds
  /\ client'[c].result = "confirmed" /\ client'[c].from = Inner

\* A refresh, compile or reserialize that came back without a receipt, and whose
\* busy mark could be written, is not confirmed by a ready file older than that
\* mark, whichever other writes fail and whoever removes or replaces the file.
ReadyAfterCommand ==
  [][\A c \in Clients : ImportConfirmed(c) /\ c \notin unmarked => c \in file.after]_vars

\* Unfinished receipts keep the editor busy for every client: they are not
\* stuck for ever, whatever compiles, reloads, cancels or imports in between.
PendingDrains == []<>(Pending(receipts) = {})

\* A living editor can always be found again: a file that a client removed
\* after it had been replaced is written anew.
EditorFound == []<>(editor.alive => file # None /\ file.pid = editor.pid)

\* docs/COMMANDS.md:274-275: "The wait follows the same Unity project even if
\* the connector restarts on a different port during a domain reload."
FollowsSameProject == \A c \in Clients : client[c].result = "confirmed" => client[c].from = Inner
================================================================================
