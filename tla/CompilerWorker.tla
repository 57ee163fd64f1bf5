---------------------------- MODULE CompilerWorker ----------------------------
(***************************************************************************)
(* CompilerWorker (src/unity_bridge/host/compiler.py): the host's client   *)
(* of the Roslyn process. Requests share one process over its pipes, one   *)
(* at a time; background work never queues ahead of foreground work; a     *)
(* watchdog kills the process of a request that takes too long; after any  *)
(* doubt the process is stopped and the next request starts another.       *)
(*                                                                         *)
(* A request is one call of request(); its name stands for its request id. *)
(* Whether time is over is left open: GiveUp, Defer, StartFail, GetTimeout *)
(* and FireBegin may happen whenever the code could find its time is over. *)
(***************************************************************************)
EXTENDS Naturals, Sequences, FiniteSets

CONSTANTS Requests,    \* calls of request()
          Foreground,  \* those made for an execution; the others prepare
          None         \* absent value

ASSUME CompilerAssumption ==
    /\ IsFiniteSet(Requests)
    /\ Foreground \subseteq Requests
    /\ {None, "exited", "failed"} \cap Requests = {}
    /\ None \notin Nat \cup {"exited", "failed"}

VARIABLES
    lock,     \* the request that holds self.lock
    waiters,  \* self.foreground_waiters
    req,      \* req[r]: the call r
    dog,      \* dog[r]: the watchdog timer of r
    proc,     \* self.process: number of the current process, or None
    procs     \* every process started: liveness, pipe, and its response queue

vars == <<lock, waiters, req, dog, proc, procs>>

Pcs == {"idle", "waiting", "owned", "start", "write", "receive", "cancel", "join",
        "judge", "release", "done"}
Replies == Requests \cup {"exited"}

TypeOK ==
    /\ lock \in Requests \cup {None}
    /\ waiters \in Nat
    /\ req \in [Requests -> [pc : Pcs, got : Replies \cup {"failed", None},
                             child : 1..Len(procs) \cup {None}, late : BOOLEAN,
                             result : {"ok", "error", None}]]
    /\ dog \in [Requests -> {"off", "armed", "firing"}]
    /\ proc \in 1..Len(procs) \cup {None}
    /\ procs \in Seq([alive : BOOLEAN, ended : BOOLEAN, input : Requests \cup {None},
                      out : Seq(Replies)])

NewProcess == [alive |-> TRUE, ended |-> FALSE, input |-> None, out |-> <<>>]

Init ==
    /\ lock = None
    /\ waiters = 0
    /\ req = [r \in Requests |-> [pc |-> "idle", got |-> None, child |-> None,
                                 late |-> FALSE, result |-> None]]
    /\ dog = [r \in Requests |-> "off"]
    /\ \/ proc = None /\ procs = <<>>
       \/ proc = 1 /\ procs = <<NewProcess>>  \* start() ran before the service

At(r, p) == req[r].pc = p
Goto(r, p) == req' = [req EXCEPT ![r].pc = p]
End(r, result, p) == req' = [req EXCEPT ![r].pc = p, ![r].result = result]

\* _stop: the current process, if there is one, is killed and forgotten.
Stop ==
    /\ proc' = None
    /\ procs' = IF proc = None THEN procs ELSE [procs EXCEPT ![proc].alive = FALSE]

-----------------------------------------------------------------------------
(* Getting the worker *)

Enter(r) ==
    /\ At(r, "idle")
    /\ r \in Foreground
    /\ waiters' = waiters + 1
    /\ Goto(r, "waiting")
    /\ UNCHANGED <<lock, dog, proc, procs>>

Acquire(r) ==
    /\ At(r, "waiting")
    /\ lock = None
    /\ lock' = r
    /\ Goto(r, "owned")
    /\ UNCHANGED <<waiters, dog, proc, procs>>

Leave(r) ==
    /\ At(r, "owned")
    /\ waiters' = waiters - 1
    /\ Goto(r, "start")
    /\ UNCHANGED <<lock, dog, proc, procs>>

GiveUp_twice(r) ==
    /\ At(r, "waiting")
    /\ waiters' = waiters - 2
    /\ End(r, "error", "done")
    /\ UNCHANGED <<lock, dog, proc, procs>>

GiveUp(r) ==
    /\ At(r, "waiting")
    /\ waiters' = waiters - 1
    /\ End(r, "error", "done")
    /\ UNCHANGED <<lock, dog, proc, procs>>

TakeIdle_anyway(r) == At(r, "idle") /\ r \notin Foreground /\ lock = None /\ lock' = r
                      /\ Goto(r, "start") /\ UNCHANGED <<waiters, dog, proc, procs>>

\* Background work only takes a free worker nobody waits for, under priority_lock.
TakeIdle(r) ==
    /\ At(r, "idle")
    /\ r \notin Foreground
    /\ waiters = 0
    /\ lock = None
    /\ lock' = r
    /\ Goto(r, "start")
    /\ UNCHANGED <<waiters, dog, proc, procs>>

Defer(r) ==
    /\ At(r, "idle")
    /\ r \notin Foreground
    /\ End(r, "error", "done")
    /\ UNCHANGED <<lock, waiters, dog, proc, procs>>

-----------------------------------------------------------------------------
(* One exchange with the process *)

Alive == proc # None /\ procs[proc].alive

\* _start keeps a living process; otherwise a new one with a queue of its own.
Start(r) ==
    /\ At(r, "start")
    /\ IF Alive THEN UNCHANGED <<proc, procs>>
       ELSE /\ proc' = Len(procs) + 1
            /\ procs' = Append(procs, NewProcess)
    /\ \/ /\ dog' = [dog EXCEPT ![r] = "armed"]
          /\ req' = [req EXCEPT ![r].pc = "write", ![r].child = proc']
       \/ /\ End(r, "error", "release")  \* the input is too large
          /\ UNCHANGED dog
    /\ UNCHANGED <<lock, waiters>>

\* Too late, or the process cannot be started once the dead one is forgotten.
StartFail(r) ==
    /\ At(r, "start")
    /\ UNCHANGED proc \/ (~Alive /\ proc' = None)
    /\ End(r, "error", "release")
    /\ UNCHANGED <<lock, waiters, dog, procs>>

Write(r) ==
    /\ At(r, "write")
    /\ procs[req[r].child].alive
    /\ procs' = [procs EXCEPT ![req[r].child].input = r]
    /\ Goto(r, "receive")
    /\ UNCHANGED <<lock, waiters, dog, proc>>

Receive(r) ==
    /\ At(r, "receive")
    /\ procs[proc].out # <<>>
    /\ req' = [req EXCEPT ![r].pc = "cancel", ![r].got = Head(procs[proc].out)]
    /\ procs' = [procs EXCEPT ![proc].out = Tail(@)]
    /\ UNCHANGED <<lock, waiters, dog, proc>>

Failed(r) == req' = [req EXCEPT ![r].pc = "cancel", ![r].got = "failed"]

\* A broken pipe, also one that breaks under a blocked write.
WriteFail(r) ==
    /\ At(r, "write")
    /\ ~procs[req[r].child].alive
    /\ Stop
    /\ Failed(r)
    /\ UNCHANGED <<lock, waiters, dog>>

GetTimeout_keeps(r) == At(r, "receive") /\ procs[proc].out = <<>> /\ Failed(r)
                       /\ UNCHANGED <<lock, waiters, dog, proc, procs>>

GetTimeout(r) ==
    /\ At(r, "receive")
    /\ procs[proc].out = <<>>
    /\ Stop
    /\ Failed(r)
    /\ UNCHANGED <<lock, waiters, dog>>

Cancel(r) ==
    /\ At(r, "cancel")
    /\ dog' = [dog EXCEPT ![r] = IF @ = "armed" THEN "off" ELSE @]
    /\ Goto(r, "join")
    /\ UNCHANGED <<lock, waiters, proc, procs>>

Join_not(r) == At(r, "join") /\ Goto(r, "judge") /\ UNCHANGED <<lock, waiters, dog, proc, procs>>

\* A callback that has started is waited for before the worker is released.
Join(r) ==
    /\ At(r, "join")
    /\ dog[r] = "off"
    /\ Goto(r, "judge")
    /\ UNCHANGED <<lock, waiters, dog, proc, procs>>

Judge(r) ==
    /\ At(r, "judge")
    /\ \/ /\ req[r].late \/ req[r].got # r
          /\ IF req[r].got = "failed" THEN UNCHANGED <<proc, procs>> ELSE Stop
          /\ End(r, "error", "release")
       \/ /\ ~req[r].late /\ req[r].got = r
          /\ \E result \in {"ok", "error"} : End(r, result, "release")
          /\ UNCHANGED <<proc, procs>>
    /\ UNCHANGED <<lock, waiters, dog>>

Release(r) ==
    /\ At(r, "release")
    /\ lock' = None
    /\ Goto(r, "done")
    /\ UNCHANGED <<waiters, dog, proc, procs>>

Close ==
    /\ lock = None
    /\ proc # None
    /\ Stop
    /\ UNCHANGED <<lock, waiters, req, dog>>

-----------------------------------------------------------------------------
(* The watchdog of a request, and the process with its output reader *)

FireBegin_reading(r) ==
    /\ dog[r] = "armed"
    /\ At(r, "receive")
    /\ dog' = [dog EXCEPT ![r] = "firing"]
    /\ req' = [req EXCEPT ![r].late = TRUE]
    /\ UNCHANGED <<lock, waiters, proc, procs>>

FireBegin(r) ==
    /\ dog[r] = "armed"
    /\ dog' = [dog EXCEPT ![r] = "firing"]
    /\ req' = [req EXCEPT ![r].late = TRUE]
    /\ UNCHANGED <<lock, waiters, proc, procs>>

\* It kills the process that its request captured.
FireKill(r) ==
    /\ dog[r] = "firing"
    /\ dog' = [dog EXCEPT ![r] = "off"]
    /\ procs' = [procs EXCEPT ![req[r].child].alive = FALSE]
    /\ UNCHANGED <<lock, waiters, req, proc>>

Compile(p) ==
    /\ procs[p].alive
    /\ procs[p].input # None
    /\ procs' = [procs EXCEPT ![p].input = None,
                              ![p].out = IF procs[p].ended THEN @ ELSE Append(@, procs[p].input)]
    /\ UNCHANGED <<lock, waiters, req, dog, proc>>

Crash(p) ==
    /\ procs[p].alive
    /\ procs' = [procs EXCEPT ![p].alive = FALSE]
    /\ UNCHANGED <<lock, waiters, req, dog, proc>>

\* The output ends with the process, or the reader gives it up as malformed.
ReaderEnds(p) ==
    /\ ~procs[p].ended
    /\ procs' = [procs EXCEPT ![p].ended = TRUE, ![p].out = Append(@, "exited")]
    /\ UNCHANGED <<lock, waiters, req, dog, proc>>

-----------------------------------------------------------------------------

Request(r) == \/ Enter(r) \/ Acquire(r) \/ Leave(r) \/ GiveUp(r) \/ TakeIdle(r) \/ Defer(r)
              \/ Start(r) \/ StartFail(r) \/ Write(r) \/ WriteFail(r) \/ Receive(r)
              \/ GetTimeout(r) \/ Cancel(r) \/ Join(r) \/ Judge(r) \/ Release(r)

Watchdog(r) == FireBegin(r) \/ FireKill(r)

Process(p) == Compile(p) \/ Crash(p) \/ ReaderEnds(p)

Next == \/ \E r \in Requests : Request(r) \/ Watchdog(r)
        \/ \E p \in 1..Len(procs) : Process(p)
        \/ Close

Spec == Init /\ [][Next]_vars

\* What r does by itself. A write to a living process may block, and is not among it.
Running(r) == \/ Leave(r) \/ Start(r) \/ StartFail(r) \/ WriteFail(r) \/ Receive(r)
              \/ GetTimeout(r) \/ Cancel(r) \/ Join(r) \/ Judge(r) \/ Release(r)

-----------------------------------------------------------------------------
(* Properties *)

\* A watchdog, however late it fires, only lives while its own request has the
\* worker: it never kills the process of the next request.
WatchdogOwn == \A r \in Requests : dog[r] # "off" => lock = r

\* After timeouts, crashes and restarts a request never meets the answer to
\* another one: what it takes from the queue is its own answer or bad news.
AnswersMatch == \A r \in Requests : req[r].got \in Requests => req[r].got = r

\* Background work does not get ahead of a foreground request that waits already.
BackgroundYields ==
    [][\A b \in Requests \ Foreground : lock # b /\ lock' = b =>
          \A r \in Foreground : ~At(r, "waiting")]_vars

\* No hung compiler keeps the worker: whoever has it is on the way to giving it back, by
\* itself or by its watchdog, even when the process neither reads its input nor answers.
NeverStuck == \A r \in Requests : lock = r => ENABLED (Running(r) \/ Watchdog(r))
=============================================================================
