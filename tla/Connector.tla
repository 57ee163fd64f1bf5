------------------------------ MODULE Connector ------------------------------
(***************************************************************************)
(* The Connector's command server inside the editor                        *)
(* (src/unity-bridge-connector/Editor: HttpServer, CommandRouter,          *)
(* BridgeProtocol): a listener whose loop accepts requests on background   *)
(* threads, a queue and a drain latch towards the editor's main thread,    *)
(* the execution lock, and the gate every command passes.                  *)
(*                                                                         *)
(* The main thread runs one callback at a time; between two callbacks it   *)
(* is "idle". Background threads interleave with each of its steps. A      *)
(* listener is named by the number of its start, over all domains.         *)
(***************************************************************************)
EXTENDS Naturals, Sequences, FiniteSets, SequencesExt

CONSTANTS Requests,      \* HTTP requests that may arrive
          Kinds,         \* Kinds[r]: kinds of commands r may be
          MaxListeners,  \* bound on the starts of a listener
          MaxDomains,    \* bound on the domains of the editor
          MaxLoads,      \* bound on the assemblies loaded in one domain
          None           \* absent value

ASSUME ConnectorAssumption ==
    /\ IsFiniteSet(Requests)
    /\ Kinds \in [Requests -> SUBSET {"tool", "control", "exec"}]
    /\ {MaxListeners, MaxDomains} \subseteq Nat \ {0}
    /\ MaxLoads \in Nat
    /\ None \notin Requests \cup Nat \cup {"result", "not_started"}

VARIABLES
    conn,       \* conn[r]: what the thread that handles r does
    envelope,   \* envelope[r]: the request as parsed, with the listener it came through
    expired,    \* expired[r]: the deadline of r has passed
    answer,     \* answer[r]: the result set for the thread that handles r
    effect,     \* effect[r]: how often a tool or an assembly ran for r
    queue,      \* s_Queue
    posted,     \* s_QueueDrainPosted, and the callbacks posted to the main thread
    main,       \* the callback of the main thread: step, request, step after it
    lock,       \* holder of s_Lock, and those who wait for it
    dispatch,   \* dispatch[r]: where CommandRouter.Dispatch stands with r
    server,     \* s_Listener, s_Stopping, the retry time, cancelled tokens
    loop,       \* loop[n]: the ListenLoop of listener n
    failed,     \* s_FailedListeners
    editor      \* domain, reference generation

netVars == <<conn, envelope, expired>>
dispatchVars == <<answer, effect, lock, dispatch>>
serverVars == <<server, loop, failed>>
vars == <<conn, envelope, expired, answer, effect, queue, posted, main, lock,
          dispatch, server, loop, failed, editor>>

Listeners == 1..MaxListeners

ConnStates == {"new", "parsing", "posting", "awaiting", "answered", "lost"}
Steps == {"idle", "failures", "restart", "drain", "gate", "decode", "busy",
          "refuse", "unload", "reloaded"}
Dispatches == {"none", "waiting", "timedout", "granted", "entered", "async", "done"}
Loops == {"none", "accepting", "leaving", "reporting", "ended"}

\* Whoever has the token is the host, which always sets a deadline; a client without
\* it sends neither a deadline nor a domain.
Envelope == [kind : UNION {Kinds[r] : r \in Requests}, host : BOOLEAN, domain : Nat \cup {None},
             loads : Nat \cup {None}, listener : Listeners]

TypeOK ==
    /\ conn \in [Requests -> ConnStates]
    /\ envelope \in [Requests -> Envelope \cup {None}]
    /\ expired \in [Requests -> BOOLEAN]
    /\ answer \in [Requests -> {None, "result", "not_started"}]
    /\ effect \in [Requests -> 0..1]
    /\ queue \in Seq(Requests)
    /\ posted \in [latch : BOOLEAN, callbacks : 0..1]
    /\ main \in [step : Steps, item : Requests \cup {None}, next : Steps]
    /\ lock \in [holder : Requests \cup {None}, waiters : Seq(Requests)]
    /\ dispatch \in [Requests -> Dispatches]
    /\ server \in [current : Listeners \cup {None}, listening : SUBSET Listeners,
                   cancelled : SUBSET Listeners, started : 0..MaxListeners,
                   stopping : BOOLEAN, retry : BOOLEAN]
    /\ loop \in [Listeners -> Loops]
    /\ failed \in Seq(Listeners)
    /\ editor \in [domain : 1..MaxDomains, loads : 0..MaxLoads]

Idle == [step |-> "idle", item |-> None, next |-> "idle"]
MainAt(s) == main.step = s
Goto(s) == main' = [main EXCEPT !.step = s]
Continue == main' = [Idle EXCEPT !.step = main.next]

\* TryStartOnPort: a listener takes the place of the former one.
Started(n) == [server EXCEPT !.current = n, !.listening = @ \cup {n}, !.started = n,
                             !.stopping = FALSE, !.retry = FALSE]

Init ==
    /\ conn = [r \in Requests |-> "new"]
    /\ envelope = [r \in Requests |-> None]
    /\ expired = [r \in Requests |-> FALSE]
    /\ answer = [r \in Requests |-> None]
    /\ effect = [r \in Requests |-> 0]
    /\ queue = <<>>
    /\ posted = [latch |-> FALSE, callbacks |-> 0]
    /\ main = [Idle EXCEPT !.step = "reloaded"]
    /\ lock = [holder |-> None, waiters |-> <<>>]
    /\ dispatch = [r \in Requests |-> "none"]
    /\ server = [current |-> 1, listening |-> {1}, cancelled |-> {}, started |-> 1,
                 stopping |-> FALSE, retry |-> FALSE]
    /\ loop = [n \in Listeners |-> IF n = 1 THEN "accepting" ELSE "none"]
    /\ failed = <<>>
    /\ editor = [domain |-> 1, loads |-> 0]

-----------------------------------------------------------------------------
(* HandleRequest, on a background thread *)

\* get_editor_state and bridge_context are the controls. A request is only bound to a
\* domain and a reference generation that its sender can have seen.
Envelopes(r, n) ==
    LET seen == 1..editor.domain
        E(kinds, host, domains, loads) ==
            [kind : kinds \cap Kinds[r], host : {host}, domain : domains, loads : loads, listener : {n}]
    IN E({"tool", "control"}, FALSE, {None}, {None})
       \cup E({"control"}, TRUE, {None}, {None})
       \cup {e \in E({"tool", "exec"}, TRUE, seen, 0..MaxLoads) :
                e.domain = editor.domain => e.loads <= editor.loads}

Accept(r, n) ==
    /\ conn[r] = "new"
    /\ n \in server.listening
    /\ loop[n] = "accepting"
    /\ conn' = [conn EXCEPT ![r] = "parsing"]
    /\ \E e \in Envelopes(r, n) : envelope' = [envelope EXCEPT ![r] = e]
    /\ loop' = IF n \in server.cancelled THEN [loop EXCEPT ![n] = "leaving"] ELSE loop
    /\ UNCHANGED <<expired, dispatchVars, queue, posted, main, server, failed, editor>>

\* A request that is malformed, or internal without the token, is turned away here.
Refuse(r) ==
    /\ conn[r] = "parsing"
    /\ answer' = [answer EXCEPT ![r] = "not_started"]
    /\ conn' = [conn EXCEPT ![r] = "awaiting"]
    /\ UNCHANGED <<envelope, expired, effect, queue, posted, main, lock, dispatch,
                   serverVars, editor>>

Enqueue(r) ==
    /\ conn[r] = "parsing"
    /\ queue' = Append(queue, r)
    /\ conn' = [conn EXCEPT ![r] = "posting"]
    /\ UNCHANGED <<envelope, expired, dispatchVars, posted, main, serverVars, editor>>

\* ForceEditorUpdate: one drain is posted at a time.
ForceEditorUpdate(r) ==
    /\ conn[r] = "posting"
    /\ posted' = IF posted.latch THEN posted
                 ELSE [latch |-> TRUE, callbacks |-> posted.callbacks + 1]
    /\ conn' = [conn EXCEPT ![r] = "awaiting"]
    /\ UNCHANGED <<envelope, expired, dispatchVars, queue, main, serverVars, editor>>

\* The handler's locals go with it.
Forget(S) ==
    /\ envelope' = [r \in Requests |-> IF r \in S THEN None ELSE envelope[r]]
    /\ expired' = [r \in Requests |-> r \notin S /\ expired[r]]

\* The response reaches the client, or its connection is gone.
Respond(r) ==
    /\ conn[r] = "awaiting"
    /\ answer[r] # None
    /\ \E c \in {"answered", "lost"} : conn' = [conn EXCEPT ![r] = c]
    /\ Forget({r})
    /\ UNCHANGED <<dispatchVars, queue, posted, main, serverVars, editor>>

\* Nothing looks at the deadline of a request that has its answer.
DeadlinePasses(r) ==
    /\ conn[r] \in {"parsing", "posting", "awaiting"}
    /\ envelope[r].host /\ ~expired[r] /\ answer[r] = None
    /\ expired' = [expired EXCEPT ![r] = TRUE]
    /\ UNCHANGED <<conn, envelope, dispatchVars, queue, posted, main, serverVars, editor>>

-----------------------------------------------------------------------------
(* ListenLoop *)

\* Accepting fails, with the listener or without it; a closed one always fails.
LoopBreaks(n) ==
    /\ loop[n] = "accepting"
    /\ n \in server.listening => server.started < MaxListeners
    /\ loop' = [loop EXCEPT ![n] = "leaving"]
    /\ \E down \in BOOLEAN :
          server' = [server EXCEPT !.listening = IF down THEN @ \ {n} ELSE @]
    /\ UNCHANGED <<netVars, dispatchVars, queue, posted, main, failed, editor>>

\* The token is read first and the report made afterwards.
LoopChecks(n) ==
    /\ loop[n] = "leaving"
    /\ loop' = [loop EXCEPT ![n] = IF n \in server.cancelled THEN "ended" ELSE "reporting"]
    /\ UNCHANGED <<netVars, dispatchVars, queue, posted, main, server, failed, editor>>

LoopReports(n) ==
    /\ loop[n] = "reporting"
    /\ loop' = [loop EXCEPT ![n] = "ended"]
    /\ failed' = Append(failed, n)
    /\ UNCHANGED <<netVars, dispatchVars, queue, posted, main, server, editor>>

-----------------------------------------------------------------------------
(* The main thread: when a drain starts, and the listener's repair in it *)

\* The posted callback opens the latch before it looks at the queue.
Callback ==
    /\ MainAt("idle")
    /\ posted.callbacks > 0
    /\ posted' = [latch |-> FALSE, callbacks |-> posted.callbacks - 1]
    /\ Goto("failures")
    /\ UNCHANGED <<netVars, dispatchVars, queue, serverVars, editor>>

\* The editor's update, here only where ProcessQueue has something to do.
Update ==
    /\ MainAt("idle")
    /\ queue # <<>> \/ failed # <<>> \/ server.retry
    /\ Goto("failures")
    /\ UNCHANGED <<netVars, dispatchVars, queue, posted, serverVars, editor>>

\* StopListener cancels the token first, then refuses what is queued, then closes.
BeginStop(next) ==
    /\ server' = [server EXCEPT !.stopping = TRUE, !.retry = FALSE,
                                !.cancelled = @ \cup ({server.current} \ {None})]
    /\ main' = [step |-> "refuse", item |-> None, next |-> next]

TakeFailure_any ==
    /\ MainAt("failures")
    /\ failed # <<>>
    /\ failed' = Tail(failed)
    /\ IF ~server.stopping THEN BeginStop("failures") ELSE UNCHANGED <<main, server>>
    /\ UNCHANGED <<netVars, dispatchVars, queue, posted, loop, editor>>

\* Only the current listener's own failure stops it.
TakeFailure ==
    /\ MainAt("failures")
    /\ failed # <<>>
    /\ failed' = Tail(failed)
    /\ IF ~server.stopping /\ server.current = Head(failed)
       THEN BeginStop("failures")
       ELSE UNCHANGED <<main, server>>
    /\ UNCHANGED <<netVars, dispatchVars, queue, posted, loop, editor>>

Running == server.current \in server.listening

NoFailures ==
    /\ MainAt("failures")
    /\ failed = <<>>
    /\ main' = IF ~Running /\ server.retry
               THEN [step |-> "restart", item |-> None, next |-> "drain"]
               ELSE [Idle EXCEPT !.step = "drain"]
    /\ UNCHANGED <<netVars, dispatchVars, queue, posted, serverVars, editor>>

\* Start: a free port is found, or it is tried again later.
Restart ==
    /\ MainAt("restart")
    /\ Continue
    /\ LET n == server.started + 1
       IN \/ /\ n \in Listeners
             /\ server' = Started(n)
             /\ loop' = [loop EXCEPT ![n] = "accepting"]
          \/ /\ server' = [server EXCEPT !.stopping = FALSE, !.retry = TRUE]
             /\ UNCHANGED loop
    /\ UNCHANGED <<netVars, dispatchVars, queue, posted, failed, editor>>

RefuseQueued_all ==
    /\ MainAt("refuse")
    /\ queue # <<>>
    /\ answer' = [r \in Requests |-> IF conn[r] = "awaiting" /\ answer[r] = None
                                    THEN "not_started" ELSE answer[r]]
    /\ queue' = <<>>
    /\ UNCHANGED <<netVars, effect, posted, main, lock, dispatch, serverVars, editor>>

RefuseQueued ==
    /\ MainAt("refuse")
    /\ queue # <<>>
    /\ answer' = [answer EXCEPT ![Head(queue)] = "not_started"]
    /\ queue' = Tail(queue)
    /\ UNCHANGED <<netVars, effect, posted, main, lock, dispatch, serverVars, editor>>

\* afterAssemblyReload starts the listener once more: one that no longer listens is
\* replaced, before its own failure may have been reported.
AfterReload ==
    /\ MainAt("reloaded")
    /\ \/ Running /\ main' = Idle /\ UNCHANGED server
       \/ /\ ~Running
          /\ server.current # None
          /\ BeginStop("restart")
       \/ /\ server.current = None
          /\ main' = [step |-> "restart", item |-> None, next |-> "idle"]
          /\ UNCHANGED server
    /\ UNCHANGED <<netVars, dispatchVars, queue, posted, loop, failed, editor>>

CloseListener_final ==
    /\ MainAt("refuse")
    /\ queue = <<>>
    /\ server' = [server EXCEPT !.current = None, !.listening = @ \ {server.current}]
    /\ Continue
    /\ UNCHANGED <<netVars, dispatchVars, queue, posted, loop, failed, editor>>

\* After a failure the next start is scheduled; before a reload it is not.
CloseListener ==
    /\ MainAt("refuse")
    /\ queue = <<>>
    /\ server' = [server EXCEPT !.current = None, !.listening = @ \ {server.current},
                                !.retry = main.next = "failures"]
    /\ Continue
    /\ UNCHANGED <<netVars, dispatchVars, queue, posted, loop, failed, editor>>

-----------------------------------------------------------------------------
(* CommandRouter.Dispatch on the main thread *)

\* BridgeProtocol.Validate, but for the editor's mode, which may be any.
Valid(r, requireReady) ==
    LET e == envelope[r]
    IN /\ e.listener \notin server.cancelled
       /\ ~expired[r]
       /\ e.domain \in {None, editor.domain}
       /\ e.loads \in {None, editor.loads}
       /\ requireReady => Running

Answer(r, a) == answer' = [answer EXCEPT ![r] = a]

\* Dispatch of the head of the queue, up to where it first waits. The controls are
\* answered at once; everything else needs the lock.
Take(r) ==
    /\ MainAt("drain")
    /\ queue # <<>> /\ r = Head(queue)
    /\ queue' = Tail(queue)
    /\ \/ /\ ~Valid(r, FALSE)
          /\ Answer(r, "not_started")
          /\ dispatch' = [dispatch EXCEPT ![r] = "done"]
          /\ UNCHANGED <<effect, lock, main>>
       \/ /\ Valid(r, FALSE)
          /\ envelope[r].kind = "control"
          /\ Answer(r, "result")
          /\ effect' = [effect EXCEPT ![r] = @ + 1]
          /\ dispatch' = [dispatch EXCEPT ![r] = "done"]
          /\ UNCHANGED <<lock, main>>
       \/ /\ Valid(r, FALSE)
          /\ envelope[r].kind # "control"
          /\ IF lock.holder = None
             THEN /\ lock' = [lock EXCEPT !.holder = r]
                  /\ main' = [step |-> "gate", item |-> r, next |-> "drain"]
                  /\ dispatch' = [dispatch EXCEPT ![r] = "entered"]
             ELSE /\ lock' = [lock EXCEPT !.waiters = Append(@, r)]
                  /\ dispatch' = [dispatch EXCEPT ![r] = "waiting"]
                  /\ UNCHANGED main
          /\ UNCHANGED <<answer, effect>>
    /\ UNCHANGED <<netVars, posted, serverVars, editor>>

Drained ==
    /\ MainAt("drain")
    /\ queue = <<>>
    /\ Continue
    /\ UNCHANGED <<netVars, dispatchVars, queue, posted, serverVars, editor>>

TimeOut_never(r) == FALSE /\ UNCHANGED vars

\* WaitAsync gives up at the deadline. A waiter either times out or is granted.
TimeOut(r) ==
    /\ dispatch[r] = "waiting"
    /\ expired[r]
    /\ \E n \in DOMAIN lock.waiters :
          lock.waiters[n] = r /\ lock' = [lock EXCEPT !.waiters = RemoveAt(@, n)]
    /\ dispatch' = [dispatch EXCEPT ![r] = "timedout"]
    /\ UNCHANGED <<netVars, answer, effect, queue, posted, main, serverVars, editor>>

\* Release hands the lock to the first waiter, whose continuation is posted.
Leave(r, a) ==
    /\ Answer(r, a)
    /\ IF lock.waiters = <<>>
       THEN /\ lock' = [lock EXCEPT !.holder = None]
            /\ dispatch' = [dispatch EXCEPT ![r] = "done"]
       ELSE /\ lock' = [holder |-> Head(lock.waiters), waiters |-> Tail(lock.waiters)]
            /\ dispatch' = [dispatch EXCEPT ![r] = "done", ![Head(lock.waiters)] = "granted"]

ResumeTimedOut_releases(r) ==
    /\ MainAt("idle")
    /\ dispatch[r] = "timedout"
    /\ Leave(r, "not_started")
    /\ UNCHANGED <<netVars, effect, queue, posted, main, serverVars, editor>>

ResumeTimedOut(r) ==
    /\ MainAt("idle")
    /\ dispatch[r] = "timedout"
    /\ Answer(r, "not_started")
    /\ dispatch' = [dispatch EXCEPT ![r] = "done"]
    /\ UNCHANGED <<netVars, effect, queue, posted, main, lock, serverVars, editor>>

ResumeGranted(r) ==
    /\ MainAt("idle")
    /\ dispatch[r] = "granted"
    /\ dispatch' = [dispatch EXCEPT ![r] = "entered"]
    /\ main' = [step |-> "gate", item |-> r, next |-> "idle"]
    /\ UNCHANGED <<netVars, answer, effect, queue, posted, lock, serverVars, editor>>

TurnedAway(r) ==
    /\ Leave(r, "not_started")
    /\ Continue
    /\ UNCHANGED effect

Run(r) ==
    /\ effect' = [effect EXCEPT ![r] = @ + 1]
    /\ Goto("busy")
    /\ UNCHANGED <<answer, lock, dispatch>>

Gate_unchecked(r) ==
    /\ MainAt("gate")
    /\ r = main.item
    /\ \/ envelope[r].kind = "tool" /\ Run(r)
       \/ envelope[r].kind = "exec" /\ Goto("decode") /\ UNCHANGED dispatchVars
    /\ UNCHANGED <<netVars, queue, posted, serverVars, editor>>

\* With the lock the request is validated again; the host's also while the editor may
\* be compiling, importing or changing its play mode.
Gate(r) ==
    /\ MainAt("gate")
    /\ r = main.item
    /\ \/ (~Valid(r, envelope[r].host) \/ envelope[r].host) /\ TurnedAway(r)
       \/ Valid(r, envelope[r].host) /\ envelope[r].kind = "tool" /\ Run(r)
       \/ /\ Valid(r, envelope[r].host)
          /\ envelope[r].kind = "exec"
          /\ Goto("decode")
          /\ UNCHANGED dispatchVars
    /\ UNCHANGED <<netVars, queue, posted, serverVars, editor>>

\* ExecuteAssembly: an unusable assembly is turned away, and decoding takes time.
Decode(r) ==
    /\ MainAt("decode")
    /\ r = main.item
    /\ TurnedAway(r) \/ (Valid(r, TRUE) /\ Run(r))
    /\ UNCHANGED <<netVars, queue, posted, serverVars, editor>>

Finish(r) ==
    /\ MainAt("busy")
    /\ r = main.item
    /\ Leave(r, "result")
    /\ Continue
    /\ UNCHANGED <<netVars, effect, queue, posted, serverVars, editor>>

\* An asynchronous tool leaves the main thread and comes back later, or never.
Yield(r) ==
    /\ MainAt("busy")
    /\ r = main.item
    /\ envelope[r].kind = "tool"
    /\ dispatch' = [dispatch EXCEPT ![r] = "async"]
    /\ Continue
    /\ UNCHANGED <<netVars, answer, effect, queue, posted, lock, serverVars, editor>>

FinishAsync(r) ==
    /\ MainAt("idle")
    /\ dispatch[r] = "async"
    /\ Leave(r, "result")
    /\ UNCHANGED <<netVars, effect, queue, posted, main, serverVars, editor>>

-----------------------------------------------------------------------------
(* The editor *)

\* An assembly with a location is loaded, on any thread.
LoadAssembly ==
    /\ editor.loads < MaxLoads
    /\ editor' = [editor EXCEPT !.loads = @ + 1]
    /\ UNCHANGED <<netVars, dispatchVars, queue, posted, main, serverVars>>

BeforeReload ==
    /\ MainAt("idle")
    /\ editor.domain < MaxDomains
    /\ server.started < MaxListeners
    /\ BeginStop("unload")
    /\ UNCHANGED <<netVars, dispatchVars, queue, posted, loop, failed, editor>>

\* The domain goes with its threads, queue and lock; the new one starts a listener.
Reload ==
    LET n == server.started + 1
        under == {r \in Requests : conn[r] \notin {"new", "answered", "lost"}}
    IN /\ MainAt("unload")
       /\ conn' = [r \in Requests |-> IF r \in under THEN "lost" ELSE conn[r]]
       /\ dispatch' = [r \in Requests |-> IF conn[r] = "new" THEN "none" ELSE "done"]
       /\ queue' = <<>>
       /\ posted' = [latch |-> FALSE, callbacks |-> 0]
       /\ lock' = [holder |-> None, waiters |-> <<>>]
       /\ failed' = <<>>
       /\ main' = [Idle EXCEPT !.step = "reloaded"]
       /\ editor' = [editor EXCEPT !.domain = @ + 1, !.loads = 0]
       /\ server' \in {Started(n), [server EXCEPT !.stopping = FALSE, !.retry = TRUE]}
       /\ loop' = [k \in Listeners |->
                      IF k = server'.current THEN "accepting"
                      ELSE IF loop[k] = "none" THEN "none" ELSE "ended"]
       /\ Forget(under)
       /\ UNCHANGED <<answer, effect>>

-----------------------------------------------------------------------------

Handler(r) == Refuse(r) \/ Enqueue(r) \/ ForceEditorUpdate(r) \/ Respond(r)
ListenLoop(n) == LoopBreaks(n) \/ LoopChecks(n) \/ LoopReports(n)
Callbacks(r) == ResumeTimedOut(r) \/ ResumeGranted(r)
ProcessItem(r) == Take(r) \/ Gate(r) \/ Decode(r) \/ Finish(r)
Upkeep == TakeFailure \/ NoFailures \/ Restart \/ RefuseQueued \/ CloseListener \/ Drained

Next ==
    \/ \E r \in Requests :
          \/ Handler(r) \/ DeadlinePasses(r) \/ TimeOut(r) \/ Callbacks(r)
          \/ ProcessItem(r) \/ Yield(r) \/ FinishAsync(r)
          \/ \E n \in Listeners : Accept(r, n)
    \/ \E n \in Listeners : ListenLoop(n)
    \/ Callback \/ Update \/ Upkeep
    \/ LoadAssembly \/ BeforeReload \/ Reload \/ AfterReload

Spec == Init /\ [][Next]_vars

\* Background threads run, a deadline comes, and the main thread goes on with what it
\* began and with what was posted to it. Nothing is assumed of the editor's periodic
\* update, nor that an asynchronous tool ever ends.
MainThread == (\E r \in Requests : ProcessItem(r)) \/ Upkeep \/ Reload \/ AfterReload

Fairness ==
    /\ \A r \in Requests :
          /\ WF_vars(ForceEditorUpdate(r) \/ Respond(r))
          /\ WF_vars(DeadlinePasses(r) \/ TimeOut(r))
          /\ SF_vars(Callbacks(r))
    /\ SF_vars(Callback) /\ WF_vars(MainThread)

FairSpec == Spec /\ Fairness

-----------------------------------------------------------------------------
(* Properties *)

\* What the Connector answers: a request runs once at most, "result" means it ran, and
\* "not_started" that it neither ran nor will. A lost answer is none.
Contract == INSTANCE RequestContract
    WITH outcome <- [r \in Requests |-> IF conn[r] = "answered" THEN answer[r] ELSE None]
ImplementsContract == Contract!Spec

Executing(r) == dispatch[r] \in {"entered", "async"}

\* Tools and assemblies run one at a time, however deadlines end the waiting for the lock,
\* and its holder is who runs or is to run.
Serialized ==
    /\ \A r \in Requests : Executing(r) \/ dispatch[r] = "granted" <=> lock.holder = r
    /\ \A r \in Requests : dispatch[r] = "waiting" <=> r \in ToSet(lock.waiters)
    /\ lock.holder = None => lock.waiters = <<>>

\* docs/DEVELOPMENT.md: "A request belongs to its originating listener; stopping or
\* replacing that listener must prevent its queued work from executing later." It runs in
\* its own domain, against the references it was prepared for and before its deadline,
\* however long it waited for the lock.
RunsInPlace ==
    [][\A r \in Requests : effect'[r] > effect[r] =>
          /\ envelope[r].listener = server.current
          /\ ~server.stopping
          /\ envelope[r].domain \in {None, editor.domain}
          /\ envelope[r].loads \in {None, editor.loads}
          /\ ~expired[r]
          /\ envelope[r].kind = "exec" => Running]_vars

\* The server never stays deaf: its listener accepts, or its failure is on the way to
\* the main thread, or it is being stopped, or the next start is scheduled.
NeverDeaf ==
    \/ server.current # None /\ loop[server.current] \in {"accepting", "leaving", "reporting"}
    \/ server.current \in ToSet(failed)
    \/ main.step \in {"refuse", "restart", "unload"}
    \/ server.retry

\* The server is only stopped for a reload of the domain, or because its own listener has
\* failed: what the loop of a replaced listener reports late stops nothing.
StopsItsOwn ==
    [][~server.stopping /\ server'.stopping =>
          main'.next = "unload" \/ ~Running \/ loop[server.current] = "ended"]_vars

Waits(r) == conn[r] \in {"posting", "awaiting"} /\ envelope[r].host /\ effect[r] = 0

\* A request of the host that was queued gets an answer or runs, although a tool may
\* hold the lock for ever and the editor's updates may be throttled.
HostAnswered == []<>(\A r \in Requests : ~Waits(r))
=============================================================================
