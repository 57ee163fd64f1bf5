# UnityBridge in TLA+

UnityBridge lets command-line clients run C# and tools inside a running Unity Editor. A *Connector* (a C#
package in the editor) serves commands over loopback HTTP; a *host* (a persistent Python process per user)
keeps connections, contexts and a Roslyn *compiler process* warm and puts requests in order; *clients* (the
`unity-bridge` command) use the host when there is one and talk to the Connector directly otherwise. This
directory holds TLA+ modules about the parts of it that run concurrently and fail independently, TLC runs of
small instances, and proofs checked by TLAPS.

Paths below are relative to the repository (`src/unity_bridge` is the Python package, `unity-bridge-connector`
the Unity package, `compiler-worker` the compiler process). `PROJECT.json` holds the exact correspondence
between definitions and source lines, the list of hazards with the properties that cover them, the runs, the
faulty variants used to test the properties, and the findings.

## 1. Inventory

| Component | State it keeps | Operations | Talks to | What is hard | What makes it correct |
|---|---|---|---|---|---|
| Host request service (`host/service.py`: `Job`, `Project`, `submit`, `_project_loop`, `_execute`, `_run_control`, `request_stop`) | per project: job table by request id, queue, worker flag, snapshot, context; per job: state, dispatched mark, response | submit or join by id, trim, compile, check, dispatch, retry once, expire, control query, stop | callers (handler threads), Connector (HTTP), compiler, discovery | a thread per caller, worker, control and scan; deadlines; reloads of Unity at any moment; lost answers; a stop in the middle | a command runs at most once; `not_started` is only said when it never ran and never will; one answer; order; nobody waits for ever |
| Host discovery and context (`scan_once`, `_scan_loop`, `_negotiate`, `_prewarm_context`, `_write_registry`, `host/context.py`) | projects, snapshots, negotiated contexts, prewarm state, endpoint file | scan heartbeats, negotiate, invalidate, prewarm, publish | heartbeat files, Connector, compiler | generations change while a context is asked for; files half written or missing | the context in use belongs to the generation it is used for |
| Transport (`host/transport.py`) | pool of connections by lane, with identity, retired flag and lock each | post, reuse, replace, evict, close | Connector | retiring a connection somebody uses | an exchange is never cut off or mixed; only the intended endpoint; bounded |
| Compiler client (`host/compiler.py`) | lock, count of foreground waiters, process, response queue, watchdog per request | request (foreground, background), start, stop, close | compiler process | a process that hangs, dies or answers late; a watchdog that fires late; priority | an answer is for its request; only a request's own watchdog kills; never stuck; one process |
| Compiler process (`compiler-worker`) | caches of metadata and compilations | compile, warm up | host | weights of shared images | exact byte account within bounds |
| Host registry and launch (`host/registry.py`, `host/cli.py`) | launcher file, endpoint file, process lock | launch, take the lock, publish, remove | clients, Connector | several launchers at once, dead processes | one host serves and is published |
| Client routing (`client.py`, `host/__init__.py`, `_fast_exec.py`, `host/cli_request.py`, `host/cli_server.py`, `_wire.py`) | heartbeats found, chosen route | call, discover, remove stale heartbeats | host, Connector | falling back from the host to the direct route | no command sent twice over two routes |
| Adapter operations (`adapter.py`) | operation and test run waited for | refresh, play, tests, wait | client, Connector | the answer gets lost in a reload | an operation is only reported complete when it is |
| Connector server and router (`HttpServer.cs`, `CommandRouter.cs`, `BridgeProtocol.cs`) | listener, queue, drain latch, execution lock, domain id and reference generation | listen, queue, drain, dispatch, validate, restart | host, clients, editor tools | background threads and the editor's main thread; listener replaced; domain reload | every queued command is answered; nothing runs past its deadline or in a foreign domain |
| Connector heartbeat and operations (`Heartbeat.cs`, `EditorOperations.cs`, `Core/AtomicFile.cs`) | forced state, grace periods, last attempted write, receipts | tick, write, mark, receipts | heartbeat file, host launcher | the flag that tells "busy" comes after the request | no older "ready" is taken for the end of an operation |
| Connector host launcher (`BridgeHostLauncher.cs`) | notification latch, check timer | announce a change, start a host | host `/changed`, registry | announcements from several threads | no change is forgotten |
| Connector test runner (`TestRunner/`) | session state over reloads | run, resume, report | editor | reloads during tests | the results belong to the run |
| Connector tools, command line, packaging, benchmarks | files and processes outside the protocols | single tool calls, argument parsing, installation, measurements | Connector, client | little runs concurrently; the tools that start a waited operation and the routes of the command line are part of `Operations` and `Routing` | what `Operations` and `Routing` say of them |

The interactions that matter: a client's request is submitted to the host; the host's worker compiles code with
the compiler client, sends it through the pool to the Connector, whose listener queues it for the editor's main
thread; meanwhile the Connector writes heartbeats, announces changes, reloads its domain (losing memory, threads
and queue), and the host's discovery follows it and negotiates a context per generation.

## 2. Plan

Most important first; all of it is written.

1. `RequestContract`, `HostJobs`, `MCHostJobs`, `HostJobs_proofs`: the promise of the host to its callers and the
   life of a job, with proofs.
2. `ConnectionPool`: connections under retirement.
3. `CompilerWorker`: the compiler process as a shared, restartable resource.
4. `ChangeNotice`: from a change in the editor to the host's discovery, over heartbeat and announcement.
5. `BoundedCache`: the byte account of the compiler's caches.
6. `Connector`: `HttpServer` with `CommandRouter` and `BridgeProtocol.Validate`: queue, drain latch, listener
   replacement, execution lock, domain reload.
7. `Discovery` and `Operations`: waited editor operations, with receipts, heartbeats, reloads and discovery.
8. `HostLife`: host processes and the files they are found by; registration, election, publication, update, crash.
9. `Routing`, which extends `HostLife`, with `Routing_proofs`: the way of a command over every route.

Three modules implement one promise. `RequestContract` says that a request runs at most once, is answered at most
once, and that `not_started` is only said of one that has not run and never will. `HostJobs` implements it for
a host and its callers, `Connector` for the editor and its clients, `Routing` for the command line and Unity,
with what `HostJobs` promises in place of the host's inside.

Every component has its proofs in a module of its own (`HostJobs_proofs`, `ConnectionPool_proofs`,
`CompilerWorker_proofs`, `ChangeNotice_proofs`, `BoundedCache_proofs`, `Connector_proofs`, `Operations_proofs`, and
`Routing_proofs` for `Routing` with `HostLife`). Every safety property that a passing run
checks is proved, but for the two about possible steps; section 5 says what is left to TLC.

## 3. Modules

A definition whose name ends in an underscore and a lower-case word (`AnswerLost_retry`) is a faulty variant of
the definition before the underscore. No specification uses it: it exists to confirm that a property notices
the mistake it stands for.

### HostJobs

One project of the host. Threads are explicit: a handler per caller (`caller[c]`), at most one worker at a time
(`worker[t]`, named by the caller whose submission started it), a thread per control query (`control[j]`), the scan,
one negotiation (`neg`), and whoever stops the host (`stopper`). A job is named by the caller that created it. An
action is what one thread does between taking and releasing `project.condition` or `job.lock`, or one end of an
exchange with Unity; where the code reads under one lock and acts under another, that is two actions
(`Trim`/`Admit`, `CheckStale`/`Dispatch`, `StopObserve`/`StopSet`/`StopDrain`).

| Code | Model |
|---|---|
| `Job.complete`, `Job.expire` | `Complete`, `Expire` |
| `submit` | `Refuse`, `Enter`, `Rescan`, `Unsupported`, `Join`, `Trim`, `Admit`, then `CallerReturn` / `CallerTimeout` |
| `_project_loop` | `WorkerPop`, `WorkerLeave`, `WorkerStop`, `WorkerFinish`, `WorkerException` |
| `_wait_context`, `_negotiate`, `_invalidate_context` | `ContextReady`, `ContextUnavailable`, `ContextAbandoned`, `NegotiateServed/Store/Fail`, `Invalidate` |
| `_execute` | `CompileOk/Stale/Error`, `CheckStale`, `Dispatch`, `AnswerRetry`, `AnswerFinal`, `AnswerLost` |
| `_run_control` | `ControlStart`, `ControlAnswer`, `ControlLost` |
| `request_stop`, `/stop` | `StopObserve`, `StopSet`, `StopDrain` |
| the Connector's gate | `UnityExecute`, `UnityRefuse`, `UnityReload`, `UnityLoadAssembly`, `UnityHalt`, `UnityMode` |

Abstractions. A *generation* stands for domain id, reference generation and port together (`Project.key`). A
deadline is a flag that rises once, at any moment; the two clocks are not modelled. A scan reads Unity's state at
one moment; the delay of heartbeats is in the scan happening late, and starting the negotiation belongs to the same
step. `Trim` reads which jobs are done at one moment. An answer from Unity is `result` (it ran, successfully or
not), a refusal that proves it did not run, or lost. Payloads and error texts are left out.

`RequestContract` is the abstract promise: each request runs at most once, is answered at most once, and
`not_started` excludes that it ever ran or will run, while `unknown` leaves it open and is allowed before or after
a run. `HostJobs` refines it with `effect` mapped to what Unity executed and `outcome` to the job's response.

`Hurried` names the callers whose deadline may pass in an instance; the proofs hold for any. A deadline that never passes is a
long one, so a run that limits it leaves out no other step.

### ConnectionPool

`ConnectionPool.post` as the steps between its two locks: claim under the pool's lock (`Begin`, `Reuse`, `Create`),
retire the replaced or evicted entry (`Marked`, `RetireTry`), wait for the connection (`Acquire`, `GiveUp`), exchange
(`Transmit`, `Answer`, `Fail`), then `Finally` (look at `retired`) and `Release` as two steps, because `retire()` sets the flag
and tries the lock in the opposite order. `Close`, `CloseMark`, `CloseTry` are `close()`. An evicted lane can get a
second connection while the first is busy, so exchanges are exclusive per connection, not per lane.

### CompilerWorker

`request()` step by step (`Enter` ... `Release`), `_start`/`_stop`, the watchdog as a thread of its own (`FireBegin`, `FireKill`), and
the process with the thread that reads its output (`Compile`, `Crash`, `ReaderEnds`). A request is named for its request id.
`procs` keeps every process ever started, with its own pipe and response queue, since an old reader still writes to the
queue it was given. Whether time is over is left open at each place where the code looks at the clock.

### ChangeNotice

`Heartbeat.Tick`/`Write`, the latch of `BridgeHostLauncher.NotifyStateChanged` with the tasks it starts, and
`HostService._scan_loop` with its wakeup event. The editor's state is a number that grows. A domain reload forgets the
Connector's static fields and aborts its tasks. Writes, announcements and reads may fail; the history variable
`lost` records that one did and that no scan has made up for it.

### BoundedCache

`BoundedCache.Add`, `TryGet`, `Remove` as operators on one record. Eviction removes the shortest oldest part that
makes room, which is what the loop does; whether some part always suffices is a property. Grouping of
equal images (`GroupBy`) is built into `shared` being a function.

### Connector

The command server inside the editor. Background threads (`Accept` to `Respond` per request, `LoopBreaks`,
`LoopChecks`, `LoopReports` per listener) interleave with the editor's main thread, which runs one callback at a time:
`main.step` says where it stands and `main.next` where it goes on.

| Code | Model |
|---|---|
| `HandleRequest`, `ForceEditorUpdate` | `Accept`, `Refuse`, `Enqueue`, `ForceEditorUpdate`, `Respond` |
| `ListenLoop` | `LoopBreaks`, `LoopChecks`, `LoopReports` (the token is read before the report is made) |
| `ProcessQueue` | `Callback` or `Update`, then `TakeFailure`, `NoFailures`, `Restart`, `Take`, `Drained` |
| `StopListener` | `BeginStop`, `RefuseQueued`, `CloseListener` |
| `Start` | `Restart`, `AfterReload`, `Reload` |
| `CommandRouter.Dispatch` | `Take`, `TimeOut`, `ResumeTimedOut`, `ResumeGranted`, `Gate`, `Finish`, `Yield`, `FinishAsync`, `Leave` |
| `BridgeProtocol.Validate`, `ExecuteAssembly` | `Valid`, `Decode` |

Abstractions. A listener is named by the number of its start; ports are left out. `get_editor_state` and
`bridge_context` are one kind, "control". A deadline is a flag that rises once, while its request has no answer: nothing looks at it later. A request names no newer
domain or reference generation than its sender can have read (`Envelopes`); every command of the host names both. The editor's mode is not kept: a request
of the host may be turned away at the gate at any time, so no property depends on the editor being ready. A tool
that asks for another one, and a client that sends two requests on one connection, are several requests. The periodic
update is only taken where `ProcessQueue` has something to do. An answer that is set may be lost with its connection.

`RequestContract` is refined with `outcome` mapped to the answers that reached the client: whoever gets none has to
take the request for unknown, which is what `HostJobs` does.

### Discovery

The operators of `client.py` that choose an instance: by port, by project (the same path, else the innermost project
around it, else the only one whose path ends so), by working directory. A path is the sequence of its parts; an
operator returns the set of instances the code may choose, since timestamps decide between equally good ones.

### Operations

Two clients, each with one waited operation, and one editor whose project lies inside another one that may be open too.

| Code | Model |
|---|---|
| `refresh_assets`, `manage_editor`, `reserialize_assets`, `wait_for_ready` | `ClientStep`: `Resolve`, `Send`, `Receive`, a poll, `Timeout` |
| `_send_disruptive_command` | `Send`, `GiveUp`: a failed send counts as sent, completion unknown |
| `_wait_after_operation` | `Receive` chooses `PollReceipt` (with a receipt) or `PollHeartbeat` (without one, or without a reply) |
| `resolve_live_instance` | `PollLive` |
| `scan_instances` | `ScanDead`, then `Unlink`: looking at the process and removing the file are two steps |
| `EditorOperations.Begin`, `FinishSynchronous`, `Abandon`, `CodeImported`, `Snapshot`, callbacks, `Tick` | operators of these names on the set of receipts, where `at` keeps the order of the list; `OperationsTick` |
| `Heartbeat` | `GetState`, `Write`, `MarkRequested`, `HeartbeatTick`; the forced state with a grace period that may end or not; in a `lossy` situation any write may fail, which is swallowed (`Outcomes`) |
| `RefreshUnity`, `ReserializeAssets`, `ManageEditor` | `Import`, `ChangePlayMode`, `AlreadyThere` and the refusals |

`owes[c]` says what Unity still has to do for a command: compile a request, reload the domain, send a play-mode event.
It belongs to Unity, not to the code, and the properties compare it with what clients were told. `file.after` is
a history variable: which commands had run when the file was written; `unmarked` is another, the commands whose busy mark
could not be written. An import of given paths may mark itself as compiling or as refreshing (`BusyMarks`), and one with `--force` is not
refused in play mode. Unity's own steps are external, and the model assumes of it:
no compilation begins while a finished one or a library awaits its reload (`CanCompile`); a reload serves the requests that wait for
it, or, in a situation with `Carries`, may leave compile requests to the new domain; every transition of play mode ends in `EnteredPlayMode` or `EnteredEditMode`, with no
compilation open. An import of the editor's own (`LateImport`) is charged to receipts that the code withdraws for it.

### HostLife

An installer registers a runtime (`ReadPrevious`, `WriteDescriptor`, `WriteLauncher`: three file operations). Open editors look for a host every
five seconds and start one when no responsive one is registered (`EnsureHost`; several may, so it may be taken again and again).
A process takes the runtime's lock or leaves (`Serve`), listens and publishes unless a reader holds the file (`Listen`), follows `launcher.json` (`ScanRetires`), may be idle
or asked to stop, and removes its own endpoint, if that can be read and unlinked (`Close`), before it releases the lock (`Release`) and ends (`Exit`). The threads that publish
look at `stopping` first and write later (`CheckStopping`, `WriteRegistry`). A host may be killed at any point; the
operating system frees its lock, its endpoint file stays, and its PID may go to another program (`ReusePid`). Tokens are named by the
installer that drew them, processes by their PID.

### Routing

| Code | Model |
|---|---|
| `_bootstrap._main`, `_fast_exec.try_exec` | `Start`, `Fast`, `UpdateDue`, `FallBack`, `WriteFrame`, `Receive`, `Lost` |
| `cli.main`, `UnityClient.call`, `try_host_command`, `send_command` | `RunFull`, `ViaHost`, `HostOnly`, `Post`, `SendDirect`, `Receive`, `Lost` |
| `run_session` | `TurnOf`: the lines of a session run one after the other |
| `cli_server`, `cli_request.execute_cli`, `_LocalClient.call` | `ServeCli` |
| `do_POST` | `ServePost`, `Retire` (`/stop`) |
| `HostService` on an accepted job | `JobRefused`, `JobForwarded`, `HostUnknown`: what `HostJobs` shows of it |

`message[k]` is where a command is, `client[k]` what its process knows. A situation (`Plans`) fixes the command lines, bounds
processes, installers and crashes, and says whether endpoint files may be held by readers (`denied`). A PID does not come back while a command still looks for its old owner (`Known`): a
reused port and token would have to coincide as well. Threads with nothing new to publish are left out. Each installer
registers a runtime of its own, once.

## 4. Runs

| Run | Instance | Shows | Distinct states |
|---|---|---|---|
| `HostJobs_safety` | 2 callers, 1 or 2 ids, exec work, 2 generations, Unity ready/busy/stopped, table of 1 | `UnknownWasHanded`, `OneAnswer`, `OneWorker`, `UnansweredIsKnown`, and the refinement `ImplementsContract` | 1.8 million (up to symmetry) |
| `HostJobs_retire` | 2 callers with an id each, a tool and a control query, Unity ready/stopped, table of 2, no deadline passes, the host may be stopped | `FifoDispatch`, `QueueDrains`: no queued job is left without a worker, `WorkersRetire`, `ImplementsContract` of a host that stops | 357 000 |
| `HostJobs_deadline` | 2 callers with one id | `OriginalDeadline` is violated (see findings) | |
| `ConnectionPool_retire` | 3 threads, 2 lanes, 2 identities, pool of 1, closing | `PrivateExchange`, `PoolNeverBlocks` | 142 000 (up to symmetry) |
| `ConnectionPool_leak` | 2 threads, 1 lane, 2 identities | `RetiredIsClosed` is violated (see findings) | |
| `CompilerWorker_restart` | 2 executions and 1 background request | `WatchdogOwn`, `AnswersMatch`, `NeverStuck`, `BackgroundYields` | 837 000 (up to symmetry) |
| `ChangeNotice_follow` | 3 changes, 3 tasks | `Announced`, `CatchUp` | 47 000 |
| `BoundedCache_account` | 3 keys, 2 images, weights 1 to 3, 3 entries, 8 bytes | `ExactAccount`, `EvictionSuffices` | 9 900 (up to symmetry) |
| `Connector_gate` | an assembly, and a tool or a control query; 2 starts of a listener, 2 domains, 1 assembly load | `Serialized`, `NeverDeaf`, `RunsInPlace`, `StopsItsOwn`, the refinement `ImplementsContract`, and `HostAnswered` | 838 000 |
| `Operations_wait` | 5 situations with 2 operations each, receipt table of 1 or 2, 2 editor processes, in two of them heartbeat writes that may fail | `ConfirmedMeansDone`, `ReadyAfterCommand`, `PendingDrains`, `EditorFound` | 735 000 |
| `Operations_nested` | the same | `FollowsSameProject` is violated (see findings) | |
| `Routing_life` | 12 situations with up to 2 hosts, 2 runtimes, 2 commands, 1 crash, in four of them endpoint files held by readers | `OneHost`, `HostOnlyStays`, the refinement `ImplementsContract`, `HostReturns`, `ReplacedRetires` | 333 000 |

Each run that passes also checks the module's `TypeOK`, except `HostJobs_retire`, whose module `HostJobs_safety` covers, and those of `ChangeNotice`
and `Connector`, whose type correctness is proved for every instance and needs no run.

Bounds. Two callers are the least that can share a job, race a timeout against a dispatch, restart a worker the other one's
job left behind, or stand in an order. With a table of one (`HostJobs_safety`) the second job meets a full one; with a table of two
(`HostJobs_retire`) both are in the queue unanswered, the first may be refused and tried again in front of the second, and the second may be
submitted while a worker leaves because its editor stopped. There each caller has an id of its own (`NamedIds`) and no deadline passes
(`Hurried` is empty), so that nothing but the worker can end a job. Two
generations give a stale context, a reload between any two steps and a second negotiation; a job is tried
twice at most, so a third generation adds no new kind of state. For `ConnectionPool` a pool of one makes every second lane an
eviction. Three requests of `CompilerWorker` allow a process killed, replaced and replaced again. Three tasks of
`ChangeNotice` are two endings that overlap and a new beginning. Weights up to 3 in 8 bytes include entries that
fit only alone, that never fit, and images whose weight grows. Two requests of `Connector` are one that holds the
execution lock and one that waits for it: an assembly, which names the assemblies it was compiled against and so has everything the gate
looks at, beside a tool, which may hold the lock for ever, or a control query, which does not take it; each combination of kinds on both
sides is left to the proofs. Two starts are a listener and its replacement, so that the old loop's report comes
after the new listener has started. `Operations` has the pairs of operations that meet each other's callbacks: two imports with and without an explicit
compilation, play against stop, play against a compilation, a live probe against a refresh, where the writes of the heartbeat may fail, as against stop; a receipt table of one makes the second operation meet
a full one, and two processes are an editor that quit or crashed and its restart. `Routing` has two hosts where hosts race and where one command meets both, one where two commands meet its end, and
one crash, which leaves a dead endpoint behind and a lock free; the PID of one dead host may be reused. Whether the daily update notice is due
belongs to a situation (`due`), because only one of the lines can print it. Runs without liveness are checked with symmetry where the
members of a set are interchangeable, those with liveness without. All runs switch deadlock checking off: callers, requests, changes, or
the processes there may be are finite, and the system then rests.

Fairness. `HostJobs`: threads run, the scan comes again and again, a negotiation with a reachable Unity
succeeds if repeated; nothing of deadlines, Unity's modes or the delivery of a command, and no deadline is needed for
`QueueDrains`. `ChangeNotice`: editor updates, tasks and threads run and the file is not out of reach for ever; the periodic
scan is only assumed once something was lost, which is less than the code has, so `CatchUp` also says that
announcements alone suffice as long as none fails. `Connector`: background threads run, deadlines come, and what was
posted to the main thread is served again and again (strong fairness, because a callback waits while others run). Tools that
block the main thread return; asynchronous ones need not, and nothing is assumed of the editor's periodic update. `CompilerWorker` assumes nothing: `NeverStuck` is a safety
property about which steps are possible. `Operations`: the editor's update loop runs, the heartbeat file is not out of reach for
ever, Unity ends what it began, and a client
about to remove a file does; nothing of clients, exits or launches. `Routing`: editors look for a host every five seconds, processes and their
scans run, every wait of a client and of a host has a deadline, and no reader holds the endpoint file for ever; nothing of installers, new commands, Unity, stops, crashes or reused PIDs.

## 5. Proofs

Every theorem holds for all values of the constants that the named assumption of its module admits. The assumptions say
that sets are finite where something is counted, that bounds are numbers, and that `None` is none of the values it stands beside.
Each component has an inductive invariant, since none of the properties is inductive alone; TLC checked each one on the runs' instances before
it was proved. A proof has one step per action and, under it, one per part that the action can disturb.

### HostJobs_proofs

From `HostJobsAssumption`, for any callers, ids, work, table limit and number of generations:

- `TypeCorrect`: `TypeOK` is invariant.
- `Invariant`: `JobInv` is invariant. It is the conjunction of `AnswerInv` (a job's state and answer agree with its
  message), `CallerInv` (callers wait for jobs that exist and keep the answer), `WorkerInv` (the started flag and the
  one living worker) and `OwnerInv` (each job has one owner: queue, worker or control thread, and the owner's place in its
  program tells whether a message can exist).
- `NotStartedFinal`, `UnknownHanded`, `OneAnswerForAll`, `OneWorkerOnly`, `UnansweredKnown`: what follows from it.
- `CommandsInOrder`: `FifoDispatch`. It needs `OrderInv` on top: tickets are drawn in the order of admission, the queue is sorted by them, and what
  was handed to Unity comes before what is being prepared, which comes before the queue.
- `Implementation`: `HostJobs` implements `RequestContract`.

That a job answered `not_started` cannot still run depends on no message being
under way for it, which depends on nobody but its owner sending one and only before it is answered, which depends on
there being one owner, which depends on there being one worker: the four parts of `JobInv` in reverse.
Lemmas state what completing, expiring,
trimming and admitting preserve. The refinement maps `Dispatch`, the compilation and the scans to stuttering,
`UnityExecute` to `Execute`, every answer to `Answer`, and `StopDrain` to `TurnAway`, which answers several jobs at once.

### ConnectionPool_proofs

From `PoolAssumption`, for any threads, lanes, endpoints and capacity: `TypeCorrect` and `ExchangesPrivate`
(`PrivateExchange`). `IInv` says that a connection's lock and the thread that has it know of each other (`HolderInv`), that a post
works with an entry made for its lane and endpoint, and that the entry is open while an exchange is under way (`PostOK`). The
shape of the pool (no entry twice, never more than `Capacity` outside the claim) is in `TypeOK` and uses a lemma about
removing a place of a sequence (`RemoveAtProperties`). The step that needs the invariant most is `ShutIfFree`: a retirement closes a
connection only if it has no holder, and whoever is sending would be its holder. `LockIsForRetiring` says that the pool's lock is
kept between two steps only by a thread about to retire an entry, and that step tries the connection's lock without waiting for it.

### CompilerWorker_proofs

From `CompilerAssumption`, for any requests and any number of restarts: `TypeCorrect` (with it that the count of
waiters never falls below zero), `WatchdogsOwn` (`WatchdogOwn`), `AnswersOwn` (`AnswersMatch`) and the action property
`BackgroundLast` (`BackgroundYields`). `LockInv` places the lock's holder, `WaitersInv` says that the counter counts, which
`BackgroundLast` rests on; `DogInv` ties a watchdog to an exchange under way and to the process it was made for. `PipeInv` is the heart of
`AnswersOwn`: between two exchanges the current process has been asked nothing and nothing but its end can come out of it; during one, only the
holder's own answer can, once. It holds because an exchange that ends in any other way stops the process before the lock is released.
`HolderGoesOn` is about hanging: whoever has the worker is in front of a step whose guard holds (`CanGoOn`), its own or its watchdog's. It rests
on `GuardInv`, which says that a write into a living process is watched and that `join` never meets a watchdog that is only armed, and on
`DeadStays`: no step revives a process, so a watchdog that has fired has ended the write for good.

### ChangeNotice_proofs

From `NoticeAssumption`, for any number of changes and tasks: `TypeCorrect`, `ChangesAnnounced` (`Announced`) and
`NotifiersExclusive`. `LatchInv` says that the latch is set exactly while one task announces, `FileInv` that the file shows the state last
attempted unless a failure is on record: with them a change that meets a running task leaves `pending` behind for a
task that will look at it.

### BoundedCache_proofs

From `CacheAssumption`, for any finite sets of keys and images, any weights and any bounds: `TypeCorrect` (the bounds hold after
every operation), `Exact` (`ExactAccount`) and `EvictionEnds` (`EvictionSuffices`). `Inductive` is their invariant `IInv`: the
record is `Sound` (the bytes are the sum of what is retained, an image has as many users as entries hold it, and no less than the
weight they gave it) and `Bounded`. The parts need each other: `Remove` gives an image's bytes back when its users say that nobody else
holds it. `Sound` is stated of any record, not of the variable, since it has to hold of every record on the way of an `Add`: without the old
entry of the key (`WithoutKeySound`), after each eviction (`EvictedSound`), and after the insertion (`InsertSound`).

The account is a sum by a fold, whose value the provers cannot compute by induction. Lemma `TotalIsUnits` shows instead that it is the
number of elements of a set with `f[i]` elements for each `i` (`Units`), after which sums are compared by bijections
(`TotalTakeOne`, `TotalGrows`). What needs induction (that the fold's function exists, that `Evicted` is what its equation says) is
proved from a least counterexample (`LeastNumber`).

### Connector_proofs

From `ConnectorAssumption`, for any requests of any kinds, any number of listeners, domains and assembly loads:
`TypeCorrect`, `OneAtATime` (`Serialized`), `ServerHears` (`NeverDeaf`), the action properties `OwnFailures` (`StopsItsOwn`: the late report of
a replaced listener's loop stops nothing, from `ReportsInv`, by which only a started listener has a loop, and a report is a loop's last step) and `CommandsInPlace` (`RunsInPlace`), and
`Implementation`: the Connector implements `RequestContract`. `ServerInv` is about the listener: every listener but the current one is
cancelled (`Numbered`), and where the main thread stands while it replaces one (`StepInv`). `RequestsInv` is about the requests: each is in
one place at a time, its handler, the queue, the lock's waiters or the lock (`Placed`), how often it ran fits that place (`Counted`), and the main
thread works on the one that has entered (`InHand`). `RunsInPlace` needs both halves: the gate checks listener, domain and
deadline, and nothing but the main thread, which is at the gate, can replace the first two before the command starts. The start of a
command maps to `Execute`, an answer that reaches its client to `Answer`, and all else, lost answers and refusals still on
their way included, to stuttering.

### Operations_proofs

From `OperationsAssumption` (to which the proofs added that a wish names a port, a project or a directory, and that `None` is no
reply), for any clients, situations and sizes of the receipt table:

- `TypeCorrect`: `TypeOK`, with it that the table never exceeds its capacity: room is made only by a completed receipt, the oldest, which exists by
  lemma `OldestIsOne`.
- `ReadyIsNew`: the action property `ReadyAfterCommand`, from `IInv`: a command runs once at most (`ClientsInv`), every receipt is the only one of a command that
  ran (`ReceiptsInv`), every file on disk is newer than an import answered without a receipt whose busy mark was written (`AfterInv`). Any write
  may fail. A failed write of another kind leaves the mark or something newer on disk; if the mark itself failed, the older file is still there, and the
  property says nothing of that command (section 6).
- `ReceiptsTellTruth`: `WorkInv`, the invariant of receipts against what Unity owes. `Kept` says flag by flag what can still be owed: to an open
  import nothing, a request, a compilation or a reload, each with the flags that keep `Tick` from completing it; to a completed one nothing.
- `ConfirmedDone`: `ConfirmedMeansDone`, from `WorkInv`. It leaves out compile in an editor that keeps compile requests over a reload (`Trusted`), where it is
  false (section 6); the proof covers both kinds of editor.

### Routing_proofs

From `HostLifeAssumption` and `RoutingAssumption`, for any number of hosts, runtimes, installers and commands and any situations:

- `TypeCorrect`: `TypeOK` is invariant, with it that of `HostLife`.
- `OneHostServes`: `OneHost`. A process between its lock and its release is the one the lock names (`HostOK`), so
  neither a stale endpoint nor a reused PID can elect a second one.
- `EndToEnd`: `Routing` implements `RequestContract`. `RouteInv` says of every place a message can have reached what its client
  may have been told: a client that was told `not_started` has a message that is gone or was never sent, a message
  before Unity has no execution, and no client sends a second one.
- `HostOnlyKept`: `HostOnlyStays`, from `HostOnlyOK`, which adds where a message of such a command can be before a host accepts it.

`LifeInv` (hosts, installers, launcher files) is kept by every action of `HostLife`; lemma `HostFrame` says that it depends only
on what an action changes of one process. `RouteInv` has one step per action of a command and per action in the host; the steps of
`HostLife` leave it alone except `Dies`, by which messages are gone with their host.

### What is only model-checked

- Liveness, which is beyond the prover: `QueueDrains`, `WorkersRetire`, `CatchUp`, `HostAnswered`, `PendingDrains`, `EditorFound`, `HostReturns`,
  `ReplacedRetires`.
- `NeverStuck` and `PoolNeverBlocks` as they stand, which say which steps are possible (`ENABLED`); the prover cannot expand it. What they rest on is
  proved as predicates on states (`HolderGoesOn`, `LockIsForRetiring`); that the guards named there make the steps possible is what TLC adds.

## 6. Findings

- `HostJobs_deadline`: callers that join a job by its request id all run `job.expire()` when their own time is over
  (`service.py:550`), so a joiner with a shorter deadline ends the wait of the first caller, whose request is then
  answered as expired before its deadline. `docs/DEVELOPMENT.md:143` says host requests retain their original deadline.
- `ConnectionPool_leak`: `post` looks at `entry.retired` before it releases the connection's lock, `retire` sets the flag before it
  tries that lock; in between a retired connection is closed by neither (`transport.py:108`).
- `Operations_nested`: a wait looks its project's path up again on every poll (`adapter.py:574`), and discovery falls back to a project around
  the path. While the awaited editor's file is missing or says "stopped", the editor of an enclosing project confirms the
  operation. `docs/COMMANDS.md:274-275` says the wait follows the same Unity project.

Observed while modelling, without a run of their own:

- A host thread that passed the check of `stopping` can publish after its process released the lock, over the endpoint of
  its successor, which compares with what it wrote last and does not write again (`service.py:118-145`). `HostReturns` excludes this
  by assumption (`LateWriter`), and fails without it.
- Two concurrent first registrations of one runtime can leave different tokens in `launcher.json` and `launchers/<id>.json` (`registry.py:101-106`).
- A reload counts as the evidence for a requested compilation (`EditorOperations.cs:160`). If Unity keeps such a request over the reload (`Carries`), an
  explicit compilation can be confirmed before it has begun. `ConfirmedMeansDone` says so by leaving out that case, and no other.
- The busy mark of an import may fail to be written: `Heartbeat.Write` swallows the failure (`Heartbeat.cs:214-222`) and the command goes on. If no receipt
  comes back, the wait compares with the time of the discovered file only (`adapter.py:503-508`), so a "ready" written between discovery and command
  confirms the refresh, against the comment of the mark (`Heartbeat.cs:80-81`: so that waiters do not pass an older "ready"). `ReadyAfterCommand`
  therefore names the commands whose mark was written; without that condition TLC finds it violated in the situation of a live probe beside a refresh.
- A POST to a host that reached nobody is reported like one whose answer was lost (`host/__init__.py:82`), and a direct request whose answer was lost like
  one that reached nobody (`client.py:465`); neither is ever repeated, so the contract holds.
- `has_work` does not count commands the host sends to an old Connector directly (`cli_request.py:64`); a stopping host answers them as
  unknown at worst.

## 7. Not modelled

- Several projects in one host: projects share only the compiler (`CompilerWorker`), the pool (`ConnectionPool`) and the endpoint file (`HostLife`).
- Prewarming fills caches before they are needed; it takes the compiler in the background, which is the background request of `CompilerWorker`.
- The arithmetic of deadlines between wall clock and monotonic clock (`service.py:493`): a deadline is a flag that rises once.
- In `ForceEditorUpdate`, a context that is missing and a `Post` that throws (`HttpServer.cs:192`, `203-206`): Unity's context is captured in the static constructor on the main
  thread. Either would leave the queue to
  the editor's periodic update.
- A play or stop request for which Unity never sends an event: its receipt would stay open for ever.
- The test runner and `wait_for_test_results`: the results file names a port, not a run, and what is in it is Unity's.
- What Roslyn compiles and Unity executes; parsing and formatting of the command line; screenshots, profiler,
  console and menu tools, which call one Unity function each and keep nothing; packaging, `update`, verification scripts and benchmarks,
  which are not part of the running system.
