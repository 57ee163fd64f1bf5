------------------------------ MODULE HostJobs ------------------------------
(***************************************************************************)
(* Job life cycle of the persistent host for ONE Unity project             *)
(* (src/unity_bridge/host/service.py: Job, Project, HostService.submit,    *)
(* _project_loop, _execute, _wait_context, _run_control, request_stop).    *)
(*                                                                         *)
(* Threads: one handler thread per caller (submit), at most one worker     *)
(* thread per project (started on demand by submit), one thread per        *)
(* control query, the discovery scan, one context negotiation at a time,   *)
(* and the thread that stops the host. An action is what one thread does   *)
(* while it holds project.condition or job.lock, or one network exchange.  *)
(*                                                                         *)
(* A job is created by the caller that first submits its request id, so a  *)
(* job is named by that caller. A deadline is the flag late[c]: once TRUE, *)
(* the time given by caller c has passed. A generation stands for the      *)
(* identity Project.key: Unity's domain id, reference generation and port. *)
(***************************************************************************)
EXTENDS Naturals, Sequences, FiniteSets

CONSTANTS
    Callers,      \* handler threads of the host, each submitting one request
    RequestIds,   \* RequestIds[c]: the request ids caller c may use, others may too
    ExecWork,     \* work the host compiles before it is sent ("exec")
    ToolWork,     \* work forwarded as it is (any other command)
    ControlWork,  \* live queries that bypass the queue ("get_editor_state")
    Capacity,     \* limit of the job table (256 in the code)
    MaxGen,       \* bound on Unity's generations
    Modes,        \* the modes Unity goes through in this instance
    Retires,      \* whether someone retires the host in this instance
    Hurried,      \* callers whose deadline may pass in this instance
    None          \* absent value

ASSUME HostJobsAssumption ==
    /\ IsFiniteSet(Callers)
    /\ Capacity \in Nat \ {0}
    /\ MaxGen \in Nat
    /\ {"ready"} \subseteq Modes /\ Modes \subseteq {"ready", "busy", "stopped"}
    /\ Retires \in BOOLEAN
    /\ Hurried \subseteq Callers
    /\ None \notin Callers
    /\ None \notin Nat
    /\ None \notin {"result", "not_started", "expired", "unknown", "refused", "stale"}

Work == ExecWork \cup ToolWork \cup ControlWork
Ids  == UNION {RequestIds[c] : c \in Callers}
Gens == 0..MaxGen

(* "expired" is the not_started answer of Job.expire, kept apart from the  *)
(* other not_started answers because a property is about it.               *)
Responses == {"result", "not_started", "expired", "unknown"}

VARIABLES
    caller,    \* caller[c]: submit() of handler thread c
    late,      \* late[c]: the deadline of c's request has passed
    job,       \* job[j]: the Job object created by caller j
    jobs,      \* project.jobs: jobs remembered for deduplication
    pending,   \* project.pending: FIFO of jobs for the worker
    started,   \* project.worker_started
    running,   \* project.running
    worker,    \* worker[t]: project worker thread started by caller t
    control,   \* control[j]: control thread of job j
    known,     \* the project is registered in service.projects
    alive,     \* project.alive
    snapshot,  \* project.snapshot: the heartbeat the host last read
    context,   \* project.context: generation of the prepared context
    ctxKey,    \* project.context_key
    neg,       \* the negotiation thread
    stopping,  \* service.stopping
    stopper,   \* the thread that retires the host
    gen, mode, \* Unity: its generation; "ready", "busy" or "stopped"
    net,       \* net[j]: the message of job j between host and Unity
    executed   \* executed[j]: how often Unity ran job j

callerVars == <<caller, late>>
queueVars  == <<jobs, pending, started>>
threadVars == <<running, worker, control>>
discVars   == <<known, alive, snapshot, context, ctxKey, neg>>
stopVars   == <<stopping, stopper>>
unityVars  == <<gen, mode, net, executed>>
vars == <<callerVars, job, queueVars, threadVars, discVars, stopVars, unityVars>>

-----------------------------------------------------------------------------
(* Types *)

CallerStates == [pc : {"idle", "entered", "rescanned", "admitting", "waiting", "returned"},
                 id : Ids \cup {None}, work : Work \cup {None},
                 job : Callers \cup {None}, reply : Responses \cup {None}]
JobStates    == [state : {"none", "queued", "dispatched", "completed"},
                 response : Responses \cup {None}, ticket : Nat]
WorkerStates == [pc : {"none", "loop", "context", "compile", "check", "dispatch",
                       "post", "finish", "exited"},
                 job : Callers \cup {None}, attempt : {0, 1},
                 context : Gens \cup {None}]
Snapshots    == [gen : Gens, mode : {"ready", "busy"}]
Messages     == [pc : {"none", "sent", "answered"}, gen : Gens \cup {None},
                 answer : {None, "result", "stale", "refused"}]

TypeOK ==
    /\ caller \in [Callers -> CallerStates]
    /\ late \in [Callers -> BOOLEAN]
    /\ job \in [Callers -> JobStates]
    /\ jobs \in SUBSET Callers
    /\ pending \in Seq(Callers)
    /\ started \in BOOLEAN
    /\ running \in BOOLEAN
    /\ worker \in [Callers -> WorkerStates]
    /\ control \in [Callers -> {"none", "start", "post", "ended"}]
    /\ known \in BOOLEAN
    /\ alive \in BOOLEAN
    /\ snapshot \in Snapshots
    /\ context \in Gens \cup {None}
    /\ ctxKey \in Gens \cup {None}
    /\ neg \in [pc : {"idle", "asked", "answered"}, key : Gens \cup {None}]
    /\ stopping \in BOOLEAN
    /\ stopper \in {"idle", "decided", "draining", "done"}
    /\ gen \in Gens
    /\ mode \in Modes
    /\ net \in [Callers -> Messages]
    /\ executed \in [Callers -> Nat]

NoMessage == [pc |-> "none", gen |-> None, answer |-> None]

Init ==
    /\ caller = [c \in Callers |-> [pc |-> "idle", id |-> None, work |-> None,
                                    job |-> None, reply |-> None]]
    /\ late = [c \in Callers |-> FALSE]
    /\ job = [c \in Callers |-> [state |-> "none", response |-> None, ticket |-> 0]]
    /\ jobs = {}
    /\ pending = <<>>
    /\ started = FALSE
    /\ running = FALSE
    /\ worker = [c \in Callers |-> [pc |-> "none", job |-> None, attempt |-> 0,
                                    context |-> None]]
    /\ control = [c \in Callers |-> "none"]
    /\ known = FALSE
    /\ alive = TRUE
    /\ snapshot = [gen |-> 0, mode |-> "busy"]
    /\ context = None
    /\ ctxKey = None
    /\ neg = [pc |-> "idle", key |-> None]
    /\ stopping = FALSE
    /\ stopper = "idle"
    /\ gen = 0
    /\ mode = "ready"
    /\ net = [c \in Callers |-> NoMessage]
    /\ executed = [c \in Callers |-> 0]

-----------------------------------------------------------------------------
(* Job: the first answer wins, under job.lock. A definition whose name has a *)
(* lower-case suffix after an underscore is a faulty variant of the one that *)
(* follows it; the properties are tested against these (see README).         *)

Done(j) == job[j].response # None

Complete_overwrites(j, r) ==
    job' = [job EXCEPT ![j].state = "completed", ![j].response = r]

Complete(j, r) ==
    job' = IF Done(j) THEN job
           ELSE [job EXCEPT ![j].state = "completed", ![j].response = r]

Expire(j) == Complete(j, IF job[j].state = "dispatched" THEN "unknown" ELSE "expired")

HasWork == running \/ \E j \in jobs : ~Done(j)

-----------------------------------------------------------------------------
(* Discovery *)

\* Nobody is between the two steps of admission that hold project.condition.
Unlocked == \A c \in Callers : caller[c].pc # "admitting"

\* Scanning starts a negotiation unless the key is already negotiated, one is
\* running, Unity is busy or the retry delay has not passed (UNCHANGED neg).
ScanFound ==
    /\ mode # "stopped"
    /\ known' = TRUE
    /\ alive' = TRUE
    /\ snapshot' = [gen |-> gen, mode |-> mode]
    /\ \/ UNCHANGED neg
       \/ /\ ctxKey # gen /\ neg.pc = "idle" /\ mode # "busy"
          /\ neg' = [pc |-> "asked", key |-> gen]
    /\ UNCHANGED <<context, ctxKey>>

\* A heartbeat in state "stopped" retires the project until it is seen again.
ScanStopped ==
    /\ mode = "stopped"
    /\ alive' = IF known THEN FALSE ELSE alive
    /\ UNCHANGED <<known, snapshot, context, ctxKey, neg>>

ScanOnce == Unlocked /\ (ScanStopped \/ ScanFound)

Scan ==
    /\ ~stopping
    /\ ScanOnce
    /\ UNCHANGED <<callerVars, job, queueVars, threadVars, stopVars, unityVars>>

\* Unity answers bridge_context; an answer for another generation is dropped.
NegotiateServed ==
    /\ neg.pc = "asked"
    /\ mode # "stopped"
    /\ gen = neg.key
    /\ neg' = [neg EXCEPT !.pc = "answered"]
    /\ UNCHANGED <<known, alive, snapshot, context, ctxKey>>
    /\ UNCHANGED <<callerVars, job, queueVars, threadVars, stopVars, unityVars>>

\* The answer is kept only if the snapshot still has the key it was asked for.
NegotiateStore ==
    /\ neg.pc = "answered"
    /\ Unlocked
    /\ IF snapshot.gen = neg.key
       THEN context' = neg.key /\ ctxKey' = neg.key
       ELSE UNCHANGED <<context, ctxKey>>
    /\ neg' = [pc |-> "idle", key |-> None]
    /\ UNCHANGED <<known, alive, snapshot>>
    /\ UNCHANGED <<callerVars, job, queueVars, threadVars, stopVars, unityVars>>

NegotiateFail ==
    /\ neg.pc = "asked"
    /\ Unlocked
    /\ neg' = [pc |-> "idle", key |-> None]
    /\ UNCHANGED <<known, alive, snapshot, context, ctxKey>>
    /\ UNCHANGED <<callerVars, job, queueVars, threadVars, stopVars, unityVars>>

Invalidate == Unlocked /\ ctxKey' = None /\ UNCHANGED <<known, alive, snapshot, context, neg>>

-----------------------------------------------------------------------------
(* submit *)

Answered(c, r) == caller' = [caller EXCEPT ![c].pc = "returned", ![c].reply = r]

\* do_POST refuses new commands while stopping; submit refuses a dead deadline.
Refuse(c) ==
    /\ caller[c].pc = "idle"
    /\ \/ stopping /\ Answered(c, "not_started")
       \/ ~stopping /\ late[c] /\ Answered(c, "expired")
    /\ UNCHANGED <<late, job, queueVars, threadVars, discVars, stopVars, unityVars>>

Enter(c) ==
    /\ caller[c].pc = "idle"
    /\ ~stopping
    /\ ~late[c]
    /\ \E id \in RequestIds[c], w \in Work :
          caller' = [caller EXCEPT ![c].pc = "entered", ![c].id = id, ![c].work = w]
    /\ UNCHANGED <<late, job, queueVars, threadVars, discVars, stopVars, unityVars>>

\* An unknown project, or a port other than the snapshot's, forces a scan.
Rescan(c) ==
    /\ caller[c].pc = "entered"
    /\ caller' = [caller EXCEPT ![c].pc = "rescanned"]
    /\ ScanOnce
    /\ UNCHANGED <<late, job, queueVars, threadVars, stopVars, unityVars>>

Unsupported(c) ==
    /\ caller[c].pc = "rescanned"
    /\ ~known
    /\ Answered(c, "not_started")
    /\ UNCHANGED <<late, job, queueVars, threadVars, discVars, stopVars, unityVars>>

SameId(c) == {j \in jobs : caller[j].id = caller[c].id}

\* A repeated request id waits for the job it names, or conflicts with it.
Join(c) ==
    /\ caller[c].pc \in {"entered", "rescanned"}
    /\ Unlocked
    /\ known
    /\ \E j \in SameId(c) :
          IF caller[j].work = caller[c].work
          THEN caller' = [caller EXCEPT ![c].pc = "waiting", ![c].job = j]
          ELSE Answered(c, "not_started")
    /\ UNCHANGED <<late, job, queueVars, threadVars, discVars, stopVars, unityVars>>

Older(S, j) == {k \in S : job[k].ticket < job[j].ticket}

Forgotten_unfinished ==
    {j \in jobs : Cardinality(Older(jobs, j)) < Cardinality(jobs) + 1 - Capacity}

\* The finished jobs a full table forgets, oldest first, to make room for one.
Forgotten ==
    LET finished == {j \in jobs : Done(j)}
    IN {j \in finished : Cardinality(Older(finished, j)) < Cardinality(jobs) + 1 - Capacity}

\* Only a table full of unfinished jobs refuses.
QueueFull == Cardinality({j \in jobs : ~Done(j)}) >= Capacity

NextTicket == Cardinality({j \in Callers : job[j].state # "none"}) + 1

EnsureWorker_always(c) ==
    /\ started' = TRUE
    /\ worker' = [worker EXCEPT ![c].pc = "loop"]

EnsureWorker(c) ==
    /\ started' = TRUE
    /\ worker' = IF started THEN worker ELSE [worker EXCEPT ![c].pc = "loop"]

Enqueue(c) == pending' = Append(pending, c)

NewWork(c) ==
    /\ caller[c].pc \in {"entered", "rescanned"}
    /\ Unlocked
    /\ known
    /\ SameId(c) = {}

\* A full table is trimmed first. Jobs are answered under job.lock alone, so some
\* may finish between the trimming and the count of the unfinished.
Trim(c) ==
    /\ NewWork(c)
    /\ Cardinality(jobs) >= Capacity
    /\ jobs' = jobs \ Forgotten
    /\ caller' = [caller EXCEPT ![c].pc = "admitting"]
    /\ UNCHANGED <<late, job, pending, started, threadVars, discVars, stopVars, unityVars>>

Admit(c) ==
    /\ \/ NewWork(c) /\ Cardinality(jobs) < Capacity
       \/ caller[c].pc = "admitting"
    /\ \/ /\ QueueFull
          /\ Answered(c, "not_started")
          /\ UNCHANGED <<job, jobs, pending, started, worker, control>>
       \/ /\ ~QueueFull
          /\ jobs' = jobs \cup {c}
          /\ job' = [job EXCEPT ![c] = [state |-> "queued", response |-> None,
                                        ticket |-> NextTicket]]
          /\ caller' = [caller EXCEPT ![c].pc = "waiting", ![c].job = c]
          /\ IF caller[c].work \in ControlWork
             THEN /\ control' = [control EXCEPT ![c] = "start"]
                  /\ UNCHANGED <<pending, started, worker>>
             ELSE /\ Enqueue(c)
                  /\ EnsureWorker(c)
                  /\ UNCHANGED control
    /\ UNCHANGED <<late, running, discVars, stopVars, unityVars>>

CallerReturn(c) ==
    /\ caller[c].pc = "waiting"
    /\ Done(caller[c].job)
    /\ Answered(c, job[caller[c].job].response)
    /\ UNCHANGED <<late, job, queueVars, threadVars, discVars, stopVars, unityVars>>

\* The wait ends at the job's deadline or the caller's own, whichever is first,
\* and expires the JOB, which other callers may be waiting for too.
CallerTimeout(c) ==
    /\ caller[c].pc = "waiting"
    /\ late[c] \/ late[caller[c].job]
    /\ ~Done(caller[c].job)
    /\ Expire(caller[c].job)
    /\ Answered(c, job'[caller[c].job].response)
    /\ UNCHANGED <<late, queueVars, threadVars, discVars, stopVars, unityVars>>

\* Time passes: c's deadline is reached.
DeadlinePasses(c) ==
    /\ c \in Hurried
    /\ ~late[c]
    /\ late' = [late EXCEPT ![c] = TRUE]
    /\ UNCHANGED <<caller, job, queueVars, threadVars, discVars, stopVars, unityVars>>

-----------------------------------------------------------------------------
(* _project_loop *)

WorkerAt(t, p) == worker[t].pc = p
Goto(t, p) == worker' = [worker EXCEPT ![t].pc = p]
RetryFrom(t) == worker' = [worker EXCEPT ![t].pc = "context", ![t].attempt = 1,
                                         ![t].context = None]

WorkerLeave_keeps(t) ==
    /\ WorkerAt(t, "loop")
    /\ Unlocked
    /\ pending = <<>>
    /\ ~alive
    /\ ~stopping
    /\ Goto(t, "exited")
    /\ UNCHANGED <<callerVars, job, queueVars, running, control, discVars, stopVars, unityVars>>

\* The idle worker of a dead editor leaves; the next queued job starts another.
WorkerLeave(t) ==
    /\ WorkerAt(t, "loop")
    /\ Unlocked
    /\ pending = <<>>
    /\ ~alive
    /\ ~stopping
    /\ started' = FALSE
    /\ Goto(t, "exited")
    /\ UNCHANGED <<callerVars, job, jobs, pending, running, control, discVars, stopVars, unityVars>>

WorkerStop(t) ==
    /\ WorkerAt(t, "loop")
    /\ Unlocked
    /\ stopping
    /\ Goto(t, "exited")
    /\ UNCHANGED <<callerVars, job, queueVars, running, control, discVars, stopVars, unityVars>>

WorkerPop(t) ==
    /\ WorkerAt(t, "loop")
    /\ Unlocked
    /\ ~stopping
    /\ pending # <<>>
    /\ pending' = Tail(pending)
    /\ running' = TRUE
    /\ worker' = [worker EXCEPT ![t] =
           [pc |-> IF Done(Head(pending)) THEN "finish" ELSE "context",
            job |-> Head(pending), attempt |-> 0, context |-> None]]
    /\ UNCHANGED <<callerVars, job, jobs, started, control, discVars, stopVars, unityVars>>

\* The oldest remembered jobs, as long as they are done and the table too large.
Overflow ==
    {j \in jobs : /\ Done(j)
                  /\ \A k \in Older(jobs, j) : Done(k)
                  /\ Cardinality(Older(jobs, j)) < Cardinality(jobs) - Capacity}

WorkerFinish(t) ==
    /\ WorkerAt(t, "finish")
    /\ Unlocked
    /\ running' = FALSE
    /\ jobs' = jobs \ Overflow
    /\ worker' = [worker EXCEPT ![t] = [pc |-> "loop", job |-> None, attempt |-> 0,
                                        context |-> None]]
    /\ UNCHANGED <<callerVars, job, pending, started, control, discVars, stopVars, unityVars>>

-----------------------------------------------------------------------------
(* _execute: two attempts; _wait_context, _compile, staleness, dispatch, answer *)

ContextAbandoned_late(t) ==
    LET j == worker[t].job
    IN /\ WorkerAt(t, "context")
       /\ Unlocked
       /\ Done(j) \/ late[j]
       /\ Expire(j)
       /\ Goto(t, "finish")
       /\ UNCHANGED <<callerVars, queueVars, running, control, discVars, stopVars, unityVars>>

\* The context is given up when the job is done, the host stops or time is over.
ContextAbandoned(t) ==
    LET j == worker[t].job
    IN /\ WorkerAt(t, "context")
       /\ Unlocked
       /\ Done(j) \/ stopping \/ late[j]
       /\ Expire(j)
       /\ Goto(t, "finish")
       /\ UNCHANGED <<callerVars, queueVars, running, control, discVars, stopVars, unityVars>>

ContextUnavailable(t) ==
    LET j == worker[t].job
    IN /\ WorkerAt(t, "context")
       /\ Unlocked
       /\ ~(Done(j) \/ stopping \/ late[j])
       /\ ~alive
       /\ Complete(j, "not_started")
       /\ Goto(t, "finish")
       /\ UNCHANGED <<callerVars, queueVars, running, control, discVars, stopVars, unityVars>>

ContextReady(t) ==
    LET j == worker[t].job
    IN /\ WorkerAt(t, "context")
       /\ Unlocked
       /\ ~(Done(j) \/ stopping \/ late[j])
       /\ alive
       /\ snapshot.mode # "busy"
       /\ context # None
       /\ ctxKey = snapshot.gen
       /\ worker' = [worker EXCEPT ![t].context = context,
               ![t].pc = IF caller[j].work \in ExecWork THEN "compile" ELSE "check"]
       /\ UNCHANGED <<callerVars, job, queueVars, running, control, discVars, stopVars, unityVars>>

CompileOk(t) ==
    /\ WorkerAt(t, "compile")
    /\ Unlocked
    /\ Goto(t, "check")
    /\ UNCHANGED <<callerVars, job, queueVars, running, control, discVars, stopVars, unityVars>>

\* A reference changed on disk under the compiler: negotiate again, once.
CompileStale(t) ==
    /\ WorkerAt(t, "compile")
    /\ worker[t].attempt = 0
    /\ RetryFrom(t)
    /\ Invalidate
    /\ UNCHANGED <<callerVars, job, queueVars, running, control, stopVars, unityVars>>

\* Diagnostics, a deadline or a dead compiler: Unity never sees the request.
CompileError(t) ==
    /\ WorkerAt(t, "compile")
    /\ Complete(worker[t].job, "not_started")
    /\ Goto(t, "finish")
    /\ UNCHANGED <<callerVars, queueVars, running, control, discVars, stopVars, unityVars>>

Stale(t) == \/ ctxKey # snapshot.gen
            \/ worker[t].context # snapshot.gen

CheckStale(t) ==
    /\ WorkerAt(t, "check")
    /\ Unlocked
    /\ \/ ~Stale(t) /\ Goto(t, "dispatch") /\ UNCHANGED job
       \/ Stale(t) /\ worker[t].attempt = 0 /\ RetryFrom(t) /\ UNCHANGED job
       \/ /\ Stale(t)
          /\ worker[t].attempt = 1
          /\ Complete(worker[t].job, "not_started")
          /\ Goto(t, "finish")
    /\ UNCHANGED <<callerVars, queueVars, running, control, discVars, stopVars, unityVars>>

Send(j, g) ==
    net' = [net EXCEPT ![j] = [pc |-> "sent", gen |-> g, answer |-> None]]

MarkDispatched(j) == job' = [job EXCEPT ![j].state = "dispatched"]

\* The remaining time was read before job.lock was taken: when the deadline has
\* passed by now, either reading is possible. A job answered meanwhile is dropped.
Dispatch(t) ==
    LET j == worker[t].job
    IN /\ WorkerAt(t, "dispatch")
       /\ \/ Done(j) /\ Goto(t, "finish") /\ UNCHANGED <<job, net>>
          \/ ~Done(j) /\ late[j] /\ Expire(j) /\ Goto(t, "finish") /\ UNCHANGED net
          \/ ~Done(j) /\ MarkDispatched(j) /\ Send(j, worker[t].context) /\ Goto(t, "post")
       /\ UNCHANGED <<callerVars, queueVars, running, control, discVars, stopVars,
                      gen, mode, executed>>

Completion_raw(answer) == answer

Completion(answer) == IF answer = "result" THEN "result" ELSE "not_started"

AnswerRetry_dispatched(t) ==
    LET j == worker[t].job
    IN /\ WorkerAt(t, "post")
       /\ net[j].answer = "stale"
       /\ worker[t].attempt = 0
       /\ ~Done(j)
       /\ net' = [net EXCEPT ![j] = NoMessage]
       /\ RetryFrom(t)
       /\ Invalidate
       /\ UNCHANGED <<callerVars, job, queueVars, running, control, stopVars, gen, mode, executed>>

AnswerRetry_requeued(t) ==
    LET j == worker[t].job
    IN /\ WorkerAt(t, "post")
       /\ net[j].answer = "stale"
       /\ worker[t].attempt = 0
       /\ ~Done(j)
       /\ job' = [job EXCEPT ![j].state = "queued"]
       /\ net' = [net EXCEPT ![j] = NoMessage]
       /\ pending' = Append(pending, j)
       /\ running' = FALSE
       /\ worker' = [worker EXCEPT ![t].pc = "loop", ![t].job = None]
       /\ Invalidate
       /\ UNCHANGED <<callerVars, jobs, started, control, stopVars, gen, mode, executed>>

\* Only a proven rejection for a stale domain, stale references or an unready
\* editor permits the second attempt; the job is queued again.
AnswerRetry(t) ==
    LET j == worker[t].job
    IN /\ WorkerAt(t, "post")
       /\ net[j].answer = "stale"
       /\ worker[t].attempt = 0
       /\ ~Done(j)
       /\ job' = [job EXCEPT ![j].state = "queued"]
       /\ net' = [net EXCEPT ![j] = NoMessage]
       /\ RetryFrom(t)
       /\ Invalidate
       /\ UNCHANGED <<callerVars, queueVars, running, control, stopVars, gen, mode, executed>>

AnswerFinal(t) ==
    LET j == worker[t].job
    IN /\ WorkerAt(t, "post")
       /\ net[j].pc = "answered"
       /\ \/ net[j].answer # "stale"
          \/ worker[t].attempt = 1
          \/ Done(j)
       /\ Complete(j, Completion(net[j].answer))
       /\ Goto(t, "finish")
       /\ UNCHANGED <<callerVars, queueVars, running, control, discVars, stopVars, unityVars>>

AnswerLost_retry(t) ==
    LET j == worker[t].job
    IN /\ WorkerAt(t, "post")
       /\ worker[t].attempt = 0
       /\ ~Done(j)
       /\ job' = [job EXCEPT ![j].state = "queued"]
       /\ net' = [net EXCEPT ![j] = NoMessage]
       /\ RetryFrom(t)
       /\ UNCHANGED <<callerVars, queueVars, running, control, discVars, stopVars,
                      gen, mode, executed>>

\* The exchange fails (refused, reset, timed out, invalid answer). Whether the
\* message reached Unity is not known; it may still run there.
AnswerLost(t) ==
    /\ WorkerAt(t, "post")
    /\ Complete(worker[t].job, "unknown")
    /\ Goto(t, "finish")
    /\ UNCHANGED <<callerVars, queueVars, running, control, discVars, stopVars, unityVars>>

\* Any other exception in _execute: the job's state decides what is honest.
WorkerException(t) ==
    LET j == worker[t].job
    IN /\ worker[t].pc \in {"compile", "post"}
       /\ Complete(j, IF job[j].state = "dispatched" THEN "unknown" ELSE "not_started")
       /\ Goto(t, "finish")
       /\ UNCHANGED <<callerVars, queueVars, running, control, discVars, stopVars, unityVars>>

-----------------------------------------------------------------------------
(* _run_control: a live query has a thread of its own and no readiness gate *)

ControlAt(j, p) == control[j] = p
ControlTo(j, p) == control' = [control EXCEPT ![j] = p]

ControlStart(j) ==
    /\ ControlAt(j, "start")
    /\ Unlocked
    /\ \/ Done(j) /\ ControlTo(j, "ended") /\ UNCHANGED <<job, net>>
       \/ ~Done(j) /\ late[j] /\ Expire(j) /\ ControlTo(j, "ended") /\ UNCHANGED net
       \/ ~Done(j) /\ MarkDispatched(j) /\ Send(j, None) /\ ControlTo(j, "post")
    /\ UNCHANGED <<callerVars, queueVars, running, worker, discVars, stopVars,
                   gen, mode, executed>>

ControlAnswer(j) ==
    /\ ControlAt(j, "post")
    /\ net[j].pc = "answered"
    /\ Complete(j, Completion(net[j].answer))
    /\ ControlTo(j, "ended")
    /\ UNCHANGED <<callerVars, queueVars, running, worker, discVars, stopVars, unityVars>>

ControlLost(j) ==
    /\ ControlAt(j, "post")
    /\ Complete(j, "unknown")
    /\ ControlTo(j, "ended")
    /\ UNCHANGED <<callerVars, queueVars, running, worker, discVars, stopVars, unityVars>>

-----------------------------------------------------------------------------
(* request_stop: /stop, a newer launcher or an idle host. has_work was asked *)
(* before; nothing keeps a caller from submitting between the two.           *)

StopObserve ==
    /\ Retires
    /\ stopper = "idle"
    /\ Unlocked
    /\ ~HasWork
    /\ stopper' = "decided"
    /\ UNCHANGED <<callerVars, job, queueVars, threadVars, discVars, stopping, unityVars>>

StopSet ==
    /\ stopper = "decided"
    /\ stopping' = TRUE
    /\ stopper' = "draining"
    /\ UNCHANGED <<callerVars, job, queueVars, threadVars, discVars, unityVars>>

Queued(j) == \E i \in 1..Len(pending) : pending[i] = j

StopDrain_table ==
    /\ stopper = "draining"
    /\ Unlocked
    /\ job' = [j \in Callers |->
                 IF j \in jobs /\ ~Done(j)
                 THEN [job[j] EXCEPT !.state = "completed", !.response = "not_started"]
                 ELSE job[j]]
    /\ stopper' = "done"
    /\ UNCHANGED <<callerVars, queueVars, threadVars, discVars, stopping, unityVars>>

StopDrain ==
    /\ stopper = "draining"
    /\ Unlocked
    /\ job' = [j \in Callers |->
                 IF Queued(j) /\ ~Done(j)
                 THEN [job[j] EXCEPT !.state = "completed", !.response = "not_started"]
                 ELSE job[j]]
    /\ stopper' = "done"
    /\ UNCHANGED <<callerVars, queueVars, threadVars, discVars, stopping, unityVars>>

-----------------------------------------------------------------------------
(* Unity, as the Connector gates it (CommandRouter.Dispatch, BridgeProtocol   *)
(* .Validate, HttpServer.StopListener); the heartbeat lag is folded into the  *)
(* time between two scans.                                                   *)

Accepts(j) ==
    /\ ~late[j]
    /\ net[j].gen # None => net[j].gen = gen /\ mode = "ready"

UnityExecute(j) ==
    /\ net[j].pc = "sent"
    /\ mode # "stopped"
    /\ Accepts(j)
    /\ executed' = [executed EXCEPT ![j] = @ + 1]
    /\ net' = [net EXCEPT ![j].pc = "answered", ![j].answer = "result"]
    /\ UNCHANGED <<callerVars, job, queueVars, threadVars, discVars, stopVars, gen, mode>>

UnityRefuse(j) ==
    /\ net[j].pc = "sent"
    /\ mode # "stopped"
    /\ ~Accepts(j)
    /\ net' = [net EXCEPT ![j].pc = "answered",
                          ![j].answer = IF late[j] THEN "refused" ELSE "stale"]
    /\ UNCHANGED <<callerVars, job, queueVars, threadVars, discVars, stopVars, gen, mode, executed>>

\* A stopping listener refuses the messages it holds; the others never reached it.
Cut(S) == net' = [j \in Callers |-> IF j \in S
                                    THEN [net[j] EXCEPT !.pc = "answered", !.answer = "stale"]
                                    ELSE net[j]]

Sent == {j \in Callers : net[j].pc = "sent"}

UnityReload ==
    /\ mode # "stopped"
    /\ gen < MaxGen
    /\ gen' = gen + 1
    /\ "busy" \in Modes
    /\ mode' = "busy"
    /\ \E S \in SUBSET Sent : Cut(S)
    /\ UNCHANGED <<callerVars, job, queueVars, threadVars, discVars, stopVars, executed>>

UnityLoadAssembly ==
    /\ mode # "stopped"
    /\ gen < MaxGen
    /\ gen' = gen + 1
    /\ UNCHANGED <<callerVars, job, queueVars, threadVars, discVars, stopVars, mode, net, executed>>

UnityHalt ==
    /\ mode # "stopped"
    /\ "stopped" \in Modes
    /\ mode' = "stopped"
    /\ \E S \in SUBSET Sent : Cut(S)
    /\ UNCHANGED <<callerVars, job, queueVars, threadVars, discVars, stopVars, gen, executed>>

UnityMode ==
    /\ \/ mode = "ready" /\ mode' = "busy" /\ "busy" \in Modes
       \/ mode \in {"busy", "stopped"} /\ mode' = "ready"
    /\ UNCHANGED <<callerVars, job, queueVars, threadVars, discVars, stopVars, gen, net, executed>>

-----------------------------------------------------------------------------

Submit(c) == \/ Refuse(c) \/ Enter(c) \/ Rescan(c) \/ Unsupported(c) \/ Join(c)
             \/ Trim(c) \/ Admit(c)

CallerWait(c) == CallerReturn(c) \/ CallerTimeout(c)

ProjectLoop(t) == WorkerLeave(t) \/ WorkerStop(t) \/ WorkerPop(t) \/ WorkerFinish(t)

Execute(t) == \/ ContextAbandoned(t) \/ ContextUnavailable(t) \/ ContextReady(t)
              \/ CompileOk(t) \/ CompileStale(t) \/ CompileError(t)
              \/ CheckStale(t) \/ Dispatch(t)
              \/ AnswerRetry(t) \/ AnswerFinal(t) \/ AnswerLost(t) \/ WorkerException(t)

RunControl(j) == ControlStart(j) \/ ControlAnswer(j) \/ ControlLost(j)

Negotiate == NegotiateServed \/ NegotiateStore \/ NegotiateFail

RequestStop == StopObserve \/ StopSet \/ StopDrain

Unity == \/ UnityReload \/ UnityLoadAssembly \/ UnityHalt \/ UnityMode
         \/ \E j \in Callers : UnityExecute(j) \/ UnityRefuse(j)

Next == \/ \E c \in Callers : \/ Submit(c) \/ CallerWait(c) \/ DeadlinePasses(c)
                              \/ ProjectLoop(c) \/ Execute(c) \/ RunControl(c)
        \/ Scan \/ Negotiate \/ RequestStop \/ Unity

Spec == Init /\ [][Next]_vars

(* Fairness. Threads are scheduled; the scan loop runs every half second and *)
(* starts a negotiation whenever one is due; a loopback negotiation with a   *)
(* reachable Unity succeeds if it is tried again and again. Nothing is       *)
(* assumed of deadlines, of Unity's modes or of the delivery of a command.   *)
AskContext ==
    /\ ~stopping
    /\ ScanFound
    /\ neg' # neg
    /\ UNCHANGED <<callerVars, job, queueVars, threadVars, stopVars, unityVars>>

Fairness ==
    /\ WF_vars(Scan)
    /\ SF_vars(AskContext)
    /\ SF_vars(NegotiateServed)
    /\ WF_vars(NegotiateStore)
    /\ WF_vars(NegotiateFail)
    /\ WF_vars(StopDrain)
    /\ \A c \in Callers :
          /\ WF_vars(Admit(c))
          /\ WF_vars(CallerWait(c))
          /\ WF_vars(ProjectLoop(c))
          /\ WF_vars(Execute(c))
          /\ WF_vars(RunControl(c))

FairSpec == Spec /\ Fairness

-----------------------------------------------------------------------------
(* Properties *)

NotStarted(r) == r \in {"not_started", "expired"}

Preparing(t) == worker[t].pc \in {"context", "compile", "check", "dispatch", "post"}
Live(t) == worker[t].pc \notin {"none", "exited"}

\* An answer and the message it is about tell the same story.
AnswerInv ==
    \A j \in Callers :
        /\ Done(j) <=> job[j].state = "completed"
        /\ net[j].pc = "answered" <=> net[j].answer # None
        /\ executed[j] = IF net[j].answer = "result" THEN 1 ELSE 0
        /\ job[j].state \in {"none", "queued"} => net[j].pc = "none"
        /\ job[j].state = "dispatched" => net[j].pc # "none"
        /\ NotStarted(job[j].response) => net[j].pc # "sent" /\ net[j].answer # "result"
        /\ job[j].response = "result" => net[j].answer = "result"
        /\ job[j].response = "unknown" => net[j].pc # "none"

\* Callers wait for jobs that exist, and keep the one answer they got.
CallerInv ==
    \A c \in Callers :
        /\ caller[c].pc \in {"idle", "entered", "rescanned", "admitting"} =>
              job[c].state = "none" /\ caller[c].job = None
        /\ caller[c].pc = "waiting" => caller[c].job # None
        /\ caller[c].job # None => job[caller[c].job].state # "none"
        /\ caller[c].pc = "returned" /\ caller[c].job # None =>
              Done(caller[c].job) /\ caller[c].reply = job[caller[c].job].response
        /\ c \in jobs => job[c].state # "none"

\* One worker lives at most, and started says so.
WorkerInv ==
    /\ \A t \in Callers : Live(t) => started
    /\ \A t, u \in Callers : Live(t) /\ Live(u) => t = u

\* Every job has one owner - the queue, the worker or its control thread - and
\* the owner's program counter tells what may have been sent.
OwnerInv ==
    /\ \A i, k \in 1..Len(pending) : pending[i] = pending[k] => i = k
    /\ \A i \in 1..Len(pending) : /\ job[pending[i]].state \in {"queued", "completed"}
                                  /\ control[pending[i]] = "none"
    /\ \A t \in Callers : Preparing(t) =>
          /\ worker[t].job \in Callers
          /\ \A i \in 1..Len(pending) : pending[i] # worker[t].job
          /\ control[worker[t].job] = "none"
          /\ job[worker[t].job].state \in
                IF worker[t].pc = "post" THEN {"dispatched", "completed"}
                                         ELSE {"queued", "completed"}
          /\ worker[t].pc = "post" => net[worker[t].job].pc # "none"
    /\ \A j \in Callers :
          /\ control[j] # "none" => job[j].state # "none"
          /\ control[j] = "start" => job[j].state \in {"queued", "completed"}
          /\ control[j] = "post" => /\ job[j].state \in {"dispatched", "completed"}
                                    /\ net[j].pc # "none"

\* The inductive invariant behind the theorems of HostJobs_proofs: a message
\* exists exactly for jobs that left the queue, and only their owner sends it.
JobInv == AnswerInv /\ CallerInv /\ WorkerInv /\ OwnerInv

\* A job answered not_started (rejected, expired, host stopping) has not been
\* run by Unity and no message that could still run it is under way, whatever
\* raced: the caller's timeout, the dispatch, a retry, a stop.
NotStartedIsFinal ==
    \A j \in Callers : NotStarted(job[j].response) =>
        executed[j] = 0 /\ net[j].pc # "sent"

\* "unknown" is kept for jobs handed to Unity and not proven rejected: a job
\* that expires in the queue, also between its two attempts, is "expired".
UnknownWasHanded ==
    \A j \in Callers : job[j].response = "unknown" => net[j].pc # "none"

\* Everyone who waited for a job, under whatever deadline, got its one answer.
OneAnswer ==
    \A c \in Callers : caller[c].pc = "returned" /\ caller[c].job # None =>
        caller[c].reply = job[caller[c].job].response

\* A project's commands run one at a time: whatever sequence of dead editors,
\* restarts and submissions there was, one worker thread works at most.
OneWorker == \A t, u \in Callers : Preparing(t) /\ Preparing(u) => t = u

\* Command order: no job of the queue is handed to Unity while one admitted
\* earlier still waits or is prepared by the worker.
FifoDispatch ==
    \A j, k \in Callers :
        /\ caller[j].work \notin ControlWork /\ caller[k].work \notin ControlWork
        /\ 0 < job[j].ticket /\ job[j].ticket < job[k].ticket
        /\ net[k].pc # "none"
        => ~Queued(j) /\ \A t \in Callers : Preparing(t) => worker[t].job # j

\* Whatever is forgotten is finished: has_work sees every unanswered job.
UnansweredIsKnown ==
    \A j \in Callers : job[j].state \in {"queued", "dispatched"} => j \in jobs

\* What the host promises of every request (module RequestContract).
Contract == INSTANCE RequestContract WITH
    Requests <- Callers,
    effect <- executed,
    outcome <- [j \in Callers |-> IF NotStarted(job[j].response) THEN "not_started"
                                  ELSE job[j].response]

ImplementsContract == Contract!Spec

\* Once Unity is ready for good and the host is not retired, a waiting caller
\* is answered without any help of a deadline: no wakeup, worker or context is lost.
QueueDrains ==
    \A c \in Callers :
        (<>[](mode = "ready") /\ [](stopper = "idle"))
            => (caller[c].pc = "waiting" ~> caller[c].pc = "returned")

\* A stopping host's worker ends, even one that waits for a context that never comes.
WorkersRetire == \A t \in Callers : stopping /\ worker[t].pc # "none" ~> worker[t].pc = "exited"

\* Documentation: "Host requests retain their original deadline"; an expired
\* answer is then only given once the deadline of the job itself has passed.
OriginalDeadline == \A j \in Callers : job[j].response = "expired" => late[j]
=============================================================================
