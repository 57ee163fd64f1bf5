------------------------- MODULE CompilerWorker_proofs -------------------------
(* Proofs about CompilerWorker, for any finite set of requests and any number *)
(* of processes started.  The inductive invariant IInv says who may hold the  *)
(* lock at each step of a request, that the counter of waiters counts, that a *)
(* watchdog lives inside its request's exchange, and what the current         *)
(* process's pipes may hold at each step of the lock's holder.                *)
EXTENDS CompilerWorker, FiniteSetTheorems, SequenceTheorems, TLAPS

Waiting == {r \in Requests : req[r].pc \in {"waiting", "owned"}}

\* The counter counts the foreground requests that have not got past the lock.
WaitersInv ==
  /\ waiters = Cardinality(Waiting)
  /\ Waiting \subseteq Foreground

\* The lock's holder is the one request between Acquire or TakeIdle and Release.
LockInv ==
  \A r \in Requests : lock = r <=> req[r].pc \notin {"idle", "waiting", "done"}

\* A watchdog and the process it kills belong to the exchange under way.
DogOK(r) ==
  /\ dog[r] # "off" => req[r].pc \in {"write", "receive", "cancel", "join"}
  /\ dog[r] # "off" => req[r].child # None
  /\ req[r].pc \in {"write", "receive"} => proc = req[r].child /\ proc # None

\* A process nobody has asked anything yet: nothing but its end can come out of it.
Fresh(p) == p.input = None /\ \A i \in DOMAIN p.out : p.out[i] = "exited"

\* A process that was asked by r alone, and has answered once at most.
Asked(p, r) ==
  /\ p.input \in {None, r}
  /\ \A i \in DOMAIN p.out : p.out[i] \in {r, "exited"}
  /\ p.input = r => \A i \in DOMAIN p.out : p.out[i] = "exited"
  /\ \A i, j \in DOMAIN p.out : p.out[i] = r /\ p.out[j] = r => i = j

\* What the holder r of the lock may find in the pipes of the current process, which
\* it is about to stop in the cases that are left out.
PipeOK(r) ==
  /\ req[r].pc \in {"owned", "start", "write", "release"} => Fresh(procs[proc])
  /\ req[r].pc = "receive" => Asked(procs[proc], r)
  /\ req[r].pc \in {"cancel", "join", "judge"} =>
        req[r].got # "failed" /\ (req[r].got = r => Fresh(procs[proc]))

\* What a request took from a queue is its own answer, or news of a failure.
GotOK(r) ==
  /\ req[r].got \in {None, "exited", "failed", r}
  /\ req[r].pc \in {"cancel", "join", "judge"} => req[r].got # None

DogInv == \A r \in Requests : DogOK(r)
GotInv == \A r \in Requests : GotOK(r)

\* Between two exchanges the pipes of the current process are clean.
PipeInv ==
  proc # None => /\ lock = None => Fresh(procs[proc])
                 /\ \A r \in Requests : lock = r => PipeOK(r)

IInv == TypeOK /\ WaitersInv /\ LockInv /\ DogInv /\ PipeInv /\ GotInv

--------------------------------------------------------------------------------
(* Processes and their pipes *)

Processes == [alive : BOOLEAN, ended : BOOLEAN, input : Requests \cup {None}, out : Seq(Replies)]

\* What a step of process p changes of the sequence of processes.
LEMMA ProcessChange ==
  ASSUME TypeOK, NEW p \in 1..Len(procs), NEW q \in Processes,
         procs' = [procs EXCEPT ![p] = q]
  PROVE  /\ procs' \in Seq(Processes)
         /\ Len(procs') = Len(procs)
         /\ procs'[p] = q
         /\ \A k \in 1..Len(procs) \ {p} : procs'[k] = procs[k]
<1>1. procs \in Seq(Processes)
  BY DEF TypeOK, Processes
<1> QED BY <1>1, ExceptSeq

\* Every process is typed.
LEMMA ProcessType ==
  ASSUME TypeOK, NEW p \in 1..Len(procs)
  PROVE  /\ procs[p] \in Processes /\ procs[p].out \in Seq(Replies)
         /\ procs[p].alive \in BOOLEAN /\ procs[p].ended \in BOOLEAN
         /\ procs[p].input \in Requests \cup {None}
<1>1. procs[p] \in Processes
  BY ElementOfSeq DEF TypeOK, Processes
<1> QED BY <1>1 DEF Processes

\* Stopping, killing or crashing a process leaves its pipes as they are.
LEMMA KillType ==
  ASSUME TypeOK, NEW p \in 1..Len(procs), procs' = [procs EXCEPT ![p].alive = FALSE]
  PROVE  /\ procs' \in Seq(Processes)
         /\ Len(procs') = Len(procs)
         /\ \A k \in 1..Len(procs) : /\ procs'[k].out = procs[k].out
                                     /\ procs'[k].input = procs[k].input
<1> DEFINE q == [procs[p] EXCEPT !.alive = FALSE]
<1>1. q \in Processes /\ q.out = procs[p].out /\ q.input = procs[p].input
  BY ProcessType DEF Processes
<1>2. procs' = [procs EXCEPT ![p] = q]
  OBVIOUS
<1> HIDE DEF q
<1>3. /\ procs' \in Seq(Processes) /\ Len(procs') = Len(procs) /\ procs'[p] = q
      /\ \A k \in 1..Len(procs) \ {p} : procs'[k] = procs[k]
  BY <1>1, <1>2, ProcessChange
<1> QED BY <1>1, <1>3

\* Whatever becomes of the current process, a stop forgets it.
LEMMA StopType ==
  ASSUME TypeOK, Stop
  PROVE  proc' = None /\ procs' \in Seq(Processes) /\ Len(procs') = Len(procs)
<1>1. CASE proc = None
  BY <1>1 DEF Stop, TypeOK, Processes
<1>2. CASE proc # None
  BY <1>2, KillType DEF Stop, TypeOK
<1> QED BY <1>1, <1>2

\* The first states satisfy the invariant.
LEMMA InitInv == Init => IInv
<1> SUFFICES ASSUME Init PROVE IInv
  OBVIOUS
<1>1. TypeOK
  <2>1. NewProcess \in Processes
    BY DEF NewProcess, Processes
  <2>2. procs \in Seq(Processes) /\ proc \in 1..Len(procs) \cup {None}
    <3>1. CASE proc = None /\ procs = <<>>
      BY <3>1
    <3>2. CASE proc = 1 /\ procs = <<NewProcess>>
      BY <2>1, <3>2
    <3> QED BY <3>1, <3>2 DEF Init
  <2> QED BY <2>2 DEF Init, TypeOK, Processes, Pcs
<1>2. WaitersInv
  <2>1. Waiting = {}
    BY DEF Init, Waiting
  <2> QED BY <2>1, FS_EmptySet DEF Init, WaitersInv
<1>3. LockInv /\ DogInv /\ GotInv
  BY CompilerAssumption DEF Init, LockInv, DogInv, DogOK, GotInv, GotOK
<1>4. PipeInv
  BY CompilerAssumption DEF Init, PipeInv, PipeOK, Fresh, NewProcess
<1> QED BY <1>1, <1>2, <1>3, <1>4 DEF IInv

--------------------------------------------------------------------------------
(* The counter of waiters *)

\* The requests that wait are finitely many, so the counter is a number.
LEMMA WaitersType ==
  ASSUME WaitersInv
  PROVE  IsFiniteSet(Waiting) /\ Cardinality(Waiting) \in Nat /\ waiters \in Nat
<1>1. IsFiniteSet(Waiting)
  BY CompilerAssumption, FS_Subset DEF Waiting
<1> QED BY <1>1, FS_CardinalityType DEF WaitersInv

\* A step by which no request comes to wait or gets past the lock.
LEMMA WaitersKept ==
  ASSUME WaitersInv, waiters' = waiters,
         \A r \in Requests : req'[r].pc \in {"waiting", "owned"}
                                <=> req[r].pc \in {"waiting", "owned"}
  PROVE  WaitersInv'
<1>1. Waiting' = Waiting
  BY DEF Waiting
<1> QED BY <1>1 DEF WaitersInv

\* A request that comes to wait is counted.
LEMMA WaitersMore ==
  ASSUME WaitersInv, NEW r \in Foreground, waiters' = waiters + 1,
         req[r].pc = "idle", req'[r].pc = "waiting",
         \A s \in Requests \ {r} : req'[s] = req[s]
  PROVE  WaitersInv'
<1>1. Waiting' = Waiting \cup {r} /\ r \notin Waiting
  BY CompilerAssumption DEF Waiting
<1>2. Cardinality(Waiting \cup {r}) = Cardinality(Waiting) + 1
  BY <1>1, WaitersType, FS_AddElement
<1> QED BY <1>1, <1>2 DEF WaitersInv

\* A request that no longer waits is counted off.
LEMMA WaitersLess ==
  ASSUME WaitersInv, NEW r \in Requests, waiters' = waiters - 1,
         req[r].pc \in {"waiting", "owned"}, req'[r].pc \notin {"waiting", "owned"},
         \A s \in Requests \ {r} : req'[s] = req[s]
  PROVE  WaitersInv' /\ waiters' \in Nat
<1>1. Waiting' = Waiting \ {r} /\ r \in Waiting
  BY DEF Waiting
<1>2. Cardinality(Waiting \ {r}) = Cardinality(Waiting) - 1 /\ IsFiniteSet(Waiting \ {r})
  BY <1>1, WaitersType, FS_RemoveElement
<1>3. Cardinality(Waiting \ {r}) \in Nat
  BY <1>2, FS_CardinalityType
<1> QED BY <1>1, <1>2, <1>3 DEF WaitersInv

--------------------------------------------------------------------------------
(* The steps of a request *)

\* The type of a request's record, and what a step writes into it.
Calls == [pc : Pcs, got : Replies \cup {"failed", None}, child : 1..Len(procs) \cup {None},
          late : BOOLEAN, result : {"ok", "error", None}]

\* What a step writes into the record of its request.
LEMMA CallChange ==
  ASSUME TypeOK, NEW r \in Requests, NEW c \in Calls, req' = [req EXCEPT ![r] = c]
  PROVE  /\ req' \in [Requests -> Calls]
         /\ req'[r] = c
         /\ \A s \in Requests \ {r} : req'[s] = req[s]
  BY DEF TypeOK, Calls

\* A step that moves on, with or without a result or a message.
LEMMA CallFields ==
  ASSUME TypeOK, NEW r \in Requests, NEW p \in Pcs
  PROVE  /\ [req[r] EXCEPT !.pc = p] \in Calls
         /\ \A x \in {"ok", "error", None} : [req[r] EXCEPT !.pc = p, !.result = x] \in Calls
         /\ \A g \in Replies \cup {"failed", None} : [req[r] EXCEPT !.pc = p, !.got = g] \in Calls
         /\ \A k \in 1..Len(procs) \cup {None} : [req[r] EXCEPT !.pc = p, !.child = k] \in Calls
         /\ [req[r] EXCEPT !.late = TRUE] \in Calls
<1> USE DEF TypeOK, Calls
<1>1. req[r] \in Calls
  OBVIOUS
<1>2. [req[r] EXCEPT !.pc = p] \in Calls
  BY <1>1
<1>3. \A x \in {"ok", "error", None} : [req[r] EXCEPT !.pc = p, !.result = x] \in Calls
  BY <1>1
<1>4. \A g \in Replies \cup {"failed", None} : [req[r] EXCEPT !.pc = p, !.got = g] \in Calls
  BY <1>1
<1>5. \A k \in 1..Len(procs) \cup {None} : [req[r] EXCEPT !.pc = p, !.child = k] \in Calls
  BY <1>1
<1>6. [req[r] EXCEPT !.late = TRUE] \in Calls
  BY <1>1
<1> QED BY <1>2, <1>3, <1>4, <1>5, <1>6

\* A request goes on to its next step.
LEMMA GotoChange ==
  ASSUME TypeOK, NEW r \in Requests, NEW p \in Pcs, Goto(r, p)
  PROVE  /\ req' \in [Requests -> Calls]
         /\ req'[r] = [req[r] EXCEPT !.pc = p]
         /\ \A s \in Requests \ {r} : req'[s] = req[s]
<1> DEFINE c == [req[r] EXCEPT !.pc = p]
<1>1. c \in Calls /\ req' = [req EXCEPT ![r] = c]
  BY CallFields DEF Goto
<1> HIDE DEF c
<1>2. req' \in [Requests -> Calls] /\ req'[r] = c /\ \A s \in Requests \ {r} : req'[s] = req[s]
  BY <1>1, CallChange
<1> QED BY <1>2 DEF c

\* A request ends, or its exchange does, with a result.
LEMMA EndChange ==
  ASSUME TypeOK, NEW r \in Requests, NEW p \in Pcs, NEW x \in {"ok", "error"}, End(r, x, p)
  PROVE  /\ req' \in [Requests -> Calls]
         /\ req'[r] = [req[r] EXCEPT !.pc = p, !.result = x]
         /\ \A s \in Requests \ {r} : req'[s] = req[s]
<1> DEFINE c == [req[r] EXCEPT !.pc = p, !.result = x]
<1>1. c \in Calls /\ req' = [req EXCEPT ![r] = c]
  BY CallFields DEF End
<1> HIDE DEF c
<1>2. req' \in [Requests -> Calls] /\ req'[r] = c /\ \A s \in Requests \ {r} : req'[s] = req[s]
  BY <1>1, CallChange
<1> QED BY <1>2 DEF c

\* A request waits for the worker, gets it, or gives up.
LEMMA WaitStep ==
  ASSUME IInv, NEW r \in Requests,
         Enter(r) \/ Acquire(r) \/ Leave(r) \/ GiveUp(r) \/ TakeIdle(r) \/ Defer(r)
  PROVE  IInv'
<1> USE DEF IInv, At
<1>0. UNCHANGED <<dog, proc, procs>>
  BY DEF Enter, Acquire, Leave, GiveUp, TakeIdle, Defer
<1>1. /\ req' \in [Requests -> Calls]
      /\ \A s \in Requests \ {r} : req'[s] = req[s]
      /\ req'[r].got = req[r].got /\ req'[r].child = req[r].child
  <2>1. req[r] \in Calls
    BY DEF TypeOK, Calls
  <2>2. CASE Enter(r) \/ Acquire(r) \/ Leave(r) \/ TakeIdle(r)
    <3>1. \E p \in Pcs : Goto(r, p)
      BY <2>2 DEF Enter, Acquire, Leave, TakeIdle, Pcs
    <3> QED BY <2>1, <3>1, GotoChange DEF Calls
  <2>3. CASE GiveUp(r) \/ Defer(r)
    <3>1. End(r, "error", "done") /\ "done" \in Pcs
      BY <2>3 DEF GiveUp, Defer, Pcs
    <3>2. /\ req' \in [Requests -> Calls]
          /\ req'[r] = [req[r] EXCEPT !.pc = "done", !.result = "error"]
          /\ \A s \in Requests \ {r} : req'[s] = req[s]
      BY <3>1, EndChange
    <3> QED BY <2>1, <3>2 DEF Calls
  <2> QED BY <2>2, <2>3
<1>3. WaitersInv' /\ waiters' \in Nat
  <2>1. CASE Enter(r)
    BY <2>1, <1>1, WaitersMore, WaitersType DEF Enter, Goto, TypeOK
  <2>2. CASE Leave(r) \/ GiveUp(r)
    BY <2>2, <1>1, WaitersLess DEF Leave, GiveUp, Goto, End, TypeOK
  <2>3. CASE Acquire(r) \/ TakeIdle(r) \/ Defer(r)
    <3>1. /\ waiters' = waiters
          /\ \A s \in Requests : req'[s].pc \in {"waiting", "owned"}
                                   <=> req[s].pc \in {"waiting", "owned"}
      <4>1. /\ waiters' = waiters
            /\ req'[r].pc \in {"waiting", "owned"} <=> req[r].pc \in {"waiting", "owned"}
        <5>1. req \in [Requests -> Calls] /\ req[r] \in Calls
          BY DEF TypeOK, Calls
        <5>2. CASE Acquire(r)
          BY <5>1, <5>2 DEF Acquire, Goto, Calls
        <5>3. CASE TakeIdle(r)
          BY <5>1, <5>3 DEF TakeIdle, Goto, Calls
        <5>4. CASE Defer(r)
          BY <5>1, <5>4 DEF Defer, End, Calls
        <5> QED BY <2>3, <5>2, <5>3, <5>4
      <4> QED BY <1>1, <4>1
    <3> QED BY <3>1, WaitersKept, WaitersType
  <2> QED BY <2>1, <2>2, <2>3
<1>4. TypeOK'
  <2>1. lock' \in Requests \cup {None}
    BY DEF Enter, Acquire, Leave, GiveUp, TakeIdle, Defer, TypeOK
  <2> QED BY <1>0, <1>1, <1>3, <2>1 DEF TypeOK, Calls
<1>5. LockInv'
  BY <1>1, CompilerAssumption
  DEF Enter, Acquire, Leave, GiveUp, TakeIdle, Defer, Goto, End, LockInv, TypeOK
<1>6. DogInv'
  BY <1>0, <1>1 DEF Enter, Acquire, Leave, GiveUp, TakeIdle, Defer, Goto, End, DogInv, DogOK, TypeOK
<1>7. PipeInv'
  BY <1>0, <1>1, CompilerAssumption
  DEF Enter, Acquire, Leave, GiveUp, TakeIdle, Defer, Goto, End, PipeInv, PipeOK, LockInv, TypeOK
<1>8. GotInv'
  BY <1>0, <1>1 DEF Enter, Acquire, Leave, GiveUp, TakeIdle, Defer, Goto, End, GotInv, GotOK, TypeOK
<1> QED BY <1>3, <1>4, <1>5, <1>6, <1>7, <1>8

\* What is left to show of a step of the lock's holder.
LEMMA HolderFrame ==
  ASSUME IInv, NEW r \in Requests,
         req[r].pc \notin {"idle", "waiting", "owned", "done"},
         req'[r].pc \notin {"idle", "waiting", "owned", "done"},
         req' \in [Requests -> Calls'],
         \A s \in Requests \ {r} : req'[s] = req[s],
         NEW d \in {"off", "armed", "firing"}, dog' = [dog EXCEPT ![r] = d],
         waiters' = waiters, lock' = lock,
         procs' \in Seq(Processes), proc' \in 1..Len(procs') \cup {None},
         DogOK(r)', GotOK(r)', proc' # None => PipeOK(r)'
  PROVE  IInv'
<1> USE DEF IInv
<1>1. lock = r
  BY DEF LockInv
<1>2. TypeOK'
  BY DEF TypeOK, Calls, Processes
<1>3. WaitersInv'
  BY WaitersKept
<1>4. LockInv'
  BY DEF LockInv
<1>5. \A s \in Requests \ {r} : DogOK(s)'
  BY <1>1, CompilerAssumption DEF DogInv, DogOK, LockInv, TypeOK
<1>6. \A s \in Requests \ {r} : GotOK(s)'
  BY DEF GotInv, GotOK
<1>7. PipeInv'
  BY <1>1, CompilerAssumption DEF PipeInv
<1> QED BY <1>2, <1>3, <1>4, <1>5, <1>6, <1>7 DEF DogInv, GotInv

\* The holder finds a living process or starts one, and arms its watchdog.
LEMMA StartStep ==
  ASSUME IInv, NEW r \in Requests, Start(r) \/ StartFail(r)
  PROVE  IInv'
<1> USE DEF IInv, At
<1>1. lock = r /\ req[r].pc = "start"
  BY DEF Start, StartFail, LockInv
<1>2. dog[r] = "off" /\ GotOK(r) /\ req[r] \in Calls
  BY <1>1 DEF DogInv, DogOK, GotInv, TypeOK, Calls
<1>3. procs \in Seq(Processes) /\ Len(procs) \in Nat
  BY DEF TypeOK, Processes
<1>4. CASE StartFail(r)
  <2>1. End(r, "error", "release") /\ UNCHANGED procs /\ proc' \in {proc, None}
    BY <1>4 DEF StartFail
  <2>2. /\ req' \in [Requests -> Calls] /\ req'[r] = [req[r] EXCEPT !.pc = "release", !.result = "error"]
        /\ \A s \in Requests \ {r} : req'[s] = req[s]
    BY <2>1, EndChange DEF Pcs
  <2>3. dog' = [dog EXCEPT ![r] = "off"]
    BY <1>2, <1>4 DEF StartFail, TypeOK
  <2>4. DogOK(r)' /\ GotOK(r)'
    BY <1>2, <2>2, <2>3 DEF DogOK, GotOK, Calls, TypeOK
  <2>5. proc' # None => PipeOK(r)'
    BY <1>1, <1>2, <2>1, <2>2 DEF PipeInv, PipeOK, Calls
  <2>6. proc' \in 1..Len(procs') \cup {None} /\ Calls' = Calls
    BY <2>1 DEF TypeOK, Calls
  <2>7. req'[r].pc = "release"
    BY <1>2, <2>2 DEF Calls
  <2> QED BY <1>1, <1>3, <1>4, <2>1, <2>2, <2>3, <2>4, <2>5, <2>6, <2>7, HolderFrame DEF StartFail
<1>5. CASE Start(r)
  <2>1. /\ procs' \in Seq(Processes) /\ Len(procs') \in Nat /\ Len(procs) <= Len(procs')
        /\ proc' \in 1..Len(procs') /\ Fresh(procs'[proc'])
    <3>1. CASE Alive
      BY <1>1, <1>3, <1>5, <3>1 DEF Start, Alive, PipeInv, PipeOK, TypeOK
    <3>2. CASE ~Alive
      <4>1. procs' = Append(procs, NewProcess) /\ proc' = Len(procs) + 1
        BY <1>5, <3>2 DEF Start
      <4>2. NewProcess \in Processes
        BY DEF NewProcess, Processes
      <4>3. Fresh(NewProcess)
        BY DEF NewProcess, Fresh
      <4> HIDE DEF NewProcess
      <4> QED BY <1>3, <4>1, <4>2, <4>3, AppendProperties
    <3> QED BY <3>1, <3>2
  <2>2. Calls \subseteq Calls'
    BY <1>3, <2>1 DEF Calls
  <2>3. CASE End(r, "error", "release") /\ UNCHANGED dog
    <3>1. /\ req' \in [Requests -> Calls]
          /\ req'[r] = [req[r] EXCEPT !.pc = "release", !.result = "error"]
          /\ \A s \in Requests \ {r} : req'[s] = req[s]
      BY <2>3, EndChange DEF Pcs
    <3>2. req' \in [Requests -> Calls']
      BY <2>2, <3>1
    <3>3. dog' = [dog EXCEPT ![r] = "off"]
      BY <1>2, <2>3 DEF TypeOK
    <3>4. DogOK(r)' /\ GotOK(r)' /\ PipeOK(r)' /\ req'[r].pc = "release"
      BY <1>2, <2>1, <3>1, <3>3 DEF DogOK, GotOK, PipeOK, Calls, TypeOK
    <3> QED BY <1>1, <1>5, <2>1, <3>1, <3>2, <3>3, <3>4, HolderFrame DEF Start
  <2>4. CASE /\ dog' = [dog EXCEPT ![r] = "armed"]
             /\ req' = [req EXCEPT ![r].pc = "write", ![r].child = proc']
    <3> DEFINE c == [req[r] EXCEPT !.pc = "write", !.child = proc']
    <3>1. c \in Calls' /\ c.pc = "write" /\ c.child = proc' /\ c.got = req[r].got
      BY <1>2, <2>1, <2>2 DEF Calls, Pcs
    <3>2. req' = [req EXCEPT ![r] = c]
      BY <2>4
    <3> HIDE DEF c
    <3>3. /\ req' \in [Requests -> Calls'] /\ req'[r] = c
          /\ \A s \in Requests \ {r} : req'[s] = req[s]
      BY <2>2, <3>1, <3>2 DEF TypeOK, Calls
    <3>4. proc' # None
      BY <2>1, CompilerAssumption
    <3>5. DogOK(r)' /\ GotOK(r)' /\ PipeOK(r)'
      BY <1>2, <2>1, <2>4, <3>1, <3>3, <3>4 DEF DogOK, GotOK, PipeOK, TypeOK
    <3> QED BY <1>1, <1>5, <2>1, <2>4, <3>1, <3>3, <3>5, HolderFrame DEF Start
  <2> QED BY <1>5, <2>3, <2>4 DEF Start
<1> QED BY <1>4, <1>5

\* Two parts of a step of the holder that leaves the processes alone.
LEMMA PipesAlone ==
  ASSUME TypeOK, UNCHANGED <<proc, procs>>
  PROVE  /\ Calls' = Calls /\ procs' \in Seq(Processes)
         /\ proc' \in 1..Len(procs') \cup {None}
  BY DEF TypeOK, Calls, Processes

\* After a stop there is no process, and no pipe to speak of.
LEMMA PipesStopped ==
  ASSUME TypeOK, Stop
  PROVE  /\ Calls' = Calls /\ procs' \in Seq(Processes)
         /\ proc' = None /\ proc' \in 1..Len(procs') \cup {None}
  BY StopType DEF Calls

\* The holder asks the process, which is fresh.
LEMMA WriteStep ==
  ASSUME IInv, NEW r \in Requests, Write(r)
  PROVE  IInv'
<1> USE DEF IInv, At
<1>1. lock = r /\ req[r].pc = "write" /\ proc = req[r].child /\ proc # None
  BY DEF Write, LockInv, DogInv, DogOK
<1>2. proc \in 1..Len(procs) /\ Fresh(procs[proc])
  BY <1>1 DEF TypeOK, PipeInv, PipeOK
<1>3. GotOK(r) /\ DogOK(r) /\ req[r] \in Calls
  BY DEF GotInv, DogInv, TypeOK, Calls
<1> DEFINE q == [procs[proc] EXCEPT !.input = r]
<1>4. q \in Processes /\ q.input = r /\ q.out = procs[proc].out
  BY <1>2, ProcessType DEF Processes
<1>5. procs' = [procs EXCEPT ![proc] = q]
  BY <1>1 DEF Write
<1> HIDE DEF q
<1>6. procs' \in Seq(Processes) /\ Len(procs') = Len(procs) /\ procs'[proc] = q
  BY <1>2, <1>4, <1>5, ProcessChange
<1>7. Goto(r, "receive") /\ UNCHANGED <<lock, waiters, dog, proc>>
  BY DEF Write
<1>8. /\ req' \in [Requests -> Calls] /\ req'[r] = [req[r] EXCEPT !.pc = "receive"]
      /\ \A s \in Requests \ {r} : req'[s] = req[s]
  BY <1>7, GotoChange DEF Pcs
<1>9. Calls' = Calls
  BY <1>6 DEF Calls
<1>10. dog' = [dog EXCEPT ![r] = dog[r]] /\ dog[r] \in {"off", "armed", "firing"}
  BY <1>7 DEF TypeOK
<1>11. DogOK(r)' /\ GotOK(r)'
  BY <1>1, <1>3, <1>7, <1>8 DEF DogOK, GotOK, Calls
<1>12. Asked(q, r)
  BY <1>2, <1>4, CompilerAssumption DEF Asked, Fresh
<1>13. PipeOK(r)'
  BY <1>3, <1>6, <1>7, <1>8, <1>12 DEF PipeOK, Calls
<1>14. proc' \in 1..Len(procs')
  BY <1>2, <1>6, <1>7
<1> QED
  BY <1>1, <1>3, <1>6, <1>7, <1>8, <1>9, <1>10, <1>11, <1>13, <1>14, HolderFrame DEF Calls

\* The holder takes the next message of the current process.
LEMMA ReceiveStep ==
  ASSUME IInv, NEW r \in Requests, Receive(r)
  PROVE  IInv'
<1> USE DEF IInv, At
<1>1. lock = r /\ req[r].pc = "receive" /\ proc = req[r].child /\ proc # None
  BY DEF Receive, LockInv, DogInv, DogOK
<1>2. proc \in 1..Len(procs) /\ Asked(procs[proc], r)
  BY <1>1 DEF TypeOK, PipeInv, PipeOK
<1>3. GotOK(r) /\ DogOK(r) /\ req[r] \in Calls
  BY DEF GotInv, DogInv, TypeOK, Calls
<1> DEFINE out == procs[proc].out
           q == [procs[proc] EXCEPT !.out = Tail(out)]
<1>4. out \in Seq(Replies) /\ out # <<>>
  BY <1>2, ProcessType DEF Receive
<1>5. /\ Head(out) = out[1] /\ Tail(out) \in Seq(Replies) /\ 1 \in DOMAIN out
      /\ \A i \in DOMAIN Tail(out) : i + 1 \in DOMAIN out /\ i + 1 # 1 /\ Tail(out)[i] = out[i + 1]
  BY <1>4
<1>6. q \in Processes /\ q.input = procs[proc].input /\ q.out = Tail(out)
  BY <1>2, <1>5, ProcessType DEF Processes
<1>7. procs' = [procs EXCEPT ![proc] = q]
  BY <1>1 DEF Receive
<1>8. Head(out) \in {r, "exited"}
  BY <1>2, <1>5 DEF Asked
<1>9. Head(out) = r => Fresh(q)
  BY <1>2, <1>5, <1>6, CompilerAssumption DEF Asked, Fresh
<1>10. UNCHANGED <<lock, waiters, dog, proc>>
       /\ req' = [req EXCEPT ![r].pc = "cancel", ![r].got = Head(out)]
  BY DEF Receive
<1> HIDE DEF q
<1>11. procs' \in Seq(Processes) /\ Len(procs') = Len(procs) /\ procs'[proc] = q
  BY <1>2, <1>6, <1>7, ProcessChange
<1> DEFINE c == [req[r] EXCEPT !.pc = "cancel", !.got = Head(out)]
<1>12. c \in Calls /\ c.pc = "cancel" /\ c.got = Head(out) /\ c.child = req[r].child
  BY <1>3, <1>8 DEF Calls, Pcs, Replies
<1>13. req' = [req EXCEPT ![r] = c]
  BY <1>10
<1> HIDE DEF c
<1>14. req' \in [Requests -> Calls] /\ req'[r] = c /\ \A s \in Requests \ {r} : req'[s] = req[s]
  BY <1>12, <1>13, CallChange
<1>15. Calls' = Calls
  BY <1>11 DEF Calls
<1>16. dog' = [dog EXCEPT ![r] = dog[r]] /\ dog[r] \in {"off", "armed", "firing"}
  BY <1>10 DEF TypeOK
<1>17. DogOK(r)' /\ GotOK(r)'
  BY <1>1, <1>3, <1>8, <1>10, <1>12, <1>14, CompilerAssumption DEF DogOK, GotOK
<1>18. PipeOK(r)'
  BY <1>8, <1>9, <1>10, <1>11, <1>12, <1>14, CompilerAssumption DEF PipeOK
<1>19. proc' \in 1..Len(procs')
  BY <1>2, <1>10, <1>11
<1> HIDE DEF out
<1> QED
  BY <1>1, <1>10, <1>11, <1>12, <1>14, <1>15, <1>16, <1>17, <1>18, <1>19, HolderFrame

\* A write or a read fails: the process is stopped.
LEMMA FailStep ==
  ASSUME IInv, NEW r \in Requests, WriteFail(r) \/ GetTimeout(r)
  PROVE  IInv'
<1> USE DEF IInv, At
<1>1. lock = r /\ req[r].pc \in {"write", "receive"}
  BY DEF WriteFail, GetTimeout, LockInv
<1>2. GotOK(r) /\ DogOK(r) /\ req[r] \in Calls
  BY DEF GotInv, DogInv, TypeOK, Calls
<1>3. Stop /\ UNCHANGED <<lock, waiters, dog>>
      /\ req' = [req EXCEPT ![r].pc = "cancel", ![r].got = "failed"]
  BY DEF WriteFail, GetTimeout, Failed
<1> DEFINE c == [req[r] EXCEPT !.pc = "cancel", !.got = "failed"]
<1>4. c \in Calls /\ c.pc = "cancel" /\ c.got = "failed" /\ c.child = req[r].child
  BY <1>2 DEF Calls, Pcs
<1>5. req' = [req EXCEPT ![r] = c]
  BY <1>3
<1> HIDE DEF c
<1>6. req' \in [Requests -> Calls] /\ req'[r] = c /\ \A s \in Requests \ {r} : req'[s] = req[s]
  BY <1>4, <1>5, CallChange
<1>7. dog' = [dog EXCEPT ![r] = dog[r]] /\ dog[r] \in {"off", "armed", "firing"}
  BY <1>3 DEF TypeOK
<1>8. DogOK(r)' /\ GotOK(r)'
  BY <1>1, <1>2, <1>3, <1>4, <1>6, CompilerAssumption DEF DogOK, GotOK
<1> QED
  BY <1>1, <1>3, <1>4, <1>6, <1>7, <1>8, PipesStopped, HolderFrame

\* The exchange is over: its watchdog is cancelled, or waited for.
LEMMA CancelStep ==
  ASSUME IInv, NEW r \in Requests, Cancel(r) \/ Join(r)
  PROVE  IInv'
<1> USE DEF IInv, At
<1>1. lock = r /\ req[r].pc \in {"cancel", "join"}
  BY DEF Cancel, Join, LockInv
<1>2. GotOK(r) /\ DogOK(r) /\ req[r] \in Calls /\ (proc # None => PipeOK(r))
  BY <1>1 DEF GotInv, DogInv, PipeInv, TypeOK, Calls
<1>3. UNCHANGED <<lock, waiters, proc, procs>>
  BY DEF Cancel, Join
<1>4. PICK p \in {"join", "judge"} : Goto(r, p) /\ (p = "judge" <=> req[r].pc = "join")
  BY DEF Cancel, Join
<1>5. /\ req' \in [Requests -> Calls] /\ req'[r] = [req[r] EXCEPT !.pc = p]
      /\ \A s \in Requests \ {r} : req'[s] = req[s]
  BY <1>4, GotoChange DEF Pcs
<1>6. PICK d \in {"off", dog[r]} : dog' = [dog EXCEPT ![r] = d] /\ (p = "judge" => d = "off")
  BY <1>4 DEF Cancel, Join, TypeOK
<1>7. DogOK(r)' /\ GotOK(r)' /\ (proc' # None => PipeOK(r)')
  BY <1>1, <1>2, <1>3, <1>4, <1>5, <1>6 DEF DogOK, GotOK, PipeOK, Calls, TypeOK
<1>8. req'[r].pc = p /\ d \in {"off", "armed", "firing"}
  BY <1>2, <1>5 DEF Calls, TypeOK
<1> QED
  BY <1>1, <1>3, <1>4, <1>5, <1>6, <1>7, <1>8, PipesAlone, HolderFrame

\* The holder judges what it got, and stops the process in every case of doubt.
LEMMA JudgeStep ==
  ASSUME IInv, NEW r \in Requests, Judge(r)
  PROVE  IInv'
<1> USE DEF IInv, At
<1>1. lock = r /\ req[r].pc = "judge" /\ UNCHANGED <<lock, waiters, dog>>
  BY DEF Judge, LockInv
<1>2. /\ GotOK(r) /\ DogOK(r) /\ (proc # None => PipeOK(r)) /\ req[r] \in Calls
      /\ dog[r] = "off"
  BY <1>1 DEF GotInv, DogInv, DogOK, PipeInv, TypeOK, Calls
<1>3. PICK x \in {"ok", "error"} : End(r, x, "release")
  BY DEF Judge
<1>4. /\ req' \in [Requests -> Calls] /\ req'[r] = [req[r] EXCEPT !.pc = "release", !.result = x]
      /\ \A s \in Requests \ {r} : req'[s] = req[s]
  <2>1. "release" \in Pcs
    BY DEF Pcs
  <2>2. CASE x = "ok"
    BY <1>3, <2>1, <2>2, EndChange
  <2>3. CASE x = "error"
    BY <1>3, <2>1, <2>3, EndChange
  <2> QED BY <2>2, <2>3
<1>5. req'[r].pc = "release" /\ req'[r].got = req[r].got /\ req'[r].child = req[r].child
  BY <1>2, <1>4 DEF Calls
<1>6. dog' = [dog EXCEPT ![r] = "off"]
  BY <1>1, <1>2 DEF TypeOK
<1>7. GotOK(r)' /\ DogOK(r)'
  BY <1>1, <1>2, <1>5 DEF GotOK, DogOK
<1>8. CASE Stop
  BY <1>1, <1>4, <1>5, <1>6, <1>7, <1>8, PipesStopped, HolderFrame
<1>9. CASE UNCHANGED <<proc, procs>> /\ (req[r].got = "failed" \/ req[r].got = r)
  <2>1. proc' # None => PipeOK(r)'
    BY <1>1, <1>2, <1>5, <1>9 DEF PipeOK
  <2> QED BY <1>1, <1>4, <1>5, <1>6, <1>7, <1>9, <2>1, PipesAlone, HolderFrame
<1> QED BY <1>8, <1>9 DEF Judge

\* The worker is given back.
LEMMA ReleaseStep ==
  ASSUME IInv, NEW r \in Requests, Release(r)
  PROVE  IInv'
<1> USE DEF IInv, At
<1>1. /\ lock = r /\ req[r].pc = "release" /\ lock' = None
      /\ Goto(r, "done") /\ UNCHANGED <<waiters, dog, proc, procs>>
  BY DEF Release, LockInv
<1>2. GotOK(r) /\ DogOK(r) /\ (proc # None => PipeOK(r)) /\ req[r] \in Calls
  BY <1>1 DEF GotInv, DogInv, PipeInv, TypeOK, Calls
<1>3. /\ req' \in [Requests -> Calls] /\ req'[r] = [req[r] EXCEPT !.pc = "done"]
      /\ \A s \in Requests \ {r} : req'[s] = req[s]
  BY <1>1, GotoChange DEF Pcs
<1>4. req'[r].pc = "done" /\ req'[r].got = req[r].got /\ req'[r].child = req[r].child
  BY <1>2, <1>3 DEF Calls
<1>5. TypeOK'
  BY <1>1, <1>3 DEF TypeOK, Calls
<1>6. WaitersInv'
  BY <1>1, <1>3, <1>4, WaitersKept
<1>7. LockInv'
  <2>1. lock' = None /\ \A s \in Requests : lock' # s
    BY <1>1, CompilerAssumption
  <2>2. \A s \in Requests \ {r} : lock # s
    BY <1>1
  <2>3. \A s \in Requests \ {r} : req'[s] = req[s]
    BY <1>3
  <2> QED BY <1>4, <2>1, <2>2, <2>3 DEF LockInv
<1>8. DogInv' /\ GotInv'
  <2>1. DogOK(r)' /\ GotOK(r)'
    BY <1>1, <1>2, <1>4 DEF DogOK, GotOK
  <2>2. ASSUME NEW s \in Requests \ {r} PROVE DogOK(s)' /\ GotOK(s)'
    <3>1. DogOK(s) /\ GotOK(s) /\ req'[s] = req[s]
      BY <1>3 DEF DogInv, GotInv
    <3> QED BY <1>1, <3>1 DEF DogOK, GotOK
  <2> QED BY <2>1, <2>2 DEF DogInv, GotInv
<1>9. PipeInv'
  BY <1>1, <1>2, CompilerAssumption DEF PipeInv, PipeOK
<1> QED BY <1>5, <1>6, <1>7, <1>8, <1>9

\* Closing takes the process of a worker that is free.
LEMMA CloseStep ==
  ASSUME IInv, Close
  PROVE  IInv'
<1> USE DEF IInv
<1>1. lock = None /\ Stop /\ UNCHANGED <<lock, waiters, req, dog>>
  BY DEF Close
<1>2. TypeOK'
  BY <1>1, StopType DEF TypeOK, Processes
<1>3. WaitersInv' /\ LockInv' /\ GotInv'
  BY <1>1 DEF WaitersInv, Waiting, LockInv, GotInv, GotOK
<1>4. DogInv'
  BY <1>1, CompilerAssumption DEF DogInv, DogOK, LockInv
<1>5. PipeInv'
  BY <1>1 DEF PipeInv, Stop
<1> QED BY <1>2, <1>3, <1>4, <1>5

--------------------------------------------------------------------------------
(* The steps of watchdogs and processes *)

\* What is left to show of a step that changes processes only, in what they take in and
\* give out or in whether they live.
LEMMA ProcessFrame ==
  ASSUME IInv, UNCHANGED <<lock, waiters, req, proc>>,
         dog' = dog \/ \E r \in Requests : dog' = [dog EXCEPT ![r] = "off"],
         procs' \in Seq(Processes), Len(procs') = Len(procs),
         proc # None /\ Fresh(procs[proc]) => Fresh(procs'[proc]),
         proc # None => \A r \in Requests : Asked(procs[proc], r) => Asked(procs'[proc], r)
  PROVE  IInv'
<1> USE DEF IInv
<1>1. TypeOK'
  BY DEF TypeOK, Processes
<1>2. WaitersInv' /\ LockInv' /\ GotInv'
  BY DEF WaitersInv, Waiting, LockInv, GotInv, GotOK
<1>3. DogInv'
  BY DEF DogInv, DogOK, TypeOK
<1>4. PipeInv'
  BY DEF PipeInv, PipeOK
<1> QED BY <1>1, <1>2, <1>3, <1>4

\* A process dies.
LEMMA KillStep ==
  ASSUME IInv, NEW p \in 1..Len(procs), procs' = [procs EXCEPT ![p].alive = FALSE],
         UNCHANGED <<lock, waiters, req, proc>>,
         dog' = dog \/ \E r \in Requests : dog' = [dog EXCEPT ![r] = "off"]
  PROVE  IInv'
<1>1. /\ procs' \in Seq(Processes) /\ Len(procs') = Len(procs)
      /\ \A k \in 1..Len(procs) : procs'[k].out = procs[k].out /\ procs'[k].input = procs[k].input
  BY KillType DEF IInv
<1>2. proc # None => proc \in 1..Len(procs)
  BY DEF IInv, TypeOK
<1> QED BY <1>1, <1>2, ProcessFrame DEF Fresh, Asked

\* A watchdog fires and kills.
LEMMA WatchdogStep ==
  ASSUME IInv, NEW r \in Requests, Watchdog(r)
  PROVE  IInv'
<1> USE DEF IInv
<1>1. CASE FireKill(r)
  <2>1. req[r].child \in 1..Len(procs)
    BY <1>1 DEF FireKill, DogInv, DogOK, TypeOK
  <2> QED BY <1>1, <2>1, KillStep DEF FireKill
<1>2. CASE FireBegin(r)
  <2>1. /\ dog[r] = "armed" /\ dog' = [dog EXCEPT ![r] = "firing"]
        /\ UNCHANGED <<lock, waiters, proc, procs>>
    BY <1>2 DEF FireBegin
  <2>2. lock = r /\ req[r].pc \in {"write", "receive", "cancel", "join"} /\ req[r] \in Calls
    BY <2>1 DEF DogInv, DogOK, LockInv, TypeOK, Calls
  <2>3. GotOK(r) /\ DogOK(r) /\ (proc # None => PipeOK(r))
    BY <2>2 DEF GotInv, DogInv, PipeInv
  <2> DEFINE c == [req[r] EXCEPT !.late = TRUE]
  <2>4. c \in Calls /\ c.pc = req[r].pc /\ c.got = req[r].got /\ c.child = req[r].child
    BY <2>2 DEF Calls
  <2>5. req' = [req EXCEPT ![r] = c]
    BY <1>2 DEF FireBegin
  <2> HIDE DEF c
  <2>6. req' \in [Requests -> Calls] /\ req'[r] = c /\ \A s \in Requests \ {r} : req'[s] = req[s]
    BY <2>4, <2>5, CallChange
  <2>7. GotOK(r)' /\ DogOK(r)' /\ (proc' # None => PipeOK(r)')
    BY <2>1, <2>2, <2>3, <2>4, <2>6 DEF GotOK, DogOK, PipeOK
  <2> QED
    BY <2>1, <2>2, <2>4, <2>6, <2>7, PipesAlone, HolderFrame
<1> QED BY <1>1, <1>2 DEF Watchdog

\* A process answers, dies or is given up by its reader.
LEMMA ProcessStep ==
  ASSUME IInv, NEW p \in 1..Len(procs), Process(p)
  PROVE  IInv'
<1> USE DEF IInv
<1>1. CASE Crash(p)
  BY <1>1, KillStep DEF Crash
<1>2. CASE Compile(p)
  <2> DEFINE in == procs[p].input
             out == IF procs[p].ended THEN procs[p].out ELSE Append(procs[p].out, in)
             q == [procs[p] EXCEPT !.input = None, !.out = out]
  <2>1. /\ in \in Requests /\ procs[p] \in Processes /\ procs[p].out \in Seq(Replies)
        /\ in \in Replies
    BY <1>2, ProcessType DEF Compile, Replies
  <2>2. out \in Seq(Replies)
    BY <2>1
  <2>3. q \in Processes /\ q.input = None /\ q.out = out
    BY <2>1, <2>2 DEF Processes
  <2>4. procs' = [procs EXCEPT ![p] = q]
    BY <1>2 DEF Compile
  <2>5. ~Fresh(procs[p])
    BY <2>1, CompilerAssumption DEF Fresh
  <2>6. ASSUME NEW r \in Requests, Asked(procs[p], r) PROVE Asked(q, r)
    <3>1. in = r /\ \A i \in DOMAIN procs[p].out : procs[p].out[i] = "exited"
      BY <2>1, <2>6, CompilerAssumption DEF Asked
    <3>2. CASE procs[p].ended
      BY <2>3, <3>1, <3>2, CompilerAssumption DEF Asked
    <3>3. CASE ~procs[p].ended
      <4>1. /\ Len(out) = Len(procs[p].out) + 1 /\ out[Len(procs[p].out) + 1] = r
            /\ \A i \in 1..Len(procs[p].out) : out[i] = procs[p].out[i]
        BY <2>1, <3>1, <3>3, AppendProperties
      <4>2. DOMAIN out = 1..(Len(procs[p].out) + 1) /\ DOMAIN procs[p].out = 1..Len(procs[p].out)
            /\ Len(procs[p].out) \in Nat
        BY <2>1, <2>2, <4>1
      <4> HIDE DEF out
      <4>3. \A i \in DOMAIN out : out[i] = "exited" \/ (out[i] = r /\ i = Len(procs[p].out) + 1)
        BY <3>1, <4>1, <4>2
      <4> QED BY <2>3, <4>3, CompilerAssumption DEF Asked
    <3> QED BY <3>2, <3>3
  <2> HIDE DEF q
  <2>7. /\ procs' \in Seq(Processes) /\ Len(procs') = Len(procs) /\ procs'[p] = q
        /\ \A k \in 1..Len(procs) \ {p} : procs'[k] = procs[k]
    BY <2>3, <2>4, ProcessChange
  <2>8. proc # None => proc \in 1..Len(procs)
    BY DEF TypeOK
  <2> QED BY <1>2, <2>5, <2>6, <2>7, <2>8, ProcessFrame DEF Compile
<1>3. CASE ReaderEnds(p)
  <2> DEFINE out == Append(procs[p].out, "exited")
             q == [procs[p] EXCEPT !.ended = TRUE, !.out = out]
  <2>1. procs[p] \in Processes /\ procs[p].out \in Seq(Replies) /\ "exited" \in Replies
    BY ProcessType DEF Replies
  <2>2. /\ out \in Seq(Replies)
        /\ Len(out) = Len(procs[p].out) + 1 /\ out[Len(procs[p].out) + 1] = "exited"
        /\ \A i \in 1..Len(procs[p].out) : out[i] = procs[p].out[i]
    BY <2>1, AppendProperties
  <2>3. DOMAIN out = 1..(Len(procs[p].out) + 1) /\ DOMAIN procs[p].out = 1..Len(procs[p].out)
        /\ Len(procs[p].out) \in Nat
    BY <2>1, <2>2
  <2> HIDE DEF out
  <2>4. q \in Processes /\ q.input = procs[p].input /\ q.out = out
    BY <2>1, <2>2 DEF Processes
  <2>5. procs' = [procs EXCEPT ![p] = q]
    BY <1>3 DEF ReaderEnds, out
  <2> HIDE DEF q
  <2>6. \A i \in DOMAIN out : out[i] = "exited" \/ (i \in DOMAIN procs[p].out /\ out[i] = procs[p].out[i])
    BY <2>2, <2>3
  <2>7. Fresh(procs[p]) => Fresh(q)
    BY <2>4, <2>6 DEF Fresh
  <2>8. \A r \in Requests : Asked(procs[p], r) => Asked(q, r)
    BY <2>4, <2>6, CompilerAssumption DEF Asked
  <2>9. /\ procs' \in Seq(Processes) /\ Len(procs') = Len(procs) /\ procs'[p] = q
        /\ \A k \in 1..Len(procs) \ {p} : procs'[k] = procs[k]
    BY <2>4, <2>5, ProcessChange
  <2>10. proc # None => proc \in 1..Len(procs)
    BY DEF TypeOK
  <2> QED BY <1>3, <2>7, <2>8, <2>9, <2>10, ProcessFrame DEF ReaderEnds
<1> QED BY <1>1, <1>2, <1>3 DEF Process

--------------------------------------------------------------------------------
(* The theorems *)

\* Every step preserves the invariant.
LEMMA StepInv == IInv /\ [Next]_vars => IInv'
<1> SUFFICES ASSUME IInv, [Next]_vars PROVE IInv'
  OBVIOUS
<1>1. ASSUME NEW r \in Requests, Request(r) PROVE IInv'
  BY <1>1, WaitStep, StartStep, WriteStep, FailStep, ReceiveStep, CancelStep, JudgeStep,
     ReleaseStep DEF Request
<1>2. ASSUME NEW r \in Requests, Watchdog(r) PROVE IInv'
  BY <1>2, WatchdogStep
<1>3. ASSUME NEW p \in 1..Len(procs), Process(p) PROVE IInv'
  BY <1>3, ProcessStep
<1>4. CASE Close
  BY <1>4, CloseStep
<1>5. CASE UNCHANGED vars
  BY <1>5, ProcessFrame
  DEF vars, IInv, TypeOK, Processes
<1> QED BY <1>1, <1>2, <1>3, <1>4, <1>5 DEF Next

\* IInv holds of every reachable state.
THEOREM Invariant == Spec => []IInv
<1> QED BY InitInv, StepInv, PTL DEF Spec

\* Every reachable state is well typed; the counter of waiters never falls below zero.
THEOREM TypeCorrect == Spec => []TypeOK
<1>1. IInv => TypeOK
  BY DEF IInv
<1> QED BY <1>1, Invariant, PTL

\* A watchdog that is armed or fires belongs to the request that has the worker, so it
\* never kills the process of a later request (_watchdog, request).
THEOREM WatchdogsOwn == Spec => []WatchdogOwn
<1>1. IInv => WatchdogOwn
  BY DEF IInv, DogInv, DogOK, LockInv, WatchdogOwn
<1> QED BY <1>1, Invariant, PTL

\* After any timeouts, crashes and restarts, a request takes its own answer from the
\* queue or none (request, _start, _stop).
THEOREM AnswersOwn == Spec => []AnswersMatch
<1>1. IInv => AnswersMatch
  BY CompilerAssumption DEF IInv, GotInv, GotOK, AnswersMatch
<1> QED BY <1>1, Invariant, PTL

\* Background work takes the worker only while no execution waits for it
\* (foreground_waiters).
THEOREM BackgroundLast == Spec => BackgroundYields
<1> DEFINE Yields == \A b \in Requests \ Foreground : lock # b /\ lock' = b =>
                        \A r \in Foreground : ~At(r, "waiting")
<1>1. IInv /\ [Next]_vars => Yields
  <2> SUFFICES ASSUME IInv, [Next]_vars, NEW b \in Requests \ Foreground, lock # b, lock' = b
               PROVE  \A r \in Foreground : ~At(r, "waiting")
    OBVIOUS
  <2>1. b # None /\ ~Acquire(b)
    BY CompilerAssumption DEF IInv, WaitersInv, Waiting, Acquire, At
  <2>2. TakeIdle(b)
    <3>1. ASSUME NEW r \in Requests, Request(r) PROVE TakeIdle(b)
      <4>1. CASE Acquire(r) \/ TakeIdle(r)
        BY <2>1, <4>1 DEF Acquire, TakeIdle
      <4>2. CASE Release(r)
        BY <2>1, <4>2 DEF Release
      <4>3. CASE Enter(r) \/ Leave(r) \/ GiveUp(r) \/ Defer(r) \/ Start(r) \/ StartFail(r)
                 \/ Write(r) \/ WriteFail(r)
        BY <2>1, <4>3 DEF Enter, Leave, GiveUp, Defer, Start, StartFail, Write, WriteFail
      <4>4. CASE Receive(r) \/ GetTimeout(r) \/ Cancel(r) \/ Join(r) \/ Judge(r)
        BY <2>1, <4>4 DEF Receive, GetTimeout, Cancel, Join, Judge
      <4> QED BY <3>1, <4>1, <4>2, <4>3, <4>4 DEF Request
    <3>2. ASSUME NEW r \in Requests PROVE ~Watchdog(r)
      BY DEF Watchdog, FireBegin, FireKill
    <3>3. ASSUME NEW p \in 1..Len(procs) PROVE ~Process(p)
      BY DEF Process, Compile, Crash, ReaderEnds
    <3>4. ~Close /\ ~UNCHANGED vars
      BY DEF Close, vars
    <3> QED BY <3>1, <3>2, <3>3, <3>4 DEF Next
  <2>3. Cardinality(Waiting) = 0
    BY <2>2 DEF TakeIdle, IInv, WaitersInv
  <2>4. Waiting = {}
    BY <2>3, WaitersType, FS_EmptySet DEF IInv
  <2> QED BY <2>4, CompilerAssumption DEF Waiting, At
<1> QED BY <1>1, Invariant, PTL DEF Spec, BackgroundYields

--------------------------------------------------------------------------------
(* Whoever has the worker can go on.                                          *)

\* A write to a living process is watched; a watchdog is only waited for once it fires.
Guarded(r) ==
  /\ At(r, "write") => dog[r] # "off" \/ ~procs[req[r].child].alive
  /\ At(r, "join")  => dog[r] # "armed"

GuardInv == \A r \in Requests : Guarded(r)

\* A process that is dead stays dead.
DeadStays == /\ 1..Len(procs) \subseteq 1..Len(procs')
             /\ \A p \in 1..Len(procs) : procs'[p].alive => procs[p].alive

\* Every step that changes one process leaves it dead if it was.
LEMMA OneProcess ==
  ASSUME TypeOK, NEW p \in 1..Len(procs), NEW q, q.alive => procs[p].alive,
         procs' = [procs EXCEPT ![p] = q]
  PROVE  DeadStays
<1>1. procs \in Seq(Processes)
  BY DEF TypeOK, Processes
<1>2. DOMAIN procs = 1..Len(procs) /\ Len(procs) \in Nat
  BY <1>1, LenProperties
<1>3. Len(procs') = Len(procs)
  BY <1>2
<1>4. \A k \in 1..Len(procs) : procs'[k] = IF k = p THEN q ELSE procs[k]
  BY <1>2
<1> QED BY <1>3, <1>4 DEF DeadStays

LEMMA DeadStay ==
  ASSUME IInv, [Next]_vars
  PROVE  DeadStays
<1> USE DEF IInv, At
<1>1. procs \in Seq(Processes) /\ Len(procs) \in Nat /\ DOMAIN procs = 1..Len(procs)
  BY LenProperties DEF TypeOK, Processes
<1>2. CASE UNCHANGED procs
  BY <1>2 DEF DeadStays
<1>3. CASE Stop
  <2>1. CASE proc = None
    BY <1>2, <1>3, <2>1 DEF Stop
  <2>2. CASE proc # None
    <3>1. proc \in 1..Len(procs)
      BY <2>2 DEF TypeOK
    <3>2. procs' = [procs EXCEPT ![proc] = [procs[proc] EXCEPT !.alive = FALSE]]
      BY <1>3, <2>2 DEF Stop
    <3>3. [procs[proc] EXCEPT !.alive = FALSE].alive = FALSE
      BY <3>1, ProcessType DEF Processes
    <3> QED BY <3>1, <3>2, <3>3, OneProcess
  <2> QED BY <2>1, <2>2
<1>4. ASSUME NEW r \in Requests, Start(r) PROVE DeadStays
  <2>1. CASE procs' = Append(procs, NewProcess)
    <3>1. NewProcess \in Processes
      BY EmptySeq DEF NewProcess, Processes
    <3>2. /\ Len(procs') = Len(procs) + 1
          /\ \A p \in 1..Len(procs) : procs'[p] = procs[p]
      BY <1>1, <2>1, <3>1, AppendProperties
    <3> QED BY <1>1, <3>2 DEF DeadStays
  <2> QED BY <1>2, <1>4, <2>1 DEF Start
<1>5. ASSUME NEW r \in Requests, Write(r) PROVE DeadStays
  <2> DEFINE p == req[r].child
  <2>1. p \in 1..Len(procs)
    BY <1>5 DEF Write, DogInv, DogOK, TypeOK
  <2>2. procs' = [procs EXCEPT ![p] = [procs[p] EXCEPT !.input = r]]
    BY <1>5 DEF Write
  <2> HIDE DEF p
  <2>3. [procs[p] EXCEPT !.input = r].alive = procs[p].alive
    BY <2>1, ProcessType DEF Processes
  <2> QED BY <2>1, <2>2, <2>3, OneProcess
<1>6. ASSUME NEW r \in Requests, Receive(r) PROVE DeadStays
  <2>1. proc \in 1..Len(procs)
    BY <1>6 DEF Receive, DogInv, DogOK, TypeOK
  <2>2. procs' = [procs EXCEPT ![proc] = [procs[proc] EXCEPT !.out = Tail(procs[proc].out)]]
    BY <1>6 DEF Receive
  <2>3. [procs[proc] EXCEPT !.out = Tail(procs[proc].out)].alive = procs[proc].alive
    BY <2>1, ProcessType DEF Processes
  <2> QED BY <2>1, <2>2, <2>3, OneProcess
<1>7. ASSUME NEW r \in Requests, FireKill(r) PROVE DeadStays
  <2> DEFINE p == req[r].child
  <2>1. p \in 1..Len(procs)
    BY <1>7 DEF FireKill, DogInv, DogOK, TypeOK
  <2>2. procs' = [procs EXCEPT ![p] = [procs[p] EXCEPT !.alive = FALSE]]
    BY <1>7 DEF FireKill
  <2> HIDE DEF p
  <2>3. [procs[p] EXCEPT !.alive = FALSE].alive = FALSE
    BY <2>1, ProcessType DEF Processes
  <2> QED BY <2>1, <2>2, <2>3, OneProcess
<1>8. ASSUME NEW p \in 1..Len(procs), Process(p) PROVE DeadStays
  <2>1. procs[p] \in Processes
    BY ProcessType
  <2>2. \E q : procs' = [procs EXCEPT ![p] = q] /\ (q.alive => procs[p].alive)
    <3>1. CASE Compile(p)
      <4> DEFINE q == [procs[p] EXCEPT !.input = None,
                                       !.out = IF procs[p].ended THEN procs[p].out
                                               ELSE Append(procs[p].out, procs[p].input)]
      <4>1. procs' = [procs EXCEPT ![p] = q]
        BY <3>1 DEF Compile
      <4>2. q.alive = procs[p].alive
        BY <2>1 DEF Processes
      <4> QED BY <4>1, <4>2
    <3>2. CASE Crash(p)
      <4> DEFINE q == [procs[p] EXCEPT !.alive = FALSE]
      <4>1. procs' = [procs EXCEPT ![p] = q]
        BY <3>2 DEF Crash
      <4>2. q.alive = FALSE
        BY <2>1 DEF Processes
      <4> QED BY <4>1, <4>2
    <3>3. CASE ReaderEnds(p)
      <4> DEFINE q == [procs[p] EXCEPT !.ended = TRUE, !.out = Append(procs[p].out, "exited")]
      <4>1. procs' = [procs EXCEPT ![p] = q]
        BY <3>3 DEF ReaderEnds
      <4>2. q.alive = procs[p].alive
        BY <2>1 DEF Processes
      <4> QED BY <4>1, <4>2
    <3> QED BY <1>8, <3>1, <3>2, <3>3 DEF Process
  <2> QED BY <2>2, OneProcess
<1>9. ASSUME NEW r \in Requests, Request(r) PROVE DeadStays
  <2>1. CASE Start(r) \/ Write(r) \/ Receive(r)
    BY <1>4, <1>5, <1>6, <2>1
  <2>2. CASE WriteFail(r) \/ GetTimeout(r) \/ Judge(r)
    BY <1>2, <1>3, <2>2 DEF WriteFail, GetTimeout, Judge
  <2>3. CASE Enter(r) \/ Acquire(r) \/ Leave(r) \/ GiveUp(r) \/ TakeIdle(r) \/ Defer(r)
             \/ StartFail(r) \/ Cancel(r) \/ Join(r) \/ Release(r)
    BY <1>2, <2>3 DEF Enter, Acquire, Leave, GiveUp, TakeIdle, Defer, StartFail, Cancel, Join,
                      Release
  <2> QED BY <1>9, <2>1, <2>2, <2>3 DEF Request
<1>10. ASSUME NEW r \in Requests, Watchdog(r) PROVE DeadStays
  BY <1>2, <1>7, <1>10 DEF Watchdog, FireBegin
<1>11. CASE Close
  BY <1>3, <1>11 DEF Close
<1>12. CASE UNCHANGED vars
  BY <1>2, <1>12 DEF vars
<1> QED BY <1>8, <1>9, <1>10, <1>11, <1>12 DEF Next

LEMMA GuardStep ==
  ASSUME IInv, GuardInv, [Next]_vars
  PROVE  GuardInv'
<1> USE DEF At
<1>1. DeadStays
  BY DeadStay
<1> SUFFICES ASSUME NEW r \in Requests PROVE Guarded(r)'
  BY DEF GuardInv
<1>2. /\ Guarded(r) /\ req \in [Requests -> Calls]
      /\ dog \in [Requests -> {"off", "armed", "firing"}]
  BY DEF GuardInv, IInv, TypeOK, Calls
<1>3. At(r, "write") => req[r].child \in 1..Len(procs)
  BY DEF IInv, DogInv, DogOK, TypeOK
<1>4. CASE req'[r] = req[r] /\ dog'[r] = dog[r]
  BY <1>1, <1>2, <1>3, <1>4 DEF Guarded, DeadStays
<1>5. CASE req'[r].pc \notin {"write", "join"}
  BY <1>5 DEF Guarded
<1>6. CASE Request(r)
  <2>1. CASE Start(r)
    <3>1. CASE req'[r].pc = "write" /\ dog'[r] = "armed"
      BY <3>1 DEF Guarded
    <3>2. CASE End(r, "error", "release")
      BY <1>2, <1>5, <3>2 DEF End, Calls
    <3> QED BY <1>2, <2>1, <3>1, <3>2 DEF Start, Calls
  <2>2. CASE Cancel(r)
    <3>1. req'[r].pc = "join" /\ dog'[r] # "armed"
      BY <1>2, <2>2 DEF Cancel, Goto, Calls
    <3> QED BY <3>1 DEF Guarded
  <2>3. CASE Enter(r) \/ Acquire(r) \/ Leave(r) \/ TakeIdle(r) \/ Write(r) \/ Join(r)
             \/ Release(r)
    <3>1. req'[r].pc \in {"waiting", "owned", "start", "receive", "judge", "done"}
      BY <1>2, <2>3 DEF Enter, Acquire, Leave, TakeIdle, Write, Join, Release, Goto, Calls
    <3> QED BY <1>5, <3>1
  <2>4. CASE GiveUp(r) \/ Defer(r) \/ StartFail(r)
    <3>1. req'[r].pc \in {"done", "release"}
      BY <1>2, <2>4 DEF GiveUp, Defer, StartFail, End, Calls
    <3> QED BY <1>5, <3>1
  <2>5. CASE Receive(r) \/ WriteFail(r) \/ GetTimeout(r)
    <3>1. req'[r].pc = "cancel"
      BY <1>2, <2>5 DEF Receive, WriteFail, GetTimeout, Failed, Calls
    <3> QED BY <1>5, <3>1
  <2>6. CASE Judge(r)
    <3>1. \E x \in {"ok", "error"} : End(r, x, "release")
      BY <2>6 DEF Judge
    <3>2. req'[r].pc = "release"
      BY <1>2, <3>1 DEF End, Calls
    <3> QED BY <1>5, <3>2
  <2> QED BY <1>6, <2>1, <2>2, <2>3, <2>4, <2>5, <2>6 DEF Request
<1>7. CASE FireBegin(r)
  <2>1. req'[r].pc = req[r].pc /\ dog'[r] = "firing"
    BY <1>2, <1>7 DEF FireBegin, Calls
  <2> QED BY <2>1 DEF Guarded
<1>8. CASE FireKill(r)
  <2>1. dog'[r] = "off" /\ req'[r] = req[r] /\ dog[r] = "firing"
    BY <1>2, <1>8 DEF FireKill
  <2>2. At(r, "write") => ~procs'[req[r].child].alive
    <3> SUFFICES ASSUME At(r, "write") PROVE ~procs'[req[r].child].alive
      OBVIOUS
    <3>1. req[r].child \in 1..Len(procs) /\ DOMAIN procs = 1..Len(procs)
      BY <1>3, LenProperties DEF IInv, TypeOK, Processes
    <3>2. procs[req[r].child] \in Processes
      BY <3>1, ProcessType DEF IInv
    <3>3. procs' = [procs EXCEPT ![req[r].child] = [procs[req[r].child] EXCEPT !.alive = FALSE]]
      BY <1>8 DEF FireKill
    <3>4. procs'[req[r].child] = [procs[req[r].child] EXCEPT !.alive = FALSE]
      BY <3>1, <3>3
    <3> QED BY <3>2, <3>4 DEF Processes
  <2> QED BY <2>1, <2>2 DEF Guarded
<1>9. ASSUME NEW s \in Requests, s # r, Request(s) \/ Watchdog(s)
      PROVE  req'[r] = req[r] /\ dog'[r] = dog[r]
  <2>1. CASE Request(s)
    BY <1>2, <1>9, <2>1
       DEF Request, Enter, Acquire, Leave, GiveUp, TakeIdle, Defer, Start, StartFail, Write,
           WriteFail, Receive, GetTimeout, Failed, Cancel, Join, Judge, Release, Goto, End
  <2>2. CASE Watchdog(s)
    BY <1>2, <1>9, <2>2 DEF Watchdog, FireBegin, FireKill
  <2> QED BY <1>9, <2>1, <2>2
<1>10. ASSUME NEW p \in 1..Len(procs), Process(p) PROVE UNCHANGED <<req, dog>>
  BY <1>10 DEF Process, Compile, Crash, ReaderEnds
<1>11. CASE Close \/ UNCHANGED vars
  BY <1>4, <1>11 DEF Close, vars
<1> QED
  BY <1>4, <1>6, <1>7, <1>8, <1>9, <1>10, <1>11 DEF Next, Watchdog

\* The guards of what r can do by itself or by its watchdog: of NeverStuck, what is left
\* when the possible steps are read off the actions.
CanGoOn(r) ==
  \/ req[r].pc \in {"owned", "start", "receive", "cancel", "judge", "release"}
  \/ At(r, "write") /\ (~procs[req[r].child].alive \/ dog[r] \in {"armed", "firing"})
  \/ At(r, "join") /\ dog[r] \in {"off", "firing"}

\* No hung compiler keeps the worker: a request that writes into a living process has a
\* watchdog that will kill it, and one that waits for its watchdog waits for a kill under
\* way (_watchdog, timer.cancel, timer.join in request).
THEOREM HolderGoesOn == Spec => [](\A r \in Requests : lock = r => CanGoOn(r))
<1> DEFINE GoesOn == \A r \in Requests : lock = r => CanGoOn(r)
<1>1. Init => GuardInv
  BY DEF Init, GuardInv, Guarded, At
<1>2. IInv /\ GuardInv => GoesOn
  <2> SUFFICES ASSUME IInv, GuardInv, NEW r \in Requests, lock = r PROVE CanGoOn(r)
    OBVIOUS
  <2>1. /\ req[r].pc \in Pcs /\ req[r].pc \notin {"idle", "waiting", "done"}
        /\ dog[r] \in {"off", "armed", "firing"} /\ Guarded(r)
    BY DEF IInv, TypeOK, LockInv, GuardInv
  <2> QED BY <2>1 DEF CanGoOn, Guarded, At, Pcs
<1> QED BY <1>1, <1>2, Invariant, GuardStep, PTL DEF Spec
================================================================================
