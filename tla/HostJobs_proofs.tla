--------------------------- MODULE HostJobs_proofs ---------------------------
(***************************************************************************)
(* Proofs about HostJobs for every number of callers, request ids, table   *)
(* capacity and generations. Part 1: type correctness. Part 2: the         *)
(* inductive invariant JobInv. Part 3: what it implies. Part 4: commands   *)
(* keep their order. Part 5: HostJobs implements RequestContract.          *)
(***************************************************************************)
EXTENDS HostJobs, FiniteSetTheorems, TLAPS

-----------------------------------------------------------------------------
(* Part 1: types *)

\* Answering a job keeps the job table well typed, whoever answers it.
LEMMA CompleteType ==
    ASSUME job \in [Callers -> JobStates], NEW j, NEW r \in Responses, Complete(j, r)
    PROVE  job' \in [Callers -> JobStates]
BY DEF Complete, JobStates

\* Expiring a job keeps the job table well typed.
LEMMA ExpireType ==
    ASSUME job \in [Callers -> JobStates], NEW j, Expire(j)
    PROVE  job' \in [Callers -> JobStates]
<1>1. \/ Complete(j, "unknown")
      \/ Complete(j, "expired")
  BY DEF Expire, Complete
<1> QED
  BY <1>1, CompleteType DEF Responses

\* Jobs are numbered with natural numbers, as there are finitely many callers.
LEMMA TicketType == NextTicket \in Nat
<1> DEFINE S == {j \in Callers : job[j].state # "none"}
<1>1. IsFiniteSet(S)
  BY HostJobsAssumption, FS_Subset
<1>2. Cardinality(S) \in Nat
  BY <1>1, FS_CardinalityType
<1> QED
  BY <1>2 DEF NextTicket

\* The initial state is well typed.
LEMMA TypeInit == Init => TypeOK
<1> SUFFICES ASSUME Init PROVE TypeOK
  OBVIOUS
<1>1. caller \in [Callers -> CallerStates]
  BY DEF Init, CallerStates
<1>2. job \in [Callers -> JobStates]
  BY DEF Init, JobStates
<1>3. worker \in [Callers -> WorkerStates]
  BY DEF Init, WorkerStates
<1>4. net \in [Callers -> Messages]
  BY DEF Init, Messages, NoMessage
<1>5. snapshot \in Snapshots /\ gen \in Gens
  BY HostJobsAssumption DEF Init, Snapshots, Gens
<1>6. mode \in Modes
  BY HostJobsAssumption DEF Init
<1>7. neg \in [pc : {"idle", "asked", "answered"}, key : Gens \cup {None}]
  BY DEF Init
<1>8. pending \in Seq(Callers) /\ executed \in [Callers -> Nat]
  BY DEF Init
<1>9. late \in [Callers -> BOOLEAN] /\ control \in [Callers -> {"none", "start", "post", "ended"}]
  BY DEF Init
<1>10. /\ jobs \in SUBSET Callers /\ started \in BOOLEAN /\ running \in BOOLEAN
       /\ known \in BOOLEAN /\ alive \in BOOLEAN /\ stopping \in BOOLEAN
  BY DEF Init
<1>11. context \in Gens \cup {None} /\ ctxKey \in Gens \cup {None}
  BY DEF Init
<1>12. stopper \in {"idle", "decided", "draining", "done"}
  BY DEF Init
<1> QED
  BY <1>1, <1>2, <1>3, <1>4, <1>5, <1>6, <1>7, <1>8, <1>9, <1>10, <1>11, <1>12 DEF TypeOK

\* A scan changes the host's view of Unity within its types.
LEMMA ScanType ==
    ASSUME TypeOK, ScanOnce
    PROVE  /\ known' \in BOOLEAN
           /\ alive' \in BOOLEAN
           /\ snapshot' \in Snapshots
           /\ context' = context
           /\ ctxKey' = ctxKey
           /\ neg' \in [pc : {"idle", "asked", "answered"}, key : Gens \cup {None}]
<1>1. CASE ScanStopped
  BY <1>1 DEF ScanStopped, TypeOK
<1>2. CASE ScanFound
  <2>1. mode \in {"ready", "busy"} /\ gen \in Gens
    BY <1>2, HostJobsAssumption DEF ScanFound, TypeOK
  <2>2. snapshot' \in Snapshots
    BY <1>2, <2>1 DEF ScanFound, Snapshots
  <2>3. neg' \in [pc : {"idle", "asked", "answered"}, key : Gens \cup {None}]
    <3>1. CASE UNCHANGED neg
      BY <3>1 DEF TypeOK
    <3>2. CASE neg' = [pc |-> "asked", key |-> gen]
      BY <2>1, <3>2
    <3> QED
      BY <1>2, <3>1, <3>2 DEF ScanFound
  <2> QED
    BY <1>2, <2>2, <2>3 DEF ScanFound
<1> QED
  BY <1>1, <1>2 DEF ScanOnce

\* A stopping listener answers messages within their types.
LEMMA CutType ==
    ASSUME TypeOK, NEW S, Cut(S)
    PROVE  net' \in [Callers -> Messages]
<1>1. net \in [Callers -> Messages]
  BY DEF TypeOK
<1>2. \A j \in Callers : [net[j] EXCEPT !.pc = "answered", !.answer = "stale"] \in Messages
  BY <1>1 DEF Messages
<1> QED
  BY <1>1, <1>2 DEF Cut

\* Every step keeps the state well typed; one step of the proof per action.
LEMMA TypeStep == TypeOK /\ CallerInv /\ [Next]_vars => TypeOK'
<1> SUFFICES ASSUME TypeOK, CallerInv, [Next]_vars
             PROVE  TypeOK'
  OBVIOUS
<1> USE DEF callerVars, queueVars, threadVars, discVars, stopVars, unityVars
<1>mode. mode \in Modes
  BY DEF TypeOK
<1>caller. caller \in [Callers -> CallerStates]
  BY DEF TypeOK
<1>late. late \in [Callers -> BOOLEAN]
  BY DEF TypeOK
<1>job. job \in [Callers -> JobStates]
  BY DEF TypeOK
<1>jobs. jobs \in SUBSET Callers
  BY DEF TypeOK
<1>pending. pending \in Seq(Callers)
  BY DEF TypeOK
<1>started. started \in BOOLEAN
  BY DEF TypeOK
<1>worker. worker \in [Callers -> WorkerStates]
  BY DEF TypeOK
<1>control. control \in [Callers -> {"none", "start", "post", "ended"}]
  BY DEF TypeOK
<1>known. known \in BOOLEAN
  BY DEF TypeOK
<1>alive. alive \in BOOLEAN
  BY DEF TypeOK
<1>snapshot. snapshot \in Snapshots
  BY DEF TypeOK
<1>context. context \in Gens \cup {None}
  BY DEF TypeOK
<1>ctxKey. ctxKey \in Gens \cup {None}
  BY DEF TypeOK
<1>neg. neg \in [pc : {"idle", "asked", "answered"}, key : Gens \cup {None}]
  BY DEF TypeOK
<1>gen. gen \in Gens
  BY DEF TypeOK
<1>net. net \in [Callers -> Messages]
  BY DEF TypeOK
<1>executed. executed \in [Callers -> Nat]
  BY DEF TypeOK
<1>waited. \A c \in Callers : caller[c].pc = "waiting" => caller[c].job \in Callers
  BY <1>caller DEF CallerInv, CallerStates
<1>modes. Modes \subseteq {"ready", "busy", "stopped"}
  BY HostJobsAssumption
<1>1. ASSUME Scan PROVE TypeOK'
  <2>1. known' \in BOOLEAN
    BY <1>1, ScanType DEF Scan
  <2>2. alive' \in BOOLEAN
    BY <1>1, ScanType DEF Scan
  <2>3. snapshot' \in Snapshots
    BY <1>1, ScanType, <1>modes DEF Scan
  <2>4. neg' \in [pc : {"idle", "asked", "answered"}, key : Gens \cup {None}]
    BY <1>1, ScanType DEF Scan
  <2> QED
    BY <1>1, <2>1, <2>2, <2>3, <2>4, ScanType DEF TypeOK, Scan
<1>2. ASSUME NegotiateServed PROVE TypeOK'
  <2>1. neg' \in [pc : {"idle", "asked", "answered"}, key : Gens \cup {None}]
    BY <1>2, <1>neg DEF NegotiateServed
  <2> QED
    BY <1>2, <2>1 DEF TypeOK, NegotiateServed
<1>3. ASSUME NegotiateStore PROVE TypeOK'
  <2>1. context' \in Gens \cup {None}
    BY <1>3, <1>context, <1>neg DEF NegotiateStore
  <2>2. ctxKey' \in Gens \cup {None}
    BY <1>3, <1>ctxKey, <1>neg DEF NegotiateStore
  <2>3. neg' \in [pc : {"idle", "asked", "answered"}, key : Gens \cup {None}]
    BY <1>3, <1>neg DEF NegotiateStore
  <2> QED
    BY <1>3, <2>1, <2>2, <2>3 DEF TypeOK, NegotiateStore
<1>4. ASSUME NegotiateFail PROVE TypeOK'
  <2>1. neg' \in [pc : {"idle", "asked", "answered"}, key : Gens \cup {None}]
    BY <1>4 DEF NegotiateFail
  <2> QED
    BY <1>4, <2>1 DEF TypeOK, NegotiateFail
<1>5. ASSUME StopObserve PROVE TypeOK'
  <2>1. stopper' \in {"idle", "decided", "draining", "done"}
    BY <1>5 DEF StopObserve
  <2> QED
    BY <1>5, <2>1 DEF TypeOK, StopObserve
<1>6. ASSUME StopSet PROVE TypeOK'
  <2>1. stopper' \in {"idle", "decided", "draining", "done"}
    BY <1>6 DEF StopSet
  <2>2. stopping' \in BOOLEAN
    BY <1>6 DEF StopSet
  <2> QED
    BY <1>6, <2>1, <2>2 DEF TypeOK, StopSet
<1>7. ASSUME StopDrain PROVE TypeOK'
  <2>1. stopper' \in {"idle", "decided", "draining", "done"}
    BY <1>7 DEF StopDrain
  <2>2. job' \in [Callers -> JobStates]
    BY <1>7, <1>job DEF StopDrain, JobStates, Responses
  <2> QED
    BY <1>7, <2>1, <2>2 DEF TypeOK, StopDrain
<1>8. ASSUME UnityReload PROVE TypeOK'
  <2>1. gen' \in Gens
    BY <1>8, <1>gen, HostJobsAssumption DEF UnityReload, Gens
  <2>2. mode' \in Modes
    BY <1>8, <1>modes DEF UnityReload
  <2>3. net' \in [Callers -> Messages]
    BY <1>8, CutType DEF UnityReload
  <2> QED
    BY <1>8, <2>1, <2>2, <2>3 DEF TypeOK, UnityReload
<1>9. ASSUME UnityLoadAssembly PROVE TypeOK'
  <2>1. gen' \in Gens
    BY <1>9, <1>gen, HostJobsAssumption DEF UnityLoadAssembly, Gens
  <2> QED
    BY <1>9, <2>1 DEF TypeOK, UnityLoadAssembly
<1>10. ASSUME UnityHalt PROVE TypeOK'
  <2>1. mode' \in Modes
    BY <1>10, <1>modes DEF UnityHalt
  <2>2. net' \in [Callers -> Messages]
    BY <1>10, CutType DEF UnityHalt
  <2> QED
    BY <1>10, <2>1, <2>2 DEF TypeOK, UnityHalt
<1>11. ASSUME UnityMode PROVE TypeOK'
  <2>1. mode' \in Modes
    BY <1>11, <1>modes, HostJobsAssumption DEF UnityMode
  <2> QED
    BY <1>11, <2>1 DEF TypeOK, UnityMode
<1>12. ASSUME NEW c \in Callers, Refuse(c) PROVE TypeOK'
  <2>1. caller' \in [Callers -> CallerStates]
    BY <1>12, <1>caller DEF Refuse, Answered, CallerStates, Responses
  <2> QED
    BY <1>12, <2>1 DEF TypeOK, Refuse
<1>13. ASSUME NEW c \in Callers, Enter(c) PROVE TypeOK'
  <2>1. caller' \in [Callers -> CallerStates]
    <3>1. PICK id \in RequestIds[c], w \in Work :
             caller' = [caller EXCEPT ![c].pc = "entered", ![c].id = id, ![c].work = w]
      BY <1>13 DEF Enter
    <3>2. id \in Ids
      BY <3>1 DEF Ids
    <3> QED
      BY ZenonT(60), <1>caller, <3>1, <3>2 DEF CallerStates
  <2> QED
    BY <1>13, <2>1 DEF TypeOK, Enter
<1>14. ASSUME NEW c \in Callers, Rescan(c) PROVE TypeOK'
  <2>1. known' \in BOOLEAN
    BY <1>14, ScanType DEF Rescan
  <2>2. alive' \in BOOLEAN
    BY <1>14, ScanType DEF Rescan
  <2>3. snapshot' \in Snapshots
    BY <1>14, ScanType, <1>modes DEF Rescan
  <2>4. neg' \in [pc : {"idle", "asked", "answered"}, key : Gens \cup {None}]
    BY <1>14, ScanType DEF Rescan
  <2>5. caller' \in [Callers -> CallerStates]
    BY <1>14, <1>caller DEF Rescan, CallerStates
  <2> QED
    BY <1>14, <2>1, <2>2, <2>3, <2>4, <2>5, ScanType DEF TypeOK, Rescan
<1>15. ASSUME NEW c \in Callers, Unsupported(c) PROVE TypeOK'
  <2>1. caller' \in [Callers -> CallerStates]
    BY ZenonT(60), <1>15, <1>caller DEF Unsupported, Answered, CallerStates, Responses
  <2> QED
    BY <1>15, <2>1 DEF TypeOK, Unsupported
<1>16. ASSUME NEW c \in Callers, Join(c) PROVE TypeOK'
  <2>1. caller' \in [Callers -> CallerStates]
    BY <1>16, <1>caller, <1>jobs DEF Join, SameId, Answered, CallerStates, Responses
  <2> QED
    BY <1>16, <2>1 DEF TypeOK, Join
<1>17. ASSUME NEW c \in Callers, Admit(c) PROVE TypeOK'
  <2>1. caller' \in [Callers -> CallerStates]
    BY <1>17, <1>caller DEF Admit, Answered, CallerStates, Responses
  <2>2. jobs' \in SUBSET Callers
    BY <1>17, <1>jobs DEF Admit
  <2>3. job' \in [Callers -> JobStates]
    BY <1>17, <1>job, TicketType DEF Admit, JobStates
  <2>4. pending' \in Seq(Callers)
    BY <1>17, <1>pending DEF Admit, Enqueue
  <2>5. started' \in BOOLEAN
    BY <1>17, <1>started DEF Admit, EnsureWorker
  <2>6. worker' \in [Callers -> WorkerStates]
    BY <1>17, <1>worker DEF Admit, EnsureWorker, WorkerStates
  <2>7. control' \in [Callers -> {"none", "start", "post", "ended"}]
    BY <1>17, <1>control DEF Admit
  <2> QED
    BY <1>17, <2>1, <2>2, <2>3, <2>4, <2>5, <2>6, <2>7 DEF TypeOK, Admit
<1>18. ASSUME NEW c \in Callers, Trim(c) PROVE TypeOK'
  <2>1. caller' \in [Callers -> CallerStates]
    BY <1>18, <1>caller DEF Trim, CallerStates
  <2>2. jobs' \in SUBSET Callers
    BY <1>18, <1>jobs DEF Trim
  <2> QED
    BY <1>18, <2>1, <2>2 DEF TypeOK, Trim
<1>19. ASSUME NEW c \in Callers, CallerReturn(c) PROVE TypeOK'
  <2>1. caller' \in [Callers -> CallerStates]
    <3>1. caller[c].job \in Callers
      BY <1>19, <1>waited DEF CallerReturn
    <3>2. job[caller[c].job].response \in Responses \cup {None}
      BY <1>job, <3>1 DEF JobStates
    <3> QED
      BY ZenonT(60), <1>19, <1>caller, <3>2 DEF CallerReturn, Answered, CallerStates
  <2> QED
    BY <1>19, <2>1 DEF TypeOK, CallerReturn
<1>20. ASSUME NEW c \in Callers, CallerTimeout(c) PROVE TypeOK'
  <2>1. job' \in [Callers -> JobStates]
    BY <1>20, <1>job, ExpireType DEF CallerTimeout
  <2>2. caller' \in [Callers -> CallerStates]
    <3>1. caller[c].job \in Callers
      BY <1>20, <1>waited DEF CallerTimeout
    <3>2. job'[caller[c].job].response \in Responses \cup {None}
      BY <2>1, <3>1 DEF JobStates
    <3> QED
      BY ZenonT(60), <1>20, <1>caller, <3>2 DEF CallerTimeout, Answered, CallerStates
  <2> QED
    BY <1>20, <2>1, <2>2 DEF TypeOK, CallerTimeout
<1>21. ASSUME NEW c \in Callers, DeadlinePasses(c) PROVE TypeOK'
  <2>1. late' \in [Callers -> BOOLEAN]
    BY <1>21, <1>late DEF DeadlinePasses
  <2> QED
    BY <1>21, <2>1 DEF TypeOK, DeadlinePasses
<1>22. ASSUME NEW c \in Callers, WorkerLeave(c) PROVE TypeOK'
  <2>1. started' \in BOOLEAN
    BY <1>22 DEF WorkerLeave
  <2>2. worker' \in [Callers -> WorkerStates]
    BY <1>22, <1>worker DEF WorkerLeave, Goto, WorkerStates
  <2> QED
    BY <1>22, <2>1, <2>2 DEF TypeOK, WorkerLeave
<1>23. ASSUME NEW c \in Callers, WorkerStop(c) PROVE TypeOK'
  <2>1. worker' \in [Callers -> WorkerStates]
    BY <1>23, <1>worker DEF WorkerStop, Goto, WorkerStates
  <2> QED
    BY <1>23, <2>1 DEF TypeOK, WorkerStop
<1>24. ASSUME NEW c \in Callers, WorkerPop(c) PROVE TypeOK'
  <2>1. pending' \in Seq(Callers)
    BY <1>24, <1>pending DEF WorkerPop
  <2>2. running' \in BOOLEAN
    BY <1>24 DEF WorkerPop
  <2>3. worker' \in [Callers -> WorkerStates]
    BY <1>24, <1>worker, <1>pending DEF WorkerPop, WorkerStates
  <2> QED
    BY <1>24, <2>1, <2>2, <2>3 DEF TypeOK, WorkerPop
<1>25. ASSUME NEW c \in Callers, WorkerFinish(c) PROVE TypeOK'
  <2>1. running' \in BOOLEAN
    BY <1>25 DEF WorkerFinish
  <2>2. jobs' \in SUBSET Callers
    BY <1>25, <1>jobs DEF WorkerFinish
  <2>3. worker' \in [Callers -> WorkerStates]
    BY <1>25, <1>worker DEF WorkerFinish, Goto, WorkerStates
  <2> QED
    BY <1>25, <2>1, <2>2, <2>3 DEF TypeOK, WorkerFinish
<1>26. ASSUME NEW c \in Callers, ContextAbandoned(c) PROVE TypeOK'
  <2>1. job' \in [Callers -> JobStates]
    BY <1>26, <1>job, ExpireType DEF ContextAbandoned
  <2>2. worker' \in [Callers -> WorkerStates]
    BY <1>26, <1>worker DEF ContextAbandoned, Goto, WorkerStates
  <2> QED
    BY <1>26, <2>1, <2>2 DEF TypeOK, ContextAbandoned
<1>27. ASSUME NEW c \in Callers, ContextUnavailable(c) PROVE TypeOK'
  <2>1. job' \in [Callers -> JobStates]
    BY <1>27, <1>job, CompleteType DEF ContextUnavailable, Responses
  <2>2. worker' \in [Callers -> WorkerStates]
    BY <1>27, <1>worker DEF ContextUnavailable, Goto, WorkerStates
  <2> QED
    BY <1>27, <2>1, <2>2 DEF TypeOK, ContextUnavailable
<1>28. ASSUME NEW c \in Callers, ContextReady(c) PROVE TypeOK'
  <2>1. worker' \in [Callers -> WorkerStates]
    BY ZenonT(60), <1>28, <1>worker, <1>context DEF ContextReady, WorkerStates
  <2> QED
    BY <1>28, <2>1 DEF TypeOK, ContextReady
<1>29. ASSUME NEW c \in Callers, CompileOk(c) PROVE TypeOK'
  <2>1. worker' \in [Callers -> WorkerStates]
    BY <1>29, <1>worker DEF CompileOk, Goto, WorkerStates
  <2> QED
    BY <1>29, <2>1 DEF TypeOK, CompileOk
<1>30. ASSUME NEW c \in Callers, CompileStale(c) PROVE TypeOK'
  <2>1. worker' \in [Callers -> WorkerStates]
    BY <1>30, <1>worker DEF CompileStale, Goto, WorkerStates, RetryFrom
  <2>2. ctxKey' \in Gens \cup {None}
    BY <1>30 DEF CompileStale, Invalidate
  <2> QED
    BY <1>30, <2>1, <2>2 DEF TypeOK, CompileStale, Invalidate
<1>31. ASSUME NEW c \in Callers, CompileError(c) PROVE TypeOK'
  <2>1. job' \in [Callers -> JobStates]
    BY <1>31, <1>job, CompleteType DEF CompileError, Responses
  <2>2. worker' \in [Callers -> WorkerStates]
    BY <1>31, <1>worker DEF CompileError, Goto, WorkerStates
  <2> QED
    BY <1>31, <2>1, <2>2 DEF TypeOK, CompileError
<1>32. ASSUME NEW c \in Callers, CheckStale(c) PROVE TypeOK'
  <2>1. job' \in [Callers -> JobStates]
    BY <1>32, <1>job, CompleteType DEF CheckStale, Responses
  <2>2. worker' \in [Callers -> WorkerStates]
    BY <1>32, <1>worker DEF CheckStale, Goto, WorkerStates, RetryFrom
  <2> QED
    BY <1>32, <2>1, <2>2 DEF TypeOK, CheckStale, RetryFrom
<1>33. ASSUME NEW c \in Callers, Dispatch(c) PROVE TypeOK'
  <2>1. job' \in [Callers -> JobStates]
    BY <1>33, <1>job, ExpireType DEF Dispatch, MarkDispatched, JobStates
  <2>2. net' \in [Callers -> Messages]
    BY <1>33, <1>net, <1>worker DEF Dispatch, Send, Messages, WorkerStates
  <2>3. worker' \in [Callers -> WorkerStates]
    BY <1>33, <1>worker DEF Dispatch, Goto, WorkerStates
  <2> QED
    BY <1>33, <2>1, <2>2, <2>3 DEF TypeOK, Dispatch
<1>34. ASSUME NEW c \in Callers, AnswerRetry(c) PROVE TypeOK'
  <2>1. job' \in [Callers -> JobStates]
    BY <1>34, <1>job DEF AnswerRetry, JobStates
  <2>2. net' \in [Callers -> Messages]
    BY <1>34, <1>net DEF AnswerRetry, NoMessage, Messages
  <2>3. worker' \in [Callers -> WorkerStates]
    BY <1>34, <1>worker DEF AnswerRetry, Goto, WorkerStates, RetryFrom
  <2>4. ctxKey' \in Gens \cup {None}
    BY <1>34 DEF AnswerRetry, Invalidate
  <2> QED
    BY <1>34, <2>1, <2>2, <2>3, <2>4 DEF TypeOK, AnswerRetry, Invalidate
<1>35. ASSUME NEW c \in Callers, AnswerFinal(c) PROVE TypeOK'
  <2>1. job' \in [Callers -> JobStates]
    BY <1>35, <1>job, CompleteType DEF AnswerFinal, Responses, Completion
  <2>2. worker' \in [Callers -> WorkerStates]
    BY <1>35, <1>worker DEF AnswerFinal, Goto, WorkerStates
  <2> QED
    BY <1>35, <2>1, <2>2 DEF TypeOK, AnswerFinal
<1>36. ASSUME NEW c \in Callers, AnswerLost(c) PROVE TypeOK'
  <2>1. job' \in [Callers -> JobStates]
    BY <1>36, <1>job, CompleteType DEF AnswerLost, Responses
  <2>2. worker' \in [Callers -> WorkerStates]
    BY <1>36, <1>worker DEF AnswerLost, Goto, WorkerStates
  <2> QED
    BY <1>36, <2>1, <2>2 DEF TypeOK, AnswerLost
<1>37. ASSUME NEW c \in Callers, WorkerException(c) PROVE TypeOK'
  <2>1. job' \in [Callers -> JobStates]
    BY <1>37, <1>job, CompleteType DEF WorkerException, Responses
  <2>2. worker' \in [Callers -> WorkerStates]
    BY <1>37, <1>worker DEF WorkerException, Goto, WorkerStates
  <2> QED
    BY <1>37, <2>1, <2>2 DEF TypeOK, WorkerException
<1>38. ASSUME NEW c \in Callers, ControlStart(c) PROVE TypeOK'
  <2>1. job' \in [Callers -> JobStates]
    BY <1>38, <1>job, ExpireType DEF ControlStart, MarkDispatched, JobStates
  <2>2. net' \in [Callers -> Messages]
    BY <1>38, <1>net DEF ControlStart, Send, Messages
  <2>3. control' \in [Callers -> {"none", "start", "post", "ended"}]
    BY <1>38, <1>control DEF ControlStart, ControlTo
  <2> QED
    BY <1>38, <2>1, <2>2, <2>3 DEF TypeOK, ControlStart
<1>39. ASSUME NEW c \in Callers, ControlAnswer(c) PROVE TypeOK'
  <2>1. job' \in [Callers -> JobStates]
    BY <1>39, <1>job, CompleteType DEF ControlAnswer, Responses, Completion
  <2>2. control' \in [Callers -> {"none", "start", "post", "ended"}]
    BY <1>39, <1>control DEF ControlAnswer, ControlTo
  <2> QED
    BY <1>39, <2>1, <2>2 DEF TypeOK, ControlAnswer
<1>40. ASSUME NEW c \in Callers, ControlLost(c) PROVE TypeOK'
  <2>1. job' \in [Callers -> JobStates]
    BY <1>40, <1>job, CompleteType DEF ControlLost, Responses
  <2>2. control' \in [Callers -> {"none", "start", "post", "ended"}]
    BY <1>40, <1>control DEF ControlLost, ControlTo
  <2> QED
    BY <1>40, <2>1, <2>2 DEF TypeOK, ControlLost
<1>41. ASSUME NEW c \in Callers, UnityExecute(c) PROVE TypeOK'
  <2>1. executed' \in [Callers -> Nat]
    BY <1>41, <1>executed DEF UnityExecute
  <2>2. net' \in [Callers -> Messages]
    BY <1>41, <1>net DEF UnityExecute, Messages
  <2> QED
    BY <1>41, <2>1, <2>2 DEF TypeOK, UnityExecute
<1>42. ASSUME NEW c \in Callers, UnityRefuse(c) PROVE TypeOK'
  <2>1. net' \in [Callers -> Messages]
    BY ZenonT(60), <1>42, <1>net DEF UnityRefuse, Messages
  <2> QED
    BY <1>42, <2>1 DEF TypeOK, UnityRefuse
<1>43. CASE UNCHANGED vars
  BY <1>43 DEF TypeOK, vars
<1> QED
  BY <1>1, <1>2, <1>3, <1>4, <1>5, <1>6, <1>7, <1>8, <1>9, <1>10, <1>11, <1>12, <1>13,
     <1>14, <1>15, <1>16, <1>17, <1>18, <1>19, <1>20, <1>21, <1>22, <1>23, <1>24,
     <1>25, <1>26, <1>27, <1>28, <1>29, <1>30, <1>31, <1>32, <1>33, <1>34, <1>35,
     <1>36, <1>37, <1>38, <1>39, <1>40, <1>41, <1>42, <1>43 DEF Next, Submit,
     CallerWait, ProjectLoop, Execute, RunControl, Negotiate, RequestStop, Unity

-----------------------------------------------------------------------------
(* Part 2: the inductive invariant *)

\* Answer r tells the truth about the message of job j.
MayAnswer(j, r) ==
    /\ NotStarted(r) => net[j].pc # "sent" /\ net[j].answer # "result"
    /\ r = "result" => net[j].answer = "result"
    /\ r = "unknown" => net[j].pc # "none"

\* The only thing that happens to jobs in this step is that they are answered.
JobsAdvance ==
    \A k \in Callers :
        \/ job'[k] = job[k]
        \/ ~Done(k) /\ job[k].state # "none" /\ job'[k].state = "completed" /\ Done(k)'

\* An honest answer keeps AnswerInv; a job already answered is left alone.
LEMMA CompleteInv ==
    ASSUME TypeOK, AnswerInv, NEW j \in Callers, NEW r \in Responses, Complete(j, r),
           job[j].state # "none", Done(j) \/ MayAnswer(j, r), UNCHANGED <<net, executed>>
    PROVE  AnswerInv' /\ JobsAdvance
<1>1. job \in [Callers -> JobStates] /\ None \notin Responses
  BY HostJobsAssumption DEF TypeOK, Responses
<1>2. CASE Done(j)
  BY <1>2 DEF Complete, AnswerInv, Done, JobsAdvance
<1>3. CASE ~Done(j)
  <2>1. job' = [job EXCEPT ![j].state = "completed", ![j].response = r]
    BY <1>3 DEF Complete
  <2>2. \A k \in Callers \ {j} : job'[k] = job[k]
    BY <1>1, <2>1
  <2>3. job'[j].state = "completed" /\ job'[j].response = r
    BY <1>1, <2>1 DEF JobStates
  <2>4. JobsAdvance
    BY <1>1, <1>3, <2>2, <2>3 DEF JobsAdvance, Done
  <2>5. AnswerInv'
    BY <1>1, <1>3, <2>2, <2>3 DEF AnswerInv, Done, MayAnswer, NotStarted
  <2> QED
    BY <2>4, <2>5
<1> QED
  BY <1>2, <1>3

\* Expiring a job is honest: "dispatched" is the state in which a message exists.
LEMMA ExpireHonest ==
    ASSUME TypeOK, AnswerInv, NEW j \in Callers, Expire(j), job[j].state # "none"
    PROVE  \E r \in Responses : Complete(j, r) /\ (Done(j) \/ MayAnswer(j, r))
<1>1. PICK r \in {"unknown", "expired"} :
         Complete(j, r) /\ (r = "unknown" <=> job[j].state = "dispatched")
  <2>1. CASE job[j].state = "dispatched"
    BY <2>1 DEF Expire
  <2>2. CASE job[j].state # "dispatched"
    BY <2>2 DEF Expire
  <2> QED
    BY <2>1, <2>2
<1>2. Done(j) \/ MayAnswer(j, r)
  <2> SUFFICES ASSUME ~Done(j) PROVE MayAnswer(j, r)
    OBVIOUS
  <2>1. job[j].state \in {"queued", "dispatched"} /\ net[j].pc \in {"none", "sent", "answered"}
    BY DEF Messages, AnswerInv, TypeOK, JobStates
  <2> QED
    BY <1>1, <2>1, HostJobsAssumption DEF AnswerInv, MayAnswer, NotStarted
<1> QED
  BY <1>1, <1>2 DEF Responses

\* An expired job keeps AnswerInv.
LEMMA ExpireInv ==
    ASSUME TypeOK, AnswerInv, NEW j \in Callers, Expire(j), job[j].state # "none",
           UNCHANGED <<net, executed>>
    PROVE  AnswerInv' /\ JobsAdvance
BY ExpireHonest, CompleteInv

\* Callers are not affected by jobs that are answered or forgotten.
LEMMA CallerKept ==
    ASSUME TypeOK, CallerInv, JobsAdvance, UNCHANGED caller, jobs' \subseteq jobs
    PROVE  CallerInv'
<1>1. caller \in [Callers -> CallerStates]
  BY DEF TypeOK
<1>2. \A c \in Callers : caller[c].job \in Callers \cup {None}
  BY <1>1 DEF CallerStates
<1>3. \A k \in Callers : /\ job'[k].state = "none" <=> job[k].state = "none"
                         /\ Done(k) => job'[k] = job[k] /\ Done(k)'
  BY DEF JobsAdvance, Done
<1> QED
  BY <1>2, <1>3 DEF CallerInv

\* No thread is started here.
LEMMA WorkerKept ==
    ASSUME WorkerInv, \A t \in Callers : Live(t)' => Live(t), started' = started
    PROVE  WorkerInv'
BY DEF WorkerInv

\* Ownership survives answers, progress of the worker short of sending, and
\* the end of control threads.
LEMMA OwnerKept ==
    ASSUME TypeOK, OwnerInv, JobsAdvance, UNCHANGED pending,
           \A t \in Callers : Preparing(t)' => /\ Preparing(t)
                                               /\ worker'[t].job = worker[t].job
                                               /\ worker'[t].pc = "post" <=> worker[t].pc = "post",
           \A j \in Callers : \/ control'[j] = control[j]
                              \/ control[j] # "none" /\ control'[j] = "ended",
           \A j \in Callers : net[j].pc # "none" => net'[j].pc # "none"
    PROVE  OwnerInv'
<1>1. \A k \in Callers : \/ job'[k].state = job[k].state
                         \/ job[k].state # "none" /\ job'[k].state = "completed"
  BY DEF JobsAdvance
<1>2. \A i \in 1..Len(pending) : pending[i] \in Callers
  BY DEF TypeOK
<1>3. \A i \in 1..Len(pending) : /\ job'[pending[i]].state \in {"queued", "completed"}
                                 /\ control'[pending[i]] = "none"
  BY <1>1, <1>2 DEF OwnerInv
<1>4. \A t \in Callers : Preparing(t)' =>
          /\ worker'[t].job \in Callers
          /\ \A i \in 1..Len(pending) : pending[i] # worker'[t].job
          /\ control'[worker'[t].job] = "none"
          /\ job'[worker'[t].job].state \in
                IF worker'[t].pc = "post" THEN {"dispatched", "completed"}
                                          ELSE {"queued", "completed"}
          /\ worker'[t].pc = "post" => net'[worker'[t].job].pc # "none"
  BY <1>1 DEF OwnerInv
<1>5. \A j \in Callers :
          /\ control'[j] # "none" => job'[j].state # "none"
          /\ control'[j] = "start" => job'[j].state \in {"queued", "completed"}
          /\ control'[j] = "post" => /\ job'[j].state \in {"dispatched", "completed"}
                                     /\ net'[j].pc # "none"
  BY <1>1 DEF OwnerInv
<1> QED
  BY <1>3, <1>4, <1>5 DEF OwnerInv

\* The inductive invariant holds when the host starts.
LEMMA InvInit == Init => JobInv
<1> SUFFICES ASSUME Init PROVE JobInv
  OBVIOUS
<1>1. AnswerInv
  BY HostJobsAssumption DEF Init, AnswerInv, Done, NoMessage, NotStarted
<1>2. CallerInv
  BY DEF Init, CallerInv
<1>3. WorkerInv
  BY DEF Init, WorkerInv, Live
<1>4. OwnerInv
  BY DEF Init, OwnerInv, Preparing
<1> QED
  BY <1>1, <1>2, <1>3, <1>4 DEF JobInv

\* A step that leaves jobs, threads and messages alone keeps the invariant.
LEMMA Untouched ==
    ASSUME JobInv,
           UNCHANGED <<caller, job, jobs, pending, started, worker, control, net, executed>>
    PROVE  JobInv'
BY DEF JobInv, AnswerInv, CallerInv, WorkerInv, OwnerInv, Done, Live, Preparing

\* A step of submit that creates no job only has to keep CallerInv.
LEMMA CallerOnly ==
    ASSUME JobInv, CallerInv',
           UNCHANGED <<job, jobs, pending, started, worker, control, net, executed>>
    PROVE  JobInv'
BY DEF JobInv, AnswerInv, WorkerInv, OwnerInv, Done, Live, Preparing

\* A worker step that sends nothing and takes no job.
LEMMA WorkerAdvances ==
    ASSUME TypeOK, JobInv, NEW t \in Callers, Live(t), AnswerInv', JobsAdvance,
           UNCHANGED <<caller, pending, started, control, net>>, jobs' \subseteq jobs,
           \A u \in Callers \ {t} : worker'[u] = worker[u],
           Preparing(t)' => /\ Preparing(t)
                            /\ worker'[t].job = worker[t].job
                            /\ worker'[t].pc = "post" <=> worker[t].pc = "post"
    PROVE  JobInv'
<1>1. CallerInv'
  BY CallerKept DEF JobInv
<1>2. \A u \in Callers : Live(u)' => Live(u)
  BY DEF Live
<1>3. WorkerInv'
  BY <1>2, WorkerKept DEF JobInv
<1>4. \A u \in Callers : Preparing(u)' => /\ Preparing(u)
                                          /\ worker'[u].job = worker[u].job
                                          /\ worker'[u].pc = "post" <=> worker[u].pc = "post"
  BY DEF Preparing
<1>5. OwnerInv'
  BY <1>4, OwnerKept DEF JobInv
<1> QED
  BY <1>1, <1>3, <1>5 DEF JobInv

\* A step that only changes what is known of a message, and never unsends one.
LEMMA MessageAdvances ==
    ASSUME TypeOK, JobInv, AnswerInv', JobsAdvance,
           UNCHANGED <<caller, jobs, pending, started, worker, control>>,
           \A j \in Callers : net[j].pc # "none" => net'[j].pc # "none"
    PROVE  JobInv'
<1>1. CallerInv'
  BY CallerKept DEF JobInv
<1>2. WorkerInv'
  BY WorkerKept DEF JobInv, Live
<1>3. \A u \in Callers : Preparing(u)' => /\ Preparing(u)
                                          /\ worker'[u].job = worker[u].job
                                          /\ worker'[u].pc = "post" <=> worker[u].pc = "post"
  BY DEF Preparing
<1>4. OwnerInv'
  BY <1>3, OwnerKept DEF JobInv
<1> QED
  BY <1>1, <1>2, <1>4 DEF JobInv

\* A control thread that ends after its job was answered, honestly or before.
LEMMA ControlEnds ==
    ASSUME TypeOK, JobInv, AnswerInv', JobsAdvance, NEW j \in Callers,
           control[j] # "none", control' = [control EXCEPT ![j] = "ended"],
           UNCHANGED <<caller, jobs, pending, started, worker, net>>
    PROVE  JobInv'
<1>1. CallerInv'
  BY CallerKept DEF JobInv
<1>2. WorkerInv'
  BY WorkerKept DEF JobInv, Live
<1>3. \A u \in Callers : Preparing(u)' => /\ Preparing(u)
                                          /\ worker'[u].job = worker[u].job
                                          /\ worker'[u].pc = "post" <=> worker[u].pc = "post"
  BY DEF Preparing
<1>4. \A k \in Callers : \/ control'[k] = control[k]
                         \/ control[k] # "none" /\ control'[k] = "ended"
  BY DEF TypeOK
<1>5. OwnerInv'
  BY <1>3, <1>4, OwnerKept DEF JobInv
<1> QED
  BY <1>1, <1>2, <1>5 DEF JobInv

\* Nothing is said about jobs and messages in a step that leaves them alone.
LEMMA SameAnswers ==
    ASSUME AnswerInv, UNCHANGED <<job, net, executed>>
    PROVE  AnswerInv' /\ JobsAdvance
BY DEF AnswerInv, JobsAdvance, Done

\* A job that is about to be handed to Unity: its message is sent by its owner.
LEMMA SendAnswers ==
    ASSUME TypeOK, AnswerInv, NEW j \in Callers, NEW g, ~Done(j), job[j].state = "queued",
           MarkDispatched(j), Send(j, g), UNCHANGED executed
    PROVE  /\ AnswerInv'
           /\ \A k \in Callers \ {j} : job'[k] = job[k] /\ net'[k] = net[k]
           /\ job'[j].state = "dispatched" /\ job'[j].response = job[j].response
           /\ net'[j].pc = "sent"
<1>1. job \in [Callers -> JobStates] /\ net \in [Callers -> Messages]
  BY DEF TypeOK
<1>2. \A k \in Callers \ {j} : job'[k] = job[k] /\ net'[k] = net[k]
  BY <1>1 DEF MarkDispatched, Send
<1>3. /\ job'[j].state = "dispatched" /\ job'[j].response = job[j].response
      /\ net'[j].pc = "sent" /\ net'[j].answer = None
  BY <1>1 DEF MarkDispatched, Send, JobStates
<1>4. job[j].response = None /\ net[j].answer = None
  BY <1>1 DEF Done, AnswerInv, Messages
<1>5. AnswerInv'
  BY <1>2, <1>3, <1>4, HostJobsAssumption DEF AnswerInv, Done, NotStarted
<1> QED
  BY <1>2, <1>3, <1>5

\* Unity answers messages in S, with "result" exactly for those it runs now.
LEMMA UnityAnswers ==
    ASSUME TypeOK, JobInv, NEW S \in SUBSET Callers,
           \A j \in S : net[j].pc = "sent" /\ net'[j].pc = "answered" /\ net'[j].answer # None,
           \A j \in Callers \ S : net'[j] = net[j] /\ executed'[j] = executed[j],
           \A j \in S : executed'[j] = IF net'[j].answer = "result" THEN 1 ELSE 0,
           UNCHANGED <<caller, job, jobs, pending, started, worker, control>>
    PROVE  JobInv'
<1>1. JobsAdvance
  BY DEF JobsAdvance
<1>2. \A j \in S : /\ ~NotStarted(job[j].response)
                   /\ job[j].response # "result"
                   /\ job[j].state \notin {"none", "queued"}
  BY HostJobsAssumption DEF JobInv, AnswerInv
<1>3. \A j \in S : /\ net'[j].pc # "none"
                   /\ net'[j].pc = "answered"
                   /\ net'[j].answer # None
  OBVIOUS
<1>4. AnswerInv'
  BY <1>2, <1>3 DEF JobInv, AnswerInv, Done
<1> QED
  BY <1>1, <1>3, <1>4, MessageAdvances

\* A caller whose deadline ends the wait takes the answer its job has from then on.
LEMMA TimeoutInv ==
    ASSUME TypeOK, JobInv, NEW c \in Callers, CallerTimeout(c)
    PROVE  JobInv'
<1>caller. caller \in [Callers -> CallerStates]
  BY DEF TypeOK
<1>inv. AnswerInv /\ CallerInv /\ WorkerInv /\ OwnerInv
  BY DEF JobInv
<1>1. PICK j \in Callers : j = caller[c].job /\ job[j].state # "none"
  BY <1>caller, <1>inv DEF CallerTimeout, CallerInv, CallerStates
<1>2. AnswerInv' /\ JobsAdvance
  BY <1>1, <1>inv, ExpireInv DEF CallerTimeout, unityVars
<1>3. Done(j)'
  BY <1>1, HostJobsAssumption DEF CallerTimeout, Expire, Complete, Done, TypeOK, JobStates
<1>4. /\ \A d \in Callers \ {c} : caller'[d] = caller[d]
      /\ caller'[c].pc = "returned" /\ caller'[c].job = j
      /\ caller'[c].reply = job'[j].response
  BY <1>1, <1>caller DEF CallerTimeout, Answered, CallerStates
<1>5. UNCHANGED <<jobs, pending, started, worker, control, net, executed>>
  BY DEF CallerTimeout, queueVars, threadVars, unityVars
<1>6. \A k \in Callers : /\ job'[k].state = "none" <=> job[k].state = "none"
                         /\ Done(k) => job'[k] = job[k] /\ Done(k)'
  BY <1>2 DEF JobsAdvance, Done
<1>7. CallerInv'
  <2>1. ASSUME NEW d \in Callers
        PROVE  /\ caller[d].job \in Callers \cup {None}
               /\ caller[d].pc \in {"idle", "entered", "rescanned", "admitting"} =>
                     job[d].state = "none" /\ caller[d].job = None
               /\ caller[d].pc = "waiting" => caller[d].job # None
               /\ caller[d].job # None => job[caller[d].job].state # "none"
               /\ caller[d].pc = "returned" /\ caller[d].job # None =>
                     Done(caller[d].job) /\ caller[d].reply = job[caller[d].job].response
               /\ d \in jobs => job[d].state # "none"
    BY <1>caller, <1>inv DEF CallerInv, CallerStates
  <2>2. ASSUME NEW d \in Callers \ {c}
        PROVE  /\ caller'[d].pc \in {"idle", "entered", "rescanned", "admitting"} =>
                     job'[d].state = "none" /\ caller'[d].job = None
               /\ caller'[d].pc = "waiting" => caller'[d].job # None
               /\ caller'[d].job # None => job'[caller'[d].job].state # "none"
               /\ caller'[d].pc = "returned" /\ caller'[d].job # None =>
                     job'[caller'[d].job].response # None
                     /\ caller'[d].reply = job'[caller'[d].job].response
               /\ d \in jobs' => job'[d].state # "none"
    <3>1. caller'[d] = caller[d] /\ jobs' = jobs
      BY <1>4, <1>5
    <3>2. caller[d].pc \in {"idle", "entered", "rescanned", "admitting"} =>
             job'[d].state = "none" /\ caller[d].job = None
      BY <1>6, <2>1
    <3>3. caller[d].job # None => job'[caller[d].job].state # "none"
      BY <1>6, <2>1
    <3>4. caller[d].pc = "returned" /\ caller[d].job # None =>
             job'[caller[d].job].response # None
             /\ caller[d].reply = job'[caller[d].job].response
      BY <1>6, <2>1 DEF Done
    <3>5. d \in jobs => job'[d].state # "none"
      BY <1>6, <2>1
    <3> QED
      BY <2>1, <3>1, <3>2, <3>3, <3>4, <3>5
  <2>3. /\ caller'[c].pc = "returned" /\ caller'[c].job = j /\ job'[j].state # "none"
        /\ job'[j].response # None /\ caller'[c].reply = job'[j].response
        /\ c \in jobs' => job'[c].state # "none"
    <3>1. c \in jobs' => job'[c].state # "none"
      BY <1>5, <1>6, <2>1
    <3> QED
      BY <1>1, <1>3, <1>4, <1>6, <3>1 DEF Done
  <2>4. j # None
    BY HostJobsAssumption
  <2>5. \A d \in Callers :
           /\ caller'[d].pc \in {"idle", "entered", "rescanned", "admitting"} =>
                 job'[d].state = "none" /\ caller'[d].job = None
           /\ caller'[d].pc = "waiting" => caller'[d].job # None
           /\ caller'[d].job # None => job'[caller'[d].job].state # "none"
           /\ caller'[d].pc = "returned" /\ caller'[d].job # None =>
                 job'[caller'[d].job].response # None
                 /\ caller'[d].reply = job'[caller'[d].job].response
           /\ d \in jobs' => job'[d].state # "none"
    BY <2>2, <2>3, <2>4
  <2> QED
    BY <2>5 DEF CallerInv, Done
<1>8. WorkerInv'
  BY <1>5, <1>inv, WorkerKept DEF Live
<1>9. \A u \in Callers : Preparing(u)' => /\ Preparing(u)
                                          /\ worker'[u].job = worker[u].job
                                          /\ worker'[u].pc = "post" <=> worker[u].pc = "post"
  BY <1>5 DEF Preparing
<1>10. OwnerInv'
  BY <1>2, <1>5, <1>9, <1>inv, OwnerKept
<1> QED
  BY <1>2, <1>7, <1>8, <1>10 DEF JobInv

\* A worker step that keeps the queue and the control threads and leaves the
\* other workers alone keeps OwnerInv, if the worker's own clauses hold after it
\* and only its own job changes.
LEMMA OwnerMoves ==
    ASSUME TypeOK, OwnerInv, NEW t \in Callers, Preparing(t), WorkerInv,
           UNCHANGED <<pending, control>>,
           \A u \in Callers \ {t} : worker'[u] = worker[u],
           \A k \in Callers \ {worker[t].job} : job'[k] = job[k] /\ net'[k] = net[k],
           job'[worker[t].job].state # "none",
           Preparing(t)' =>
              /\ worker'[t].job = worker[t].job
              /\ job'[worker[t].job].state \in
                    IF worker'[t].pc = "post" THEN {"dispatched", "completed"}
                                              ELSE {"queued", "completed"}
              /\ worker'[t].pc = "post" => net'[worker[t].job].pc # "none"
    PROVE  OwnerInv'
<1>1. /\ worker[t].job \in Callers
      /\ \A i \in 1..Len(pending) : pending[i] # worker[t].job
      /\ control[worker[t].job] = "none"
  BY DEF OwnerInv
<1>2. \A i \in 1..Len(pending) : pending[i] \in Callers
  BY DEF TypeOK
<1>3. \A i \in 1..Len(pending) : /\ job'[pending[i]].state \in {"queued", "completed"}
                                 /\ control'[pending[i]] = "none"
  BY <1>1, <1>2 DEF OwnerInv
<1>4. \A u \in Callers \ {t} : ~Preparing(u)'
  BY DEF WorkerInv, Preparing, Live
<1>5. \A u \in Callers : Preparing(u)' =>
          /\ worker'[u].job \in Callers
          /\ \A i \in 1..Len(pending) : pending[i] # worker'[u].job
          /\ control'[worker'[u].job] = "none"
          /\ job'[worker'[u].job].state \in
                IF worker'[u].pc = "post" THEN {"dispatched", "completed"}
                                          ELSE {"queued", "completed"}
          /\ worker'[u].pc = "post" => net'[worker'[u].job].pc # "none"
  BY <1>1, <1>4
<1>6. \A j \in Callers :
          /\ control'[j] # "none" => job'[j].state # "none"
          /\ control'[j] = "start" => job'[j].state \in {"queued", "completed"}
          /\ control'[j] = "post" => /\ job'[j].state \in {"dispatched", "completed"}
                                     /\ net'[j].pc # "none"
  BY <1>1 DEF OwnerInv
<1> QED
  BY <1>3, <1>5, <1>6 DEF OwnerInv

\* Callers are not affected by a job that changes between queued and dispatched.
LEMMA CallerMoves ==
    ASSUME TypeOK, CallerInv, NEW j \in Callers, ~Done(j), job[j].state # "none",
           UNCHANGED <<caller, jobs>>, job'[j].state # "none",
           \A k \in Callers \ {j} : job'[k] = job[k]
    PROVE  CallerInv'
<1>1. caller \in [Callers -> CallerStates]
  BY DEF TypeOK
<1>2. \A c \in Callers : caller[c].job \in Callers \cup {None}
  BY <1>1 DEF CallerStates
<1>3. \A k \in Callers : /\ job'[k].state = "none" <=> job[k].state = "none"
                         /\ Done(k) => job'[k] = job[k] /\ Done(k)'
  BY DEF Done
<1> QED
  BY <1>2, <1>3 DEF CallerInv

\* Handing a queued job to Unity keeps the invariant.
LEMMA DispatchInv ==
    ASSUME TypeOK, JobInv, NEW t \in Callers, WorkerAt(t, "dispatch"),
           ~Done(worker[t].job), MarkDispatched(worker[t].job),
           NEW g, Send(worker[t].job, g), Goto(t, "post"),
           UNCHANGED <<caller, jobs, pending, started, control, executed>>
    PROVE  JobInv'
<1>inv. AnswerInv /\ CallerInv /\ WorkerInv /\ OwnerInv
  BY DEF JobInv
<1>1. Preparing(t) /\ Live(t)
  BY DEF WorkerAt, Preparing, Live
<1>2. worker[t].job \in Callers /\ job[worker[t].job].state = "queued"
  BY <1>1, <1>inv DEF OwnerInv, AnswerInv, WorkerAt
<1>3. /\ AnswerInv'
      /\ \A k \in Callers \ {worker[t].job} : job'[k] = job[k] /\ net'[k] = net[k]
      /\ job'[worker[t].job].state = "dispatched"
      /\ net'[worker[t].job].pc = "sent"
  BY <1>2, <1>inv, SendAnswers
<1>4. /\ \A u \in Callers \ {t} : worker'[u] = worker[u]
      /\ worker'[t].job = worker[t].job
      /\ worker'[t].pc = "post"
  BY DEF TypeOK, Goto, WorkerStates
<1>5. CallerInv'
  BY <1>2, <1>3, <1>inv, CallerMoves
<1>6. \A u \in Callers : Live(u)' => Live(u)
  BY <1>1, <1>4 DEF Live
<1>7. WorkerInv'
  BY <1>6, <1>inv, WorkerKept
<1>8. OwnerInv'
  BY <1>1, <1>3, <1>4, <1>inv, OwnerMoves
<1> QED
  BY <1>3, <1>5, <1>7, <1>8 DEF JobInv

\* Taking a rejected message back and queueing its job again keeps the invariant:
\* the rejection proves that Unity has not run it and never will.
LEMMA RetryInv ==
    ASSUME TypeOK, JobInv, NEW t \in Callers, AnswerRetry(t)
    PROVE  JobInv'
<1>inv. AnswerInv /\ CallerInv /\ WorkerInv /\ OwnerInv
  BY DEF JobInv
<1> DEFINE j == worker[t].job
<1>1. Preparing(t) /\ Live(t) /\ worker[t].pc = "post"
  BY DEF AnswerRetry, WorkerAt, Preparing, Live
<1>2. j \in Callers /\ job[j].state = "dispatched" /\ ~Done(j) /\ net[j].answer = "stale"
  BY <1>1, <1>inv DEF OwnerInv, AnswerInv, AnswerRetry
<1>3. /\ \A k \in Callers \ {j} : job'[k] = job[k] /\ net'[k] = net[k]
      /\ job'[j].state = "queued" /\ job'[j].response = job[j].response
      /\ net'[j] = NoMessage
  BY <1>2 DEF AnswerRetry, TypeOK, JobStates
<1>4. UNCHANGED <<caller, jobs, pending, started, control, executed>>
  BY DEF AnswerRetry, callerVars, queueVars
<1>5. AnswerInv'
  <2>1. executed[j] = 0 /\ job[j].response = None
    BY <1>2, <1>inv DEF AnswerInv, Done
  <2> HIDE DEF j
  <2> QED
    BY <1>2, <1>3, <1>4, <1>inv, <2>1, HostJobsAssumption
       DEF AnswerInv, Done, NoMessage, NotStarted
<1>6. /\ \A u \in Callers \ {t} : worker'[u] = worker[u]
      /\ worker'[t].job = worker[t].job
      /\ worker'[t].pc = "context"
  BY DEF AnswerRetry, TypeOK, RetryFrom, WorkerStates
<1>7. CallerInv'
  BY <1>2, <1>3, <1>4, <1>inv, CallerMoves
<1>8. \A u \in Callers : Live(u)' => Live(u)
  BY <1>1, <1>6 DEF Live
<1>9. WorkerInv'
  BY <1>4, <1>8, <1>inv, WorkerKept
<1>10. OwnerInv'
  BY <1>1, <1>3, <1>4, <1>6, <1>inv, OwnerMoves
<1> QED
  BY <1>5, <1>7, <1>9, <1>10 DEF JobInv

\* The worker takes the head of the queue; nobody else had it.
LEMMA PopInv ==
    ASSUME TypeOK, JobInv, NEW t \in Callers, WorkerPop(t)
    PROVE  JobInv'
<1>inv. AnswerInv /\ CallerInv /\ WorkerInv /\ OwnerInv
  BY DEF JobInv
<1>1. pending \in Seq(Callers) /\ pending # <<>> /\ pending' = Tail(pending)
  BY DEF WorkerPop, TypeOK
<1>2. /\ Len(pending) \in Nat /\ 1 \in 1..Len(pending) /\ Head(pending) = pending[1]
      /\ Len(pending') = Len(pending) - 1
      /\ \A i \in 1..Len(pending') : pending'[i] = pending[i + 1] /\ i + 1 \in 1..Len(pending)
  BY <1>1
<1>3. PICK h \in Callers : h = Head(pending) /\ h = pending[1]
  BY <1>1, <1>2
<1>4. /\ job[h].state \in {"queued", "completed"} /\ control[h] = "none"
      /\ \A i \in 1..Len(pending') : pending'[i] # h
  BY <1>2, <1>3, <1>inv DEF OwnerInv
<1>5. UNCHANGED <<caller, job, jobs, started, control, net, executed>>
  BY DEF WorkerPop, callerVars, unityVars
<1>6. /\ \A u \in Callers \ {t} : worker'[u] = worker[u]
      /\ worker'[t].job = h /\ worker'[t].pc \in {"finish", "context"}
      /\ worker[t].pc = "loop"
  BY <1>3 DEF WorkerPop, TypeOK, WorkerAt
<1>7. Live(t) /\ \A u \in Callers : Live(u)' => Live(u)
  BY <1>6 DEF Live
<1>8. WorkerInv'
  BY <1>5, <1>7, <1>inv, WorkerKept
<1>9. \A u \in Callers \ {t} : ~Preparing(u)'
  BY <1>6, <1>7, <1>inv DEF WorkerInv, Preparing, Live
<1>10. \A i, k \in 1..Len(pending') : pending'[i] = pending'[k] => i = k
  <2> SUFFICES ASSUME NEW i \in 1..Len(pending'), NEW k \in 1..Len(pending'),
                      pending'[i] = pending'[k]
               PROVE  i = k
    OBVIOUS
  <2>1. pending[i + 1] = pending[k + 1] /\ i + 1 \in 1..Len(pending) /\ k + 1 \in 1..Len(pending)
    BY <1>2
  <2>2. i + 1 = k + 1
    BY <1>inv, <2>1 DEF OwnerInv
  <2> QED
    BY <1>2, <2>2
<1>11. \A i \in 1..Len(pending') : /\ job'[pending'[i]].state \in {"queued", "completed"}
                                   /\ control'[pending'[i]] = "none"
  <2>1. \A i \in 1..Len(pending) : /\ job[pending[i]].state \in {"queued", "completed"}
                                   /\ control[pending[i]] = "none"
    BY <1>inv DEF OwnerInv
  <2> QED
    BY <1>2, <1>5, <2>1
<1>12. \A u \in Callers : Preparing(u)' =>
          /\ worker'[u].job \in Callers
          /\ \A i \in 1..Len(pending') : pending'[i] # worker'[u].job
          /\ control'[worker'[u].job] = "none"
          /\ job'[worker'[u].job].state \in
                IF worker'[u].pc = "post" THEN {"dispatched", "completed"}
                                          ELSE {"queued", "completed"}
          /\ worker'[u].pc = "post" => net'[worker'[u].job].pc # "none"
  BY <1>4, <1>5, <1>6, <1>9
<1>13. OwnerInv'
  BY <1>5, <1>10, <1>11, <1>12, <1>inv DEF OwnerInv
<1>14. AnswerInv' /\ JobsAdvance
  BY <1>5, <1>inv, SameAnswers
<1>15. CallerInv'
  BY <1>5, <1>14, <1>inv, CallerKept
<1> QED
  BY <1>8, <1>13, <1>14, <1>15 DEF JobInv

\* The stopping host answers whatever is still queued; none of it was sent.
LEMMA DrainInv ==
    ASSUME TypeOK, JobInv, StopDrain
    PROVE  JobInv'
<1>inv. AnswerInv /\ CallerInv /\ WorkerInv /\ OwnerInv
  BY DEF JobInv
<1>1. \A k \in Callers : Queued(k) /\ ~Done(k) => job[k].state = "queued"
  BY <1>inv DEF Queued, OwnerInv, AnswerInv
<1>2. \A k \in Callers : \/ job'[k] = job[k]
                         \/ /\ ~Done(k) /\ job[k].state = "queued"
                            /\ job'[k].state = "completed" /\ job'[k].response = "not_started"
  BY <1>1 DEF StopDrain, TypeOK, JobStates
<1>3. JobsAdvance
  BY <1>2, HostJobsAssumption DEF JobsAdvance, Done
<1>4. UNCHANGED <<caller, jobs, pending, started, worker, control, net, executed>>
  BY DEF StopDrain, callerVars, queueVars, threadVars, unityVars
<1>5. \A k \in Callers : job[k].state = "queued" => net[k].pc = "none" /\ net[k].answer = None
  BY <1>inv DEF AnswerInv, TypeOK, Messages
<1>6. AnswerInv'
  BY <1>2, <1>4, <1>5, <1>inv, HostJobsAssumption DEF AnswerInv, Done, NotStarted
<1> QED
  BY <1>3, <1>4, <1>6, MessageAdvances

\* A control thread is the only one that hands its job to Unity.
LEMMA ControlSendInv ==
    ASSUME TypeOK, JobInv, NEW j \in Callers, ControlAt(j, "start"), ~Done(j),
           MarkDispatched(j), Send(j, None), ControlTo(j, "post"),
           UNCHANGED <<caller, jobs, pending, started, worker, executed>>
    PROVE  JobInv'
<1>inv. AnswerInv /\ CallerInv /\ WorkerInv /\ OwnerInv
  BY DEF JobInv
<1>1. control[j] = "start" /\ job[j].state = "queued"
  BY <1>inv DEF OwnerInv, AnswerInv, ControlAt
<1>2. /\ AnswerInv'
      /\ \A k \in Callers \ {j} : job'[k] = job[k] /\ net'[k] = net[k]
      /\ job'[j].state = "dispatched"
      /\ net'[j].pc = "sent"
  BY <1>1, <1>inv, SendAnswers
<1>3. control'[j] = "post" /\ \A k \in Callers \ {j} : control'[k] = control[k]
  BY DEF ControlTo, TypeOK
<1>4. CallerInv'
  BY <1>1, <1>2, <1>inv, CallerMoves
<1>5. WorkerInv'
  BY <1>inv, WorkerKept DEF Live
<1>6. \A i \in 1..Len(pending) : pending[i] \in Callers /\ pending[i] # j
  BY <1>1, <1>inv DEF OwnerInv, TypeOK
<1>7. \A t \in Callers : Preparing(t) => worker[t].job \in Callers /\ worker[t].job # j
  BY <1>1, <1>inv DEF OwnerInv
<1>8. \A t \in Callers : Preparing(t)' <=> Preparing(t)
  BY DEF Preparing
<1>9. \A i \in 1..Len(pending) : /\ job'[pending[i]].state \in {"queued", "completed"}
                                 /\ control'[pending[i]] = "none"
  BY <1>2, <1>3, <1>6, <1>inv DEF OwnerInv
<1>10. \A u \in Callers : Preparing(u)' =>
          /\ worker'[u].job \in Callers
          /\ \A i \in 1..Len(pending) : pending[i] # worker'[u].job
          /\ control'[worker'[u].job] = "none"
          /\ job'[worker'[u].job].state \in
                IF worker'[u].pc = "post" THEN {"dispatched", "completed"}
                                          ELSE {"queued", "completed"}
          /\ worker'[u].pc = "post" => net'[worker'[u].job].pc # "none"
  BY <1>2, <1>3, <1>7, <1>8, <1>inv DEF OwnerInv
<1>11. \A k \in Callers :
          /\ control'[k] # "none" => job'[k].state # "none"
          /\ control'[k] = "start" => job'[k].state \in {"queued", "completed"}
          /\ control'[k] = "post" => /\ job'[k].state \in {"dispatched", "completed"}
                                     /\ net'[k].pc # "none"
  BY <1>2, <1>3, <1>inv DEF OwnerInv
<1>12. OwnerInv'
  BY <1>9, <1>10, <1>11, <1>inv DEF OwnerInv
<1> QED
  BY <1>2, <1>4, <1>5, <1>12 DEF JobInv

\* The answer to a control query ends its thread, whoever answered first.
LEMMA ControlAnswerInv ==
    ASSUME TypeOK, JobInv, NEW j \in Callers, ControlAnswer(j) \/ ControlLost(j)
    PROVE  JobInv'
<1>1. PICK r \in Responses : Complete(j, r) /\ MayAnswer(j, r)
  <2>1. CASE ControlAnswer(j)
    <3>1. PICK r : r = Completion(net[j].answer)
      OBVIOUS
    <3>2. r \in Responses /\ MayAnswer(j, r)
      BY <2>1, <3>1 DEF ControlAnswer, Completion, Responses, MayAnswer, NotStarted
    <3> QED
      BY <2>1, <3>1, <3>2 DEF ControlAnswer
  <2>2. CASE ControlLost(j)
    <3>1. net[j].pc # "none"
      BY <2>2 DEF ControlLost, ControlAt, JobInv, OwnerInv
    <3> QED
      BY <2>2, <3>1 DEF ControlLost, Responses, MayAnswer, NotStarted
  <2> QED
    BY <2>1, <2>2
<1>2. /\ UNCHANGED <<caller, jobs, pending, started, worker, net, executed>>
      /\ control[j] = "post" /\ control' = [control EXCEPT ![j] = "ended"]
  BY DEF ControlAnswer, ControlLost, ControlAt, ControlTo, callerVars, queueVars, unityVars
<1>3. job[j].state # "none"
  BY <1>2 DEF JobInv, OwnerInv
<1>4. AnswerInv' /\ JobsAdvance
  BY <1>1, <1>2, <1>3, CompleteInv DEF JobInv
<1> QED
  BY <1>2, <1>4, ControlEnds

\* A control thread that starts finds its job answered or late, or sends it.
LEMMA ControlStartInv ==
    ASSUME TypeOK, JobInv, NEW j \in Callers, ControlStart(j)
    PROVE  JobInv'
<1>1. /\ UNCHANGED <<caller, jobs, pending, started, worker, executed>>
      /\ control[j] = "start"
  BY DEF ControlStart, ControlAt, callerVars, queueVars
<1>2. job[j].state # "none"
  BY <1>1 DEF JobInv, OwnerInv
<1>3. CASE Done(j) /\ ControlTo(j, "ended") /\ UNCHANGED <<job, net>>
  <2>1. AnswerInv' /\ JobsAdvance
    BY <1>1, <1>3, SameAnswers DEF JobInv
  <2> QED
    BY <1>1, <1>3, <2>1, ControlEnds DEF ControlTo
<1>4. CASE Expire(j) /\ ControlTo(j, "ended") /\ UNCHANGED net
  <2>1. AnswerInv' /\ JobsAdvance
    BY <1>1, <1>2, <1>4, ExpireInv DEF JobInv
  <2> QED
    BY <1>1, <1>4, <2>1, ControlEnds DEF ControlTo
<1>5. CASE ~Done(j) /\ MarkDispatched(j) /\ Send(j, None) /\ ControlTo(j, "post")
  BY <1>1, <1>5, ControlSendInv DEF ControlStart
<1> QED
  BY <1>3, <1>4, <1>5 DEF ControlStart

\* What Unity does with messages it holds: run one, refuse one, or refuse
\* several when its listener stops.
LEMMA UnityInv ==
    ASSUME TypeOK, JobInv,
           UnityReload \/ UnityHalt \/ \E j \in Callers : UnityExecute(j) \/ UnityRefuse(j)
    PROVE  JobInv'
<1>net. net \in [Callers -> Messages] /\ executed \in [Callers -> Nat]
  BY DEF TypeOK
<1>none. None \notin {"result", "stale", "refused"}
  BY HostJobsAssumption
<1>1. UNCHANGED <<caller, job, jobs, pending, started, worker, control>>
  BY DEF UnityReload, UnityHalt, UnityExecute, UnityRefuse, callerVars, queueVars, threadVars
<1>zero. \A j \in Callers : net[j].pc = "sent" => executed[j] = 0
  BY <1>none DEF JobInv, AnswerInv
<1>2. ASSUME UnityReload \/ UnityHalt PROVE JobInv'
  <2>1. PICK S \in SUBSET Sent : Cut(S)
    BY <1>2, Zenon DEF UnityReload, UnityHalt
  <2>2. UNCHANGED executed
    BY <1>2 DEF UnityReload, UnityHalt
  <2>3. S \subseteq Callers /\ \A j \in S : net[j].pc = "sent"
    BY <2>1 DEF Sent
  <2>4. /\ \A j \in S : net'[j].pc = "answered" /\ net'[j].answer = "stale"
        /\ \A j \in Callers \ S : net'[j] = net[j]
    BY <1>net, <2>1, <2>3 DEF Cut, Messages
  <2> QED
    BY <1>1, <1>none, <1>zero, <2>2, <2>3, <2>4, UnityAnswers
<1>3. ASSUME NEW j \in Callers, UnityExecute(j) PROVE JobInv'
  <2>1. /\ net[j].pc = "sent" /\ net'[j].pc = "answered" /\ net'[j].answer = "result"
        /\ \A k \in Callers \ {j} : net'[k] = net[k] /\ executed'[k] = executed[k]
        /\ executed'[j] = executed[j] + 1
    BY <1>3, <1>net DEF UnityExecute, Messages
  <2>2. executed'[j] = 1
    BY <1>zero, <2>1
  <2> QED
    BY <1>1, <1>none, <2>1, <2>2, UnityAnswers
<1>4. ASSUME NEW j \in Callers, UnityRefuse(j) PROVE JobInv'
  <2>1. /\ net[j].pc = "sent" /\ net'[j].pc = "answered"
        /\ net'[j].answer \in {"refused", "stale"}
        /\ \A k \in Callers \ {j} : net'[k] = net[k]
        /\ executed' = executed
    BY <1>4, <1>net DEF UnityRefuse, Messages
  <2> QED
    BY ZenonT(60), <1>1, <1>none, <1>zero, <2>1, UnityAnswers
<1> QED
  BY <1>2, <1>3, <1>4

\* Trimming forgets finished jobs; the caller goes on with its admission.
LEMMA TrimInv ==
    ASSUME TypeOK, JobInv, NEW c \in Callers, Trim(c)
    PROVE  JobInv'
<1>inv. AnswerInv /\ CallerInv /\ WorkerInv /\ OwnerInv
  BY DEF JobInv
<1>1. /\ UNCHANGED <<job, pending, started, worker, control, net, executed>>
      /\ jobs' \subseteq jobs
  BY DEF Trim, threadVars, unityVars
<1>2. /\ caller'[c].pc = "admitting" /\ caller'[c].job = caller[c].job
      /\ \A d \in Callers \ {c} : caller'[d] = caller[d]
      /\ caller[c].pc \in {"entered", "rescanned"}
  BY DEF Trim, NewWork, TypeOK, CallerStates
<1>3. CallerInv'
  BY <1>1, <1>2, <1>inv DEF CallerInv, Done
<1>4. AnswerInv'
  BY <1>1, <1>inv, SameAnswers
<1>5. WorkerInv' /\ OwnerInv'
  BY <1>1, <1>inv DEF WorkerInv, OwnerInv, Live, Preparing
<1> QED
  BY <1>3, <1>4, <1>5 DEF JobInv

\* Admitting a request: the new job is given to the queue (and a worker, unless
\* one works) or to a control thread.
LEMMA AdmitInv ==
    ASSUME TypeOK, JobInv, NEW c \in Callers, Admit(c)
    PROVE  JobInv'
<1>inv. AnswerInv /\ CallerInv /\ WorkerInv /\ OwnerInv
  BY DEF JobInv
<1>caller. caller \in [Callers -> CallerStates]
  BY DEF TypeOK
<1>1. UNCHANGED <<net, executed>>
  BY DEF Admit, unityVars
<1>2. /\ job[c].state = "none" /\ caller[c].job = None
      /\ caller[c].pc \in {"entered", "rescanned", "admitting"} /\ c \notin jobs
  BY <1>inv DEF Admit, NewWork, CallerInv
<1>3. CASE /\ Answered(c, "not_started")
           /\ UNCHANGED <<job, jobs, pending, started, worker, control>>
  <2>1. /\ caller'[c].pc = "returned" /\ caller'[c].job = None
        /\ \A d \in Callers \ {c} : caller'[d] = caller[d]
    BY <1>2, <1>3, <1>caller DEF Answered, CallerStates
  <2>2. CallerInv'
    BY <1>3, <1>inv, <2>1 DEF CallerInv, Done
  <2> QED
    BY <1>1, <1>3, <2>2, CallerOnly
<1>4. CASE /\ jobs' = jobs \cup {c}
           /\ job' = [job EXCEPT ![c] = [state |-> "queued", response |-> None,
                                         ticket |-> NextTicket]]
           /\ caller' = [caller EXCEPT ![c].pc = "waiting", ![c].job = c]
           /\ \/ /\ control' = [control EXCEPT ![c] = "start"]
                 /\ UNCHANGED <<pending, started, worker>>
              \/ /\ Enqueue(c) /\ EnsureWorker(c) /\ UNCHANGED control
  <2>1. /\ \A k \in Callers \ {c} : job'[k] = job[k]
        /\ job'[c].state = "queued" /\ job'[c].response = None
    BY <1>4 DEF TypeOK
  <2>2. /\ caller'[c].pc = "waiting" /\ caller'[c].job = c
        /\ \A d \in Callers \ {c} : caller'[d] = caller[d]
    BY <1>4, <1>caller DEF CallerStates
  <2>3. job[c].response = None /\ net[c].pc = "none" /\ net[c].answer = None
    BY <1>2, <1>inv DEF AnswerInv, Done, TypeOK, Messages
  <2>4. AnswerInv'
    BY <1>1, <1>inv, <2>1, <2>3, HostJobsAssumption DEF AnswerInv, Done, NotStarted
  <2>5. CallerInv'
    <3>1. ASSUME NEW d \in Callers \ {c}
          PROVE  /\ caller[d].job \in Callers \cup {None}
                 /\ caller[d].job # None => caller[d].job # c
      BY <1>2, <1>caller, <1>inv DEF CallerInv, CallerStates
    <3>2. \A d \in Callers \ {c} : caller[d].job # None =>
             job'[caller[d].job] = job[caller[d].job]
      BY <2>1, <3>1
    <3>3. c # None
      BY HostJobsAssumption
    <3>4. \A d \in Callers \ {c} : d \in jobs' => d \in jobs
      BY <1>4, <1>1
    <3>5. ASSUME NEW d \in Callers \ {c}
          PROVE  /\ caller[d].pc \in {"idle", "entered", "rescanned", "admitting"} =>
                       job'[d].state = "none" /\ caller[d].job = None
                 /\ caller[d].pc = "waiting" => caller[d].job # None
                 /\ caller[d].job # None => job'[caller[d].job].state # "none"
                 /\ caller[d].pc = "returned" /\ caller[d].job # None =>
                       job'[caller[d].job].response # None
                       /\ caller[d].reply = job'[caller[d].job].response
                 /\ d \in jobs' => job'[d].state # "none"
      BY <1>inv, <2>1, <3>2, <3>4 DEF CallerInv, Done
    <3>6. job'[c].state # "none"
      BY <2>1
    <3>7. \A d \in Callers \ {c} : caller'[d] = caller[d]
      BY <2>2
    <3>8. /\ caller'[c].job # None
          /\ caller'[c].pc \notin {"idle", "entered", "rescanned", "admitting", "returned"}
          /\ job'[caller'[c].job].state # "none"
      BY <2>2, <3>3, <3>6
    <3>9. \A d \in Callers \ {c} :
             /\ caller'[d].pc \in {"idle", "entered", "rescanned", "admitting"} =>
                   job'[d].state = "none" /\ caller'[d].job = None
             /\ caller'[d].pc = "waiting" => caller'[d].job # None
             /\ caller'[d].job # None => job'[caller'[d].job].state # "none"
             /\ caller'[d].pc = "returned" /\ caller'[d].job # None =>
                   job'[caller'[d].job].response # None
                   /\ caller'[d].reply = job'[caller'[d].job].response
             /\ d \in jobs' => job'[d].state # "none"
      BY <3>5, <3>7
    <3> QED
      BY <3>6, <3>8, <3>9 DEF CallerInv, Done
  <2>6. /\ \A i \in 1..Len(pending) : pending[i] \in Callers \ {c}
        /\ \A t \in Callers : Preparing(t) => worker[t].job \in Callers \ {c}
        /\ control[c] = "none"
    <3>1. \A i \in 1..Len(pending) : pending[i] \in Callers
      BY DEF TypeOK
    <3>2. \A t \in Callers : Preparing(t) => job[worker[t].job].state # "none"
      BY <1>inv DEF OwnerInv
    <3>3. control[c] = "none"
      BY <1>2, <1>inv DEF OwnerInv
    <3> QED
      BY <1>2, <1>inv, <3>1, <3>2, <3>3 DEF OwnerInv
  <2>7. CASE control' = [control EXCEPT ![c] = "start"] /\ UNCHANGED <<pending, started, worker>>
    <3>1. control'[c] = "start" /\ \A k \in Callers \ {c} : control'[k] = control[k]
      BY <2>7 DEF TypeOK
    <3>2. WorkerInv'
      BY <1>inv, <2>7, WorkerKept DEF Live
    <3>3. \A t \in Callers : Preparing(t)' <=> Preparing(t)
      BY <2>7 DEF Preparing
    <3>4. \A i \in 1..Len(pending) : /\ job'[pending[i]].state \in {"queued", "completed"}
                                     /\ control'[pending[i]] = "none"
      BY <1>inv, <2>1, <2>6, <3>1 DEF OwnerInv
    <3>5. \A u \in Callers : Preparing(u)' =>
              /\ worker'[u].job \in Callers
              /\ \A i \in 1..Len(pending) : pending[i] # worker'[u].job
              /\ control'[worker'[u].job] = "none"
              /\ job'[worker'[u].job].state \in
                    IF worker'[u].pc = "post" THEN {"dispatched", "completed"}
                                              ELSE {"queued", "completed"}
              /\ worker'[u].pc = "post" => net'[worker'[u].job].pc # "none"
      BY <1>1, <1>inv, <2>1, <2>6, <2>7, <3>1, <3>3 DEF OwnerInv
    <3>6. \A k \in Callers :
              /\ control'[k] # "none" => job'[k].state # "none"
              /\ control'[k] = "start" => job'[k].state \in {"queued", "completed"}
              /\ control'[k] = "post" => /\ job'[k].state \in {"dispatched", "completed"}
                                         /\ net'[k].pc # "none"
      BY <1>1, <1>inv, <2>1, <3>1 DEF OwnerInv
    <3>7. OwnerInv'
      BY <1>inv, <2>7, <3>4, <3>5, <3>6 DEF OwnerInv
    <3> QED
      BY <2>4, <2>5, <3>2, <3>7 DEF JobInv
  <2>8. CASE Enqueue(c) /\ EnsureWorker(c) /\ UNCHANGED control
    <3>1. /\ Len(pending) \in Nat /\ Len(pending') = Len(pending) + 1
          /\ \A i \in 1..Len(pending) : pending'[i] = pending[i]
          /\ pending'[Len(pending) + 1] = c
      BY <2>8 DEF Enqueue, TypeOK
    <3>2. \A i \in 1..Len(pending') : i \in 1..Len(pending) \/ i = Len(pending) + 1
      BY <3>1
    <3>3. /\ started' = TRUE
          /\ \A u \in Callers : \/ worker'[u] = worker[u]
                                \/ u = c /\ ~started /\ worker'[u].pc = "loop"
      BY <2>8 DEF EnsureWorker, TypeOK, WorkerStates
    <3>4. WorkerInv'
      BY <1>inv, <3>3 DEF WorkerInv, Live
    <3>5. \A u \in Callers : Preparing(u)' => Preparing(u) /\ worker'[u] = worker[u]
      BY <3>3 DEF Preparing
    <3>6. \A i, k \in 1..Len(pending') : pending'[i] = pending'[k] => i = k
      BY <1>inv, <2>6, <3>1, <3>2 DEF OwnerInv
    <3>7. \A i \in 1..Len(pending') : /\ job'[pending'[i]].state \in {"queued", "completed"}
                                      /\ control'[pending'[i]] = "none"
      BY <1>inv, <2>1, <2>6, <2>8, <3>1, <3>2 DEF OwnerInv
    <3>8. \A u \in Callers : Preparing(u)' =>
              /\ worker'[u].job \in Callers
              /\ \A i \in 1..Len(pending') : pending'[i] # worker'[u].job
              /\ control'[worker'[u].job] = "none"
              /\ job'[worker'[u].job].state \in
                    IF worker'[u].pc = "post" THEN {"dispatched", "completed"}
                                              ELSE {"queued", "completed"}
              /\ worker'[u].pc = "post" => net'[worker'[u].job].pc # "none"
      <4> SUFFICES ASSUME NEW u \in Callers, Preparing(u)'
                   PROVE  /\ worker'[u].job \in Callers
                          /\ \A i \in 1..Len(pending') : pending'[i] # worker'[u].job
                          /\ control'[worker'[u].job] = "none"
                          /\ job'[worker'[u].job].state \in
                                IF worker'[u].pc = "post" THEN {"dispatched", "completed"}
                                                          ELSE {"queued", "completed"}
                          /\ worker'[u].pc = "post" => net'[worker'[u].job].pc # "none"
        OBVIOUS
      <4>1. Preparing(u) /\ worker'[u] = worker[u] /\ worker[u].job \in Callers \ {c}
        BY <2>6, <3>5
      <4>2. \A i \in 1..Len(pending') : pending'[i] # worker[u].job
        BY <1>inv, <3>1, <3>2, <4>1 DEF OwnerInv
      <4>3. /\ control[worker[u].job] = "none"
            /\ job[worker[u].job].state \in
                  IF worker[u].pc = "post" THEN {"dispatched", "completed"}
                                           ELSE {"queued", "completed"}
            /\ worker[u].pc = "post" => net[worker[u].job].pc # "none"
        BY <1>inv, <4>1 DEF OwnerInv
      <4>4. job'[worker[u].job] = job[worker[u].job] /\ control' = control /\ net' = net
        BY <1>1, <2>1, <2>8, <4>1
      <4> QED
        BY <4>1, <4>2, <4>3, <4>4
    <3>9. \A k \in Callers :
              /\ control'[k] # "none" => job'[k].state # "none"
              /\ control'[k] = "start" => job'[k].state \in {"queued", "completed"}
              /\ control'[k] = "post" => /\ job'[k].state \in {"dispatched", "completed"}
                                         /\ net'[k].pc # "none"
      <4>1. net' = net /\ control' = control
        BY <1>1, <2>8
      <4>2. \A k \in Callers :
                /\ control[k] # "none" => job[k].state # "none"
                /\ control[k] = "start" => job[k].state \in {"queued", "completed"}
                /\ control[k] = "post" => /\ job[k].state \in {"dispatched", "completed"}
                                          /\ net[k].pc # "none"
        BY <1>inv DEF OwnerInv
      <4> QED
        BY <2>1, <2>6, <4>1, <4>2
    <3>10. OwnerInv'
      BY <3>6, <3>7, <3>8, <3>9 DEF OwnerInv
    <3> QED
      BY <2>4, <2>5, <3>4, <3>10 DEF JobInv
  <2> QED
    BY <1>4, <2>7, <2>8
<1> QED
  BY <1>3, <1>4, Zenon DEF Admit

\* Every step keeps the inductive invariant; one step of the proof per action.
LEMMA InvStep == TypeOK /\ TypeOK' /\ JobInv /\ [Next]_vars => JobInv'
<1> SUFFICES ASSUME TypeOK, TypeOK', JobInv, [Next]_vars
             PROVE  JobInv'
  OBVIOUS
<1> USE DEF callerVars, queueVars, threadVars, discVars, stopVars, unityVars
<1>caller. caller \in [Callers -> CallerStates] /\ caller' \in [Callers -> CallerStates]
  BY DEF TypeOK
<1>job. job \in [Callers -> JobStates]
  BY DEF TypeOK
<1>worker. worker \in [Callers -> WorkerStates]
  BY DEF TypeOK
<1>pending. pending \in Seq(Callers)
  BY DEF TypeOK
<1>net. net \in [Callers -> Messages] /\ executed \in [Callers -> Nat]
  BY DEF TypeOK
<1>inv. AnswerInv /\ CallerInv /\ WorkerInv /\ OwnerInv
  BY DEF JobInv
<1>prep. ASSUME NEW t \in Callers, Preparing(t)
         PROVE  /\ Live(t)
                /\ worker[t].job \in Callers
                /\ job[worker[t].job].state # "none"
                /\ worker[t].pc # "post" /\ ~Done(worker[t].job) =>
                      /\ job[worker[t].job].state = "queued"
                      /\ MayAnswer(worker[t].job, "not_started")
  <2>1. Live(t) /\ worker[t].job \in Callers /\ job[worker[t].job].state # "none"
    BY <1>prep, <1>inv DEF Live, Preparing, OwnerInv
  <2>2. ASSUME worker[t].pc # "post", ~Done(worker[t].job)
        PROVE  /\ job[worker[t].job].state = "queued"
               /\ MayAnswer(worker[t].job, "not_started")
    <3>1. job[worker[t].job].state = "queued"
      BY <1>prep, <1>inv, <2>1, <2>2 DEF OwnerInv, AnswerInv
    <3>2. net[worker[t].job].pc = "none" /\ net[worker[t].job].answer = None
      BY <1>inv, <1>net, <2>1, <3>1 DEF AnswerInv, Messages
    <3> QED
      BY <3>1, <3>2, HostJobsAssumption DEF MayAnswer
  <2> QED
    BY <2>1, <2>2
(* Discovery, time and mode changes *)
<1>1. CASE Scan \/ Negotiate \/ StopObserve \/ StopSet \/ UnityLoadAssembly \/ UnityMode
  BY <1>1, Untouched, ScanType DEF Scan, Negotiate, NegotiateServed, NegotiateStore, NegotiateFail,
     StopObserve, StopSet, UnityLoadAssembly, UnityMode
<1>2. ASSUME NEW c \in Callers, DeadlinePasses(c) PROVE JobInv'
  BY <1>2, Untouched DEF DeadlinePasses
<1>3. CASE UNCHANGED vars
  BY <1>3, Untouched DEF vars
(* submit *)
<1>4. ASSUME NEW c \in Callers, Refuse(c) \/ Unsupported(c) PROVE JobInv'
  <2>1. /\ caller'[c].pc = "returned" /\ caller'[c].job = None
        /\ \A d \in Callers \ {c} : caller'[d] = caller[d]
    BY <1>4, <1>caller, <1>inv DEF Refuse, Unsupported, Answered, CallerInv, CallerStates
  <2>2. CallerInv'
    BY <1>4, <1>inv, <2>1 DEF CallerInv, Refuse, Unsupported, Done
  <2> QED
    BY <1>4, <2>2, CallerOnly DEF Refuse, Unsupported
<1>5. ASSUME NEW c \in Callers, Enter(c) PROVE JobInv'
  <2>1. /\ caller'[c].pc = "entered" /\ caller'[c].job = caller[c].job
        /\ \A d \in Callers \ {c} : caller'[d] = caller[d]
    <3>1. PICK id \in RequestIds[c], w \in Work :
             caller' = [caller EXCEPT ![c].pc = "entered", ![c].id = id, ![c].work = w]
      BY <1>5, Zenon DEF Enter
    <3> QED
      BY <1>caller, <3>1 DEF CallerStates
  <2>2. CallerInv'
    BY ZenonT(60), <1>5, <1>inv, <2>1 DEF CallerInv, Enter, Done
  <2> QED
    BY <1>5, <2>2, CallerOnly DEF Enter
<1>6. ASSUME NEW c \in Callers, Rescan(c) PROVE JobInv'
  <2>1. /\ caller'[c].pc = "rescanned" /\ caller'[c].job = caller[c].job
        /\ \A d \in Callers \ {c} : caller'[d] = caller[d]
    BY <1>6, <1>caller DEF Rescan, CallerStates
  <2>2. CallerInv'
    BY <1>6, <1>inv, <2>1 DEF CallerInv, Rescan, Done
  <2> QED
    BY <1>6, <2>2, CallerOnly DEF Rescan
<1>7. ASSUME NEW c \in Callers, Join(c) PROVE JobInv'
  <2>1. /\ \A d \in Callers \ {c} : caller'[d] = caller[d]
        /\ \/ caller'[c].pc = "waiting" /\ caller'[c].job \in jobs
           \/ caller'[c].pc = "returned" /\ caller'[c].job = None
    BY <1>7, <1>caller, <1>inv DEF Join, SameId, Answered, CallerInv, CallerStates
  <2>2. jobs \subseteq Callers /\ None \notin Callers
    BY HostJobsAssumption DEF TypeOK
  <2>3. CallerInv'
    BY <1>7, <1>inv, <2>1, <2>2 DEF CallerInv, Join, Done
  <2> QED
    BY <1>7, <2>3, CallerOnly DEF Join
<1>8. ASSUME NEW c \in Callers, CallerReturn(c) PROVE JobInv'
  <2>1. /\ \A d \in Callers \ {c} : caller'[d] = caller[d]
        /\ caller'[c].pc = "returned" /\ caller'[c].job = caller[c].job
        /\ caller'[c].reply = job[caller[c].job].response
    BY <1>8, <1>caller DEF CallerReturn, Answered, CallerStates
  <2>2. CallerInv'
    BY <1>8, <1>inv, <2>1 DEF CallerInv, CallerReturn, Done
  <2> QED
    BY <1>8, <2>2, CallerOnly DEF CallerReturn
<1>9. ASSUME NEW c \in Callers, CallerTimeout(c) PROVE JobInv'
  BY <1>9, TimeoutInv
(* The worker, without sending *)
<1>10. ASSUME NEW t \in Callers, WorkerLeave(t) PROVE JobInv'
  <2>1. /\ worker'[t].pc = "exited"
        /\ \A u \in Callers \ {t} : worker'[u] = worker[u]
        /\ Live(t)
    BY <1>10, <1>worker DEF WorkerLeave, Goto, WorkerAt, Live, WorkerStates
  <2>2. \A u \in Callers : ~Live(u)'
    BY <1>inv, <2>1 DEF WorkerInv, Live
  <2>3. UNCHANGED <<caller, job, jobs, pending, control, net, executed>>
    BY <1>10 DEF WorkerLeave
  <2>4. AnswerInv' /\ JobsAdvance
    BY <1>inv, <2>3, SameAnswers
  <2>5. CallerInv'
    BY <1>inv, <2>3, <2>4, CallerKept
  <2>6. WorkerInv'
    BY <2>2 DEF WorkerInv
  <2>7. \A u \in Callers : ~Preparing(u)'
    BY <2>2 DEF Live, Preparing
  <2>8. OwnerInv'
    BY <1>inv, <2>3, <2>4, <2>7, OwnerKept
  <2> QED
    BY <2>4, <2>5, <2>6, <2>8 DEF JobInv
<1>11. ASSUME NEW t \in Callers, WorkerStop(t) \/ WorkerFinish(t) \/ CompileOk(t) \/ ContextReady(t)
       PROVE  JobInv'
  <2>1. /\ \A u \in Callers \ {t} : worker'[u] = worker[u]
        /\ Live(t)
        /\ Preparing(t)' => /\ Preparing(t)
                            /\ worker'[t].job = worker[t].job
                            /\ worker'[t].pc = "post" <=> worker[t].pc = "post"
    BY <1>11, <1>worker DEF WorkerStop, WorkerFinish, CompileOk, ContextReady, Goto, WorkerAt,
       Live, Preparing, WorkerStates
  <2>2. /\ UNCHANGED <<caller, job, pending, started, control, net, executed>>
        /\ jobs' \subseteq jobs
    BY <1>11 DEF WorkerStop, WorkerFinish, CompileOk, ContextReady
  <2>3. AnswerInv' /\ JobsAdvance
    BY <1>inv, <2>2, SameAnswers
  <2> QED
    BY <2>1, <2>2, <2>3, WorkerAdvances
<1>12. ASSUME NEW t \in Callers, CompileStale(t) PROVE JobInv'
  <2>1. /\ \A u \in Callers \ {t} : worker'[u] = worker[u]
        /\ Live(t) /\ Preparing(t)
        /\ worker'[t].job = worker[t].job
        /\ worker'[t].pc = "context" /\ worker[t].pc = "compile"
    BY <1>12, <1>worker DEF CompileStale, RetryFrom, WorkerAt, Live, Preparing, WorkerStates
  <2>2. UNCHANGED <<caller, job, jobs, pending, started, control, net, executed>>
    BY <1>12 DEF CompileStale
  <2>3. AnswerInv' /\ JobsAdvance
    BY <1>inv, <2>2, SameAnswers
  <2> QED
    BY <2>1, <2>2, <2>3, WorkerAdvances
<1>finish. ASSUME NEW t \in Callers, Preparing(t), Goto(t, "finish"), AnswerInv', JobsAdvance,
                  UNCHANGED <<caller, pending, started, control, net>>, jobs' = jobs
           PROVE  JobInv'
  <2>1. /\ \A u \in Callers \ {t} : worker'[u] = worker[u]
        /\ ~Preparing(t)'
    BY <1>finish, <1>worker DEF Goto, Preparing, WorkerStates
  <2> QED
    BY <1>finish, <1>prep, <2>1, WorkerAdvances
<1>13. ASSUME NEW t \in Callers, ContextAbandoned(t) PROVE JobInv'
  <2>1. Preparing(t)
    BY <1>13 DEF ContextAbandoned, WorkerAt, Preparing
  <2>2. AnswerInv' /\ JobsAdvance
    BY <1>13, <1>inv, <1>prep, <2>1, ExpireInv DEF ContextAbandoned
  <2> QED
    BY <1>13, <1>finish, <2>1, <2>2 DEF ContextAbandoned
<1>14. ASSUME NEW t \in Callers, ContextUnavailable(t) \/ CompileError(t) PROVE JobInv'
  <2>1. Preparing(t) /\ worker[t].pc # "post"
    BY <1>14 DEF ContextUnavailable, CompileError, WorkerAt, Preparing
  <2>2. /\ Complete(worker[t].job, "not_started") /\ Goto(t, "finish")
        /\ UNCHANGED <<caller, jobs, pending, started, control, net, executed>>
    BY <1>14 DEF ContextUnavailable, CompileError
  <2>3. AnswerInv' /\ JobsAdvance
    BY <1>inv, <1>prep, <2>1, <2>2, CompleteInv DEF Responses
  <2> QED
    BY <1>finish, <2>1, <2>2, <2>3
<1>15. ASSUME NEW t \in Callers, CheckStale(t) PROVE JobInv'
  <2>1. Preparing(t) /\ worker[t].pc = "check"
    BY <1>15 DEF CheckStale, WorkerAt, Preparing
  <2>2. UNCHANGED <<caller, jobs, pending, started, control, net, executed>>
    BY <1>15 DEF CheckStale
  <2>3. CASE UNCHANGED job /\ (Goto(t, "dispatch") \/ RetryFrom(t))
    <3>1. /\ \A u \in Callers \ {t} : worker'[u] = worker[u]
          /\ worker'[t].job = worker[t].job
          /\ worker'[t].pc \in {"dispatch", "context"}
      BY <1>worker, <2>3 DEF Goto, RetryFrom, WorkerStates
    <3>2. AnswerInv' /\ JobsAdvance
      BY <1>inv, <2>2, <2>3, SameAnswers
    <3> QED
      BY <1>prep, <2>1, <2>2, <3>1, <3>2, WorkerAdvances
  <2>4. CASE Complete(worker[t].job, "not_started") /\ Goto(t, "finish")
    <3>1. AnswerInv' /\ JobsAdvance
      BY <1>inv, <1>prep, <2>1, <2>2, <2>4, CompleteInv DEF Responses
    <3> QED
      BY <1>finish, <2>1, <2>2, <2>4, <3>1
  <2> QED
    BY <1>15, <2>3, <2>4 DEF CheckStale
<1>post. ASSUME NEW t \in Callers, Preparing(t), worker[t].pc = "post"
         PROVE  /\ worker[t].job \in Callers
                /\ net[worker[t].job].pc # "none"
                /\ MayAnswer(worker[t].job, "unknown")
  BY <1>post, <1>inv DEF OwnerInv, MayAnswer, NotStarted
<1>16. ASSUME NEW t \in Callers, AnswerLost(t) PROVE JobInv'
  <2>1. Preparing(t) /\ worker[t].pc = "post"
    BY <1>16 DEF AnswerLost, WorkerAt, Preparing
  <2>2. AnswerInv' /\ JobsAdvance
    BY <1>16, <1>inv, <1>prep, <1>post, <2>1, CompleteInv DEF AnswerLost, Responses
  <2> QED
    BY <1>16, <1>finish, <2>1, <2>2 DEF AnswerLost
<1>answer. ASSUME NEW j \in Callers, net[j].pc = "answered"
           PROVE  Completion(net[j].answer) \in Responses /\ MayAnswer(j, Completion(net[j].answer))
  BY <1>answer DEF Completion, Responses, MayAnswer, NotStarted
<1>17. ASSUME NEW t \in Callers, AnswerFinal(t) PROVE JobInv'
  <2>1. Preparing(t) /\ worker[t].pc = "post"
    BY <1>17 DEF AnswerFinal, WorkerAt, Preparing
  <2>2. AnswerInv' /\ JobsAdvance
    BY <1>17, <1>inv, <1>prep, <1>answer, <2>1, CompleteInv DEF AnswerFinal
  <2> QED
    BY <1>17, <1>finish, <2>1, <2>2 DEF AnswerFinal
<1>18. ASSUME NEW t \in Callers, WorkerException(t) PROVE JobInv'
  <2> DEFINE j == worker[t].job
             r == IF job[j].state = "dispatched" THEN "unknown" ELSE "not_started"
  <2>1. Preparing(t) /\ worker[t].pc \in {"compile", "post"}
    BY <1>18 DEF WorkerException, Preparing
  <2>2. j \in Callers /\ job[j].state # "none"
    BY <1>prep, <2>1
  <2>3. Done(j) \/ MayAnswer(j, r)
    <3>1. CASE worker[t].pc = "compile"
      BY <1>prep, <2>1, <3>1
    <3>2. CASE worker[t].pc = "post"
      BY <1>inv, <1>post, <2>1, <2>2, <3>2 DEF OwnerInv, AnswerInv
    <3> QED
      BY <2>1, <3>1, <3>2
  <2>4. AnswerInv' /\ JobsAdvance
    <3>1. Complete(j, r) /\ UNCHANGED <<net, executed>>
      BY <1>18 DEF WorkerException
    <3>2. r \in Responses
      BY DEF Responses
    <3> QED
      BY <1>inv, <2>2, <2>3, <3>1, <3>2, CompleteInv
  <2> QED
    BY <1>18, <1>finish, <2>1, <2>4 DEF WorkerException
(* What has a lemma of its own *)
<1>19. ASSUME NEW t \in Callers, WorkerPop(t) PROVE JobInv'
  BY <1>19, PopInv
<1>20. ASSUME NEW t \in Callers, Dispatch(t) PROVE JobInv'
  <2>1. /\ WorkerAt(t, "dispatch") /\ Preparing(t)
        /\ UNCHANGED <<caller, jobs, pending, started, control, executed>>
    BY <1>20 DEF Dispatch, WorkerAt, Preparing
  <2>2. CASE Goto(t, "finish") /\ UNCHANGED <<job, net>>
    <3>1. AnswerInv' /\ JobsAdvance
      BY <1>inv, <2>1, <2>2, SameAnswers
    <3> QED
      BY <1>finish, <2>1, <2>2, <3>1
  <2>3. CASE Expire(worker[t].job) /\ Goto(t, "finish") /\ UNCHANGED net
    <3>1. AnswerInv' /\ JobsAdvance
      BY <1>inv, <1>prep, <2>1, <2>3, ExpireInv
    <3> QED
      BY <1>finish, <2>1, <2>3, <3>1
  <2>4. CASE /\ ~Done(worker[t].job) /\ MarkDispatched(worker[t].job)
             /\ Send(worker[t].job, worker[t].context) /\ Goto(t, "post")
    BY <2>1, <2>4, DispatchInv
  <2> QED
    BY <1>20, <2>2, <2>3, <2>4 DEF Dispatch
<1>21. ASSUME NEW t \in Callers, AnswerRetry(t) PROVE JobInv'
  BY <1>21, RetryInv
<1>22. ASSUME NEW c \in Callers, Admit(c) PROVE JobInv'
  BY <1>22, AdmitInv
<1>trim. ASSUME NEW c \in Callers, Trim(c) PROVE JobInv'
  BY <1>trim, TrimInv
<1>23. ASSUME NEW j \in Callers, RunControl(j) PROVE JobInv'
  BY <1>23, ControlStartInv, ControlAnswerInv DEF RunControl
<1>24. CASE StopDrain
  BY <1>24, DrainInv
<1>25. CASE UnityReload \/ UnityHalt \/ \E j \in Callers : UnityExecute(j) \/ UnityRefuse(j)
  BY <1>25, UnityInv
<1>26. ASSUME NEW c \in Callers,
              Submit(c) \/ CallerWait(c) \/ DeadlinePasses(c) \/ ProjectLoop(c) \/ Execute(c)
       PROVE  JobInv'
  BY <1>2, <1>4, <1>5, <1>6, <1>7, <1>8, <1>9, <1>10, <1>11, <1>12, <1>13, <1>14, <1>15,
     <1>16, <1>17, <1>18, <1>19, <1>20, <1>21, <1>22, <1>26, <1>trim
     DEF Submit, CallerWait, ProjectLoop, Execute
<1> QED
  BY <1>1, <1>3, <1>23, <1>24, <1>25, <1>26 DEF Next, RequestStop, Unity

-----------------------------------------------------------------------------
(* Part 3: what the invariant implies *)

\* In every reachable state the state is well typed and the inductive invariant
\* holds: answers and messages agree, every job has one owner, one worker lives.
THEOREM Invariant == Spec => [](TypeOK /\ JobInv)
<1>1. Init => TypeOK /\ JobInv
  BY TypeInit, InvInit
<1>2. TypeOK /\ JobInv /\ [Next]_vars => (TypeOK /\ JobInv)'
  BY TypeStep, InvStep DEF JobInv
<1> QED
  BY <1>1, <1>2, PTL DEF Spec

\* Type correctness of the host's jobs, queue, threads and messages.
THEOREM TypeCorrect == Spec => []TypeOK
BY Invariant, PTL

\* A job answered not_started was not run and cannot run any more, whatever
\* raced: the caller's timeout, the dispatch, a retry, a reload or a stop.
THEOREM NotStartedFinal == Spec => []NotStartedIsFinal
<1>1. TypeOK /\ JobInv => NotStartedIsFinal
  BY DEF JobInv, AnswerInv, NotStartedIsFinal
<1> QED
  BY <1>1, Invariant, PTL

\* "unknown" is only answered for a job that was handed to Unity.
THEOREM UnknownHanded == Spec => []UnknownWasHanded
<1>1. TypeOK /\ JobInv => UnknownWasHanded
  BY DEF JobInv, AnswerInv, UnknownWasHanded
<1> QED
  BY <1>1, Invariant, PTL

\* All callers that waited for a job got the job's one answer.
THEOREM OneAnswerForAll == Spec => []OneAnswer
<1>1. TypeOK /\ JobInv => OneAnswer
  BY DEF JobInv, CallerInv, OneAnswer
<1> QED
  BY <1>1, Invariant, PTL

\* At most one worker thread prepares and sends commands of a project.
THEOREM OneWorkerOnly == Spec => []OneWorker
<1>1. TypeOK /\ JobInv => OneWorker
  BY DEF JobInv, WorkerInv, OneWorker, Preparing, Live
<1> QED
  BY <1>1, Invariant, PTL

\* Only finished jobs are forgotten, so has_work sees every unanswered one.
LEMMA UnansweredStep ==
    ASSUME TypeOK, JobInv, UnansweredIsKnown, [Next]_vars
    PROVE  UnansweredIsKnown'
<1> USE DEF callerVars, queueVars, threadVars, discVars, stopVars, unityVars
<1>job. job \in [Callers -> JobStates]
  BY DEF TypeOK
<1>inv. AnswerInv /\ OwnerInv
  BY DEF JobInv
<1>done. \A k \in Callers : Done(k) => job[k].state = "completed"
  BY <1>inv DEF AnswerInv
<1>keep. ASSUME jobs' = jobs,
                \A k \in Callers : job'[k].state \in {"queued", "dispatched"} =>
                                     job[k].state \in {"queued", "dispatched"}
         PROVE  UnansweredIsKnown'
  BY <1>keep DEF UnansweredIsKnown
<1>1. ASSUME NEW j, NEW r, Complete(j, r), jobs' = jobs
      PROVE  UnansweredIsKnown'
  <2>1. \A k \in Callers : job'[k].state \in {"queued", "dispatched"} =>
                             job[k].state \in {"queued", "dispatched"}
    BY <1>job, <1>1 DEF Complete, JobStates
  <2> QED
    BY <1>1, <1>keep, <2>1
<1>2. ASSUME NEW t \in Callers, WorkerFinish(t) PROVE UnansweredIsKnown'
  <2>1. jobs' = jobs \ Overflow /\ job' = job /\ \A k \in Overflow : Done(k)
    BY <1>2 DEF WorkerFinish, Overflow
  <2> QED
    BY <1>done, <2>1 DEF UnansweredIsKnown
<1>3. ASSUME NEW c \in Callers, Trim(c) \/ Admit(c) PROVE UnansweredIsKnown'
  <2>1. \A k \in Forgotten : Done(k)
    BY DEF Forgotten
  <2>2. CASE jobs' \in {jobs, jobs \ Forgotten} /\ job' = job
    BY <1>done, <2>1, <2>2 DEF UnansweredIsKnown
  <2>3. CASE jobs' = jobs \cup {c} /\ \A k \in Callers \ {c} : job'[k] = job[k]
    BY <2>3 DEF UnansweredIsKnown
  <2>4. \/ jobs' \in {jobs, jobs \ Forgotten} /\ job' = job
        \/ /\ jobs' = jobs \cup {c}
           /\ job' = [job EXCEPT ![c] = [state |-> "queued", response |-> None,
                                         ticket |-> NextTicket]]
    BY <1>3, Zenon DEF Admit, Trim
  <2> QED
    BY <1>job, <2>2, <2>3, <2>4
<1>4. ASSUME NEW j \in Callers, MarkDispatched(j), job[j].state = "queued", jobs' = jobs
      PROVE  UnansweredIsKnown'
  BY <1>job, <1>4 DEF MarkDispatched, UnansweredIsKnown
<1>5. ASSUME NEW t \in Callers, Dispatch(t) PROVE UnansweredIsKnown'
  <2>1. worker[t].job \in Callers /\ (~Done(worker[t].job) => job[worker[t].job].state = "queued")
    BY <1>inv, <1>5 DEF Dispatch, WorkerAt, OwnerInv, Preparing, AnswerInv
  <2> QED
    BY <1>1, <1>4, <1>5, <1>keep, <2>1 DEF Dispatch, Expire
<1>6. ASSUME NEW j \in Callers, RunControl(j) PROVE UnansweredIsKnown'
  <2>1. control[j] = "start" /\ ~Done(j) => job[j].state = "queued"
    BY <1>inv DEF OwnerInv, AnswerInv
  <2> QED
    BY <1>1, <1>4, <1>6, <1>keep, <2>1
       DEF RunControl, ControlStart, ControlAnswer, ControlLost, ControlAt, Expire
<1>7. ASSUME NEW t \in Callers, AnswerRetry(t) PROVE UnansweredIsKnown'
  <2>1. /\ job' = [job EXCEPT ![worker[t].job].state = "queued"] /\ jobs' = jobs
        /\ worker[t].job \in Callers /\ job[worker[t].job].state = "dispatched"
    BY <1>inv, <1>7 DEF AnswerRetry, WorkerAt, OwnerInv, Preparing, AnswerInv
  <2> QED
    BY <1>job, <1>keep, <2>1
<1>8. CASE StopDrain
  BY <1>job, <1>keep, <1>8 DEF StopDrain, JobStates
<1>9. ASSUME NEW t \in Callers,
             \/ CallerTimeout(t) \/ ContextAbandoned(t) \/ ContextUnavailable(t)
             \/ CompileError(t) \/ CheckStale(t) \/ AnswerFinal(t) \/ AnswerLost(t)
             \/ WorkerException(t)
      PROVE  UnansweredIsKnown'
  BY <1>1, <1>9, <1>keep DEF CallerTimeout, ContextAbandoned, ContextUnavailable, CompileError,
     CheckStale, AnswerFinal, AnswerLost, WorkerException, Expire
<1>10. ASSUME NEW c \in Callers,
              \/ Refuse(c) \/ Enter(c) \/ Rescan(c) \/ Unsupported(c) \/ Join(c)
              \/ CallerReturn(c) \/ DeadlinePasses(c) \/ WorkerLeave(c) \/ WorkerStop(c)
              \/ WorkerPop(c) \/ ContextReady(c) \/ CompileOk(c) \/ CompileStale(c)
       PROVE  UnansweredIsKnown'
  BY <1>10, <1>keep DEF Refuse, Enter, Rescan, Unsupported, Join, CallerReturn, DeadlinePasses,
     WorkerLeave, WorkerStop, WorkerPop, ContextReady, CompileOk, CompileStale
<1>11. CASE Scan \/ Negotiate \/ StopObserve \/ StopSet \/ Unity \/ UNCHANGED vars
  BY <1>11, <1>keep DEF Scan, Negotiate, NegotiateServed, NegotiateStore, NegotiateFail,
     StopObserve, StopSet, Unity, UnityReload, UnityLoadAssembly, UnityHalt, UnityMode,
     UnityExecute, UnityRefuse, vars
<1>12. ASSUME NEW c \in Callers,
              Submit(c) \/ CallerWait(c) \/ DeadlinePasses(c) \/ ProjectLoop(c) \/ Execute(c)
       PROVE  UnansweredIsKnown'
  BY <1>2, <1>3, <1>5, <1>7, <1>9, <1>10, <1>12 DEF Submit, CallerWait, ProjectLoop, Execute
<1> QED
  BY <1>6, <1>8, <1>11, <1>12 DEF Next, RequestStop

\* The host knows every unanswered job, so a busy host is seen to have work.
THEOREM UnansweredKnown == Spec => []UnansweredIsKnown
<1>1. Init => UnansweredIsKnown
  BY DEF Init, UnansweredIsKnown
<1>2. TypeOK /\ JobInv /\ UnansweredIsKnown /\ [Next]_vars => UnansweredIsKnown'
  BY UnansweredStep
<1> QED
  BY <1>1, <1>2, Invariant, PTL DEF Spec

-----------------------------------------------------------------------------
(* Part 4: the order of the commands                                         *)

Made(j) == job[j].state # "none"
Handed(k) == net[k].pc # "none" /\ caller[k].work \notin ControlWork
Before(j, k) == job[j].ticket < job[k].ticket

\* Tickets are drawn in the order of admission, the queue is sorted by ticket, and what
\* was handed to Unity comes before what is prepared, which comes before the queue.
OrderInv ==
    /\ \A j \in Callers : /\ Made(j) <=> 0 < job[j].ticket
                          /\ job[j].ticket < NextTicket
                          /\ control[j] # "none" => caller[j].work \in ControlWork
    /\ \A i, k \in 1..Len(pending) : i < k => Before(pending[i], pending[k])
    /\ \A i \in 1..Len(pending), k \in Callers : Handed(k) => Before(k, pending[i])
    /\ \A t \in Callers : Preparing(t) =>
          /\ \A i \in 1..Len(pending) : Before(worker[t].job, pending[i])
          /\ \A k \in Callers : Handed(k) => k = worker[t].job \/ Before(k, worker[t].job)

\* Steps that leave the tickets alone, those that also leave the messages alone.
SameTickets == \A k \in Callers : job'[k].ticket = job[k].ticket /\ (Made(k)' <=> Made(k))
SameWork == \A k \in Callers : Made(k) => caller'[k].work = caller[k].work
NoMoreHanded == \A k \in Callers : net'[k].pc # "none" => net[k].pc # "none"
NoMoreControl == \A k \in Callers : control'[k] # "none" => control[k] # "none"
NoMorePrepared ==
    \A t \in Callers : Preparing(t)' => Preparing(t) /\ worker'[t].job = worker[t].job

\* A step that leaves tickets and queue alone and hands out nothing keeps the order.
LEMMA OrderFrame ==
    ASSUME TypeOK, JobInv, OrderInv, SameTickets, SameWork, NoMoreControl, NoMorePrepared,
           NoMoreHanded, pending' = pending
    PROVE  OrderInv'
<1>1. {j \in Callers : job'[j].state # "none"} = {j \in Callers : job[j].state # "none"}
  BY DEF SameTickets, Made
<1>2. NextTicket' = NextTicket
  BY <1>1 DEF NextTicket
<1>3. \A k \in Callers : /\ net[k].pc # "none" => Made(k)
                         /\ control[k] # "none" => Made(k)
  BY DEF JobInv, AnswerInv, OwnerInv, Made
<1>4. \A k \in Callers : Handed(k)' => Handed(k)
  BY <1>3 DEF NoMoreHanded, SameWork, Handed
<1>5. \A j \in Callers : /\ Made(j)' <=> 0 < job'[j].ticket
                         /\ job'[j].ticket < NextTicket'
                         /\ control'[j] # "none" => caller'[j].work \in ControlWork
  BY <1>2, <1>3 DEF OrderInv, SameTickets, NoMoreControl, SameWork
<1>6. \A i \in 1..Len(pending) : pending[i] \in Callers
  BY DEF TypeOK
<1>7. \A j, k \in Callers : Before(j, k)' <=> Before(j, k)
  BY DEF SameTickets, Before
<1>8. \A i, k \in 1..Len(pending) : i < k => Before(pending[i], pending[k])'
  BY <1>6, <1>7 DEF OrderInv, Before, SameTickets
<1>9. \A i \in 1..Len(pending), k \in Callers : Handed(k)' => job'[k].ticket < job'[pending[i]].ticket
  BY <1>4, <1>6 DEF OrderInv, Before, SameTickets
<1>10. ASSUME NEW t \in Callers, Preparing(t)'
       PROVE  /\ \A i \in 1..Len(pending) : job'[worker'[t].job].ticket < job'[pending[i]].ticket
              /\ \A k \in Callers : Handed(k)' =>
                    k = worker'[t].job \/ job'[k].ticket < job'[worker'[t].job].ticket
  <2>1. Preparing(t) /\ worker'[t].job = worker[t].job /\ worker[t].job \in Callers
    BY <1>10 DEF NoMorePrepared, JobInv, OwnerInv
  <2> QED
    BY <1>4, <1>6, <2>1 DEF OrderInv, Before, SameTickets
<1> QED
  BY <1>5, <1>8, <1>9, <1>10 DEF OrderInv, Before

\* Answering or expiring a job draws no ticket.
LEMMA AnsweredTickets ==
    ASSUME TypeOK, NEW j \in Callers, Made(j), NEW r, Complete(j, r)
    PROVE  SameTickets
BY DEF TypeOK, JobStates, Complete, SameTickets, Made

\* The worker takes the head of the queue, the oldest of what waits.
LEMMA PopOrder ==
    ASSUME TypeOK, JobInv, OrderInv, NEW t \in Callers, WorkerPop(t)
    PROVE  OrderInv'
<1>1. /\ pending \in Seq(Callers) /\ pending # <<>> /\ pending' = Tail(pending)
      /\ UNCHANGED <<caller, job, control, net>>
  BY DEF WorkerPop, TypeOK, callerVars, unityVars
<1>2. /\ Len(pending) \in Nat /\ 1 \in 1..Len(pending) /\ Head(pending) = pending[1]
      /\ Len(pending') = Len(pending) - 1
      /\ \A i \in 1..Len(pending') : pending'[i] = pending[i + 1] /\ i + 1 \in 1..Len(pending)
  BY <1>1
<1>3. PICK h \in Callers : h = Head(pending) /\ h = pending[1]
  BY <1>1, <1>2
<1>4. /\ \A u \in Callers \ {t} : worker'[u] = worker[u]
      /\ worker'[t].job = h
  BY <1>3 DEF WorkerPop, TypeOK
<1>5. \A u \in Callers \ {t} : ~Preparing(u)'
  BY <1>4 DEF WorkerPop, WorkerAt, JobInv, WorkerInv, Preparing, Live
<1>6. NextTicket' = NextTicket
  BY <1>1 DEF NextTicket
<1>7. \A j \in Callers : /\ Made(j)' <=> 0 < job'[j].ticket
                         /\ job'[j].ticket < NextTicket'
                         /\ control'[j] # "none" => caller'[j].work \in ControlWork
  BY <1>1, <1>6 DEF OrderInv, Made
<1>8. \A i, k \in 1..Len(pending') : i < k => Before(pending'[i], pending'[k])
  <2> SUFFICES ASSUME NEW i \in 1..Len(pending'), NEW k \in 1..Len(pending'), i < k
               PROVE  Before(pending'[i], pending'[k])
    OBVIOUS
  <2>1. i + 1 < k + 1
    BY <1>2
  <2> QED BY <1>2, <2>1 DEF OrderInv
<1>9. \A i \in 1..Len(pending'), k \in Callers : Handed(k) => Before(k, pending'[i])
  BY <1>2 DEF OrderInv
<1>10. \A i \in 1..Len(pending') : Before(h, pending'[i])
  <2> SUFFICES ASSUME NEW i \in 1..Len(pending') PROVE Before(h, pending'[i])
    OBVIOUS
  <2>1. 1 < i + 1
    BY <1>2
  <2> QED BY <1>2, <1>3, <2>1 DEF OrderInv
<1>11. \A k \in Callers : Handed(k) => Before(k, h)
  BY <1>2, <1>3 DEF OrderInv
<1>12. /\ \A k \in Callers : Handed(k)' <=> Handed(k)
       /\ \A j, k : Before(j, k)' <=> Before(j, k)
  BY <1>1 DEF Handed, Before
<1>13. ASSUME NEW u \in Callers, Preparing(u)'
       PROVE  /\ \A i \in 1..Len(pending') : job'[worker'[u].job].ticket < job'[pending'[i]].ticket
              /\ \A k \in Callers : Handed(k)' =>
                    k = worker'[u].job \/ job'[k].ticket < job'[worker'[u].job].ticket
  BY <1>1, <1>4, <1>5, <1>10, <1>11, <1>12, <1>13 DEF Before
<1> QED
  BY <1>1, <1>7, <1>8, <1>9, <1>12, <1>13 DEF OrderInv, Before

\* The worker hands Unity the job it prepared, the oldest that was not handed out.
LEMMA DispatchOrder ==
    ASSUME TypeOK, JobInv, OrderInv, NEW t \in Callers, WorkerAt(t, "dispatch"),
           MarkDispatched(worker[t].job), Send(worker[t].job, worker[t].context),
           Goto(t, "post"), UNCHANGED <<caller, pending, control>>
    PROVE  OrderInv'
<1>1. PICK j \in Callers : j = worker[t].job
  BY DEF JobInv, OwnerInv, WorkerAt, Preparing
<1>2. /\ Preparing(t) /\ Made(j)
      /\ \A u \in Callers \ {t} : ~Preparing(u)
  BY <1>1 DEF JobInv, OwnerInv, WorkerInv, Live, WorkerAt, Preparing, Made
<1>3. SameTickets
  BY <1>1, <1>2 DEF MarkDispatched, TypeOK, JobStates, SameTickets, Made
<1>4. /\ \A k \in Callers \ {j} : net'[k] = net[k]
      /\ \A u \in Callers \ {t} : worker'[u] = worker[u]
      /\ worker'[t].job = j
  BY <1>1 DEF Send, Goto, TypeOK, WorkerStates
<1>5. \A u \in Callers \ {t} : ~Preparing(u)'
  BY <1>2, <1>4 DEF Preparing
<1>6. {k \in Callers : job'[k].state # "none"} = {k \in Callers : job[k].state # "none"}
  BY <1>3 DEF SameTickets, Made
<1>7. NextTicket' = NextTicket
  BY <1>6 DEF NextTicket
<1>8. \A k \in Callers : /\ Made(k)' <=> 0 < job'[k].ticket
                         /\ job'[k].ticket < NextTicket'
                         /\ control'[k] # "none" => caller'[k].work \in ControlWork
  BY <1>3, <1>7 DEF OrderInv, SameTickets
<1>9. \A i \in 1..Len(pending) : pending[i] \in Callers
  BY DEF TypeOK
<1>10. \A k \in Callers \ {j} : Handed(k)' => Handed(k)
  BY <1>4 DEF Handed
<1>11. \A i, k \in 1..Len(pending) : i < k => job'[pending[i]].ticket < job'[pending[k]].ticket
  BY <1>3, <1>9 DEF OrderInv, Before, SameTickets
<1>12. \A i \in 1..Len(pending), k \in Callers : Handed(k)' => job'[k].ticket < job'[pending[i]].ticket
  BY <1>1, <1>2, <1>3, <1>9, <1>10 DEF OrderInv, Before, SameTickets
<1>13. ASSUME NEW u \in Callers, Preparing(u)'
       PROVE  /\ \A i \in 1..Len(pending) : job'[worker'[u].job].ticket < job'[pending[i]].ticket
              /\ \A k \in Callers : Handed(k)' =>
                    k = worker'[u].job \/ job'[k].ticket < job'[worker'[u].job].ticket
  <2>1. u = t /\ worker'[u].job = j
    BY <1>4, <1>5, <1>13
  <2>2. \A i \in 1..Len(pending) : job'[j].ticket < job'[pending[i]].ticket
    BY <1>1, <1>2, <1>3, <1>9 DEF OrderInv, Before, SameTickets
  <2>3. \A k \in Callers : Handed(k)' => k = j \/ job'[k].ticket < job'[j].ticket
    BY <1>1, <1>2, <1>3, <1>10 DEF OrderInv, Before, SameTickets
  <2> QED BY <2>1, <2>2, <2>3
<1> QED
  BY <1>8, <1>11, <1>12, <1>13 DEF OrderInv, Before

\* A control query is handed to Unity outside the order.
LEMMA ControlOrder ==
    ASSUME TypeOK, JobInv, OrderInv, NEW j \in Callers, ControlAt(j, "start"),
           MarkDispatched(j), Send(j, None), ControlTo(j, "post"),
           UNCHANGED <<caller, pending, worker>>
    PROVE  OrderInv'
<1>1. Made(j) /\ control[j] # "none" /\ caller[j].work \in ControlWork
  BY DEF ControlAt, JobInv, OwnerInv, OrderInv, Made
<1>2. SameTickets
  BY <1>1 DEF MarkDispatched, TypeOK, JobStates, SameTickets, Made
<1>3. /\ \A k \in Callers \ {j} : net'[k] = net[k] /\ control'[k] = control[k]
  BY DEF Send, ControlTo, TypeOK
<1>4. \A k \in Callers : Handed(k)' => Handed(k)
  BY <1>1, <1>3 DEF Handed
<1>5. {k \in Callers : job'[k].state # "none"} = {k \in Callers : job[k].state # "none"}
  BY <1>2 DEF SameTickets, Made
<1>6. NextTicket' = NextTicket
  BY <1>5 DEF NextTicket
<1>7. \A k \in Callers : /\ Made(k)' <=> 0 < job'[k].ticket
                         /\ job'[k].ticket < NextTicket'
                         /\ control'[k] # "none" => caller'[k].work \in ControlWork
  BY <1>1, <1>2, <1>3, <1>6 DEF OrderInv, SameTickets
<1>8. \A i \in 1..Len(pending) : pending[i] \in Callers
  BY DEF TypeOK
<1>9. \A i, k \in 1..Len(pending) : i < k => job'[pending[i]].ticket < job'[pending[k]].ticket
  BY <1>2, <1>8 DEF OrderInv, Before, SameTickets
<1>10. \A i \in 1..Len(pending), k \in Callers : Handed(k)' => job'[k].ticket < job'[pending[i]].ticket
  BY <1>2, <1>4, <1>8 DEF OrderInv, Before, SameTickets
<1>11. ASSUME NEW u \in Callers, Preparing(u)'
       PROVE  /\ \A i \in 1..Len(pending) : job'[worker[u].job].ticket < job'[pending[i]].ticket
              /\ \A k \in Callers : Handed(k)' =>
                    k = worker[u].job \/ job'[k].ticket < job'[worker[u].job].ticket
  <2>1. Preparing(u) /\ worker[u].job \in Callers
    BY <1>11 DEF Preparing, JobInv, OwnerInv
  <2> QED BY <1>2, <1>4, <1>8, <2>1 DEF OrderInv, Before, SameTickets
<1> QED
  BY <1>7, <1>9, <1>10, <1>11 DEF OrderInv, Before

\* A new job draws the next ticket and waits behind all others.
LEMMA AdmitOrder ==
    ASSUME TypeOK, JobInv, OrderInv, NEW c \in Callers, Admit(c)
    PROVE  OrderInv'
<1>net. net' = net
  BY DEF Admit, unityVars
<1>caller. caller \in [Callers -> CallerStates] /\ pending \in Seq(Callers)
  BY DEF TypeOK
<1>1. /\ ~Made(c) /\ control[c] = "none" /\ net[c].pc = "none"
      /\ \A i \in 1..Len(pending) : pending[i] \in Callers \ {c}
      /\ \A t \in Callers : Preparing(t) => worker[t].job \in Callers \ {c}
  <2>1. job[c].state = "none"
    BY DEF Admit, NewWork, JobInv, CallerInv
  <2>2. \A i \in 1..Len(pending) : pending[i] \in Callers
    BY DEF TypeOK
  <2> QED BY <2>1, <2>2 DEF JobInv, AnswerInv, OwnerInv, Made
<1>2. CASE Answered(c, "not_started") /\ UNCHANGED <<job, pending, worker, control>>
  <2>1. SameTickets /\ NoMoreControl /\ NoMorePrepared /\ NoMoreHanded
    BY <1>net, <1>2 DEF SameTickets, NoMoreControl, NoMorePrepared, NoMoreHanded, Made, Preparing
  <2>2. SameWork
    BY <1>2, <1>caller DEF Answered, SameWork, CallerStates
  <2> QED BY <1>2, <2>1, <2>2, OrderFrame
<1>3. CASE /\ job' = [job EXCEPT ![c] = [state |-> "queued", response |-> None,
                                        ticket |-> NextTicket]]
           /\ caller' = [caller EXCEPT ![c].pc = "waiting", ![c].job = c]
           /\ IF caller[c].work \in ControlWork
              THEN control' = [control EXCEPT ![c] = "start"] /\ UNCHANGED <<pending, worker>>
              ELSE Enqueue(c) /\ EnsureWorker(c) /\ UNCHANGED control
  <2>1. /\ \A k \in Callers \ {c} : job'[k] = job[k]
        /\ job'[c].state = "queued" /\ job'[c].ticket = NextTicket
    BY <1>3 DEF TypeOK
  <2>2. \A k \in Callers : caller'[k].work = caller[k].work
    BY <1>3, <1>caller DEF CallerStates
  <2>3. NextTicket \in Nat /\ NextTicket' = NextTicket + 1 /\ 0 < NextTicket
    <3> DEFINE M == {k \in Callers : job[k].state # "none"}
    <3>1. M' = M \cup {c} /\ c \notin M
      BY <1>1, <2>1 DEF Made
    <3>2. IsFiniteSet(M)
      BY HostJobsAssumption, FS_Subset
    <3>3. Cardinality(M \cup {c}) = Cardinality(M) + 1 /\ Cardinality(M) \in Nat
      BY <3>1, <3>2, FS_AddElement, FS_CardinalityType
    <3>4. NextTicket = Cardinality(M) + 1 /\ NextTicket' = Cardinality(M') + 1
      BY DEF NextTicket
    <3> HIDE DEF M
    <3> QED BY <3>1, <3>3, <3>4
  <2>4. \A k \in Callers : Handed(k)' => Handed(k) /\ k # c
    BY <1>net, <1>1, <2>2 DEF Handed
  <2>5. \A t \in Callers : Preparing(t)' => Preparing(t) /\ worker'[t].job = worker[t].job
    <3>1. worker \in [Callers -> WorkerStates]
      BY DEF TypeOK
    <3>2. worker' = worker \/ worker' = [worker EXCEPT ![c].pc = "loop"]
      BY <1>3 DEF EnsureWorker
    <3> QED BY <3>1, <3>2 DEF Preparing, WorkerStates
  <2>6. \A k \in Callers : job[k].ticket < NextTicket /\ job[k].ticket \in Nat
    BY DEF OrderInv, TypeOK, JobStates
  <2>7. \A k \in Callers : control'[k] # "none" => caller'[k].work \in ControlWork
    <3>1. CASE caller[c].work \in ControlWork
      BY <1>3, <2>2, <3>1 DEF OrderInv, TypeOK
    <3>2. CASE caller[c].work \notin ControlWork
      BY <1>3, <2>2, <3>2 DEF OrderInv
    <3> QED BY <3>1, <3>2
  <2>8. \A k \in Callers : /\ Made(k)' <=> 0 < job'[k].ticket
                           /\ job'[k].ticket < NextTicket'
    BY <2>1, <2>3, <2>6 DEF OrderInv, Made
  \* Places of the queue: the old ones keep their jobs, a new one holds the new job.
  <2>9. /\ Len(pending) \in Nat
        /\ \A i \in 1..Len(pending') :
              \/ i \in 1..Len(pending) /\ pending'[i] = pending[i]
              \/ i = Len(pending) + 1 /\ pending'[i] = c
    BY <1>3, <1>caller DEF Enqueue
  <2>10. \A k \in Callers \ {c} : job'[k].ticket = job[k].ticket /\ job'[k].ticket < job'[c].ticket
    BY <2>1, <2>6
  <2>11. \A i, k \in 1..Len(pending') : i < k => job'[pending'[i]].ticket < job'[pending'[k]].ticket
    <3> SUFFICES ASSUME NEW i \in 1..Len(pending'), NEW k \in 1..Len(pending'), i < k
                 PROVE  job'[pending'[i]].ticket < job'[pending'[k]].ticket
      OBVIOUS
    <3>0. Len(pending') \in Nat /\ i \in Nat /\ k \in Nat
      BY <1>3, <1>caller DEF Enqueue
    <3>1. i \in 1..Len(pending) /\ pending'[i] = pending[i]
      BY <2>9, <3>0
    <3>2. CASE k \in 1..Len(pending) /\ pending'[k] = pending[k]
      BY <1>1, <2>10, <3>1, <3>2 DEF OrderInv, Before
    <3>3. CASE pending'[k] = c
      BY <1>1, <2>10, <3>1, <3>3
    <3> QED BY <2>9, <3>2, <3>3
  <2>12. \A i \in 1..Len(pending'), k \in Callers :
            Handed(k)' => job'[k].ticket < job'[pending'[i]].ticket
    BY <1>1, <2>4, <2>9, <2>10 DEF OrderInv, Before
  <2>13. ASSUME NEW t \in Callers, Preparing(t)'
         PROVE  /\ \A i \in 1..Len(pending') : job'[worker'[t].job].ticket < job'[pending'[i]].ticket
                /\ \A k \in Callers : Handed(k)' =>
                      k = worker'[t].job \/ job'[k].ticket < job'[worker'[t].job].ticket
    <3>1. Preparing(t) /\ worker'[t].job = worker[t].job /\ worker[t].job \in Callers \ {c}
      BY <1>1, <2>5, <2>13
    <3> QED BY <1>1, <2>4, <2>9, <2>10, <3>1 DEF OrderInv, Before
  <2> QED BY <2>7, <2>8, <2>11, <2>12, <2>13 DEF OrderInv, Before
<1> QED BY <1>2, <1>3 DEF Admit

\* Every step keeps the order: one step of the proof per kind of action.
LEMMA OrderStep ==
    ASSUME TypeOK, JobInv, OrderInv, [Next]_vars
    PROVE  OrderInv'
<1> USE DEF callerVars, queueVars, threadVars, discVars, stopVars, unityVars
<1>types. /\ caller \in [Callers -> CallerStates] /\ job \in [Callers -> JobStates]
          /\ worker \in [Callers -> WorkerStates] /\ net \in [Callers -> Messages]
  BY DEF TypeOK
<1>idle. UNCHANGED job => SameTickets
  BY DEF SameTickets, Made
<1>work. UNCHANGED caller => SameWork
  BY DEF SameWork
<1>quiet. UNCHANGED net => NoMoreHanded
  BY DEF NoMoreHanded
<1>control. UNCHANGED control => NoMoreControl
  BY DEF NoMoreControl
<1>still. UNCHANGED worker => NoMorePrepared
  BY DEF NoMorePrepared, Preparing
<1>reply. ASSUME NEW c \in Callers, NEW r, Answered(c, r) PROVE SameWork
  BY <1>types, <1>reply DEF Answered, SameWork, CallerStates
<1>own. \A t \in Callers : Preparing(t) => worker[t].job \in Callers /\ Made(worker[t].job)
  BY DEF JobInv, OwnerInv, Made
<1>expire. ASSUME NEW j \in Callers, Made(j), Expire(j) PROVE SameTickets
  BY <1>expire, AnsweredTickets DEF Expire
<1>goto. ASSUME NEW t \in Callers, NEW q, Preparing(t) \/ q \notin {"context", "compile", "check", "dispatch", "post"},
                Goto(t, q)
         PROVE  NoMorePrepared
  BY <1>types, <1>goto DEF Goto, NoMorePrepared, Preparing, WorkerStates
<1>retry. ASSUME NEW t \in Callers, Preparing(t), RetryFrom(t) PROVE NoMorePrepared
  BY <1>types, <1>retry DEF RetryFrom, NoMorePrepared, Preparing, WorkerStates
(* Callers *)
<1>1. ASSUME NEW c \in Callers, Enter(c) PROVE OrderInv'
  <2>1. ~Made(c)
    BY <1>1 DEF Enter, JobInv, CallerInv, Made
  <2>2. \A k \in Callers \ {c} : caller'[k] = caller[k]
    BY <1>1, <1>types DEF Enter
  <2>3. SameWork
    BY <2>1, <2>2 DEF SameWork
  <2> QED BY <1>1, <1>idle, <1>quiet, <1>control, <1>still, <2>3, OrderFrame DEF Enter
<1>2. ASSUME NEW c \in Callers, Refuse(c) \/ Rescan(c) \/ Unsupported(c) \/ Join(c) \/ Trim(c) \/ CallerReturn(c)
      PROVE  OrderInv'
  <2>1. SameWork
    <3>1. \/ \E r : Answered(c, r)
          \/ \E q : caller' = [caller EXCEPT ![c].pc = q]
          \/ \E q, j : caller' = [caller EXCEPT ![c].pc = q, ![c].job = j]
      BY <1>2 DEF Refuse, Rescan, Unsupported, Join, Trim, CallerReturn
    <3>2. ASSUME NEW q, caller' = [caller EXCEPT ![c].pc = q] PROVE SameWork
      BY <1>types, <3>2 DEF SameWork, CallerStates
    <3>3. ASSUME NEW q, NEW j, caller' = [caller EXCEPT ![c].pc = q, ![c].job = j] PROVE SameWork
      BY <1>types, <3>3 DEF SameWork, CallerStates
    <3> QED BY <1>reply, <3>1, <3>2, <3>3
  <2>2. UNCHANGED <<job, net, control, worker, pending>>
    BY <1>2 DEF Refuse, Rescan, Unsupported, Join, Trim, CallerReturn
  <2> QED BY <1>idle, <1>quiet, <1>control, <1>still, <2>1, <2>2, OrderFrame
<1>3. ASSUME NEW c \in Callers, CallerTimeout(c) PROVE OrderInv'
  <2>1. caller[c].job \in Callers /\ Made(caller[c].job)
    BY <1>3, <1>types DEF CallerTimeout, JobInv, CallerInv, CallerStates, Made
  <2>2. SameTickets /\ SameWork
    BY <1>3, <1>expire, <1>reply, <2>1 DEF CallerTimeout
  <2> QED BY <1>3, <1>quiet, <1>control, <1>still, <2>2, OrderFrame DEF CallerTimeout
<1>4. ASSUME NEW c \in Callers, Admit(c) PROVE OrderInv'
  BY <1>4, AdmitOrder
(* The worker *)
<1>5. ASSUME NEW t \in Callers, WorkerLeave(t) \/ WorkerStop(t) PROVE OrderInv'
  <2>1. Goto(t, "exited") /\ UNCHANGED <<caller, job, net, control, pending>>
    BY <1>5 DEF WorkerLeave, WorkerStop
  <2> QED BY <1>idle, <1>work, <1>quiet, <1>control, <1>goto, <2>1, OrderFrame
<1>6. ASSUME NEW t \in Callers, WorkerFinish(t) PROVE OrderInv'
  <2>1. NoMorePrepared
    BY <1>6, <1>types DEF WorkerFinish, NoMorePrepared, Preparing
  <2> QED BY <1>6, <1>idle, <1>work, <1>quiet, <1>control, <2>1, OrderFrame DEF WorkerFinish
<1>7. ASSUME NEW t \in Callers, WorkerPop(t) PROVE OrderInv'
  BY <1>7, PopOrder
<1>8. ASSUME NEW t \in Callers, \/ ContextAbandoned(t) \/ ContextUnavailable(t) \/ CompileOk(t)
                                \/ CompileError(t) \/ CheckStale(t) \/ AnswerFinal(t)
                                \/ AnswerLost(t) \/ WorkerException(t)
      PROVE  OrderInv'
  <2>1. Preparing(t)
    BY <1>8 DEF ContextAbandoned, ContextUnavailable, CompileOk, CompileError, CheckStale,
                AnswerFinal, AnswerLost, WorkerException, WorkerAt, Preparing
  <2>2. UNCHANGED <<caller, net, control, pending>>
    BY <1>8 DEF ContextAbandoned, ContextUnavailable, CompileOk, CompileError, CheckStale,
                AnswerFinal, AnswerLost, WorkerException
  <2>3. UNCHANGED job \/ Expire(worker[t].job) \/ \E r : Complete(worker[t].job, r)
    BY <1>8 DEF ContextAbandoned, ContextUnavailable, CompileOk, CompileError, CheckStale,
                AnswerFinal, AnswerLost, WorkerException
  <2>4. (\E q : Goto(t, q)) \/ RetryFrom(t)
    BY <1>8 DEF ContextAbandoned, ContextUnavailable, CompileOk, CompileError, CheckStale,
                AnswerFinal, AnswerLost, WorkerException
  <2>5. SameTickets
    BY <1>idle, <1>own, <1>expire, <2>1, <2>3, AnsweredTickets
  <2>6. NoMorePrepared
    BY <1>goto, <1>retry, <2>1, <2>4
  <2> QED BY <1>work, <1>quiet, <1>control, <2>2, <2>5, <2>6, OrderFrame
<1>9. ASSUME NEW t \in Callers, ContextReady(t) PROVE OrderInv'
  <2>1. NoMorePrepared
    BY <1>9, <1>types DEF ContextReady, NoMorePrepared, WorkerAt, Preparing, WorkerStates
  <2> QED BY <1>9, <1>idle, <1>work, <1>quiet, <1>control, <2>1, OrderFrame DEF ContextReady
<1>10. ASSUME NEW t \in Callers, CompileStale(t) PROVE OrderInv'
  <2>1. Preparing(t)
    BY <1>10 DEF CompileStale, WorkerAt, Preparing
  <2> QED BY <1>10, <1>idle, <1>work, <1>quiet, <1>control, <1>retry, <2>1, OrderFrame DEF CompileStale
<1>11. ASSUME NEW t \in Callers, Dispatch(t) PROVE OrderInv'
  <2>1. Preparing(t) /\ UNCHANGED <<caller, pending, control>>
    BY <1>11 DEF Dispatch, WorkerAt, Preparing
  <2>2. CASE Goto(t, "finish") /\ UNCHANGED <<job, net>>
    BY <1>idle, <1>work, <1>quiet, <1>control, <1>goto, <2>1, <2>2, OrderFrame
  <2>3. CASE Expire(worker[t].job) /\ Goto(t, "finish") /\ UNCHANGED net
    BY <1>own, <1>expire, <1>work, <1>quiet, <1>control, <1>goto, <2>1, <2>3, OrderFrame
  <2>4. CASE /\ MarkDispatched(worker[t].job) /\ Send(worker[t].job, worker[t].context)
             /\ Goto(t, "post")
    BY <1>11, <2>1, <2>4, DispatchOrder DEF Dispatch
  <2> QED BY <1>11, <2>2, <2>3, <2>4 DEF Dispatch
<1>12. ASSUME NEW t \in Callers, AnswerRetry(t) PROVE OrderInv'
  <2>1. Preparing(t) /\ RetryFrom(t) /\ UNCHANGED <<caller, pending, control>>
    BY <1>12 DEF AnswerRetry, WorkerAt, Preparing
  <2>2. PICK j \in Callers : j = worker[t].job /\ Made(j)
    BY <1>own, <2>1
  <2>3. job' = [job EXCEPT ![j].state = "queued"] /\ net' = [net EXCEPT ![j] = NoMessage]
    BY <1>12, <2>2 DEF AnswerRetry
  <2>4. SameTickets
    BY <1>types, <2>2, <2>3 DEF SameTickets, Made, JobStates
  <2>5. NoMoreHanded
    BY <1>types, <2>3 DEF NoMoreHanded, NoMessage
  <2> QED BY <1>work, <1>control, <1>retry, <2>1, <2>4, <2>5, OrderFrame
(* Control queries, the stop and Unity *)
<1>13. ASSUME NEW j \in Callers, RunControl(j) PROVE OrderInv'
  <2>1. Made(j) /\ UNCHANGED <<caller, pending, worker>>
    BY <1>13 DEF RunControl, ControlStart, ControlAnswer, ControlLost, ControlAt, JobInv, OwnerInv, Made
  <2>2. ASSUME NEW q, ControlTo(j, q) PROVE NoMoreControl
    BY <1>13, <2>2 DEF RunControl, ControlStart, ControlAnswer, ControlLost, ControlAt, ControlTo,
                       NoMoreControl, TypeOK
  <2>3. CASE ControlTo(j, "ended") /\ UNCHANGED <<job, net>>
    BY <1>idle, <1>work, <1>quiet, <1>still, <2>1, <2>2, <2>3, OrderFrame
  <2>4. CASE (Expire(j) \/ \E r : Complete(j, r)) /\ ControlTo(j, "ended") /\ UNCHANGED net
    BY <1>expire, <1>work, <1>quiet, <1>still, <2>1, <2>2, <2>4, AnsweredTickets, OrderFrame
  <2>5. CASE ControlAt(j, "start") /\ MarkDispatched(j) /\ Send(j, None) /\ ControlTo(j, "post")
    BY <2>1, <2>5, ControlOrder
  <2> QED BY <1>13, <2>3, <2>4, <2>5 DEF RunControl, ControlStart, ControlAnswer, ControlLost
<1>14. CASE StopDrain
  <2>1. SameTickets
    <3>1. \A k \in Callers : Queued(k) => Made(k)
      BY DEF Queued, JobInv, OwnerInv, Made
    <3> QED BY <1>14, <1>types, <3>1 DEF StopDrain, SameTickets, Made, JobStates
  <2> QED BY <1>14, <1>work, <1>quiet, <1>control, <1>still, <2>1, OrderFrame DEF StopDrain
<1>15. ASSUME NEW j \in Callers, UnityExecute(j) \/ UnityRefuse(j) PROVE OrderInv'
  <2>1. NoMoreHanded
    BY <1>15, <1>types DEF UnityExecute, UnityRefuse, NoMoreHanded, Messages
  <2> QED BY <1>15, <1>idle, <1>work, <1>control, <1>still, <2>1, OrderFrame DEF UnityExecute, UnityRefuse
<1>16. CASE UnityReload \/ UnityHalt
  <2>1. PICK S \in SUBSET Sent : Cut(S)
    BY <1>16 DEF UnityReload, UnityHalt
  <2>2. NoMoreHanded
    BY <1>types, <2>1 DEF Cut, Sent, NoMoreHanded, Messages
  <2> QED BY <1>16, <1>idle, <1>work, <1>control, <1>still, <2>2, OrderFrame DEF UnityReload, UnityHalt
<1>17. CASE \/ Scan \/ Negotiate \/ StopObserve \/ StopSet \/ UnityLoadAssembly \/ UnityMode
            \/ (\E c \in Callers : DeadlinePasses(c)) \/ UNCHANGED vars
  <2>1. UNCHANGED <<caller, job, net, control, worker, pending>>
    BY <1>17 DEF Scan, Negotiate, NegotiateServed, NegotiateStore, NegotiateFail, StopObserve,
                 StopSet, UnityLoadAssembly, UnityMode, DeadlinePasses, vars
  <2> QED BY <1>idle, <1>work, <1>quiet, <1>control, <1>still, <2>1, OrderFrame
<1> QED
  BY <1>1, <1>2, <1>3, <1>4, <1>5, <1>6, <1>7, <1>8, <1>9, <1>10, <1>11, <1>12, <1>13, <1>14,
     <1>15, <1>16, <1>17 DEF Next, Submit, CallerWait, ProjectLoop, Execute, RequestStop, Unity

\* A project's commands are handed to Unity in the order in which they were admitted,
\* whatever retries, timeouts, dead workers and stops happen in between.
THEOREM CommandsInOrder == Spec => []FifoDispatch
<1>1. Init => OrderInv
  <2> SUFFICES ASSUME Init PROVE OrderInv
    OBVIOUS
  <2>1. \A j \in Callers : job[j].state = "none" /\ job[j].ticket = 0 /\ control[j] = "none"
    BY DEF Init
  <2>2. \A t \in Callers : ~Preparing(t)
    BY DEF Init, Preparing
  <2>3. 0 < NextTicket
    <3>1. {j \in Callers : job[j].state # "none"} = {}
      BY <2>1
    <3> QED BY <3>1, FS_EmptySet DEF NextTicket
  <2>4. Len(pending) = 0
    BY DEF Init
  <2> QED BY <2>1, <2>2, <2>3, <2>4 DEF OrderInv, Made
<1>2. TypeOK /\ JobInv /\ OrderInv /\ [Next]_vars => OrderInv'
  BY OrderStep
<1>3. TypeOK /\ JobInv /\ OrderInv => FifoDispatch
  <2> SUFFICES ASSUME TypeOK, JobInv, OrderInv,
                      NEW j \in Callers, NEW k \in Callers,
                      Handed(k), Before(j, k)
               PROVE  ~Queued(j) /\ \A t \in Callers : Preparing(t) => worker[t].job # j
    BY DEF FifoDispatch, Handed, Before
  <2>1. job[j].ticket \in Nat /\ job[k].ticket \in Nat
    BY DEF TypeOK, JobStates
  <2>2. ~Queued(j)
    BY <2>1 DEF OrderInv, Queued, Before
  <2>3. \A t \in Callers : Preparing(t) => worker[t].job # j
    BY <2>1 DEF OrderInv, Before
  <2> QED BY <2>2, <2>3
<1> QED
  BY <1>1, <1>2, <1>3, Invariant, PTL DEF Spec

-----------------------------------------------------------------------------
(* Part 5: HostJobs implements RequestContract *)

\* The answer of job j as the contract sees it.
Outcome(j) == IF NotStarted(job[j].response) THEN "not_started" ELSE job[j].response

\* A step that answers and runs nothing is invisible to the contract.
LEMMA ContractStutter ==
    ASSUME \A k \in Callers : job'[k].response = job[k].response, executed' = executed
    PROVE  UNCHANGED Contract!vars
BY DEF Contract!vars, NotStarted

\* An honest answer, or one that came too late, is an answer of the contract.
LEMMA ContractAnswer ==
    ASSUME TypeOK, JobInv, NEW j \in Callers, NEW r \in Responses, Complete(j, r),
           Done(j) \/ MayAnswer(j, r), executed' = executed
    PROVE  [Contract!Next]_(Contract!vars)
<1>1. CASE Done(j)
  BY <1>1, ContractStutter DEF Complete
<1>2. CASE ~Done(j)
  <2>1. job[j].response = None /\ ~NotStarted(None)
    BY <1>2, HostJobsAssumption DEF Done, NotStarted
  <2>2. job' = [job EXCEPT ![j].state = "completed", ![j].response = r]
    BY <1>2 DEF Complete
  <2>3. job'[j].response = r /\ \A k \in Callers \ {j} : job'[k] = job[k]
    BY <2>2 DEF TypeOK, JobStates
  <2>4. /\ r = "result" => executed[j] = 1
        /\ NotStarted(r) => executed[j] = 0
    BY <1>2 DEF MayAnswer, JobInv, AnswerInv
  <2> DEFINE o == IF NotStarted(r) THEN "not_started" ELSE r
  <2>5. o \in Contract!Outcomes \ {None}
    BY HostJobsAssumption DEF Contract!Outcomes, Responses, NotStarted
  <2>6. Contract!Answer(j, o)
    <3>1. Outcome(j) = None
      BY <2>1 DEF Outcome
    <3>2. o = "result" => executed[j] = 1
      BY <2>4 DEF NotStarted
    <3>3. o = "not_started" => executed[j] = 0
      BY <2>4 DEF NotStarted
    <3>4. [k \in Callers |-> Outcome(k)]' = [[k \in Callers |-> Outcome(k)] EXCEPT ![j] = o]
      BY <2>3 DEF Outcome
    <3> HIDE DEF o
    <3> QED
      BY <1>2, <3>1, <3>2, <3>3, <3>4 DEF Contract!Answer, Outcome
  <2> QED
    BY <2>5, <2>6 DEF Contract!Next
<1> QED
  BY <1>1, <1>2

\* Expiring a job is an answer of the contract.
LEMMA ContractExpire ==
    ASSUME TypeOK, JobInv, NEW j \in Callers, Expire(j), job[j].state # "none",
           executed' = executed
    PROVE  [Contract!Next]_(Contract!vars)
BY ExpireHonest, ContractAnswer DEF JobInv

\* Unity runs a message it holds, for the first time.
LEMMA ContractExecute ==
    ASSUME TypeOK, JobInv, NEW j \in Callers, UnityExecute(j)
    PROVE  [Contract!Next]_(Contract!vars)
<1>1. /\ job' = job /\ executed' = [executed EXCEPT ![j] = @ + 1]
      /\ net[j].pc = "sent" /\ net[j].answer = None
  BY DEF UnityExecute, JobInv, AnswerInv
<1>2. executed[j] = 0
  BY <1>1, HostJobsAssumption DEF JobInv, AnswerInv
<1>3. executed' = [executed EXCEPT ![j] = 1]
  BY <1>1, <1>2 DEF TypeOK
<1>4. Outcome(j) \in {None, "unknown"}
  BY <1>1, HostJobsAssumption DEF JobInv, AnswerInv, Outcome, TypeOK, JobStates, Responses, NotStarted
<1>5. [k \in Callers |-> Outcome(k)]' = [k \in Callers |-> Outcome(k)]
  BY <1>1 DEF Outcome
<1>6. Contract!Execute(j)
  BY <1>2, <1>3, <1>4, <1>5 DEF Contract!Execute, Outcome
<1> QED
  BY <1>6 DEF Contract!Next

\* The stopping host turns away what is still queued.
LEMMA ContractDrain ==
    ASSUME TypeOK, JobInv, StopDrain
    PROVE  [Contract!Next]_(Contract!vars)
<1>0. PICK S : S = {j \in Callers : Queued(j) /\ ~Done(j)}
  OBVIOUS
<1>1. S \in SUBSET Callers /\ executed' = executed
  BY <1>0 DEF StopDrain, unityVars
<1>2. ASSUME NEW j \in S PROVE Outcome(j) = None /\ executed[j] = 0
  <2>1. j \in Callers /\ Queued(j) /\ job[j].response = None
    BY <1>0 DEF Done
  <2>2. job[j].state = "queued"
    BY <2>1 DEF Queued, JobInv, OwnerInv, AnswerInv, Done
  <2>3. net[j].pc = "none" /\ executed[j] = 0
    BY <2>1, <2>2, HostJobsAssumption DEF JobInv, AnswerInv
  <2> QED
    BY <2>1, <2>3, HostJobsAssumption DEF Outcome, NotStarted
<1>3. \A j \in Callers : Outcome(j)' = IF j \in S THEN "not_started" ELSE Outcome(j)
  <2>1. \A j \in S : job'[j].response = "not_started"
    BY <1>0 DEF StopDrain, TypeOK, JobStates
  <2>2. \A j \in Callers \ S : job'[j] = job[j]
    BY <1>0 DEF StopDrain
  <2> QED
    BY <2>1, <2>2 DEF Outcome, NotStarted
<1>4. [k \in Callers |-> Outcome(k)]' =
         [k \in Callers |-> IF k \in S THEN "not_started" ELSE [i \in Callers |-> Outcome(i)][k]]
  BY <1>3
<1>5. Contract!TurnAway(S)
  BY <1>1, <1>2, <1>4 DEF Contract!TurnAway, Outcome
<1> QED
  BY <1>1, <1>5 DEF Contract!Next

\* Every step of the host is a step of the contract or is invisible to it.
LEMMA ContractStep ==
    ASSUME TypeOK, JobInv, [Next]_vars
    PROVE  [Contract!Next]_(Contract!vars)
<1> USE DEF callerVars, queueVars, threadVars, discVars, stopVars, unityVars
<1>job. job \in [Callers -> JobStates]
  BY DEF TypeOK
<1>inv. AnswerInv /\ OwnerInv /\ CallerInv
  BY DEF JobInv
<1>own. ASSUME NEW t \in Callers, Preparing(t)
        PROVE  /\ worker[t].job \in Callers /\ job[worker[t].job].state # "none"
               /\ Done(worker[t].job) \/ worker[t].pc = "post"
                  \/ MayAnswer(worker[t].job, "not_started")
               /\ worker[t].pc = "post" => net[worker[t].job].pc # "none"
               /\ worker[t].pc # "post" => job[worker[t].job].state # "dispatched"
  <2>1. /\ worker[t].job \in Callers /\ job[worker[t].job].state # "none"
        /\ worker[t].pc = "post" => net[worker[t].job].pc # "none"
        /\ worker[t].pc # "post" => job[worker[t].job].state \in {"queued", "completed"}
    BY <1>inv, <1>own DEF OwnerInv
  <2>2. job[worker[t].job].state = "queued" =>
           net[worker[t].job].pc = "none" /\ net[worker[t].job].answer = None
    BY <1>inv, <2>1 DEF AnswerInv, TypeOK, Messages
  <2> QED
    BY <1>inv, <2>1, <2>2, HostJobsAssumption DEF AnswerInv, MayAnswer, NotStarted
<1>same. ASSUME UNCHANGED <<job, executed>> PROVE [Contract!Next]_(Contract!vars)
  BY <1>same, ContractStutter
<1>1. ASSUME NEW c \in Callers, CallerTimeout(c) PROVE [Contract!Next]_(Contract!vars)
  <2>1. caller[c].job \in Callers /\ job[caller[c].job].state # "none"
    BY <1>1, <1>inv DEF CallerTimeout, CallerInv, TypeOK, CallerStates
  <2> QED
    BY <1>1, <2>1, ContractExpire DEF CallerTimeout
<1>2. ASSUME NEW t \in Callers, ContextAbandoned(t) PROVE [Contract!Next]_(Contract!vars)
  BY <1>2, <1>own, ContractExpire DEF ContextAbandoned, WorkerAt, Preparing
<1>3. ASSUME NEW t \in Callers, ContextUnavailable(t) \/ CompileError(t) \/ CheckStale(t)
      PROVE  [Contract!Next]_(Contract!vars)
  <2>1. Preparing(t) /\ worker[t].pc # "post" /\ executed' = executed
    BY <1>3 DEF ContextUnavailable, CompileError, CheckStale, WorkerAt, Preparing
  <2>2. Complete(worker[t].job, "not_started") \/ UNCHANGED job
    BY <1>3 DEF ContextUnavailable, CompileError, CheckStale
  <2> QED
    BY <1>own, <1>same, <2>1, <2>2, ContractAnswer DEF Responses
<1>4. ASSUME NEW t \in Callers, WorkerException(t) PROVE [Contract!Next]_(Contract!vars)
  <2> DEFINE r == IF job[worker[t].job].state = "dispatched" THEN "unknown" ELSE "not_started"
  <2>1. Preparing(t) /\ worker[t].pc \in {"compile", "post"} /\ executed' = executed
    BY <1>4 DEF WorkerException, Preparing
  <2>2. Complete(worker[t].job, r) /\ r \in Responses
    BY <1>4 DEF WorkerException, Responses
  <2>3. Done(worker[t].job) \/ MayAnswer(worker[t].job, r)
    <3>1. CASE worker[t].pc = "compile"
      BY <1>own, <2>1, <3>1
    <3>2. CASE worker[t].pc = "post"
      <4>1. job[worker[t].job].state \in {"dispatched", "completed"}
        BY <1>inv, <2>1, <3>2 DEF OwnerInv
      <4> QED
        BY <1>inv, <1>own, <2>1, <3>2, <4>1 DEF AnswerInv, MayAnswer, NotStarted
    <3> QED
      BY <2>1, <3>1, <3>2
  <2> HIDE DEF r
  <2> QED
    BY <1>own, <2>1, <2>2, <2>3, ContractAnswer
<1>5. ASSUME NEW t \in Callers, AnswerLost(t) PROVE [Contract!Next]_(Contract!vars)
  <2>1. Preparing(t) /\ worker[t].pc = "post" /\ executed' = executed
    BY <1>5 DEF AnswerLost, WorkerAt, Preparing
  <2>2. MayAnswer(worker[t].job, "unknown")
    BY <1>own, <2>1 DEF MayAnswer, NotStarted
  <2> QED
    BY <1>5, <1>own, <2>1, <2>2, ContractAnswer DEF AnswerLost, Responses
<1>answer. ASSUME NEW j \in Callers, net[j].pc = "answered"
           PROVE  Completion(net[j].answer) \in Responses /\ MayAnswer(j, Completion(net[j].answer))
  BY <1>answer DEF Completion, Responses, MayAnswer, NotStarted
<1>6. ASSUME NEW t \in Callers, AnswerFinal(t) PROVE [Contract!Next]_(Contract!vars)
  BY <1>6, <1>answer, <1>own, ContractAnswer DEF AnswerFinal, WorkerAt, Preparing
<1>7. ASSUME NEW j \in Callers, RunControl(j) PROVE [Contract!Next]_(Contract!vars)
  <2>1. control[j] \in {"start", "post"} /\ executed' = executed
    BY <1>7 DEF RunControl, ControlStart, ControlAnswer, ControlLost, ControlAt
  <2>2. job[j].state # "none"
    BY <1>inv, <2>1 DEF OwnerInv
  <2>3. CASE UNCHANGED job
    BY <1>same, <2>1, <2>3
  <2>4. CASE Expire(j)
    BY <2>1, <2>2, <2>4, ContractExpire
  <2>5. CASE MarkDispatched(j)
    BY <1>job, <2>1, <2>5, ContractStutter DEF MarkDispatched, JobStates
  <2>6. CASE ControlAnswer(j)
    BY <1>answer, <2>1, <2>6, ContractAnswer DEF ControlAnswer
  <2>7. CASE ControlLost(j)
    <3>1. MayAnswer(j, "unknown")
      BY <1>inv, <2>7 DEF ControlLost, ControlAt, OwnerInv, MayAnswer, NotStarted
    <3> QED
      BY <2>1, <2>7, <3>1, ContractAnswer DEF ControlLost, Responses
  <2> QED
    BY <1>7, <2>3, <2>4, <2>5, <2>6, <2>7 DEF RunControl, ControlStart
<1>8. ASSUME NEW t \in Callers, Dispatch(t) PROVE [Contract!Next]_(Contract!vars)
  <2>1. Preparing(t) /\ executed' = executed
    BY <1>8 DEF Dispatch, WorkerAt, Preparing
  <2>2. CASE UNCHANGED job
    BY <1>same, <2>1, <2>2
  <2>3. CASE Expire(worker[t].job)
    BY <1>own, <2>1, <2>3, ContractExpire
  <2>4. CASE MarkDispatched(worker[t].job)
    BY <1>job, <2>1, <2>4, ContractStutter DEF MarkDispatched, JobStates
  <2> QED
    BY <1>8, <2>2, <2>3, <2>4 DEF Dispatch
<1>9. ASSUME NEW t \in Callers, AnswerRetry(t) PROVE [Contract!Next]_(Contract!vars)
  BY <1>9, <1>job, ContractStutter DEF AnswerRetry, JobStates
<1>10. ASSUME NEW c \in Callers, Trim(c) \/ Admit(c) PROVE [Contract!Next]_(Contract!vars)
  <2>1. executed' = executed
    BY <1>10 DEF Admit, Trim
  <2>2. \/ UNCHANGED job
        \/ job' = [job EXCEPT ![c] = [state |-> "queued", response |-> None,
                                      ticket |-> NextTicket]]
    BY <1>10, Zenon DEF Admit, Trim
  <2>3. job[c].response = None
    BY <1>10, <1>inv DEF Admit, Trim, NewWork, CallerInv, AnswerInv, Done
  <2>4. \A k \in Callers : job'[k].response = job[k].response
    BY <1>job, <2>2, <2>3
  <2> QED
    BY <2>1, <2>4, ContractStutter
<1>11. ASSUME NEW c \in Callers,
              \/ Refuse(c) \/ Enter(c) \/ Rescan(c) \/ Unsupported(c) \/ Join(c)
              \/ CallerReturn(c) \/ DeadlinePasses(c) \/ ProjectLoop(c)
              \/ ContextReady(c) \/ CompileOk(c) \/ CompileStale(c)
       PROVE  [Contract!Next]_(Contract!vars)
  BY <1>11, <1>same DEF Refuse, Enter, Rescan, Unsupported, Join, CallerReturn, DeadlinePasses,
     ProjectLoop, WorkerLeave, WorkerStop, WorkerPop, WorkerFinish, ContextReady, CompileOk,
     CompileStale
<1>12. CASE \/ Scan \/ Negotiate \/ StopObserve \/ StopSet \/ UnityReload \/ UnityLoadAssembly
            \/ UnityHalt \/ UnityMode \/ (\E j \in Callers : UnityRefuse(j)) \/ UNCHANGED vars
  BY <1>12, <1>same DEF Scan, Negotiate, NegotiateServed, NegotiateStore, NegotiateFail,
     StopObserve, StopSet, UnityReload, UnityLoadAssembly, UnityHalt, UnityMode, UnityRefuse, vars
<1>13. ASSUME NEW c \in Callers,
              Submit(c) \/ CallerWait(c) \/ DeadlinePasses(c) \/ ProjectLoop(c) \/ Execute(c)
       PROVE  [Contract!Next]_(Contract!vars)
  BY <1>1, <1>2, <1>3, <1>4, <1>5, <1>6, <1>8, <1>9, <1>10, <1>11, <1>13
     DEF Submit, CallerWait, Execute
<1> QED
  BY <1>7, <1>12, <1>13, ContractDrain, ContractExecute DEF Next, RequestStop, Unity

\* Whatever threads, retries, reloads and lost messages do, each request is run at
\* most once, is answered once, and "not_started" is only said of a request that
\* Unity has not run and never will.
THEOREM Implementation == Spec => ImplementsContract
<1>1. Init => Contract!Init
  <2> SUFFICES ASSUME Init PROVE Contract!Init
    OBVIOUS
  <2>1. /\ executed = [c \in Callers |-> 0]
        /\ \A j \in Callers : job[j].response = None
    BY DEF Init
  <2>2. ~NotStarted(None)
    BY HostJobsAssumption DEF NotStarted
  <2>3. [j \in Callers |-> IF NotStarted(job[j].response) THEN "not_started"
                           ELSE job[j].response] = [j \in Callers |-> None]
    BY <2>1, <2>2
  <2> QED
    BY <2>1, <2>3 DEF Contract!Init
<1>2. TypeOK /\ JobInv /\ [Next]_vars => [Contract!Next]_(Contract!vars)
  BY ContractStep
<1> QED
  BY <1>1, <1>2, Invariant, PTL DEF Spec, Contract!Spec, ImplementsContract
=============================================================================
