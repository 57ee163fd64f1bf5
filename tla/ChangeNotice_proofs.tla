-------------------------- MODULE ChangeNotice_proofs --------------------------
(* Proofs about ChangeNotice, for any set of tasks and any number of changes.  *)
(* Announced is not inductive: that a change still has a notifier depends on   *)
(* the latch (s_NotifyRunning is set only while a task works, LatchInv) and on *)
(* the file showing what was last attempted, or a failure being on record      *)
(* (FileInv).                                                                  *)
EXTENDS ChangeNotice, TLAPS

\* The tasks that announce: they have set s_NotifyRunning and not yet cleared it.
Working == {t \in Tasks : task[t] \in {"loop", "post", "finish"}}

LatchInv ==
  /\ running <=> Working # {}
  /\ \A t, u \in Working : t = u

FileInv == lost \/ attempted = None \/ file = attempted

IInv == TypeOK /\ LatchInv /\ FileInv /\ Announced

\* The latch admits one notifier at a time, whether the main thread or a finishing
\* task starts the next one.
OneNotifier == \A t, u \in Tasks : t \in Working /\ u \in Working => t = u

TaskStates == {"free", "loop", "post", "finish", "check", "notify", "enter"}

--------------------------------------------------------------------------------

LEMMA InitInv == Init => IInv
<1> SUFFICES ASSUME Init PROVE IInv
  OBVIOUS
<1>1. TypeOK
  <2>1. None \notin Nat /\ MaxChanges \in Nat
    BY NoticeAssumption
  <2>2. /\ state \in 0..MaxChanges /\ attempted \in 0..state /\ attempted # None
        /\ file \in 0..attempted /\ seen \in 0..file
    BY <2>1 DEF Init
  <2>3. task \in [Tasks -> TaskStates]
    BY DEF Init, TaskStates
  <2> QED BY <2>2, <2>3 DEF Init, TypeOK, TaskStates
<1> QED BY <1>1 DEF Init, IInv, LatchInv, FileInv, Announced, Working

\* The heartbeat: what the file shows and what was attempted go together.
LEMMA HeartbeatStep ==
  ASSUME IInv, Change \/ Reload \/ Tick
  PROVE  IInv'
<1> USE DEF IInv
<1>1. None \notin Nat /\ MaxChanges \in Nat
  BY NoticeAssumption
<1>2. TypeOK'
  <2>1. CASE Change
    <3>1. /\ state' \in 0..MaxChanges
          /\ attempted' \in 0..state' \cup {None}
          /\ attempted' = None => file' \in 0..state'
          /\ attempted' # None => file' \in 0..attempted'
      BY <1>1, <2>1 DEF Change, TypeOK
    <3>2. file' \in 0..(IF attempted' = None THEN state' ELSE attempted')
      BY <3>1
    <3>3. seen' \in 0..file' /\ UNCHANGED <<latchVars, hostVars>>
      BY <2>1 DEF Change, TypeOK, hostVars
    <3>4. UNCHANGED <<main, pending, running, task, wakeup, scanner, seen, lost>>
      BY <3>3 DEF latchVars, hostVars
    <3>5. /\ main' \in {"idle", "notify", "enter"}
          /\ pending' \in BOOLEAN /\ running' \in BOOLEAN /\ wakeup' \in BOOLEAN /\ lost' \in BOOLEAN
          /\ task' \in [Tasks -> TaskStates]
          /\ scanner' \in {"clear", "scan", "wait"}
      BY <3>4 DEF TypeOK, TaskStates
    <3> USE DEF TaskStates
    <3> HIDE DEF IInv
    <3> QED BY <3>1, <3>2, <3>3, <3>5, Zenon DEF TypeOK
  <2>2. CASE Reload
    <3>1. state' \in 0..MaxChanges /\ attempted' = None /\ file' \in 0..state' /\ seen' \in 0..file'
      BY <1>1, <2>2 DEF Reload, TypeOK, hostVars
    <3>2. file' \in 0..(IF attempted' = None THEN state' ELSE attempted')
      BY <3>1
    <3>3. /\ main' \in {"idle", "notify", "enter"} /\ task' \in [Tasks -> TaskStates]
          /\ pending' \in BOOLEAN /\ running' \in BOOLEAN /\ wakeup' \in BOOLEAN /\ lost' \in BOOLEAN
          /\ scanner' \in {"clear", "scan", "wait"}
      BY <2>2 DEF Reload, TypeOK, TaskStates, hostVars
    <3> USE DEF TaskStates
    <3> HIDE DEF IInv
    <3> QED BY <3>1, <3>2, <3>3, Zenon DEF TypeOK
  <2>3. CASE Tick
    <3>1. /\ attempted' \in 0..state' \cup {None} /\ attempted' # None
          /\ file' \in 0..attempted'
          /\ seen' \in 0..file'
      BY <1>1, <2>3 DEF Tick, TypeOK
    <3>2. main' \in {"idle", "notify", "enter"} /\ lost' \in BOOLEAN
      BY <2>3 DEF Tick, TypeOK
    <3> QED BY <1>1, <2>3, <3>1, <3>2 DEF Tick, TypeOK
  <2> QED BY <2>1, <2>2, <2>3
<1>3. LatchInv'
  <2>1. CASE Change \/ Tick
    BY <2>1 DEF Change, Tick, LatchInv, Working, latchVars
  <2>2. CASE Reload
    BY <2>2 DEF Reload, LatchInv, Working
  <2> QED BY <2>1, <2>2
<1>4. FileInv'
  BY DEF Change, Reload, Tick, FileInv, hostVars
<1>5. Announced'
  <2>1. CASE Change
    BY <2>1 DEF Change, Announced, latchVars, hostVars
  <2>2. CASE Reload
    BY <2>2 DEF Reload, Announced
  <2>3. CASE Tick
    BY <1>1, <2>3 DEF Tick, Announced, FileInv, TypeOK
  <2> QED BY <2>1, <2>2, <2>3
<1> QED BY <1>2, <1>3, <1>4, <1>5

\* The main thread's announcement: there is a task afterwards, found or started.
LEMMA MainStep ==
  ASSUME IInv, NotifyMain \/ EnterMain
  PROVE  IInv'
<1> USE DEF IInv
<1>1. UNCHANGED <<editorVars, hostVars>>
  BY DEF NotifyMain, EnterMain
<1>2. CASE NotifyMain
  <2>1. pending' = TRUE /\ main' = "enter" /\ UNCHANGED <<running, task>>
    BY <1>2 DEF NotifyMain
  <2> QED BY <1>1, <2>1 DEF TypeOK, LatchInv, Working, FileInv, Announced, editorVars, hostVars
<1>3. CASE EnterMain /\ running
  <2>1. main' = "idle" /\ UNCHANGED <<running, task, pending>>
    BY <1>3 DEF EnterMain
  <2>2. \E t \in Tasks : task[t] # "free"
    BY <1>3 DEF LatchInv, Working
  <2>3. Announced'
    BY <1>1, <1>3, <2>1, <2>2 DEF EnterMain, Announced, editorVars, hostVars
  <2> QED BY <1>1, <2>1, <2>3 DEF TypeOK, LatchInv, Working, FileInv, editorVars, hostVars
<1>4. CASE EnterMain /\ ~running
  <2>1. PICK t \in Tasks : task[t] = "free" /\ task' = [task EXCEPT ![t] = "loop"]
    BY <1>4 DEF EnterMain
  <2>2. main' = "idle" /\ running' = TRUE /\ UNCHANGED pending
    BY <1>4 DEF EnterMain
  <2>3. Working = {}
    BY <1>4 DEF LatchInv
  <2>4. Working' = {t}
    BY <2>1, <2>3 DEF Working, TypeOK
  <2>5. Announced'
    BY <1>1, <1>4, <2>1, <2>2 DEF EnterMain, Announced, TypeOK, editorVars, hostVars
  <2> QED BY <1>1, <2>1, <2>2, <2>4, <2>5 DEF TypeOK, LatchInv, FileInv, editorVars, hostVars
<1> QED BY <1>2, <1>3, <1>4

\* A task's step: what it leaves unannounced, it leaves to itself or to another task.
LEMMA TaskStep ==
  ASSUME IInv, NEW t \in Tasks, Notifier(t)
  PROVE  IInv'
<1> USE DEF IInv
<1>1. UNCHANGED <<editorVars, main, scanner, seen>>
  BY DEF Notifier, TaskLoop, TaskPost, TaskFinish, TaskCheck, TaskNotify, TaskEnter, hostVars
<1>2. PICK p \in TaskStates : task' = [task EXCEPT ![t] = p]
  BY DEF Notifier, TaskLoop, TaskPost, TaskFinish, TaskCheck, TaskNotify, TaskEnter, TaskTo,
         TaskStates
<1>3. /\ task' \in [Tasks -> TaskStates] /\ task'[t] = p
      /\ \A u \in Tasks \ {t} : task'[u] = task[u]
  BY <1>2 DEF TypeOK, TaskStates
<1>4. pending' \in BOOLEAN /\ running' \in BOOLEAN /\ wakeup' \in BOOLEAN /\ lost' \in BOOLEAN
  BY DEF Notifier, TaskLoop, TaskPost, TaskFinish, TaskCheck, TaskNotify, TaskEnter, hostVars,
         TypeOK
<1>5. TypeOK'
  BY <1>1, <1>3, <1>4 DEF TypeOK, TaskStates, editorVars
<1>6. FileInv'
  <2>1. lost => lost'
    BY DEF Notifier, TaskLoop, TaskPost, TaskFinish, TaskCheck, TaskNotify, TaskEnter, hostVars
  <2> QED BY <1>1, <2>1 DEF FileInv, editorVars
<1>7. LatchInv'
  <2>1. CASE TaskLoop(t) \/ TaskPost(t)
    <3>1. p \in {"loop", "post", "finish"} /\ t \in Working /\ UNCHANGED running
      BY <1>3, <2>1 DEF TaskLoop, TaskPost, TaskTo, Working, TypeOK
    <3>2. Working' = Working
      BY <1>3, <3>1 DEF Working
    <3> QED BY <3>1, <3>2 DEF LatchInv
  <2>2. CASE TaskFinish(t)
    <3>1. p = "check" /\ t \in Working /\ running' = FALSE
      BY <1>3, <2>2 DEF TaskFinish, TaskTo, Working, TypeOK
    <3>2. Working' = {}
      BY <1>3, <3>1 DEF Working, LatchInv
    <3> QED BY <3>1, <3>2 DEF LatchInv
  <2>3. CASE TaskCheck(t) \/ TaskNotify(t)
    <3>1. /\ p \in {"free", "notify", "enter"} /\ task[t] \in {"check", "notify"}
          /\ UNCHANGED running
      BY <1>3, <2>3 DEF TaskCheck, TaskNotify, TaskTo, TypeOK
    <3>2. Working' = Working
      BY <1>3, <3>1 DEF Working
    <3> QED BY <3>1, <3>2 DEF LatchInv
  <2>4. CASE TaskEnter(t)
    <3>1. task[t] = "enter" /\ running' = TRUE /\ p = IF running THEN "free" ELSE "loop"
      BY <1>3, <2>4 DEF TaskEnter, TaskTo, TypeOK
    <3>2. Working' = IF running THEN Working ELSE {t}
      BY <1>3, <3>1 DEF Working, LatchInv
    <3> QED BY <3>1, <3>2 DEF LatchInv
  <2> QED BY <2>1, <2>2, <2>3, <2>4 DEF Notifier
<1>8. Announced'
  <2>1. CASE TaskLoop(t)
    <3>1. p = (IF pending THEN "post" ELSE "finish") /\ task[t] = "loop" /\ UNCHANGED hostVars
      BY <1>3, <2>1 DEF TaskLoop, TaskTo, TypeOK
    <3> QED BY <1>1, <1>3, <3>1 DEF Announced, editorVars, hostVars
  <2>2. CASE TaskPost(t)
    BY <2>2 DEF TaskPost, Announced
  <2>3. CASE TaskFinish(t)
    <3>1. p = "check" /\ task[t] = "finish" /\ UNCHANGED <<pending, hostVars>>
      BY <1>3, <2>3 DEF TaskFinish, TaskTo, TypeOK
    <3> QED BY <1>1, <1>3, <3>1 DEF Announced, editorVars, hostVars
  <2>4. CASE TaskCheck(t)
    <3>1. /\ p = (IF pending THEN "notify" ELSE "free") /\ task[t] = "check"
          /\ UNCHANGED <<pending, hostVars>>
      BY <1>3, <2>4 DEF TaskCheck, TaskTo, TypeOK
    <3> QED BY <1>1, <1>3, <3>1 DEF Announced, editorVars, hostVars
  <2>5. CASE TaskNotify(t)
    <3>1. p = "enter" /\ task[t] = "notify" /\ pending' = TRUE /\ UNCHANGED hostVars
      BY <1>3, <2>5 DEF TaskNotify, TaskTo, TypeOK
    <3> QED BY <1>1, <1>3, <3>1 DEF Announced, editorVars, hostVars
  <2>6. CASE TaskEnter(t)
    <3>1. /\ p = (IF running THEN "free" ELSE "loop") /\ task[t] = "enter"
          /\ UNCHANGED <<pending, hostVars>>
      BY <1>3, <2>6 DEF TaskEnter, TaskTo, TypeOK
    <3>2. \E u \in Tasks : task'[u] # "free"
      <4>1. CASE running
        <5>1. PICK u \in Working : TRUE
          BY <4>1 DEF LatchInv
        <5> QED BY <1>3, <3>1, <5>1 DEF Working
      <4>2. CASE ~running
        BY <1>3, <3>1, <4>2
      <4> QED BY <4>1, <4>2
    <3> QED BY <1>1, <1>3, <3>1, <3>2 DEF Announced, editorVars, hostVars
  <2> QED BY <2>1, <2>2, <2>3, <2>4, <2>5, <2>6 DEF Notifier
<1> QED BY <1>5, <1>6, <1>7, <1>8

\* The host's loop: only a scan forgets a failure, and it has then read the file.
LEMMA ScanStep ==
  ASSUME IInv, ScanLoop \/ Interval
  PROVE  IInv'
<1> USE DEF IInv
<1>1. UNCHANGED <<editorVars, latchVars>>
  BY DEF ScanLoop, Clear, ScanFile, Wake, Interval
<1>2. TypeOK'
  <2>1. seen' \in 0..file' /\ lost' \in BOOLEAN /\ wakeup' \in BOOLEAN
        /\ scanner' \in {"clear", "scan", "wait"}
    <3>1. file \in Nat /\ file' = file /\ seen \in 0..file
      BY <1>1, NoticeAssumption DEF TypeOK, editorVars
    <3>2. seen' \in {seen, file}
      BY DEF ScanLoop, Clear, ScanFile, Wake, Interval
    <3>3. lost' \in BOOLEAN /\ wakeup' \in BOOLEAN /\ scanner' \in {"clear", "scan", "wait"}
      BY DEF ScanLoop, Clear, ScanFile, Wake, Interval, TypeOK
    <3> QED BY <3>1, <3>2, <3>3
  <2> QED BY <1>1, <2>1 DEF TypeOK, editorVars, latchVars
<1>3. LatchInv'
  BY <1>1 DEF LatchInv, Working, latchVars
<1>4. FileInv'
  BY <1>1 DEF ScanLoop, Clear, ScanFile, Wake, Interval, FileInv, editorVars
<1>5. Announced'
  BY <1>1 DEF ScanLoop, Clear, ScanFile, Wake, Interval, Announced, editorVars, latchVars
<1> QED BY <1>2, <1>3, <1>4, <1>5

--------------------------------------------------------------------------------
(* The theorems *)

\* Every step preserves the invariant.
LEMMA StepInv == IInv /\ [Next]_vars => IInv'
<1> SUFFICES ASSUME IInv, [Next]_vars PROVE IInv'
  OBVIOUS
<1>1. CASE Change \/ Reload \/ Tick
  BY <1>1, HeartbeatStep
<1>2. CASE NotifyMain \/ EnterMain
  BY <1>2, MainStep
<1>3. ASSUME NEW t \in Tasks, Notifier(t) PROVE IInv'
  BY <1>3, TaskStep
<1>4. CASE ScanLoop \/ Interval
  BY <1>4, ScanStep
<1>5. CASE UNCHANGED vars
  BY <1>5 DEF vars, editorVars, latchVars, hostVars, IInv, TypeOK, LatchInv, Working, FileInv,
              Announced
<1> QED BY <1>1, <1>2, <1>3, <1>4, <1>5 DEF Next

\* The inductive invariant holds throughout every behaviour.
THEOREM Invariant == Spec => []IInv
<1>1. Init => IInv
  BY InitInv
<1>2. IInv /\ [Next]_vars => IInv'
  BY StepInv
<1> QED BY <1>1, <1>2, PTL DEF Spec

\* The variables keep their types: the host has read no more than the file shows, and the
\* file shows no more than the editor attempted to write.
THEOREM TypeCorrect == Spec => []TypeOK
<1>1. IInv => TypeOK
  BY DEF IInv
<1> QED BY <1>1, Invariant, PTL

\* No change that the heartbeat file shows is forgotten (NotifyStateChanged, /changed and
\* _scan_loop), with any number of notifier tasks and over any domain reloads.
THEOREM ChangesAnnounced == Spec => []Announced
<1>1. IInv => Announced
  BY DEF IInv
<1> QED BY <1>1, Invariant, PTL

\* s_NotifyRunning lets one notifier work at a time (NotifyStateChanged).
THEOREM NotifiersExclusive == Spec => []OneNotifier
<1>1. IInv => OneNotifier
  BY DEF IInv, LatchInv, OneNotifier
<1> QED BY <1>1, Invariant, PTL
================================================================================
