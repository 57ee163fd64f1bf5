----------------------------- MODULE ChangeNotice -----------------------------
(***************************************************************************)
(* How a change of the editor's state reaches the host: the Connector      *)
(* writes its heartbeat file (Heartbeat.cs) and announces the change in    *)
(* the background (BridgeHostLauncher.NotifyStateChanged); the announcement*)
(* wakes the host's discovery loop (service.py: /changed, _scan_loop),     *)
(* which reads the file. The loop also wakes up by itself after a while.   *)
(*                                                                         *)
(* The editor's state is a number that grows with every change. A domain   *)
(* reload is a change that takes the Connector's memory and threads along. *)
(***************************************************************************)
EXTENDS Naturals, FiniteSets

CONSTANTS Tasks,       \* background tasks that can exist at the same time
          MaxChanges,  \* bound on the changes of the editor's state
          None         \* no attempt yet in this domain

ASSUME NoticeAssumption ==
    /\ IsFiniteSet(Tasks)
    /\ MaxChanges \in Nat /\ None \notin Nat

VARIABLES
    state,      \* the editor's state
    attempted,  \* s_LastAttemptedState
    file,       \* the state in the heartbeat file
    main,       \* the editor's main thread in NotifyStateChanged
    pending,    \* s_NotifyPending
    running,    \* s_NotifyRunning
    task,       \* task[t]: a task of the notifier
    wakeup,     \* discovery_wakeup
    scanner,    \* the host's discovery thread
    seen,       \* the state the host last read
    lost        \* history: a write, an announcement or a read failed since the last
                \* scan that made up for it

editorVars == <<state, attempted, file>>
latchVars == <<main, pending, running, task>>
hostVars == <<wakeup, scanner, seen, lost>>
vars == <<editorVars, latchVars, hostVars>>

TypeOK ==
    /\ state \in 0..MaxChanges
    /\ attempted \in 0..state \cup {None}
    /\ file \in 0..(IF attempted = None THEN state ELSE attempted)
    /\ seen \in 0..file
    /\ main \in {"idle", "notify", "enter"}
    /\ pending \in BOOLEAN /\ running \in BOOLEAN /\ wakeup \in BOOLEAN /\ lost \in BOOLEAN
    /\ task \in [Tasks -> {"free", "loop", "post", "finish", "check", "notify", "enter"}]
    /\ scanner \in {"clear", "scan", "wait"}

Init ==
    /\ state = 0 /\ attempted = 0 /\ file = 0 /\ seen = 0
    /\ main = "idle"
    /\ pending = FALSE /\ running = FALSE /\ wakeup = FALSE /\ lost = FALSE
    /\ task = [t \in Tasks |-> "free"]
    /\ scanner = "clear"

-----------------------------------------------------------------------------
(* Heartbeat *)

Change ==
    /\ main = "idle"
    /\ state < MaxChanges
    /\ state' = state + 1
    /\ UNCHANGED <<attempted, file, latchVars, hostVars>>

\* Static fields start anew; a task is aborted wherever it is.
Reload ==
    /\ main = "idle"
    /\ state < MaxChanges
    /\ state' = state + 1
    /\ attempted' = None
    /\ pending' = FALSE /\ running' = FALSE
    /\ task' = [t \in Tasks |-> "free"]
    /\ UNCHANGED <<file, main, hostVars>>

\* A tick writes a changed state at once and any state when it is due. A failed
\* write counts as an attempt and announces nothing.
Tick ==
    /\ main = "idle"
    /\ attempted' = state
    /\ \/ /\ file' = state
          /\ main' = IF state # attempted THEN "notify" ELSE "idle"
          /\ UNCHANGED lost
       \/ /\ lost' = TRUE
          /\ UNCHANGED <<file, main>>
    /\ UNCHANGED <<state, pending, running, task, wakeup, scanner, seen>>

-----------------------------------------------------------------------------
(* NotifyStateChanged, on the main thread or at the end of a task *)

NotifyMain ==
    /\ main = "notify"
    /\ pending' = TRUE
    /\ main' = "enter"
    /\ UNCHANGED <<editorVars, running, task, hostVars>>

\* Whoever finds no task running starts one.
EnterMain ==
    /\ main = "enter"
    /\ main' = "idle"
    /\ \/ running /\ UNCHANGED <<running, task>>
       \/ /\ ~running
          /\ running' = TRUE
          /\ \E t \in Tasks : task[t] = "free" /\ task' = [task EXCEPT ![t] = "loop"]
    /\ UNCHANGED <<editorVars, pending, hostVars>>

TaskTo(t, p) == task' = [task EXCEPT ![t] = p]

TaskLoop(t) ==
    /\ task[t] = "loop"
    /\ pending' = FALSE
    /\ TaskTo(t, IF pending THEN "post" ELSE "finish")
    /\ UNCHANGED <<editorVars, main, running, hostVars>>

\* A missing or unreachable host is left to its periodic discovery.
TaskPost(t) ==
    /\ task[t] = "post"
    /\ TaskTo(t, "loop")
    /\ \/ wakeup' = TRUE /\ UNCHANGED lost
       \/ lost' = TRUE /\ UNCHANGED wakeup
    /\ UNCHANGED <<editorVars, main, pending, running, scanner, seen>>

TaskFinish_blindly(t) ==
    /\ task[t] = "finish"
    /\ running' = FALSE
    /\ TaskTo(t, "free")
    /\ UNCHANGED <<editorVars, main, pending, hostVars>>

TaskFinish(t) ==
    /\ task[t] = "finish"
    /\ running' = FALSE
    /\ TaskTo(t, "check")
    /\ UNCHANGED <<editorVars, main, pending, hostVars>>

\* A change announced while the task was finishing starts the latch again.
TaskCheck(t) ==
    /\ task[t] = "check"
    /\ TaskTo(t, IF pending THEN "notify" ELSE "free")
    /\ UNCHANGED <<editorVars, main, pending, running, hostVars>>

TaskNotify(t) ==
    /\ task[t] = "notify"
    /\ pending' = TRUE
    /\ TaskTo(t, "enter")
    /\ UNCHANGED <<editorVars, main, running, hostVars>>

\* The new task runs in the place of the one that started it.
TaskEnter(t) ==
    /\ task[t] = "enter"
    /\ running' = TRUE
    /\ TaskTo(t, IF running THEN "free" ELSE "loop")
    /\ UNCHANGED <<editorVars, main, pending, hostVars>>

-----------------------------------------------------------------------------
(* The host's discovery loop *)

Clear ==
    /\ scanner = "clear"
    /\ wakeup' = FALSE
    /\ scanner' = "scan"
    /\ UNCHANGED <<editorVars, latchVars, seen, lost>>

\* While the editor replaces the file a read may be denied.
ScanFile ==
    /\ scanner = "scan"
    /\ \/ seen' = file /\ lost' = (lost /\ file # attempted)
       \/ lost' = TRUE /\ UNCHANGED seen
    /\ scanner' = "wait"
    /\ UNCHANGED <<editorVars, latchVars, wakeup>>

Wake ==
    /\ scanner = "wait"
    /\ wakeup
    /\ scanner' = "clear"
    /\ UNCHANGED <<editorVars, latchVars, wakeup, seen, lost>>

Interval_woken == Wake

\* The wait ends after scan_interval without a wakeup.
Interval ==
    /\ scanner = "wait"
    /\ ~wakeup
    /\ scanner' = "clear"
    /\ UNCHANGED <<editorVars, latchVars, wakeup, seen, lost>>

-----------------------------------------------------------------------------

Notifier(t) == \/ TaskLoop(t) \/ TaskPost(t) \/ TaskFinish(t) \/ TaskCheck(t)
               \/ TaskNotify(t) \/ TaskEnter(t)

ScanLoop == Clear \/ ScanFile \/ Wake

Next == \/ Change \/ Reload \/ Tick \/ NotifyMain \/ EnterMain \/ ScanLoop \/ Interval
        \/ \E t \in Tasks : Notifier(t)

Spec == Init /\ [][Next]_vars

(* The editor updates, tasks and threads run, and the file is not out of reach *)
(* for ever. The periodic scan, which the code has anyway, is only needed once  *)
(* something was lost.                                                          *)
FairSpec ==
    /\ Spec
    /\ WF_vars(Tick) /\ WF_vars(NotifyMain) /\ WF_vars(EnterMain) /\ WF_vars(ScanLoop)
    /\ \A t \in Tasks : WF_vars(Notifier(t))
    /\ WF_vars(lost /\ Interval)
    /\ SF_vars(Tick /\ file' = state) /\ SF_vars(ScanFile /\ seen' = file)

-----------------------------------------------------------------------------
(* Properties *)

\* No change that the heartbeat file shows is forgotten: the host has read it, or is going
\* to, or a notifier that will tell it is alive, or a new domain has yet to write, or
\* something failed that the periodic scan is there for.
Announced ==
    \/ lost \/ seen = file \/ scanner \in {"clear", "scan"} \/ wakeup
    \/ attempted = None \/ main = "notify" \/ \E t \in Tasks : task[t] = "post"
    \/ pending /\ (main = "enter" \/ \E t \in Tasks : task[t] # "free")

\* The host follows the editor: by announcements alone while none is lost, and by the
\* periodic scan when announcements, writes or reads fail.
CatchUp == seen # state ~> seen = state
=============================================================================
