------------------------------- MODULE HostLife -------------------------------
(* Host processes and the files they are found by: registry.py, host/cli.py,  *)
(* HostService.serve, _write_registry and _scan_loop, and the Connector's     *)
(* BridgeHostLauncher.  An installer registers a runtime; open editors start  *)
(* its host and start it again; an OS lock elects one; the elected host       *)
(* publishes its endpoint, follows launcher.json, and removes the endpoint    *)
(* when it stops.  A process is named by its PID.                             *)
EXTENDS Naturals

CONSTANTS Hosts,          \* host processes (PIDs)
          Runtimes,       \* runtime ids: one per executable, version and worker
          Installers,     \* runs of `_host register`
          Registers,      \* [Installers -> Runtimes]
          MaxCrashes,     \* bound: host processes killed
          None

ASSUME HostLifeAssumption ==
  /\ Registers \in [Installers -> Runtimes]
  /\ MaxCrashes \in Nat
  /\ None \notin Hosts \cup Runtimes \cup Installers \cup BOOLEAN

VARIABLES launcher,       \* launcher.json: [runtime, token], or None
          launchers,      \* launchers/<runtime>.json: its token, or None
          endpoint,       \* instances/<runtime>.json: [pid, token, projects], or None
          lock,           \* locks/<runtime>.lock: the process that holds it
          installer,      \* what each installer has done and the token it uses
          host,           \* what each host process has done
          reused,         \* PIDs of dead hosts now used by another program
          crashes

fileVars == <<launcher, launchers, endpoint, lock>>
lifeVars == <<fileVars, installer, host, reused, crashes>>

\* A token is named by the installer that drew it.
Descriptor == [runtime : Runtimes, token : Installers]
Endpoint   == [pid : Hosts, token : Installers, projects : BOOLEAN]
Process    == [pc : {"none", "started", "locked", "serving", "closed", "leaving", "exited"},
               runtime : Runtimes \cup {None}, token : Installers \cup {None},
               stop : {"no", "decided", "set"},    \* has_work denied; stopping
               writer : BOOLEAN,                   \* a thread is in _write_registry
               projects : BOOLEAN,                 \* the project has a context
               last : BOOLEAN \cup {None}]         \* last_registry

NoProcess == [pc |-> "none", runtime |-> None, token |-> None, stop |-> "no",
              writer |-> FALSE, projects |-> FALSE, last |-> None]

LifeTypeOK ==
  /\ launcher \in Descriptor \cup {None}
  /\ launchers \in [Runtimes -> Installers \cup {None}]
  /\ endpoint \in [Runtimes -> Endpoint \cup {None}]
  /\ lock \in [Runtimes -> Hosts \cup {None}]
  /\ installer \in [Installers -> [pc : {"start", "read", "written", "done"},
                                   token : Installers \cup {None}]]
  /\ host \in [Hosts -> Process]
  /\ reused \in SUBSET Hosts /\ crashes \in 0..MaxCrashes

LifeInit ==
  /\ launcher = None /\ launchers = [r \in Runtimes |-> None]
  /\ endpoint = [r \in Runtimes |-> None] /\ lock = [r \in Runtimes |-> None]
  /\ installer = [i \in Installers |-> [pc |-> "start", token |-> None]]
  /\ host = [h \in Hosts |-> NoProcess]
  /\ reused = {} /\ crashes = 0

--------------------------------------------------------------------------------
(* Processes and files.                                                       *)

Running(h)  == host[h].pc \notin {"none", "exited"}
Serving(h)  == host[h].pc = "serving"
Stopping(h) == host[h].stop = "set"

\* All that a reader of a PID can know; the PID may be another program's.
ProcessAlive(pid) == Running(pid) \/ pid \in reused

\* The endpoint registered for a launcher's runtime, if its token agrees.
Registered(d) ==
  IF d # None /\ endpoint[d.runtime] # None
     /\ endpoint[d.runtime].token = d.token /\ ProcessAlive(endpoint[d.runtime].pid)
  THEN endpoint[d.runtime] ELSE None

\* The authenticated /health probe: a host of this runtime answers, as this PID.
Responsive(d) == /\ Registered(d) # None
                 /\ Serving(Registered(d).pid)
                 /\ host[Registered(d).pid].runtime = d.runtime

Step(h, pc) == host' = [host EXCEPT ![h].pc = pc]
Ended(h)    == host' = [host EXCEPT ![h] = [NoProcess EXCEPT !.pc = "exited"]]

--------------------------------------------------------------------------------
(* register_launcher.                                                         *)

Token_kept(i) == launchers[Registers[i]]

\* A runtime keeps its token; the first installer draws it.
Token(i) == IF launchers[Registers[i]] # None THEN launchers[Registers[i]] ELSE i

ReadPrevious(i) ==
  /\ installer[i].pc = "start"
  /\ installer' = [installer EXCEPT ![i] = [pc |-> "read", token |-> Token(i)]]
  /\ UNCHANGED <<fileVars, host, reused, crashes>>

WriteDescriptor(i) ==
  /\ installer[i].pc = "read"
  /\ launchers' = [launchers EXCEPT ![Registers[i]] = installer[i].token]
  /\ installer' = [installer EXCEPT ![i].pc = "written"]
  /\ UNCHANGED <<launcher, endpoint, lock, host, reused, crashes>>

WriteLauncher(i) ==
  /\ installer[i].pc = "written"
  /\ launcher' = [runtime |-> Registers[i], token |-> installer[i].token]
  /\ installer' = [installer EXCEPT ![i].pc = "done"]
  /\ UNCHANGED <<launchers, endpoint, lock, host, reused, crashes>>

Register(i) == ReadPrevious(i) \/ WriteDescriptor(i) \/ WriteLauncher(i)

--------------------------------------------------------------------------------
(* EnsureHost and launch start a process; `_host serve` elects it.            *)

\* The OS gives the process any PID that is free, an old host's too.
Launch(h) ==
  /\ ~Running(h) /\ h \notin reused
  /\ host' = [host EXCEPT ![h] = [NoProcess EXCEPT !.pc = "started",
                                                   !.runtime = launcher.runtime]]
  /\ UNCHANGED <<fileVars, installer, reused, crashes>>

EnsureHost_pid(h) ==
  /\ launcher # None
  /\ Registered(launcher) = None
  /\ Launch(h)

\* Several editors may find no host and start one each.
EnsureHost(h) ==
  /\ launcher # None
  /\ ~Responsive(launcher)
  /\ Launch(h)

ProcessLock_pid(h) ==
  LET saved == endpoint[host[h].runtime]
  IN  saved = None \/ ~ProcessAlive(saved.pid)

ProcessLock(h) == lock[host[h].runtime] = None

Publish(h, last) ==
  /\ endpoint' = [endpoint EXCEPT ![host[h].runtime] =
                    [pid |-> h, token |-> last[h].token, projects |-> last[h].projects]]
  /\ host' = last

\* The second process of a runtime leaves at once.
Serve(h) ==
  /\ host[h].pc = "started"
  /\ IF ProcessLock(h)
     THEN /\ host' = [host EXCEPT ![h].pc = "locked", ![h].token = launchers[host[h].runtime]]
          /\ lock' = [lock EXCEPT ![host[h].runtime] = h]
     ELSE Ended(h) /\ UNCHANGED lock
  /\ UNCHANGED <<launcher, launchers, endpoint, installer, reused, crashes>>

\* The servers listen, then the endpoint is published for the first time, or by a
\* later scan if a reader holds the file.
Listen(h, written) ==
  /\ host[h].pc = "locked"
  /\ IF written THEN Publish(h, [host EXCEPT ![h].pc = "serving", ![h].last = FALSE])
                ELSE Step(h, "serving") /\ UNCHANGED endpoint
  /\ UNCHANGED <<launcher, launchers, lock, installer, reused, crashes>>

--------------------------------------------------------------------------------
(* _write_registry, by the scan and the negotiation threads.                  *)

\* The project is negotiated, or its editor is gone.
ProjectChanges(h) ==
  /\ Serving(h)
  /\ host' = [host EXCEPT ![h].projects = ~@]
  /\ UNCHANGED <<fileVars, installer, reused, crashes>>

\* Threads that have nothing new to write are left out.
CheckStopping(h) ==
  /\ Serving(h) /\ ~Stopping(h) /\ ~host[h].writer
  /\ host[h].projects # host[h].last
  /\ host' = [host EXCEPT ![h].writer = TRUE]
  /\ UNCHANGED <<fileVars, installer, reused, crashes>>

\* Nothing looks at `stopping` again before the file is replaced; a value that
\* was written before is not written again.
WriteRegistry(h) ==
  /\ Running(h) /\ host[h].writer
  /\ IF host[h].projects # host[h].last
     THEN Publish(h, [host EXCEPT ![h].writer = FALSE, ![h].last = host[h].projects])
     ELSE host' = [host EXCEPT ![h].writer = FALSE] /\ UNCHANGED endpoint
  /\ UNCHANGED <<launcher, launchers, lock, installer, reused, crashes>>

\* A reader holds the file (Windows): the next scan tries again.
WriteDenied(h) ==
  /\ Running(h) /\ host[h].writer
  /\ host' = [host EXCEPT ![h].writer = FALSE]
  /\ UNCHANGED <<fileVars, installer, reused, crashes>>

--------------------------------------------------------------------------------
(* The end of a host.  That it has no work is the caller's to check.          *)

Decide(h) ==
  /\ Serving(h) /\ host[h].stop = "no"
  /\ host' = [host EXCEPT ![h].stop = "decided"]
  /\ UNCHANGED <<fileVars, installer, reused, crashes>>

Replaced_never(h) == FALSE

\* launcher.json names another runtime.
Replaced(h) == launcher # None /\ launcher.runtime # host[h].runtime

ScanRetires(h) == Replaced(h) /\ Decide(h)

\* Nobody has had an editor open for idle_seconds.
IdleRetires(h) == ~host[h].projects /\ Decide(h)

\* `_host stop`, through the endpoint registered for the launcher.
StopAsked(h) ==
  /\ Registered(launcher) # None /\ Registered(launcher).pid = h
  /\ Decide(h)

RequestStop(h) ==
  /\ Serving(h) /\ host[h].stop = "decided"
  /\ host' = [host EXCEPT ![h].stop = "set"]
  /\ UNCHANGED <<fileVars, installer, reused, crashes>>

\* Only this process's own endpoint is removed.
Unlink(h) ==
  LET saved == endpoint[host[h].runtime]
  IN  endpoint' = [endpoint EXCEPT ![host[h].runtime] =
                     IF saved # None /\ saved.pid = h THEN None ELSE saved]

\* serve() returns: the servers are closed, the endpoint is removed if its file can
\* be read and unlinked.
Close(h, removed) ==
  /\ Serving(h) /\ Stopping(h)
  /\ Step(h, "closed")
  /\ IF removed THEN Unlink(h) ELSE UNCHANGED endpoint
  /\ UNCHANGED <<launcher, launchers, lock, installer, reused, crashes>>

Release(h) ==
  /\ host[h].pc = "closed"
  /\ Step(h, "leaving")
  /\ lock' = [lock EXCEPT ![host[h].runtime] = None]
  /\ UNCHANGED <<launcher, launchers, endpoint, installer, reused, crashes>>

\* Daemon threads end with the process, not before it.
Exit(h) ==
  /\ host[h].pc = "leaving"
  /\ Ended(h)
  /\ UNCHANGED <<fileVars, installer, reused, crashes>>

\* The process is killed; the OS releases its lock, the endpoint stays.
Crash(h) ==
  /\ Running(h) /\ crashes < MaxCrashes
  /\ crashes' = crashes + 1
  /\ Ended(h)
  /\ lock' = [r \in Runtimes |-> IF lock[r] = h THEN None ELSE lock[r]]
  /\ UNCHANGED <<launcher, launchers, endpoint, installer, reused>>

\* Bound: one at a time.
ReusePid(h) ==
  /\ host[h].pc = "exited" /\ reused = {}
  /\ \E r \in Runtimes : endpoint[r] # None /\ endpoint[r].pid = h
  /\ reused' = reused \cup {h}
  /\ UNCHANGED <<fileVars, installer, host, crashes>>

FreeReused(h) ==
  /\ h \in reused
  /\ reused' = reused \ {h}
  /\ UNCHANGED <<fileVars, installer, host, crashes>>
================================================================================
