---------------------------- MODULE Routing_proofs ----------------------------
(* Proofs about HostLife and Routing, for every number of hosts, runtimes,    *)
(* installers and commands.  LifeInv is what the lock, the launcher files and *)
(* a process know of each other; RouteInv is what a command's reply says of   *)
(* the place its message has reached.  Together with the types they are       *)
(* inductive; OneHost and the refinement of RequestContract follow.           *)
EXTENDS Routing, TLAPS

\* A process that runs was started from a registered runtime; one that passed its
\* lock knows the token, and holds the lock until it releases it.
HostOK(h) ==
  /\ Running(h) => host[h].runtime \in Runtimes /\ launchers[host[h].runtime] # None
  /\ Running(h) /\ host[h].pc # "started" => host[h].token \in Installers
  /\ host[h].pc \in {"locked", "serving", "closed"} => lock[host[h].runtime] = h
  /\ host[h].writer => host[h].pc \in {"serving", "closed", "leaving"}

InstallerOK(i) ==
  /\ installer[i].pc # "start" => installer[i].token \in Installers
  /\ installer[i].pc = "written" => launchers[Registers[i]] # None

LifeInv ==
  /\ launcher # None => launchers[launcher.runtime] # None
  /\ \A i \in Installers : InstallerOK(i)
  /\ \A h \in Hosts : HostOK(h)

LifeInd == LifeTypeOK /\ LifeInv

LifeNext ==
  \/ \E i \in Installers : Register(i)
  \/ \E h \in Hosts :
       \/ EnsureHost(h) \/ Serve(h) \/ ProjectChanges(h)
       \/ \E done \in BOOLEAN : Listen(h, done) \/ Close(h, done)
       \/ CheckStopping(h) \/ WriteRegistry(h) \/ WriteDenied(h)
       \/ Decide(h) \/ RequestStop(h) \/ Release(h)
       \/ Exit(h) \/ Crash(h) \/ ReusePid(h) \/ FreeReused(h)

\* The first states satisfy the life invariant.
LEMMA InitLife == LifeInit => LifeInd
  BY HostLifeAssumption DEF LifeInit, LifeInd, LifeTypeOK, LifeInv, HostOK, InstallerOK, Process,
     NoProcess, Running, Descriptor, Endpoint

\* The updates of several or of Boolean fields keep a process well typed.
LEMMA ProcessFields ==
  ASSUME NEW p \in Process
  PROVE  /\ [p EXCEPT !.writer = FALSE] \in Process
         /\ [p EXCEPT !.writer = TRUE] \in Process
         /\ [p EXCEPT !.projects = ~p.projects] \in Process
         /\ [p EXCEPT !.writer = FALSE, !.last = p.projects] \in Process
         /\ \A t \in Installers : [p EXCEPT !.pc = "locked", !.token = t] \in Process
<1>1. [p EXCEPT !.writer = FALSE] \in Process /\ [p EXCEPT !.writer = TRUE] \in Process
  BY DEF Process
<1>2. [p EXCEPT !.projects = ~p.projects] \in Process
  BY DEF Process
<1>3. [p EXCEPT !.writer = FALSE, !.last = p.projects] \in Process
  BY DEF Process
<1>4. ASSUME NEW t \in Installers PROVE [p EXCEPT !.pc = "locked", !.token = t] \in Process
  BY DEF Process
<1> QED BY <1>1, <1>2, <1>3, <1>4

\* Registering a runtime preserves it.
LEMMA RegisterStep ==
  ASSUME LifeInd, NEW i \in Installers, Register(i)
  PROVE  LifeInd'
<1> USE HostLifeAssumption DEF LifeInd, LifeTypeOK, LifeInv, HostOK, InstallerOK, Descriptor,
        Running, Process, fileVars
<1>1. CASE ReadPrevious(i)
  BY <1>1 DEF ReadPrevious, Token
<1>2. CASE WriteDescriptor(i)
  BY <1>2 DEF WriteDescriptor
<1>3. CASE WriteLauncher(i)
  BY <1>3 DEF WriteLauncher
<1> QED BY <1>1, <1>2, <1>3 DEF Register

\* What is left to show of a step of one process: its own invariant, and that the
\* other processes keep their locks.
LEMMA HostFrame ==
  ASSUME LifeInd, NEW h \in Hosts,
         UNCHANGED <<launcher, launchers, installer>>,
         host' \in [Hosts -> Process],
         \A g \in Hosts \ {h} : host'[g] = host[g],
         lock' \in [Runtimes -> Hosts \cup {None}],
         \A g \in Hosts \ {h} : host[g].pc \in {"locked", "serving", "closed"} =>
            lock'[host[g].runtime] = lock[host[g].runtime],
         endpoint' \in [Runtimes -> Endpoint \cup {None}],
         reused' \in SUBSET Hosts, crashes' \in 0..MaxCrashes,
         HostOK(h)'
  PROVE  LifeInd'
<1>1. LifeTypeOK'
  BY DEF LifeInd, LifeTypeOK
<1>2. ASSUME NEW g \in Hosts \ {h} PROVE HostOK(g)'
  BY DEF LifeInd, LifeInv, HostOK, Running
<1>3. ASSUME NEW i \in Installers PROVE InstallerOK(i)'
  BY DEF LifeInd, LifeInv, InstallerOK
<1>4. launcher' # None => launchers'[launcher'.runtime] # None
  BY DEF LifeInd, LifeInv
<1> QED BY <1>1, <1>2, <1>3, <1>4 DEF LifeInd, LifeInv

\* A process is started, elected, and publishes its endpoint if it can be written.
LEMMA HostStarts ==
  ASSUME LifeInd, NEW h \in Hosts,
         EnsureHost(h) \/ Serve(h) \/ \E written \in BOOLEAN : Listen(h, written)
  PROVE  LifeInd'
<1>1. CASE EnsureHost(h)
  <2>1. launcher \in Descriptor /\ launchers[launcher.runtime] # None
    BY <1>1 DEF EnsureHost, LifeInd, LifeTypeOK, LifeInv
  <2>2. host' = [host EXCEPT ![h] = [NoProcess EXCEPT !.pc = "started",
                                                      !.runtime = launcher.runtime]]
    BY <1>1 DEF EnsureHost, Launch
  <2>3. host' \in [Hosts -> Process]
    BY <2>1, <2>2 DEF LifeInd, LifeTypeOK, Process, NoProcess, Descriptor
  <2>4. \A g \in Hosts \ {h} : host'[g] = host[g]
    BY <2>2 DEF LifeInd, LifeTypeOK
  <2>5. /\ host'[h].pc = "started" /\ host'[h].runtime = launcher.runtime
        /\ ~host'[h].writer
    BY <2>2 DEF LifeInd, LifeTypeOK, NoProcess
  <2>6. HostOK(h)'
    BY <1>1, <2>1, <2>5 DEF EnsureHost, Launch, Descriptor, HostOK, Running, fileVars
  <2> QED
    BY <1>1, <2>3, <2>4, <2>6, HostFrame DEF EnsureHost, Launch, LifeInd, LifeTypeOK, fileVars
<1>2. CASE Serve(h)
  <2>1. host[h].pc = "started" /\ host[h].runtime \in Runtimes /\ host[h] \in Process
    BY <1>2 DEF Serve, LifeInd, LifeTypeOK, LifeInv, HostOK, Running
  <2>2. /\ launchers[host[h].runtime] \in Installers /\ ~host[h].writer
        /\ lock \in [Runtimes -> Hosts \cup {None}] /\ host \in [Hosts -> Process]
    BY <2>1 DEF LifeInd, LifeTypeOK, LifeInv, HostOK, Running, Process
  <2>3. CASE ProcessLock(h)
    <3>1. /\ host' = [host EXCEPT ![h].pc = "locked", ![h].token = launchers[host[h].runtime]]
          /\ lock' = [lock EXCEPT ![host[h].runtime] = h]
      BY <1>2, <2>3 DEF Serve
    <3>2. host' \in [Hosts -> Process]
      <4>1. host' = [host EXCEPT ![h] = [host[h] EXCEPT !.pc = "locked",
                                          !.token = launchers[host[h].runtime]]]
        BY <2>2, <3>1
      <4> QED BY <4>1, <2>2, ProcessFields
    <3>3. \A g \in Hosts \ {h} : host'[g] = host[g]
      BY <2>2, <3>1
    <3>4. /\ host'[h].pc = "locked" /\ host'[h].token = launchers[host[h].runtime]
          /\ host'[h].runtime = host[h].runtime /\ ~host'[h].writer
      BY <2>2, <3>1 DEF Process
    <3>5. lock' \in [Runtimes -> Hosts \cup {None}] /\ lock'[host[h].runtime] = h
      BY <2>1, <2>2, <3>1
    <3>6. ASSUME NEW g \in Hosts \ {h}, host[g].pc \in {"locked", "serving", "closed"}
          PROVE  lock'[host[g].runtime] = lock[host[g].runtime]
      <4>1. lock[host[g].runtime] = g /\ host[g].runtime \in Runtimes
        BY <3>6 DEF LifeInd, LifeInv, HostOK, Running
      <4>2. host[g].runtime # host[h].runtime
        BY <4>1, <2>3, HostLifeAssumption DEF ProcessLock
      <4> QED BY <4>1, <4>2, <2>2, <3>1
    <3>7. HostOK(h)'
      BY <1>2, <2>1, <2>2, <3>4, <3>5, HostLifeAssumption DEF Serve, HostOK, Running
    <3> QED
      BY <1>2, <3>2, <3>3, <3>5, <3>6, <3>7, HostFrame DEF Serve, LifeInd, LifeTypeOK
  <2>4. CASE ~ProcessLock(h)
    <3>1. host' = [host EXCEPT ![h] = [NoProcess EXCEPT !.pc = "exited"]] /\ UNCHANGED lock
      BY <1>2, <2>4 DEF Serve, Ended
    <3>2. host' \in [Hosts -> Process]
      BY <2>2, <3>1 DEF Process, NoProcess
    <3>3. \A g \in Hosts \ {h} : host'[g] = host[g]
      BY <2>2, <3>1
    <3>4. host'[h].pc = "exited" /\ ~host'[h].writer
      BY <2>2, <3>1 DEF NoProcess
    <3>5. HostOK(h)'
      BY <3>4 DEF HostOK, Running
    <3> QED
      BY <1>2, <3>1, <3>2, <3>3, <3>5, HostFrame DEF Serve, LifeInd, LifeTypeOK
  <2> QED BY <2>3, <2>4
<1>3. CASE \E written \in BOOLEAN : Listen(h, written)
  <2>1. PICK written \in BOOLEAN : Listen(h, written)
    BY <1>3
  <2>2. PICK last \in BOOLEAN \cup {None} : host' = [host EXCEPT ![h].pc = "serving", ![h].last = last]
    <3>1. CASE written
      BY <2>1, <3>1 DEF Listen, Publish
    <3>2. CASE ~written
      <4>1. host' = [host EXCEPT ![h].pc = "serving"] /\ host[h].last \in BOOLEAN \cup {None}
        BY <2>1, <3>2 DEF Listen, Step, LifeInd, LifeTypeOK, Process
      <4>2. host' = [host EXCEPT ![h].pc = "serving", ![h].last = host[h].last]
        BY <4>1 DEF LifeInd, LifeTypeOK, Process
      <4> QED BY <4>1, <4>2
    <3> QED BY <3>1, <3>2
  <2>3. host' \in [Hosts -> Process]
    <3>1. host' = [host EXCEPT ![h] = [host[h] EXCEPT !.pc = "serving", !.last = last]]
      BY <2>2 DEF LifeInd, LifeTypeOK
    <3>2. [host[h] EXCEPT !.pc = "serving", !.last = last] \in Process
      BY <2>2 DEF LifeInd, LifeTypeOK, Process
    <3> QED BY <3>1, <3>2 DEF LifeInd, LifeTypeOK
  <2>4. \A g \in Hosts \ {h} : host'[g] = host[g]
    BY <2>2 DEF LifeInd, LifeTypeOK
  <2>5. /\ host'[h].pc = "serving" /\ host'[h].runtime = host[h].runtime
        /\ host'[h].token = host[h].token /\ host'[h].writer = host[h].writer
        /\ host'[h].projects = host[h].projects
    BY <2>2 DEF LifeInd, LifeTypeOK, Process
  <2>6. /\ host[h].pc = "locked" /\ host[h].runtime \in Runtimes
        /\ host[h].token \in Installers /\ host[h].projects \in BOOLEAN
    BY <2>1 DEF Listen, LifeInd, LifeTypeOK, LifeInv, HostOK, Running, Process
  <2>7. \/ endpoint' = endpoint
        \/ endpoint' = [endpoint EXCEPT ![host[h].runtime] =
             [pid |-> h, token |-> host[h].token, projects |-> host[h].projects]]
    BY <2>1, <2>5 DEF Listen, Publish, LifeInd, LifeTypeOK, Process
  <2>8. endpoint' \in [Runtimes -> Endpoint \cup {None}]
    BY <2>6, <2>7 DEF Endpoint, LifeInd, LifeTypeOK
  <2>9. HostOK(h)'
    BY <2>1, <2>5, <2>6 DEF Listen, LifeInd, LifeInv, HostOK, Running
  <2> QED
    BY <2>1, <2>3, <2>4, <2>8, <2>9, HostFrame DEF Listen, LifeInd, LifeTypeOK
<1> QED BY <1>1, <1>2, <1>3

\* The endpoint is written again, or not.
LEMMA HostWrites ==
  ASSUME LifeInd, NEW h \in Hosts,
         ProjectChanges(h) \/ CheckStopping(h) \/ WriteRegistry(h) \/ WriteDenied(h)
  PROVE  LifeInd'
<1>1. CASE ProjectChanges(h)
  <2>1. host' \in [Hosts -> Process]
    <3>1. host' = [host EXCEPT ![h] = [host[h] EXCEPT !.projects = ~host[h].projects]]
      BY <1>1 DEF ProjectChanges, LifeInd, LifeTypeOK
    <3> QED BY <3>1, ProcessFields DEF LifeInd, LifeTypeOK
  <2>2. \A g \in Hosts \ {h} : host'[g] = host[g]
    BY <1>1 DEF ProjectChanges, LifeInd, LifeTypeOK, Process
  <2>3. /\ host'[h].pc = host[h].pc /\ host'[h].runtime = host[h].runtime
        /\ host'[h].token = host[h].token /\ host'[h].writer = host[h].writer
    BY <1>1 DEF ProjectChanges, LifeInd, LifeTypeOK, Process
  <2>4. HostOK(h)'
    BY <1>1, <2>3 DEF ProjectChanges, LifeInd, LifeInv, HostOK, Running, fileVars
  <2> QED
    BY <1>1, <2>1, <2>2, <2>4, HostFrame
       DEF ProjectChanges, LifeInd, LifeTypeOK, fileVars
<1>2. CASE CheckStopping(h)
  <2>1. host' \in [Hosts -> Process]
    <3>1. host' = [host EXCEPT ![h] = [host[h] EXCEPT !.writer = TRUE]]
      BY <1>2 DEF CheckStopping, Serving, LifeInd, LifeTypeOK
    <3> QED BY <3>1, ProcessFields DEF LifeInd, LifeTypeOK
  <2>2. \A g \in Hosts \ {h} : host'[g] = host[g]
    BY <1>2 DEF CheckStopping, Serving, LifeInd, LifeTypeOK, Process
  <2>3. /\ host'[h].pc = host[h].pc /\ host'[h].runtime = host[h].runtime
        /\ host'[h].token = host[h].token /\ host[h].pc = "serving"
    BY <1>2 DEF CheckStopping, Serving, LifeInd, LifeTypeOK, Process
  <2>4. HostOK(h)'
    BY <1>2, <2>3 DEF CheckStopping, Serving, LifeInd, LifeInv, HostOK, Running, fileVars
  <2> QED
    BY <1>2, <2>1, <2>2, <2>4, HostFrame
       DEF CheckStopping, Serving, LifeInd, LifeTypeOK, fileVars
<1>3. CASE WriteRegistry(h)
  <2>1. /\ host[h].pc \in {"serving", "closed", "leaving"} /\ host[h].runtime \in Runtimes
        /\ host[h].token \in Installers /\ host[h].projects \in BOOLEAN
    BY <1>3 DEF WriteRegistry, LifeInd, LifeTypeOK, LifeInv, HostOK, Running, Process
  <2>2. \/ host' = [host EXCEPT ![h].writer = FALSE, ![h].last = host[h].projects]
        \/ host' = [host EXCEPT ![h].writer = FALSE]
    BY <1>3 DEF WriteRegistry, Publish
  <2>3. host' \in [Hosts -> Process]
    <3>1. CASE host' = [host EXCEPT ![h].writer = FALSE, ![h].last = host[h].projects]
      <4>1. host' = [host EXCEPT ![h] = [host[h] EXCEPT !.writer = FALSE,
                                                        !.last = host[h].projects]]
        BY <3>1 DEF LifeInd, LifeTypeOK
      <4> QED BY <4>1, ProcessFields DEF LifeInd, LifeTypeOK
    <3>2. CASE host' = [host EXCEPT ![h].writer = FALSE]
      <4>1. host' = [host EXCEPT ![h] = [host[h] EXCEPT !.writer = FALSE]]
        BY <3>2 DEF LifeInd, LifeTypeOK
      <4> QED BY <4>1, ProcessFields DEF LifeInd, LifeTypeOK
    <3> QED BY <2>2, <3>1, <3>2
  <2>4. \A g \in Hosts \ {h} : host'[g] = host[g]
    BY <2>2 DEF LifeInd, LifeTypeOK
  <2>5. /\ host'[h].pc = host[h].pc /\ host'[h].runtime = host[h].runtime
        /\ host'[h].token = host[h].token /\ ~host'[h].writer
    BY <2>2 DEF LifeInd, LifeTypeOK, Process
  <2>6. endpoint' = endpoint \/ endpoint' = [endpoint EXCEPT ![host[h].runtime] =
          [pid |-> h, token |-> host[h].token, projects |-> host[h].projects]]
    <3>1. CASE host[h].projects # host[h].last
      <4>1. [host EXCEPT ![h].writer = FALSE, ![h].last = host[h].projects][h].token = host[h].token
        BY DEF LifeInd, LifeTypeOK, Process
      <4>2. [host EXCEPT ![h].writer = FALSE, ![h].last = host[h].projects][h].projects
              = host[h].projects
        BY DEF LifeInd, LifeTypeOK, Process
      <4> QED BY <1>3, <3>1, <4>1, <4>2 DEF WriteRegistry, Publish
    <3>2. CASE ~(host[h].projects # host[h].last)
      BY <1>3, <3>2 DEF WriteRegistry
    <3> QED BY <3>1, <3>2
  <2>7. endpoint' \in [Runtimes -> Endpoint \cup {None}]
    BY <2>1, <2>6 DEF Endpoint, LifeInd, LifeTypeOK
  <2>8. HostOK(h)'
    BY <1>3, <2>5 DEF WriteRegistry, LifeInd, LifeInv, HostOK, Running
  <2> QED
    BY <1>3, <2>3, <2>4, <2>7, <2>8, HostFrame DEF WriteRegistry, LifeInd, LifeTypeOK
<1>4. CASE WriteDenied(h)
  <2>1. host' \in [Hosts -> Process]
    <3>1. host' = [host EXCEPT ![h] = [host[h] EXCEPT !.writer = FALSE]]
      BY <1>4 DEF WriteDenied, LifeInd, LifeTypeOK
    <3> QED BY <3>1, ProcessFields DEF LifeInd, LifeTypeOK
  <2>2. \A g \in Hosts \ {h} : host'[g] = host[g]
    BY <1>4 DEF WriteDenied, LifeInd, LifeTypeOK, Process
  <2>3. /\ host'[h].pc = host[h].pc /\ host'[h].runtime = host[h].runtime
        /\ host'[h].token = host[h].token /\ ~host'[h].writer
    BY <1>4 DEF WriteDenied, LifeInd, LifeTypeOK, Process
  <2>4. HostOK(h)'
    BY <1>4, <2>3 DEF WriteDenied, LifeInd, LifeInv, HostOK, Running, fileVars
  <2> QED
    BY <1>4, <2>1, <2>2, <2>4, HostFrame
       DEF WriteDenied, LifeInd, LifeTypeOK, fileVars
<1> QED BY <1>1, <1>2, <1>3, <1>4

\* A host decides to stop, stops, and its process ends.
LEMMA HostStops ==
  ASSUME LifeInd, NEW h \in Hosts,
         \/ Decide(h) \/ RequestStop(h) \/ (\E removed \in BOOLEAN : Close(h, removed)) \/ Release(h)
         \/ Exit(h) \/ Crash(h) \/ ReusePid(h) \/ FreeReused(h)
  PROVE  LifeInd'
<1>1. CASE Decide(h)
  <2>1. host' \in [Hosts -> Process]
    BY <1>1 DEF Decide, LifeInd, LifeTypeOK, Process
  <2>2. \A g \in Hosts \ {h} : host'[g] = host[g]
    BY <1>1 DEF Decide, LifeInd, LifeTypeOK, Process
  <2>3. /\ host'[h].pc = host[h].pc /\ host'[h].runtime = host[h].runtime
        /\ host'[h].token = host[h].token /\ host'[h].writer = host[h].writer
    BY <1>1 DEF Decide, LifeInd, LifeTypeOK, Process
  <2>4. HostOK(h)'
    BY <1>1, <2>3 DEF Decide, LifeInd, LifeInv, HostOK, Running, fileVars
  <2> QED
    BY <1>1, <2>1, <2>2, <2>4, HostFrame
       DEF Decide, LifeInd, LifeTypeOK, fileVars
<1>2. CASE RequestStop(h)
  <2>1. host' \in [Hosts -> Process]
    BY <1>2 DEF RequestStop, LifeInd, LifeTypeOK, Process
  <2>2. \A g \in Hosts \ {h} : host'[g] = host[g]
    BY <1>2 DEF RequestStop, LifeInd, LifeTypeOK, Process
  <2>3. /\ host'[h].pc = host[h].pc /\ host'[h].runtime = host[h].runtime
        /\ host'[h].token = host[h].token /\ host'[h].writer = host[h].writer
    BY <1>2 DEF RequestStop, LifeInd, LifeTypeOK, Process
  <2>4. HostOK(h)'
    BY <1>2, <2>3 DEF RequestStop, LifeInd, LifeInv, HostOK, Running, fileVars
  <2> QED
    BY <1>2, <2>1, <2>2, <2>4, HostFrame
       DEF RequestStop, LifeInd, LifeTypeOK, fileVars
<1>3. CASE \E removed \in BOOLEAN : Close(h, removed)
  <2>1. host' \in [Hosts -> Process]
    BY <1>3 DEF Close, Step, Serving, LifeInd, LifeTypeOK, Process
  <2>2. \A g \in Hosts \ {h} : host'[g] = host[g]
    BY <1>3 DEF Close, Step, Serving, LifeInd, LifeTypeOK, Process
  <2>3. /\ host'[h].pc = "closed" /\ host[h].pc = "serving"
        /\ host'[h].runtime = host[h].runtime /\ host'[h].token = host[h].token
        /\ host'[h].writer = host[h].writer
    BY <1>3 DEF Close, Step, Serving, LifeInd, LifeTypeOK, Process
  <2>4. endpoint' \in [Runtimes -> Endpoint \cup {None}]
    BY <1>3 DEF Close, Unlink, LifeInd, LifeTypeOK
  <2>5. HostOK(h)'
    BY <1>3, <2>3 DEF Close, Step, Serving, LifeInd, LifeInv, HostOK, Running, fileVars
  <2> QED
    BY <1>3, <2>1, <2>2, <2>4, <2>5, HostFrame
       DEF Close, Step, Serving, LifeInd, LifeTypeOK, fileVars
<1>4. CASE Release(h)
  <2>1. host' \in [Hosts -> Process]
    <3>1. host \in [Hosts -> Process]
      BY DEF LifeInd, LifeTypeOK
    <3>2. \A p \in Process : [p EXCEPT !.pc = "leaving"] \in Process
      BY DEF Process
    <3>3. host' = [host EXCEPT ![h] = [host[h] EXCEPT !.pc = "leaving"]]
      BY <1>4 DEF Release, Step
    <3> QED BY ONLY h \in Hosts, <3>1, <3>2, <3>3
  <2>2. \A g \in Hosts \ {h} : host'[g] = host[g]
    BY <1>4 DEF Release, Step, LifeInd, LifeTypeOK, Process
  <2>3. /\ host'[h].pc = "leaving" /\ host[h].pc = "closed"
        /\ host'[h].runtime = host[h].runtime /\ host'[h].token = host[h].token
        /\ host'[h].writer = host[h].writer
    BY <1>4 DEF Release, Step, LifeInd, LifeTypeOK, Process
  <2>4. lock' \in [Runtimes -> Hosts \cup {None}]
    BY <1>4 DEF Release, LifeInd, LifeTypeOK
  <2>5. ASSUME NEW g \in Hosts \ {h}, host[g].pc \in {"locked", "serving", "closed"}
        PROVE  lock'[host[g].runtime] = lock[host[g].runtime]
    BY <1>4, <2>3, <2>5, HostLifeAssumption DEF Release, LifeInd, LifeTypeOK, LifeInv, HostOK, Running
  <2>6. HostOK(h)'
    BY <1>4, <2>3 DEF Release, Step, LifeInd, LifeInv, HostOK, Running, fileVars
  <2> QED
    BY <1>4, <2>1, <2>2, <2>4, <2>5, <2>6, HostFrame
       DEF Release, Step, LifeInd, LifeTypeOK, fileVars
<1>5. CASE Exit(h)
  <2>1. host' \in [Hosts -> Process]
    BY <1>5 DEF Exit, Ended, NoProcess, LifeInd, LifeTypeOK, Process
  <2>2. \A g \in Hosts \ {h} : host'[g] = host[g]
    BY <1>5 DEF Exit, Ended, NoProcess, LifeInd, LifeTypeOK, Process
  <2>3. host'[h].pc = "exited" /\ ~host'[h].writer
    BY <1>5 DEF Exit, Ended, NoProcess, LifeInd, LifeTypeOK, Process
  <2>4. HostOK(h)'
    BY <1>5, <2>3 DEF Exit, Ended, NoProcess, LifeInd, LifeInv, HostOK, Running, fileVars
  <2> QED
    BY <1>5, <2>1, <2>2, <2>4, HostFrame
       DEF Exit, Ended, NoProcess, LifeInd, LifeTypeOK, fileVars
<1>6. CASE Crash(h)
  <2>1. host' \in [Hosts -> Process]
    BY <1>6 DEF Crash, Ended, NoProcess, LifeInd, LifeTypeOK, Process
  <2>2. \A g \in Hosts \ {h} : host'[g] = host[g]
    BY <1>6 DEF Crash, Ended, NoProcess, LifeInd, LifeTypeOK, Process
  <2>3. host'[h].pc = "exited" /\ ~host'[h].writer
    BY <1>6 DEF Crash, Ended, NoProcess, LifeInd, LifeTypeOK, Process
  <2>4. lock' \in [Runtimes -> Hosts \cup {None}]
    BY <1>6 DEF Crash, LifeInd, LifeTypeOK
  <2>5. ASSUME NEW g \in Hosts \ {h}, host[g].pc \in {"locked", "serving", "closed"}
        PROVE  lock'[host[g].runtime] = lock[host[g].runtime]
    BY <1>6, <2>5, HostLifeAssumption DEF Crash, LifeInd, LifeTypeOK, LifeInv, HostOK, Running
  <2>6. crashes' \in 0..MaxCrashes
    BY <1>6, HostLifeAssumption DEF Crash, LifeInd, LifeTypeOK
  <2>7. HostOK(h)'
    BY <1>6, <2>3 DEF Crash, Ended, NoProcess, LifeInd, LifeInv, HostOK, Running, fileVars
  <2> QED
    BY <1>6, <2>1, <2>2, <2>4, <2>5, <2>6, <2>7, HostFrame
       DEF Crash, Ended, NoProcess, LifeInd, LifeTypeOK, fileVars
<1>7. CASE ReusePid(h)
  BY <1>7 DEF ReusePid, LifeInd, LifeTypeOK, LifeInv, HostOK, InstallerOK, Running, fileVars
<1>8. CASE FreeReused(h)
  BY <1>8 DEF FreeReused, LifeInd, LifeTypeOK, LifeInv, HostOK, InstallerOK, Running, fileVars
<1> QED BY <1>1, <1>2, <1>3, <1>4, <1>5, <1>6, <1>7, <1>8

\* So does every step of HostLife.
LEMMA LifeStep ==
  ASSUME LifeInd, LifeNext PROVE LifeInd'
  BY RegisterStep, HostStarts, HostWrites, HostStops DEF LifeNext

--------------------------------------------------------------------------------
(* Commands.                                                                  *)

\* A command that is not yet on its way has no message; Unity ran it once exactly
\* when the message says so; what was replied, and what the caller was told, agree
\* with where the message is.
RouteOK(k) ==
  /\ client[k].pc \in {"idle", "connect", "full", "post", "direct"} =>
        message[k].place = "none" /\ message[k].reply = None
  /\ executed[k] = IF message[k].place = "ran" THEN 1 ELSE 0
  /\ client[k].outcome # None <=> client[k].pc = "returned"
  /\ message[k].reply = "result" => message[k].place = "ran"
  /\ message[k].reply = "not_started" => message[k].place = "gone"
  /\ client[k].outcome = "result" => message[k].place = "ran"
  /\ client[k].outcome = "not_started" => message[k].place \in {"none", "gone"}

RouteTypeOK ==
  /\ plan \in Plans /\ due \in BOOLEAN
  /\ client \in [Clients -> ClientState]
  /\ message \in [Clients -> MessageState]
  /\ executed \in [Clients -> Nat]

RouteInv == \A k \in Clients : RouteOK(k)

RouteInd == RouteTypeOK /\ RouteInv

\* What a step of command k leaves alone.
OnlyOf(k) ==
  /\ plan' = plan /\ due' \in BOOLEAN
  /\ client' \in [Clients -> ClientState]
  /\ message' \in [Clients -> MessageState]
  /\ executed' \in [Clients -> Nat]
  /\ \A j \in Clients \ {k} : /\ client'[j] = client[j] /\ message'[j] = message[j]
                              /\ executed'[j] = executed[j]

\* What the contract sees of it: nothing, an answer, or the command being run.
Answered(k) ==
  \/ client'[k].outcome = client[k].outcome /\ executed'[k] = executed[k]
  \/ /\ client[k].outcome = None /\ client'[k].outcome \in Outcomes
     /\ executed'[k] = executed[k]
     /\ client'[k].outcome = "result" => executed[k] = 1
     /\ client'[k].outcome = "not_started" => executed[k] = 0
  \/ /\ client'[k].outcome = client[k].outcome /\ client[k].outcome \in {None, "unknown"}
     /\ executed[k] = 0 /\ executed'[k] = 1

\* A client goes on to another place.
LEMMA ClientGo ==
  ASSUME client \in [Clients -> ClientState], NEW k \in Clients,
         NEW pc \in {"connect", "framed", "full", "post", "posted", "direct", "sent"}, Go(k, pc)
  PROVE  /\ client' \in [Clients -> ClientState]
         /\ \A j \in Clients \ {k} : client'[j] = client[j]
         /\ client'[k].pc = pc /\ client'[k].outcome = client[k].outcome
  BY DEF Go, ClientState

\* A client goes to a host.
LEMMA ClientGoTo ==
  ASSUME client \in [Clients -> ClientState], NEW k \in Clients,
         NEW pc \in {"connect", "post", "direct"}, NEW h \in Hosts \cup {None}, GoTo(k, pc, h)
  PROVE  /\ client' \in [Clients -> ClientState]
         /\ \A j \in Clients \ {k} : client'[j] = client[j]
         /\ client'[k].pc = pc /\ client'[k].outcome = client[k].outcome
  BY DEF GoTo, ClientState

\* A client returns.
LEMMA ClientReturn ==
  ASSUME client \in [Clients -> ClientState], NEW k \in Clients, NEW o \in Outcomes, Return(k, o)
  PROVE  /\ client' \in [Clients -> ClientState]
         /\ \A j \in Clients \ {k} : client'[j] = client[j]
         /\ client'[k].pc = "returned" /\ client'[k].outcome = o
  BY DEF Return, ClientState

\* A message is moved.
LEMMA MessagePut ==
  ASSUME message \in [Clients -> MessageState], NEW k \in Clients,
         NEW place \in {"cli", "http", "unity", "ran", "gone"}, Put(k, place)
  PROVE  /\ message' \in [Clients -> MessageState]
         /\ \A j \in Clients \ {k} : message'[j] = message[j]
         /\ message'[k].place = place /\ message'[k].reply = message[k].reply
         /\ message'[k].job = message[k].job
<1>1. [message[k] EXCEPT !.place = place] \in MessageState
  BY DEF MessageState
<1>2. message' = [message EXCEPT ![k] = [message[k] EXCEPT !.place = place]]
  BY DEF Put
<1> QED BY <1>1, <1>2 DEF MessageState

\* A message is answered, unless it was, or its carrier is dead.
LEMMA MessageReply ==
  ASSUME message \in [Clients -> MessageState], NEW k \in Clients,
         NEW place \in {"cli", "http", "unity", "ran", "gone"}, NEW o \in Outcomes,
         Reply(k, place, o)
  PROVE  /\ message' \in [Clients -> MessageState]
         /\ \A j \in Clients \ {k} : message'[j] = message[j]
         /\ message'[k].place = place
         /\ \/ message'[k].reply = message[k].reply
            \/ message[k].reply = None /\ message'[k].reply = o
         /\ message'[k].job = message[k].job
<1> DEFINE p == IF message[k].reply = None /\ Carried(k) THEN o ELSE message[k].reply
<1>1. p \in Outcomes \cup {None}
  BY DEF MessageState
<1>2. [message[k] EXCEPT !.place = place, !.reply = p] \in MessageState
  BY <1>1 DEF MessageState
<1>3. message' = [message EXCEPT ![k] = [message[k] EXCEPT !.place = place, !.reply = p]]
  BY DEF Reply
<1> QED BY <1>2, <1>3 DEF MessageState

\* A host accepts a message as a job.
LEMMA MessageJob ==
  ASSUME message \in [Clients -> MessageState], NEW k \in Clients, AcceptJob(k)
  PROVE  /\ message' \in [Clients -> MessageState]
         /\ \A j \in Clients \ {k} : message'[j] = message[j]
         /\ message'[k].place = "job" /\ message'[k].reply = message[k].reply
         /\ message'[k].job = TRUE
<1>1. [message[k] EXCEPT !.place = "job", !.job = TRUE] \in MessageState
  BY DEF MessageState
<1>2. message' = [message EXCEPT ![k] = [message[k] EXCEPT !.place = "job", !.job = TRUE]]
  BY DEF AcceptJob
<1> QED BY <1>1, <1>2 DEF MessageState

\* The command line moves its own command only, and answers it honestly.
LEMMA CommandStep ==
  ASSUME LifeTypeOK, RouteInd, NEW k \in Clients, Command(k)
  PROVE  OnlyOf(k) /\ RouteOK(k)' /\ Answered(k)
<1>type. /\ client \in [Clients -> ClientState] /\ message \in [Clients -> MessageState]
         /\ executed \in [Clients -> Nat] /\ plan \in Plans /\ due \in BOOLEAN
  BY DEF RouteInd, RouteTypeOK
<1>ok. RouteOK(k)
  BY DEF RouteInd, RouteInv
<1>pid. Registered(launcher) # None => Registered(launcher).pid \in Hosts \cup {None}
  BY DEF Registered, LifeTypeOK, Endpoint, Descriptor
<1>out. {"result", "not_started", "unknown"} = Outcomes /\ None \notin Outcomes
  BY RoutingAssumption DEF Outcomes
<1>1. CASE Start(k)
  <2>1. /\ client' \in [Clients -> ClientState]
        /\ \A j \in Clients \ {k} : client'[j] = client[j]
        /\ client'[k].pc \in {"connect", "full"} /\ client'[k].outcome = client[k].outcome
    BY <1>1, <1>type, <1>pid, ClientGo, ClientGoTo DEF Start
  <2> QED
    BY <1>1, <1>type, <1>ok, <2>1 DEF Start, OnlyOf, RouteOK, Answered
<1>2. CASE FallBack(k)
  <2>1. /\ client' \in [Clients -> ClientState]
        /\ \A j \in Clients \ {k} : client'[j] = client[j]
        /\ client'[k].pc = "full" /\ client'[k].outcome = client[k].outcome
    BY <1>2, <1>type, ClientGo DEF FallBack
  <2> QED
    BY <1>2, <1>type, <1>ok, <2>1 DEF FallBack, OnlyOf, RouteOK, Answered
<1>3. CASE WriteFrame(k)
  <2>1. /\ client' \in [Clients -> ClientState]
        /\ \A j \in Clients \ {k} : client'[j] = client[j]
        /\ client'[k].pc = "framed" /\ client'[k].outcome = client[k].outcome
    BY <1>3, <1>type, ClientGo DEF WriteFrame
  <2>2. /\ message' \in [Clients -> MessageState]
        /\ \A j \in Clients \ {k} : message'[j] = message[j]
        /\ message'[k].place = "cli" /\ message'[k].reply = message[k].reply
    BY <1>3, <1>type, MessagePut DEF WriteFrame
  <2> QED
    BY <1>3, <1>type, <1>ok, <2>1, <2>2 DEF WriteFrame, OnlyOf, RouteOK, Answered
<1>4. CASE RunFull(k)
  <2>1. /\ client' \in [Clients -> ClientState]
        /\ \A j \in Clients \ {k} : client'[j] = client[j]
        /\ \/ client'[k].pc \in {"post", "direct"} /\ client'[k].outcome = client[k].outcome
           \/ client'[k].pc = "returned" /\ client'[k].outcome = "not_started"
    BY <1>4, <1>type, <1>pid, <1>out, ClientGoTo, ClientReturn DEF RunFull, ViaHost
  <2>2. due' \in BOOLEAN
    BY <1>4, <1>type DEF RunFull, UpdateNotice
  <2> QED
    BY <1>4, <1>type, <1>ok, <1>out, <2>1, <2>2 DEF RunFull, OnlyOf, RouteOK, Answered
<1>5. CASE Post(k)
  <2>1. CASE Serving(client[k].host)
    <3>1. /\ client' \in [Clients -> ClientState]
          /\ \A j \in Clients \ {k} : client'[j] = client[j]
          /\ client'[k].pc = "posted" /\ client'[k].outcome = client[k].outcome
      BY <1>5, <2>1, <1>type, ClientGo DEF Post
    <3>2. /\ message' \in [Clients -> MessageState]
          /\ \A j \in Clients \ {k} : message'[j] = message[j]
          /\ message'[k].place = "http" /\ message'[k].reply = message[k].reply
      BY <1>5, <2>1, <1>type, MessagePut DEF Post
    <3> QED
      BY <1>5, <1>type, <1>ok, <3>1, <3>2 DEF Post, OnlyOf, RouteOK, Answered
  <2>2. CASE ~Serving(client[k].host)
    <3>1. /\ client' \in [Clients -> ClientState]
          /\ \A j \in Clients \ {k} : client'[j] = client[j]
          /\ client'[k].pc = "returned" /\ client'[k].outcome = "unknown"
      BY <1>5, <2>2, <1>type, <1>out, ClientReturn DEF Post
    <3> QED
      BY <1>5, <2>2, <1>type, <1>ok, <1>out, <3>1 DEF Post, OnlyOf, RouteOK, Answered
  <2> QED BY <2>1, <2>2
<1>6. CASE SendDirect(k)
  <2>1. CASE Go(k, "sent") /\ Put(k, "unity")
    <3>1. /\ client' \in [Clients -> ClientState]
          /\ \A j \in Clients \ {k} : client'[j] = client[j]
          /\ client'[k].pc = "sent" /\ client'[k].outcome = client[k].outcome
      BY <2>1, <1>type, ClientGo
    <3>2. /\ message' \in [Clients -> MessageState]
          /\ \A j \in Clients \ {k} : message'[j] = message[j]
          /\ message'[k].place = "unity" /\ message'[k].reply = message[k].reply
      BY <2>1, <1>type, MessagePut
    <3> QED
      BY <1>6, <1>type, <1>ok, <3>1, <3>2 DEF SendDirect, OnlyOf, RouteOK, Answered
  <2>2. CASE Return(k, "unknown") /\ UNCHANGED message
    <3>1. /\ client' \in [Clients -> ClientState]
          /\ \A j \in Clients \ {k} : client'[j] = client[j]
          /\ client'[k].pc = "returned" /\ client'[k].outcome = "unknown"
      BY <2>2, <1>type, <1>out, ClientReturn
    <3> QED
      BY <1>6, <2>2, <1>type, <1>ok, <1>out, <3>1 DEF SendDirect, OnlyOf, RouteOK, Answered
  <2> QED BY <1>6, <2>1, <2>2 DEF SendDirect
<1>7. CASE Receive(k)
  <2>1. message[k].reply \in Outcomes
    BY <1>7, <1>type DEF Receive, MessageState
  <2>2. /\ client' \in [Clients -> ClientState]
        /\ \A j \in Clients \ {k} : client'[j] = client[j]
        /\ client'[k].pc = "returned" /\ client'[k].outcome = message[k].reply
    BY <1>7, <1>type, <2>1, ClientReturn DEF Receive
  <2> QED
    BY <1>7, <1>type, <1>ok, <1>out, <2>1, <2>2 DEF Receive, Waiting, OnlyOf, RouteOK, Answered
<1>8. CASE Lost(k)
  <2>1. /\ client' \in [Clients -> ClientState]
        /\ \A j \in Clients \ {k} : client'[j] = client[j]
        /\ client'[k].pc = "returned" /\ client'[k].outcome = "unknown"
    BY <1>8, <1>type, <1>out, ClientReturn DEF Lost
  <2> QED
    BY <1>8, <1>type, <1>ok, <1>out, <2>1 DEF Lost, Waiting, OnlyOf, RouteOK, Answered
<1> QED BY <1>1, <1>2, <1>3, <1>4, <1>5, <1>6, <1>7, <1>8 DEF Command

\* So do the host and Unity; only Unity runs it, and only from its own place.
LEMMA InHostStep ==
  ASSUME RouteInd, NEW k \in Clients, InHost(k)
  PROVE  OnlyOf(k) /\ RouteOK(k)' /\ Answered(k)
<1>type. /\ client \in [Clients -> ClientState] /\ message \in [Clients -> MessageState]
         /\ executed \in [Clients -> Nat] /\ plan \in Plans /\ due \in BOOLEAN
  BY DEF RouteInd, RouteTypeOK
<1>ok. RouteOK(k)
  BY DEF RouteInd, RouteInv
<1>out. {"result", "not_started", "unknown"} = Outcomes /\ None \notin Outcomes
  BY RoutingAssumption DEF Outcomes
\* What follows when the message alone moves, and not from or to where Unity ran it.
<1>move. ASSUME message' \in [Clients -> MessageState],
                \A j \in Clients \ {k} : message'[j] = message[j],
                UNCHANGED <<plan, client, executed, due>>,
                message[k].place # "none", message'[k].place # "none",
                message[k].place = "ran" <=> message'[k].place = "ran",
                message[k].place = "gone" <=> message'[k].place = "gone",
                \/ message'[k].reply = message[k].reply
                \/ message[k].reply = None /\ message'[k].reply = "unknown"
         PROVE  OnlyOf(k) /\ RouteOK(k)' /\ Answered(k)
  BY <1>type, <1>ok, <1>out, <1>move DEF OnlyOf, RouteOK, Answered
\* A refusal: Unity was not asked and is not.
<1>refuse. ASSUME Reply(k, "gone", "not_started"), message[k].place \in {"cli", "http", "job", "unity"},
                  UNCHANGED <<plan, client, executed, due>>
           PROVE  OnlyOf(k) /\ RouteOK(k)' /\ Answered(k)
  <2>1. /\ message' \in [Clients -> MessageState]
        /\ \A j \in Clients \ {k} : message'[j] = message[j]
        /\ message'[k].place = "gone"
        /\ \/ message'[k].reply = message[k].reply
           \/ message[k].reply = None /\ message'[k].reply = "not_started"
    BY <1>refuse, <1>type, <1>out, MessageReply
  <2> QED
    BY <1>refuse, <1>type, <1>ok, <1>out, <2>1 DEF OnlyOf, RouteOK, Answered
<1>job. ASSUME AcceptJob(k), message[k].place \in {"cli", "http"},
               UNCHANGED <<plan, client, executed, due>>
        PROVE  OnlyOf(k) /\ RouteOK(k)' /\ Answered(k)
  BY <1>job, <1>move, <1>type, MessageJob
<1>unity. ASSUME Put(k, "unity"), message[k].place \in {"cli", "job"},
                 UNCHANGED <<plan, client, executed, due>>
          PROVE  OnlyOf(k) /\ RouteOK(k)' /\ Answered(k)
  <2>1. /\ message' \in [Clients -> MessageState]
        /\ \A j \in Clients \ {k} : message'[j] = message[j]
        /\ message'[k].place = "unity" /\ message'[k].reply = message[k].reply
    BY <1>unity, <1>type, MessagePut
  <2> QED BY <1>unity, <1>move, <2>1
<1>1. CASE ServeCli(k)
  BY <1>1, <1>refuse, <1>job, <1>unity DEF ServeCli
<1>2. CASE ServePost(k)
  BY <1>2, <1>refuse, <1>job DEF ServePost
<1>3. CASE JobRefused(k)
  BY <1>3, <1>refuse DEF JobRefused
<1>4. CASE JobForwarded(k)
  BY <1>4, <1>unity DEF JobForwarded
<1>5. CASE UnityRuns(k)
  <2>1. /\ message' \in [Clients -> MessageState]
        /\ \A j \in Clients \ {k} : message'[j] = message[j]
        /\ message'[k].place = "ran" /\ message'[k].reply = message[k].reply
    BY <1>5, <1>type, MessagePut DEF UnityRuns
  <2>2. /\ executed' \in [Clients -> Nat]
        /\ \A j \in Clients \ {k} : executed'[j] = executed[j]
        /\ executed'[k] = executed[k] + 1
    BY <1>5, <1>type DEF UnityRuns
  <2>3. executed[k] = 0 /\ client[k].outcome \in {None, "unknown"}
    BY <1>5, <1>type, <1>ok, <1>out DEF UnityRuns, RouteOK, ClientState
  <2> QED
    BY <1>5, <1>type, <1>ok, <1>out, <2>1, <2>2, <2>3 DEF UnityRuns, OnlyOf, RouteOK, Answered
<1>6. CASE UnityRefuses(k)
  BY <1>6, <1>refuse DEF UnityRefuses
<1>7. CASE UnityAnswers(k)
  <2>1. /\ message' \in [Clients -> MessageState]
        /\ \A j \in Clients \ {k} : message'[j] = message[j]
        /\ message'[k].place = "ran"
        /\ message'[k].reply \in {None, "result"}
    BY <1>7, <1>type, <1>out, MessageReply DEF UnityAnswers
  <2> QED
    BY <1>7, <1>type, <1>ok, <1>out, <2>1 DEF UnityAnswers, OnlyOf, RouteOK, Answered
<1>8. CASE HostUnknown(k)
  <2>1. /\ message' \in [Clients -> MessageState]
        /\ \A j \in Clients \ {k} : message'[j] = message[j]
        /\ message'[k].place = message[k].place
        /\ \/ message'[k].reply = message[k].reply
           \/ message[k].reply = None /\ message'[k].reply = "unknown"
    BY <1>8, <1>type, <1>out, MessageReply DEF HostUnknown
  <2> QED BY <1>8, <1>move, <2>1 DEF HostUnknown
<1> QED BY <1>1, <1>2, <1>3, <1>4, <1>5, <1>6, <1>7, <1>8 DEF InHost

\* A step of one command preserves the route invariant and is a step of the contract.
LEMMA RouteOfOne ==
  ASSUME RouteInd, NEW k \in Clients, OnlyOf(k), RouteOK(k)', Answered(k)
  PROVE  RouteInd' /\ [Contract!Next]_(Contract!vars)
<1>1. RouteTypeOK'
  BY DEF OnlyOf, RouteInd, RouteTypeOK
<1>2. ASSUME NEW j \in Clients \ {k} PROVE RouteOK(j)'
  BY DEF OnlyOf, RouteInd, RouteInv, RouteOK
<1>3. RouteInd'
  BY <1>1, <1>2 DEF RouteInd, RouteInv
<1>type. client \in [Clients -> ClientState] /\ executed \in [Clients -> Nat]
         /\ client' \in [Clients -> ClientState] /\ executed' \in [Clients -> Nat]
  BY DEF OnlyOf, RouteInd, RouteTypeOK
<1> DEFINE out == [j \in Clients |-> client[j].outcome]
<1>same. ASSUME client'[k].outcome = client[k].outcome PROVE UNCHANGED out
  BY <1>same DEF OnlyOf
<1>4. CASE client'[k].outcome = client[k].outcome /\ executed'[k] = executed[k]
  <2>1. executed' = executed
    BY <1>4, <1>type DEF OnlyOf
  <2> QED BY <1>3, <1>4, <1>same, <2>1 DEF Contract!vars
<1>5. CASE /\ client[k].outcome = None /\ client'[k].outcome \in Outcomes
           /\ executed'[k] = executed[k]
           /\ client'[k].outcome = "result" => executed[k] = 1
           /\ client'[k].outcome = "not_started" => executed[k] = 0
  <2>1. executed' = executed
    BY <1>5, <1>type DEF OnlyOf
  <2>2. PICK o \in Outcomes : client'[k].outcome = o
    BY <1>5
  <2>3. out' = [out EXCEPT ![k] = o]
    BY <2>2 DEF OnlyOf
  <2>4. o \in Contract!Outcomes \ {None}
    BY RoutingAssumption DEF Outcomes, Contract!Outcomes
  <2>5. Contract!Answer(k, o)
    BY <1>5, <2>1, <2>2, <2>3 DEF Contract!Answer
  <2> QED BY <1>3, <2>4, <2>5 DEF Contract!Next
<1>6. CASE /\ client'[k].outcome = client[k].outcome /\ client[k].outcome \in {None, "unknown"}
           /\ executed[k] = 0 /\ executed'[k] = 1
  <2>1. executed' = [executed EXCEPT ![k] = 1]
    BY <1>6, <1>type DEF OnlyOf
  <2>2. Contract!Execute(k)
    BY <1>6, <1>same, <2>1 DEF Contract!Execute
  <2> QED BY <1>3, <2>2 DEF Contract!Next
<1> QED BY <1>4, <1>5, <1>6 DEF Answered

\* A host that ends takes the messages it holds with it, none that Unity ran.
LEMMA RouteDies ==
  ASSUME RouteInd, NEW h \in Hosts, Dies(h), UNCHANGED <<plan, client, executed, due>>
  PROVE  RouteInd' /\ [Contract!Next]_(Contract!vars)
<1>1. ASSUME NEW k \in Clients
      PROVE  /\ message'[k] \in MessageState /\ message'[k].reply = message[k].reply
             /\ \/ message'[k].place = message[k].place
                \/ message'[k].place = "gone" /\ message[k].place \in {"cli", "http", "job"}
  <2>1. message[k] \in MessageState
    BY DEF RouteInd, RouteTypeOK
  <2>2. [message[k] EXCEPT !.place = "gone"] \in MessageState
    BY <2>1 DEF MessageState
  <2>3. \/ message'[k] = message[k]
        \/ message[k].place \in {"cli", "http", "job"}
           /\ message'[k] = [message[k] EXCEPT !.place = "gone"]
    BY DEF Dies
  <2> QED BY <2>1, <2>2, <2>3 DEF MessageState
<1>2. message' \in [Clients -> MessageState]
  BY <1>1 DEF Dies
<1>3. ASSUME NEW k \in Clients PROVE RouteOK(k)'
  BY <1>1 DEF RouteInd, RouteInv, RouteOK
<1>4. UNCHANGED Contract!vars
  BY DEF Contract!vars
<1> QED BY <1>2, <1>3, <1>4 DEF RouteInd, RouteInv, RouteTypeOK

\* Every step preserves both invariants and maps to a step of the contract.
LEMMA RoutingStep ==
  ASSUME LifeInd, RouteInd, [Next]_vars
  PROVE  LifeInd' /\ RouteInd' /\ [Contract!Next]_(Contract!vars)
<1>life. ASSUME UNCHANGED lifeVars PROVE LifeInd'
  BY <1>life DEF lifeVars, fileVars, LifeInd, LifeTypeOK, LifeInv, HostOK, InstallerOK, Running
<1>route. ASSUME UNCHANGED routeVars PROVE RouteInd' /\ [Contract!Next]_(Contract!vars)
  BY <1>route DEF routeVars, RouteInd, RouteInv, RouteTypeOK, RouteOK, Contract!vars
<1>1. ASSUME NEW i \in plan.installers, Register(i), UNCHANGED routeVars
      PROVE  LifeInd' /\ RouteInd' /\ [Contract!Next]_(Contract!vars)
  <2>1. i \in Installers
    BY RoutingAssumption DEF RouteInd, RouteTypeOK
  <2> QED BY <1>1, <1>route, <2>1, RegisterStep
<1>2. ASSUME NEW h \in Hosts, HostProcess(h) \/ StartHost(h) \/ Retire(h)
      PROVE  LifeInd' /\ RouteInd' /\ [Contract!Next]_(Contract!vars)
  <2>1. UNCHANGED routeVars
    BY <1>2 DEF HostProcess, StartHost, Retire
  <2>2. LifeNext
    <3>1. \A done \in Attempts : done \in BOOLEAN
      BY DEF Attempts
    <3> QED BY <1>2, <3>1 DEF HostProcess, Stage, StartHost, Retire, ScanRetires, IdleRetires, StopAsked,
                              LifeNext
  <2> QED BY <1>route, <2>1, <2>2, LifeStep
<1>3. ASSUME NEW h \in Hosts, HostEnds(h)
      PROVE  LifeInd' /\ RouteInd' /\ [Contract!Next]_(Contract!vars)
  <2>1. LifeNext
    BY <1>3 DEF HostEnds, LifeNext
  <2>2. Dies(h) /\ UNCHANGED <<plan, client, executed, due>>
    BY <1>3 DEF HostEnds
  <2> QED BY <2>1, <2>2, LifeStep, RouteDies
<1>4. ASSUME NEW k \in Clients, Command(k)
      PROVE  LifeInd' /\ RouteInd' /\ [Contract!Next]_(Contract!vars)
  <2>1. UNCHANGED lifeVars
    BY <1>4 DEF Command, Start, FallBack, WriteFrame, RunFull, Post, SendDirect, Receive, Lost
  <2> QED BY <1>4, <1>life, <2>1, CommandStep, RouteOfOne DEF LifeInd
<1>5. ASSUME NEW k \in Clients, InHost(k)
      PROVE  LifeInd' /\ RouteInd' /\ [Contract!Next]_(Contract!vars)
  <2>1. UNCHANGED lifeVars
    BY <1>5 DEF InHost, ServeCli, ServePost, JobRefused, JobForwarded, UnityRuns, UnityRefuses,
       UnityAnswers, HostUnknown
  <2> QED BY <1>5, <1>life, <2>1, InHostStep, RouteOfOne
<1>6. CASE UNCHANGED vars
  BY <1>6, <1>life, <1>route DEF vars
<1> QED BY <1>1, <1>2, <1>3, <1>4, <1>5, <1>6 DEF Next

\* The first states satisfy both invariants.
LEMMA InitInv == Init => LifeInd /\ RouteInd
  BY InitLife, RoutingAssumption DEF Init, RouteInd, RouteInv, RouteTypeOK, RouteOK, ClientState,
     MessageState

\* They hold in every reachable state.
LEMMA Invariant == Spec => [](LifeInd /\ RouteInd)
<1>1. LifeInd /\ RouteInd /\ [Next]_vars => (LifeInd /\ RouteInd)'
  BY RoutingStep
<1> QED BY <1>1, InitInv, PTL DEF Spec

--------------------------------------------------------------------------------
(* Commands that ask for the host.                                            *)

\* A command goes to Unity directly, or passes a host's queue.
HostOnlyOK(k) ==
  /\ client[k].pc = "direct" => ~HostOnly(k)
  /\ message[k].place = "job" => message[k].job = TRUE
  /\ message[k].place \in {"unity", "ran"} => message[k].job = TRUE \/ ~HostOnly(k)

\* A step of the command line keeps to the asked route.
LEMMA HostOnlyCommand ==
  ASSUME RouteTypeOK, NEW k \in Clients, HostOnlyOK(k), Command(k)
  PROVE  HostOnlyOK(k)'
<1>type. client \in [Clients -> ClientState] /\ message \in [Clients -> MessageState]
  BY DEF RouteTypeOK
<1>line. HostOnly(k)' = HostOnly(k)
  BY DEF Command, Start, FallBack, WriteFrame, RunFull, Post, SendDirect, Receive, Lost,
     HostOnly, Line
<1>1. CASE Start(k) \/ FallBack(k) \/ Receive(k) \/ Lost(k)
  <2>1. client'[k].pc # "direct" /\ message' = message
    BY <1>1, <1>type DEF Start, FallBack, Receive, Lost, Go, GoTo, Return, ClientState
  <2> QED BY <1>line, <2>1 DEF HostOnlyOK
<1>2. CASE WriteFrame(k)
  <2>1. client'[k].pc # "direct" /\ message'[k].place = "cli"
    BY <1>2, <1>type, MessagePut DEF WriteFrame, Go, ClientState
  <2> QED BY <2>1 DEF HostOnlyOK
<1>3. CASE RunFull(k)
  <2>1. message' = message
    BY <1>3 DEF RunFull
  <2>2. client'[k].pc = "direct" => ~HostOnly(k)
    BY <1>3, <1>type DEF RunFull, GoTo, Return, ClientState
  <2> QED BY <1>line, <2>1, <2>2 DEF HostOnlyOK
<1>4. CASE Post(k)
  <2>1. client'[k].pc # "direct"
    BY <1>4, <1>type DEF Post, Go, Return, ClientState
  <2>2. message' = message \/ message'[k].place = "http"
    BY <1>4, <1>type, MessagePut DEF Post
  <2> QED BY <1>line, <2>1, <2>2 DEF HostOnlyOK
<1>5. CASE SendDirect(k)
  <2>1. client'[k].pc # "direct" /\ ~HostOnly(k)
    BY <1>5, <1>type DEF SendDirect, Go, Return, ClientState, HostOnlyOK
  <2>2. message' = message \/ message'[k].place = "unity"
    BY <1>5, <1>type, MessagePut DEF SendDirect
  <2> QED BY <1>line, <2>1, <2>2 DEF HostOnlyOK
<1> QED BY <1>1, <1>2, <1>3, <1>4, <1>5 DEF Command

\* A step of the host or of Unity keeps to the asked route.
LEMMA HostOnlyInHost ==
  ASSUME RouteTypeOK, NEW k \in Clients, HostOnlyOK(k), InHost(k)
  PROVE  HostOnlyOK(k)'
<1>type. message \in [Clients -> MessageState]
  BY DEF RouteTypeOK
<1>out. "result" \in Outcomes /\ "not_started" \in Outcomes /\ "unknown" \in Outcomes
  BY DEF Outcomes
<1>same. client' = client /\ HostOnly(k)' = HostOnly(k)
  BY DEF InHost, ServeCli, ServePost, JobRefused, JobForwarded, UnityRuns, UnityRefuses,
     UnityAnswers, HostUnknown, HostOnly, Line
<1>1. \/ message'[k].place = "gone"
      \/ message'[k].place = "job" /\ message'[k].job = TRUE
      \/ /\ message'[k].place = "unity" /\ message'[k].job = message[k].job
         /\ message[k].place = "job" \/ ~HostOnly(k)
      \/ /\ message'[k].job = message[k].job
         /\ message[k].place \in {"unity", "ran"} /\ message'[k].place \in {"unity", "ran"}
  <2>1. CASE ServeCli(k)
    BY <2>1, <1>type, <1>out, MessageReply, MessageJob, MessagePut DEF ServeCli, HostOnly
  <2>2. CASE ServePost(k)
    BY <2>2, <1>type, <1>out, MessageReply, MessageJob DEF ServePost
  <2>3. CASE JobRefused(k) \/ UnityRefuses(k)
    BY <2>3, <1>type, <1>out, MessageReply DEF JobRefused, UnityRefuses
  <2>4. CASE JobForwarded(k)
    BY <2>4, <1>type, MessagePut DEF JobForwarded
  <2>5. CASE UnityRuns(k)
    BY <2>5, <1>type, MessagePut DEF UnityRuns
  <2>6. CASE UnityAnswers(k) \/ HostUnknown(k)
    BY <2>6, <1>type, <1>out, MessageReply DEF UnityAnswers, HostUnknown
  <2> QED BY <2>1, <2>2, <2>3, <2>4, <2>5, <2>6 DEF InHost
<1> QED BY <1>1, <1>same DEF HostOnlyOK

\* Every step does.
LEMMA HostOnlyStep ==
  ASSUME LifeTypeOK, RouteInd, [Next]_vars, \A k \in Clients : HostOnlyOK(k)
  PROVE  \A k \in Clients : HostOnlyOK(k)'
<1> SUFFICES ASSUME NEW k \in Clients PROVE HostOnlyOK(k)'
  OBVIOUS
<1>1. ASSUME NEW j \in Clients, Command(j) \/ InHost(j) PROVE HostOnlyOK(k)'
  <2>1. CASE j = k
    BY <1>1, <2>1, HostOnlyCommand, HostOnlyInHost DEF RouteInd
  <2>2. CASE j # k
    <3>1. OnlyOf(j)
      BY <1>1, CommandStep, InHostStep
    <3> QED BY <2>2, <3>1 DEF OnlyOf, HostOnlyOK, HostOnly, Line
  <2> QED BY <2>1, <2>2
<1>2. ASSUME NEW h \in Hosts, HostEnds(h) PROVE HostOnlyOK(k)'
  <2>1. message[k] \in MessageState
    BY DEF RouteInd, RouteTypeOK
  <2>2. message'[k] = message[k] \/ message'[k].place = "gone"
    BY <1>2, <2>1 DEF HostEnds, Dies, MessageState
  <2> QED BY <1>2, <2>2 DEF HostEnds, HostOnlyOK, HostOnly, Line
<1>3. CASE UNCHANGED routeVars
  BY <1>3 DEF routeVars, HostOnlyOK, HostOnly, Line
<1> QED BY <1>1, <1>2, <1>3 DEF Next, vars, HostProcess, StartHost, Retire

--------------------------------------------------------------------------------
(* Theorems.                                                                  *)

\* Files, processes, commands and messages keep their types.
THEOREM TypeCorrect == Spec => []TypeOK
<1>1. LifeInd /\ RouteInd => TypeOK
  BY DEF LifeInd, RouteInd, RouteTypeOK, TypeOK
<1> QED BY <1>1, Invariant, PTL

\* However many editors and clients start hosts, crash them and reuse their PIDs,
\* at most one process of a runtime serves: the lock names it.
THEOREM OneHostServes == Spec => []OneHost
<1>1. LifeInd => OneHost
  <2> SUFFICES ASSUME LifeInd, NEW g \in Hosts, NEW h \in Hosts, Serving(g), Serving(h),
                      host[g].runtime = host[h].runtime
               PROVE  g = h
    BY DEF OneHost
  <2> QED BY DEF LifeInd, LifeInv, HostOK, Serving
<1> QED BY <1>1, Invariant, PTL

\* From the command line to Unity, over whichever routes were tried: a command is
\* run at most once, is answered once, and never "not_started" if it ran or will.
THEOREM EndToEnd == Spec => ImplementsContract
<1>1. Init => Contract!Init
  BY DEF Init, Contract!Init
<1>2. LifeInd /\ RouteInd /\ [Next]_vars => [Contract!Next]_(Contract!vars)
  BY RoutingStep
<1> QED BY <1>1, <1>2, Invariant, PTL DEF Spec, ImplementsContract, Contract!Spec

\* A command that asks for the host reaches Unity through a host's queue or not at
\* all, whatever the light entry point and the full CLI fall back to.
THEOREM HostOnlyKept == Spec => []HostOnlyStays
<1> DEFINE I == \A k \in Clients : HostOnlyOK(k)
<1>1. Init => I
  BY DEF Init, HostOnlyOK
<1>2. LifeInd /\ RouteInd /\ [Next]_vars /\ I => I'
  BY HostOnlyStep DEF LifeInd
<1>3. I => HostOnlyStays
  BY DEF HostOnlyOK, HostOnlyStays
<1> QED BY <1>1, <1>2, <1>3, Invariant, PTL DEF Spec

================================================================================
