-------------------------------- MODULE Routing --------------------------------
(* The way of one command from the command line to Unity: the light entry     *)
(* point (_bootstrap.py, _fast_exec.py) and its frame to a host, the full CLI *)
(* (cli.py, _cli/session.py, client.call) and its POST to a host, or the      *)
(* direct request to the editor; in the host, host/cli_server.py,             *)
(* host/cli_request.py and do_POST.  Hosts start, stop, are replaced and      *)
(* crash meanwhile (HostLife).  What the host does with an accepted job is    *)
(* module HostJobs; here it is what RequestContract promises.                 *)
EXTENDS HostLife

CONSTANTS Clients,        \* commands, each given once
          Plans           \* situations: [lines, hosts, installers, crashes, due, denied]

\* syntax: _options admits the arguments; quiet: no update check; target: the
\* editor and its Connector speak the host's protocol ("capable"), do not
\* ("old"), or the command names its own compiler ("override").
Options == [syntax : BOOLEAN, quiet : BOOLEAN, session : BOOLEAN,
            backend : {"auto", "host", "legacy"},
            target : {"capable", "old", "override"}]

ASSUME RoutingAssumption ==
  /\ \A p \in Plans :
       /\ p.lines \in [Clients -> Options \cup {None}]
       /\ \A k \in Clients : p.lines[k] # None =>
             /\ (p.lines[k].target = "override" => ~p.lines[k].syntax)
             /\ (p.lines[k].session => p.lines[k].quiet)      \* "--json"
       /\ p.hosts \subseteq Hosts /\ p.installers \subseteq Installers
       /\ p.crashes \in 0..MaxCrashes /\ {p.due, p.denied} \subseteq BOOLEAN
  /\ None \notin Options /\ None \notin {"result", "not_started", "unknown"}

VARIABLES plan,           \* the command lines, the processes there may be, whether
                          \* readers may hold the endpoint files; constant
          client,         \* the CLI process, or the session's current request
          message,        \* the command on its way
          executed,       \* how often Unity ran it
          due             \* the last update check is a day old

routeVars == <<plan, client, message, executed, due>>
vars == <<lifeVars, routeVars>>

Outcomes == {"result", "not_started", "unknown"}

ClientState  == [pc : {"idle", "connect", "framed", "full", "post", "posted", "direct", "sent",
                       "returned"},
                 host : Hosts \cup {None}, outcome : Outcomes \cup {None}]

\* place: where the command is; job: a host has accepted it; reply: what was
\* sent back.
MessageState == [place : {"none", "cli", "http", "job", "unity", "ran", "gone"},
                 job : BOOLEAN, reply : Outcomes \cup {None}]

TypeOK ==
  /\ LifeTypeOK
  /\ plan \in Plans
  /\ client \in [Clients -> ClientState]
  /\ message \in [Clients -> MessageState]
  /\ executed \in [Clients -> Nat] /\ due \in BOOLEAN

Init ==
  /\ LifeInit
  /\ plan \in Plans
  /\ client = [k \in Clients |-> [pc |-> "idle", host |-> None, outcome |-> None]]
  /\ message = [k \in Clients |-> [place |-> "none", job |-> FALSE, reply |-> None]]
  /\ executed = [k \in Clients |-> 0] /\ due = plan.due

--------------------------------------------------------------------------------
(* The command line.                                                          *)

Go(k, pc)       == client' = [client EXCEPT ![k].pc = pc]
GoTo(k, pc, h)  == client' = [client EXCEPT ![k].pc = pc, ![k].host = h]
Return(k, o)    == client' = [client EXCEPT ![k].pc = "returned", ![k].outcome = o]
Put(k, place)   == message' = [message EXCEPT ![k].place = place]

Line(k) == plan.lines[k]

Busy(k) == client[k].pc \notin {"idle", "returned"}

UpdateDue(k) == due /\ ~Line(k).quiet

Fast(k) == /\ Line(k).syntax /\ ~Line(k).session
           /\ ~UpdateDue(k)
           /\ Line(k).backend \in {"auto", "host"}

\* A session reads its next line after it has written the reply to the last.
TurnOf(k) == Line(k).session => \A j \in Clients : Busy(j) => ~Line(j).session

Start(k) ==
  /\ client[k].pc = "idle" /\ Line(k) # None /\ TurnOf(k)
  /\ IF Fast(k) /\ Registered(launcher) # None
     THEN GoTo(k, "connect", Registered(launcher).pid)
     ELSE Go(k, "full")
  /\ UNCHANGED <<lifeVars, plan, message, executed, due>>

\* Nothing was sent yet: no connection, an unreadable source, too large.
FallBack(k) ==
  /\ client[k].pc = "connect"
  /\ Go(k, "full")
  /\ UNCHANGED <<lifeVars, plan, message, executed, due>>

WriteFrame(k) ==
  /\ client[k].pc = "connect" /\ Serving(client[k].host)
  /\ Go(k, "framed") /\ Put(k, "cli")
  /\ UNCHANGED <<lifeVars, plan, executed, due>>

\* The daily notice is printed once, before the command; its file may not be
\* writable.
UpdateNotice(k) == IF UpdateDue(k) THEN due' \in BOOLEAN ELSE UNCHANGED due

ViaHost(k) == /\ Line(k).backend # "legacy" /\ Line(k).target = "capable"
              /\ Registered(launcher) # None /\ Registered(launcher).projects

HostOnly(k) == Line(k).backend = "host" /\ Line(k).target # "override"

RunFull_anyway(k) ==
  /\ client[k].pc = "full"
  /\ IF ViaHost(k) THEN GoTo(k, "post", Registered(launcher).pid) ELSE GoTo(k, "direct", None)
  /\ UpdateNotice(k)
  /\ UNCHANGED <<lifeVars, plan, message, executed>>

\* main, then client.call: the host, or Unity itself unless the host is asked for.
RunFull(k) ==
  /\ client[k].pc = "full"
  /\ IF ViaHost(k) THEN GoTo(k, "post", Registered(launcher).pid)
     ELSE IF HostOnly(k) THEN Return(k, "not_started")
     ELSE GoTo(k, "direct", None)
  /\ UpdateNotice(k)
  /\ UNCHANGED <<lifeVars, plan, message, executed>>

\* A POST that reaches nobody is answered like one whose reply was lost.
Post(k) ==
  /\ client[k].pc = "post"
  /\ IF Serving(client[k].host) THEN Go(k, "posted") /\ Put(k, "http")
                                ELSE Return(k, "unknown") /\ UNCHANGED message
  /\ UNCHANGED <<lifeVars, plan, executed, due>>

\* Unity is asked, or its port refuses the connection.
SendDirect(k) ==
  /\ client[k].pc = "direct"
  /\ \/ Go(k, "sent") /\ Put(k, "unity")
     \/ Return(k, "unknown") /\ UNCHANGED message
  /\ UNCHANGED <<lifeVars, plan, executed, due>>

Waiting(k) == client[k].pc \in {"framed", "posted", "sent"}

Receive(k) ==
  /\ Waiting(k) /\ message[k].reply # None
  /\ Return(k, message[k].reply)
  /\ UNCHANGED <<lifeVars, plan, message, executed, due>>

Lost_again(k) ==
  /\ Waiting(k) /\ message[k].reply = None
  /\ IF client[k].pc = "posted" THEN Go(k, "post") ELSE Return(k, "unknown")
  /\ UNCHANGED <<lifeVars, plan, message, executed, due>>

\* The reply is late, invalid, or its connection is gone: never asked again.
Lost(k) ==
  /\ Waiting(k)
  /\ Return(k, "unknown")
  /\ UNCHANGED <<lifeVars, plan, message, executed, due>>

--------------------------------------------------------------------------------
(* The host and Unity.                                                        *)

Carrier(k) == client[k].host

\* The process that passes the reply on still lives; a direct reply needs none.
Carried(k) == Carrier(k) = None \/ Running(Carrier(k))

Reply(k, place, o) ==
  message' = [message EXCEPT ![k].place = place,
                ![k].reply = IF @ = None /\ Carried(k) THEN o ELSE @]

AcceptJob(k) == message' = [message EXCEPT ![k].place = "job", ![k].job = TRUE]

\* The frame is authenticated, refused by a stopping host, parsed, and the
\* command is submitted to this host's queue or sent to an old Connector.
ServeCli(k) ==
  /\ message[k].place = "cli" /\ Running(Carrier(k))
  /\ IF Stopping(Carrier(k)) THEN Reply(k, "gone", "not_started")
     ELSE IF Line(k).target = "capable" THEN AcceptJob(k)
     ELSE IF Line(k).backend = "host" THEN Reply(k, "gone", "not_started")
     ELSE Put(k, "unity")
  /\ UNCHANGED <<lifeVars, plan, client, executed, due>>

ServePost(k) ==
  /\ message[k].place = "http" /\ Running(Carrier(k))
  /\ IF Stopping(Carrier(k)) THEN Reply(k, "gone", "not_started") ELSE AcceptJob(k)
  /\ UNCHANGED <<lifeVars, plan, client, executed, due>>

\* Expired, not compiled, or the host stops: Unity was not asked.
JobRefused(k) ==
  /\ message[k].place = "job" /\ Running(Carrier(k))
  /\ Reply(k, "gone", "not_started")
  /\ UNCHANGED <<lifeVars, plan, client, executed, due>>

JobForwarded(k) ==
  /\ message[k].place = "job" /\ Running(Carrier(k))
  /\ Put(k, "unity")
  /\ UNCHANGED <<lifeVars, plan, client, executed, due>>

UnityRuns(k) ==
  /\ message[k].place = "unity"
  /\ Put(k, "ran")
  /\ executed' = [executed EXCEPT ![k] = @ + 1]
  /\ UNCHANGED <<lifeVars, plan, client, due>>

UnityRefuses(k) ==
  /\ message[k].place = "unity"
  /\ Reply(k, "gone", "not_started")
  /\ UNCHANGED <<lifeVars, plan, client, executed, due>>

UnityAnswers(k) ==
  /\ message[k].place = "ran" /\ message[k].reply = None
  /\ Reply(k, "ran", "result")
  /\ UNCHANGED <<lifeVars, plan, client, executed, due>>

\* The host does not know what became of what it sent.
HostUnknown(k) ==
  /\ message[k].place \in {"unity", "ran"} /\ message[k].reply = None
  /\ Carrier(k) # None /\ Running(Carrier(k))
  /\ Reply(k, message[k].place, "unknown")
  /\ UNCHANGED <<lifeVars, plan, client, executed, due>>

HasWork(h) == \E k \in Clients : /\ Carrier(k) = h /\ message[k].job
                                 /\ message[k].reply = None /\ message[k].place # "gone"

--------------------------------------------------------------------------------
(* Hosts come and go under the commands.                                      *)

\* What a process has not passed on ends with it.
Dies(h) ==
  message' = [k \in Clients |->
    IF Carrier(k) = h /\ message[k].place \in {"cli", "http", "job"}
    THEN [message[k] EXCEPT !.place = "gone"] ELSE message[k]]

\* A PID does not come back while a command still looks for its old owner.
Known(h) == \E k \in Clients : Carrier(k) = h /\ (Busy(k) \/ message[k].place = "job")

\* An endpoint file is written or removed, unless a reader holds it.
Attempts == {TRUE, ~plan.denied}

Stage(h) == \/ Serve(h) \/ RequestStop(h) \/ Release(h)
            \/ \E done \in Attempts : Listen(h, done) \/ Close(h, done)

HostProcess(h) ==
  /\ \/ Stage(h) \/ ProjectChanges(h)
     \/ CheckStopping(h) \/ WriteRegistry(h) \/ (plan.denied /\ WriteDenied(h))
     \/ (plan.hosts # {h} /\ ReusePid(h)) \/ FreeReused(h)   \* leave a PID to start with
  /\ UNCHANGED routeVars

StartHost(h) == h \in plan.hosts /\ ~Known(h) /\ EnsureHost(h) /\ UNCHANGED routeVars

Retire(h) ==
  /\ ~HasWork(h)
  /\ ScanRetires(h) \/ IdleRetires(h) \/ StopAsked(h)
  /\ UNCHANGED routeVars

HostEnds(h) ==
  /\ Exit(h) \/ (crashes < plan.crashes /\ Crash(h))
  /\ Dies(h)
  /\ UNCHANGED <<plan, client, executed, due>>

Command(k) == \/ Start(k) \/ FallBack(k) \/ WriteFrame(k) \/ RunFull(k) \/ Post(k)
              \/ SendDirect(k) \/ Receive(k) \/ Lost(k)

InHost(k) == \/ ServeCli(k) \/ ServePost(k) \/ JobRefused(k) \/ JobForwarded(k)
             \/ UnityRuns(k) \/ UnityRefuses(k) \/ UnityAnswers(k) \/ HostUnknown(k)

Next ==
  \/ \E i \in plan.installers : Register(i) /\ UNCHANGED routeVars
  \/ \E h \in Hosts : HostProcess(h) \/ StartHost(h) \/ Retire(h) \/ HostEnds(h)
  \/ \E k \in Clients : Command(k) \/ InHost(k)

Spec == Init /\ [][Next]_vars

(* Every wait of a client and of the host has a deadline.  Editors look for a *)
(* host every five seconds, hosts scan twice a second, and no reader holds an *)
(* endpoint for ever, or whenever a host starts.  Nothing is assumed of       *)
(* installers, of new commands, of Unity, or of processes that reuse a PID.   *)
Proceed(k) == \/ FallBack(k) \/ WriteFrame(k) \/ RunFull(k) \/ Post(k)
              \/ SendDirect(k) \/ Receive(k) \/ Lost(k)

HostStep(k) == \/ ServeCli(k) \/ ServePost(k) \/ JobRefused(k) \/ JobForwarded(k)
               \/ HostUnknown(k)

Fairness ==
  /\ WF_vars(\E h \in Hosts : StartHost(h))
  /\ \A h \in Hosts :
       /\ WF_vars(Stage(h) /\ UNCHANGED routeVars)
       /\ SF_vars(Listen(h, TRUE) /\ UNCHANGED routeVars)
       /\ WF_vars(CheckStopping(h) /\ UNCHANGED routeVars)
       /\ SF_vars(WriteRegistry(h) /\ UNCHANGED routeVars)
       /\ WF_vars(Exit(h) /\ HostEnds(h))
       /\ WF_vars(ScanRetires(h) /\ Retire(h))
  /\ \A k \in Clients : WF_vars(Proceed(k)) /\ WF_vars(HostStep(k))

FairSpec == Spec /\ Fairness

--------------------------------------------------------------------------------
(* Properties.                                                                *)

\* However many editors and clients start hosts, and whatever PIDs the files of
\* dead hosts name: at most one process of a runtime serves.
OneHost == \A g, h \in Hosts :
  Serving(g) /\ Serving(h) /\ host[g].runtime = host[h].runtime => g = h

\* A command that asks for the host reaches Unity through a host's queue or not
\* at all, whether the light entry point or the full CLI carries it.
HostOnlyStays == \A k \in Clients :
  message[k].place \in {"unity", "ran"} => message[k].job \/ ~HostOnly(k)

\* From the command line to Unity a command is run at most once, whichever
\* routes were tried; one reported as not started has not run and never will.
Contract == INSTANCE RequestContract WITH
  Requests <- Clients, None <- None, effect <- executed,
  outcome <- [k \in Clients |-> client[k].outcome]

ImplementsContract == Contract!Spec

\* A host that is past its lock still writes the endpoint of its successor.
LateWriter == \E h \in Hosts : host[h].pc = "leaving" /\ host[h].writer

\* While an editor is open a host can be found again and again, after stops,
\* crashes, updates and reused PIDs, unless a late writer hides the successor.
HostReturns == [](~LateWriter) => []<>(launcher = None \/ Responsive(launcher))

\* After an update the hosts of other runtimes retire for good.
ReplacedRetires == \A r \in Runtimes :
  <>[](launcher # None /\ launcher.runtime = r)
    => <>[](\A h \in Hosts : Serving(h) => host[h].runtime = r)
================================================================================
