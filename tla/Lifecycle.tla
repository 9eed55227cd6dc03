----------------------------- MODULE Lifecycle -----------------------------
(***************************************************************************)
(* The life of one Caddy process: caddy.go (Start, Restart, Stop, Wait and  *)
(* the server goroutines), sigtrap.go and sigtrap_posix.go (the two signal  *)
(* goroutines), the event-hook table of plugins.go and the Stop method of   *)
(* the HTTP server.                                                         *)
(*                                                                         *)
(* Three goroutines share the package state:                                *)
(*   main    Run: Start the first instance, then Wait;                      *)
(*   posix   the SIGTERM / SIGQUIT / SIGUSR1 / SIGUSR2 loop, one at a time;  *)
(*   sigint  the SIGINT loop and the goroutine that runs the callbacks.     *)
(* An instance is a number, in order of creation; a server is the pair of   *)
(* its instance and its listening address.                                  *)
(***************************************************************************)
EXTENDS Naturals, Sequences, FiniteSets

CONSTANTS
    Addrs,      \* listening addresses a Caddyfile may name
    MaxInsts,   \* bound: instances created in the life of the process
    MaxBusy,    \* bound: servers with requests in flight at one time
    Signals,    \* the signals the environment sends
    Faults      \* what may go wrong: see FaultKinds

FaultKinds ==
    {"setup",      \* a directive or MakeServers returns an error
     "callback",   \* an OnRestart or OnStartup callback returns an error
     "listen",     \* a listener cannot be opened or inherited
     "shutdown",   \* an OnShutdown callback returns an error
     "panic",      \* a directive or a callback panics
     "early"}      \* a signal arrives before Start has returned

SignalKinds == {"INT", "TERM", "QUIT", "USR1", "USR2"}

ASSUME AddrsAssumption == IsFiniteSet(Addrs)
ASSUME BoundsAssumption == MaxInsts \in Nat \ {0} /\ MaxBusy \in Nat
ASSUME EnvironmentAssumption == Signals \subseteq SignalKinds /\ Faults \subseteq FaultKinds

Insts == 1 .. MaxInsts
Server == Insts \X Addrs
NoInst == 0
Threads == {"main", "posix", "sigint"}
Free == "free"
Labels ==
    {"idle", "append", "directives", "startup", "listen", "wait", "unlist", "failed",
     "crashed", "recovered", "onrestart", "shutold", "stop", "stopall", "once", "lock",
     "callbacks", "exiting", "upgrade"}

VARIABLES
    pc,          \* where each goroutine is
    exit,        \* "running", or how the process ended
    instances,   \* the package variable instances
    instancesMu, \* the goroutine that holds the mutex, or Free
    made,        \* instances created so far
    config,      \* [Insts -> SUBSET Addrs]: addresses of the instance's Caddyfile
    servers,     \* entries of inst.servers, for every instance
    lfd,         \* servers whose listening descriptor is open
    serve,       \* servers whose Serve goroutine runs
    packet,      \* servers whose ServePacket goroutine runs
    down,        \* servers on which http.Server.Shutdown was called
    busy,        \* servers with requests in flight
    wg,          \* the WaitGroup all instances of the process share
    hooks,       \* instances whose event hooks are registered
    held,        \* instances with resources that only OnShutdown releases
    ran,         \* [Insts -> Nat]: times the OnShutdown callbacks have run
    once,        \* shutdownCallbacksOnce: "idle", "running" or "done"
    fired,       \* instances whose hooks saw the shutdown event
    cbTodo,      \* instances allShutdownCallbacks has yet to visit
    job,         \* what the posix goroutine is doing
    old, new,    \* receiver and newInst of the Restart in progress
    restartFds,  \* addresses whose listeners Restart collected
    saved,       \* oldEventHooks
    victim,      \* receiver of the Instance.Stop in progress
    todo,        \* servers Instance.Stop has yet to stop
    drain,       \* the servers Shutdown is waiting for (at most one)
    last         \* how the last Restart ended

procVars  == <<pc, exit, job>>
instVars  == <<instances, instancesMu, made, config>>
srvVars   == <<servers, lfd, serve, packet, down, busy>>
cbVars    == <<hooks, held, ran, once, fired, cbTodo>>
reloadVars == <<old, new, restartFds, saved, last>>
stopVars  == <<victim, todo, drain>>
vars == <<procVars, instVars, srvVars, wg, cbVars, reloadVars, stopVars>>

ServersOf(i) == {p \in servers : p[1] = i}
Cur(t) == IF t = "main" THEN 1 ELSE new
Listed(i) == \E j \in 1 .. Len(instances) : instances[j] = i
\* Faulty variants: the splice is forgotten; it takes out the first instance.
Without_Kept(i) == instances
Without_First(i) == IF instances = <<>> THEN instances ELSE Tail(instances)
\* append(instances[:j], instances[j+1:]...) for the j with instances[j] = i; an
\* instance is listed at most once.
Without(i) ==
    IF ~Listed(i) THEN instances
    ELSE LET j == CHOOSE k \in 1 .. Len(instances) : instances[k] = i
         IN  SubSeq(instances, 1, j - 1) \o SubSeq(instances, j + 1, Len(instances))
Configs == SUBSET Addrs \ {{}}

Goto(t, from, to) ==
    /\ exit = "running"
    /\ pc[t] = from
    /\ pc' = [pc EXCEPT ![t] = to]

\* os.Exit, log.Fatal or a return from main: nothing runs after it.
Exit(how) == exit' = how

Init ==
    /\ pc = [t \in Threads |-> IF t = "main" THEN "append" ELSE "idle"]
    /\ exit = "running"
    /\ job = "none"
    /\ instances = <<>>
    /\ instancesMu = Free
    /\ made = 1
    /\ config \in {[i \in Insts |-> IF i = 1 THEN c ELSE {}] : c \in Configs}
    /\ servers = {} /\ lfd = {} /\ serve = {} /\ packet = {} /\ down = {} /\ busy = {}
    /\ wg = 0
    /\ hooks = {} /\ held = {} /\ fired = {}
    /\ ran = [i \in Insts |-> 0]
    /\ once = "idle"
    /\ cbTodo = <<>>
    /\ old = NoInst /\ new = NoInst /\ restartFds = {} /\ saved = {} /\ last = "none"
    /\ victim = NoInst /\ todo = {} /\ drain = {}

---------------------------------------------------------------------------
(* startWithListenerFds, run by main (Start) and by posix (Restart).        *)

\* The instance is listed before it is set up.  Its caddyfileInput, set at the
\* head of ValidateAndExecuteDirectives, is set here: until then a signal
\* handler finds no Caddyfile and ignores the signal.
AppendInstance(t) ==
    /\ Goto(t, "append", "directives")
    /\ instancesMu = Free
    /\ instances' = Append(instances, Cur(t))
    /\ UNCHANGED <<exit, job, instancesMu, made, config, srvVars, wg, cbVars,
                   reloadVars, stopVars>>

\* A panic in main ends the process; Restart recovers from it.
PanicPc(t) == IF t = "main" THEN "crashed" ELSE "recovered"

\* Directives register event hooks and start resources (health checkers, log
\* files, certificate caches); a failing one leaves what earlier ones did.
ExecuteDirectives(t) ==
    /\ \/ /\ Goto(t, "directives", "startup")
          /\ hooks' = hooks \cup {Cur(t)}
          /\ held' = held \cup {Cur(t)}
       \/ \E done \in SUBSET {Cur(t)} :
             /\ \/ "setup" \in Faults /\ Goto(t, "directives", "unlist")
                \/ "panic" \in Faults /\ Goto(t, "directives", PanicPc(t))
             /\ hooks' = hooks \cup done
             /\ held' = held \cup done
    /\ UNCHANGED <<exit, job, instVars, srvVars, wg, ran, once, fired, cbTodo,
                   reloadVars, stopVars>>

\* MakeServers, then the OnFirstStartup and OnStartup callbacks.
RunStartupCallbacks(t) ==
    /\ \/ Goto(t, "startup", "listen")
       \/ "callback" \in Faults /\ Goto(t, "startup", "unlist")
    /\ UNCHANGED <<exit, job, instVars, srvVars, wg, cbVars, reloadVars, stopVars>>

\* Server.Listen needs an address that no open listener has.
AddrFree(a) == \A i \in Insts : <<i, a>> \notin lfd

\* A listener is inherited from the old instance when it has one for the
\* address, and that one is still open; otherwise the address must be free.
CanListen(t, a) ==
    IF t = "posix" /\ a \in restartFds
    THEN <<old, a>> \in lfd
    ELSE AddrFree(a)

\* One round of the first loop of startServers.  An error leaves the
\* descriptors of the earlier rounds open.
Listen(t) ==
    /\ pc[t] = "listen"
    /\ \E a \in {b \in config[Cur(t)] : <<Cur(t), b>> \notin servers} :
          /\ \/ /\ CanListen(t, a)
                /\ Goto(t, "listen", "listen")
                /\ servers' = servers \cup {<<Cur(t), a>>}
                /\ lfd' = lfd \cup {<<Cur(t), a>>}
             \/ /\ ~CanListen(t, a) \/ "listen" \in Faults
                /\ Goto(t, "listen", "unlist")
                /\ UNCHANGED <<servers, lfd>>
          /\ UNCHANGED <<exit, job, instVars, serve, packet, down, busy, wg, cbVars,
                         reloadVars, stopVars>>

\* Faulty variant: one wg.Add for the two goroutines of a server.
ServerGoroutines_One(t) == Cardinality(ServersOf(Cur(t)))
ServerGoroutines(t) == 2 * Cardinality(ServersOf(Cur(t)))

\* The second loop: wg.Add(2) and two goroutines for each server.  Restart then
\* calls Stop on the old instance, Start returns to Wait.
SpawnServers(t) ==
    /\ Goto(t, "listen", IF t = "main" THEN "wait" ELSE "stop")
    /\ config[Cur(t)] = {a \in Addrs : <<Cur(t), a>> \in servers}
    /\ serve' = serve \cup ServersOf(Cur(t))
    /\ packet' = packet \cup ServersOf(Cur(t))
    /\ wg' = wg + ServerGoroutines(t)
    /\ IF t = "main"
       THEN UNCHANGED stopVars
       ELSE victim' = old /\ todo' = ServersOf(old) /\ drain' = {}
    /\ UNCHANGED <<exit, job, instVars, servers, lfd, down, busy, cbVars, reloadVars>>

\* The deferred removal of an instance that failed to start.  In main the
\* error is fatal.
Unlist(t) ==
    /\ Goto(t, "unlist", "failed")
    /\ instancesMu = Free
    /\ instances' = Without(Cur(t))
    /\ IF t = "main" THEN Exit("fatal") ELSE UNCHANGED exit
    /\ UNCHANGED <<job, instancesMu, made, config, srvVars, wg, cbVars, reloadVars,
                   stopVars>>

MainPanics ==
    /\ exit = "running"
    /\ pc["main"] = "crashed"
    /\ Exit("crash")
    /\ UNCHANGED <<pc, job, instVars, srvVars, wg, cbVars, reloadVars, stopVars>>

\* Instance.Wait: the process ends when the WaitGroup reaches zero.
WaitReturns ==
    /\ exit = "running"
    /\ pc["main"] = "wait"
    /\ wg = 0
    /\ Exit("wait")
    /\ UNCHANGED <<pc, job, instVars, srvVars, wg, cbVars, reloadVars, stopVars>>

---------------------------------------------------------------------------
(* SIGUSR1: Restart.                                                        *)

SignalAllowed(s) ==
    /\ s \in Signals
    /\ pc["main"] = "wait" \/ "early" \in Faults

\* The handler takes the first instance, loads the Caddyfile, clones and purges
\* the hooks; Restart then adds 1 to the WaitGroup.
ReloadSignal ==
    /\ SignalAllowed("USR1")
    /\ Goto("posix", "idle", "onrestart")
    /\ instancesMu = Free
    /\ instances # <<>>
    /\ made < MaxInsts
    /\ made' = made + 1
    /\ \E c \in Configs : config' = [config EXCEPT ![made + 1] = c]
    /\ old' = Head(instances)
    /\ new' = made + 1
    /\ saved' = hooks
    /\ hooks' = {}
    /\ wg' = wg + 1
    /\ job' = "reload"
    /\ UNCHANGED <<exit, instances, instancesMu, srvVars, held, ran, once, fired, cbTodo,
                   restartFds, last, stopVars>>

\* The OnRestart callbacks, then the listeners of the old instance.
RunRestartCallbacks ==
    /\ \/ Goto("posix", "onrestart", "append")
       \/ "callback" \in Faults /\ Goto("posix", "onrestart", "failed")
       \/ "panic" \in Faults /\ Goto("posix", "onrestart", "recovered")
    /\ restartFds' = {a \in Addrs : <<old, a>> \in servers}
    /\ UNCHANGED <<exit, job, instVars, srvVars, wg, cbVars, old, new, saved, last,
                   stopVars>>

\* Faulty variants: wg.Done twice, or not at all.
EndRestart_DoneTwice(result) ==
    /\ exit = "running"
    /\ pc' = [pc EXCEPT !["posix"] = "idle"]
    /\ wg' = wg - 2
    /\ job' = "none"
    /\ last' = result
EndRestart_NoDone(result) ==
    /\ exit = "running"
    /\ pc' = [pc EXCEPT !["posix"] = "idle"]
    /\ wg' = wg
    /\ job' = "none"
    /\ last' = result

\* What every return from Restart does, and the handler after it.
EndRestart(result) ==
    /\ exit = "running"
    /\ pc' = [pc EXCEPT !["posix"] = "idle"]
    /\ wg' = wg - 1
    /\ job' = "none"
    /\ last' = result

\* The OnShutdown callbacks of the old instance, once it is stopped.
ShutdownOld ==
    /\ pc["posix"] = "shutold"
    /\ ran' = [ran EXCEPT ![old] = @ + 1]
    /\ \/ /\ EndRestart("ok")
          /\ held' = held \ {old}
       \/ /\ \/ "shutdown" \in Faults /\ Goto("posix", "shutold", "failed")
             \/ "panic" \in Faults /\ Goto("posix", "shutold", "recovered")
          /\ UNCHANGED <<held, job, wg, last>>
    /\ UNCHANGED <<exit, instVars, srvVars, hooks, once, fired, cbTodo, old, new,
                   restartFds, saved, stopVars>>

\* Faulty variant: the hooks of the failed instance stay.
restoreEventHooks_Merged(h) == hooks \cup h
\* The table is purged and filled again.
restoreEventHooks(h) == h

\* An error return: the handler restores the hooks.
RestartFailed ==
    /\ pc["posix"] = "failed"
    /\ EndRestart("error")
    /\ hooks' = restoreEventHooks(saved)
    /\ UNCHANGED <<exit, instVars, srvVars, held, ran, once, fired, cbTodo, old, new,
                   restartFds, saved, stopVars>>

\* A recovered panic: the results are unnamed, so the handler sees a nil error.
RestartRecovered ==
    /\ pc["posix"] = "recovered"
    /\ EndRestart("panic")
    /\ UNCHANGED <<exit, instVars, srvVars, cbVars, old, new, restartFds, saved, stopVars>>

---------------------------------------------------------------------------
(* Instance.Stop, called by Restart, and the loop of the package's Stop.    *)

\* http.Server.Shutdown closes the listener of a server that is serving, then
\* waits for its connections.
StopServer ==
    /\ Goto("posix", "stop", "stop")
    /\ drain = {}
    /\ \E p \in todo :
          /\ todo' = todo \ {p}
          /\ drain' = {p}
          /\ down' = down \cup {p}
          /\ lfd' = IF p \in serve THEN lfd \ {p} ELSE lfd
    /\ UNCHANGED <<exit, job, instVars, servers, serve, packet, busy, wg, cbVars,
                   reloadVars, victim>>

\* Faulty variant: no grace period.
ShutdownReturns_NoTimeout ==
    /\ Goto("posix", "stop", "stop")
    /\ drain # {} /\ drain \cap busy = {}
    /\ drain' = {}
    /\ UNCHANGED <<exit, job, instVars, srvVars, wg, cbVars, reloadVars, victim, todo>>

\* Shutdown returns when the requests are done or when the grace period ends;
\* the second is an error Instance.Stop logs and ignores.
ShutdownReturns ==
    /\ Goto("posix", "stop", "stop")
    /\ drain # {}
    /\ drain' = {}
    /\ UNCHANGED <<exit, job, instVars, srvVars, wg, cbVars, reloadVars, victim, todo>>

SpliceOut ==
    /\ Goto("posix", "stop", IF job = "reload" THEN "shutold" ELSE "stopall")
    /\ drain = {} /\ todo = {}
    /\ instancesMu = Free
    /\ instances' = Without(victim)
    /\ victim' = NoInst
    /\ UNCHANGED <<exit, job, instancesMu, made, config, srvVars, wg, cbVars, reloadVars,
                   todo, drain>>

StopNext ==
    /\ Goto("posix", "stopall", "stop")
    /\ instancesMu = Free
    /\ instances # <<>>
    /\ victim' = Head(instances)
    /\ todo' = ServersOf(Head(instances))
    /\ UNCHANGED <<exit, job, instVars, srvVars, wg, cbVars, reloadVars, drain>>

\* Stop returns: SIGTERM exits, Upgrade goes back to the signal loop.
StopReturns ==
    /\ Goto("posix", "stopall", "idle")
    /\ instancesMu = Free
    /\ instances = <<>>
    /\ IF job = "term" THEN Exit("term") ELSE UNCHANGED exit
    /\ UNCHANGED <<job, instVars, srvVars, wg, cbVars, reloadVars, stopVars>>

---------------------------------------------------------------------------
(* Shutdown signals.                                                        *)

\* SIGINT: the first one runs the shutdown callbacks in a new goroutine, a
\* second one exits at once.
InterruptSignal ==
    /\ SignalAllowed("INT")
    /\ \/ Goto("sigint", "idle", "once") /\ UNCHANGED exit
       \/ exit = "running" /\ pc["sigint"] # "idle" /\ Exit("force") /\ UNCHANGED pc
    /\ UNCHANGED <<job, instVars, srvVars, wg, cbVars, reloadVars, stopVars>>

TermSignal ==
    /\ SignalAllowed("TERM")
    /\ Goto("posix", "idle", "once")
    /\ job' = "term"
    /\ UNCHANGED <<exit, instVars, srvVars, wg, cbVars, reloadVars, stopVars>>

QuitSignal ==
    /\ SignalAllowed("QUIT")
    /\ Goto("posix", "idle", "idle")
    /\ Exit("quit")
    /\ UNCHANGED <<job, instVars, srvVars, wg, cbVars, reloadVars, stopVars>>

AfterCallbacks(t) == IF t = "sigint" THEN "exiting" ELSE "stopall"

\* executeShutdownCallbacks: sync.Once lets one caller in and makes the other
\* wait until it is done.  The shutdown event comes first.
EnterOnce(t) ==
    /\ \/ /\ once = "idle"
          /\ Goto(t, "once", "lock")
          /\ once' = "running"
          /\ fired' = hooks
       \/ /\ once = "done"
          /\ Goto(t, "once", AfterCallbacks(t))
          /\ UNCHANGED <<once, fired>>
    /\ UNCHANGED <<exit, job, instVars, srvVars, wg, hooks, held, ran, cbTodo, reloadVars,
                   stopVars>>

\* allShutdownCallbacks holds instancesMu while the callbacks run.
LockInstances(t) ==
    /\ Goto(t, "lock", "callbacks")
    /\ instancesMu = Free
    /\ instancesMu' = t
    /\ cbTodo' = instances
    /\ UNCHANGED <<exit, job, instances, made, config, srvVars, wg, hooks, held, ran, once,
                   fired, reloadVars, stopVars>>

RunShutdownCallbacks(t) ==
    /\ Goto(t, "callbacks", "callbacks")
    /\ cbTodo # <<>>
    /\ ran' = [ran EXCEPT ![Head(cbTodo)] = @ + 1]
    /\ held' = held \ {Head(cbTodo)}
    /\ cbTodo' = Tail(cbTodo)
    /\ UNCHANGED <<exit, job, instVars, srvVars, wg, hooks, once, fired, reloadVars,
                   stopVars>>

UnlockInstances(t) ==
    /\ Goto(t, "callbacks", AfterCallbacks(t))
    /\ cbTodo = <<>>
    /\ instancesMu' = Free
    /\ once' = "done"
    /\ UNCHANGED <<exit, job, instances, made, config, srvVars, wg, hooks, held, ran,
                   fired, cbTodo, reloadVars, stopVars>>

InterruptExits ==
    /\ exit = "running"
    /\ pc["sigint"] = "exiting"
    /\ Exit("int")
    /\ UNCHANGED <<pc, job, instVars, srvVars, wg, cbVars, reloadVars, stopVars>>

---------------------------------------------------------------------------
(* SIGUSR2: the parent's side of Upgrade.                                    *)

UpgradeSignal ==
    /\ SignalAllowed("USR2")
    /\ Goto("posix", "idle", "upgrade")
    /\ instancesMu = Free
    /\ instances # <<>>
    /\ job' = "upgrade"
    /\ UNCHANGED <<exit, instVars, srvVars, wg, cbVars, reloadVars, stopVars>>

\* The child reports success, and the parent stops everything, or it fails.
ChildAnswers ==
    /\ \/ Goto("posix", "upgrade", "stopall") /\ UNCHANGED job
       \/ Goto("posix", "upgrade", "idle") /\ job' = "none"
    /\ UNCHANGED <<exit, instVars, srvVars, wg, cbVars, reloadVars, stopVars>>

---------------------------------------------------------------------------
(* The server goroutines and the clients.                                   *)

\* Serve returns once the server is shut down; its listener is then closed.
ServeReturns(p) ==
    /\ exit = "running"
    /\ p \in serve /\ p \in down
    /\ serve' = serve \ {p}
    /\ lfd' = lfd \ {p}
    /\ wg' = wg - 1
    /\ UNCHANGED <<procVars, instVars, servers, packet, down, busy, cbVars, reloadVars,
                   stopVars>>

\* ServePacket returns at once unless QUIC is enabled.
ServePacketReturns(p) ==
    /\ exit = "running"
    /\ p \in packet
    /\ packet' = packet \ {p}
    /\ wg' = wg - 1
    /\ UNCHANGED <<procVars, instVars, servers, lfd, serve, down, busy, cbVars, reloadVars,
                   stopVars>>

RequestStarts(p) ==
    /\ exit = "running"
    /\ p \in serve /\ p \in lfd /\ p \notin busy
    /\ Cardinality(busy) < MaxBusy
    /\ busy' = busy \cup {p}
    /\ UNCHANGED <<procVars, instVars, servers, lfd, serve, packet, down, wg, cbVars,
                   reloadVars, stopVars>>

RequestEnds(p) ==
    /\ exit = "running"
    /\ p \in busy
    /\ busy' = busy \ {p}
    /\ UNCHANGED <<procVars, instVars, servers, lfd, serve, packet, down, wg, cbVars,
                   reloadVars, stopVars>>

\* The process is gone.
Terminated == exit # "running" /\ UNCHANGED vars

StartStep(t) ==
    \/ AppendInstance(t) \/ ExecuteDirectives(t) \/ RunStartupCallbacks(t)
    \/ Listen(t) \/ SpawnServers(t) \/ Unlist(t)
CallbackStep(t) ==
    \/ EnterOnce(t) \/ LockInstances(t) \/ RunShutdownCallbacks(t) \/ UnlockInstances(t)
MainStep == StartStep("main") \/ MainPanics \/ WaitReturns
PosixStep ==
    \/ StartStep("posix") \/ CallbackStep("posix")
    \/ RunRestartCallbacks \/ ShutdownOld \/ RestartFailed \/ RestartRecovered
    \/ StopServer \/ ShutdownReturns \/ SpliceOut \/ StopNext \/ StopReturns
    \/ ChildAnswers
SigintStep == CallbackStep("sigint") \/ InterruptExits
SignalStep ==
    \/ ReloadSignal \/ InterruptSignal \/ TermSignal \/ QuitSignal \/ UpgradeSignal
ServerStep == \E p \in Server : ServeReturns(p) \/ ServePacketReturns(p)
ClientStep == \E p \in Server : RequestStarts(p) \/ RequestEnds(p)

Next ==
    \/ MainStep \/ PosixStep \/ SigintStep \/ SignalStep \/ ServerStep \/ ClientStep
    \/ Terminated

Spec == Init /\ [][Next]_vars

\* Goroutines that can run are eventually scheduled; sync.Mutex hands the lock
\* to a goroutine that has waited for a millisecond, so that none starves.
Fairness ==
    /\ SF_vars(MainStep) /\ SF_vars(PosixStep) /\ SF_vars(SigintStep)
    /\ WF_vars(ServerStep)

FairSpec == Spec /\ Fairness

---------------------------------------------------------------------------
(* Properties.                                                              *)

\* The state of the process and its threads, of the instances, of the servers.
ProcessOK ==
    /\ pc \in [Threads -> Labels]
    /\ exit \in {"running", "fatal", "crash", "wait", "term", "force", "int", "quit"}
    /\ job \in {"none", "reload", "term", "upgrade"}
    /\ wg \in Nat
    /\ once \in {"idle", "running", "done"}
    /\ last \in {"none", "ok", "error", "panic"}
InstancesOK ==
    /\ instances \in Seq(Insts) /\ cbTodo \in Seq(Insts)
    /\ instancesMu \in Threads \cup {Free}
    /\ made \in Insts
    /\ config \in [Insts -> SUBSET Addrs]
    /\ hooks \subseteq Insts /\ held \subseteq Insts /\ fired \subseteq Insts
    /\ saved \subseteq Insts
    /\ ran \in [Insts -> Nat]
    /\ old \in Insts \cup {NoInst} /\ new \in Insts \cup {NoInst}
    /\ victim \in Insts \cup {NoInst}
    /\ restartFds \subseteq Addrs
ServersOK ==
    /\ servers \subseteq Server /\ lfd \subseteq Server /\ serve \subseteq Server
    /\ packet \subseteq Server /\ down \subseteq Server /\ busy \subseteq Server
    /\ todo \subseteq Server /\ drain \subseteq Server

TypeOK == ProcessOK /\ InstancesOK /\ ServersOK

\* The posix goroutine is inside Restart, between wg.Add(1) and wg.Done().
Restarting == job = "reload"

\* The shared WaitGroup counts exactly the running Serve and ServePacket
\* goroutines of all instances, and the Restart in progress (caddy.go: 187-188,
\* 787-806).
WaitGroupCount ==
    wg = Cardinality(serve) + Cardinality(packet) + (IF Restarting THEN 1 ELSE 0)

\* The part of the program counter of posix that lies inside Restart.
ReloadPc == {"onrestart", "append", "directives", "startup", "listen", "unlist",
             "failed", "recovered", "shutold"}
OtherPc == {"idle", "once", "lock", "callbacks", "stopall", "upgrade"}
StartPc == {"onrestart", "append", "directives", "startup", "listen"}

\* The program counters of main and posix, and job, agree.
PcInv ==
    /\ pc["posix"] \in ReloadPc \cup OtherPc \cup {"stop"}
    /\ pc["posix"] \in ReloadPc => Restarting
    /\ pc["posix"] \in OtherPc => ~Restarting

\* An instance that is starting has no server goroutine yet, and its number is
\* one that no earlier instance has.
FreshInv ==
    /\ serve \subseteq servers /\ packet \subseteq servers
    /\ \A p \in servers : p[1] <= made
    /\ new # 1 /\ new <= made
    /\ Restarting => new # NoInst
    /\ pc["main"] \in StartPc => \A p \in serve \cup packet : p[1] # 1
    /\ pc["posix"] \in StartPc => \A p \in serve \cup packet : p[1] # new

\* Instance.Wait never lets main return while a server goroutine runs or a
\* reload is under way, at whatever point of the reload the old servers end.
WaitHoldsProcess ==
    exit = "wait" => serve = {} /\ packet = {} /\ ~Restarting

\* The inductive invariant behind WaitGroupCount and WaitHoldsProcess.
IInv == TypeOK /\ PcInv /\ FreshInv /\ WaitGroupCount /\ WaitHoldsProcess

\* The address is accepted on: open listener, Serve running, not shut down.
Serving(a) == \E i \in Insts : <<i, a>> \in (lfd \cap serve) \ down

\* The instance that answers requests: a Restart that has started the new
\* instance has moved on to it.
Active == IF Restarting /\ pc["posix"] \in {"stop", "shutold"} THEN new ELSE Head(instances)

\* Graceful reload: from the moment Start returns until a shutdown or a
\* finished upgrade stops the process, every address of the active
\* configuration is being accepted on, whatever step a reload has reached and
\* however it fails.
NoDowntime ==
    pc["main"] = "wait" /\ exit = "running"
       /\ ~(job \in {"term", "upgrade"} /\ pc["posix"] # "upgrade")
    => /\ instances # <<>>
       /\ \A a \in config[Active] : Serving(a)

\* Only Stop ends the process through Wait: a reload, failed or not, never
\* makes main return.
ReloadNeverEndsProcess ==
    exit \in {"wait", "fatal"} /\ pc["main"] = "wait" => job \in {"term", "upgrade"}

\* Between reloads the registered event hooks are those of the running
\* instance: purge, re-registration and restore leave none behind.
HooksMatchInstance ==
    pc["main"] = "wait" /\ pc["posix"] = "idle" /\ job = "none"
    => hooks = {Head(instances)}

\* shutdownCallbacksOnce (sigtrap.go: 106-107): "ensures that shutdown callbacks
\* for all instances are only executed once".
CallbacksOnce == \A i \in Insts : ran[i] <= 1

\* SIGTERM stops no instance whose OnShutdown callbacks have not run, and a
\* reload that reports success has run those of the instance it replaced.
CallbacksRunOnStop ==
    /\ job = "term" /\ victim # NoInst => ran[victim] >= 1
    /\ last = "ok" /\ job = "none" => ran[old] >= 1

\* What an instance has registered goes with it: the event hooks are those of the
\* instance that runs, and its OnShutdown callbacks run once, when it is replaced.
HooksAndCallbacks == HooksMatchInstance /\ CallbacksOnce /\ CallbacksRunOnStop

\* A restart that reports failure leaves the old instance first in the list
\* and serving (caddy.go: 183): "Upon failure, i will not be replaced."
FailureKeepsOld ==
    last = "error" /\ pc["posix"] = "idle" /\ job = "none" /\ exit = "running"
    => Head(instances) = old /\ \A a \in config[old] : Serving(a)

\* SIGTERM ends the process, whatever reload or SIGINT it races with.
TermTerminates == job = "term" ~> exit # "running"

\* Every reload comes to an end.
ReloadTerminates == Restarting ~> (~Restarting \/ exit # "running")
=============================================================================
