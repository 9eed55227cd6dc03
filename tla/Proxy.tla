-------------------------------- MODULE Proxy --------------------------------
(***************************************************************************)
(* The load-balancing reverse proxy, caddyhttp/proxy: the retry loop of     *)
(* Proxy.ServeHTTP run by concurrent requests over the hosts of one         *)
(* upstream, the counters of a host (Conns, Fails, Unhealthy), the          *)
(* goroutines that forget a failure after fail_timeout, the health check    *)
(* worker and Stop.  Module Policy has the policies Select delegates to.    *)
(***************************************************************************)
EXTENDS Naturals, Sequences, FiniteSets

CONSTANTS
    Reqs,          \* requests being served, each by its own goroutine
    NumHosts,      \* len(upstream.Hosts)
    MaxConns,      \* max_conns, 0 for no limit
    MaxFails,      \* max_fails
    FailTimeout,   \* fail_timeout: 0 or not
    TryDuration,   \* try_duration in ticks
    HealthCheck,   \* whether a health check path is configured
    MaxTries       \* bound: round trips of one request

ASSUME ReqsAssumption == IsFiniteSet(Reqs)
ASSUME HostsAssumption == NumHosts \in Nat \ {0}
ASSUME SettingsAssumption ==
    /\ MaxConns \in Nat /\ MaxFails \in Nat \ {0} /\ FailTimeout \in Nat
    /\ TryDuration \in Nat /\ MaxTries \in Nat \ {0} /\ HealthCheck \in BOOLEAN

Hosts == 1 .. NumHosts
None == 0

VARIABLES
    pc,         \* [Reqs -> label]
    host,       \* [Reqs -> the host selected, None before]
    path,       \* [Reqs -> hosts whose base path the Director has put in front]
    body,       \* [Reqs -> what outreq.Body still yields]
    elapsed,    \* [Reqs -> time.Since(start)]
    conns,      \* [Hosts -> Conns]
    fails,      \* [Hosts -> Fails]
    sleeping,   \* [Hosts -> goroutines that will decrement Fails]
    unhealthy,  \* [Hosts -> "yes" or "no"]
    worker,     \* the health check worker
    checked,    \* hosts it has checked in this round
    stopper     \* the goroutine that calls Stop

vars == <<pc, host, path, body, elapsed, conns, fails, sleeping, unhealthy,
          worker, checked, stopper>>
failVars == <<fails, sleeping>>
workerVars == <<unhealthy, worker, checked, stopper>>

Labels == {"new", "select", "policy", "send", "trip", "retry", "done"}

TypeOK ==
    /\ pc \in [Reqs -> Labels]
    /\ host \in [Reqs -> Hosts \cup {None}]
    /\ path \in [Reqs -> Seq(Hosts)]
    /\ body \in [Reqs -> {"whole", "spent"}]
    /\ elapsed \in [Reqs -> 0 .. TryDuration]
    /\ conns \in [Hosts -> Nat]
    /\ fails \in [Hosts -> Nat]
    /\ sleeping \in [Hosts -> Nat]
    /\ unhealthy \in [Hosts -> {"yes", "no"}]
    /\ worker \in {"checking", "waiting", "gone"}
    /\ checked \in 0 .. NumHosts - 1
    /\ stopper \in {"running", "closed", "stopped"}

\* NewStaticUpstreams and NewHost; the worker begins with a round of checks.
Init ==
    /\ pc = [r \in Reqs |-> "new"]
    /\ host = [r \in Reqs |-> None]
    /\ path = [r \in Reqs |-> <<>>]
    /\ body = [r \in Reqs |-> "whole"]
    /\ elapsed = [r \in Reqs |-> 0]
    /\ conns = [h \in Hosts |-> 0]
    /\ fails = [h \in Hosts |-> 0]
    /\ sleeping = [h \in Hosts |-> 0]
    /\ unhealthy = [h \in Hosts |-> "no"]
    /\ worker = IF HealthCheck THEN "checking" ELSE "gone"
    /\ checked = 0
    /\ stopper = "running"

Goto(r, from, to) == pc[r] = from /\ pc' = [pc EXCEPT ![r] = to]

\* ServeHTTP returns: its locals are gone.
Return(r, from) ==
    /\ Goto(r, from, "done")
    /\ host' = [host EXCEPT ![r] = None]
    /\ path' = [path EXCEPT ![r] = <<>>]
    /\ body' = [body EXCEPT ![r] = "whole"]
    /\ elapsed' = [elapsed EXCEPT ![r] = 0]

---------------------------------------------------------------------------
(* The state of a host.                                                     *)

Down(h) == unhealthy[h] = "yes" \/ fails[h] >= MaxFails
Full(h) == MaxConns > 0 /\ conns[h] >= MaxConns
Available(h) == ~Down(h) /\ ~Full(h)

---------------------------------------------------------------------------
(* Proxy.ServeHTTP                                                          *)

\* Faulty variant: the body is streamed even when it may have to be replayed.
Buffered_Never == FALSE

\* requiresBuffering
Buffered == NumHosts > 1 /\ TryDuration # 0

\* Faulty variant: one more round once the time is up.
KeepRetrying_OneMore(r) == elapsed[r] <= TryDuration

\* keepRetrying, for an error that is not context.Canceled.
KeepRetrying(r) == elapsed[r] < TryDuration

\* No upstream matches, or the body cannot be buffered; or the loop begins.
Receive(r) ==
    /\ \/ Goto(r, "new", "done")
       \/ Goto(r, "new", "select")
    /\ UNCHANGED <<host, path, body, elapsed, conns, failVars, workerVars>>

\* The clock of a request: it is read in keepRetrying only, so that all the time
\* since the last reading may pass there.
TimePasses(r) ==
    /\ pc[r] = "retry"
    /\ elapsed[r] < TryDuration
    /\ elapsed' = [elapsed EXCEPT ![r] = @ + 1]
    /\ UNCHANGED <<pc, host, path, body, conns, failVars, workerVars>>

\* Select with one host takes it or none; with several it looks for an available
\* one, then asks the policy.
Select(r) ==
    /\ \/ /\ \E h \in Hosts : Available(h)
          /\ Goto(r, "select", IF NumHosts = 1 THEN "send" ELSE "policy")
          /\ host' = [host EXCEPT ![r] = IF NumHosts = 1 THEN 1 ELSE None]
       \/ /\ \A h \in Hosts : ~Available(h)
          /\ Goto(r, "select", "retry")
          /\ host' = host
    /\ UNCHANGED <<path, body, elapsed, conns, failVars, workerVars>>

\* The policy looks at the hosts one after the other, so it may find none when
\* one of them is not available.
PolicySelect(r) ==
    /\ \/ \E h \in Hosts :
            /\ Available(h)
            /\ Goto(r, "policy", "send")
            /\ host' = [host EXCEPT ![r] = h]
       \/ /\ \E h \in Hosts : ~Available(h)
          /\ Goto(r, "policy", "retry")
          /\ host' = host
    /\ UNCHANGED <<path, body, elapsed, conns, failVars, workerVars>>

\* Rewinds a buffered body, counts the connection and runs the Director, which
\* joins the base path of the host and the path of outreq.
Send(r) ==
    /\ Goto(r, "send", "trip")
    /\ conns' = [conns EXCEPT ![host[r]] = @ + 1]
    /\ path' = [path EXCEPT ![r] = <<host[r]>> \o @]
    /\ body' = IF Buffered THEN [body EXCEPT ![r] = "whole"] ELSE body
    /\ UNCHANGED <<host, elapsed, failVars, workerVars>>

\* Faulty variant: Conns is decremented after the call, not by a defer.
TripEnds_NoDefer(r) ==
    /\ Return(r, "trip")
    /\ \E panics \in BOOLEAN :
         conns' = IF panics THEN conns ELSE [conns EXCEPT ![host[r]] = @ - 1]
    /\ UNCHANGED <<failVars, workerVars>>

\* A response was copied, the client is gone, the body is too large, or the
\* reverse proxy panics: the request is over.
TripEnds(r) ==
    /\ Return(r, "trip")
    /\ conns' = [conns EXCEPT ![host[r]] = @ - 1]
    /\ UNCHANGED <<failVars, workerVars>>

RememberFailure(h) ==
    IF FailTimeout > 0
      THEN /\ fails' = [fails EXCEPT ![h] = @ + 1]
           /\ sleeping' = [sleeping EXCEPT ![h] = @ + 1]
      ELSE UNCHANGED failVars

\* RoundTrip fails: the transport has closed the body, whatever it read of it.
TripFails(r) ==
    /\ Goto(r, "trip", "retry")
    /\ conns' = [conns EXCEPT ![host[r]] = @ - 1]
    /\ host' = [host EXCEPT ![r] = None]
    /\ body' = [body EXCEPT ![r] = "spent"]
    /\ RememberFailure(host[r])
    /\ UNCHANGED <<path, elapsed, workerVars>>

\* After a failure or when Select gave no host.
Retry(r) ==
    /\ \/ /\ KeepRetrying(r)
          /\ Len(path[r]) < MaxTries
          /\ Goto(r, "retry", "select")
          /\ UNCHANGED <<host, path, body, elapsed>>
       \/ /\ ~KeepRetrying(r)
          /\ Return(r, "retry")
    /\ UNCHANGED <<conns, failVars, workerVars>>

\* Faulty variant: the goroutine ends without forgetting the failure.
FailTimeoutEnds_Remembers(h) ==
    /\ sleeping[h] > 0
    /\ sleeping' = [sleeping EXCEPT ![h] = @ - 1]
    /\ UNCHANGED <<pc, host, path, body, elapsed, conns, fails, workerVars>>

\* The goroutine of a failure wakes up.
FailTimeoutEnds(h) ==
    /\ sleeping[h] > 0
    /\ sleeping' = [sleeping EXCEPT ![h] = @ - 1]
    /\ fails' = [fails EXCEPT ![h] = @ - 1]
    /\ UNCHANGED <<pc, host, path, body, elapsed, conns, workerVars>>

---------------------------------------------------------------------------
(* HealthCheckWorker and Stop                                               *)

\* healthCheck, one host: the outcome of the request to it.  After the last host
\* the worker waits.
CheckHost ==
    /\ worker = "checking"
    /\ \E u \in {"yes", "no"} : unhealthy' = [unhealthy EXCEPT ![checked + 1] = u]
    /\ checked' = (checked + 1) % NumHosts
    /\ worker' = IF checked' = 0 THEN "waiting" ELSE "checking"
    /\ UNCHANGED <<pc, host, path, body, elapsed, conns, failVars, stopper>>

\* The ticker's case of the select, possible also when stop is closed.
Tick ==
    /\ worker = "waiting"
    /\ worker' = "checking"
    /\ UNCHANGED <<pc, host, path, body, elapsed, conns, failVars, unhealthy, checked, stopper>>

WorkerStops ==
    /\ worker = "waiting" /\ stopper # "running"
    /\ worker' = "gone"
    /\ UNCHANGED <<pc, host, path, body, elapsed, conns, failVars, unhealthy, checked, stopper>>

\* Stop: close(u.stop).
CloseStop ==
    /\ stopper = "running"
    /\ stopper' = "closed"
    /\ UNCHANGED <<pc, host, path, body, elapsed, conns, failVars, unhealthy, worker, checked>>

\* Faulty variant: Stop does not wait for the worker.
StopReturns_NoWait ==
    /\ stopper = "closed"
    /\ stopper' = "stopped"
    /\ UNCHANGED <<pc, host, path, body, elapsed, conns, failVars, unhealthy, worker, checked>>

\* Stop: u.wg.Wait().
StopReturns ==
    /\ stopper = "closed" /\ worker = "gone"
    /\ stopper' = "stopped"
    /\ UNCHANGED <<pc, host, path, body, elapsed, conns, failVars, unhealthy, worker, checked>>

---------------------------------------------------------------------------
Request(r) ==
    \/ Receive(r) \/ Select(r) \/ PolicySelect(r) \/ Send(r)
    \/ TripEnds(r) \/ TripFails(r) \/ Retry(r)

Worker == CheckHost \/ Tick \/ WorkerStops

\* Everything has ended.
Finished ==
    /\ \A r \in Reqs : pc[r] = "done"
    /\ \A h \in Hosts : sleeping[h] = 0
    /\ stopper = "stopped"
    /\ UNCHANGED vars

Next ==
    \/ \E r \in Reqs : Request(r) \/ TimePasses(r)
    \/ \E h \in Hosts : FailTimeoutEnds(h)
    \/ Worker \/ CloseStop \/ StopReturns
    \/ Finished

Spec == Init /\ [][Next]_vars

\* A round trip ends (the transport and the connections have timeouts), time
\* passes, sleeping goroutines wake, health checks end; a worker that finds the
\* ticker and the stop channel ready again and again takes the stop channel.
FairSpec ==
    /\ Spec
    /\ \A r \in Reqs : WF_vars(Request(r)) /\ SF_vars(TimePasses(r))
    /\ \A h \in Hosts : WF_vars(FailTimeoutEnds(h))
    /\ WF_vars(CheckHost) /\ SF_vars(WorkerStops)
    /\ WF_vars(StopReturns)

---------------------------------------------------------------------------
(* Properties                                                               *)

OnHost(h) == {r \in Reqs : pc[r] = "trip" /\ host[r] = h}

\* Conns of a host is the number of requests making a round trip to it, however
\* the round trips end ("_always_ correctly decremented", also after a panic).
ConnsCount == \A h \in Hosts : conns[h] = Cardinality(OnHost(h))

\* Fails of a host counts exactly the failures whose fail_timeout is still
\* running, so no failure stays counted for ever and none is forgotten twice.
FailsCount == \A h \in Hosts : fails[h] = sleeping[h]

\* A request that is sent to a host, at the first try or at a later one, is sent
\* with its whole body: the body is rewound before a retry.
WholeBody == \A r \in Reqs : pc[r] = "trip" => body[r] # "spent"

\* Once Stop has returned the health of a host is never written again: Stop
\* waits for the goroutines it stops.
StoppedQuiet == [][stopper = "stopped" => UNCHANGED unhealthy]_vars

\* Every request ends, retries included, and so does Stop, also when it is called
\* during a round of health checks.
WorkEnds ==
    /\ <>(\A r \in Reqs : pc[r] = "done")
    /\ (stopper = "closed") ~> (stopper = "stopped")
=============================================================================
