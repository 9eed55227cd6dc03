----------------------------- MODULE ProxyProofs -----------------------------
(***************************************************************************)
(* Proofs about module Proxy, for any number of requests and hosts and any  *)
(* settings of the upstream.                                                *)
(***************************************************************************)
EXTENDS Proxy, FiniteSetTheorems, TLAPS

\* A request has a host from the moment one is selected.
HostChosen == \A r \in Reqs : pc[r] \in {"send", "trip"} => host[r] \in Hosts

\* The inductive invariant: the counters match the goroutines they count.
IInv == TypeOK /\ ConnsCount /\ FailsCount /\ HostChosen

\* The requests on a host are finitely many.
LEMMA OnHostFinite == ASSUME NEW h PROVE IsFiniteSet(OnHost(h)) /\ Cardinality(OnHost(h)) \in Nat
<1>1. OnHost(h) \subseteq Reqs
  BY DEF OnHost
<1> QED
  BY <1>1, ReqsAssumption, FS_Subset, FS_CardinalityType

\* A step of a request outside its round trip leaves the requests of every host.
LEMMA OffTrip ==
    ASSUME TypeOK, NEW r \in Reqs, NEW l \in Labels, l # "trip", pc[r] # "trip",
           pc' = [pc EXCEPT ![r] = l],
           \A q \in Reqs : q # r => host'[q] = host[q]
    PROVE  \A h : OnHost(h)' = OnHost(h)
<1> TAKE h
<1>1. \A q \in Reqs : pc'[q] = "trip" /\ host'[q] = h <=> pc[q] = "trip" /\ host[q] = h
  BY DEF TypeOK
<1> QED
  BY <1>1 DEF OnHost

\* Initially nothing is counted.
LEMMA InitInv == Init => IInv
<1> SUFFICES ASSUME Init PROVE IInv
  OBVIOUS
<1>1. TypeOK
  BY HostsAssumption, SettingsAssumption DEF Init, TypeOK, Labels, Hosts
<1>2. \A h : OnHost(h) = {}
  BY DEF OnHost, Init
<1>3. ConnsCount
  BY <1>2, FS_EmptySet DEF ConnsCount, Init
<1> QED
  BY <1>1, <1>3 DEF IInv, FailsCount, HostChosen, Init

\* Requests that begin, select, retry or give up.
LEMMA QuietInv ==
    ASSUME IInv, NEW r \in Reqs,
           Receive(r) \/ Select(r) \/ PolicySelect(r) \/ Retry(r)
    PROVE  IInv'
<1>0. TypeOK /\ ConnsCount /\ FailsCount /\ HostChosen
  BY DEF IInv
<1>1. /\ UNCHANGED <<conns, fails, sleeping, unhealthy, worker, checked, stopper>>
      /\ pc[r] # "trip"
      /\ \E l \in Labels \ {"trip"} : pc' = [pc EXCEPT ![r] = l]
  BY <1>0 DEF Receive, Select, PolicySelect, Retry, Return, Goto, Labels, failVars, workerVars
<1>2. \/ host' = host /\ pc'[r] # "send"
      \/ host' = [host EXCEPT ![r] = None] /\ pc'[r] # "send"
      \/ \E h \in Hosts : host' = [host EXCEPT ![r] = h]
  BY <1>0, HostsAssumption DEF Receive, Select, PolicySelect, Retry, Return, Goto, TypeOK, Hosts
<1>p. /\ path' \in [Reqs -> Seq(Hosts)]
      /\ body' \in [Reqs -> {"whole", "spent"}]
      /\ elapsed' \in [Reqs -> 0 .. TryDuration]
  <2>1. CASE UNCHANGED <<path, body, elapsed>>
    BY <1>0, <2>1 DEF TypeOK
  <2>2. CASE Return(r, "retry")
    BY <1>0, <2>2, SettingsAssumption DEF Return, TypeOK
  <2> QED
    BY <2>1, <2>2 DEF Receive, Select, PolicySelect, Retry
<1>3. PICK l \in Labels \ {"trip"} : pc' = [pc EXCEPT ![r] = l]
  BY <1>1
<1>4. /\ pc' \in [Reqs -> Labels]
      /\ host' \in [Reqs -> Hosts \cup {None}]
      /\ \A q \in Reqs : q # r => host'[q] = host[q] /\ pc'[q] = pc[q]
  BY <1>0, <1>2, <1>3 DEF TypeOK
<1>5. TypeOK'
  BY <1>0, <1>1, <1>4, <1>p DEF TypeOK
<1>6. \A h : OnHost(h)' = OnHost(h)
  BY <1>0, <1>1, <1>3, <1>4, OffTrip
<1>7. ConnsCount' /\ FailsCount'
  BY <1>0, <1>1, <1>6 DEF ConnsCount, FailsCount
<1>8. pc'[r] = "send" => host'[r] \in Hosts
  BY <1>0, <1>2 DEF TypeOK
<1>9. pc'[r] # "trip"
  BY <1>0, <1>3 DEF TypeOK
<1>10. HostChosen'
  BY <1>0, <1>4, <1>8, <1>9 DEF HostChosen
<1> QED
  BY <1>5, <1>7, <1>10 DEF IInv

\* Sending adds the request to those of its host, and one to Conns.
LEMMA SendInv == ASSUME IInv, NEW r \in Reqs, Send(r) PROVE IInv'
<1>0. TypeOK /\ ConnsCount /\ FailsCount /\ HostChosen
  BY DEF IInv
<1>1. /\ pc[r] = "send" /\ pc' = [pc EXCEPT ![r] = "trip"] /\ host' = host
      /\ host[r] \in Hosts
      /\ conns' = [conns EXCEPT ![host[r]] = @ + 1]
  BY <1>0 DEF Send, Goto, HostChosen
<1>2. path' \in [Reqs -> Seq(Hosts)]
  <2>1. <<host[r]>> \o path[r] \in Seq(Hosts)
    BY <1>0, <1>1 DEF TypeOK
  <2> QED
    BY <1>0, <2>1 DEF Send, TypeOK
<1>3. body' \in [Reqs -> {"whole", "spent"}]
  BY <1>0 DEF Send, TypeOK
<1>u. UNCHANGED <<elapsed, fails, sleeping, unhealthy, worker, checked, stopper>>
  BY DEF Send, failVars, workerVars
<1>c. conns' \in [Hosts -> Nat] /\ pc' \in [Reqs -> Labels]
  BY <1>0, <1>1 DEF TypeOK, Labels
<1>4. TypeOK'
  BY <1>0, <1>1, <1>2, <1>3, <1>u, <1>c DEF TypeOK
<1>5. r \notin OnHost(host[r]) /\ OnHost(host[r])' = OnHost(host[r]) \cup {r}
  BY <1>0, <1>1 DEF OnHost, TypeOK
<1>6. \A h \in Hosts : h # host[r] => OnHost(h)' = OnHost(h)
  BY <1>0, <1>1 DEF OnHost, TypeOK
<1>7. Cardinality(OnHost(host[r])') = Cardinality(OnHost(host[r])) + 1
  BY <1>5, OnHostFinite, FS_AddElement
<1>8. ConnsCount'
  BY <1>0, <1>1, <1>6, <1>7 DEF ConnsCount, TypeOK
<1>9. FailsCount' /\ HostChosen'
  BY <1>0, <1>1 DEF Send, FailsCount, HostChosen, failVars, TypeOK
<1> QED
  BY <1>4, <1>8, <1>9 DEF IInv

\* However a round trip ends, the request leaves its host and Conns is one less.
LEMMA LeaveTrip ==
    ASSUME IInv, NEW r \in Reqs, pc[r] = "trip", NEW l \in Labels, l # "trip",
           pc' = [pc EXCEPT ![r] = l], host' = [host EXCEPT ![r] = None],
           conns' = [conns EXCEPT ![host[r]] = @ - 1]
    PROVE  conns' \in [Hosts -> Nat] /\ ConnsCount'
<1>0. TypeOK /\ ConnsCount
  BY DEF IInv
<1>h. PICK g \in Hosts : g = host[r]
  BY DEF IInv, HostChosen
<1>1. r \in OnHost(g) /\ OnHost(g)' = OnHost(g) \ {r}
  BY <1>0, <1>h DEF OnHost, TypeOK
<1>2. \A h \in Hosts : h # g => OnHost(h)' = OnHost(h)
  BY <1>0, <1>h, HostsAssumption DEF OnHost, TypeOK, Hosts, None
<1>3. Cardinality(OnHost(g)') = Cardinality(OnHost(g)) - 1
  BY <1>1, OnHostFinite, FS_RemoveElement
<1>4. conns[g] - 1 \in Nat
  <2>1. OnHost(g) # {}
    BY <1>1
  <2>2. Cardinality(OnHost(g)) # 0
    BY <2>1, OnHostFinite, FS_EmptySet
  <2> QED
    BY <1>0, <2>2, OnHostFinite DEF ConnsCount
<1>5. conns' \in [Hosts -> Nat]
  BY <1>0, <1>h, <1>4 DEF TypeOK
<1>6. ConnsCount'
  BY <1>0, <1>h, <1>2, <1>3 DEF ConnsCount, TypeOK
<1> QED
  BY <1>5, <1>6

\* A round trip that ends the request.
LEMMA TripEndsInv == ASSUME IInv, NEW r \in Reqs, TripEnds(r) PROVE IInv'
<1>0. TypeOK /\ FailsCount /\ HostChosen
  BY DEF IInv
<1>1. /\ pc[r] = "trip" /\ pc' = [pc EXCEPT ![r] = "done"]
      /\ conns' = [conns EXCEPT ![host[r]] = @ - 1]
      /\ host' = [host EXCEPT ![r] = None]
      /\ UNCHANGED <<fails, sleeping, unhealthy, worker, checked, stopper>>
  BY DEF TripEnds, Return, Goto, failVars, workerVars
<1>p. /\ path' \in [Reqs -> Seq(Hosts)]
      /\ body' \in [Reqs -> {"whole", "spent"}]
      /\ elapsed' \in [Reqs -> 0 .. TryDuration]
  BY <1>0, SettingsAssumption DEF TripEnds, Return, TypeOK
<1>2. conns' \in [Hosts -> Nat] /\ ConnsCount'
  BY <1>1, LeaveTrip DEF Labels
<1>3. TypeOK'
  BY <1>0, <1>1, <1>2, <1>p DEF TypeOK, Labels
<1>4. FailsCount' /\ HostChosen'
  BY <1>0, <1>1 DEF FailsCount, HostChosen, TypeOK
<1> QED
  BY <1>2, <1>3, <1>4 DEF IInv

\* A round trip that fails: the failure is counted with its goroutine, or not at
\* all.
LEMMA TripFailsInv == ASSUME IInv, NEW r \in Reqs, TripFails(r) PROVE IInv'
<1>0. TypeOK /\ FailsCount /\ HostChosen
  BY DEF IInv
<1>1. /\ pc[r] = "trip" /\ pc' = [pc EXCEPT ![r] = "retry"] /\ host[r] \in Hosts
      /\ conns' = [conns EXCEPT ![host[r]] = @ - 1]
      /\ host' = [host EXCEPT ![r] = None]
      /\ UNCHANGED <<path, elapsed, unhealthy, worker, checked, stopper>>
  BY <1>0 DEF TripFails, Goto, workerVars, HostChosen
<1>2. conns' \in [Hosts -> Nat] /\ ConnsCount'
  BY <1>1, LeaveTrip DEF Labels
<1>3. body' \in [Reqs -> {"whole", "spent"}]
  BY <1>0 DEF TripFails, TypeOK
<1>4. fails' \in [Hosts -> Nat] /\ sleeping' \in [Hosts -> Nat] /\ FailsCount'
  <2>1. CASE FailTimeout > 0
    <3>1. /\ fails' = [fails EXCEPT ![host[r]] = @ + 1]
          /\ sleeping' = [sleeping EXCEPT ![host[r]] = @ + 1]
      BY <2>1 DEF TripFails, RememberFailure
    <3> QED
      BY <1>0, <1>1, <3>1 DEF TypeOK, FailsCount
  <2>2. CASE ~(FailTimeout > 0)
    BY <1>0, <2>2 DEF TripFails, RememberFailure, TypeOK, FailsCount, failVars
  <2> QED
    BY <2>1, <2>2
<1>5. TypeOK'
  BY <1>0, <1>1, <1>2, <1>3, <1>4 DEF TypeOK, Labels
<1>6. HostChosen'
  BY <1>0, <1>1 DEF HostChosen, TypeOK
<1> QED
  BY <1>2, <1>4, <1>5, <1>6 DEF IInv

\* The steps that touch no request: clocks, timeouts, health checks, Stop.
LEMMA BackgroundInv ==
    ASSUME IInv,
           \/ \E r \in Reqs : TimePasses(r)
           \/ \E h \in Hosts : FailTimeoutEnds(h)
           \/ Worker \/ CloseStop \/ StopReturns \/ UNCHANGED vars
    PROVE  IInv'
<1>0. TypeOK /\ ConnsCount /\ FailsCount /\ HostChosen
  BY DEF IInv
<1>1. UNCHANGED <<pc, host, path, body, conns>>
  BY DEF TimePasses, FailTimeoutEnds, Worker, CheckHost, Tick, WorkerStops,
         CloseStop, StopReturns, vars
<1>2. elapsed' \in [Reqs -> 0 .. TryDuration]
  <2>1. CASE UNCHANGED elapsed
    BY <1>0, <2>1 DEF TypeOK
  <2>2. CASE \E r \in Reqs : TimePasses(r)
    BY <1>0, <2>2, SettingsAssumption DEF TimePasses, TypeOK
  <2> QED
    BY <2>1, <2>2 DEF FailTimeoutEnds, Worker, CheckHost, Tick, WorkerStops,
                      CloseStop, StopReturns, vars
<1>3. fails' \in [Hosts -> Nat] /\ sleeping' \in [Hosts -> Nat] /\ FailsCount'
  <2>1. CASE UNCHANGED failVars
    BY <1>0, <2>1 DEF TypeOK, FailsCount, failVars
  <2>2. CASE \E h \in Hosts : FailTimeoutEnds(h)
    BY <1>0, <2>2 DEF FailTimeoutEnds, TypeOK, FailsCount
  <2> QED
    BY <2>1, <2>2 DEF TimePasses, Worker, CheckHost, Tick, WorkerStops,
                      CloseStop, StopReturns, vars, failVars
<1>4. /\ unhealthy' \in [Hosts -> {"yes", "no"}]
      /\ worker' \in {"checking", "waiting", "gone"}
      /\ checked' \in 0 .. NumHosts - 1
      /\ stopper' \in {"running", "closed", "stopped"}
  <2>1. CASE CheckHost
    <3>1. unhealthy' \in [Hosts -> {"yes", "no"}] /\ stopper' = stopper
      BY <1>0, <2>1 DEF CheckHost, TypeOK
    <3>2. checked' \in 0 .. NumHosts - 1 /\ worker' \in {"checking", "waiting", "gone"}
      BY <1>0, <2>1, HostsAssumption DEF CheckHost, TypeOK
    <3> QED
      BY <1>0, <3>1, <3>2 DEF TypeOK
  <2>2. CASE Tick \/ WorkerStops \/ CloseStop \/ StopReturns
    BY <1>0, <2>2, HostsAssumption DEF Tick, WorkerStops, CloseStop, StopReturns, TypeOK
  <2>3. CASE UNCHANGED workerVars
    BY <1>0, <2>3 DEF workerVars, TypeOK
  <2> QED
    BY <2>1, <2>2, <2>3 DEF TimePasses, FailTimeoutEnds, Worker, vars, workerVars
<1>5. TypeOK'
  BY <1>0, <1>1, <1>2, <1>3, <1>4 DEF TypeOK
<1>6. ConnsCount' /\ HostChosen'
  BY <1>0, <1>1 DEF ConnsCount, OnHost, HostChosen
<1> QED
  BY <1>3, <1>5, <1>6 DEF IInv

\* Every step keeps the inductive invariant.
THEOREM NextInv == IInv /\ [Next]_vars => IInv'
<1> SUFFICES ASSUME IInv, [Next]_vars PROVE IInv'
  OBVIOUS
<1>1. CASE \E r \in Reqs : Request(r)
  BY <1>1, QuietInv, SendInv, TripEndsInv, TripFailsInv DEF Request
<1>2. CASE \/ \E r \in Reqs : TimePasses(r)
           \/ \E h \in Hosts : FailTimeoutEnds(h)
           \/ Worker \/ CloseStop \/ StopReturns \/ UNCHANGED vars
  BY <1>2, BackgroundInv
<1> QED
  BY <1>1, <1>2 DEF Next, Finished

\* The variables have their types; in particular neither Conns nor Fails of a
\* host is ever negative.
THEOREM Typing == Spec => []TypeOK
<1>1. IInv => TypeOK
  BY DEF IInv
<1> QED
  BY InitInv, NextInv, <1>1, PTL DEF Spec

\* Conns of a host is the number of round trips to it, panics included.
THEOREM ConnsCorrect == Spec => []ConnsCount
<1>1. IInv => ConnsCount
  BY DEF IInv
<1> QED
  BY InitInv, NextInv, <1>1, PTL DEF Spec

\* Fails of a host is the number of its failures that are not timed out.
THEOREM FailsCorrect == Spec => []FailsCount
<1>1. IInv => FailsCount
  BY DEF IInv
<1> QED
  BY InitInv, NextInv, <1>1, PTL DEF Spec

---------------------------------------------------------------------------
\* A spent body belongs to a request that is not retried, or is rewound before
\* it is sent again.
BodyInv ==
    /\ IInv
    /\ \A r \in Reqs : body[r] = "spent" =>
         pc[r] \in {"retry", "done"} \/ (TryDuration # 0 /\ pc[r] # "trip")

\* Where retrying comes with buffering, every step keeps BodyInv.
LEMMA NextBody ==
    ASSUME TryDuration # 0 => NumHosts > 1
    PROVE  BodyInv /\ [Next]_vars => BodyInv'
<1> SUFFICES ASSUME BodyInv, [Next]_vars PROVE BodyInv'
  OBVIOUS
<1> DEFINE Good(r) == body[r] = "spent" =>
                        pc[r] \in {"retry", "done"} \/ (TryDuration # 0 /\ pc[r] # "trip")
<1>0. TypeOK /\ IInv' /\ \A r \in Reqs : Good(r)
  BY NextInv DEF BodyInv, IInv
<1>1. ASSUME NEW r \in Reqs, Request(r) PROVE \A q \in Reqs : Good(q)'
  <2>1. \A q \in Reqs : q # r => pc'[q] = pc[q] /\ body'[q] = body[q]
    BY <1>0, <1>1 DEF Request, Receive, Select, PolicySelect, Send, TripEnds, TripFails,
                      Retry, Return, Goto, TypeOK
  <2>2. CASE Receive(r) \/ Select(r) \/ PolicySelect(r) \/ TripEnds(r)
    <3>1. CASE Receive(r)
      BY <1>0, <3>1 DEF Receive, Goto, TypeOK
    <3>2. CASE Select(r)
      BY <1>0, <3>2 DEF Select, Goto, TypeOK
    <3>3. CASE PolicySelect(r)
      BY <1>0, <3>3 DEF PolicySelect, Goto, TypeOK
    <3>4. CASE TripEnds(r)
      BY <1>0, <3>4 DEF TripEnds, Return, Goto, TypeOK
    <3> QED
      BY <2>2, <3>1, <3>2, <3>3, <3>4
  <2>3. CASE Send(r)
    BY <1>0, <2>3 DEF Send, Goto, Buffered, TypeOK
  <2>4. CASE TripFails(r)
    BY <1>0, <2>4 DEF TripFails, Goto, TypeOK
  <2>5. CASE Retry(r)
    <3>1. KeepRetrying(r) => TryDuration # 0
      BY <1>0, SettingsAssumption DEF KeepRetrying, TypeOK
    <3> QED
      BY <1>0, <2>5, <3>1 DEF Retry, Return, Goto, TypeOK
  <2>6. Good(r)'
    BY <1>0, <1>1, <2>2, <2>3, <2>4, <2>5 DEF Request
  <2> QED
    BY <1>0, <2>1, <2>6
<1>2. ASSUME UNCHANGED <<pc, body>> PROVE \A r \in Reqs : Good(r)'
  BY <1>0, <1>2
<1>3. \A r \in Reqs : Good(r)'
  BY <1>1, <1>2 DEF Next, Finished, TimePasses, FailTimeoutEnds, Worker, CheckHost,
                    Tick, WorkerStops, CloseStop, StopReturns, vars
<1> QED
  BY <1>0, <1>3 DEF BodyInv

\* Every round trip carries the whole body when the upstream has several hosts,
\* or when try_duration is not set (with one host and try_duration set the code
\* retries but does not buffer the body).
THEOREM BodyCorrect ==
    ASSUME TryDuration # 0 => NumHosts > 1
    PROVE  Spec => []WholeBody
<1>1. Init => BodyInv
  BY InitInv DEF BodyInv, Init
<1>2. BodyInv => WholeBody
  BY DEF BodyInv, WholeBody
<1>3. BodyInv /\ [Next]_vars => BodyInv'
  BY NextBody
<1> QED
  BY <1>1, <1>2, <1>3, PTL DEF Spec
=============================================================================
