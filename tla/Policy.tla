-------------------------------- MODULE Policy -------------------------------
(***************************************************************************)
(* The load balancing policies of caddyhttp/proxy/policy.go.  Select walks  *)
(* over the pool while other requests and the health checks change the      *)
(* availability and the connections of the hosts: a step of the model is    *)
(* one iteration of a policy's loop, and for LeastConn one read of Conns.   *)
(***************************************************************************)
EXTENDS Naturals

CONSTANTS
    PoolLen,     \* len(pool), not 0
    RobinRange,  \* values of robin, 2^32 in the code
    MaxConn,     \* bound: Conns of a host
    Policies     \* of "random", "least_conn", "round_robin", "hash", "first" and "header"

Pool == 0 .. PoolLen - 1
Nil == PoolLen
MaxInt == MaxConn + 1   \* more connections than any host has

VARIABLES
    up,       \* hosts that are Available
    conns,    \* [Pool -> Conns]
    chosen,   \* the Policy of the upstream
    robin,    \* the counter of RoundRobin
    policy,   \* the policy whose Select is running
    phase,    \* where Select is in its loop
    i,        \* iterations done
    index,    \* the index of hostByHashing
    least,    \* leastConn
    count,    \* candidates of the reservoir sample: none, one or several
    best,     \* the host to return
    steady,   \* hosts that have been available since Select was called
    quiet     \* no host has changed since Select was called

vars == <<up, conns, chosen, robin, policy, phase, i, index, least, count, best, steady, quiet>>
hostVars == <<up, conns, chosen>>
ghostVars == <<steady, quiet>>

Init ==
    /\ up = Pool /\ conns = [h \in Pool |-> 0]
    /\ chosen \in Policies
    /\ robin = 0
    /\ policy = "first" /\ phase = "idle"
    /\ i = 0 /\ index = 0 /\ least = MaxInt /\ count = 0 /\ best = Nil
    /\ steady = Pool /\ quiet = TRUE

\* Other requests come and go, hosts fail and recover.
HostChanges(h) ==
    /\ \/ up' = up \ {h} /\ conns' = conns
       \/ up' = up \cup {h} /\ conns' = conns
       \/ up' = up /\ \E c \in 0 .. MaxConn : conns' = [conns EXCEPT ![h] = c]
    /\ <<up, conns>>' # <<up, conns>> /\ UNCHANGED chosen
    /\ steady' = steady \cap up'
    /\ quiet' = FALSE
    /\ UNCHANGED <<robin, policy, phase, i, index, least, count, best>>

\* A call of Select of p, for hash with any hash(s) % poolLen.
Begin(p) ==
    /\ phase = "idle"
    /\ policy' = p /\ phase' = "loop"
    /\ i' = 0 /\ least' = MaxInt /\ count' = 0 /\ best' = Nil
    /\ IF p = "hash" THEN index' \in Pool ELSE index' = 0
    /\ steady' = up /\ quiet' = TRUE
    /\ UNCHANGED <<hostVars, robin>>

\* Header.Select: by the header's value, or in turn when the request has none.
Call ==
    \/ chosen # "header" /\ Begin(chosen)
    \/ chosen = "header" /\ (Begin("hash") \/ Begin("round_robin"))

Iteration(p) == policy = p /\ phase = "loop" /\ i < PoolLen
Skip == i' = i + 1 /\ UNCHANGED <<phase, best>>
Take(h) == best' = h /\ phase' = "end" /\ i' = i

\* rand.Int() % count == 0: the first candidate is always taken.
Sample(h) ==
    /\ count' = IF count = 0 THEN 1 ELSE 2
    /\ best' \in IF count = 0 THEN {h} ELSE {best, h}

Random ==
    /\ Iteration("random")
    /\ i' = i + 1
    /\ IF i \in up THEN Sample(i) ELSE UNCHANGED <<count, best>>
    /\ UNCHANGED <<hostVars, robin, policy, phase, index, least, ghostVars>>

\* host.Available() and the first read of host.Conns.
LeastConn ==
    /\ Iteration("least_conn")
    /\ \/ /\ i \notin up
          /\ i' = i + 1 /\ phase' = phase
       \/ /\ i \in up
          /\ i' = i
          /\ phase' = IF conns[i] < least THEN "assign" ELSE "equal"
    /\ UNCHANGED <<hostVars, robin, policy, index, least, count, best, ghostVars>>

\* leastConn = host.Conns, the second read.
LeastConnAssign ==
    /\ phase = "assign"
    /\ phase' = "equal"
    /\ least' = conns[i] /\ count' = 0
    /\ UNCHANGED <<hostVars, robin, policy, i, index, best, ghostVars>>

\* host.Conns == leastConn, the third read.
LeastConnEqual ==
    /\ phase = "equal"
    /\ phase' = "loop" /\ i' = i + 1
    /\ IF conns[i] = least THEN Sample(i) ELSE UNCHANGED <<count, best>>
    /\ UNCHANGED <<hostVars, robin, policy, index, least, ghostVars>>

\* The mutex keeps other calls out until it returns.
RoundRobin ==
    /\ Iteration("round_robin")
    /\ robin' = (robin + 1) % RobinRange
    /\ LET h == robin' % PoolLen IN IF h \in up THEN Take(h) ELSE Skip
    /\ UNCHANGED <<hostVars, policy, index, least, count, ghostVars>>

\* Faulty variant: the index grows by a square instead of a triangle.
NextIndex_Square == index + 2 * i

NextIndex == index + i

HostByHashing ==
    /\ Iteration("hash")
    /\ index' = NextIndex
    /\ LET h == index' % PoolLen IN IF h \in up THEN Take(h) ELSE Skip
    /\ UNCHANGED <<hostVars, robin, policy, least, count, ghostVars>>

First ==
    /\ Iteration("first")
    /\ IF i \in up THEN Take(i) ELSE Skip
    /\ UNCHANGED <<hostVars, robin, policy, index, least, count, ghostVars>>

\* The loop has seen the whole pool.
LoopEnds ==
    /\ phase = "loop" /\ i = PoolLen
    /\ phase' = "end"
    /\ UNCHANGED <<hostVars, robin, policy, i, index, least, count, best, ghostVars>>

\* The caller has the result, the locals of the call are gone.
Returned ==
    /\ phase = "end"
    /\ phase' = "idle"
    /\ i' = 0 /\ index' = 0 /\ least' = MaxInt /\ count' = 0 /\ best' = Nil
    /\ steady' = up /\ quiet' = TRUE
    /\ UNCHANGED <<hostVars, robin, policy>>

Next ==
    \/ \E h \in Pool : HostChanges(h)
    \/ Call \/ Random \/ LeastConn \/ LeastConnAssign \/ LeastConnEqual
    \/ RoundRobin \/ HostByHashing \/ First \/ LoopEnds \/ Returned

Spec == Init /\ [][Next]_vars

---------------------------------------------------------------------------
(* Properties                                                               *)

\* What each policy promises to return from hosts that do not change.
Suitable ==
    CASE policy = "first" -> {h \in up : \A g \in up : h <= g}
      [] policy = "least_conn" -> {h \in up : \A g \in up : conns[h] <= conns[g]}
      [] OTHER -> up

\* When no host changes during Select, the loop returns what the policy's
\* comment promises: an available host, for first the first one, for least_conn
\* one with the least connections.
QuietSuitable == phase = "end" /\ quiet /\ best # Nil => best \in Suitable

\* Select returns nil only if no host was available throughout the call, however
\* the other hosts change meanwhile.
FindsHost == phase = "end" /\ steady # {} => best # Nil

\* Every policy that takes the first suitable host it sees keeps this promise
\* when the pool's length divides the range of robin and is a power of two, so
\* that the walks of RoundRobin and of hostByHashing visit every host.
WalkFindsHost == policy # "least_conn" => FindsHost

=============================================================================
