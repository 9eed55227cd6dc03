---------------------------- MODULE Interceptor ----------------------------
(***************************************************************************)
(* The iota directive, iota/plugin.go: its setup function, which writes the *)
(* package variables maxMWM and maxTxInBundle, and Interceptor.ServeHTTP,   *)
(* which runs attachToTangle under the package mutex mu and hands every     *)
(* other request to the next handler.  Each request is a goroutine; setup   *)
(* runs in the goroutine that loads a Caddyfile, concurrently with requests *)
(* when that is a reload.                                                   *)
(***************************************************************************)
EXTENDS Integers, Sequences

CONSTANTS
    Reqs,       \* request goroutines
    Sites,      \* sites with an iota directive
    Messages,   \* the HTTP requests clients may send
    Args,       \* argument lists the directive may have in a Caddyfile
    Bad,        \* an argument strconv.Atoi rejects
    Free,       \* the mutex has no holder
    MaxLoads    \* bound: Caddyfiles loaded

\* What ServeHTTP can tell of a request: its method; whether the body is absent,
\* unreadable, not a command (json.Unmarshal fails) or a command; the command,
\* its MWM and its number of trytes; and whether they parse, whether the proof
\* of work succeeds and whether the response can be written.
MessageType ==
    [post : BOOLEAN, body : {"none", "unreadable", "nocommand", "command"},
     attach : BOOLEAN, mwm : Int, txs : Nat, parses : BOOLEAN, works : BOOLEAN,
     writes : BOOLEAN]

ASSUME MessagesAssumption == Messages \subseteq MessageType
ASSUME ArgsAssumption == Args \subseteq Seq(Int \cup {Bad})
ASSUME FreeAssumption == Free \notin Reqs
ASSUME LoadsAssumption == MaxLoads \in Nat

defaultMaxMWM == 14
defaultMaxTxsInBundle == 20

VARIABLES
    pc,            \* [Reqs -> label]
    msg,           \* [Reqs -> Messages]: the request, once it has arrived
    site,          \* [Reqs -> Sites]: the site that serves it
    body,          \* [Reqs -> what r.Body yields: "whole", or "rest" once it is read]
    status,        \* [Reqs -> Nat]: the status ServeHTTP returned, 0 if none
    mu,            \* holder of the mutex
    maxMWM, maxTxInBundle,
    loads,         \* Caddyfiles loaded or being loaded
    todo,          \* sites whose directive the load has still to execute
    setup,         \* the setup call in progress: its site, arguments, counter i
    pending,       \* [Sites -> limits the Caddyfile being loaded grants]
    running,       \* [Sites -> limits the Caddyfile of the live instance grants]
    loading,       \* a Caddyfile is being loaded
    granted        \* [Reqs -> limits of the instance and site serving it]

reqVars == <<pc, msg, site, body, status, mu, granted>>
loadVars == <<loads, todo, setup, pending, running, loading>>
cfgVars == <<maxMWM, maxTxInBundle, loadVars>>
vars == <<reqVars, cfgVars>>

NoSetup == [site |-> "none", args |-> <<>>, i |-> 0]
NoLimits == [mwm |-> -1, txs |-> -1]
Labels == {"new", "read", "lock", "locked", "pow", "respond", "next", "nextLocked", "done"}

Init ==
    /\ pc = [r \in Reqs |-> "new"]
    /\ msg \in [Reqs -> Messages]
    /\ site \in [Reqs -> Sites]
    /\ body = [r \in Reqs |-> "whole"]
    /\ status = [r \in Reqs |-> 0]
    /\ mu = Free
    /\ maxMWM = 14
    /\ maxTxInBundle = 50
    /\ loads = 0
    /\ todo = {}
    /\ setup = NoSetup
    /\ pending = [s \in Sites |-> NoLimits]
    /\ running = [s \in Sites |-> NoLimits]
    /\ loading = FALSE
    /\ granted = [r \in Reqs |-> NoLimits]

---------------------------------------------------------------------------
(* setup                                                                    *)

\* The process starts with one Caddyfile and ends if that fails; later ones are
\* reloads, with an instance serving.
LoadBegin ==
    /\ ~loading
    /\ loads < MaxLoads
    /\ loads = 0 \/ \A s \in Sites : running[s] # NoLimits
    /\ loading' = TRUE
    /\ loads' = loads + 1
    /\ todo' = Sites
    /\ UNCHANGED <<reqVars, maxMWM, maxTxInBundle, setup, pending, running>>

SetupBegin(s) ==
    /\ loading
    /\ setup = NoSetup
    /\ s \in todo
    /\ todo' = todo \ {s}
    /\ \E a \in Args : setup' = [site |-> s, args |-> a, i |-> 0]
    /\ UNCHANGED <<reqVars, maxMWM, maxTxInBundle, loads, pending, running, loading>>

Atoi(arg, default) == IF arg = Bad THEN default ELSE arg

\* One round of the argument loop: the first argument is the MWM limit, the
\* second the bundle limit, the rest is only counted.
SetupArg ==
    /\ setup # NoSetup
    /\ setup.i < Len(setup.args)
    /\ LET arg == setup.args[setup.i + 1] IN
       /\ maxMWM' = IF setup.i = 0 THEN Atoi(arg, defaultMaxMWM) ELSE maxMWM
       /\ maxTxInBundle' = IF setup.i = 1 THEN Atoi(arg, defaultMaxTxsInBundle)
                                         ELSE maxTxInBundle
    /\ setup' = [setup EXCEPT !.i = @ + 1]
    /\ UNCHANGED <<reqVars, loads, todo, pending, running, loading>>

\* Two arguments install the middleware, any other number is an error: the
\* Caddyfile is rejected, with the package variables already written.
SetupEnd ==
    /\ setup # NoSetup
    /\ setup.i = Len(setup.args)
    /\ pending' = IF setup.i # 2 THEN pending
                  ELSE [pending EXCEPT ![setup.site] =
                          [mwm |-> Atoi(setup.args[1], defaultMaxMWM),
                           txs |-> Atoi(setup.args[2], defaultMaxTxsInBundle)]]
    /\ loading' = (setup.i = 2)
    /\ setup' = NoSetup
    /\ UNCHANGED <<reqVars, maxMWM, maxTxInBundle, loads, todo, running>>

\* The rest of the load: the new instance takes over, or a later directive or a
\* listener fails and it is discarded.
LoadEnd ==
    /\ loading
    /\ setup = NoSetup
    /\ todo = {}
    /\ running' \in {running, pending}
    /\ loading' = FALSE
    /\ UNCHANGED <<reqVars, maxMWM, maxTxInBundle, loads, todo, setup, pending>>

---------------------------------------------------------------------------
(* ServeHTTP                                                                *)

Goto(r, from, to) == pc[r] = from /\ pc' = [pc EXCEPT ![r] = to]

\* The handler returns a status of its own.
Return(r, from, code) ==
    /\ Goto(r, from, "done")
    /\ status' = [status EXCEPT ![r] = code]

Unlock(r) == mu' = Free

\* A request reaches a site whose middleware is installed; only a POST with a
\* body is looked at, and its body is read to the end.
Receive(r) ==
    /\ running[site[r]] # NoLimits
    /\ granted' = [granted EXCEPT ![r] = running[site[r]]]
    /\ \/ /\ ~msg[r].post
          /\ Goto(r, "new", "next") /\ UNCHANGED <<status, body>>
       \/ /\ msg[r].post /\ msg[r].body = "none"
          /\ Return(r, "new", 400) /\ UNCHANGED body
       \/ /\ msg[r].post /\ msg[r].body = "unreadable"
          /\ Return(r, "new", 400)
          /\ body' = [body EXCEPT ![r] = "rest"]
       \/ /\ msg[r].post /\ msg[r].body \in {"nocommand", "command"}
          /\ Goto(r, "new", "read")
          /\ body' = [body EXCEPT ![r] = "rest"]
          /\ UNCHANGED status
    /\ UNCHANGED <<msg, site, mu, cfgVars>>

\* Faulty variant: a negative MWM passes.
MWMAccepted_Negative(m) == m <= maxMWM
MWMAccepted(m) == ~(m > maxMWM \/ m < 0)

\* json.Unmarshal, then "re add body", the command and its MWM.
Parse(r) ==
    /\ \/ /\ msg[r].body = "nocommand"
          /\ Goto(r, "read", "next") /\ UNCHANGED <<status, body>>
       \/ /\ msg[r].body = "command"
          /\ body' = [body EXCEPT ![r] = "whole"]
          /\ \/ ~msg[r].attach /\ Goto(r, "read", "next") /\ UNCHANGED status
             \/ /\ msg[r].attach /\ ~MWMAccepted(msg[r].mwm)
                /\ Return(r, "read", 400)
             \/ /\ msg[r].attach /\ MWMAccepted(msg[r].mwm)
                /\ Goto(r, "read", "lock") /\ UNCHANGED status
    /\ UNCHANGED <<msg, site, mu, granted, cfgVars>>

Lock(r) ==
    /\ Goto(r, "lock", "locked")
    /\ mu = Free
    /\ mu' = r
    /\ UNCHANGED <<msg, site, body, status, granted, cfgVars>>

\* No trytes: the next handler runs with the mutex held.  Too many, or one that
\* does not parse: an error, and the deferred Unlock.
CheckBundle(r) ==
    /\ \/ /\ msg[r].txs = 0
          /\ Goto(r, "locked", "nextLocked") /\ UNCHANGED <<status, mu>>
       \/ /\ msg[r].txs # 0
          /\ msg[r].txs > maxTxInBundle \/ ~msg[r].parses
          /\ Return(r, "locked", 400) /\ Unlock(r)
       \/ /\ msg[r].txs # 0
          /\ msg[r].txs <= maxTxInBundle /\ msg[r].parses
          /\ Goto(r, "locked", "pow") /\ UNCHANGED <<status, mu>>
    /\ UNCHANGED <<msg, site, body, granted, cfgVars>>

\* Faulty variant: the error return does not unlock.
DoPoW_KeepsLock(r) ==
    /\ \/ msg[r].works /\ Goto(r, "pow", "respond") /\ UNCHANGED <<status, mu>>
       \/ ~msg[r].works /\ Return(r, "pow", 400) /\ UNCHANGED mu
    /\ UNCHANGED <<msg, site, body, granted, cfgVars>>

DoPoW(r) ==
    /\ \/ msg[r].works /\ Goto(r, "pow", "respond") /\ UNCHANGED <<status, mu>>
       \/ ~msg[r].works /\ Return(r, "pow", 400) /\ Unlock(r)
    /\ UNCHANGED <<msg, site, body, granted, cfgVars>>

Respond(r) ==
    /\ Return(r, "respond", IF msg[r].writes THEN 200 ELSE 500)
    /\ Unlock(r)
    /\ UNCHANGED <<msg, site, body, granted, cfgVars>>

\* The next handler, usually the proxy to the IRI node, returns.
NextReturns(r) ==
    /\ \/ Goto(r, "next", "done") /\ UNCHANGED mu
       \/ Goto(r, "nextLocked", "done") /\ Unlock(r)
    /\ UNCHANGED <<msg, site, body, status, granted, cfgVars>>

ServeHTTP(r) ==
    \/ Receive(r) \/ Parse(r) \/ Lock(r) \/ CheckBundle(r) \/ DoPoW(r) \/ Respond(r)
    \/ NextReturns(r)
Load == LoadBegin \/ (\E s \in Sites : SetupBegin(s)) \/ SetupArg \/ SetupEnd \/ LoadEnd

\* The last request is done, or the process has ended with a failed start.
Finished ==
    /\ ~loading /\ loads > 0
    /\ \/ loads = MaxLoads /\ \A r \in Reqs : pc[r] = "done"
       \/ \E s \in Sites : running[s] = NoLimits
    /\ UNCHANGED vars

Next == Load \/ (\E r \in Reqs : ServeHTTP(r)) \/ Finished

Spec == Init /\ [][Next]_vars

---------------------------------------------------------------------------
(* Properties                                                               *)

TypeOK ==
    /\ pc \in [Reqs -> Labels]
    /\ msg \in [Reqs -> Messages]
    /\ site \in [Reqs -> Sites]
    /\ body \in [Reqs -> {"whole", "rest"}]
    /\ status \in [Reqs -> {0, 200, 400, 500}]
    /\ mu \in Reqs \cup {Free}
    /\ maxMWM \in Int /\ maxTxInBundle \in Int
    /\ loads \in 0 .. MaxLoads

Critical == {"locked", "pow", "respond", "nextLocked"}

\* The mutex is held by exactly the request between Lock and its return, on
\* every path out of the handler (plugin.go: 155-156).
MutexHeld == \A r \in Reqs : pc[r] \in Critical <=> mu = r

\* "only allow one PoW at a time" (plugin.go: 154).
OnePoW == \A q, r \in Reqs : pc[q] \in Critical /\ pc[r] \in Critical => q = r

\* A proof of work runs only within the limits the Caddyfile grants to the site
\* that received the request (IOTA.md: 36-38): "The first argument defines the
\* maximum allowed minimum weight magnitude within the request and the second
\* the maximum amount of transactions to commence Proof of Work for."
WithinLimits ==
    \A r \in Reqs : pc[r] = "pow" =>
       /\ 0 <= msg[r].mwm /\ msg[r].mwm <= granted[r].mwm
       /\ 0 < msg[r].txs /\ msg[r].txs <= granted[r].txs

\* A request handed to the next handler still has its body (plugin.go: 138):
\* "instead of aborting, send it further to IRI".
DelegatedIntact == \A r \in Reqs : pc[r] \in {"next", "nextLocked"} => body[r] = "whole"
=============================================================================
