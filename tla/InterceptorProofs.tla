-------------------------- MODULE InterceptorProofs --------------------------
(***************************************************************************)
(* Proofs about Interceptor, for any number of requests, sites and reloads. *)
(* MutexHeld is inductive together with TypeOK; OnePoW follows from it.     *)
(***************************************************************************)
EXTENDS Interceptor, TLAPS

\* The setup call in progress, which the argument loop indexes.
SetupOK == setup \in [site : Sites \cup {"none"}, args : Seq(Int \cup {Bad}), i : Nat]
IInv == TypeOK /\ MutexHeld /\ SetupOK

LEMMA InitInv == Init => IInv
  BY MessagesAssumption, FreeAssumption, LoadsAssumption
  DEF Init, IInv, TypeOK, MutexHeld, SetupOK, NoSetup, Labels, Critical

\* Loading a Caddyfile touches no request and keeps the limits integers.
LEMMA LoadInv ==
  ASSUME IInv, Load PROVE IInv'
<1> USE DEF IInv, TypeOK, SetupOK, MutexHeld, reqVars
<1>1. CASE LoadBegin
  BY <1>1, LoadsAssumption DEF LoadBegin
<1>2. CASE \E s \in Sites : SetupBegin(s)
  BY <1>2, ArgsAssumption DEF SetupBegin
<1>3. CASE SetupArg
  <2> DEFINE arg == setup.args[setup.i + 1]
  <2>1. arg \in Int \cup {Bad}
    BY <1>3 DEF SetupArg
  <2>2. maxMWM' \in Int
    BY <1>3, <2>1 DEF SetupArg, Atoi, defaultMaxMWM
  <2>3. maxTxInBundle' \in Int
    BY <1>3, <2>1 DEF SetupArg, Atoi, defaultMaxTxsInBundle
  <2>4. setup' = [setup EXCEPT !.i = setup.i + 1] /\ setup.i + 1 \in Nat
    BY <1>3 DEF SetupArg
  <2>5. SetupOK'
    BY <2>4
  <2> QED
    BY <1>3, <2>2, <2>3, <2>5 DEF SetupArg
<1>4. CASE SetupEnd
  BY <1>4 DEF SetupEnd, NoSetup
<1>5. CASE LoadEnd
  BY <1>5 DEF LoadEnd
<1> QED
  BY <1>1, <1>2, <1>3, <1>4, <1>5 DEF Load

\* A step of ServeHTTP takes or releases the mutex exactly when the request
\* enters or leaves the critical section.
LEMMA ServeInv ==
  ASSUME IInv, NEW r \in Reqs, ServeHTTP(r) PROVE IInv'
<1> USE FreeAssumption DEF IInv, TypeOK, MutexHeld, Critical, Labels, Goto, Return, Unlock
<1>1. SetupOK' /\ UNCHANGED cfgVars
  BY DEF ServeHTTP, Receive, Parse, Lock, CheckBundle, DoPoW, Respond, NextReturns,
         cfgVars, loadVars, SetupOK
<1> USE <1>1 DEF cfgVars, loadVars
<1>2. CASE Receive(r)
  <2>1. mu' = mu /\ pc[r] \notin Critical
        /\ \E l \in {"next", "done", "read", "lock"} : pc' = [pc EXCEPT ![r] = l]
    BY <1>2 DEF Receive
  <2>2. body' \in [Reqs -> {"whole", "rest"}] /\ status' \in [Reqs -> {0, 200, 400, 500}]
    BY <1>2 DEF Receive
  <2>3. UNCHANGED <<msg, site>>
    BY <1>2 DEF Receive
  <2>. pc' \in [Reqs -> Labels]
    BY <2>1
  <2>4. TypeOK'
    BY <2>1, <2>2, <2>3
  <2>5. MutexHeld'
    BY <2>1
  <2> QED
    BY <2>4, <2>5
<1>3. CASE Parse(r)
  <2>1. mu' = mu /\ pc[r] \notin Critical
        /\ \E l \in {"next", "done", "read", "lock"} : pc' = [pc EXCEPT ![r] = l]
    BY <1>3 DEF Parse
  <2>2. body' \in [Reqs -> {"whole", "rest"}] /\ status' \in [Reqs -> {0, 200, 400, 500}]
    BY <1>3 DEF Parse
  <2>3. UNCHANGED <<msg, site>>
    BY <1>3 DEF Parse
  <2>. pc' \in [Reqs -> Labels]
    BY <2>1
  <2>4. TypeOK'
    BY <2>1, <2>2, <2>3
  <2>5. MutexHeld'
    BY <2>1
  <2> QED
    BY <2>4, <2>5
<1>4. CASE Lock(r)
  BY <1>4 DEF Lock
<1>5. CASE CheckBundle(r)
  BY <1>5 DEF CheckBundle
<1>6. CASE DoPoW(r)
  BY <1>6 DEF DoPoW
<1>7. CASE Respond(r)
  BY <1>7 DEF Respond
<1>8. CASE NextReturns(r)
  BY <1>8 DEF NextReturns
<1> QED
  BY <1>2, <1>3, <1>4, <1>5, <1>6, <1>7, <1>8 DEF ServeHTTP

LEMMA NextInv == IInv /\ [Next]_vars => IInv'
<1> SUFFICES ASSUME IInv, [Next]_vars PROVE IInv'
  OBVIOUS
<1>1. CASE Load
  BY <1>1, LoadInv
<1>2. CASE \E r \in Reqs : ServeHTTP(r)
  BY <1>2, ServeInv
<1>3. CASE UNCHANGED vars
  BY <1>3 DEF IInv, TypeOK, MutexHeld, SetupOK, vars, reqVars, cfgVars, loadVars
<1> QED
  BY <1>1, <1>2, <1>3 DEF Next, Finished

LEMMA Inductive == Spec => []IInv
  BY InitInv, NextInv, PTL DEF Spec

\* Every variable keeps its type, whatever requests and reloads interleave.
THEOREM Typing == Spec => []TypeOK
<1>1. IInv => TypeOK
  BY DEF IInv
<1> QED
  BY Inductive, <1>1, PTL

\* On every path out of ServeHTTP the mutex of plugin.go: 155-156 is held
\* exactly while the request is between Lock and its return.
THEOREM MutexCorrect == Spec => []MutexHeld
<1>1. IInv => MutexHeld
  BY DEF IInv
<1> QED
  BY Inductive, <1>1, PTL

\* At most one request computes a proof of work (plugin.go: 154).
THEOREM OnePoWAtATime == Spec => []OnePoW
<1>1. IInv => OnePoW
  BY FreeAssumption DEF IInv, MutexHeld, OnePoW
<1> QED
  BY Inductive, <1>1, PTL
=============================================================================
