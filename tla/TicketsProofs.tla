---------------------------- MODULE TicketsProofs ----------------------------
(***************************************************************************)
(* The window of session ticket keys, for any number of keys and of ticks.  *)
(* TicketWindow follows from an invariant that says more: the installed     *)
(* keys are the last ones to have been first, in reverse order.             *)
(***************************************************************************)
EXTENDS Tickets, SequenceTheorems, TLAPS

\* How many keys are held after n keys have been first.
Held(n) == IF n < NumTickets THEN n ELSE NumTickets

\* The keys mirror the end of front, and the governor ticks only after FirstKey.
IInv ==
    /\ keys \in Seq(Nat) /\ front \in Seq(Nat)
    /\ Len(keys) = Held(Len(front))
    /\ \A i \in 1 .. Len(keys) : keys[i] = front[Len(front) - i + 1]
    /\ governor = "waits" => front # <<>>
    /\ governor \in {"none", "starts"} => front = <<>>

\* A tick that makes room in front and puts key there keeps the mirror.
LEMMA TickInv ==
  ASSUME NumTickets \in Nat \ {0}, IInv, Tick
  PROVE  IInv'
<1> DEFINE n == Len(front)
           m == Len(keys)
<1>1. n \in Nat \ {0} /\ m = Held(n) /\ m \in Nat \ {0} /\ m <= n /\ m <= NumTickets
  BY DEF IInv, Tick, Held
<1>2. PICK key \in {keys[1], n + 1} :
         keys' = [Pushed(keys) EXCEPT ![1] = key] /\ front' = Append(front, key)
  BY DEF Tick
<1>3. key \in Nat
  BY <1>1, <1>2 DEF IInv
<1> DEFINE l == IF m < NumTickets THEN m + 1 ELSE m
<1>4. l = Held(n + 1) /\ l \in Nat \ {0} /\ l <= m + 1
  BY <1>1 DEF Held
<1>5. Pushed(keys) = [i \in 1 .. l |-> IF i = 1 THEN keys[1] ELSE keys[i - 1]]
  BY DEF Pushed
<1>6. keys' = [i \in 1 .. l |-> IF i = 1 THEN key ELSE keys[i - 1]]
  BY <1>2, <1>4, <1>5
<1>7. \A i \in 1 .. l : keys'[i] \in Nat
  <2> SUFFICES ASSUME NEW i \in 1 .. l PROVE keys'[i] \in Nat
    OBVIOUS
  <2>1. CASE i = 1
    BY <1>3, <1>6, <2>1
  <2>2. CASE i # 1
    <3>1. i - 1 \in 1 .. m /\ keys'[i] = keys[i - 1]
      BY <1>1, <1>4, <1>6, <2>2
    <3> QED
      BY <3>1 DEF IInv
  <2> QED
    BY <2>1, <2>2
<1>8. keys' \in Seq(Nat) /\ Len(keys') = l
  <2>1. keys' \in [1 .. l -> Nat]
    BY <1>6, <1>7
  <2>2. keys' \in Seq(Nat) /\ DOMAIN keys' = 1 .. l
    BY <1>4, <2>1, SeqDef
  <2> QED
    BY <1>4, <2>2
<1>9. front' \in Seq(Nat) /\ Len(front') = n + 1 /\ front' # <<>>
  <2>1. front \in Seq(Nat)
    BY DEF IInv
  <2>2. front' \in Seq(Nat) /\ Len(front') = n + 1
    BY <1>2, <1>3, <2>1
  <2> QED
    BY <1>1, <2>2
<1>10. \A i \in 1 .. l : keys'[i] = front'[(n + 1) - i + 1]
  <2> SUFFICES ASSUME NEW i \in 1 .. l PROVE keys'[i] = front'[(n + 1) - i + 1]
    OBVIOUS
  <2>1. CASE i = 1
    <3>1. (n + 1) - i + 1 = n + 1
      BY <1>1, <2>1
    <3>2. front'[n + 1] = key
      BY <1>2, <1>3 DEF IInv
    <3> QED
      BY <1>6, <2>1, <3>1, <3>2
  <2>2. CASE i # 1
    <3> DEFINE j == n - (i - 1) + 1
    <3>1. i - 1 \in 1 .. m /\ keys'[i] = keys[i - 1]
      BY <1>1, <1>4, <1>6, <2>2
    <3>2. keys[i - 1] = front[j]
      BY <3>1 DEF IInv
    <3>3. j \in 1 .. n /\ (n + 1) - i + 1 = j
      BY <1>1, <3>1
    <3>4. front'[j] = front[j]
      BY <1>2, <1>3, <3>3 DEF IInv
    <3> QED
      BY <3>1, <3>2, <3>3, <3>4
  <2> QED
    BY <2>1, <2>2
<1>11. governor' = "waits"
  BY DEF Tick
<1> QED
  BY <1>4, <1>8, <1>9, <1>10, <1>11 DEF IInv

LEMMA NextInv ==
  ASSUME NumTickets \in Nat \ {0}, IInv, [Next]_tvars
  PROVE  IInv'
<1>1. CASE FirstKey
  <2>1. CASE UNCHANGED <<keys, front>> /\ governor' = "ended"
    BY <2>1 DEF IInv, Held
  <2>2. CASE keys' = <<1>> /\ front' = <<1>> /\ governor' = "waits"
    BY <2>2 DEF IInv, Held
  <2> QED
    BY <1>1, <2>1, <2>2 DEF FirstKey
<1>2. CASE Tick
  BY <1>2, TickInv
<1>3. CASE Serve
  BY <1>3 DEF Serve, IInv, Held
<1>4. CASE GovernorExits
  BY <1>4 DEF GovernorExits, IInv, Held
<1>5. CASE StopBegins \/ StopReturns \/ Idle \/ UNCHANGED tvars
  <2>1. UNCHANGED <<governor, keys, front>>
    BY <1>5 DEF StopBegins, StopReturns, Idle, tvars
  <2> QED
    BY <2>1 DEF IInv, Held
<1> QED
  BY <1>1, <1>2, <1>3, <1>4, <1>5 DEF Next

\* The i-th key was first Len(front) - i ticks ago.
LEMMA WindowFollows ==
  ASSUME NumTickets \in Nat \ {0}, IInv
  PROVE  TicketWindow
<1> DEFINE n == Len(front)
<1>1. n \in Nat /\ Len(keys) = Held(n) /\ DOMAIN keys = 1 .. Held(n) /\ DOMAIN front = 1 .. n
  BY DEF IInv
<1>2. ASSUME NEW k, NEW i \in DOMAIN keys, keys[i] = k
      PROVE  \E j \in DOMAIN front : front[j] = k /\ j + NumTickets > Len(front)
  <2>1. n - i + 1 \in 1 .. n /\ (n - i + 1) + NumTickets > n
    BY <1>1, <1>2 DEF Held
  <2>2. front[n - i + 1] = k
    BY <1>1, <1>2 DEF IInv
  <2> QED
    BY <1>1, <2>1, <2>2
<1>3. ASSUME NEW k, NEW j \in DOMAIN front, front[j] = k, j + NumTickets > Len(front)
      PROVE  \E i \in DOMAIN keys : keys[i] = k
  <2> DEFINE i == n - j + 1
  <2>1. i \in 1 .. Held(n) /\ n - i + 1 = j
    BY <1>1, <1>3 DEF Held
  <2>2. keys[i] = front[n - i + 1]
    BY <1>1, <2>1 DEF IInv
  <2> QED
    BY <1>1, <1>3, <2>1, <2>2
<1> QED
  BY <1>2, <1>3 DEF TicketWindow

\* TicketWindow for any number of keys: neither the copying of the keys nor a tick
\* without entropy loses a key early or keeps one too long.
THEOREM TicketWindowCorrect ==
  ASSUME NumTickets \in Nat \ {0}
  PROVE  Spec => []TicketWindow
<1>1. Init => IInv
  BY DEF Init, IInv, Held
<1>2. IInv /\ [Next]_tvars => IInv'
  BY NextInv
<1>3. IInv => TicketWindow
  BY WindowFollows
<1> QED
  BY <1>1, <1>2, <1>3, PTL DEF Spec
=============================================================================
