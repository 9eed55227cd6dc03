-------------------------- MODULE LifecycleProofs --------------------------
(***************************************************************************)
(* Proofs about Lifecycle: typing, and the WaitGroup accounting that keeps  *)
(* the process alive through a reload, for every number of instances and    *)
(* every set of addresses, signals and faults.                              *)
(***************************************************************************)
EXTENDS Lifecycle, FiniteSetTheorems, SequenceTheorems, TLAPS

\* The servers of a process form a finite set.
LEMMA ServersFinite ==
    /\ IsFiniteSet(Server)
    /\ \A S \in SUBSET Server : IsFiniteSet(S) /\ Cardinality(S) \in Nat
<1>1. IsFiniteSet(Insts)
  BY BoundsAssumption, FS_Interval DEF Insts
<1>2. IsFiniteSet(Server)
  BY <1>1, AddrsAssumption, FS_Product DEF Server
<1>3. ASSUME NEW S \in SUBSET Server
      PROVE  IsFiniteSet(S) /\ Cardinality(S) \in Nat
  BY <1>2, FS_Subset, FS_CardinalityType
<1>. QED
  BY <1>2, <1>3

\* Splicing an instance out of the list leaves a list of instances.
LEMMA WithoutType ==
    ASSUME instances \in Seq(Insts), NEW i
    PROVE  Without(i) \in Seq(Insts)
<1>1. CASE ~Listed(i)
  BY <1>1 DEF Without
<1>2. CASE Listed(i)
  <2>. DEFINE j == CHOOSE k \in 1 .. Len(instances) : instances[k] = i
  <2>1. Without(i) = SubSeq(instances, 1, j - 1) \o SubSeq(instances, j + 1, Len(instances))
    BY <1>2 DEF Without
  <2>2. j \in 1 .. Len(instances)
    BY <1>2 DEF Listed
  <2>. HIDE DEF j
  <2>3. /\ SubSeq(instances, 1, j - 1) \in Seq(Insts)
        /\ SubSeq(instances, j + 1, Len(instances)) \in Seq(Insts)
    BY <2>2, SubSeqProperties, LenProperties
  <2>. QED
    BY <2>1, <2>3, ConcatProperties
<1>. QED
  BY <1>1, <1>2

\* The invariant holds initially.
LEMMA InitInv == Init => IInv
<1>. SUFFICES ASSUME Init PROVE IInv
  OBVIOUS
<1>1. TypeOK
  BY BoundsAssumption DEF Init, TypeOK, ProcessOK, InstancesOK, ServersOK, Threads, Labels, Insts, Server, Free, NoInst, Configs
<1>2. PcInv /\ FreshInv /\ WaitHoldsProcess
  BY BoundsAssumption DEF Init, PcInv, FreshInv, WaitHoldsProcess, ReloadPc, OtherPc, Restarting, NoInst, Threads
<1>3. WaitGroupCount
  BY FS_EmptySet DEF Init, WaitGroupCount, Restarting
<1>. QED
  BY <1>1, <1>2, <1>3 DEF IInv

\* The instance a goroutine is starting is a proper instance number.
LEMMA CurType ==
    ASSUME IInv, NEW t \in {"main", "posix"}, pc[t] \in StartPc
    PROVE  Cur(t) \in Insts /\ Cur(t) <= made
BY BoundsAssumption
   DEF IInv, TypeOK, ProcessOK, InstancesOK, ServersOK, PcInv, FreshInv, Cur, Insts, NoInst, StartPc, ReloadPc

\* The abbreviations for variables and steps are visible in the lemmas below.
USE DEF vars, procVars, instVars, srvVars, cbVars, reloadVars, stopVars, Goto, Exit

\* Every action of the start sequence and of the shutdown callbacks preserves
\* the invariant; only SpawnServers touches the WaitGroup.
LEMMA AppendInstanceInv ==
    ASSUME IInv, NEW t \in {"main", "posix"}, AppendInstance(t)
    PROVE  IInv'
<1>. Cur(t) \in Insts /\ Cur(t) <= made
  BY CurType DEF AppendInstance, StartPc
<1>1. pc' \in [Threads -> Labels]
  BY DEF IInv, TypeOK, ProcessOK, Labels, Threads, AppendInstance
<1>2. TypeOK'
  <2>1. ProcessOK'
    BY <1>1 DEF IInv, TypeOK, ProcessOK, AppendInstance
  <2>2. InstancesOK'
    BY <1>1 DEF IInv, TypeOK, InstancesOK, AppendInstance
  <2>3. ServersOK'
    BY <1>1 DEF IInv, TypeOK, ServersOK, AppendInstance
  <2>. QED
    BY <2>1, <2>2, <2>3 DEF TypeOK
<1>3. (PcInv /\ FreshInv /\ WaitGroupCount /\ WaitHoldsProcess)'
  BY DEF IInv, TypeOK, ProcessOK, InstancesOK, ServersOK, PcInv, FreshInv, WaitGroupCount,
     WaitHoldsProcess, ReloadPc, OtherPc, StartPc, Restarting, NoInst, Threads, AppendInstance,
     Insts, Server
<1>. QED
  BY <1>2, <1>3 DEF IInv

LEMMA ExecuteDirectivesInv ==
    ASSUME IInv, NEW t \in {"main", "posix"}, ExecuteDirectives(t)
    PROVE  IInv'
<1>. Cur(t) \in Insts /\ Cur(t) <= made
  BY CurType DEF ExecuteDirectives, StartPc
<1>1. pc' \in [Threads -> Labels]
  BY DEF IInv, TypeOK, ProcessOK, Labels, Threads, ExecuteDirectives, PanicPc
<1>2. TypeOK'
  <2>1. ProcessOK'
    BY <1>1 DEF IInv, TypeOK, ProcessOK, ExecuteDirectives
  <2>2. InstancesOK'
    BY <1>1 DEF IInv, TypeOK, InstancesOK, ExecuteDirectives
  <2>3. ServersOK'
    BY <1>1 DEF IInv, TypeOK, ServersOK, ExecuteDirectives
  <2>. QED
    BY <2>1, <2>2, <2>3 DEF TypeOK
<1>3. (PcInv /\ FreshInv /\ WaitGroupCount /\ WaitHoldsProcess)'
  BY DEF IInv, TypeOK, ProcessOK, InstancesOK, ServersOK, PcInv, FreshInv, WaitGroupCount,
     WaitHoldsProcess, ReloadPc, OtherPc, StartPc, Restarting, NoInst, Threads,
     ExecuteDirectives, Insts, Server, PanicPc
<1>. QED
  BY <1>2, <1>3 DEF IInv

LEMMA RunStartupCallbacksInv ==
    ASSUME IInv, NEW t \in {"main", "posix"}, RunStartupCallbacks(t)
    PROVE  IInv'
<1>1. pc' \in [Threads -> Labels]
  BY DEF IInv, TypeOK, ProcessOK, Labels, Threads, RunStartupCallbacks
<1>2. TypeOK'
  <2>1. ProcessOK'
    BY <1>1 DEF IInv, TypeOK, ProcessOK, RunStartupCallbacks
  <2>2. InstancesOK'
    BY <1>1 DEF IInv, TypeOK, InstancesOK, RunStartupCallbacks
  <2>3. ServersOK'
    BY <1>1 DEF IInv, TypeOK, ServersOK, RunStartupCallbacks
  <2>. QED
    BY <2>1, <2>2, <2>3 DEF TypeOK
<1>3. (PcInv /\ FreshInv /\ WaitGroupCount /\ WaitHoldsProcess)'
  BY DEF IInv, TypeOK, ProcessOK, InstancesOK, ServersOK, PcInv, FreshInv, WaitGroupCount,
     WaitHoldsProcess, ReloadPc, OtherPc, StartPc, Restarting, NoInst, Threads,
     RunStartupCallbacks, Insts, Server
<1>. QED
  BY <1>2, <1>3 DEF IInv

LEMMA ListenInv ==
    ASSUME IInv, NEW t \in {"main", "posix"}, Listen(t)
    PROVE  IInv'
<1>. Cur(t) \in Insts /\ Cur(t) <= made
  BY CurType DEF Listen, StartPc
<1>1. pc' \in [Threads -> Labels]
  BY DEF IInv, TypeOK, ProcessOK, Labels, Threads, Listen
<1>2. TypeOK'
  <2>1. ProcessOK'
    BY <1>1 DEF IInv, TypeOK, ProcessOK, Listen, Server
  <2>2. InstancesOK'
    BY <1>1 DEF IInv, TypeOK, InstancesOK, Listen, Server
  <2>3. ServersOK'
    <3>. PICK a \in config[Cur(t)] :
            \/ servers' = servers \cup {<<Cur(t), a>>} /\ lfd' = lfd \cup {<<Cur(t), a>>}
            \/ UNCHANGED <<servers, lfd>>
      BY DEF Listen
    <3>1. <<Cur(t), a>> \in Server
      BY DEF IInv, TypeOK, InstancesOK, Server
    <3>2. servers' \subseteq Server /\ lfd' \subseteq Server
      BY <3>1 DEF IInv, TypeOK, ServersOK
    <3>. QED
      BY <3>2 DEF IInv, TypeOK, ServersOK, Listen
  <2>. QED
    BY <2>1, <2>2, <2>3 DEF TypeOK
<1>3. (PcInv /\ FreshInv /\ WaitGroupCount /\ WaitHoldsProcess)'
  BY DEF IInv, TypeOK, ProcessOK, InstancesOK, ServersOK, PcInv, FreshInv, WaitGroupCount,
     WaitHoldsProcess, ReloadPc, OtherPc, StartPc, Restarting, NoInst, Threads, Listen, Insts,
     Server
<1>. QED
  BY <1>2, <1>3 DEF IInv

LEMMA UnlistInv ==
    ASSUME IInv, NEW t \in {"main", "posix"}, Unlist(t)
    PROVE  IInv'
<1>1. pc' \in [Threads -> Labels]
  BY DEF IInv, TypeOK, ProcessOK, Labels, Threads, Unlist
<1>2. TypeOK'
  <2>1. ProcessOK'
    BY <1>1, WithoutType DEF IInv, TypeOK, ProcessOK, Unlist
  <2>2. InstancesOK'
    BY <1>1, WithoutType DEF IInv, TypeOK, InstancesOK, Unlist
  <2>3. ServersOK'
    BY <1>1, WithoutType DEF IInv, TypeOK, ServersOK, Unlist
  <2>. QED
    BY <2>1, <2>2, <2>3 DEF TypeOK
<1>3. (PcInv /\ FreshInv /\ WaitGroupCount /\ WaitHoldsProcess)'
  BY DEF IInv, TypeOK, ProcessOK, InstancesOK, ServersOK, PcInv, FreshInv, WaitGroupCount,
     WaitHoldsProcess, ReloadPc, OtherPc, StartPc, Restarting, NoInst, Threads, Unlist, Insts,
     Server
<1>. QED
  BY <1>2, <1>3 DEF IInv

LEMMA EnterOnceInv ==
    ASSUME IInv, NEW t \in {"posix", "sigint"}, EnterOnce(t)
    PROVE  IInv'
<1>1. pc' \in [Threads -> Labels]
  BY DEF IInv, TypeOK, ProcessOK, Labels, Threads, EnterOnce, AfterCallbacks
<1>2. TypeOK'
  <2>1. ProcessOK'
    BY <1>1 DEF IInv, TypeOK, ProcessOK, EnterOnce
  <2>2. InstancesOK'
    BY <1>1 DEF IInv, TypeOK, InstancesOK, EnterOnce
  <2>3. ServersOK'
    BY <1>1 DEF IInv, TypeOK, ServersOK, EnterOnce
  <2>. QED
    BY <2>1, <2>2, <2>3 DEF TypeOK
<1>3. (PcInv /\ FreshInv /\ WaitGroupCount /\ WaitHoldsProcess)'
  BY DEF IInv, TypeOK, ProcessOK, InstancesOK, ServersOK, PcInv, FreshInv, WaitGroupCount,
     WaitHoldsProcess, ReloadPc, OtherPc, StartPc, Restarting, NoInst, Threads, EnterOnce,
     Insts, Server, AfterCallbacks
<1>. QED
  BY <1>2, <1>3 DEF IInv

LEMMA LockInstancesInv ==
    ASSUME IInv, NEW t \in {"posix", "sigint"}, LockInstances(t)
    PROVE  IInv'
<1>1. pc' \in [Threads -> Labels]
  BY DEF IInv, TypeOK, ProcessOK, Labels, Threads, LockInstances, AfterCallbacks
<1>2. TypeOK'
  <2>1. ProcessOK'
    BY <1>1 DEF IInv, TypeOK, ProcessOK, LockInstances, Threads
  <2>2. InstancesOK'
    BY <1>1 DEF IInv, TypeOK, InstancesOK, LockInstances, Threads
  <2>3. ServersOK'
    BY <1>1 DEF IInv, TypeOK, ServersOK, LockInstances, Threads
  <2>. QED
    BY <2>1, <2>2, <2>3 DEF TypeOK
<1>3. (PcInv /\ FreshInv /\ WaitGroupCount /\ WaitHoldsProcess)'
  BY DEF IInv, TypeOK, ProcessOK, InstancesOK, ServersOK, PcInv, FreshInv, WaitGroupCount,
     WaitHoldsProcess, ReloadPc, OtherPc, StartPc, Restarting, NoInst, Threads, LockInstances,
     Insts, Server, AfterCallbacks
<1>. QED
  BY <1>2, <1>3 DEF IInv

LEMMA RunShutdownCallbacksInv ==
    ASSUME IInv, NEW t \in {"posix", "sigint"}, RunShutdownCallbacks(t)
    PROVE  IInv'
<1>1. pc' \in [Threads -> Labels]
  BY DEF IInv, TypeOK, ProcessOK, Labels, Threads, RunShutdownCallbacks, AfterCallbacks
<1>2. TypeOK'
  <2>1. ProcessOK'
    BY <1>1 DEF IInv, TypeOK, ProcessOK, RunShutdownCallbacks
  <2>2. InstancesOK'
    BY <1>1 DEF IInv, TypeOK, InstancesOK, RunShutdownCallbacks
  <2>3. ServersOK'
    BY <1>1 DEF IInv, TypeOK, ServersOK, RunShutdownCallbacks
  <2>. QED
    BY <2>1, <2>2, <2>3 DEF TypeOK
<1>3. (PcInv /\ FreshInv /\ WaitGroupCount /\ WaitHoldsProcess)'
  BY DEF IInv, TypeOK, ProcessOK, InstancesOK, ServersOK, PcInv, FreshInv, WaitGroupCount,
     WaitHoldsProcess, ReloadPc, OtherPc, StartPc, Restarting, NoInst, Threads,
     RunShutdownCallbacks, Insts, Server, AfterCallbacks
<1>. QED
  BY <1>2, <1>3 DEF IInv

LEMMA UnlockInstancesInv ==
    ASSUME IInv, NEW t \in {"posix", "sigint"}, UnlockInstances(t)
    PROVE  IInv'
<1>1. pc' \in [Threads -> Labels]
  BY DEF IInv, TypeOK, ProcessOK, Labels, Threads, UnlockInstances, AfterCallbacks
<1>2. TypeOK'
  <2>1. ProcessOK'
    BY <1>1 DEF IInv, TypeOK, ProcessOK, UnlockInstances
  <2>2. InstancesOK'
    BY <1>1 DEF IInv, TypeOK, InstancesOK, UnlockInstances
  <2>3. ServersOK'
    BY <1>1 DEF IInv, TypeOK, ServersOK, UnlockInstances
  <2>. QED
    BY <2>1, <2>2, <2>3 DEF TypeOK
<1>3. (PcInv /\ FreshInv /\ WaitGroupCount /\ WaitHoldsProcess)'
  BY DEF IInv, TypeOK, ProcessOK, InstancesOK, ServersOK, PcInv, FreshInv, WaitGroupCount,
     WaitHoldsProcess, ReloadPc, OtherPc, StartPc, Restarting, NoInst, Threads, UnlockInstances,
     Insts, Server, AfterCallbacks
<1>. QED
  BY <1>2, <1>3 DEF IInv

\* The size of a disjoint union.
LEMMA DisjointUnion ==
    ASSUME NEW A, NEW B, IsFiniteSet(A), IsFiniteSet(B), A \cap B = {}
    PROVE  Cardinality(A \cup B) = Cardinality(A) + Cardinality(B)
<1>1. Cardinality(A \cup B) = Cardinality(A) + Cardinality(B) - Cardinality(A \cap B)
  BY FS_Union
<1>2. Cardinality(A \cap B) = 0
  BY FS_EmptySet
<1>3. Cardinality(A) \in Nat /\ Cardinality(B) \in Nat
  BY FS_CardinalityType
<1>. QED
  BY <1>1, <1>2, <1>3

\* wg.Add(2) for each server matches the two goroutines it gets: the instance
\* had none before.
LEMMA SpawnServersInv ==
    ASSUME IInv, NEW t \in {"main", "posix"}, SpawnServers(t)
    PROVE  IInv'
<1>. Cur(t) \in Insts /\ Cur(t) <= made
  BY CurType DEF SpawnServers, ServerGoroutines, StartPc
<1>. DEFINE S == ServersOf(Cur(t))
<1>1. pc' \in [Threads -> Labels]
  BY DEF IInv, TypeOK, ProcessOK, Labels, Threads, SpawnServers, ServerGoroutines
<1>2. S \subseteq servers /\ S \subseteq Server
  BY DEF IInv, TypeOK, ProcessOK, InstancesOK, ServersOK, ServersOf
<1>3. IsFiniteSet(S) /\ IsFiniteSet(serve) /\ IsFiniteSet(packet) /\ Cardinality(S) \in Nat
  BY <1>2, ServersFinite DEF IInv, TypeOK, ProcessOK, InstancesOK, ServersOK
<1>4. serve \cap S = {} /\ packet \cap S = {}
  BY DEF IInv, FreshInv, SpawnServers, ServerGoroutines, StartPc, ServersOf, Cur
<1>5. TypeOK'
  <2>1. wg' \in Nat
    BY <1>3 DEF IInv, TypeOK, ProcessOK, InstancesOK, ServersOK, SpawnServers, ServerGoroutines
  <2>2. serve' \subseteq Server /\ packet' \subseteq Server
    BY <1>2 DEF IInv, TypeOK, ProcessOK, InstancesOK, ServersOK, SpawnServers, ServerGoroutines
  <2>3. /\ victim' \in Insts \cup {NoInst}
        /\ todo' \subseteq Server /\ drain' \subseteq Server
    BY DEF IInv, TypeOK, ProcessOK, InstancesOK, ServersOK, SpawnServers, ServerGoroutines,
       ServersOf
  <2>. QED
    BY <1>1, <2>1, <2>2, <2>3 DEF IInv, TypeOK, ProcessOK, InstancesOK, ServersOK, SpawnServers,
       ServerGoroutines
<1>6. WaitGroupCount'
  <2>. HIDE DEF S
  <2>1. /\ Cardinality(serve \cup S) = Cardinality(serve) + Cardinality(S)
        /\ Cardinality(packet \cup S) = Cardinality(packet) + Cardinality(S)
    BY <1>3, <1>4, DisjointUnion
  <2>2. Cardinality(serve) \in Nat /\ Cardinality(packet) \in Nat
    BY <1>3, FS_CardinalityType
  <2>3. serve' = serve \cup S /\ packet' = packet \cup S /\ job' = job
        /\ wg' = wg + 2 * Cardinality(S)
    BY DEF SpawnServers, ServerGoroutines, S
  <2>. QED
    BY <1>3, <2>1, <2>2, <2>3 DEF IInv, WaitGroupCount, Restarting
<1>7. PcInv' /\ WaitHoldsProcess'
  BY DEF IInv, TypeOK, ProcessOK, InstancesOK, ServersOK, PcInv, WaitHoldsProcess, Restarting,
     ReloadPc, OtherPc, SpawnServers, ServerGoroutines, Threads
<1>8. FreshInv'
  BY <1>2 DEF IInv, TypeOK, ProcessOK, InstancesOK, ServersOK, FreshInv, Restarting, StartPc,
     SpawnServers, ServerGoroutines, Threads, ServersOf, Cur
<1>. QED
  BY <1>5, <1>6, <1>7, <1>8 DEF IInv

\* Restart's wg.Add(1) and its deferred wg.Done.
LEMMA ReloadSignalInv ==
    ASSUME IInv, ReloadSignal
    PROVE  IInv'
<1>1. pc' \in [Threads -> Labels]
  BY DEF IInv, TypeOK, ProcessOK, Labels, Threads, ReloadSignal
<1>2. TypeOK'
  <2>1. made + 1 \in Insts
    BY BoundsAssumption DEF IInv, TypeOK, ProcessOK, InstancesOK, ServersOK, Insts, ReloadSignal
  <2>2. Head(instances) \in Insts
    BY DEF IInv, TypeOK, ProcessOK, InstancesOK, ServersOK, ReloadSignal
  <2>3. config' \in [Insts -> SUBSET Addrs]
    BY <2>1 DEF IInv, TypeOK, ProcessOK, InstancesOK, ServersOK, ReloadSignal, Configs
  <2>4. wg' \in Nat
    BY DEF IInv, TypeOK, ProcessOK, InstancesOK, ServersOK, ReloadSignal
  <2>. QED
    BY <1>1, <2>1, <2>2, <2>3, <2>4 DEF IInv, TypeOK, ProcessOK, InstancesOK, ServersOK,
       ReloadSignal
<1>3. PcInv' /\ WaitHoldsProcess'
  BY DEF IInv, TypeOK, ProcessOK, InstancesOK, ServersOK, PcInv, WaitHoldsProcess, Restarting,
     ReloadPc, OtherPc, ReloadSignal, Threads
<1>4. FreshInv'
  <2>1. made \in Nat \ {0} /\ made' = made + 1 /\ new' = made + 1 /\ UNCHANGED <<servers, serve, packet>>
    BY DEF IInv, TypeOK, InstancesOK, Insts, ReloadSignal
  <2>2. \A p \in servers : p[1] \in Nat /\ p[1] <= made
    BY DEF IInv, TypeOK, ServersOK, FreshInv, Server, Insts
  <2>3. pc'["main"] = pc["main"]
    BY DEF IInv, TypeOK, ProcessOK, Threads, ReloadSignal
  <2>. QED
    BY <2>1, <2>2, <2>3 DEF IInv, FreshInv, NoInst
<1>5. WaitGroupCount'
  <2>1. Cardinality(serve) \in Nat /\ Cardinality(packet) \in Nat
    BY ServersFinite DEF IInv, TypeOK, ProcessOK, InstancesOK, ServersOK
  <2>2. ~Restarting /\ Restarting'
    BY DEF IInv, PcInv, OtherPc, Restarting, ReloadSignal
  <2>. QED
    BY <2>1, <2>2 DEF IInv, WaitGroupCount, ReloadSignal
<1>. QED
  BY <1>2, <1>3, <1>4, <1>5 DEF IInv

\* Leaving Restart takes the process out of the WaitGroup exactly once.
LEMMA EndRestartCount ==
    ASSUME IInv, pc["posix"] \in ReloadPc, wg' = wg - 1, job' = "none", UNCHANGED <<serve, packet>>
    PROVE  wg' \in Nat /\ WaitGroupCount' /\ ~Restarting'
<1>1. Cardinality(serve) \in Nat /\ Cardinality(packet) \in Nat
  BY ServersFinite DEF IInv, TypeOK, ProcessOK, InstancesOK, ServersOK
<1>2. Restarting /\ ~Restarting'
  BY DEF IInv, PcInv, Restarting
<1>. QED
  BY <1>1, <1>2 DEF IInv, WaitGroupCount

LEMMA ShutdownOldInv ==
    ASSUME IInv, ShutdownOld
    PROVE  IInv'
<1>1. pc' \in [Threads -> Labels]
  BY DEF IInv, TypeOK, ProcessOK, Labels, Threads, ShutdownOld, EndRestart
<1>2. wg' \in Nat /\ WaitGroupCount'
  <2>1. CASE wg' = wg - 1 /\ job' = "none"
    BY <2>1, EndRestartCount DEF ShutdownOld, ReloadPc
  <2>2. CASE UNCHANGED <<wg, job>>
    BY <2>2 DEF IInv, TypeOK, ProcessOK, InstancesOK, ServersOK, WaitGroupCount, Restarting,
       ShutdownOld
  <2>. QED
    BY <2>1, <2>2 DEF ShutdownOld, EndRestart
<1>3. TypeOK'
  <2>1. ran' \in [Insts -> Nat]
    <3>1. ran \in [Insts -> Nat] /\ ran' = [ran EXCEPT ![old] = ran[old] + 1]
      BY DEF IInv, TypeOK, ProcessOK, InstancesOK, ServersOK, ShutdownOld
    <3>2. \A i \in Insts : ran[i] + 1 \in Nat
      BY <3>1
    <3>. QED
      BY <3>1, <3>2
  <2>2. last' \in {"none", "ok", "error", "panic"} /\ job' \in {"none", "reload", "term", "upgrade"}
    BY DEF IInv, TypeOK, ProcessOK, InstancesOK, ServersOK, ShutdownOld, EndRestart
  <2>3. held' \subseteq Insts
    BY DEF IInv, TypeOK, ProcessOK, InstancesOK, ServersOK, ShutdownOld
  <2>. QED
    BY <1>1, <1>2, <2>1, <2>2, <2>3 DEF IInv, TypeOK, ProcessOK, InstancesOK, ServersOK, ShutdownOld
<1>4. PcInv' /\ WaitHoldsProcess'
  BY DEF IInv, TypeOK, ProcessOK, InstancesOK, ServersOK, PcInv, WaitHoldsProcess, Restarting,
     ReloadPc, OtherPc, ShutdownOld, EndRestart, Threads
<1>5. FreshInv'
  BY DEF IInv, TypeOK, ProcessOK, InstancesOK, ServersOK, FreshInv, Restarting, StartPc,
     ShutdownOld, EndRestart, Threads
<1>. QED
  BY <1>2, <1>3, <1>4, <1>5 DEF IInv

LEMMA RestartFailedInv ==
    ASSUME IInv, RestartFailed
    PROVE  IInv'
<1>1. pc' \in [Threads -> Labels]
  BY DEF IInv, TypeOK, ProcessOK, Labels, Threads, RestartFailed, restoreEventHooks, EndRestart
<1>2. wg' \in Nat /\ WaitGroupCount'
  <2>1. CASE wg' = wg - 1 /\ job' = "none"
    BY <2>1, EndRestartCount DEF RestartFailed, restoreEventHooks, ReloadPc
  <2>2. CASE UNCHANGED <<wg, job>>
    BY <2>2 DEF IInv, TypeOK, ProcessOK, InstancesOK, ServersOK, WaitGroupCount, Restarting,
       RestartFailed, restoreEventHooks
  <2>. QED
    BY <2>1, <2>2 DEF RestartFailed, restoreEventHooks, EndRestart
<1>3. TypeOK'
  <2>1. ProcessOK'
    BY <1>1, <1>2 DEF IInv, TypeOK, ProcessOK, RestartFailed, restoreEventHooks, EndRestart
  <2>2. InstancesOK'
    BY <1>1, <1>2 DEF IInv, TypeOK, InstancesOK, RestartFailed, restoreEventHooks, EndRestart
  <2>3. ServersOK'
    BY <1>1, <1>2 DEF IInv, TypeOK, ServersOK, RestartFailed, restoreEventHooks, EndRestart
  <2>. QED
    BY <2>1, <2>2, <2>3 DEF TypeOK
<1>4. PcInv' /\ WaitHoldsProcess'
  BY DEF IInv, TypeOK, ProcessOK, InstancesOK, ServersOK, PcInv, WaitHoldsProcess, Restarting,
     ReloadPc, OtherPc, RestartFailed, restoreEventHooks, EndRestart, Threads
<1>5. FreshInv'
  BY DEF IInv, TypeOK, ProcessOK, InstancesOK, ServersOK, FreshInv, Restarting, StartPc,
     RestartFailed, restoreEventHooks, EndRestart, Threads
<1>. QED
  BY <1>2, <1>3, <1>4, <1>5 DEF IInv

LEMMA RestartRecoveredInv ==
    ASSUME IInv, RestartRecovered
    PROVE  IInv'
<1>1. pc' \in [Threads -> Labels]
  BY DEF IInv, TypeOK, ProcessOK, Labels, Threads, RestartRecovered, EndRestart
<1>2. wg' \in Nat /\ WaitGroupCount'
  <2>1. CASE wg' = wg - 1 /\ job' = "none"
    BY <2>1, EndRestartCount DEF RestartRecovered, ReloadPc
  <2>2. CASE UNCHANGED <<wg, job>>
    BY <2>2 DEF IInv, TypeOK, ProcessOK, InstancesOK, ServersOK, WaitGroupCount, Restarting,
       RestartRecovered
  <2>. QED
    BY <2>1, <2>2 DEF RestartRecovered, EndRestart
<1>3. TypeOK'
  <2>1. ProcessOK'
    BY <1>1, <1>2 DEF IInv, TypeOK, ProcessOK, RestartRecovered, EndRestart
  <2>2. InstancesOK'
    BY <1>1, <1>2 DEF IInv, TypeOK, InstancesOK, RestartRecovered, EndRestart
  <2>3. ServersOK'
    BY <1>1, <1>2 DEF IInv, TypeOK, ServersOK, RestartRecovered, EndRestart
  <2>. QED
    BY <2>1, <2>2, <2>3 DEF TypeOK
<1>4. PcInv' /\ WaitHoldsProcess'
  BY DEF IInv, TypeOK, ProcessOK, InstancesOK, ServersOK, PcInv, WaitHoldsProcess, Restarting,
     ReloadPc, OtherPc, RestartRecovered, EndRestart, Threads
<1>5. FreshInv'
  BY DEF IInv, TypeOK, ProcessOK, InstancesOK, ServersOK, FreshInv, Restarting, StartPc,
     RestartRecovered, EndRestart, Threads
<1>. QED
  BY <1>2, <1>3, <1>4, <1>5 DEF IInv

\* Wait returns on a zero counter: then no server goroutine is left.
LEMMA WaitReturnsInv ==
    ASSUME IInv, WaitReturns
    PROVE  IInv'
<1>1. /\ IsFiniteSet(serve) /\ IsFiniteSet(packet)
      /\ Cardinality(serve) \in Nat /\ Cardinality(packet) \in Nat
  BY ServersFinite DEF IInv, TypeOK, ProcessOK, InstancesOK, ServersOK
<1>2. Cardinality(serve) = 0 /\ Cardinality(packet) = 0 /\ ~Restarting
  BY <1>1 DEF IInv, WaitGroupCount, WaitReturns
<1>3. serve = {} /\ packet = {}
  BY <1>1, <1>2, FS_EmptySet
<1>4. WaitHoldsProcess'
  BY <1>2, <1>3 DEF WaitHoldsProcess, Restarting, WaitReturns
<1>5. TypeOK'
  <2>1. ProcessOK'
    BY DEF IInv, TypeOK, ProcessOK, WaitReturns
  <2>2. InstancesOK'
    BY DEF IInv, TypeOK, InstancesOK, WaitReturns
  <2>3. ServersOK'
    BY DEF IInv, TypeOK, ServersOK, WaitReturns
  <2>. QED
    BY <2>1, <2>2, <2>3 DEF TypeOK
<1>6. PcInv' /\ FreshInv' /\ WaitGroupCount'
  BY DEF IInv, PcInv, FreshInv, WaitGroupCount, Restarting, WaitReturns
<1>. QED
  BY <1>4, <1>5, <1>6 DEF IInv

LEMMA MainPanicsInv ==
    ASSUME IInv, MainPanics
    PROVE  IInv'
<1>1. pc' \in [Threads -> Labels]
  BY DEF IInv, TypeOK, ProcessOK, Labels, Threads, MainPanics
<1>2. TypeOK'
  <2>1. ProcessOK'
    BY <1>1 DEF IInv, TypeOK, ProcessOK, MainPanics
  <2>2. InstancesOK'
    BY <1>1 DEF IInv, TypeOK, InstancesOK, MainPanics
  <2>3. ServersOK'
    BY <1>1 DEF IInv, TypeOK, ServersOK, MainPanics
  <2>. QED
    BY <2>1, <2>2, <2>3 DEF TypeOK
<1>3. (PcInv /\ FreshInv /\ WaitGroupCount /\ WaitHoldsProcess)'
  BY DEF IInv, TypeOK, ProcessOK, InstancesOK, ServersOK, PcInv, FreshInv, WaitGroupCount,
     WaitHoldsProcess, ReloadPc, OtherPc, StartPc, Restarting, NoInst, Threads, MainPanics,
     Insts, Server
<1>. QED
  BY <1>2, <1>3 DEF IInv

LEMMA RunRestartCallbacksInv ==
    ASSUME IInv, RunRestartCallbacks
    PROVE  IInv'
<1>1. pc' \in [Threads -> Labels]
  BY DEF IInv, TypeOK, ProcessOK, Labels, Threads, RunRestartCallbacks
<1>2. TypeOK'
  <2>1. ProcessOK'
    BY <1>1 DEF IInv, TypeOK, ProcessOK, RunRestartCallbacks
  <2>2. InstancesOK'
    BY <1>1 DEF IInv, TypeOK, InstancesOK, RunRestartCallbacks
  <2>3. ServersOK'
    BY <1>1 DEF IInv, TypeOK, ServersOK, RunRestartCallbacks
  <2>. QED
    BY <2>1, <2>2, <2>3 DEF TypeOK
<1>3. (PcInv /\ FreshInv /\ WaitGroupCount /\ WaitHoldsProcess)'
  BY DEF IInv, TypeOK, ProcessOK, InstancesOK, ServersOK, PcInv, FreshInv, WaitGroupCount,
     WaitHoldsProcess, ReloadPc, OtherPc, StartPc, Restarting, NoInst, Threads,
     RunRestartCallbacks, Insts, Server
<1>. QED
  BY <1>2, <1>3 DEF IInv

LEMMA StopServerInv ==
    ASSUME IInv, StopServer
    PROVE  IInv'
<1>1. pc' \in [Threads -> Labels]
  BY DEF IInv, TypeOK, ProcessOK, Labels, Threads, StopServer
<1>2. TypeOK'
  <2>1. ProcessOK'
    BY <1>1 DEF IInv, TypeOK, ProcessOK, StopServer
  <2>2. InstancesOK'
    BY <1>1 DEF IInv, TypeOK, InstancesOK, StopServer
  <2>3. ServersOK'
    BY <1>1 DEF IInv, TypeOK, ServersOK, StopServer
  <2>. QED
    BY <2>1, <2>2, <2>3 DEF TypeOK
<1>3. (PcInv /\ FreshInv /\ WaitGroupCount /\ WaitHoldsProcess)'
  BY DEF IInv, TypeOK, ProcessOK, InstancesOK, ServersOK, PcInv, FreshInv, WaitGroupCount,
     WaitHoldsProcess, ReloadPc, OtherPc, StartPc, Restarting, NoInst, Threads, StopServer,
     Insts, Server
<1>. QED
  BY <1>2, <1>3 DEF IInv

LEMMA ShutdownReturnsInv ==
    ASSUME IInv, ShutdownReturns
    PROVE  IInv'
<1>1. pc' \in [Threads -> Labels]
  BY DEF IInv, TypeOK, ProcessOK, Labels, Threads, ShutdownReturns
<1>2. TypeOK'
  <2>1. ProcessOK'
    BY <1>1 DEF IInv, TypeOK, ProcessOK, ShutdownReturns
  <2>2. InstancesOK'
    BY <1>1 DEF IInv, TypeOK, InstancesOK, ShutdownReturns
  <2>3. ServersOK'
    BY <1>1 DEF IInv, TypeOK, ServersOK, ShutdownReturns
  <2>. QED
    BY <2>1, <2>2, <2>3 DEF TypeOK
<1>3. (PcInv /\ FreshInv /\ WaitGroupCount /\ WaitHoldsProcess)'
  BY DEF IInv, TypeOK, ProcessOK, InstancesOK, ServersOK, PcInv, FreshInv, WaitGroupCount,
     WaitHoldsProcess, ReloadPc, OtherPc, StartPc, Restarting, NoInst, Threads, ShutdownReturns,
     Insts, Server
<1>. QED
  BY <1>2, <1>3 DEF IInv

LEMMA SpliceOutInv ==
    ASSUME IInv, SpliceOut
    PROVE  IInv'
<1>1. pc' \in [Threads -> Labels]
  BY DEF IInv, TypeOK, ProcessOK, Labels, Threads, SpliceOut
<1>2. TypeOK'
  <2>1. ProcessOK'
    BY <1>1, WithoutType DEF IInv, TypeOK, ProcessOK, SpliceOut
  <2>2. InstancesOK'
    BY <1>1, WithoutType DEF IInv, TypeOK, InstancesOK, SpliceOut
  <2>3. ServersOK'
    BY <1>1, WithoutType DEF IInv, TypeOK, ServersOK, SpliceOut
  <2>. QED
    BY <2>1, <2>2, <2>3 DEF TypeOK
<1>3. (PcInv /\ FreshInv /\ WaitGroupCount /\ WaitHoldsProcess)'
  BY DEF IInv, TypeOK, ProcessOK, InstancesOK, ServersOK, PcInv, FreshInv, WaitGroupCount,
     WaitHoldsProcess, ReloadPc, OtherPc, StartPc, Restarting, NoInst, Threads, SpliceOut,
     Insts, Server
<1>. QED
  BY <1>2, <1>3 DEF IInv

LEMMA StopNextInv ==
    ASSUME IInv, StopNext
    PROVE  IInv'
<1>1. pc' \in [Threads -> Labels]
  BY DEF IInv, TypeOK, ProcessOK, Labels, Threads, StopNext
<1>2. TypeOK'
  <2>1. ProcessOK'
    BY <1>1 DEF IInv, TypeOK, ProcessOK, StopNext, ServersOf
  <2>2. InstancesOK'
    BY <1>1 DEF IInv, TypeOK, InstancesOK, StopNext, ServersOf
  <2>3. ServersOK'
    BY <1>1 DEF IInv, TypeOK, ServersOK, StopNext, ServersOf
  <2>. QED
    BY <2>1, <2>2, <2>3 DEF TypeOK
<1>3. (PcInv /\ FreshInv /\ WaitGroupCount /\ WaitHoldsProcess)'
  BY DEF IInv, TypeOK, ProcessOK, InstancesOK, ServersOK, PcInv, FreshInv, WaitGroupCount,
     WaitHoldsProcess, ReloadPc, OtherPc, StartPc, Restarting, NoInst, Threads, StopNext, Insts,
     Server
<1>. QED
  BY <1>2, <1>3 DEF IInv

LEMMA StopReturnsInv ==
    ASSUME IInv, StopReturns
    PROVE  IInv'
<1>1. pc' \in [Threads -> Labels]
  BY DEF IInv, TypeOK, ProcessOK, Labels, Threads, StopReturns
<1>2. TypeOK'
  <2>1. ProcessOK'
    BY <1>1 DEF IInv, TypeOK, ProcessOK, StopReturns
  <2>2. InstancesOK'
    BY <1>1 DEF IInv, TypeOK, InstancesOK, StopReturns
  <2>3. ServersOK'
    BY <1>1 DEF IInv, TypeOK, ServersOK, StopReturns
  <2>. QED
    BY <2>1, <2>2, <2>3 DEF TypeOK
<1>3. (PcInv /\ FreshInv /\ WaitGroupCount /\ WaitHoldsProcess)'
  BY DEF IInv, TypeOK, ProcessOK, InstancesOK, ServersOK, PcInv, FreshInv, WaitGroupCount,
     WaitHoldsProcess, ReloadPc, OtherPc, StartPc, Restarting, NoInst, Threads, StopReturns,
     Insts, Server
<1>. QED
  BY <1>2, <1>3 DEF IInv

LEMMA InterruptSignalInv ==
    ASSUME IInv, InterruptSignal
    PROVE  IInv'
<1>1. pc' \in [Threads -> Labels]
  BY DEF IInv, TypeOK, ProcessOK, Labels, Threads, InterruptSignal
<1>2. TypeOK'
  <2>1. ProcessOK'
    BY <1>1 DEF IInv, TypeOK, ProcessOK, InterruptSignal
  <2>2. InstancesOK'
    BY <1>1 DEF IInv, TypeOK, InstancesOK, InterruptSignal
  <2>3. ServersOK'
    BY <1>1 DEF IInv, TypeOK, ServersOK, InterruptSignal
  <2>. QED
    BY <2>1, <2>2, <2>3 DEF TypeOK
<1>3. (PcInv /\ FreshInv /\ WaitGroupCount /\ WaitHoldsProcess)'
  BY DEF IInv, TypeOK, ProcessOK, InstancesOK, ServersOK, PcInv, FreshInv, WaitGroupCount,
     WaitHoldsProcess, ReloadPc, OtherPc, StartPc, Restarting, NoInst, Threads, InterruptSignal,
     Insts, Server
<1>. QED
  BY <1>2, <1>3 DEF IInv

LEMMA TermSignalInv ==
    ASSUME IInv, TermSignal
    PROVE  IInv'
<1>1. pc' \in [Threads -> Labels]
  BY DEF IInv, TypeOK, ProcessOK, Labels, Threads, TermSignal
<1>2. TypeOK'
  <2>1. ProcessOK'
    BY <1>1 DEF IInv, TypeOK, ProcessOK, TermSignal
  <2>2. InstancesOK'
    BY <1>1 DEF IInv, TypeOK, InstancesOK, TermSignal
  <2>3. ServersOK'
    BY <1>1 DEF IInv, TypeOK, ServersOK, TermSignal
  <2>. QED
    BY <2>1, <2>2, <2>3 DEF TypeOK
<1>3. (PcInv /\ FreshInv /\ WaitGroupCount /\ WaitHoldsProcess)'
  BY DEF IInv, TypeOK, ProcessOK, InstancesOK, ServersOK, PcInv, FreshInv, WaitGroupCount,
     WaitHoldsProcess, ReloadPc, OtherPc, StartPc, Restarting, NoInst, Threads, TermSignal,
     Insts, Server
<1>. QED
  BY <1>2, <1>3 DEF IInv

LEMMA QuitSignalInv ==
    ASSUME IInv, QuitSignal
    PROVE  IInv'
<1>1. pc' \in [Threads -> Labels]
  BY DEF IInv, TypeOK, ProcessOK, Labels, Threads, QuitSignal
<1>2. TypeOK'
  <2>1. ProcessOK'
    BY <1>1 DEF IInv, TypeOK, ProcessOK, QuitSignal
  <2>2. InstancesOK'
    BY <1>1 DEF IInv, TypeOK, InstancesOK, QuitSignal
  <2>3. ServersOK'
    BY <1>1 DEF IInv, TypeOK, ServersOK, QuitSignal
  <2>. QED
    BY <2>1, <2>2, <2>3 DEF TypeOK
<1>3. (PcInv /\ FreshInv /\ WaitGroupCount /\ WaitHoldsProcess)'
  BY DEF IInv, TypeOK, ProcessOK, InstancesOK, ServersOK, PcInv, FreshInv, WaitGroupCount,
     WaitHoldsProcess, ReloadPc, OtherPc, StartPc, Restarting, NoInst, Threads, QuitSignal,
     Insts, Server
<1>. QED
  BY <1>2, <1>3 DEF IInv

LEMMA UpgradeSignalInv ==
    ASSUME IInv, UpgradeSignal
    PROVE  IInv'
<1>1. pc' \in [Threads -> Labels]
  BY DEF IInv, TypeOK, ProcessOK, Labels, Threads, UpgradeSignal
<1>2. TypeOK'
  <2>1. ProcessOK'
    BY <1>1 DEF IInv, TypeOK, ProcessOK, UpgradeSignal
  <2>2. InstancesOK'
    BY <1>1 DEF IInv, TypeOK, InstancesOK, UpgradeSignal
  <2>3. ServersOK'
    BY <1>1 DEF IInv, TypeOK, ServersOK, UpgradeSignal
  <2>. QED
    BY <2>1, <2>2, <2>3 DEF TypeOK
<1>3. (PcInv /\ FreshInv /\ WaitGroupCount /\ WaitHoldsProcess)'
  BY DEF IInv, TypeOK, ProcessOK, InstancesOK, ServersOK, PcInv, FreshInv, WaitGroupCount,
     WaitHoldsProcess, ReloadPc, OtherPc, StartPc, Restarting, NoInst, Threads, UpgradeSignal,
     Insts, Server
<1>. QED
  BY <1>2, <1>3 DEF IInv

LEMMA ChildAnswersInv ==
    ASSUME IInv, ChildAnswers
    PROVE  IInv'
<1>1. pc' \in [Threads -> Labels]
  BY DEF IInv, TypeOK, ProcessOK, Labels, Threads, ChildAnswers
<1>2. TypeOK'
  <2>1. ProcessOK'
    BY <1>1 DEF IInv, TypeOK, ProcessOK, ChildAnswers
  <2>2. InstancesOK'
    BY <1>1 DEF IInv, TypeOK, InstancesOK, ChildAnswers
  <2>3. ServersOK'
    BY <1>1 DEF IInv, TypeOK, ServersOK, ChildAnswers
  <2>. QED
    BY <2>1, <2>2, <2>3 DEF TypeOK
<1>3. (PcInv /\ FreshInv /\ WaitGroupCount /\ WaitHoldsProcess)'
  BY DEF IInv, TypeOK, ProcessOK, InstancesOK, ServersOK, PcInv, FreshInv, WaitGroupCount,
     WaitHoldsProcess, ReloadPc, OtherPc, StartPc, Restarting, NoInst, Threads, ChildAnswers,
     Insts, Server
<1>. QED
  BY <1>2, <1>3 DEF IInv

LEMMA InterruptExitsInv ==
    ASSUME IInv, InterruptExits
    PROVE  IInv'
<1>1. pc' \in [Threads -> Labels]
  BY DEF IInv, TypeOK, ProcessOK, Labels, Threads, InterruptExits
<1>2. TypeOK'
  <2>1. ProcessOK'
    BY <1>1 DEF IInv, TypeOK, ProcessOK, InterruptExits
  <2>2. InstancesOK'
    BY <1>1 DEF IInv, TypeOK, InstancesOK, InterruptExits
  <2>3. ServersOK'
    BY <1>1 DEF IInv, TypeOK, ServersOK, InterruptExits
  <2>. QED
    BY <2>1, <2>2, <2>3 DEF TypeOK
<1>3. (PcInv /\ FreshInv /\ WaitGroupCount /\ WaitHoldsProcess)'
  BY DEF IInv, TypeOK, ProcessOK, InstancesOK, ServersOK, PcInv, FreshInv, WaitGroupCount,
     WaitHoldsProcess, ReloadPc, OtherPc, StartPc, Restarting, NoInst, Threads, InterruptExits,
     Insts, Server
<1>. QED
  BY <1>2, <1>3 DEF IInv

LEMMA ServeReturnsInv ==
    ASSUME IInv, NEW p \in Server, ServeReturns(p)
    PROVE  IInv'
<1>1. Cardinality(serve) \in Nat /\ Cardinality(packet) \in Nat /\ IsFiniteSet(serve)
  BY ServersFinite DEF IInv, TypeOK, ProcessOK, InstancesOK, ServersOK
<1>2. Cardinality(serve \ {p}) = Cardinality(serve) - 1
  BY <1>1, FS_RemoveElement DEF ServeReturns
<1>3. Cardinality(serve \ {p}) \in Nat
  BY ServersFinite DEF IInv, TypeOK, ProcessOK, InstancesOK, ServersOK
<1>4. wg' \in Nat /\ WaitGroupCount'
  BY <1>1, <1>2, <1>3 DEF IInv, TypeOK, ProcessOK, WaitGroupCount, Restarting, ServeReturns
<1>5. TypeOK'
  <2>1. ProcessOK'
    BY <1>4 DEF IInv, TypeOK, ProcessOK, ServeReturns
  <2>2. InstancesOK'
    BY <1>4 DEF IInv, TypeOK, InstancesOK, ServeReturns
  <2>3. ServersOK'
    BY <1>4 DEF IInv, TypeOK, ServersOK, ServeReturns
  <2>. QED
    BY <2>1, <2>2, <2>3 DEF TypeOK
<1>6. PcInv' /\ FreshInv' /\ WaitHoldsProcess'
  BY DEF IInv, TypeOK, ProcessOK, InstancesOK, ServersOK, PcInv, FreshInv, WaitHoldsProcess,
     Restarting, ServeReturns
<1>. QED
  BY <1>4, <1>5, <1>6 DEF IInv

LEMMA ServePacketReturnsInv ==
    ASSUME IInv, NEW p \in Server, ServePacketReturns(p)
    PROVE  IInv'
<1>1. Cardinality(serve) \in Nat /\ Cardinality(packet) \in Nat /\ IsFiniteSet(packet)
  BY ServersFinite DEF IInv, TypeOK, ProcessOK, InstancesOK, ServersOK
<1>2. Cardinality(packet \ {p}) = Cardinality(packet) - 1
  BY <1>1, FS_RemoveElement DEF ServePacketReturns
<1>3. Cardinality(packet \ {p}) \in Nat
  BY ServersFinite DEF IInv, TypeOK, ProcessOK, InstancesOK, ServersOK
<1>4. wg' \in Nat /\ WaitGroupCount'
  BY <1>1, <1>2, <1>3 DEF IInv, TypeOK, ProcessOK, WaitGroupCount, Restarting, ServePacketReturns
<1>5. TypeOK'
  <2>1. ProcessOK'
    BY <1>4 DEF IInv, TypeOK, ProcessOK, ServePacketReturns
  <2>2. InstancesOK'
    BY <1>4 DEF IInv, TypeOK, InstancesOK, ServePacketReturns
  <2>3. ServersOK'
    BY <1>4 DEF IInv, TypeOK, ServersOK, ServePacketReturns
  <2>. QED
    BY <2>1, <2>2, <2>3 DEF TypeOK
<1>6. PcInv' /\ FreshInv' /\ WaitHoldsProcess'
  BY DEF IInv, TypeOK, ProcessOK, InstancesOK, ServersOK, PcInv, FreshInv, WaitHoldsProcess,
     Restarting, ServePacketReturns
<1>. QED
  BY <1>4, <1>5, <1>6 DEF IInv

LEMMA ClientInv ==
    ASSUME IInv, NEW p \in Server, RequestStarts(p) \/ RequestEnds(p)
    PROVE  IInv'
<1>1. TypeOK'
  <2>1. ProcessOK'
    BY DEF IInv, TypeOK, ProcessOK, RequestStarts, RequestEnds
  <2>2. InstancesOK'
    BY DEF IInv, TypeOK, InstancesOK, RequestStarts, RequestEnds
  <2>3. ServersOK'
    BY DEF IInv, TypeOK, ServersOK, RequestStarts, RequestEnds
  <2>. QED
    BY <2>1, <2>2, <2>3 DEF TypeOK
<1>2. (PcInv /\ FreshInv /\ WaitGroupCount /\ WaitHoldsProcess)'
  BY DEF IInv, PcInv, FreshInv, WaitGroupCount, WaitHoldsProcess, Restarting, RequestStarts,
     RequestEnds
<1>. QED
  BY <1>1, <1>2 DEF IInv

LEMMA StutterInv ==
    ASSUME IInv, UNCHANGED vars
    PROVE  IInv'
<1>1. ProcessOK' /\ InstancesOK' /\ ServersOK'
  <2>1. ProcessOK'
    BY DEF IInv, TypeOK, ProcessOK
  <2>2. InstancesOK'
    BY DEF IInv, TypeOK, InstancesOK
  <2>3. ServersOK'
    BY DEF IInv, TypeOK, ServersOK
  <2>. QED
    BY <2>1, <2>2, <2>3
<1>2. PcInv' /\ WaitGroupCount' /\ WaitHoldsProcess'
  BY DEF IInv, PcInv, WaitGroupCount, WaitHoldsProcess, Restarting
<1>3. FreshInv'
  BY DEF IInv, FreshInv, Restarting
<1>. QED
  BY <1>1, <1>2, <1>3 DEF IInv, TypeOK

HIDE DEF vars, procVars, instVars, srvVars, cbVars, reloadVars, stopVars, Goto, Exit

\* Every step of the process preserves the invariant.
THEOREM NextInv == IInv /\ [Next]_vars => IInv'
<1>. SUFFICES ASSUME IInv, [Next]_vars PROVE IInv'
  OBVIOUS
<1>1. ASSUME NEW t \in {"main", "posix"}, StartStep(t) PROVE IInv'
  BY <1>1, AppendInstanceInv, ExecuteDirectivesInv, RunStartupCallbacksInv, ListenInv,
     SpawnServersInv, UnlistInv DEF StartStep
<1>2. ASSUME NEW t \in {"posix", "sigint"}, CallbackStep(t) PROVE IInv'
  BY <1>2, EnterOnceInv, LockInstancesInv, RunShutdownCallbacksInv, UnlockInstancesInv
     DEF CallbackStep
<1>3. CASE MainStep
  BY <1>1, <1>3, MainPanicsInv, WaitReturnsInv DEF MainStep
<1>4. CASE PosixStep
  BY <1>1, <1>2, <1>4, RunRestartCallbacksInv, ShutdownOldInv, RestartFailedInv,
     RestartRecoveredInv, StopServerInv, ShutdownReturnsInv, SpliceOutInv, StopNextInv,
     StopReturnsInv, ChildAnswersInv DEF PosixStep
<1>5. CASE SigintStep
  BY <1>2, <1>5, InterruptExitsInv DEF SigintStep
<1>6. CASE SignalStep
  BY <1>6, ReloadSignalInv, InterruptSignalInv, TermSignalInv, QuitSignalInv,
     UpgradeSignalInv DEF SignalStep
<1>7. CASE ServerStep
  BY <1>7, ServeReturnsInv, ServePacketReturnsInv DEF ServerStep
<1>8. CASE ClientStep
  BY <1>8, ClientInv DEF ClientStep
<1>9. CASE UNCHANGED vars
  BY <1>9, StutterInv
<1>. QED
  BY <1>3, <1>4, <1>5, <1>6, <1>7, <1>8, <1>9 DEF Next, Terminated

\* The state of the process is well typed in every reachable state.
THEOREM Typing == Spec => []TypeOK
<1>1. IInv => TypeOK
  BY DEF IInv
<1>. QED
  BY InitInv, NextInv, <1>1, PTL DEF Spec

\* The WaitGroup counts the server goroutines and the reload in progress, for
\* any number of reloads, addresses and interleavings (caddy.go 187-188, 787-806).
THEOREM WaitGroupCorrect == Spec => []WaitGroupCount
<1>1. IInv => WaitGroupCount
  BY DEF IInv
<1>. QED
  BY InitInv, NextInv, <1>1, PTL DEF Spec

\* Instance.Wait never returns while a server goroutine runs or a reload is in
\* progress (caddy.go 184-188, 427-430).
THEOREM WaitCorrect == Spec => []WaitHoldsProcess
<1>1. IInv => WaitHoldsProcess
  BY DEF IInv
<1>. QED
  BY InitInv, NextInv, <1>1, PTL DEF Spec
=============================================================================
