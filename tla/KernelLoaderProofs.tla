-------------------------- MODULE KernelLoaderProofs --------------------------
(***************************************************************************)
(* Proofs about the kernel loader, for any number of threads, devices,     *)
(* kernels and calls.  The inductive invariant says who owns each module:  *)
(* the map entry of its key, or the one thread that holds the mutex and is *)
(* between hipModuleLoadData and hipModuleGetFunction.                     *)
(***************************************************************************)
EXTENDS KernelLoader, TLAPS

(* The threads inside the critical section are the holder of the mutex.    *)
MutexHeld == \A t \in Threads : pc[t] \in InsideLock <=> mutex = t

(* Module ids are fresh when they are handed out.                          *)
IdsFresh ==
    /\ next_module > 0
    /\ \A m \in modules : m.id > 0 /\ m.id < next_module
    /\ \A m, n \in modules : m.id = n.id => m = n

EntriesLive ==
    \A k \in Keys :
        loaded_kernels[k] # NoModule => [id |-> loaded_kernels[k], key |-> k] \in modules

(* A thread that loads has missed, and the miss still stands.              *)
MissStands ==
    \A t \in Threads :
        pc[t] \in {"load", "function"} => loaded_kernels[key[t]] = NoModule

LoadingLive ==
    \A t \in Threads :
        pc[t] = "function" => [id |-> module[t], key |-> key[t]] \in modules

LaunchResolved ==
    \A t \in Threads :
        pc[t] = "launch" =>
            loaded_kernels[key[t]] = module[t] /\ module[t] # NoModule

IInv ==
    /\ TypeOK
    /\ MutexHeld
    /\ IdsFresh
    /\ EntriesLive
    /\ MissStands
    /\ LoadingLive
    /\ LaunchResolved
    /\ NoLeakedModule

(* The invariant holds before the first call.                              *)
LEMMA LoaderInit == Init => IInv
  BY LoaderAssumption
  DEF Init, IInv, TypeOK, MutexHeld, IdsFresh, EntriesLive, MissStands, LoadingLive,
      LaunchResolved, NoLeakedModule, InsideLock, NoModule

(* Every step preserves the invariant.  The two that move ownership, a new *)
(* module and its entry into the map, are taken part by part.              *)
LEMMA LoaderStep == IInv /\ [Next]_vars => IInv'
  <1> SUFFICES ASSUME IInv, [Next]_vars PROVE IInv'
    OBVIOUS
  <1> USE LoaderAssumption
  <1>1. ASSUME NEW t \in Threads, NEW k \in Keys, Call(t, k) PROVE IInv'
    BY <1>1 DEF IInv, TypeOK, MutexHeld, IdsFresh, EntriesLive, MissStands, LoadingLive,
      LaunchResolved, NoLeakedModule, InsideLock, NoModule, Call, Goto
  <1>2. ASSUME NEW t \in Threads, GetDeviceFails(t) PROVE IInv'
    BY <1>2 DEF IInv, TypeOK, MutexHeld, IdsFresh, EntriesLive, MissStands, LoadingLive,
      LaunchResolved, NoLeakedModule, InsideLock, NoModule, GetDeviceFails, Goto
  <1>3. ASSUME NEW t \in Threads, Lock(t) PROVE IInv'
    BY <1>3 DEF IInv, TypeOK, MutexHeld, IdsFresh, EntriesLive, MissStands, LoadingLive,
      LaunchResolved, NoLeakedModule, InsideLock, NoModule, Lock, Goto
  <1>4. ASSUME NEW t \in Threads, Found(t) PROVE IInv'
    BY <1>4 DEF IInv, TypeOK, MutexHeld, IdsFresh, EntriesLive, MissStands, LoadingLive,
      LaunchResolved, NoLeakedModule, InsideLock, NoModule, Found, Holding, Goto
  <1>5. ASSUME NEW t \in Threads, ReadArtifact(t) PROVE IInv'
    BY <1>5 DEF IInv, TypeOK, MutexHeld, IdsFresh, EntriesLive, MissStands, LoadingLive,
      LaunchResolved, NoLeakedModule, InsideLock, NoModule, ReadArtifact, Holding, Goto
  <1>6. ASSUME NEW t \in Threads, LoadData(t) PROVE IInv'
    <2> DEFINE loading == [id |-> next_module, key |-> key[t]]
    <2> USE <1>6 DEF LoadData, Holding, Goto
    <2>1. pc[t] = "load" /\ mutex = t /\ key[t] \in Keys /\ next_module \in Nat
      BY DEF IInv, TypeOK
    <2>2. \A u \in Threads : u # t => pc[u] \notin InsideLock /\ pc'[u] = pc[u]
      BY <2>1 DEF IInv, TypeOK, MutexHeld
    <2>3. modules' = modules \cup {loading} /\ next_module' = next_module + 1
      OBVIOUS
    <2>4. TypeOK'
      BY <2>1, <2>3 DEF IInv, TypeOK, InsideLock
    <2>5. MutexHeld'
      BY <2>1 DEF IInv, TypeOK, MutexHeld, InsideLock
    <2>6. IdsFresh'
      BY <2>1, <2>3 DEF IInv, TypeOK, IdsFresh
    <2>7. EntriesLive'
      BY <2>3 DEF IInv, EntriesLive
    <2>8. MissStands'
      BY <2>1 DEF IInv, TypeOK, MissStands
    <2>9. LoadingLive'
      BY <2>1, <2>2, <2>3 DEF IInv, TypeOK, LoadingLive, InsideLock
    <2>10. LaunchResolved'
      BY <2>1 DEF IInv, TypeOK, LaunchResolved
    <2>11. NoLeakedModule'
      <3> SUFFICES ASSUME NEW m \in modules'
                   PROVE \/ loaded_kernels[m.key] = m.id
                         \/ \E u \in Threads :
                              pc'[u] = "function" /\ mutex = u /\ module'[u] = m.id
        BY DEF NoLeakedModule
      <3>1. CASE m = loading
        BY <2>1, <3>1 DEF IInv, TypeOK
      <3>2. CASE m \in modules
        BY <2>1, <2>2, <3>2 DEF IInv, NoLeakedModule, InsideLock
      <3> QED
        BY <2>3, <3>1, <3>2
    <2> QED
      BY <2>4, <2>5, <2>6, <2>7, <2>8, <2>9, <2>10, <2>11 DEF IInv
  <1>7. ASSUME NEW t \in Threads, GetFunction(t) PROVE IInv'
    <2> USE <1>7 DEF GetFunction, Holding, Goto
    <2> DEFINE entry == [id |-> module[t], key |-> key[t]]
    <2>1. pc[t] = "function" /\ mutex = t /\ key[t] \in Keys /\ module[t] \in Nat
      BY DEF IInv, TypeOK
    <2>2. \A u \in Threads : u # t => pc[u] \notin InsideLock /\ pc'[u] = pc[u]
      BY <2>1 DEF IInv, TypeOK, MutexHeld
    <2>3. entry \in modules /\ loaded_kernels[key[t]] = NoModule
      BY <2>1 DEF IInv, LoadingLive, MissStands
    <2>4. module[t] # NoModule
      BY <2>3 DEF IInv, IdsFresh, NoModule
    <2>5. /\ loaded_kernels'[key[t]] = module[t]
          /\ \A k \in Keys : k # key[t] => loaded_kernels'[k] = loaded_kernels[k]
      BY <2>1 DEF IInv, TypeOK
    <2>6. TypeOK'
      BY <2>1 DEF IInv, TypeOK, InsideLock
    <2>7. MutexHeld'
      BY <2>1, <2>2 DEF IInv, TypeOK, MutexHeld, InsideLock
    <2>8. IdsFresh'
      BY DEF IInv, IdsFresh
    <2>9. EntriesLive'
      BY <2>3, <2>5 DEF IInv, EntriesLive
    <2>10. MissStands' /\ LoadingLive'
      BY <2>1, <2>2 DEF IInv, TypeOK, MissStands, LoadingLive, InsideLock
    <2>11. LaunchResolved'
      BY <2>1, <2>3, <2>4, <2>5 DEF IInv, TypeOK, LaunchResolved
    <2>12. NoLeakedModule'
      <3> SUFFICES ASSUME NEW m \in modules
                   PROVE \/ loaded_kernels'[m.key] = m.id
                         \/ \E u \in Threads :
                              pc'[u] = "function" /\ mutex' = u /\ module'[u] = m.id
        BY DEF NoLeakedModule
      <3>1. m.key \in Keys /\ m.id > 0
        BY DEF IInv, TypeOK, IdsFresh
      <3>2. CASE m.id = module[t]
        <4>1. m = entry
          BY <2>3, <3>2 DEF IInv, IdsFresh
        <4> QED
          BY <2>5, <4>1
      <3>3. CASE m.id # module[t]
        <4>1. loaded_kernels[m.key] = m.id
          BY <2>1, <3>3 DEF IInv, NoLeakedModule
        <4>2. m.key # key[t]
          BY <2>3, <3>1, <4>1 DEF NoModule
        <4> QED
          BY <2>5, <3>1, <4>1, <4>2
      <3> QED
        BY <3>2, <3>3
    <2> QED
      BY <2>6, <2>7, <2>8, <2>9, <2>10, <2>11, <2>12 DEF IInv
  <1>8. ASSUME NEW t \in Threads, LoadFails(t) PROVE IInv'
    BY <1>8 DEF IInv, TypeOK, MutexHeld, IdsFresh, EntriesLive, MissStands, LoadingLive,
      LaunchResolved, NoLeakedModule, InsideLock, NoModule, LoadFails, Goto
  <1>9. ASSUME NEW t \in Threads, GetFunctionFails(t) PROVE IInv'
    BY <1>9 DEF IInv, TypeOK, MutexHeld, IdsFresh, EntriesLive, MissStands, LoadingLive,
      LaunchResolved, NoLeakedModule, InsideLock, NoModule, GetFunctionFails, Unloaded,
      Holding, Goto
  <1>10. ASSUME NEW t \in Threads, LaunchKernel(t) \/ LaunchFails(t) PROVE IInv'
    BY <1>10 DEF IInv, TypeOK, MutexHeld, IdsFresh, EntriesLive, MissStands, LoadingLive,
      LaunchResolved, NoLeakedModule, InsideLock, NoModule, LaunchKernel, LaunchFails, Goto
  <1>11. CASE UNCHANGED vars
    BY <1>11 DEF vars, IInv, TypeOK, MutexHeld, IdsFresh, EntriesLive, MissStands,
      LoadingLive, LaunchResolved, NoLeakedModule, InsideLock, NoModule
  <1> QED
    BY <1>1, <1>2, <1>3, <1>4, <1>5, <1>6, <1>7, <1>8, <1>9, <1>10, <1>11
    DEF Next, Step

-----------------------------------------------------------------------------
(* A process never reaches a state outside the invariant.                  *)
LEMMA LoaderInvariant == Spec => []IInv
  <1>1. Init => IInv
    BY LoaderInit
  <1>2. IInv /\ [Next]_vars => IInv'
    BY LoaderStep
  <1> QED
    BY <1>1, <1>2, PTL DEF Spec

(* Every variable of the loader keeps its type.                            *)
THEOREM LoaderTypeOK == Spec => []TypeOK
  <1>1. IInv => TypeOK
    BY DEF IInv
  <1> QED
    BY <1>1, LoaderInvariant, PTL

(* An image that fails to resolve is unloaded, any other is in the map: no *)
(* failure of resolve_kernel leaks a module.                               *)
THEOREM LoaderNoLeakedModule == Spec => []NoLeakedModule
  <1>1. IInv => NoLeakedModule
    BY DEF IInv
  <1> QED
    BY <1>1, LoaderInvariant, PTL

(* Two modules of one key have one owner: both are the entry of the key,   *)
(* or both are the load in progress.  They cannot be one of each, because  *)
(* the key of a load in progress has no entry.                             *)
LEMMA OneOwner == IInv => LoadedOnce
  <1> SUFFICES ASSUME IInv, NEW m \in modules, NEW n \in modules, m.key = n.key
               PROVE m = n
    BY DEF LoadedOnce
  <1> USE DEF IInv
  <1>1. m.key \in Keys /\ m.id > 0 /\ n.id > 0
    BY DEF TypeOK, IdsFresh
  <1> DEFINE Entry(x) == loaded_kernels[x.key] = x.id
             Loading(x) == \E t \in Threads :
                             pc[t] = "function" /\ mutex = t /\ module[t] = x.id
  <1>2. ASSUME NEW x \in modules, Loading(x) PROVE loaded_kernels[x.key] = NoModule
    <2>1. PICK t \in Threads : pc[t] = "function" /\ mutex = t /\ module[t] = x.id
      BY <1>2
    <2>2. [id |-> module[t], key |-> key[t]] \in modules
      BY <2>1 DEF LoadingLive
    <2>3. x = [id |-> module[t], key |-> key[t]]
      BY <2>1, <2>2 DEF IdsFresh
    <2> QED
      BY <2>1, <2>3 DEF MissStands
  <1>3. (Entry(m) \/ Loading(m)) /\ (Entry(n) \/ Loading(n))
    BY DEF NoLeakedModule
  <1>4. m.id = n.id
    BY <1>1, <1>2, <1>3 DEF NoModule
  <1> QED
    BY <1>4 DEF IdsFresh

(* One device never holds two images of one kernel, whatever the           *)
(* interleaving of the threads and the failures of their calls.            *)
THEOREM LoaderLoadedOnce == Spec => []LoadedOnce
  BY OneOwner, LoaderInvariant, PTL

(* The module a call keeps past the mutex is live at its launch.           *)
THEOREM LoaderLaunchesLiveModule == Spec => []LaunchesLiveModule
  <1>1. IInv => LaunchesLiveModule
    BY DEF IInv, TypeOK, EntriesLive, LaunchResolved, LaunchesLiveModule
  <1> QED
    BY <1>1, LoaderInvariant, PTL

-----------------------------------------------------------------------------
(* Every step of the loader resolves a key that was not resolved, launches *)
(* one that is, or changes nothing the cache shows.                        *)
LEMMA CacheStep ==
    IInv /\ [Next]_vars => [Cache!Next]_<<{k \in Keys : loaded_kernels[k] # NoModule}, launched>>
  <1> DEFINE resolved == {k \in Keys : loaded_kernels[k] # NoModule}
  <1> SUFFICES ASSUME IInv, [Next]_vars
               PROVE Cache!Next \/ UNCHANGED <<resolved, launched>>
    OBVIOUS
  <1>1. ASSUME NEW t \in Threads, GetFunction(t) PROVE \E k \in Cache!Keys : Cache!Resolve(k)
    <2>0. /\ key[t] \in Keys /\ loaded_kernels[key[t]] = NoModule
          /\ loaded_kernels \in [Keys -> Nat]
          /\ [id |-> module[t], key |-> key[t]] \in modules
      BY <1>1 DEF IInv, TypeOK, MissStands, LoadingLive, GetFunction, Holding, Goto
    <2>1. module[t] # NoModule
      BY <2>0 DEF IInv, IdsFresh, NoModule
    <2>2. loaded_kernels' = [loaded_kernels EXCEPT ![key[t]] = module[t]]
          /\ launched' = launched
      BY <1>1 DEF GetFunction
    <2>3. PICK k \in Keys : k = key[t]
      BY <2>0
    <2>4. k \notin resolved /\ resolved' = resolved \cup {k}
      BY <2>0, <2>1, <2>2, <2>3
    <2> QED
      BY <2>2, <2>4 DEF Cache!Resolve, Cache!Keys, Keys
  <1>2. ASSUME NEW t \in Threads, LaunchKernel(t) PROVE \E k \in Cache!Keys : Cache!Launch(k)
    <2>1. PICK k \in Keys : k = key[t]
      BY DEF IInv, TypeOK
    <2>2. loaded_kernels[k] # NoModule /\ launched' = launched \cup {k}
      BY <1>2, <2>1 DEF IInv, LaunchResolved, LaunchKernel, Goto
    <2>3. resolved' = resolved
      BY <1>2 DEF LaunchKernel
    <2> QED
      BY <2>1, <2>2, <2>3 DEF Cache!Launch, Cache!Keys, Keys
  <1>3. ASSUME loaded_kernels' = loaded_kernels, launched' = launched
        PROVE UNCHANGED <<resolved, launched>>
    BY <1>3
  <1>4. ASSUME NEW t \in Threads, Step(t) PROVE Cache!Next \/ UNCHANGED <<resolved, launched>>
    <2>1. CASE GetFunction(t)
      <3>1. PICK k \in Cache!Keys : Cache!Resolve(k)
        BY <1>1, <2>1
      <3> QED
        BY <3>1 DEF Cache!Next
    <2>2. CASE LaunchKernel(t)
      <3>1. PICK k \in Cache!Keys : Cache!Launch(k)
        BY <1>2, <2>2
      <3> QED
        BY <3>1 DEF Cache!Next
    <2>3. CASE ~GetFunction(t) /\ ~LaunchKernel(t)
      BY <1>3, <1>4, <2>3 DEF Step, Lock, Found, ReadArtifact, LoadData, LoadFails,
        GetFunctionFails, LaunchFails
    <2> QED
      BY <2>1, <2>2, <2>3
  <1>5. ASSUME NEW t \in Threads,
               GetDeviceFails(t) \/ (\E k \in Keys : Call(t, k)) \/ UNCHANGED vars
        PROVE UNCHANGED <<resolved, launched>>
    BY <1>3, <1>5 DEF GetDeviceFails, Call, vars
  <1>6. CASE UNCHANGED vars
    BY <1>3, <1>6 DEF vars
  <1> QED
    BY <1>4, <1>5, <1>6 DEF Next

(* The lazy, failing, multithreaded loader implements the cache that loads *)
(* a key at most once and never evicts it.                                 *)
THEOREM LoaderImplementsCache == Spec => ImplementsKernelCache
  <1>1. ASSUME Init PROVE Cache!Init
    <2>1. launched = {} /\ \A k \in Keys : loaded_kernels[k] = NoModule
      BY <1>1 DEF Init
    <2>2. {k \in Keys : loaded_kernels[k] # NoModule} = {}
      BY <2>1
    <2> QED
      BY <2>1, <2>2 DEF Cache!Init
  <1> QED
    BY <1>1, CacheStep, LoaderInvariant, PTL DEF Spec, ImplementsKernelCache, Cache!Spec
=============================================================================
