----------------------------- MODULE KernelLoader -----------------------------
(***************************************************************************)
(* Lazy loading and launch of the bundle's kernels, mmq_bundle_loader.cpp: *)
(* host threads look a kernel up in a process-wide map under a mutex, load *)
(* it there on a miss, and launch it after the mutex is released.  Every   *)
(* HIP call and the read of the artifact may fail, and a failure throws    *)
(* out of the launch.                                                      *)
(***************************************************************************)
EXTENDS Integers, FiniteSets

CONSTANTS
    Threads,   \* host threads that call launch_kernel
    Devices,   \* HIP devices of the process
    Kernels,   \* indices of the kernel table
    MaxCalls   \* bound: launches a thread makes
CONSTANT Nobody

ASSUME LoaderAssumption ==
    MaxCalls \in Nat /\ Nobody \notin Threads /\ IsFiniteSet(Threads)

VARIABLES
    mutex,           \* holder of loaded_kernels_mutex, or Nobody
    loaded_kernels,  \* the map: the keys with an entry, and its module
    modules,         \* live HIP modules, [id, key]
    next_module,     \* ids handed out, every module has its own
    launched,        \* keys launched so far
    pc, key, module, calls   \* per thread

vars == <<mutex, loaded_kernels, modules, next_module, launched,
          pc, key, module, calls>>

Keys == Devices \X Kernels
NoModule == 0

Init ==
    /\ mutex = Nobody
    /\ loaded_kernels = [k \in Keys |-> NoModule]
    /\ modules = {}
    /\ next_module = 1
    /\ launched = {}
    /\ pc = [t \in Threads |-> "idle"]
    /\ key \in [Threads -> Keys]
    /\ module = [t \in Threads |-> NoModule]
    /\ calls = [t \in Threads |-> 0]

Goto(t, from, to) == pc[t] = from /\ pc' = [pc EXCEPT ![t] = to]
Holding(t, from, to) == Goto(t, from, to) /\ mutex = t

(* A caller asks for a kernel on its current device, which hipGetDevice    *)
(* reports before the lock is taken, or fails to.                          *)
Call(t, k) ==
    /\ calls[t] < MaxCalls
    /\ Goto(t, "idle", "lock")
    /\ key' = [key EXCEPT ![t] = k]
    /\ calls' = [calls EXCEPT ![t] = @ + 1]
    /\ UNCHANGED <<mutex, loaded_kernels, modules, next_module, launched, module>>

(* Fault: the status of hipGetDevice is ignored, the device stays -1. *)
GetDeviceUnchecked(t) ==
    /\ calls[t] < MaxCalls
    /\ Goto(t, "idle", "lock")
    /\ key' = [key EXCEPT ![t] = <<-1, @[2]>>]
    /\ calls' = [calls EXCEPT ![t] = @ + 1]
    /\ UNCHANGED <<mutex, loaded_kernels, modules, next_module, launched, module>>

GetDeviceFails(t) ==
    /\ calls[t] < MaxCalls
    /\ Goto(t, "idle", "idle")
    /\ calls' = [calls EXCEPT ![t] = @ + 1]
    /\ UNCHANGED <<mutex, loaded_kernels, modules, next_module, launched, key, module>>

(* Fault: the lock is not exclusive. *)
LockShared(t) ==
    /\ Goto(t, "lock", "find")
    /\ mutex' = t
    /\ UNCHANGED <<loaded_kernels, modules, next_module, launched, key, module, calls>>

Lock(t) ==
    /\ mutex = Nobody
    /\ Goto(t, "lock", "find")
    /\ mutex' = t
    /\ UNCHANGED <<loaded_kernels, modules, next_module, launched, key, module, calls>>

Found(t) ==
    /\ Holding(t, "find", "launch")
    /\ loaded_kernels[key[t]] # NoModule
    /\ module' = [module EXCEPT ![t] = loaded_kernels[key[t]]]
    /\ mutex' = Nobody
    /\ UNCHANGED <<loaded_kernels, modules, next_module, launched, key, calls>>

ReadArtifact(t) ==
    /\ Holding(t, "find", "load")
    /\ loaded_kernels[key[t]] = NoModule
    /\ UNCHANGED <<mutex, loaded_kernels, modules, next_module, launched, key, module,
                   calls>>

LoadData(t) ==
    /\ Holding(t, "load", "function")
    /\ modules' = modules \cup {[id |-> next_module, key |-> key[t]]}
    /\ module' = [module EXCEPT ![t] = next_module]
    /\ next_module' = next_module + 1
    /\ UNCHANGED <<mutex, loaded_kernels, launched, key, calls>>

(* hipModuleGetFunction succeeds, the entry goes into the map, and the     *)
(* lock guard releases the mutex on return.                                *)
GetFunction(t) ==
    /\ Holding(t, "function", "launch")
    /\ loaded_kernels' = [loaded_kernels EXCEPT ![key[t]] = module[t]]
    /\ mutex' = Nobody
    /\ UNCHANGED <<modules, next_module, launched, key, module, calls>>

(* Fault: the failure keeps the mutex. *)
LoadFailsLocked(t) ==
    /\ Goto(t, pc[t], "idle") /\ mutex = t
    /\ \/ pc[t] = "find" /\ loaded_kernels[key[t]] = NoModule
       \/ pc[t] = "load"
    /\ UNCHANGED <<mutex, loaded_kernels, modules, next_module, launched, key, module,
                   calls>>

(* The artifact cannot be opened or read, or its image does not load: the  *)
(* exception leaves no module, and the lock guard releases the mutex.      *)
LoadFails(t) ==
    /\ Goto(t, pc[t], "idle") /\ mutex = t
    /\ \/ pc[t] = "find" /\ loaded_kernels[key[t]] = NoModule
       \/ pc[t] = "load"
    /\ mutex' = Nobody
    /\ UNCHANGED <<loaded_kernels, modules, next_module, launched, key, module, calls>>

(* Fault: hipModuleUnload is missing on the error path. *)
UnloadedNothing(t) == modules

Unloaded(t) == {m \in modules : m.id # module[t]}

(* Fault: the entry is made before the function is looked up. *)
GetFunctionFailsLate(t) ==
    /\ Holding(t, "function", "idle")
    /\ modules' = Unloaded(t)
    /\ loaded_kernels' = [loaded_kernels EXCEPT ![key[t]] = module[t]]
    /\ module' = [module EXCEPT ![t] = NoModule]
    /\ mutex' = Nobody
    /\ UNCHANGED <<next_module, launched, key, calls>>

(* The image loads but exports no such function: unload, then throw.       *)
GetFunctionFails(t) ==
    /\ Holding(t, "function", "idle")
    /\ modules' = Unloaded(t)
    /\ module' = [module EXCEPT ![t] = NoModule]
    /\ mutex' = Nobody
    /\ UNCHANGED <<loaded_kernels, next_module, launched, key, calls>>

LaunchKernel(t) ==
    /\ Goto(t, "launch", "idle")
    /\ module' = [module EXCEPT ![t] = NoModule]
    /\ launched' = launched \cup {key[t]}
    /\ UNCHANGED <<mutex, loaded_kernels, modules, next_module, key, calls>>

(* Fault: a failed launch drops the entry so that a retry reloads it. *)
LaunchFailsEvicting(t) ==
    /\ Goto(t, "launch", "idle")
    /\ module' = [module EXCEPT ![t] = NoModule]
    /\ loaded_kernels' = [loaded_kernels EXCEPT ![key[t]] = NoModule]
    /\ UNCHANGED <<mutex, modules, next_module, launched, key, calls>>

LaunchFails(t) ==
    /\ Goto(t, "launch", "idle")
    /\ module' = [module EXCEPT ![t] = NoModule]
    /\ UNCHANGED <<mutex, loaded_kernels, modules, next_module, launched, key, calls>>

Step(t) ==
    \/ Lock(t) \/ Found(t) \/ ReadArtifact(t) \/ LoadData(t) \/ GetFunction(t)
    \/ LoadFails(t) \/ GetFunctionFails(t) \/ LaunchKernel(t) \/ LaunchFails(t)

Next ==
    \E t \in Threads :
        Step(t) \/ GetDeviceFails(t) \/ \E k \in Keys : Call(t, k)

(* A host thread that is inside a call keeps running; nobody has to call.  *)
(* The mutex is not fair, which the bound on calls makes up for.           *)
Spec == Init /\ [][Next]_vars /\ \A t \in Threads : WF_vars(Step(t))

-----------------------------------------------------------------------------
InsideLock == {"find", "load", "function"}

(* Type invariant: every entry and module is of a key of the process.      *)
TypeOK ==
    /\ mutex \in Threads \cup {Nobody}
    /\ loaded_kernels \in [Keys -> Nat]
    /\ modules \in SUBSET [id : Nat, key : Keys]
    /\ next_module \in Nat
    /\ launched \in SUBSET Keys
    /\ pc \in [Threads -> {"idle", "lock", "launch"} \cup InsideLock]
    /\ key \in [Threads -> Keys]
    /\ module \in [Threads -> Nat]
    /\ calls \in [Threads -> 0 .. MaxCalls]

(* However the misses of two threads on one key interleave, and whichever  *)
(* of their calls fail, one device never holds two images of one kernel.   *)
LoadedOnce == \A m, n \in modules : m.key = n.key => m = n

(* A module that no map entry owns belongs to the thread that is loading   *)
(* it: no failure leaves an image behind that nothing can unload.          *)
NoLeakedModule ==
    \A m \in modules :
        \/ loaded_kernels[m.key] = m.id
        \/ \E t \in Threads : pc[t] = "function" /\ mutex = t /\ module[t] = m.id

(* The reference a call keeps past the mutex stays good until its launch:  *)
(* a live module of its own key.                                           *)
LaunchesLiveModule ==
    \A t \in Threads :
        pc[t] = "launch" => [id |-> module[t], key |-> key[t]] \in modules

(* No exception path keeps the mutex, so every call comes back.            *)
CallsReturn == \A t \in Threads : pc[t] = "lock" ~> pc[t] = "idle"

Cache == INSTANCE KernelCache WITH resolved <- {k \in Keys : loaded_kernels[k] # NoModule}

(* The locked, failing, lazy loader is a cache that loads a key at most    *)
(* once, never evicts it, and launches only what it has resolved.          *)
ImplementsKernelCache == Cache!Spec
=============================================================================
