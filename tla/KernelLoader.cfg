CONSTANTS
    Threads = {t1, t2, t3}
    Devices = {d1, d2}
    Kernels = {k1}
    MaxCalls = 2
    Nobody = Nobody
SPECIFICATION Spec
INVARIANTS
    TypeOK
    LoadedOnce
    NoLeakedModule
    LaunchesLiveModule
PROPERTIES
    CallsReturn
    ImplementsKernelCache
\* Threads stop calling when their bound is reached.
CHECK_DEADLOCK FALSE
