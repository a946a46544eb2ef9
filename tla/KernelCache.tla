----------------------------- MODULE KernelCache -----------------------------
(***************************************************************************)
(* What the kernel loader promises its callers: a kernel is loaded on a    *)
(* device at most once and stays loaded, and a resolved kernel may be      *)
(* launched any number of times.  A failed resolution changes nothing.     *)
(***************************************************************************)
CONSTANTS
    Devices,   \* HIP devices of the process
    Kernels    \* indices of the kernel table

VARIABLES
    resolved,  \* the <<device, kernel>> keys that are loaded, once and for all
    launched   \* the keys that have been launched

Keys == Devices \X Kernels

Init == resolved = {} /\ launched = {}

Resolve(key) ==
    /\ key \notin resolved
    /\ resolved' = resolved \cup {key}
    /\ UNCHANGED launched

Launch(key) ==
    /\ key \in resolved
    /\ launched' = launched \cup {key}
    /\ UNCHANGED resolved

Next == \E key \in Keys : Resolve(key) \/ Launch(key)

Spec == Init /\ [][Next]_<<resolved, launched>>
=============================================================================
