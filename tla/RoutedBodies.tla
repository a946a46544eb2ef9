----------------------------- MODULE RoutedBodies -----------------------------
(***************************************************************************)
(* A grouped operation whose record names one of the bodies that own whole *)
(* route entries: the serial HIP body, or a kernel of the assembly         *)
(* generator.  The host launches either on the same tensors; both promise  *)
(* the same output.                                                        *)
(***************************************************************************)
EXTENDS RoutedGrid

CONSTANTS
    TileSets,         \* the shorter tail tiles a HIP instantiation may carry
    PhysicalExperts,  \* expert count an assembly kernel was generated for
    MaxRouteEntries,  \* route entries it was generated for
    Policies          \* the ownership policies to launch

VARIABLES
    body,          \* the body the record names
    expert_indices, expert_offsets,
    short_tiles,   \* of the HIP body
    policy,        \* of the assembly kernel
    pc,            \* per workgroup, where its body is
    at,            \* per workgroup, its row (HIP) or row tile (assembly)
    output

vars == <<body, expert_indices, expert_offsets, short_tiles, policy, pc, at, output>>

Serial == INSTANCE SerialMultiply WITH row_start <- at
Assembly == INSTANCE AssemblyRoutes WITH tile <- at

ASSUME TileSetsAssumption == TileSets \subseteq SUBSET (1 .. RowTile)
ASSUME PoliciesAssumption == \A p \in Policies : Assembly!IsPolicy(p)
ASSUME ExactShapeAssumption ==
    PhysicalExperts \in Nat \ {0} /\ MaxRouteEntries \in Nat \ {0}

Init ==
    \/ body = "hip" /\ Serial!Init /\ policy = "none"
    \/ body = "assembly" /\ Assembly!Init /\ short_tiles = {}

Next ==
    \/ body = "hip" /\ Serial!Next /\ UNCHANGED <<body, policy>>
    \/ body = "assembly" /\ Assembly!Next /\ UNCHANGED <<body, short_tiles>>

(* Every workgroup of a launched grid runs to its end.                     *)
Spec == Init /\ [][Next]_vars /\ WF_vars(Next)

-----------------------------------------------------------------------------
Output == INSTANCE RoutedOutput

(* The serial walk with any choice of tail tiles, and the workgroups that  *)
(* share a route over splits, mapping lanes and the full, tail and         *)
(* secondary bodies, write each row of a valid entry once, with its        *)
(* expert, and eventually all of them: no overlap, no gap, no row past the *)
(* entry.                                                                  *)
ImplementsRoutedOutput == Output!Spec
=============================================================================
