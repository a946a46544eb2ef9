---------------------------- MODULE RoutedProblem ----------------------------
(***************************************************************************)
(* The routed problem every grouped operation receives: `Groups` route     *)
(* entries, each naming an expert and the end of its rows in one tensor of *)
(* `Rows` activation rows, plus the row tile the deployed kernel works in. *)
(* Expert ids and offsets are device tensors the host never reads, so the  *)
(* kernels themselves drop entries that are out of range or empty.         *)
(***************************************************************************)
EXTENDS Integers, FiniteSets

CONSTANTS
    Groups,      \* number of route entries, num_groups
    Rows,        \* aggregate activation rows, nrows_activation
    RowTile,     \* rows one task or one row tile covers
    NumExperts,  \* experts in the packed bank, num_experts
    MaxOffset,   \* bound on the offsets a route entry may carry
    ExpertIds    \* expert ids a route entry may carry, in or out of the bank

ASSUME GroupsAssumption == Groups \in Nat \ {0}
ASSUME RowsAssumption == Rows \in Nat \ {0}
ASSUME RowTileAssumption == RowTile \in Nat \ {0}
ASSUME NumExpertsAssumption == NumExperts \in Nat \ {0}
ASSUME MaxOffsetAssumption == MaxOffset \in Nat
ASSUME ExpertIdsAssumption == ExpertIds \subseteq Int

GroupIds == 0 .. Groups - 1

(* Offsets are cumulative row ends, so they never decrease.                *)
OffsetBanks ==
    {f \in [GroupIds -> 0 .. MaxOffset] :
        \A g, h \in GroupIds : g <= h => f[g] <= f[h]}

ExpertBanks == [GroupIds -> ExpertIds]

RowBegin(offsets, g) == IF g = 0 THEN 0 ELSE offsets[g - 1]

(* Fault: the count itself passes for an expert id. *)
ValidUpToCount(experts, offsets, g) ==
    /\ experts[g] >= 0
    /\ experts[g] <= NumExperts
    /\ RowBegin(offsets, g) >= 0
    /\ offsets[g] > RowBegin(offsets, g)
    /\ offsets[g] <= Rows

Valid(experts, offsets, g) ==
    /\ experts[g] >= 0
    /\ experts[g] < NumExperts
    /\ RowBegin(offsets, g) >= 0
    /\ offsets[g] > RowBegin(offsets, g)
    /\ offsets[g] <= Rows

CeilDiv(n, d) == (n + d - 1) \div d

(* Row tiles the setup kernel cuts group g into.                           *)
GroupTasks(experts, offsets, g) ==
    IF g \in GroupIds /\ Valid(experts, offsets, g)
    THEN CeilDiv(offsets[g] - RowBegin(offsets, g), RowTile)
    ELSE 0

(* Fault: no slot for the partial tile a route entry ends with. *)
CapacityOfFullTiles == CeilDiv(Rows, RowTile)

(* The bank every caller allocates: paired_row_task_capacity.              *)
Capacity == CeilDiv(Rows, RowTile) + Groups

(* The row tiles of the whole routing, as <<group, position in its group>>. *)
TaskSet(experts, offsets) ==
    {gt \in GroupIds \X (0 .. Rows) : gt[2] < GroupTasks(experts, offsets, gt[1])}

(* How many of them precede group g: what the device scan has to compute.  *)
TasksBefore(experts, offsets, g) ==
    Cardinality({gt \in TaskSet(experts, offsets) : gt[1] < g})

SmallerOf(a, b) == IF a < b THEN a ELSE b
=============================================================================
