---------------------------- MODULE AssemblyRoutes ----------------------------
(***************************************************************************)
(* The routed kernels the assembly generator emits, as the sequence of     *)
(* their scalar branches: the exact-shape guard, the route guard, the      *)
(* decoding of grid coordinates into a column tile and a first row tile,   *)
(* and the strided walk over the row tiles of the route.  A kernel is      *)
(* generated for one physical expert count and one bound on route entries. *)
(***************************************************************************)
EXTENDS RoutedGrid

CONSTANTS
    PhysicalExperts,  \* expert count the kernel was generated for
    MaxRouteEntries,  \* route entries it was generated for
    Policies          \* the ownership policies to launch

VARIABLES
    expert_indices, expert_offsets,
    policy,     \* ownership policy of the kernel, fixed when it is generated
    pc,         \* per workgroup, the label it has reached
    tile,       \* per workgroup scalar register s2, a row tile of the route
    output

vars == <<expert_indices, expert_offsets, policy, pc, tile, output>>

Powers == {1, 2, 4, 8}

(* split workgroups per route (packed into grid Y, or on grid Z) times     *)
(* mapping lanes of grid X share the row tiles of a route.                 *)
IsPolicy(p) ==
    /\ p.split \in Powers /\ p.mapping \in Powers
    /\ p.packed \in BOOLEAN
    /\ p.walk \in {"rolled", "full_and_tail", "split_full_and_tail"}
    /\ p.walk = "full_and_tail" => p.split * p.mapping = 1
    /\ p.walk = "split_full_and_tail" => p.split * p.mapping > 1
    /\ p.threshold \in Nat /\ p.tail_rows \in Nat
    /\ p.threshold <= p.tail_rows

(* Fault: the walk strides over the splits of a route only. *)
StrideOfSplits == policy.split

Stride == policy.split * policy.mapping

(* The launch grid: x packs columns and mapping lanes, y routes and splits.*)
Grid(p) ==
    (0 .. ColumnTiles * p.mapping - 1)
      \X (0 .. Groups * (IF p.packed THEN p.split ELSE 1) - 1)
      \X (0 .. (IF p.packed THEN 1 ELSE p.split) - 1)

WorkGroups == Grid(policy)

(* What a workgroup decodes from its grid coordinates.                     *)
Column(wg) == wg[1] \div policy.mapping
Lane(wg) == wg[1] % policy.mapping
Route(wg) == IF policy.packed THEN wg[2] \div policy.split ELSE wg[2]
SplitIndex(wg) == IF policy.packed THEN wg[2] % policy.split ELSE wg[3]
FirstTile(wg) == SplitIndex(wg) * policy.mapping + Lane(wg)

RouteBegin(wg) == RowBegin(expert_offsets, Route(wg))
RouteRows(wg) == expert_offsets[Route(wg)] - RouteBegin(wg)

(* Guards that end the kernel before it touches the output.                *)
ExactShape(wg) == NumExperts = PhysicalExperts /\ Route(wg) < MaxRouteEntries
RouteGuard(wg) == Valid(expert_indices, expert_offsets, Route(wg))

Init ==
    /\ expert_indices \in ExpertBanks
    /\ expert_offsets \in OffsetBanks
    /\ policy \in Policies
    /\ pc = [wg \in WorkGroups |-> "enter"]
    /\ tile = [wg \in WorkGroups |-> 0]
    /\ output = Blank

FirstLabel(wg) ==
    IF policy.threshold > 0 /\ RouteRows(wg) <= policy.threshold THEN "secondary"
    ELSE IF policy.walk = "rolled" THEN "rolled"
    ELSE IF (FirstTile(wg) + 1) * RowTile <= RouteRows(wg) THEN "full" ELSE "tail"

Goto(wg, from, to) ==
    /\ pc[wg] = from
    /\ pc' = [pc EXCEPT ![wg] = to]
    /\ UNCHANGED <<expert_indices, expert_offsets, policy>>

Enter(wg) ==
    /\ Goto(wg, "enter",
            IF /\ ExactShape(wg) /\ RouteGuard(wg)
               /\ Column(wg) < ColumnTiles
               /\ Stride > 1 => FirstTile(wg) * RowTile < RouteRows(wg)
            THEN FirstLabel(wg) ELSE "exit")
    /\ tile' = [tile EXCEPT ![wg] = FirstTile(wg)]
    /\ UNCHANGED output

(* A bounded tile masks its rows at the end of the route, a full one does  *)
(* not mask at all.                                                        *)
Store(wg, height, bounded) ==
    LET first == tile[wg] * height
        rows == IF bounded THEN SmallerOf(height, RouteRows(wg) - first) ELSE height
    IN  Stored(output, RouteBegin(wg) + first .. RouteBegin(wg) + first + rows - 1,
               Column(wg), expert_indices[Route(wg)])

Advance(wg) == tile' = [tile EXCEPT ![wg] = @ + Stride]
NextBegin(wg) == (tile[wg] + Stride) * RowTile

Rolled(wg) ==
    /\ Goto(wg, "rolled", IF NextBegin(wg) < RouteRows(wg) THEN "rolled" ELSE "exit")
    /\ output' = Store(wg, RowTile, TRUE)
    /\ Advance(wg)

Full(wg) ==
    /\ Goto(wg, "full",
            IF NextBegin(wg) + RowTile <= RouteRows(wg) THEN "full"
            ELSE IF NextBegin(wg) >= RouteRows(wg) THEN "exit" ELSE "tail")
    /\ output' = Store(wg, RowTile, FALSE)
    /\ Advance(wg)

Tail(wg) ==
    /\ Goto(wg, "tail", "exit")
    /\ output' = Store(wg, RowTile, TRUE)
    /\ UNCHANGED tile

Secondary(wg) ==
    /\ Goto(wg, "secondary", "exit")
    /\ output' = Store(wg, policy.tail_rows, TRUE)
    /\ UNCHANGED tile

Next ==
    \E wg \in WorkGroups :
        Enter(wg) \/ Rolled(wg) \/ Full(wg) \/ Tail(wg) \/ Secondary(wg)

(* Every workgroup of a launched grid runs to its end.                     *)
Spec == Init /\ [][Next]_vars /\ WF_vars(Next)

-----------------------------------------------------------------------------
Output == INSTANCE RoutedOutput

Retired == \A wg \in WorkGroups : pc[wg] = "exit"

(* docs/kernel_bundle.md says of routed inputs: "The expert count is read  *)
(* from the bank, so a bank with fewer experts than the family's model     *)
(* serves the same record as long as the route entries fit it."            *)
SmallerBankServed ==
    Groups <= NumExperts /\ NumExperts <= PhysicalExperts /\ Retired
        => Output!Complete
=============================================================================
