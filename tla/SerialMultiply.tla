---------------------------- MODULE SerialMultiply ----------------------------
(***************************************************************************)
(* A grouped operation whose HIP body owns whole route entries: one        *)
(* workgroup per route entry and column tile reads the entry, returns when *)
(* it is not valid, and walks its rows in full tiles of J; what is left is *)
(* one tail tile, in the smallest instantiated tile that holds it.         *)
(***************************************************************************)
EXTENDS RoutedGrid

CONSTANTS
    TileSets   \* the shorter tail tiles an instantiation may carry

VARIABLES
    expert_indices, expert_offsets,
    short_tiles,   \* tail tiles of this instantiation, template constants
    pc,            \* per workgroup, where its body is
    row_start,     \* per workgroup register
    output

vars == <<expert_indices, expert_offsets, short_tiles, pc, row_start, output>>

WorkGroups == GroupIds \X Columns

IsValid(g) == Valid(expert_indices, expert_offsets, g)
Begin(g) == RowBegin(expert_offsets, g)

Init ==
    /\ expert_indices \in ExpertBanks
    /\ expert_offsets \in OffsetBanks
    /\ short_tiles \in TileSets
    /\ pc = [wg \in WorkGroups |-> "enter"]
    /\ row_start = [wg \in WorkGroups |-> 0]
    /\ output = Blank

(* The branches of the tail dispatch: the first tile that holds the rows.  *)
TailTile(rows) ==
    LET holding == {t \in short_tiles : rows <= t}
    IN  IF holding = {} THEN RowTile
        ELSE CHOOSE t \in holding : \A u \in holding : t <= u

Goto(wg, from, to) ==
    /\ pc[wg] = from
    /\ pc' = [pc EXCEPT ![wg] = to]
    /\ UNCHANGED <<expert_indices, expert_offsets, short_tiles>>

Enter(wg) ==
    /\ Goto(wg, "enter", IF IsValid(wg[1]) THEN "rows" ELSE "retired")
    /\ row_start' = [row_start EXCEPT ![wg] = Begin(wg[1])]
    /\ UNCHANGED output

(* Fault: a partial tile is stored as a full one. *)
FullTileUnbounded(wg) ==
    /\ row_start[wg] < expert_offsets[wg[1]]
    /\ Goto(wg, "rows", "rows")
    /\ output' = Stored(output, row_start[wg] .. row_start[wg] + RowTile - 1,
                        wg[2], expert_indices[wg[1]])
    /\ row_start' = [row_start EXCEPT ![wg] = @ + RowTile]

FullTile(wg) ==
    /\ row_start[wg] + RowTile <= expert_offsets[wg[1]]
    /\ Goto(wg, "rows", "rows")
    /\ output' = Stored(output, row_start[wg] .. row_start[wg] + RowTile - 1,
                        wg[2], expert_indices[wg[1]])
    /\ row_start' = [row_start EXCEPT ![wg] = @ + RowTile]

Tail(wg) ==
    LET rows == expert_offsets[wg[1]] - row_start[wg]
    IN  /\ rows < RowTile
        /\ Goto(wg, "rows", "retired")
        /\ output' = IF rows > 0
                     THEN Stored(output,
                                 row_start[wg] ..
                                   row_start[wg] + SmallerOf(TailTile(rows), rows) - 1,
                                 wg[2], expert_indices[wg[1]])
                     ELSE output
        /\ UNCHANGED row_start

Next == \E wg \in WorkGroups : Enter(wg) \/ FullTile(wg) \/ Tail(wg)

(* Every workgroup of a launched grid runs to its end.                     *)
Spec == Init /\ [][Next]_vars /\ WF_vars(Next)
=============================================================================
