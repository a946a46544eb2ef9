------------------------------ MODULE RoutedGrid ------------------------------
(***************************************************************************)
(* The output tensor of a routed operation: one cell per activation row    *)
(* and column tile.  The value of a cell is the expert whose weights were  *)
(* used for it, Unwritten while it holds what torch.empty left there, or   *)
(* Overwritten once two stores have met in it.                             *)
(***************************************************************************)
EXTENDS RoutedProblem

CONSTANT ColumnTiles   \* column tiles of the launch grid

ASSUME ColumnTilesAssumption == ColumnTiles \in Nat \ {0}

Columns == 0 .. ColumnTiles - 1
Cells == (0 .. Rows - 1) \X Columns
Unwritten == -1
Overwritten == -2
Blank == [cell \in Cells |-> Unwritten]

(* `out` after a workgroup stored `rows` of one column tile for `expert`.  *)
Stored(out, rows, column, expert) ==
    [cell \in Cells |->
       IF cell[1] \notin rows \/ cell[2] # column THEN out[cell]
       ELSE IF out[cell] = Unwritten THEN expert ELSE Overwritten]
=============================================================================
