--------------------------- MODULE RowTaskMultiply ---------------------------
(***************************************************************************)
(* A grouped operation that is deployed with device row tasks: the setup   *)
(* kernel, and behind it in the same stream the multiply kernel with one   *)
(* workgroup per column tile and bank slot.  The host sizes the grid with  *)
(* the capacity, never with the count, which it does not read back.        *)
(***************************************************************************)
EXTENDS RowTaskSetup, RoutedGrid

CONSTANT TileHeight   \* rows the multiply kernel's tile holds: J, or M per block

(* The record's row_task_rows is the tile of the kernel it names.          *)
ASSUME TileHeightAssumption == TileHeight \in Nat /\ TileHeight >= RowTile

VARIABLES
    revalidates,  \* the paired body checks a task again, the others do not
    retired,      \* workgroups of the multiply that have returned
    output        \* expert that wrote a cell of the output, or Unwritten

multiply == <<revalidates, retired, output>>
launch == <<vars, multiply>>

WorkGroups == (0 .. Capacity - 1) \X Columns

LaunchInit ==
    /\ Init
    /\ revalidates \in BOOLEAN
    /\ retired = {}
    /\ output = Blank

SetupStep == Next /\ UNCHANGED multiply

(* What an uninitialized slot may hold, up to one row or expert too many.  *)
Garbage(slot) ==
    [slot : {slot}, expert : -1 .. NumExperts, start : -1 .. Rows, end : 0 .. Rows + 1]

(* The task a slot holds: torch.empty leaves it arbitrary until the setup  *)
(* stores to it, and two stores to one slot would race.                    *)
BankSlot(slot) ==
    IF \E e \in stores : e.slot = slot
    THEN {e \in stores : e.slot = slot} ELSE Garbage(slot)

Accepts(task) ==
    revalidates =>
        /\ task.expert \in 0 .. NumExperts - 1
        /\ task.start >= 0 /\ task.start < task.end /\ task.end <= Rows

(* Fault: the tile is not masked at the end of the task. *)
TaskRowsUnmasked(task) == task.start .. task.start + TileHeight - 1

TaskRows(task) == task.start .. SmallerOf(task.start + TileHeight, task.end) - 1

(* The stream starts the multiply when the setup kernel has finished.      *)
Launched == phase = "done"

SkipTask(slot, column) ==
    /\ Launched
    /\ <<slot, column>> \notin retired
    /\ slot >= task_count
    /\ retired' = retired \cup {<<slot, column>>}
    /\ UNCHANGED <<vars, revalidates, output>>

MultiplyTask(slot, column) ==
    /\ Launched
    /\ <<slot, column>> \notin retired
    /\ slot < task_count
    /\ retired' = retired \cup {<<slot, column>>}
    /\ \E task \in BankSlot(slot) :
         output' = IF Accepts(task)
                   THEN Stored(output, TaskRows(task), column, task.expert) ELSE output
    /\ UNCHANGED <<vars, revalidates>>

WorkGroupStep ==
    \E slot \in 0 .. Capacity - 1, column \in Columns :
        SkipTask(slot, column) \/ MultiplyTask(slot, column)

LaunchNext == SetupStep \/ WorkGroupStep

(* Both kernels of the stream run to their end.                            *)
LaunchSpec == LaunchInit /\ [][LaunchNext]_launch /\ WF_launch(LaunchNext)

-----------------------------------------------------------------------------
Output == INSTANCE RoutedOutput

(* Setup and multiply together write each row of a valid entry once, with  *)
(* its own expert, and eventually all of them: a grouped operation with    *)
(* device row tasks is a RoutedOutput.                                     *)
ImplementsRoutedOutput == Output!Spec
=============================================================================
