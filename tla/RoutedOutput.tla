----------------------------- MODULE RoutedOutput -----------------------------
(***************************************************************************)
(* What every grouped operation promises of its output tensor, whatever    *)
(* kernel computes it: each row of a valid route entry is written once per *)
(* column tile, with the weights of that entry's expert, and no other row  *)
(* is written at all.                                                      *)
(***************************************************************************)
EXTENDS RoutedGrid

VARIABLES expert_indices, expert_offsets, output

vars == <<expert_indices, expert_offsets, output>>

IsValid(g) == Valid(expert_indices, expert_offsets, g)
EntryRows(g) == RowBegin(expert_offsets, g) .. expert_offsets[g] - 1

Init ==
    /\ expert_indices \in ExpertBanks
    /\ expert_offsets \in OffsetBanks
    /\ output = Blank

(* One workgroup stores some rows of one route entry in one column tile.   *)
WriteRows(g, column, rows) ==
    /\ IsValid(g)
    /\ rows # {}
    /\ rows \subseteq EntryRows(g)
    /\ \A r \in rows : output[<<r, column>>] = Unwritten
    /\ output' = Stored(output, rows, column, expert_indices[g])
    /\ UNCHANGED <<expert_indices, expert_offsets>>

Next ==
    \E g \in GroupIds, column \in Columns :
        \E rows \in SUBSET EntryRows(g) : WriteRows(g, column, rows)

Safety == Init /\ [][Next]_vars

(* A launched grid runs to its end.                                        *)
Spec == Safety /\ WF_vars(Next)

-----------------------------------------------------------------------------
(* The output an operation that has finished must hold.                    *)
Complete ==
    \A row \in 0 .. Rows - 1, column \in Columns :
        /\ \A g \in GroupIds :
             IsValid(g) /\ row \in EntryRows(g)
               => output[<<row, column>>] = expert_indices[g]
        /\ (\A g \in GroupIds : ~(IsValid(g) /\ row \in EntryRows(g)))
               => output[<<row, column>>] = Unwritten
=============================================================================
