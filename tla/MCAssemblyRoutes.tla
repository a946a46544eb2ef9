--------------------------- MODULE MCAssemblyRoutes ---------------------------
(* A rolled and a split kernel on a small routed grid.                     *)
EXTENDS AssemblyRoutes

Policy(split, walk) ==
    [split |-> split, mapping |-> 1, packed |-> TRUE, walk |-> walk,
     threshold |-> 0, tail_rows |-> 0]

MCPolicies == {Policy(1, "rolled"), Policy(2, "split_full_and_tail")}
=============================================================================
