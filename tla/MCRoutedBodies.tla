---------------------------- MODULE MCRoutedBodies ----------------------------
(* Both bodies on a small routed grid; the ownership policies the generator *)
(* can emit.                                                               *)
EXTENDS RoutedBodies

Policy(split, mapping, packed, walk, threshold, tail_rows) ==
    [split |-> split, mapping |-> mapping, packed |-> packed, walk |-> walk,
     threshold |-> threshold, tail_rows |-> tail_rows]

MCPolicies ==
    {Policy(1, 1, TRUE, "rolled", 0, 0),
     Policy(1, 1, TRUE, "full_and_tail", 0, 0),
     Policy(2, 1, TRUE, "split_full_and_tail", 0, 0),
     Policy(1, 2, TRUE, "split_full_and_tail", 0, 0),
     Policy(2, 2, TRUE, "split_full_and_tail", 0, 0),
     Policy(1, 1, FALSE, "rolled", 1, 2),
     Policy(2, 1, FALSE, "rolled", 4, 4)}
=============================================================================
