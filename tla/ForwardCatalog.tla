--------------------------- MODULE ForwardCatalog ---------------------------
(***************************************************************************)
(* The forward bodies that are checked: all that the dense catalogs deploy, *)
(* the neighbours the configuration search reopens them to, and the        *)
(* policies the repository's fixtures build.                                *)
(***************************************************************************)
EXTENDS ForwardInt8, ForwardPackedDirect, ForwardDecoded, ForwardQ3, ForwardQ6

Q8Compact(s) == [s EXCEPT !.compact = TRUE]
Q8Deployed ==
    {Int8Spec("WaveN", 8, 1), Q8Compact(Int8Spec("WaveN", 8, 1)),
     Int8Spec("SmallM", 2, 1), Int8Spec("SmallM", 4, 1)}
Q8Moves(seeds) == {[s EXCEPT !.read = w, !.write = w] : s \in seeds, w \in {4, 8}}
Q8Pads(seeds) == {[s EXCEPT !.padA = 4, !.padB = IF s.compact THEN s.padB ELSE 4] : s \in seeds}
Q8Fixtures ==
    {Int8Spec("Direct", 1, 1), Int8Spec("RegisterTiled", 2, 2), Int8Spec("RegisterTiled", 1, 4),
     Int8Spec("RegisterTiled", 4, 1), [Int8Spec("WaveN", 8, 1) EXCEPT !.depth = 64],
     Q8Compact(Int8Spec("SmallM", 2, 1)), Q8Compact(Int8Spec("SmallM", 4, 1))}
Q8Specs == Q8Deployed \cup Q8Moves(Q8Deployed) \cup Q8Pads(Q8Deployed) \cup Q8Fixtures

(* Each deployed epilogue on one of the formats that deploy it. *)
DecodedDeployed ==
    {DecodedSpec("Q4_K", TRUE, TRUE, e[1], e[2]) : e \in {<<8, 1>>, <<4, 4>>, <<2, 2>>}}
    \cup {DecodedSpec("Q5_K", TRUE, TRUE, e[1], e[2]) :
            e \in {<<1, 8>>, <<7, 3>>, <<1, 2>>, <<1, 4>>}}
DecodedNeighbours ==
    {[DecodedSpec("Q4_K", FALSE, FALSE, 8, 1) EXCEPT !.read = 8, !.write = 4],
     [DecodedSpec("Q5_K", FALSE, TRUE, 1, 8) EXCEPT !.nan = FALSE, !.read = 4, !.write = 8, !.metadata = 8]}
(* The full tile is deployed; the half tile is a fixture. *)
Q3Deployed == {Q3Spec("Full")}
Q3Half == [Q3Spec("Half") EXCEPT !.frontier = FALSE]
Q3Fixtures ==
    {Q3Half, [Q3Half EXCEPT !.prefetch = FALSE, !.write = 8],
     [Q3Spec("Full") EXCEPT !.frontier = FALSE, !.prefetch = FALSE, !.read = 8, !.write = 4, !.metadata = 8]}
(* Two groups of waves on one block of weights are a fixture. *)
Q6Deployed == {Q6Spec(1), Q6Spec(2)}
Q6Neighbours ==
    {[Q6Spec(1) EXCEPT !.wide = TRUE, !.width = 8], [Q6Spec(2) EXCEPT !.shared = TRUE, !.wavefront = FALSE]}
ForwardDeployed == Q8Deployed \cup {PackedDirectSpec} \cup DecodedDeployed \cup Q3Deployed \cup Q6Deployed
ForwardPrograms ==
    {Int8Program(s) : s \in Q8Specs} \cup {PackedDirectProgram}
    \cup {DecodedForward(s) : s \in DecodedDeployed \cup DecodedNeighbours}
    \cup {Q3Program(s) : s \in Q3Deployed \cup Q3Fixtures}
    \cup {Q6Program(s) : s \in Q6Deployed \cup Q6Neighbours}
=============================================================================
