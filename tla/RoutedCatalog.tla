---------------------------- MODULE RoutedCatalog ----------------------------
(***************************************************************************)
(* The bodies of the grouped and paired backward kernels that are checked: *)
(* all that the grouped catalogs deploy, and those the generator's tests   *)
(* build.                                                                  *)
(***************************************************************************)
EXTENDS BackwardGrouped

(* Active row fragments per wave for each tile of a route: the first wave   *)
(* owns the first rows of a tile.                                           *)
Route(full, short, first, second) ==
    [full |-> full, short |-> short,
     active |-> [w \in Waves |-> IF w = 0 THEN first ELSE second]]
(* A full tile and one that leaves the second wave without a row; a tile    *)
(* that fills the first wave.                                               *)
Routes(m) == {Route(1, FALSE, <<m, 1>>, <<m, 0>>), Route(0, FALSE, <<m>>, <<m - 1>>)}
SecondaryRoutes(m) == {Route(1, FALSE, <<m, 1>>, <<m, 0>>), Route(0, TRUE, <<1>>, <<0>>)}
PairRoutes(m) == Routes(m) \cup {Route(1, FALSE, <<m>>, <<m>>)}

(* An entry names its tiles, each a specification for the first or for the  *)
(* second projection.                                                       *)
Tile(s, second) == [spec |-> s, second |-> second]
Grouped(s, stages, routes) ==
    [body |-> "grouped", tiles |-> <<Tile(s, FALSE)>>, stages |-> stages, routes |-> routes,
     projections |-> Projections(FALSE, FALSE, "Serial", FALSE), split_full |-> FALSE]
Secondary(s, tile_rows, stages, routes) ==
    [Grouped(s, stages, routes) EXCEPT
        !.body = "secondary", !.tiles = @ \o <<Tile(SecondaryTile(s, tile_rows), FALSE)>>]
Paired(s, p, split_full, stages, routes) ==
    [Grouped(s, stages, routes) EXCEPT
        !.body = "paired", !.projections = p, !.split_full = split_full,
        !.tiles = <<Tile(s, FALSE), Tile(s, TRUE),
                    Tile(Unbounded(s), FALSE), Tile(Unbounded(s), TRUE)>>]

(* The deployed bodies, those of the catalogs of grouped and of paired     *)
(* backward bodies (mmq_grouped_bwd_*_catalog.json).                        *)
RoutedDeployed == <<
    Secondary(Suppressing([KernelSpec("IQ2_S", 4, 2, 4,
        32) EXCEPT !.interleave = TRUE]), 64, 2, SecondaryRoutes(2)),
    Grouped(Suppressing([KernelSpec("IQ2_S", 4, 2, 8,
        32) EXCEPT !.interleave = TRUE]), 2, Routes(2)),
    Paired(Suppressing([KernelSpec("IQ2_S", 4, 2, 4, 32) EXCEPT !.pad = 0,
        !.interleave = TRUE, !.next_packed = TRUE, !.grid_in_lds = FALSE]),
        Projections(TRUE, TRUE, "Concurrent", TRUE), TRUE, 3, PairRoutes(2)),
    Paired(Suppressing([KernelSpec("IQ2_XXS", 4, 1, 4, 32) EXCEPT !.pad = 0,
        !.swizzle = 8, !.interleave = TRUE, !.next_packed = TRUE]), Projections(TRUE, TRUE,
        "Concurrent", TRUE), TRUE, 3, PairRoutes(1)),
    Paired(Suppressing([KernelSpec("IQ2_XXS", 4, 2, 4, 32) EXCEPT !.pad = 0,
        !.swizzle = 8]), Projections(TRUE, TRUE, "Concurrent", FALSE), TRUE, 2,
        PairRoutes(2)),
    Paired(Suppressing([KernelSpec("IQ2_XXS", 4, 3, 4, 32) EXCEPT !.pad = 0,
        !.swizzle = 8]), Projections(TRUE, TRUE, "OverlapSecond", FALSE), TRUE, 2,
        PairRoutes(3)),
    Paired(Suppressing([KernelSpec("Q3_K", 4, 1, 4,
        32) EXCEPT !.extraction = "Packed", !.pairing = "Full"]), Projections(TRUE, TRUE,
        "Serial", FALSE), TRUE, 2, PairRoutes(1)),
    Paired(Suppressing([KernelSpec("Q3_K", 4, 2, 4,
        32) EXCEPT !.extraction = "Packed", !.pairing = "Full"]), Projections(TRUE, TRUE,
        "Serial", FALSE), TRUE, 2, PairRoutes(2)),
    Paired(Suppressing([KernelSpec("Q3_K", 4, 2, 4,
        32) EXCEPT !.extraction = "Packed", !.pairing = "Full"]), Projections(TRUE, TRUE,
        "OverlapSecond", FALSE), TRUE, 2, PairRoutes(2)),
    Grouped(Suppressing([KernelSpec("Q2_K", 4, 1, 4,
        32) EXCEPT !.dependency = 4]), 2, Routes(1)),
    Secondary(Suppressing([KernelSpec("Q2_K", 4, 2, 4,
        32) EXCEPT !.interleave = TRUE, !.dependency = 4]), 64, 2, SecondaryRoutes(2)),
    Grouped(Suppressing([KernelSpec("Q2_K", 4, 2, 8,
        32) EXCEPT !.interleave = TRUE, !.dependency = 4]), 2, Routes(2)),
    Secondary(Suppressing([KernelSpec("Q4_K", 4, 2, 4,
        32) EXCEPT !.interleave = TRUE, !.dependency = 4]), 64, 2, SecondaryRoutes(2)),
    Grouped(Suppressing([KernelSpec("Q4_K", 4, 2, 8,
        32) EXCEPT !.interleave = TRUE, !.dependency = 4]), 2, Routes(2)),
    Secondary(Suppressing([KernelSpec("Q5_K", 4, 2, 4,
        32) EXCEPT !.interleave = TRUE, !.extraction = "Packed", !.hoisted = TRUE]), 64, 2,
        SecondaryRoutes(2)),
    Grouped(Suppressing([KernelSpec("Q5_K", 4, 2, 8,
        32) EXCEPT !.interleave = TRUE, !.extraction = "Packed", !.hoisted = TRUE]), 2,
        Routes(2)),
    Grouped(Routed([KernelSpec("Q5_K", 4, 2, 8, 32) EXCEPT !.interleave = TRUE,
        !.extraction = "Packed", !.hoisted = TRUE]), 2, Routes(2))>>

RoutedTested == <<
    Paired(Suppressing([KernelSpec("IQ2_S", 4, 2, 4, 32) EXCEPT !.pad = 0,
        !.next_packed = TRUE]), Projections(TRUE, TRUE, "Concurrent", TRUE), TRUE, 3,
        PairRoutes(2)),
    Paired(Suppressing([KernelSpec("IQ2_XXS", 4, 2, 4, 32) EXCEPT !.pad = 0,
        !.swizzle = 4, !.grp = 1, !.prefetch_activation = FALSE]), Projections(TRUE, FALSE,
        "Concurrent", FALSE), TRUE, 2, PairRoutes(2)),
    Paired(Suppressing([KernelSpec("IQ2_XXS", 4, 1, 4, 32) EXCEPT !.pad = 0,
        !.swizzle = 4, !.grp = 1, !.prefetch_activation = FALSE]), Projections(FALSE,
        FALSE, "Serial", FALSE), FALSE, 2, PairRoutes(1)),
    Paired(Suppressing([KernelSpec("IQ2_XXS", 4, 1, 4, 32) EXCEPT !.pad = 0,
        !.swizzle = 8]), Projections(TRUE, FALSE, "Concurrent", FALSE), TRUE, 2,
        PairRoutes(1)),
    Paired(Suppressing([KernelSpec("Q3_K", 4, 2, 4, 32) EXCEPT !.grp = 1,
        !.prefetch_activation = FALSE, !.extraction = "Packed", !.pairing = "Full"]),
        Projections(TRUE, FALSE, "Serial", FALSE), TRUE, 2, PairRoutes(2)),
    Paired(Suppressing([KernelSpec("Q3_K", 4, 2, 4, 32) EXCEPT !.grp = 1,
        !.prefetch_activation = FALSE, !.extraction = "Packed", !.pairing = "Full"]),
        Projections(TRUE, TRUE, "Serial", FALSE), TRUE, 2, PairRoutes(2)),
    Paired(Suppressing([KernelSpec("Q3_K", 4, 1, 4, 32) EXCEPT !.grp = 1,
        !.prefetch_activation = FALSE, !.extraction = "Packed", !.pairing = "Full"]),
        Projections(FALSE, FALSE, "Serial", FALSE), FALSE, 2, PairRoutes(1))>>
TilePlan(tile, plan, projections) == IF tile.second THEN SecondPlan(plan, projections) ELSE plan
Planned(entry) ==
    [entry |-> entry,
     plans |-> [i \in DOMAIN entry.tiles |->
                 TilePlan(entry.tiles[i], Plan(entry.tiles[i].spec), entry.projections)]]
Assembled(x) ==
    [entry |-> x.entry,
     kernels |-> [i \in DOMAIN x.plans |-> Kernel(x.entry.tiles[i].spec, x.plans[i])]]
ProgramOf(e, k) ==
    CASE e.body = "grouped" -> GroupedProgram(k[1], e.stages, e.routes)
      [] e.body = "secondary" -> SecondaryProgram(k[1], k[2], e.stages, e.routes)
      [] e.body = "paired" ->
           PairProgram(k[1], k[2], k[3], k[4], e.projections, e.split_full, e.stages, e.routes)
RoutedPrograms(entries) ==
    {[ProgramOf(x.entry, x.kernels) EXCEPT !.spec = x.entry] :
       x \in {Assembled(y) : y \in {Planned(z) : z \in entries}}}
=============================================================================
