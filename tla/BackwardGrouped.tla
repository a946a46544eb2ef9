--------------------------- MODULE BackwardGrouped ---------------------------
(***************************************************************************)
(* The bodies of the grouped backward kernels: a workgroup walks the row   *)
(* tiles of one route, each wave counting the row fragments of a tile that *)
(* hold a row.  The paired kernels sum two projections into one output     *)
(* before they store it, with a decoded weight tile for each.              *)
(***************************************************************************)
EXTENDS BackwardTile

(* A body that bounds its rows by the route, one that also skips products   *)
(* and stores of fragments without a row, and one for full tiles.           *)
Routed(s) == [s EXCEPT !.bounded = TRUE]
Suppressing(s) == [s EXCEPT !.bounded = TRUE, !.suppress = TRUE]
Unbounded(s) == [s EXCEPT !.bounded = FALSE, !.suppress = FALSE]

CountActiveFragments(s, r) == IF s.suppress THEN Alu(Serial(r), Used({r.t})) ELSE <<>>
RouteTile(k, stages) == CountActiveFragments(k.spec, k.plan) \o ComputeTile(k, stages)

GroupedBody(k, stages) == StartBody(k) \o RepeatWhile("more_tiles", RouteTile(k, stages))

(* Routes of at most tile_rows rows take one smaller tile, in registers of  *)
(* their own.                                                               *)
SecondaryTile(s, tile_rows) == [s EXCEPT !.m = tile_rows \div (16 * s.waves)]
SecondaryBody(k, tail, stages) ==
    StartBody(k)
    \o Either("short_route",
              Copy({<<tail.plan.serial, k.plan.serial>>}) \o RouteTile(tail, stages),
              RepeatWhile("more_tiles", RouteTile(k, stages)))

-----------------------------------------------------------------------------
(* How a paired body treats its projections: dual: a weight tile for each;  *)
(* direct: pointers for each, where others are exchanged; reads: how the    *)
(* packed reads overlap; pipeline: the next stage's reads in this one.      *)
Projections(dual, direct, reads, pipeline) ==
    [dual |-> dual, direct |-> direct, reads |-> reads, pipeline |-> pipeline]
ValidProjections(s, p) ==
    /\ p.direct \/ p.reads # "Serial" \/ p.pipeline => p.dual
    /\ ~p.dual => ~s.prefetch_activation /\ s.grid_in_lds
    /\ p.reads = "OverlapSecond" => p.direct /\ s.prefetch_activation
    /\ p.pipeline => /\ p.direct /\ p.reads = "Concurrent"
                     /\ s.prefetch_activation /\ s.grp > 1 /\ s.next_packed
    /\ ~s.grid_in_lds => s.quant = "IQ2_S"

(* Concurrent reads have a payload and its metadata behind all registers.   *)
SecondPayload(r) == 4 * ((r.total + 3) \div 4)
PairRegisters(r, p) == IF p.reads = "Concurrent" THEN SecondPayload(r) + 9 ELSE r.total
SecondPlan(r, p) ==
    LET q == SecondPayload(r) IN
    IF p.reads = "Concurrent" THEN [r EXCEPT !.q = q, !.dm = q + 4, !.scale = q + 5] ELSE r

Exchanged(pointers, code) == SwapPointers(pointers) \o code \o SwapPointers(pointers)
(* Code for the second projection, by its own pointers or the exchanged.    *)
OfSecond(p, pointers, code) ==
    IF p.direct THEN SecondPointers(code) ELSE Exchanged(pointers, code)

SerialProjections(e) ==
    LET One == ReadAndDecode(e) \o Publish \o e.products \o Publish IN
    RepeatWhile("more", One \o Exchanged({"A", "W"}, One) \o CountStage)

-----------------------------------------------------------------------------
(* A wave with no row in the tile has no activation loads to leave behind.  *)
PipelineWait(s, behind, inactive) ==
    IF s.suppress THEN Either("inactive", WaitLoads(inactive), WaitLoads(behind))
    ELSE WaitLoads(behind)

IssueCodebook(s, r, r2) ==
    PackedLoadGrouping(s, r) \o PackedLoadGrouping(s, r2)
    \o Iq2sAddresses(s, r) \o Iq2sAddresses(s, r2) \o CodebookReads(s, r) \o CodebookReads(s, r2)
FinishCodebook(s, r, r2, e, e2) ==
    Iq2sFinish(s, r) \o e.values \o SecondTile(Iq2sFinish(s, r2) \o e2.values)

(* The lookups of the second projection are in flight behind those of the   *)
(* first, and its signs behind the first one's stores.                      *)
ConcurrentLookups(s, r, r2, behind) ==
    Iq2xxsLookups(s, r, r.t + 6)
    \o WaitLoads(behind) \o PackedLoadGrouping(s, r2) \o Iq2xxsLookups(s, r2, r2.t + 5)
    \o Iq2xxsFinish(s, r, r.t + 6, 2 * Rows(s)) \o Iq2xxsValues(s, r)
    \o SecondTile(Iq2xxsFinish(s, r2, r2.t + 5, 16 * Rows(s)) \o Iq2xxsValues(s, r2))

PrefetchedLoads(s) == IF s.prefetch_activation THEN ALoadCount(s) ELSE 0

ConcurrentDecodes(s, r, r2, e, e2, p) ==
    LET first_a == IF s.prefetch_activation THEN e.first_a ELSE <<>> IN
    e.reads
    \o OfSecond(p, {"W"}, IF p.direct THEN ReadsFromCurrentAddresses(s, r2) ELSE e2.reads)
    \o (IF ~s.grid_in_lds
        THEN WaitLoads(0) \o IssueCodebook(s, r, r2) \o first_a
             \o PipelineWait(s, PrefetchedLoads(s), 0) \o FinishCodebook(s, r, r2, e, e2)
        ELSE first_a \o WaitLoads(PackedLoadCount(s) + PrefetchedLoads(s)) \o e.grouping
             \o (IF s.quant = "IQ2_XXS" THEN ConcurrentLookups(s, r, r2, PrefetchedLoads(s))
                 ELSE Decode(e) \o WaitLoads(PrefetchedLoads(s))
                      \o e2.grouping \o SecondTile(Decode(e2))))

(* The decoded tiles of both projections for a stage.                       *)
DualDecodes(s, r, r2, e, e2, p) ==
    CASE p.reads = "Concurrent" -> ConcurrentDecodes(s, r, r2, e, e2, p)
      [] p.reads = "OverlapSecond" ->
           ReadAndDecode(e) \o SecondPointers(e2.reads) \o e.first_a
           \o WaitLoads(0) \o e2.grouping \o SecondTile(Decode(e2))
      [] OTHER ->
           ReadAndDecode(e) \o OfSecond(p, {"A", "W"}, SecondTile(ReadAndDecode(e2)))
           \o (IF p.direct /\ s.prefetch_activation THEN e.first_a ELSE <<>>)

-----------------------------------------------------------------------------
(* The second projection's activation fragments are read as the first one's *)
(* are multiplied, and its products leave that many loads outstanding.      *)
SecondHalfLoads(s) == 2 * s.m
FirstProducts(s, r, r2, e, p) ==
    LET AfterHalf(k) ==
          IF p.direct THEN SecondPointers(NextAHalf(s, r2, k \div 16))
          ELSE Exchanged({"A"}, NextAHalf(s, r, k \div 16))
    IN IF s.prefetch_activation
       THEN Wmma(s, r, FALSE, FALSE, [k \in {16} |-> SecondHalfLoads(s)], FALSE,
                 Nothing, AfterHalf)
       ELSE e.products

DualLoop(s, r, r2, e, e2, p) ==
    LET pointers == IF p.reads = "Concurrent" THEN {"A"} ELSE {"A", "W"}
    IN RepeatWhile("more",
         DualDecodes(s, r, r2, e, e2, p) \o Publish \o FirstProducts(s, r, r2, e, p)
         \o OfSecond(p, pointers, SecondTile(e2.products)) \o Publish \o CountStage)

(* The next stage's first activation fragments, by pointers the decoding    *)
(* leaves alone.                                                            *)
SafeAHalf(s, r, half) ==
    LET pointer(m) == r.t + 4 + m IN
    (IF half = 0
     THEN Each(0, s.m - 1, LAMBDA m : AluAt(0, Row(r, m), {<<pointer(m), "pointer", m, 0>>}))
     ELSE Advance({pointer(m) : m \in 0 .. s.m - 1}, 16))
    \o Each(0, s.m - 1, LAMBDA m :
         ALoads(s, {<<pointer(m), "pointer", m>>}, r.valu_a + 8 * (half * s.m + m), m))

(* Decoding the tiles read ahead, behind the products that used the old.    *)
PipelinedDecodes(s, r, r2, e, e2) ==
    CASE ~s.grid_in_lds ->
           WaitLoads(0) \o IssueCodebook(s, r, r2) \o SafeAHalf(s, r, 0) \o SafeAHalf(s, r, 1)
           \o PipelineWait(s, 8, 0) \o FinishCodebook(s, r, r2, e, e2)
      [] s.quant = "IQ2_XXS" ->
           PipelineWait(s, 4 * s.m, 0) \o e.grouping
           \o ConcurrentLookups(s, r, r2, 4 * s.m)
      [] OTHER ->
           PipelineWait(s, 13, 5) \o e.grouping \o Decode(e)
           \o PipelineWait(s, 8, 0) \o e2.grouping \o SecondTile(Decode(e2))

(* The loop over the stages enters at its products and leaves behind them.  *)
LeaveInside(when, first, rest) ==
    first \o Branch(when, Len(rest) + 1) \o rest
    \o Branch("always", -(Len(first) + Len(rest) + 2))
StagePipelined(s, r, r2, e, e2, p) ==
    LET NextReads == e.reads \o SecondPointers(ReadsFromCurrentAddresses(s, r2))
        NextA(k) == IF s.grid_in_lds THEN Unless("no_more", SafeAHalf(s, r, k \div 16)) ELSE <<>>
        Compute ==
          FirstProducts(s, r, r2, e, p) \o CountStage
          \o Either("more", NextReads, WaitLoads(0))
          \o SecondTile(Wmma(s, r2, FALSE, FALSE, [k \in {0, 16} |-> SecondHalfLoads(s)], FALSE,
                             Nothing, NextA))
          \o Publish
    IN ConcurrentDecodes(s, r, r2, e, e2, p) \o Publish
       \o LeaveInside("no_more", Compute, PipelinedDecodes(s, r, r2, e, e2) \o Publish)

PairStages(s, r, r2, e, e2, p) ==
    IF ~p.dual THEN SerialProjections(e)
    ELSE IF p.pipeline THEN StagePipelined(s, r, r2, e, e2, p)
    ELSE DualLoop(s, r, r2, e, e2, p)
PairTile(k, second, p) ==
    CountActiveFragments(k.spec, k.plan) \o StartTile(k.spec, k.plan)
    \o PairStages(k.spec, k.plan, second.plan, k.pieces, second.pieces, p)
    \o k.pieces.store

(* The row tiles of a route: the full ones without bounds, where the body   *)
(* splits them off, then a bounded tail.                                    *)
PairBody(k, second, full, full_second, p, split_full) ==
    StartBody(k)
    \o (IF split_full
        THEN Unless("no_full", RepeatWhile("more_full", PairTile(full, full_second, p)))
             \o Unless("no_tiles", PairTile(k, second, p))
        ELSE RepeatWhile("more_tiles", PairTile(k, second, p)))

-----------------------------------------------------------------------------
GroupedProgram(k, stages, routes) ==
    Program(k.spec, k.plan.total, GroupedBody(k, stages), 1, stages, routes)
SecondaryProgram(k, tail, stages, routes) ==
    Program(k.spec, Larger(k.plan.total, tail.plan.total), SecondaryBody(k, tail, stages), 1,
            stages, routes)
PairProgram(k, second, full, full_second, p, split_full, stages, routes) ==
    Program(k.spec, PairRegisters(k.plan, p),
            PairBody(k, second, full, full_second, p, split_full), 2, stages, routes)
=============================================================================
