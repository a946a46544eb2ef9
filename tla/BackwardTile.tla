----------------------------- MODULE BackwardTile -----------------------------
(***************************************************************************)
(* The body of a backward kernel over one output tile: coordinates, the    *)
(* loop over the contraction with its overlap of weight reads, decoding,   *)
(* activation reads and products, and the store.  Weight fragments come    *)
(* from the LDS tile all decoding waves fill.                              *)
(***************************************************************************)
EXTENDS BackwardDecode

Pointers(s, r) == {<<r.a + m, "pointer", m>> : m \in 0 .. s.m - 1}
PointerRegisters(s, r) == {r.a + m : m \in 0 .. s.m - 1}
Row(r, m) == {<<r.a + 4 + m, "row", m>>}
ReadBuffer(r) == IF r.pipeline_read_lds >= 0 THEN r.pipeline_read_lds ELSE r.lds
Fragment(s, r, m, n) == r.accum + 8 * (s.n * m + n)

Accumulators(s) == (0 .. s.m - 1) \X (0 .. s.n - 1)
ZeroAccumulators(s, r) ==
    Alu({}, UNION {Filled(Fragment(s, r, t[1], t[2]), 8, "sum", t) : t \in Accumulators(s)})

ThreadCoordinates(s, r) ==
    LET residues == IF s.swizzle = 0 THEN {} ELSE 0 .. 32 \div s.swizzle - 1 IN
    Alu(Serial(r), Used({r.t}) \cup {<<r.lds, "lds", 0, 0>>})
    \o (IF r.pipeline_read_lds >= 0
        THEN Alu({}, {<<r.pipeline_read_lds, "read buffer", 0, 0>>}) ELSE <<>>)
    \o Alu(Serial(r), {<<r.quant_shift, "shift", 0, 0>>}
                      \cup (IF s.quant = "Q5_K" THEN Used({r.t, r.t + 1}) ELSE {}))
    \o (IF s.swizzle = 0 THEN <<>>
        ELSE Alu(Serial(r) \cup {<<r.lds, "lds", 0>>},
                 Used({r.t, r.t + 1}) \cup {<<r.lds_address + i, "lds", i, 0>> : i \in residues})
             \o (IF s.double THEN Alu({}, {<<r.lds, "read buffer", 0, 0>>}) ELSE <<>>))
    \o (IF s.prefetch_activation
        THEN Alu(Serial(r), Used({r.t, r.t + 1, r.t + 2})
                            \cup {<<r.a + 4 + m, "row", m, 0>> : m \in 0 .. s.m - 1})
        ELSE <<>>)

-----------------------------------------------------------------------------
(* The buffers of the double-buffered tile: decoding writes the one, the    *)
(* products read the other.                                                *)
ToggleWriteBuffer(s, r) ==
    Toggle(IF s.swizzle = 0 THEN {r.lds} ELSE {r.lds_address + i : i \in 0 .. 3})
(* Fault: the products keep the buffer they read. *)
SwapWriteBuffer(s, r) == ToggleWriteBuffer(s, r)
SwapBuffers(s, r) == Toggle({ReadBuffer(r)}) \o ToggleWriteBuffer(s, r)

(* Read addresses that leave the temporaries to the decoding in between.    *)
PipelineReadAddresses(s, r, k) ==
    LET temporary == IF s.quant = "Q6_K" /\ Rows(s) = 1 THEN r.t ELSE r.scale
        read == IF s.swizzle = 0 THEN 0 .. 0 ELSE 0 .. 1
    IN Alu(Serial(r) \cup {<<ReadBuffer(r), "read buffer", 0>>},
           Used({temporary + i : i \in read} \ {r.dm + i : i \in read})
           \cup {<<r.dm + i, "read", i, k>> : i \in read})
PipelineAddresses(s, r) ==
    [chunks |-> <<>>, first |-> <<r.dm, 0>>,
     second |-> IF s.swizzle = 0 THEN <<r.dm, 0>> ELSE <<r.dm + 1, 1>>]
PairedAddresses(r) == [chunks |-> <<>>, first |-> <<r.dm, 0>>, second |-> <<r.dm + 1, 1>>]
(* Addresses in temporaries; chunks of four elements have one each.         *)
TileReadAddresses(s, r, pipeline, k) ==
    LET base == IF pipeline THEN {<<ReadBuffer(r), "read buffer", 0>>} ELSE {} IN
    CASE s.swizzle = 0 -> Alu(Serial(r) \cup base, {<<r.t, "read", 0, k>>})
      [] s.swizzle = 4 -> Alu(Serial(r) \cup base,
                              Used({r.t, r.t + 1})
                              \cup {<<r.t + 2 + i, "read", i, k>> : i \in 0 .. 3})
      [] OTHER -> Alu(Serial(r) \cup base,
                      Used({r.t, r.t + 1})
                      \cup {<<r.t + 2 + i, "read", i, k>> : i \in 0 .. 1})
TileAddresses(s, r) ==
    CASE s.swizzle = 0 -> [chunks |-> <<>>, first |-> <<r.t, 0>>, second |-> <<r.t, 0>>]
      [] s.swizzle = 4 -> [chunks |-> [i \in 1 .. 4 |-> <<r.t + 1 + i, i - 1>>],
                           first |-> <<-1, 0>>, second |-> <<-1, 0>>]
      [] OTHER -> [chunks |-> <<>>, first |-> <<r.t + 2, 0>>, second |-> <<r.t + 3, 1>>]

(* The weight fragments of two column tiles.                                *)
PairLoads(s) == IF s.swizzle = 4 THEN 8 ELSE 4
LdsPair(s, n, base, a) ==
    LET One(address, to, width, column) ==
          LdsLoad({<<address[1], "read", address[2]>>}, <<<<to, width, column>>>>)
        chunks == Len(a.chunks)
    IN IF s.swizzle = 4
       THEN Each(0, 2 * chunks - 1, LAMBDA j :
              One(a.chunks[1 + (j % chunks)], base + 2 * j, 2, n + j \div chunks))
       ELSE Each(0, 3, LAMBDA j :
              One(IF j % 2 = 0 THEN a.first ELSE a.second, base + 4 * j, 4, n + j \div 2))

-----------------------------------------------------------------------------
(* The products of a pair of column tiles behind the waits they need.       *)
Product(s, r, m, n, a, b) == <<m, n, a + 8 * m, b, Fragment(s, r, m, n)>>
Column(s, r, n, a, b) == {Product(s, r, m, n, a, b) : m \in 0 .. s.m - 1}
MultiplyPair(s, r, n, a, b) ==
    Multiply(Column(s, r, n, a, b) \cup Column(s, r, n + 1, a, b + 8))

(* Interleaved waits: pending loads of the activation fragments behind this *)
(* one, of weight fragments behind the first tile and behind the pair.      *)
MultiplyInterleaved(s, r, n, a, b, pendingA, half, behind) ==
    IF n = 0
    THEN Wait(2 * (s.m - 1) + pendingA, half + behind)
         \o Multiply({Product(s, r, 0, n, a, b)})
         \o WaitLds(behind)
         \o Multiply({Product(s, r, 0, n + 1, a, b + 8)})
         \o Each(1, s.m - 1, LAMBDA m :
              WaitLoads(2 * (s.m - 1 - m) + pendingA)
              \o Multiply({Product(s, r, m, n, a, b), Product(s, r, m, n + 1, a, b + 8)}))
    ELSE WaitLds(half + behind) \o Multiply(Column(s, r, n, a, b))
         \o WaitLds(behind) \o Multiply(Column(s, r, n + 1, a, b + 8))

(* Two buffers of weight fragments: a pair is read while the one before it  *)
(* is multiplied.                                                           *)
PrefetchedPairs(s, r, a, pairs) ==
    LET Base(pair) == r.valu_b + 16 * (pair % 2)
        final == s.n \div 2 - 1
    IN LdsPair(s, 0, Base(0), a)
       \o Each(0, pairs - 1, LAMBDA pair :
            LET behind == IF pair < final THEN PairLoads(s) ELSE 0 IN
            (IF pair < final THEN LdsPair(s, 2 * pair + 2, Base(pair + 1), a) ELSE <<>>)
            \o MultiplyInterleaved(s, r, 2 * pair, r.valu_a, Base(pair), 0, 2, behind))
(* Fault: the pair that nothing is read behind is left out. *)
MultiplyPrefetchedToLast(s, r, a) == PrefetchedPairs(s, r, a, s.n \div 2 - 1)
MultiplyPrefetched(s, r, a) == PrefetchedPairs(s, r, a, s.n \div 2)

(* How a body overlaps its products: pipeline: the LDS tile is double       *)
(* buffered; AfterPair: code behind pair number p; rewind: the loop counter *)
(* is a stage ahead; AfterHalf: code behind the products at k; pending: the *)
(* loads left outstanding at k, where not the usual.                        *)
PendingActivation(s, k, pipeline, pending, n) ==
    LET ahead == pipeline \/ s.next_packed
        usual == IF k % (16 * s.grp) = 0 THEN 2 * s.m * (s.grp - 1) ELSE 0
    IN IF ~s.prefetch_activation THEN Wait(0, 0)
       ELSE IF ahead /\ s.depth = 64 /\ s.grp = 2 /\ n = 0
       THEN Wait(IF k % 32 = 0 THEN 2 * s.m ELSE 0, 0)
       ELSE IF n > 0 \/ (ahead /\ pending = <<>>) THEN WaitLds(0)
       ELSE Wait(IF k \in DOMAIN pending THEN pending[k] ELSE usual, 0)

(* The activation fragments of a step that are not prefetched with the      *)
(* stage.                                                                   *)
ActivationReads(s, r, k, rewind) ==
    LET Halves ==
          Each(0, 1, LAMBDA half :
            Each(0, s.m - 1, LAMBDA m :
              Advance({r.a + m}, 16)
              \o ALoads(s, {<<r.a + m, "pointer", m>>}, r.valu_a + 8 * (half * s.m + m), m)))
        Computed(m, base, row) ==
          AluAt(0, {<<row, "row", m>>},
                Used({r.t}) \cup {<<base + i, "pointer", m, k>> : i \in 0 .. 1})
        Loads(m, base) ==
          ALoads(s, {<<base + i, "pointer", m>> : i \in 0 .. 1}, r.valu_a + 8 * m, m)
    IN CASE s.prefetch_activation /\ k > 0 /\ s.grp = 1 ->
              Each(0, s.m - 1, LAMBDA m :
                Advance({r.a + m}, k)
                \o ALoads(s, {<<r.a + m, "pointer", m>>}, r.valu_a + 8 * m, m))
         [] s.prefetch_activation /\ s.grp = 2 /\ s.depth = 64 /\ k = 32 ->
              (IF rewind
               THEN Each(0, s.m - 1, LAMBDA m :
                      AluAt(-1, Row(r, m), {<<r.a + m, "pointer", m, 16>>}))
               ELSE <<>>) \o Halves
         [] ~s.prefetch_activation /\ s.m = 2 ->
              Each(0, 1, LAMBDA m : Computed(m, r.a + 2 * m, r.a + 4 + m))
              \o Each(0, 1, LAMBDA m : Loads(m, r.a + 2 * m))
         [] ~s.prefetch_activation /\ s.m # 2 ->
              Each(0, s.m - 1, LAMBDA m :
                (IF m = 0 THEN Computed(0, r.a, r.a + 4)
                 ELSE Alu(Row(r, 0), {<<r.t, "row", m, 0>>}) \o Computed(m, r.a, r.t))
                \o Loads(m, r.a))
         [] OTHER -> <<>>

Wmma(s, r, pipeline, rewind, pending, paired, AfterPair(_), AfterHalf(_)) ==
    LET Rows16 ==
          IF s.prefetch_activation THEN <<>>
          ELSE Alu(Serial(r), Used({r.t, r.t + 1, r.t + 2})
                              \cup {<<r.a + 4 + m, "row", m, 0>> :
                                      m \in IF s.m = 2 THEN 0 .. 1 ELSE {0}})
        PairAt(k, n, first) ==
          LET a == IF paired /\ n > 0 THEN PairedAddresses(r) ELSE first
              base == r.valu_a + (IF s.grp = 2 THEN 8 * s.m * ((k \div 16) % 2) ELSE 0)
          IN LdsPair(s, n, r.valu_b, a)
             \o (IF s.interleave
                 THEN MultiplyInterleaved(s, r, n, base, r.valu_b,
                                          IF s.grp = 2 /\ k = 0 THEN 2 * s.m ELSE 0,
                                          PairLoads(s) \div 2, 0)
                 ELSE PendingActivation(s, k, pipeline, pending, n)
                      \o MultiplyPair(s, r, n, base, r.valu_b))
             \o AfterPair((k \div 16) * (s.n \div 2) + n \div 2)
        Step(k) ==
          LET late == pipeline /\ k > 0
              first == IF late THEN PipelineAddresses(s, r) ELSE TileAddresses(s, r)
          IN ActivationReads(s, r, k, rewind)
             \o (IF late THEN PipelineReadAddresses(s, r, k)
                 ELSE TileReadAddresses(s, r, pipeline, k))
             \o (IF s.lrp = 2 THEN MultiplyPrefetched(s, r, first)
                 ELSE Each(0, s.n \div 2 - 1, LAMBDA p : PairAt(k, 2 * p, first)))
             \o AfterHalf(k)
        Whole == Rows16 \o Each(0, s.depth \div 16 - 1, LAMBDA j : Step(16 * j))
    IN IF s.suppress THEN Unless("inactive", Whole) ELSE Whole

Nothing(i) == <<>>
PlainWmma(s, r, pipeline) == Wmma(s, r, pipeline, FALSE, <<>>, FALSE, Nothing, Nothing)

-----------------------------------------------------------------------------
(* The next stage's activation fragments, a half as soon as it is dead.     *)
NextAHalf(s, r, half) ==
    LET via == {r.q + m : m \in 0 .. s.m - 1} IN
    (IF half = 0
     THEN Each(0, s.m - 1, LAMBDA m : AluAt(0, Row(r, m), {<<r.q + m, "pointer", m, 0>>}))
     ELSE Advance(via, 16))
    \o Each(0, s.m - 1, LAMBDA m :
         ALoads(s, {<<r.q + m, "pointer", m>>}, r.valu_a + 8 * (half * s.m + m), m))
    \o (IF half = 1 /\ s.depth = 64
        THEN Copy({<<r.a + m, r.q + m>> : m \in 0 .. s.m - 1}) ELSE <<>>)

(* More than four waves decode with their first four; the modelled waves    *)
(* are spread over those of the workgroup.                                  *)
DecodingWaves(s) ==
    {w \in Waves : 32 * w * (s.waves \div Cardinality(Waves)) < DecoderThreads(s)}
ALoadCount(s) == 2 * s.m * s.grp
Publish == WaitLds(0) \o Barrier

StoreTile(s, r) ==
    LET all == UNION {Span(Fragment(s, r, t[1], t[2]), 8, "sum", t) : t \in Accumulators(s)}
        Rounded(m) ==
          UNION {Span(Fragment(s, r, m, n), 8, "sum", <<m, n>>) : n \in 0 .. s.n - 1}
        Whole ==
          Alu(Serial(r), {<<r.t, "output", 0, 0>>} \cup Used({r.t + 1, r.t + 3}))
          \o Alu({<<r.t, "output", 0>>}, {<<r.a, "output", 0, 0>>})
          \o StoreOutput(all)
          \o Each(0, s.m - 1, LAMBDA m :
               Alu(Rounded(m) \cup {<<r.a, "output", 0>>},
                   Used({r.t + 2} \cup {o[1] : o \in Rounded(m)})
                   \cup {<<r.a, "output", 0, 0>>}))
    IN IF s.suppress THEN Unless("inactive", Whole) ELSE Whole

(* What a body is put together from: the reads of a packed tile, the hand   *)
(* over to lane pairs, the decoding with what prepares it, the reads of the *)
(* first activation fragments, and the products of a stage.                 *)
Pieces(s, r) ==
    [reads |-> QuantReads(s, r), grouping |-> PackedLoadGrouping(s, r),
     prepare |-> DecodePrepare(s, r), values |-> DecodeValues(s, r),
     first_a |-> FirstAReads(s, r), products |-> PlainWmma(s, r, s.double),
     store |-> StoreTile(s, r)]
Decode(e) == e.prepare \o e.values
ReadAndDecode(e) == e.reads \o WaitLoads(0) \o e.grouping \o Decode(e)

FillTile(s, r, e) ==
    e.reads
    \o (IF s.prefetch_activation
        THEN e.first_a \o WaitLoads(ALoadCount(s)) ELSE WaitLoads(0))
    \o e.grouping \o Decode(e)
OrdinaryLoop(s, r, e) ==
    RepeatWhile("more",
      (IF s.waves > 4 THEN Unless("not_decoding", FillTile(s, r, e)) ELSE FillTile(s, r, e))
      \o Publish \o e.products \o Publish \o CountStage)

(* The next packed tile is read while this one is multiplied.               *)
PackedPipeline(s, r, e) ==
    LET Fill == e.first_a \o WaitLoads(ALoadCount(s)) \o e.grouping \o Decode(e) \o Publish
        ReadNext == Unless("no_more", e.reads)
        Steady == WaitLoads(0) \o CountStage
                  \o (IF s.depth = 64 THEN <<>> ELSE ReadNext)
                  \o e.products
                  \o (IF s.depth = 64 THEN ReadNext ELSE <<>>)
                  \o Publish \o Unless("no_more", Fill)
    IN e.reads \o Fill \o RepeatWhile("more", Steady)

(* The next tile is read and decoded into the other LDS buffer while this   *)
(* one is multiplied.                                                       *)
DecodedPipeline(s, r, e, stages) ==
    LET final == (s.depth \div 16) * (s.n \div 2) - 1
        AfterPair(p) ==
          (IF p = 0
           THEN WaitLoads(0) \o e.prepare \o PipelineReadAddresses(s, r, 0)
                \o HoistedShift(s, r)
           ELSE <<>>)
          \o DecodeChunk(s, r, p)
          \o (IF p = final THEN NextAHalf(s, r, 0) \o NextAHalf(s, r, 1) ELSE <<>>)
        Body == CountStage \o e.reads \o WaitLoads(PackedLoadCount(s))
                \o Wmma(s, r, TRUE, TRUE, <<>>, TRUE, AfterPair, Nothing)
                \o Publish \o SwapBuffers(s, r)
    IN e.reads \o e.first_a \o WaitLoads(ALoadCount(s))
       \o Decode(e) \o Publish \o ToggleWriteBuffer(s, r)
       \o (IF stages > 1 THEN RepeatWhile("before_last", Body) ELSE <<>>)
       \o WaitLoads(0) \o e.products

Loop(s, r, e, stages) ==
    IF s.double THEN DecodedPipeline(s, r, e, stages)
    ELSE IF s.next_packed THEN PackedPipeline(s, r, e)
    ELSE OrdinaryLoop(s, r, e)
(* A kernel is a specification with its plan and its pieces.                *)
Kernel(s, r) == [spec |-> s, plan |-> r, pieces |-> Pieces(s, r)]
StartTile(s, r) == BeginTile \o ZeroAccumulators(s, r) \o ThreadCoordinates(s, r)
ComputeTile(k, stages) ==
    StartTile(k.spec, k.plan) \o Loop(k.spec, k.plan, k.pieces, stages) \o k.pieces.store

StartBody(k) ==
    Alu({}, {<<k.plan.serial, "serial", 0, 0>>} \cup Used({k.plan.t}))
    \o CodebookStage(k.spec, k.plan)
OrdinaryBody(k, stages) == StartBody(k) \o ComputeTile(k, stages)

(* What the machine needs to know of a body: every output fragment takes    *)
(* the sixteen-element steps of the stages in the order of the contraction, *)
(* those of both projections in each stage.                                 *)
Program(s, registers, code, projections, stages, routes) ==
    LET steps == s.depth \div 16
        Projection(i) == ((i - 1) \div steps) % projections
    IN [spec |-> s, code |-> code, registers |-> registers, decoders |-> DecodingWaves(s),
        rows |-> Rows(s), span |-> KSpan(s), codebook |-> Smaller(4, CodebookLoads(s)),
        row_cells |-> {}, stages |-> stages,
        order |-> [i \in 1 .. stages * projections * steps |->
                     <<(i - 1) \div (projections * steps) + Second * Projection(i),
                       16 * ((i - 1) % steps)>>],
        tiles |-> Accumulators(s), routes |-> routes, suppress |-> s.suppress]
(* A workgroup of the ordinary body: one output tile with all of its rows.  *)
OrdinaryProgram(k, stages) ==
    Program(k.spec, k.plan.total, OrdinaryBody(k, stages), 1, stages,
            {[full |-> 1, short |-> FALSE, active |-> [w \in Waves |-> <<k.spec.m>>]]})
=============================================================================
