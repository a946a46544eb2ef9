----------------------------- MODULE ForwardInt8 -----------------------------
(***************************************************************************)
(* The forward bodies of signed int8 weights.  A stage of the contraction  *)
(* is a group of 32 values with one scale on either side: its dot products *)
(* are scaled and added to the sums.  An iteration of the loop takes the   *)
(* groups of one activation block, or of two.                              *)
(***************************************************************************)
EXTENDS ForwardPlan

(* staging: how weights reach the products; m, n: fragments of a wave;      *)
(* depth: DepthU; compact: CompactDepth32WeightRows; pad: bytes behind a    *)
(* row of activations and of weights; read, write: widths of payload moves. *)
Int8Spec(staging, m, n) ==
    [quant |-> "Q8_0", staging |-> staging, m |-> m, n |-> n, depth |-> 32,
     compact |-> FALSE, padA |-> 0, padB |-> 0, read |-> 16, write |-> 16]
Groups(s) == s.depth \div 8

(* A payload of 32 values in two loads behind one address.                  *)
LoadPayloadPair(ahead, address, base, role, ix) ==
    LoadAhead(ahead, address, base, 4, role, ix)
    \o LoadAhead(ahead, address, base + 4, 4, role, ix)

(* Two products of sixteen values fill a fragment, which is then scaled by  *)
(* the weights' scales.                                                     *)
DotScaled(r, m, n, j, weights, activations, scales, clear) ==
    LET c == r["c"] + 8 * j IN
    Alu(Span(weights, 8, "W", n) \cup Span(activations, 8, "A", m) \cup clear,
        Filled(c, 8, "dot", <<m, n>>))
    \o Alu(Span(c, 8, "dot", <<m, n>>) \cup Span(scales, 8, "WS", n),
           Filled(c, 8, "scaled", <<m, n>>))
AddScaled(r, m, n, j, scales) ==
    Accumulate({Take(<<m, n>>,
                     Span(r["c"] + 8 * j, 8, "scaled", <<m, n>>)
                       \cup {<<x, "AS", m>> : x \in scales},
                     Totals(r, j))})

(* Rounds the sums in place, having built an address for each of them.      *)
FragmentAt(n, j) == <<j \div n, j % n>>
RoundFragments(r, m, n) ==
    LET Output(j) == r["output_address"] + 8 * j IN
    Each(0, m * n - 1, LAMBDA j :
        Alu(IF j = 0 THEN Only(Output(0), "output", 0) ELSE Only(Output(j - 1), "output", j - 1),
            Filled(Output(j), 8, "output", j))
        \o Alu(Span(r["sums"] + 8 * j, 8, "sum", FragmentAt(n, j)),
               Filled(r["sums"] + 8 * j, 8, "rounded", j) \cup Scratch({r["temporary"]})))
    \o StoreOutput(UNION {Span(Output(j), 8, "output", j)
                            \cup Span(r["sums"] + 8 * j, 8, "rounded", j) : j \in 0 .. m * n - 1})

-----------------------------------------------------------------------------
(* One wave, one fragment, everything straight from global memory.          *)
DirectGroup(r, g) ==
    LoadPayloadPair(0, Only(r["weight_address"], "weights at", 0), r["weights"], "W", 0)
    \o LoadPayloadPair(g, Only(r["activation_address"], "activations at", 0),
                       r["activations"], "A", 0)
    \o LoadAhead(g, Only(r["activation_address"], "activations at", 0),
                 r["activation_scales"], 1, "AS", 0)
    \o Each(0, 7, LAMBDA e :
         Load(Only(r["results"] + e, "scale at", 0), r["weight_scales"] + e, 1, "half", 0))
    \o WaitLoads(0)
    \o Alu(Span(r["weight_scales"], 8, "half", 0), Filled(r["weight_scales"], 8, "WS", 0))
    \o DotScaled(r, 0, 0, 0, r["weights"], r["activations"], r["weight_scales"], {})
    \o AddScaled(r, 0, 0, 0, {r["activation_scales"]})
    \o StepStage({r["results"] + e : e \in 0 .. 7} \cup {r["weight_address"]}, 1)
DirectBody(r) ==
    LET serial == Only(r["serial"], "serial", 0)
        column == Only(r["output_column"], "column", 0)
        row == Only(r["activation_row"], "row", 0)
    IN BeginTile
       \o Alu({}, Fresh(r["serial"], "serial", 0))
       \o Alu(serial, Scratch({r["temporary"]}) \cup Fresh(r["output_column"], "column", 0)
                      \cup Fresh(r["activation_row"], "row", 0))
       \o AluAt(0, serial, Scratch({r["temporary"], r["activation_scales"]})
                           \cup {<<r["results"] + e, "scale at", 0, 0>> : e \in 0 .. 7})
       \o AluAt(0, column, Fresh(r["weight_address"], "weights at", 0))
       \o AluAt(0, row, Fresh(r["activation_address"], "activations at", 0))
       \o ClearSums(r, 1, 1)
       \o RepeatWhile("more",
            Each(0, 3, LAMBDA g : DirectGroup(r, g))
            \o StepStage({r["activation_address"]}, 4) \o CountStages(4))
       \o Alu(serial, Scratch({r["temporary"], r["store_auxiliary"]})
                      \cup Fresh(r["output_address"], "output", 0))
       \o StoreOutput(Span(r["sums"], 8, "sum", <<0, 0>>)
                      \cup Only(r["output_address"], "output", 0))

-----------------------------------------------------------------------------
(* Four waves of four fragments, straight from global memory.               *)
TiledGroup(s, r, g) ==
    LET Weights(n) ==
          LoadPayloadPair(g, Only(r["weight_address"] + n, "weights at", n),
                          r["weights"] + 8 * n, "W", n)
        Activations(m) ==
          LET address == Only(r["activation_address"] + m, "activations at", m) IN
          LoadPayloadPair(g, address, r["activations"] + 8 * m, "A", m)
          \o LoadAhead(g, address, r["activation_scales"] + m, 1, "AS", m)
        Scale(e) ==
          LoadAhead(g, Only(r["results"] + e, "scale at", e \div 8),
                    r["weight_scales"] + e, 1, "half", e \div 8)
        Scaled(j) ==
          LET m == j \div s.n
              n == j % s.n
          IN DotScaled(r, m, n, j, r["weights"] + 8 * n, r["activations"] + 8 * m,
                       r["weight_scales"] + 8 * n, {})
             \o AddScaled(r, m, n, j, {r["activation_scales"] + m})
    IN Each(0, s.n - 1, Weights) \o Each(0, s.m - 1, Activations)
       \o Each(0, 8 * s.n - 1, Scale) \o WaitLoads(0)
       \o Each(0, s.n - 1, LAMBDA n :
            Alu(Span(r["weight_scales"] + 8 * n, 8, "half", n),
                Filled(r["weight_scales"] + 8 * n, 8, "WS", n)))
       \o Each(0, s.m * s.n - 1, Scaled)
TiledBody(s, r) ==
    LET lane == Only(r["lane"], "lane", 0)
        wave == Only(r["wave"], "wave", 0)
        addresses == {r["results"] + e : e \in 0 .. 8 * s.n - 1}
                     \cup {r["weight_address"] + n : n \in 0 .. s.n - 1}
                     \cup {r["activation_address"] + m : m \in 0 .. s.m - 1}
        last == s.m * s.n - 1
        all == FragmentsOf(s.m, s.n)
    IN BeginTile
       \o Alu({}, Fresh(r["lane"], "lane", 0) \cup Fresh(r["wave"], "wave", 0))
       \o AluAt(0, lane,
            Scratch({r["temporary"], r["output_column"]})
            \cup {<<r["weight_address"] + n, "weights at", n, 0>> : n \in 0 .. s.n - 1}
            \cup {<<r["results"] + e, "scale at", e \div 8, 0>> : e \in 0 .. 8 * s.n - 1})
       \o AluAt(0, lane \cup wave,
            Scratch({r["temporary"], r["activation_row"]})
            \cup {<<r["activation_address"] + m, "activations at", m, 0>> : m \in 0 .. s.m - 1})
       \o ClearSums(r, s.m, s.n)
       \o RepeatWhile("more",
            Each(0, 3, LAMBDA g : TiledGroup(s, r, g)) \o StepStage(addresses, 4) \o CountStages(4))
       \o Alu(lane \cup wave, Scratch({r["temporary"], r["store_row"]}))
       \o Alu(lane, Scratch({r["temporary"], r["store_column"]})
                    \cup Fresh(r["output_address"], "output", 0))
       \o RoundFragments(r, s.m, s.n)

-----------------------------------------------------------------------------
(* The layouts of the LDS tiles: bytes of a staged row of activations and  *)
(* of weights, with the scales of a weight row behind its payload.         *)
Int8Layout(s) ==
    LET activation == 144 + s.padA
        weight == (IF s.compact THEN 144 ELSE 304) + s.padB
    IN [activation_rows |-> 16 * s.m, activation_row |-> activation, weight_rows |-> 64,
        weight_row |-> weight, scales |-> IF s.compact THEN 128 ELSE 256,
        weights |-> 16 * s.m * activation,
        bytes |-> 16 * s.m * activation + 64 * weight
                  + (IF s.staging = "WaveN" /\ ~s.compact THEN 512 ELSE 0)]
PairedScales(s) == s.compact
WeightsFirst(s) == s.compact \/ s.staging = "SmallM"

(* Every lane stages some groups of an activation row, those of a row       *)
(* spread over Sharers lanes; a half of the lanes stages two of the four    *)
(* weight groups of an output row, the other half the other two.            *)
Sharers(s) == IF s.staging = "SmallM" THEN 128 \div (16 * s.m) ELSE 1
LaneGroups(s) == 4 \div Sharers(s)
ActivationOffsets(s, at, step) ==
    {<<at + step * LaneGroups(s) * l, LaneGroups(s) * l>> : l \in 0 .. Sharers(s) - 1}

(* payload, scale: where this lane's share of a block starts.               *)
LoadActivations(s, r, payload, scale) ==
    Each(0, LaneGroups(s) - 1, LAMBDA g :
        LoadPayloadPair(g, Only(payload, "activations at", 0), r["activations"] + 8 * g, "A", g)
        \o LoadAhead(g, Only(scale, "activations at", 0), r["activation_scales"] + g, 1, "AS", g))
(* trailing: the loads issued behind those of the activations.              *)
WriteActivations(s, r, payload, scale, trailing) ==
    Each(0, LaneGroups(s) - 1, LAMBDA g :
        LET At(half) == ActivationOffsets(s, 16 + 32 * g + 16 * half, 32)
            Half(half) == Span(r["activations"] + 8 * g + 4 * half, 4, "A", g)
            row == Only(payload, "activation row", 0)
        IN WaitLoads(3 * (LaneGroups(s) - g - 1) + trailing)
           \o LdsWriteAll("A", Half(0), row, "activations", At(0), 16)
           \o LdsWriteAll("A", Half(1), row, "activations", At(1), 16)
           \o LdsWriteAll("AS", Only(r["activation_scales"] + g, "AS", g),
                          Only(scale, "activation row", 0), "activations",
                          ActivationOffsets(s, 4 * g, 4), 4))

StagedWeights(r, j) == IF j = 0 THEN r["weights"] ELSE r["staged_weights"]
LoadWeights(s, r, group) ==
    LET address == Only(r["stage_address"], "weights at", 0)
        moves == 16 \div s.read
    IN Each(0, 1, LAMBDA j :
         Each(0, 2 * moves - 1, LAMBDA chunk :
           LoadAhead(group + j, address, StagedWeights(r, j) + chunk * (s.read \div 4),
                     s.read \div 4, "W", j))
         \o LoadAhead(group + j, address, r["weight_scales"] + j, 1, "half", j))
StageWeights(s, r, group) ==
    LET lane == Only(r["lane"], "lane", 0)
        row == Only(r["weight_lds"], "weight row", 0)
    IN Alu(lane, Scratch({r["temporary"]}))
       \o Alu(Only(r["weight_address"], "weights at", 0) \cup Only(r["temporary"], "scratch", 0),
              Fresh(r["stage_address"], "weights at", 0))
       \o Alu(row \cup Only(r["temporary"], "scratch", 0), Fresh(r["temporary"], "half row", 0))
       \o Alu(lane \cup row, Fresh(r["scale_stage"], "half row", 0))
       \o LoadWeights(s, r, group)
(* first: the loads left outstanding when the first group is written.       *)
WriteWeights(s, r, group, first) ==
    LET layout == Int8Layout(s)
        Row(x) == Only(x, "half row", 0)
        width == s.write \div 4
        Halves(at, step) == {<<at + step * h, 2 * h>> : h \in 0 .. 1}
    IN Each(0, 1, LAMBDA j :
         WaitLoads(IF j = 0 THEN first ELSE 0)
         \o Each(0, 2 * (16 \div s.write) - 1, LAMBDA chunk :
              LdsWriteAll("W", Span(StagedWeights(r, j) + chunk * width, width, "W", j),
                          Row(r["temporary"]), "weights",
                          Halves(32 * (group + j) + chunk * s.write, 64), s.write))
         \o Alu(Only(r["weight_scales"] + j, "half", j), Fresh(r["weight_scales"] + j, "WS", j))
         \o LdsWriteAll("WS", Only(r["weight_scales"] + j, "WS", j), Row(r["scale_stage"]),
                        "weights", Halves(layout.scales + 4 * (group + j), 8), 4))

(* The products of a group with the activations of a staged one.            *)
ReadGroup(s, r, g, ag) ==
    LET scales == Int8Layout(s).scales + 4 * g
        Scales(e, n) == RowsPart(r["weight_scales"] + e, n, "WS", 0, "weights", scales)
        row == Only(r["scale_read"], "scale row", 0)
        Activation(m) ==
          <<Part(r["activations"] + 8 * m, 4, "A", m, "activations", 16 + 32 * ag),
            Part(r["activations"] + 8 * m + 4, 4, "A", m, "activations", 32 + 32 * ag),
            Part(r["activation_scales"] + m, 1, "AS", m, "activations", 4 * ag)>>
    IN LdsReadOwn(Only(r["weight_lds"], "weight row", 0),
                  <<Part(r["weights"], 4, "W", 0, "weights", 32 * g),
                    Part(r["weights"] + 4, 4, "W", 0, "weights", 32 * g + 16)>>)
       \o (IF PairedScales(s)
           THEN LdsReadOwn(row, <<Scales(0, 2), Scales(2, 2)>>)
                \o LdsReadOwn(Only(r["temporary"], "scale row", 4), <<Scales(4, 2), Scales(6, 2)>>)
           ELSE LdsReadOwn(row, [e \in 1 .. 8 |-> Scales(e - 1, 1)]))
       \o LdsReadShared(Only(r["activation_read"], "activation read", 0),
                        Each(0, s.m - 1, Activation))
MultiplyGroup(s, r) ==
    Each(0, s.m - 1, LAMBDA m :
        LET copies == r["scale_copies"]
            scales == r["activation_scales"]
            odd == m % 2
        IN WaitLds(3 * (s.m - m - 2 + odd))
           \o (IF odd = 1 THEN <<>>
               ELSE Alu(Only(scales + m, "AS", m), Fresh(copies, "AS", m))
                    \o Alu(Only(scales + m + 1, "AS", m + 1), Fresh(copies + 1, "AS", m + 1)))
           \o DotScaled(r, m, 0, m, r["weights"], r["activations"] + 8 * m, r["weight_scales"],
                        Span(r["zero"], 8, "zero", 0))
           \o AddScaled(r, m, 0, m, {scales + m, copies + odd}))
GroupOf(s, r, g, ag) == ReadGroup(s, r, g, ag) \o MultiplyGroup(s, r)

ScaleAddress(s, r) ==
    Alu(Only(r["lane"], "lane", 0), Scratch({r["temporary"]}))
    \o Alu(Only(r["wave"], "wave", 0) \cup Only(r["temporary"], "scratch", 0),
           Fresh(r["scale_read"], "scale row", 0))
    \o (IF PairedScales(s)
        THEN Alu(Only(r["scale_read"], "scale row", 0), Fresh(r["temporary"], "scale row", 4))
        ELSE <<>>)

(* Each wave stages and multiplies sixteen output features; the rows of     *)
(* activations are shared.                                                  *)
TiledSetup(s, r) ==
    LET lane == Only(r["lane"], "lane", 0)
        wave == Only(r["wave"], "wave", 0)
        row == Only(r["activation_row"], "row", 0)
        temporary == Scratch({r["temporary"]})
    IN Alu({}, Fresh(r["lane"], "lane", 0) \cup Fresh(r["wave"], "wave", 0))
       \o Alu(lane \cup wave, temporary \cup Fresh(r["weight_row"], "feature", 0))
       \o AluAt(0, Only(r["weight_row"], "feature", 0),
                temporary \cup Fresh(r["weight_address"], "weights at", 0))
       \o Alu(lane \cup wave, temporary \cup Fresh(r["activation_row"], "row", 0))
       \o (IF s.staging = "WaveN"
           THEN AluAt(0, row, temporary \cup Fresh(r["activation_address"], "activations at", 0))
                \o Alu(row, Fresh(r["activation_lds"], "activation row", 0))
           ELSE Alu(lane \cup wave, Fresh(r["activation_group"], "group", 0))
                \o AluAt(0, row \cup Only(r["activation_group"], "group", 0),
                     temporary \cup Fresh(r["activation_address"], "activations at", 0)
                     \cup Fresh(r["activation_scale_stage"], "activations at", 0))
                \o Alu(row \cup Only(r["activation_group"], "group", 0),
                       temporary \cup Fresh(r["activation_lds"], "activation row", 0)
                       \cup Fresh(r["activation_scale_lds"], "activation row", 0)))
       \o Alu(lane, Fresh(r["activation_read"], "activation read", 0))
       \o Alu(Only(r["weight_row"], "feature", 0),
              temporary \cup Fresh(r["weight_lds"], "weight row", 0))
       \o ClearSums(r, s.m, 1) \o Alu({}, Filled(r["zero"], 8, "zero", 0))
TiledStore(s, r) ==
    Alu(Only(r["lane"], "lane", 0) \cup Only(r["wave"], "wave", 0),
        Scratch({r["temporary"], r["store_auxiliary"]}) \cup Fresh(r["output_address"], "output", 0))
    \o RoundFragments(r, s.m, 1)

Publish8 == WaitLds(0) \o Barrier
WaveNBody(s, r) ==
    LET groups == Groups(s)
        a == r["activation_address"]
        row == r["activation_lds"]
        First ==
          IF WeightsFirst(s)
          THEN StageWeights(s, r, 0) \o LoadActivations(s, r, a, a)
               \o WriteWeights(s, r, 0, 12) \o WriteActivations(s, r, row, row, 0)
          ELSE LoadActivations(s, r, a, a) \o StageWeights(s, r, 0)
               \o WriteActivations(s, r, row, row, 6) \o WriteWeights(s, r, 0, 3)
        SecondBlock ==
          Copy({<<r["temporary"], a>>}) \o StepStage({r["temporary"]}, 4)
          \o LoadActivations(s, r, r["temporary"], r["temporary"])
          \o Barrier \o WriteActivations(s, r, row, row, 0) \o Publish8
          \o Each(4, 7, LAMBDA g : GroupOf(s, r, g, g - 4))
    IN BeginTile \o TiledSetup(s, r)
       \o RepeatWhile("more",
            First
            \o (IF groups = 8 THEN StageWeights(s, r, 4) \o WriteWeights(s, r, 4, 3) ELSE <<>>)
            \o Publish8 \o ScaleAddress(s, r)
            \o Each(0, 3, LAMBDA g : GroupOf(s, r, g, g))
            \o (IF groups = 8 THEN SecondBlock ELSE <<>>)
            \o Barrier
            \o StepStage({r["weight_address"], a}, groups) \o CountStages(groups))
       \o TiledStore(s, r)
SmallMBody(s, r) ==
    LET a == r["activation_address"]
        b == r["activation_scale_stage"]
    IN BeginTile \o TiledSetup(s, r)
       \o RepeatWhile("more",
            StageWeights(s, r, 0) \o LoadActivations(s, r, a, b)
            \o WriteWeights(s, r, 0, 6)
            \o WriteActivations(s, r, r["activation_lds"], r["activation_scale_lds"], 0)
            \o Publish8 \o ScaleAddress(s, r)
            \o Each(0, 3, LAMBDA g : GroupOf(s, r, g, g))
            \o Barrier
            \o StepStage({r["weight_address"], a, b}, 4) \o CountStages(4))
       \o TiledStore(s, r)

Int8Plan(s) ==
    CASE s.staging = "Direct" ->
           [registers |-> Int8DirectRegisters,
            at |-> AllocateRoles(Int8DirectRoles, Int8DirectRegisters)]
      [] s.staging = "RegisterTiled" ->
           [registers |-> Int8RegisterTiledRegisters(s.m, s.n),
            at |-> AllocateRoles(Int8RegisterTiledRoles(s.m, s.n),
                                 Int8RegisterTiledRegisters(s.m, s.n))]
      [] s.staging = "WaveN" ->
           [registers |-> Int8WaveNRegisters,
            at |-> AllocateRoles(Int8WaveNRoles, Int8WaveNRegisters)]
      [] s.staging = "SmallM" ->
           [registers |-> Int8SmallMRegisters(s.m),
            at |-> AllocateRoles(Int8SmallMRoles(s.m), Int8SmallMRegisters(s.m))]
Int8Body(s, r) ==
    CASE s.staging = "Direct" -> DirectBody(r)
      [] s.staging = "RegisterTiled" -> TiledBody(s, r)
      [] s.staging = "WaveN" -> WaveNBody(s, r)
      [] s.staging = "SmallM" -> SmallMBody(s, r)
(* Four groups of an activation block, or eight, in an iteration.           *)
Int8Program(s) ==
    LET plan == Int8Plan(s) IN
    ForwardProgram(s, plan.registers, Int8Body(s, plan.at), IF s.depth = 64 THEN 8 ELSE 4,
                   FragmentsOf(s.m, s.n))
=============================================================================
