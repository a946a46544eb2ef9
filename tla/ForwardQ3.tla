------------------------------ MODULE ForwardQ3 ------------------------------
(***************************************************************************)
(* The forward bodies of packed three-bit weights: a block is two halves of *)
(* eight groups, each with a scale of its own and, two and two, a scale of  *)
(* the activations.  The half tile decodes a half at a time; the full tile  *)
(* decodes both halves of its rows, then stages the activations of one and  *)
(* of the other.                                                            *)
(***************************************************************************)
EXTENDS ForwardPlan

(* frontier: the values of a decoding step are all computed before the next *)
(* one starts (of the full tile); prefetch: the raw weights of a block are  *)
(* loaded before the one ahead of it is done; read, write, metadata: bytes  *)
(* of the loads and LDS writes.                                             *)
Q3Spec(staging) ==
    [quant |-> "Q3_K", staging |-> staging, m |-> 8, n |-> 1, frontier |-> TRUE,
     prefetch |-> TRUE, read |-> 16, write |-> 16, metadata |-> 16]
Full(s) == s.staging = "Full"
GroupsOfHalf == 8
GroupsOfBlock == 16

ScalesAt == 128
HalfBase(s, half) == IF Full(s) THEN 160 * half ELSE 0

FragmentOf(m) == <<m, 0>>

-----------------------------------------------------------------------------
(* Each lane stages a row of activations: four scales, each of two groups,  *)
(* and the values of eight groups.                                          *)
ActivationChunks == 9
StageActivationRow(s, r, half) ==
    LET at == IF Full(s) THEN r["temporary"] ELSE r["activation_address"]
        address == Only(at, "activations at", 0)
        Chunk(c) ==
          LoadAhead(IF c = 0 THEN 0 ELSE c - 1, address, r["activation_stage"] + 4 * c, 4,
                    IF c = 0 THEN "AS" ELSE "A", 0)
    IN (IF Full(s)
        THEN AluAt(GroupsOfHalf * half, Only(r["activation_lds"], "activation row", 0),
                   Fresh(at, "activations at", 0))
        ELSE <<>>)
       \o Each(0, ActivationChunks - 1, Chunk)
WriteActivationRow(s, r) ==
    LET bytes == IF Full(s) THEN s.write ELSE 16
        row == Only(r["activation_lds"], "activation row", 0)
        source(c, j) == r["activation_stage"] + 4 * c + j * (bytes \div 4)
        Scales(j) ==
          LdsWriteAll("AS", Span(source(0, j), bytes \div 4, "AS", 0), row, "activations",
                      {<<j * bytes + 4 * d, 2 * ((j * bytes) \div 4 + d)>> : d \in 0 .. bytes \div 4 - 1}, 4)
        Values(c, j) ==
          LdsWrite("A", Span(source(c, j), bytes \div 4, "A", 0), row, "activations",
                   16 * c + j * bytes, bytes)
    IN Each(0, 16 \div bytes - 1, Scales)
       \o Each(1, ActivationChunks - 1, LAMBDA c :
            Each(0, 16 \div bytes - 1, LAMBDA j : Values(c, j)))

-----------------------------------------------------------------------------
(* A lane decodes every other group of a row: the low bits of a half, the   *)
(* high bits and the scales of the whole block.                             *)
LoadChunks(width, ahead, address, base, role) ==
    Each(0, 16 \div width - 1, LAMBDA c :
        LoadAhead(ahead, address, base + c * (width \div 4), width \div 4, role, 0))
RawAddress(r) ==
    Alu(Only(r["lane"], "lane", 0), Fresh(r["temporary"], "half", 0))
    \o Alu(Only(r["temporary"], "half", 0), Fresh(r["temporary"] + 1, "bytes", 0))
    \o Alu(Only(r["temporary"] + 1, "bytes", 0) \cup Only(r["weight_address"], "weights at", 0),
           Fresh(r["stage_address"], "weights at", 0))
LoadRaw(s, r, half) ==
    LET raw == Only(r["stage_address"], "weights at", 0) IN
    LoadChunks(s.read, GroupsOfHalf * half, raw, r["low_raw"], "low")
    \o LoadChunks(s.read, 0, raw, r["high_raw"], "high")
    \o LoadChunks(s.metadata, 0, Only(r["weight_address"], "weights at", 0), r["metadata"], "metadata")
    \o (IF Full(s) THEN LoadChunks(s.read, GroupsOfHalf, raw, r["low1_raw"], "low") ELSE <<>>)
PrefetchRaw(s, r) == RawAddress(r) \o LoadRaw(s, r, 0)

HalfRow(r, bytes) ==
    Alu(Only(r["temporary"] + 1, bytes, 0) \cup Only(r["weight_lds"], "weight row", 0),
        Fresh(r["stage_address"], "half row", 0))
(* Of the two groups a step decodes, this lane has the one of its half.     *)
OfHalf(s, half, at, stride) == {<<HalfBase(s, half) + at + stride * h, h>> : h \in 0 .. 1}
Ahead(i, offsets) == {<<o[1], 2 * i + o[2]>> : o \in offsets}

DecodeGroup(s, r, half, i) ==
    LET low == IF Full(s) /\ half = 1 THEN r["low1_raw"] ELSE r["low_raw"]
        width == s.write \div 4
        scratch == IF s.frontier THEN {r["payload_high"] + j : j \in 0 .. 3} ELSE {r["auxiliary"]}
        Write(c) ==
          LdsWriteAll("W", Span(r["decoded"] + c * width, width, "group", i),
                      Only(r["stage_address"], "half row", 0), "weights",
                      Ahead(i, OfHalf(s, half, 32 * i + c * s.write, 16)), s.write)
    IN AluShared(GroupsOfHalf * half, Span(r["high_raw"], 4, "high", 0), Span(low, 4, "low", 0),
                 Filled(r["decoded"], 4, "group", i) \cup Scratch(scratch))
       \o Each(0, 16 \div s.write - 1, Write)

(* The words that hold the low and the high bits of a scale.                *)
LowWord(i) == (i + 1) \div 2
HighWord(i) == 2 + (i % 2)
DecodeScales(s, r, half) ==
    LET shift == Only(r["half_shift"], "shift", 0)
        Word(x) == Only(r["metadata"] + x, "metadata", 0)
        Target(i) == IF s.frontier THEN r["scales"] + i ELSE r["stage_scale"]
        Auxiliary(i) == IF s.frontier THEN r["scale_auxiliary"] + i ELSE r["auxiliary"]
        LowBits(i) ==
          AluShared(0, {}, shift \cup Word(LowWord(i)),
                    Fresh(Target(i), "low", i) \cup Scratch({Auxiliary(i)}))
        Scale(i) ==
          AluShared(GroupsOfHalf * half,
                    Word(HighWord(i)) \cup Only(r["stage_d"], "d", 0) \cup Only(Target(i), "low", i), shift,
                    Fresh(Target(i), "scale", i) \cup Scratch({Auxiliary(i)}))
        Write(i) ==
          LdsWriteAll("WS", Only(Target(i), "scale", i), Only(r["stage_address"], "half row", 0),
                      "weights", Ahead(i, OfHalf(s, half, ScalesAt + 8 * i, 4)), 4)
    IN IF s.frontier
       THEN Each(0, 3, LowBits) \o Each(0, 3, Scale) \o Each(0, 3, Write)
       ELSE Each(0, 3, LAMBDA i : LowBits(i) \o Scale(i) \o Write(i))

DecodeHalf(s, r, half) ==
    HalfRow(r, "bytes")
    \o Each(0, 3, LAMBDA i : DecodeGroup(s, r, half, i))
    \o Alu(Only(r["metadata"] + 3, "metadata", 0), Fresh(r["stage_d"], "d", 0))
    \o Alu(Only(r["temporary"], "half", 0), Fresh(r["temporary"] + 1, "scale bytes", 0))
    \o HalfRow(r, "scale bytes")
    \o DecodeScales(s, r, half)
HalfShift(r) == Alu(Only(r["temporary"], "half", 0), Fresh(r["half_shift"], "shift", 0))

-----------------------------------------------------------------------------
(* The products of a group, of all fragments.  The scale of the activations *)
(* is read for the first of its two groups and kept for the other.          *)
WeightPart(s, r, half, g) ==
    Part(r["weight_payload"], 4, "W", 0, "weights", HalfBase(s, half) + 16 * g)
WeightScales(s, r, half, g, e, n) ==
    RowsPart(r["weight_scales"] + e, n, "WS", 0, "weights", HalfBase(s, half) + ScalesAt + 4 * g)
ActivationPart(r, g, m) ==
    Part(r["activation_payload"] + 4 * m, 4, "A", m, "activations", 16 + 16 * g)
Kept(g) == g % 2
ScaleOf(g) == 4 * (g \div 2)

Dot(r, c, m) ==
    Alu(Span(r["weight_payload"], 4, "W", 0) \cup Span(r["activation_payload"] + 4 * m, 4, "A", m)
          \cup Span(r["zero"], 8, "zero", 0),
        Filled(c, 8, "dot", FragmentOf(m)))
WeightScaled(r, g, c, m, scale) ==
    AluShared(Kept(g), scale, Span(c, 8, "dot", FragmentOf(m)) \cup Span(r["weight_scales"], 8, "WS", 0),
              Filled(c, 8, "scaled", FragmentOf(m)))
Added(r, c, m, scale) ==
    Take(FragmentOf(m), Span(c, 8, "scaled", FragmentOf(m)) \cup scale, Totals(r, m))

MultiplyHalfTile(s, r, g) ==
    LET own == Only(r["weight_lds"], "weight row", 0)
        rows == Only(r["weight_scale_address"], "scale row", 0)
        Scale(m) == r["activation_scale"] + m
        Read(m) ==
          <<ActivationPart(r, g, m)>>
          \o (IF Kept(g) = 1 THEN <<>>
              ELSE <<RowsPart(Scale(m), 1, "AS", m, "activations", ScaleOf(g))>>)
        (* in the temporary of the other bank than the scale *)
        CopyOf(m) == r["temporary"] + ((r["temporary"] + Scale(m) + 1) % 2)
        Product(m) ==
          AluShared(Kept(g), Only(Scale(m), "AS", m), {}, Fresh(CopyOf(m), "copy", m))
          \o Dot(r, r["c"], m)
          \o WeightScaled(r, g, r["c"], m, Only(Scale(m), "AS", m))
          \o Accumulate({Added(r, r["c"], m, Only(CopyOf(m), "copy", m))})
    IN LdsReadOwn(own, <<WeightPart(s, r, 0, g)>>)
       \o LdsReadOwn(rows, [e \in 1 .. 8 |-> WeightScales(s, r, 0, g, e - 1, 1)])
       \o LdsReadShared(Only(r["activation_read"], "activation read", 0), Each(0, s.m - 1, Read))
       \o WaitLds(0)
       \o Each(0, s.m - 1, Product)

(* What may be outstanding when a fragment is multiplied.                   *)
ReadsAhead(g, m) ==
    CASE m = 0 -> IF Kept(g) = 0 THEN 15 ELSE 11
      [] m = 1 -> IF Kept(g) = 0 THEN 14 ELSE 10
      [] OTHER -> 7 - m
CorrectionPairs == <<<<0, 3>>, <<1, 2>>, <<4, 7>>, <<5, 6>>>>
MultiplyFullTile(s, r, half, g) ==
    LET activations == Only(r["activation_read"], "activation read", 0)
        Read(m) == LdsReadShared(activations, <<ActivationPart(r, g, m)>>)
        Scales(i) ==
          LdsReadOwn(Only(r["weight_scale_address"] + i, "scale row", i),
                     <<WeightScales(s, r, half, g, 2 * i, 2)>>)
        Scale(m) == Only(r["activation_scale"] + m, "AS", m \div 2)
        ReadScales ==
          Alu(activations, Fresh(r["temporary"], "scales at", 0))
          \o LdsReadShared(Only(r["temporary"], "scales at", 0),
               [i \in 1 .. 4 |-> RowsPart(r["activation_scale"] + 2 * i - 2, 2, "AS", i - 1,
                                          "activations", ScaleOf(g))])
        C(m) == r["c"] + 8 * m
        Correct(i) ==
          LET pair == CorrectionPairs[i] IN
          WeightScaled(r, g, C(pair[1]), pair[1], Scale(pair[1]))
          \o WeightScaled(r, g, C(pair[2]), pair[2], Scale(pair[2]))
          \o Accumulate({Added(r, C(m), m, {}) : m \in {pair[1], pair[2]}})
    IN Read(0) \o LdsReadOwn(Only(r["weight_lds"], "weight row", 0), <<WeightPart(s, r, half, g)>>)
       \o Read(1) \o Each(0, 3, Scales)
       \o (IF Kept(g) = 1 THEN <<>> ELSE ReadScales)
       \o Each(2, s.m - 1, Read)
       \o Each(0, s.m - 1, LAMBDA m : WaitLds(ReadsAhead(g, m)) \o Dot(r, C(m), m))
       \o Each(1, 4, Correct)

-----------------------------------------------------------------------------
ScaleRows(s, r) ==
    LET row == r["weight_scale_address"] IN
    Alu(Only(r["lane"], "lane", 0) \cup Only(r["wave"], "wave", 0),
        Scratch({r["temporary"], r["temporary"] + 1}) \cup Fresh(row, "scale row", 0))
    \o (IF Full(s)
        THEN Each(1, 3, LAMBDA i : Alu(Only(row, "scale row", 0), Fresh(row + i, "scale row", i)))
        ELSE <<>>)

Q3Setup(s, r) ==
    LET lane == Only(r["lane"], "lane", 0)
        wave == Only(r["wave"], "wave", 0)
        scratch == Scratch({r["temporary"], r["temporary"] + 1})
    IN Alu({}, Fresh(r["lane"], "lane", 0) \cup Fresh(r["wave"], "wave", 0))
       \o Alu(lane, Fresh(r["activation_read"], "activation read", 0))
       \o AluAt(0, lane \cup wave, scratch \cup Fresh(r["weight_address"], "weights at", 0))
       \o Alu(lane \cup wave, scratch \cup Fresh(r["activation_lds"], "activation row", 0))
       \o (IF Full(s) THEN <<>>
           ELSE AluAt(0, Only(r["temporary"], "scratch", 0),
                      scratch \cup Fresh(r["activation_address"], "activations at", 0)))
       \o Alu(lane \cup wave, scratch \cup Fresh(r["weight_lds"], "weight row", 0))
       \o ClearSums(r, s.m, 1) \o Alu({}, Filled(r["zero"], 8, "zero", 0))
       \o (IF s.prefetch THEN PrefetchRaw(s, r) ELSE <<>>)
       \o (IF Full(s) THEN ScaleRows(s, r) ELSE <<>>)

Q3Store(s, r) ==
    LET Output(m) == Only(r["output_address"], "output", m)
        Store(m) ==
          Alu(Span(r["sums"] + 8 * m, 8, "sum", FragmentOf(m)),
              Filled(r["sums"] + 8 * m, 8, "rounded", m) \cup Scratch({r["temporary"]}))
          \o StoreOutput(Output(m) \cup Span(r["sums"] + 8 * m, 8, "rounded", m))
          \o (IF m = s.m - 1 THEN <<>> ELSE Alu(Output(m), Fresh(r["output_address"], "output", m + 1)))
    IN Alu(Only(r["lane"], "lane", 0) \cup Only(r["wave"], "wave", 0),
           Scratch({r["temporary"], r["temporary"] + 1}) \cup Fresh(r["output_address"], "output", 0))
       \o Each(0, s.m - 1, Store)

PublishRows == WaitLds(0) \o Barrier
(* A half at a time: its activations, then its weights.                     *)
HalfTileHalf(s, r, half) ==
    LET preloaded == s.prefetch /\ half = 0 IN
    StageActivationRow(s, r, half)
    \o RawAddress(r) \o (IF preloaded THEN <<>> ELSE LoadRaw(s, r, half)) \o HalfShift(r)
    \o WaitLoads(0)
    \o WriteActivationRow(s, r)
    \o DecodeHalf(s, r, half)
    \o PublishRows
    \o ScaleRows(s, r)
    \o Each(0, GroupsOfHalf - 1, LAMBDA g : MultiplyHalfTile(s, r, g))
    \o Barrier
    \o StepStage({r["activation_address"]}, GroupsOfHalf)
(* Both halves of the weights, then the activations of each half.           *)
FullTileWeights(s, r) ==
    StageActivationRow(s, r, 0)
    \o RawAddress(r) \o HalfShift(r)
    \o (IF s.prefetch THEN WaitLoads(ActivationChunks) ELSE PrefetchRaw(s, r) \o WaitLoads(0))
    \o DecodeHalf(s, r, 0)
    \o RawAddress(r) \o HalfShift(r) \o DecodeHalf(s, r, 1)
FullTileHalf(s, r, half) ==
    (IF half = 0 THEN <<>> ELSE StageActivationRow(s, r, half))
    \o WaitLoads(0)
    \o WriteActivationRow(s, r)
    \o PublishRows
    \o Each(0, GroupsOfHalf - 1, LAMBDA g : MultiplyFullTile(s, r, half, g))
    \o Barrier
Q3Body(s, r) ==
    BeginTile \o Q3Setup(s, r)
    \o RepeatWhile("more",
         (IF Full(s) THEN FullTileWeights(s, r) \o FullTileHalf(s, r, 0) \o FullTileHalf(s, r, 1)
          ELSE HalfTileHalf(s, r, 0) \o HalfTileHalf(s, r, 1))
         \o CountStages(GroupsOfBlock)
         \o Unless("no_more", StepStage({r["weight_address"]}, GroupsOfBlock)
                              \o (IF s.prefetch THEN PrefetchRaw(s, r) ELSE <<>>)))
    \o Q3Store(s, r)

Q3Program(s) ==
    LET plan == IF Full(s) THEN Q3FullPlan ELSE AllocateRoles(Q3HalfRoles, Q3HalfRegisters) IN
    ForwardProgram(s, IF Full(s) THEN Q3FullRegisters ELSE Q3HalfRegisters, Q3Body(s, plan),
                   GroupsOfBlock, FragmentsOf(s.m, 1))
=============================================================================
