---------------------------- MODULE ForwardDecoded ----------------------------
(***************************************************************************)
(* The forward bodies that decode packed weights with a scale and a        *)
(* minimum into LDS.  An iteration takes the eight groups of a weight      *)
(* block: its nibbles are decoded, and the products of its scales and      *)
(* minima computed once a row by the decoding waves; then two planes of    *)
(* activations, of four groups each, are staged and multiplied.  The loop  *)
(* over the groups of a plane is unrolled here.                            *)
(***************************************************************************)
EXTENDS ForwardPlan

(* independent: every metadata field is extracted before the first is       *)
(* converted; deferred: metadata is read behind the first half of the       *)
(* products; tiles, batch: how many output tiles, and how many values of    *)
(* them, are rounded ahead of their stores (eight and one: at no priority); *)
(* nan: rounding preserves them, which takes the longer sequence; read,     *)
(* write, metadata: bytes of the payload's loads and LDS writes, and of the *)
(* metadata's loads.                                                        *)
DecodedSpec(quant, independent, deferred, tiles, batch) ==
    [quant |-> quant, staging |-> "Decoded", m |-> 8, n |-> 1, independent |-> independent,
     deferred |-> deferred, tiles |-> tiles, batch |-> batch, nan |-> TRUE,
     read |-> 16, write |-> 16, metadata |-> 16]

HighBits(s) == s.quant = "Q5_K"
WeightSlices == 4
Raw(r, slice) == r["staged"] + 8 * slice
RawHigh(r, slice) == r["staged"] + 36 + 4 * slice
MetadataAt(r) == r["staged"] + 32
BlockWords(r, words) == {<<MetadataAt(r) + w, "metadata", 0>> : w \in words}

(* The loads that may be outstanding when a slice is decoded, when a        *)
(* fragment's first product needs its activations, and its second.          *)
PayloadWait(s, slice) ==
    IF s.read # 16 \/ s.metadata # 16 THEN 0
    ELSE (IF HighBits(s) THEN 2 ELSE 1) * (WeightSlices - 1 - slice)
LowWait(s, t) == (IF s.deferred THEN 2 * s.m - 1 ELSE 2 * s.m + s.m \div 2 + 3) - 2 * t
HighWait(s) == 4 + s.m \div 2

LoadBytes(width, address, base, role, ix) ==
    Each(0, 16 \div width - 1, LAMBDA c :
        Load(address, base + c * (width \div 4), width \div 4, role, ix))

-----------------------------------------------------------------------------
(* Addresses of this lane's sixteen bytes of packed values and of its place *)
(* in the decoded rows.                                                     *)
DecodeAddresses(s, r) ==
    LET serial == Only(r["serial"], "serial", 0)
        temporary == Only(r["temporary"], "row at", 0)
        qh == r["auxiliary"] + 1
        chunk == Only(r["auxiliary"], "chunk", 0)
    IN AluAt(0, serial, Scratch({r["metadata_lds"]}) \cup Fresh(r["temporary"], "row at", 0)
                        \cup Fresh(r["auxiliary"], "chunk", 0))
       \o (IF HighBits(s)
           THEN Alu(chunk \cup temporary, Fresh(qh, "high bits at", 0))
                \o Alu(chunk \cup temporary, Fresh(r["temporary"], "packed at", 0))
           ELSE Alu(chunk, Scratch({r["metadata_lds"]}))
                \o Alu(temporary \cup Only(r["metadata_lds"], "scratch", 0),
                       Fresh(r["temporary"], "packed at", 0)))
       \o Alu(serial, Fresh(r["lds_address"], "row", 0))
       \o Alu(chunk, Scratch({r["metadata_lds"], r["auxiliary"]}))
       \o Alu(Only(r["lds_address"], "row", 0)
                \cup {<<x, "scratch", 0>> : x \in {r["metadata_lds"], r["auxiliary"]}},
              Fresh(r["lds_address"], "decoded row", 0))

LoadMetadata(s, r) ==
    Unless("not_decoding",
        AluAt(0, Only(r["serial"], "serial", 0), Fresh(r["metadata_lds"], "metadata at", 0))
        \o LoadBytes(s.metadata, Only(r["metadata_lds"], "metadata at", 0), MetadataAt(r),
                     "metadata", 0))

NextRows(register, role, slice) ==
    IF slice = WeightSlices - 1 THEN <<>>
    ELSE Alu(Only(register, role, slice), Fresh(register, role, slice + 1))
LoadSlices(s, r) ==
    LET qh == r["auxiliary"] + 1
        Packed(slice) ==
          LoadBytes(s.read, Only(r["temporary"], "packed at", slice), Raw(r, slice), "packed", slice)
        High(slice) ==
          IF HighBits(s)
          THEN LoadBytes(s.read, Only(qh, "high bits at", slice), RawHigh(r, slice), "high", slice)
          ELSE <<>>
    IN Each(0, WeightSlices - 1, LAMBDA slice :
            High(slice) \o Packed(slice)
            \o (IF HighBits(s) THEN NextRows(qh, "high bits at", slice) ELSE <<>>)
            \o NextRows(r["temporary"], "packed at", slice))
       \o (IF HighBits(s) THEN Alu(Only(r["serial"], "serial", 0), Fresh(qh, "shift", 0)) ELSE <<>>)

(* Sixteen bytes hold the low nibbles of one group and the high ones of the *)
(* next, at the lane's half of both.                                        *)
NibblesAt(next) == {<<64 * (a \div 2) + 16 * (a % 2) + 32 * next, 2 * (a \div 2) + next>> : a \in 0 .. 7}
DecodeSlice(s, r, slice) ==
    LET raw == Raw(r, slice)
        high == RawHigh(r, slice)
        qh == r["auxiliary"] + 1
        width == s.write \div 4
        Write(next) ==
          Each(0, 16 \div s.write - 1, LAMBDA c :
            LdsWriteAll("W", Span(raw + 4 * next + c * width, width, "nibbles", <<slice, next>>),
                        Only(r["lds_address"], "decoded row", slice), <<"weights", slice>>,
                        {<<o[1] + c * s.write, o[2]>> : o \in NibblesAt(next)}, s.write))
        Nibbles ==
          Alu(Span(raw, 4, "packed", slice), Filled(raw + 4, 4, "nibbles", <<slice, 1>>))
          \o Alu(Span(raw, 4, "packed", slice), Filled(raw, 4, "nibbles", <<slice, 0>>))
        Combine(next) ==
          Alu(Span(high, 4, "shifted", slice) \cup Span(raw + 4 * next, 4, "nibbles", <<slice, next>>),
              Filled(raw + 4 * next, 4, "nibbles", <<slice, next>>) \cup Scratch({r["auxiliary"]}))
    IN WaitLoads(PayloadWait(s, slice))
       \o (IF HighBits(s)
           THEN Alu(Only(qh, "shift", 0) \cup Span(high, 4, "high", slice),
                    Filled(high, 4, "shifted", slice))
           ELSE <<>>)
       \o Nibbles
       \o (IF HighBits(s) THEN Combine(0) \o Combine(1) ELSE <<>>)
       \o Write(0) \o Write(1) \o NextRows(r["lds_address"], "decoded row", slice)

(* The products of a group's scale and minimum with the row's, as a pair.   *)
ExtractAll(r) ==
    LET x == r["decode_scratch"]
        Lower(g) == Alu(BlockWords(r, {1}), Fresh(x + g, "scale", g))
                    \o Alu(BlockWords(r, {2}), Fresh(x + 8 + g, "minimum", g))
        Upper(p) ==
          Alu(BlockWords(r, {3}), Fresh(x + 4 + p, "low scale", p) \cup Fresh(x + 12 + p, "low minimum", p))
          \o Alu(BlockWords(r, {1}), Fresh(x + 16 + p, "high scale", p))
          \o Alu(BlockWords(r, {2}), Fresh(x + 20 + p, "high minimum", p))
        Join(p) ==
          Alu(Only(x + 16 + p, "high scale", p) \cup Only(x + 4 + p, "low scale", p),
              Fresh(x + 4 + p, "scale", 4 + p))
          \o Alu(Only(x + 20 + p, "high minimum", p) \cup Only(x + 12 + p, "low minimum", p),
                 Fresh(x + 12 + p, "minimum", 4 + p))
        Pairs == {<<x + g, "scale", g>> : g \in 0 .. 7} \cup {<<x + 8 + g, "minimum", g>> : g \in 0 .. 7}
    IN Each(0, 3, Lower) \o Each(0, 3, Upper) \o Each(0, 3, Join)
       \o Alu(Pairs, {<<x + 24 + g, "pair", g, 0>> : g \in 0 .. 7})
       \o Alu({<<x + 24 + g, "pair", g>> : g \in 0 .. 7} \cup BlockWords(r, {0}),
              {<<x + 24 + g, "products", g, 0>> : g \in 0 .. 7})
WriteProduct(r, x, g) ==
    LdsWriteAll("DM", Only(x, "products", g), Only(r["lds_address"], "metadata row", 0),
                <<"metadata", 0>>, {<<4 * g, g>>}, 4)
ExtractEach(r) ==
    LET x == r["decode_scratch"]
        Words(g, lower) == BlockWords(r, IF g < 4 THEN {lower} ELSE {3, lower})
        Joined(g) == IF g < 4 THEN {} ELSE Scratch({x + 2})
    IN Each(0, 7, LAMBDA g :
         Alu(Words(g, 1), Fresh(x, "scale", g) \cup Joined(g))
         \o Alu(Words(g, 2), Fresh(x + 1, "minimum", g) \cup Joined(g))
         \o Alu(Only(x, "scale", g) \cup Only(x + 1, "minimum", g), Fresh(x + 5, "pair", g))
         \o Alu(Only(x + 5, "pair", g) \cup BlockWords(r, {0}), Fresh(x + 5, "products", g))
         \o WriteProduct(r, x + 5, g))
DecodeMetadata(s, r) ==
    Unless("not_decoding",
        Alu(Only(r["serial"], "serial", 0), Fresh(r["lds_address"], "metadata row", 0))
        \o (IF s.independent
            THEN ExtractAll(r) \o Each(0, 7, LAMBDA g : WriteProduct(r, r["decode_scratch"] + 24 + g, g))
            ELSE ExtractEach(r)))

DecodeWeights(s, r) ==
    DecodeAddresses(s, r) \o LoadMetadata(s, r) \o LoadSlices(s, r)
    \o Each(0, WeightSlices - 1, LAMBDA slice : DecodeSlice(s, r, slice))
    \o DecodeMetadata(s, r)

-----------------------------------------------------------------------------
(* A plane of activations is copied as it is, 512 bytes an item over all    *)
(* lanes; the rows of a fragment lie in the items they overlap.             *)
PlaneItems == 36
RowBytes == 144
ItemCells(items) == {<<"activations", 0>>} \X items
FragmentItems(t) == (16 * RowBytes * t) \div 512 .. (16 * RowBytes * (t + 1) - 1) \div 512
FragmentCells(t) == ItemCells(FragmentItems(t))

StageActivations(r) ==
    LET plane == Only(r["plane_address"], "plane", 0)
        Loads(chunk) ==
          Alu(plane, Fresh(r["temporary"], "plane", chunk))
          \o Each(8 * chunk, IF chunk < 4 THEN 8 * chunk + 7 ELSE PlaneItems - 1, LAMBDA item :
               Load(Only(r["temporary"], "plane", chunk), r["staged"] + item, 1, "item", item))
        Write(pair) ==
          WaitLoads(PlaneItems - 2 - 2 * pair)
          \o LdsWriteAll("plane", {<<r["staged"] + 2 * pair + j, "item", 2 * pair + j>> : j \in 0 .. 1},
                         Only(r["lds_address"], "item row", 0), <<"activations", 0>>,
                         {<<4 * (2 * pair + j), 0>> : j \in 0 .. 1}, 4)
    IN Each(0, 4, Loads)
       \o Alu(Only(r["serial"], "serial", 0), Fresh(r["lds_address"], "item row", 0))
       \o Each(0, PlaneItems \div 2 - 1, Write)
       \o WaitLds(0) \o Barrier
       \o StepStage({r["plane_address"]}, 4)

-----------------------------------------------------------------------------
(* The low activations of a fragment wait in the registers of the next one's *)
(* products.                                                                 *)
C(r, t) == r["c"] + 8 * t
LowActivation(s, r, t) == IF t < s.m - 1 THEN C(r, t + 1) ELSE r["low_tail"]
HighActivation(r, t) == r["high"] + 4 * t

(* g: the group of the block; its plane holds four.                         *)
ReadOperands(s, r, g) ==
    LET weights == UNION {Dwords(<<"weights", x>>, 32 * g, 16) : x \in 0 .. WeightSlices - 1}
        others == UNION {Dwords(<<"weights", x>>, 32 * g + 16, 16) : x \in 0 .. WeightSlices - 1}
        Activation(t) ==
          <<PieceOf("plane", g % 4, LowActivation(s, r, t), 4, "A", <<t, 0>>, FragmentCells(t)),
            PieceOf("plane", g % 4, HighActivation(r, t), 4, "A", <<t, 1>>, FragmentCells(t))>>
    IN Alu(Only(r["output_column"], "weight column", 0), Fresh(r["lds_address"], "weights at", 0))
       \o LdsReadShared(Only(r["lds_address"], "weights at", 0),
                        <<PieceOf("W", 0, r["weights"], 4, "W", 0, weights),
                          PieceOf("W", 0, r["weights"] + 4, 4, "W", 1, others)>>)
       \o Alu(Only(r["activation_base"], "activations", 0), Fresh(r["lds_address"], "activations at", 0))
       \o LdsReadShared(Only(r["lds_address"], "activations at", 0), Each(0, s.m - 1, Activation))

ReadMetadata(s, r, g) ==
    LET at == r["metadata_addresses"]
        Scales(j) == PieceOf("plane", g % 4, r["scale_sum"] + 2 * j, 2, "AS", j,
                             FragmentCells(2 * j) \cup FragmentCells(2 * j + 1))
        Pair(j) == PieceOf("DM", 0, r["scaled_dm"] + 2 * j, 2, "DM", j, Dwords(<<"metadata", 0>>, 4 * g, 4))
    IN Alu(Only(r["activation_base"], "activations", 0), Fresh(at, "scales at", 0))
       \o LdsReadShared(Only(at, "scales at", 0), [j \in 1 .. s.m \div 2 |-> Scales(j - 1)])
       \o Alu(Only(r["metadata_lds"], "metadata base", 0), {<<at + j, "rows at", j, 0>> : j \in 0 .. 3})
       \o Each(0, 3, LAMBDA j : LdsReadDecoded(Only(at + j, "rows at", j), <<Pair(j)>>))

LowProduct(s, r, t) ==
    WaitLds(LowWait(s, t))
    \o Alu(Span(r["weights"], 4, "W", 0) \cup Span(LowActivation(s, r, t), 4, "A", <<t, 0>>)
             \cup Span(r["zero"], 8, "zero", 0),
           Filled(C(r, t), 8, "dot", <<t, 0>>))
HighProduct(s, r, t) ==
    (IF t = s.m - 1 THEN WaitLds(HighWait(s)) ELSE <<>>)
    \o Alu(Span(r["weights"] + 4, 4, "W", 1) \cup Span(HighActivation(r, t), 4, "A", <<t, 1>>)
             \cup Span(C(r, t), 8, "dot", <<t, 0>>),
           Filled(C(r, t), 8, "dot", <<t, 1>>))

(* Four fragments at a time: the products of their scales take the place of *)
(* the activations.                                                         *)
ProductPairs(r) == {<<r["scaled_dm"] + e, "DM", e \div 2>> : e \in 0 .. 7}
AddFragments(s, r, first) ==
    LET last == IF first + 3 < s.m - 1 THEN first + 3 ELSE s.m - 1
        Factors(t) == r["low_tail"] + 8 * (t - first)
        Scale(t) == Only(r["scale_sum"] + t, "AS", t \div 2)
        Added(t) ==
          Take(<<t, 0>>,
               Span(C(r, t), 8, "converted", t) \cup Span(Factors(t), 8, "factors", t)
                 \cup ProductPairs(r) \cup Scale(t),
               Totals(r, t))
    IN Each(first, last, LAMBDA t : Alu(ProductPairs(r) \cup Scale(t), Filled(Factors(t), 8, "factors", t)))
       \o Each(first, last, LAMBDA t :
            Alu(Span(C(r, t), 8, "dot", <<t, 1>>), Filled(C(r, t), 8, "converted", t)))
       \o Accumulate({Added(t) : t \in first .. last})

MultiplyDecoded(s, r, g) ==
    ReadOperands(s, r, g)
    \o (IF s.deferred THEN <<>> ELSE ReadMetadata(s, r, g))
    \o Each(0, s.m - 1, LAMBDA t : LowProduct(s, r, t))
    \o (IF s.deferred THEN ReadMetadata(s, r, g) ELSE <<>>)
    \o Each(0, s.m - 1, LAMBDA t : HighProduct(s, r, t))
    \o WaitLds(0)
    \o AddFragments(s, r, 0) \o (IF s.m > 4 THEN AddFragments(s, r, 4) ELSE <<>>)

-----------------------------------------------------------------------------
OutputAddress(r) ==
    Alu(Only(r["lane"], "lane", 0), Scratch({r["temporary"], r["auxiliary"]})
                                    \cup Fresh(r["output_address"], "output", 0))
    \o Alu(Only(r["serial"], "serial", 0) \cup Only(r["wave_column"], "wave column", 0)
             \cup Only(r["output_address"], "output", 0),
           Scratch({r["temporary"]}) \cup Fresh(r["output_address"], "output", 0))
(* Values count from zero over the fragments of the wave.                   *)
SumOf(r, v) == <<r["sums"] + v, "sum", <<v \div 8, 0>>>>
RoundBatch(r, first, n) ==
    LET scratch == r["decode_scratch"] IN
    IF n = 1
    THEN Alu({SumOf(r, first)}, Fresh(r["sums"] + first, "rounded", first) \cup Scratch({r["temporary"]}))
    ELSE Alu({SumOf(r, first + j) : j \in 0 .. n - 1},
             {<<scratch + j, "bit", first + j, 0>> : j \in 0 .. n - 1})
         \o Alu({SumOf(r, first + j) : j \in 0 .. n - 1}
                  \cup {<<scratch + j, "bit", first + j>> : j \in 0 .. n - 1},
                {<<r["sums"] + first + j, "rounded", first + j, 0>> : j \in 0 .. n - 1})
RoundValues(s, r, first, n) ==
    LET batch == IF s.nan THEN s.batch ELSE 1 IN
    Each(0, (n + batch - 1) \div batch - 1, LAMBDA j :
        RoundBatch(r, first + batch * j, IF batch * (j + 1) <= n THEN batch ELSE n - batch * j))
StoreFragment(r, t) ==
    (IF t = 0 THEN <<>>
     ELSE Alu(Only(r["output_address"], "output", t - 1), Fresh(r["output_address"], "output", t)))
    \o StoreOutput(Only(r["output_address"], "output", t)
                   \cup {<<r["sums"] + v, "rounded", v>> : v \in 8 * t .. 8 * t + 7})
DecodedEpilogue(s, r) ==
    IF s.tiles = 8 /\ s.batch = 1
    THEN RoundValues(s, r, 0, 8 * s.m) \o OutputAddress(r)
         \o Each(0, s.m - 1, LAMBDA t : StoreFragment(r, t))
    ELSE OutputAddress(r)
         \o Each(0, (s.m + s.tiles - 1) \div s.tiles - 1, LAMBDA j :
              LET first == s.tiles * j
                  count == IF first + s.tiles <= s.m THEN s.tiles ELSE s.m - first
              IN RoundValues(s, r, 8 * first, 8 * count)
                 \o Each(first, first + count - 1, LAMBDA t : StoreFragment(r, t)))

DecodedSetup(s, r) ==
    LET serial == Only(r["serial"], "serial", 0)
        wave == Only(r["wave"], "wave", 0)
        lane == Only(r["lane"], "lane", 0)
    IN Alu({}, Fresh(r["serial"], "serial", 0))
       \o Alu(serial, Fresh(r["lane"], "lane", 0) \cup Fresh(r["wave"], "wave", 0))
       \o Alu(wave, Fresh(r["wave_column"], "wave column", 0) \cup Scratch({r["temporary"]}))
       \o Alu(wave \cup lane, Fresh(r["output_column"], "weight column", 0))
       \o AluAt(0, serial, Fresh(r["plane_address"], "plane", 0) \cup Scratch({r["temporary"]}))
       \o Alu({}, Filled(r["zero"], 8, "zero", 0))
       \o Alu(Span(r["zero"], 2, "zero", 0), UNION {Sums(r, <<t, 0>>, t) : t \in 0 .. s.m - 1})
       \o Alu(wave, {})
       \o Alu(lane, Fresh(r["activation_base"], "activations", 0))
MetadataBase(r) ==
    Alu(Only(r["serial"], "serial", 0), Scratch({r["temporary"]}))
    \o Alu(Only(r["temporary"], "scratch", 0), Fresh(r["metadata_lds"], "metadata base", 0))
DecodedBody(s, r) ==
    LET Plane(p) ==
          StageActivations(r) \o Each(4 * p, 4 * p + 3, LAMBDA g : MultiplyDecoded(s, r, g)) \o Barrier
    IN BeginTile \o DecodedSetup(s, r)
       \o RepeatWhile("more",
            DecodeWeights(s, r) \o MetadataBase(r) \o Plane(0) \o Plane(1) \o CountStages(8))
       \o DecodedEpilogue(s, r)

(* Half of the waves decode the metadata.                                   *)
DecodedForward(s) ==
    LET registers == DecodedRegisters(s.m) IN
    DecodedProgram(s, registers, DecodedBody(s, AllocateRoles(DecodedRoles(s.m), registers)), 8,
                   FragmentsOf(s.m, 1), {w \in Waves : w < Cardinality(Waves) \div 2})
=============================================================================
