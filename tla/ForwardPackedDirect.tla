------------------------- MODULE ForwardPackedDirect -------------------------
(***************************************************************************)
(* The forward body of packed weights with a scale and a minimum whose     *)
(* operands all come straight from global memory.  An iteration takes the  *)
(* eight groups of a weight block; the block's scales and minima stay in   *)
(* registers, one row of them for each of the eight sums of a lane.        *)
(***************************************************************************)
EXTENDS ForwardPlan

DirectSums == {<<0, 0, e>> : e \in 0 .. 7}
MetadataOf(r, e) == Span(r["metadata"] + 4 * e, 4, "metadata", e)

(* Which words of a row's metadata hold the fields of a group.              *)
ScaleWords(g) == IF g < 4 THEN {1} ELSE {3, 1}
MinimumWords(g) == IF g < 4 THEN {2} ELSE {3, 2}
Words(r, e, words) == {<<r["metadata"] + 4 * e + w, "metadata", e>> : w \in words}

(* The second part of a field passes through the temporary.                 *)
ScaleMinimum(r, g, e) ==
    AluAhead(g, Words(r, e, ScaleWords(g)), Fresh(r["scale"], "scale", e)
               \cup (IF g < 4 THEN {} ELSE Scratch({r["temporary"]})))
    \o AluAhead(g, Words(r, e, MinimumWords(g)), Fresh(r["minimum"], "minimum", e)
                  \cup (IF g < 4 THEN {} ELSE Scratch({r["temporary"]})))

AccumulateElement(r, g, e) ==
    LET scaled == Only(r["scaled_dm"], "scaled", e) IN
    ScaleMinimum(r, g, e)
       \o Alu(Only(r["scale"], "scale", e), Fresh(r["weight_d"], "scale", e))
       \o Alu(Only(r["minimum"], "minimum", e), Fresh(r["weight_minimum"], "minimum", e))
       \o Alu(Only(r["weight_d"], "scale", e) \cup Only(r["weight_minimum"], "minimum", e),
              Fresh(r["scaled_dm"], "factors", e))
       \o AluShared(g, Words(r, e, {0}), Only(r["scaled_dm"], "factors", e),
                    Fresh(r["scaled_dm"], "scaled", e))
       \o Alu(scaled, Fresh(r["weight_d"], "WS", e))
       \o Alu(scaled, Fresh(r["weight_minimum"], "WM", e))
       \o Alu(Only(r["c"] + e, "dot", 0), Fresh(r["temporary"], "converted", e))
       \o Alu(Only(r["temporary"], "converted", e) \cup Only(r["weight_d"], "WS", e),
              Fresh(r["temporary"], "scaled product", e))
       \o Accumulate({Take(<<0, 0, e>>,
                           Only(r["temporary"], "scaled product", e)
                           \cup Only(r["weight_minimum"], "WM", e)
                           \cup Only(r["activation_d"], "AS", 0)
                           \cup Only(r["activation_sum"], "AM", 0),
                           {r["sums"] + e})})

(* Two groups share the bytes of a payload: the low and the high nibbles.   *)
PackedDirectGroup(r, g) ==
    LET weights == Only(r["weight_address"], "weights at", 0)
        plane == g \div 4
        activations == Only(r["activation_addresses"] + plane, "plane", plane)
        Packed(h) == LoadAhead(2 * (g \div 2), weights, r["weights"] + 4 * h, 4, "packed", 0)
        Activation(h) ==
          LoadAhead(g % 4, activations, r["activations"] + 4 * h, 4, "A", 0)
    IN Packed(0) \o Packed(1) \o Activation(0) \o Activation(1)
       \o LoadAhead(g % 4, activations, r["activation_scale_sum"], 1, "ASM", 0)
       \o WaitLoads(0)
       \o AluAhead(g % 2, Span(r["weights"], 8, "packed", 0), Filled(r["weights"], 8, "W", 0))
       \o Alu({}, Filled(r["c"], 8, "zero", 0))
       \o Alu(Span(r["weights"], 8, "W", 0) \cup Span(r["activations"], 8, "A", 0)
                \cup Span(r["c"], 8, "zero", 0),
              Filled(r["c"], 8, "dot", 0))
       \o Alu(Only(r["activation_scale_sum"], "ASM", 0), Fresh(r["activation_d"], "AS", 0))
       \o Alu(Only(r["activation_scale_sum"], "ASM", 0), Fresh(r["activation_sum"], "AM", 0))
       \o Each(0, 7, LAMBDA e : AccumulateElement(r, g, e))

PackedDirectBody(r) ==
    LET serial == Only(r["serial"], "serial", 0)
        column == Only(r["output_column"], "column", 0)
        row == Only(r["activation_row"], "row", 0)
        temporary == Scratch({r["temporary"]})
        results == {r["results"] + e : e \in 0 .. 7}
        planes == {r["activation_addresses"], r["activation_addresses"] + 1}
        Round(e) ==
          Alu(Only(r["sums"] + e, "sum", <<0, 0, e>>),
              Fresh(r["sums"] + e, "rounded", e) \cup temporary)
          \o StoreOutput(Only(r["sums"] + e, "rounded", e) \cup Only(r["output_address"], "output", 0))
    IN BeginTile
       \o Alu({}, Fresh(r["serial"], "serial", 0))
       \o Alu(serial, temporary \cup Fresh(r["output_column"], "column", 0)
                      \cup Fresh(r["activation_row"], "row", 0))
       \o Alu(serial, temporary \cup Scratch({r["scale"]}))
       \o AluAt(0, Only(r["temporary"], "scratch", 0),
                {<<r["results"] + e, "row at", e, 0>> : e \in 0 .. 7})
       \o AluAt(0, column, Fresh(r["weight_address"], "weights at", 0))
       \o AluAt(0, row, Fresh(r["activation_addresses"], "plane", 0))
       \o AluAhead(4, Only(r["activation_addresses"], "plane", 0),
                   Fresh(r["activation_addresses"] + 1, "plane", 1))
       \o Alu({}, {<<r["sums"] + e, "sum", <<0, 0, e>>, 0>> : e \in 0 .. 7})
       \o RepeatWhile("more",
            Each(0, 7, LAMBDA e :
              Load(Only(r["results"] + e, "row at", e), r["metadata"] + 4 * e, 4, "metadata", e))
            \o Each(0, 7, LAMBDA g : PackedDirectGroup(r, g))
            \o StepStage(results \cup {r["weight_address"]} \cup planes, 8) \o CountStages(8))
       \o Alu(serial, temporary \cup Scratch({r["temporary"] + 1})
                      \cup Fresh(r["output_address"], "output", 0))
       \o Each(0, 7, Round)

PackedDirectSpec == [quant |-> "Q4_K", staging |-> "PackedDirect", m |-> 1, n |-> 1]
PackedDirectProgram ==
    ForwardProgram(PackedDirectSpec,
                   PackedDirectRegisters,
                   PackedDirectBody(AllocateRoles(PackedDirectRoles, PackedDirectRegisters)),
                   8, DirectSums)
=============================================================================
