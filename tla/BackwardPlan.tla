---------------------------- MODULE BackwardPlan ----------------------------
(***************************************************************************)
(* The physical plan of a backward assembly body: the register and LDS     *)
(* layout derived from a kernel specification.  A specification is a       *)
(* record of the fields below; in the generator these come from a catalog. *)
(***************************************************************************)
EXTENDS Integers, Sequences, FiniteSets, SequencesExt

Formats == {"Q2_K", "Q3_K", "Q4_K", "Q5_K", "Q6_K", "Q8_0", "IQ2_S", "IQ2_XXS"}

(* waves: work_group[1]; m, n: tiles of a wave; grp, lrp: global and local  *)
(* read prefetch; share: lanes that share a packed load; dependency: decode *)
(* width; double: LdsBuffering.Double.                                      *)
KernelSpec(quant, waves, m, n, depth) ==
    [quant |-> quant, waves |-> waves, m |-> m, n |-> n, depth |-> depth,
     pad |-> 8, swizzle |-> 0, grp |-> 2, lrp |-> 1, double |-> FALSE,
     prefetch_activation |-> TRUE, interleave |-> FALSE, next_packed |-> FALSE,
     share |-> 1, dependency |-> 1, extraction |-> "none", pairing |-> "none",
     hoisted |-> FALSE, vector |-> FALSE, grid_in_lds |-> TRUE, bounded |-> FALSE,
     suppress |-> FALSE]

-----------------------------------------------------------------------------
(* What the format contracts fix.                                          *)
LanePairFormats == {"Q4_K", "Q5_K", "Q6_K"}
PaddedDepths(q) == IF q \in {"Q3_K", "Q6_K", "Q8_0"} THEN {32, 64} ELSE {32}
PipelineWidths(q) ==
    CASE q = "Q6_K" -> {32, 64, 128}
      [] q \in {"Q2_K", "Q4_K"} -> {64, 128}
      [] OTHER -> {128}
PipelineDepths(q) == IF q \in {"Q5_K", "Q6_K"} THEN {32, 64} ELSE {32}
NextPackedDepths(q) == IF q = "Q6_K" THEN {32, 64} ELSE {32}
PayloadRegisters(q) == IF q \in {"Q3_K", "Q5_K", "Q6_K"} THEN 8 ELSE 4

PackedLoadsPerRow(s) ==
    CASE s.quant = "Q8_0" /\ s.extraction = "Scalar" -> 5
      [] s.quant = "Q5_K" /\ s.vector -> 3
      [] s.quant \in {"Q8_0", "IQ2_XXS"} -> 2
      [] s.quant = "Q2_K" -> 3
      [] s.quant = "Q6_K" -> 4
      [] s.quant \in {"Q3_K", "Q4_K", "IQ2_S"} -> 5
      [] s.quant = "Q5_K" -> 6

(* Registers for the block scale and for the packed scales of a row; the   *)
(* scales may share the registers of the block scale.                      *)
QuantShape(s) ==
    CASE s.quant = "Q5_K" /\ s.vector -> [dm |-> 4, scale |-> 0, alias |-> 1]
      [] s.quant = "Q8_0" -> [dm |-> 1, scale |-> 0, alias |-> 0]
      [] s.quant \in {"Q2_K", "Q3_K", "IQ2_XXS"} -> [dm |-> 1, scale |-> 2, alias |-> -1]
      [] s.quant \in {"Q4_K", "Q5_K"} -> [dm |-> 1, scale |-> 3, alias |-> -1]
      [] s.quant = "Q6_K" -> [dm |-> 1, scale |-> 1, alias |-> -1]
      [] s.quant = "IQ2_S" -> [dm |-> 1, scale |-> 4, alias |-> -1]

-----------------------------------------------------------------------------
Threads(s) == 32 * s.waves
Smaller(a, b) == IF a < b THEN a ELSE b
Larger(a, b) == IF a > b THEN a ELSE b
DecoderThreads(s) == Smaller(Threads(s), 128)
(* Packed rows a decoding lane owns, sixteen values each.                  *)
Rows(s) == (s.depth * 16 * s.n) \div (DecoderThreads(s) * 16)
KSpan(s) == s.depth \div Rows(s)
PackedLoadCount(s) == PackedLoadsPerRow(s) * Rows(s)

(* The assertions a specification has to pass before a plan is derived.    *)
ValidGeometry(s) ==
    /\ s.m > 0 /\ s.waves > 0
    /\ s.n \in {2, 4, 8, 16}
    /\ s.depth > 0 /\ s.depth % 32 = 0
ValidMemory(s) ==
    /\ s.pad >= 0 /\ s.pad % 8 = 0
    /\ s.swizzle \in {0, 4, 8, 16}
    /\ s.pad = 0 \/ s.swizzle = 0
ValidPipeline(s) ==
    /\ s.grp \in 1 .. 2 /\ s.lrp \in 1 .. 2
    /\ s.grp = 2 => s.prefetch_activation
    /\ s.lrp = 2 => s.interleave
    /\ s.share = 2 => s.quant \in LanePairFormats
    /\ s.double =>
         /\ s.prefetch_activation /\ s.grp = 2 /\ s.lrp = 1
         /\ 16 * s.n \in PipelineWidths(s.quant)
         /\ s.depth \in PipelineDepths(s.quant)
    /\ s.next_packed => s.depth \in NextPackedDepths(s.quant)
ValidDecode(s) ==
    /\ s.dependency \in (IF s.quant \in {"Q2_K", "Q4_K"} THEN {1, 4} ELSE {1})
    /\ CASE s.quant \in {"Q3_K", "Q5_K"} -> s.extraction \in {"Packed", "Scalar"}
         [] s.quant \in {"Q6_K", "Q8_0"} -> s.extraction # "none"
         [] OTHER -> s.extraction = "none"
    /\ s.pairing # "none" <=> s.quant = "Q3_K" /\ s.extraction = "Packed"
    /\ s.pairing = "Full" => Rows(s) <= 2
ValidSpec(s) == ValidGeometry(s) /\ ValidMemory(s) /\ ValidPipeline(s) /\ ValidDecode(s)

-----------------------------------------------------------------------------
ExtendedA(s) == s.prefetch_activation /\ s.m > 2
ExtraQuantRegisters(s) == IF s.quant \in {"Q3_K", "Q6_K"} THEN 2 ELSE 0
(* LDS and quant state sit behind the row pointers of A and of the rows.   *)
AddressStateOffset(s) == Larger(IF ExtendedA(s) THEN 4 + s.m ELSE 6, Rows(s))
AddressRegisters(s) ==
    Larger(IF ExtendedA(s) THEN 6 + s.m + ExtraQuantRegisters(s) ELSE 8,
           AddressStateOffset(s)
             + (IF ExtendedA(s) /\ ExtraQuantRegisters(s) > 0 THEN 3 ELSE 2))

(* Fault: the pairing temporaries of Q3_K are not counted. *)
TemporariesWithoutPairing(s) == Larger(7, 3 + 2 * Rows(s))
Temporaries(s) ==
    Larger(Larger(7, 3 + 2 * Rows(s)),
           CASE s.quant = "Q3_K" /\ s.extraction = "Packed" -> 11
             [] s.quant = "Q6_K" /\ s.extraction = "PackedVopd" -> 7 + 2 * Rows(s)
             [] s.quant = "Q8_0" /\ s.extraction = "PackedVopd" -> 5 + 2 * Rows(s)
             [] OTHER -> 0)

(* First fit: every range takes the lowest free aligned registers.         *)
Request(name, count, alignment) == [name |-> name, count |-> count, alignment |-> alignment]
FirstFit(requests, first, last) ==
    LET Free(placed, start, count) ==
          \A j \in DOMAIN placed :
             start + count <= placed[j].start \/ placed[j].start + placed[j].count <= start
        Start(placed, r) ==
          CHOOSE x \in first .. last - r.count + 1 :
             /\ x % r.alignment = 0 /\ Free(placed, x, r.count)
             /\ \A y \in first .. x - 1 : y % r.alignment = 0 => ~Free(placed, y, r.count)
        upto[j \in 0 .. Len(requests)] ==
          IF j = 0 THEN <<>>
          ELSE LET placed == upto[j - 1]
                   r == requests[j]
               IN Append(placed, [name |-> r.name, start |-> Start(placed, r), count |-> r.count])
    IN upto[Len(requests)]

VectorRequests(s) ==
    LET shape == QuantShape(s) IN
    <<Request("accum", 8 * s.m * s.n, 8), Request("valu_a", 8 * s.m * s.grp, 4),
      Request("valu_b", 16 * s.lrp, 4),
      Request("global_read_b", PayloadRegisters(s.quant) * Rows(s), 4),
      Request("quant_dm", shape.dm * Rows(s), 1)>>
    \o (IF shape.alias >= 0 THEN <<>>
        ELSE <<Request("quant_scale", shape.scale * Rows(s), 1)>>)
    \o (IF s.swizzle = 0 THEN <<>> ELSE <<Request("lds_address", 32 \div s.swizzle, 1)>>)
    \o <<Request("address", AddressRegisters(s), 2), Request("temporary", Temporaries(s), 1),
         Request("serial", 1, 1)>>
    \o (IF s.double /\ s.swizzle = 0 THEN <<Request("pipeline_read_lds", 1, 1)>> ELSE <<>>)

Placed(s, placed) ==
    LET At(name) == IF \E j \in DOMAIN placed : placed[j].name = name
                    THEN placed[CHOOSE j \in DOMAIN placed : placed[j].name = name].start
                    ELSE -1
        dm == At("quant_dm")
        state == At("address") + AddressStateOffset(s)
        value == IF s.dependency > 1 THEN At("valu_b") ELSE At("temporary") + 1 + 2 * Rows(s)
    IN [accum |-> At("accum"), valu_a |-> At("valu_a"), valu_b |-> At("valu_b"),
        q |-> At("global_read_b"), dm |-> dm,
        scale |-> IF QuantShape(s).alias >= 0 THEN dm + QuantShape(s).alias
                  ELSE At("quant_scale"),
        lds_address |-> At("lds_address"), a |-> At("address"), t |-> At("temporary"),
        serial |-> At("serial"), pipeline_read_lds |-> At("pipeline_read_lds"),
        lds |-> state, quant_shift |-> state + 1,
        low_bitfield_shift |-> IF ExtendedA(s) THEN state + 2 ELSE At("address") + 2,
        values |-> value,
        total |-> 1 + CHOOSE x \in {placed[j].start + placed[j].count - 1 : j \in DOMAIN placed} :
                        \A j \in DOMAIN placed : placed[j].start + placed[j].count - 1 <= x]
Plan(s) == Placed(s, FirstFit(VectorRequests(s), 0, 255))

(* Bytes of one LDS row of the weight tile, and of all buffers of it.      *)
RowStrideBytes(s) == 2 * (s.depth + s.pad)
LdsBytes(s) == RowStrideBytes(s) * 16 * s.n * (IF s.double THEN 2 ELSE 1)
=============================================================================
