----------------------------- MODULE ForwardPlan -----------------------------
(***************************************************************************)
(* The register plans and LDS layouts of the forward assembly bodies.      *)
(* Roles share registers when their lifetimes, in phases of the body, do   *)
(* not overlap; what the body does with them is checked on the machine.    *)
(* The helpers the bodies share follow.                                    *)
(***************************************************************************)
EXTENDS WaveCode, FiniteSets

(* A role lives from one phase to another and starts at a register not     *)
(* below its minimum.                                                      *)
RoleAligned(name, width, from, to, minimum, alignment) ==
    [name |-> name, width |-> width, from |-> from, to |-> to,
     minimum |-> minimum, alignment |-> alignment]
Role(name, width, from, to, minimum) == RoleAligned(name, width, from, to, minimum, 1)

Coexist(a, b) == ~(a.to < b.from \/ b.to < a.from)
Disjoint(start, width, start2, width2) == start + width <= start2 \/ start2 + width2 <= start
(* First fit in the order of the roles: the first register of each.        *)
AllocateRoles(roles, registers) ==
    LET Free(starts, j, x) ==
          \A i \in 1 .. j - 1 :
             Coexist(roles[i], roles[j])
               => Disjoint(x, roles[j].width, starts[i], roles[i].width)
        Fits(starts, j, x) ==
          /\ x >= roles[j].minimum /\ x % roles[j].alignment = 0
          /\ Free(starts, j, x)
        First(starts, j) ==
          CHOOSE x \in roles[j].minimum .. registers - roles[j].width :
             /\ Fits(starts, j, x)
             /\ \A y \in roles[j].minimum .. x - 1 : ~Fits(starts, j, y)
        upto[j \in 0 .. Len(roles)] ==
          IF j = 0 THEN <<>>
          ELSE LET before == upto[j - 1] IN Append(before, First(before, j))
        starts == upto[Len(roles)]
    IN [name \in {roles[j].name : j \in DOMAIN roles} |->
          starts[CHOOSE j \in DOMAIN roles : roles[j].name = name]]

-----------------------------------------------------------------------------
(* Signed int8 weights: phase 0 builds addresses and clears the sums, 1    *)
(* stages, 2 to 3 multiply, 4 advances, 5 stores.                          *)
Int8DirectRoles ==
    <<Role("c", 8, 2, 3, 0), Role("sums", 8, 0, 5, 8), Role("weights", 8, 2, 3, 16),
      Role("activations", 8, 2, 3, 24), Role("weight_scales", 8, 2, 4, 32),
      Role("activation_scales", 1, 2, 4, 40), Role("results", 8, 0, 4, 64),
      Role("weight_address", 1, 0, 4, 72), Role("activation_address", 1, 0, 4, 73),
      Role("output_address", 1, 5, 5, 75), Role("temporary", 1, 0, 5, 84),
      Role("output_column", 1, 0, 0, 85), Role("store_auxiliary", 1, 5, 5, 85),
      Role("serial", 1, 0, 5, 86), Role("activation_row", 1, 0, 0, 87)>>
Int8DirectRegisters == 88

Int8RegisterTiledRoles(m, n) ==
    LET payload == 64 + 8 * n
        scales == payload + 8 * m
        results == scales + 8 * n + m
        addresses == results + 8 * n
    IN <<Role("c", 32, 2, 3, 0), Role("sums", 32, 0, 5, 32), Role("weights", 8 * n, 2, 3, 64),
         Role("activations", 8 * m, 2, 3, payload), Role("weight_scales", 8 * n, 2, 4, scales),
         Role("activation_scales", m, 2, 4, scales + 8 * n),
         Role("results", 8 * n, 0, 4, results), Role("weight_address", n, 0, 4, addresses),
         Role("activation_address", m, 0, 4, addresses + n), Role("temporary", 1, 0, 5, 0),
         Role("output_address", 32, 5, 5, 0), Role("lane", 1, 0, 5, 0),
         Role("wave", 1, 0, 5, 0), Role("output_column", 1, 0, 0, 0),
         Role("store_column", 1, 5, 5, 0), Role("activation_row", 1, 0, 0, 0),
         Role("store_row", 1, 5, 5, 0)>>
Int8RegisterTiledRegisters(m, n) == 67 + 25 * n + 10 * m

Int8WaveNRoles ==
    <<Role("c", 64, 2, 3, 0), Role("sums", 64, 0, 5, 64), Role("weights", 8, 1, 3, 128),
      Role("activations", 64, 1, 3, 136), Role("weight_scales", 8, 1, 4, 200),
      Role("activation_scales", 8, 1, 3, 208), Role("scale_copies", 2, 2, 3, 225),
      Role("zero", 8, 2, 4, 227), Role("staged_weights", 8, 1, 1, 0),
      Role("scale_read", 1, 2, 4, 224), Role("weight_address", 1, 0, 4, 216),
      Role("activation_address", 1, 0, 4, 217), Role("activation_lds", 1, 0, 4, 218),
      Role("weight_lds", 1, 0, 4, 219), Role("stage_address", 1, 1, 1, 8),
      Role("scale_stage", 1, 1, 1, 9), Role("temporary", 1, 0, 5, 220),
      Role("lane", 1, 0, 5, 221), Role("wave", 1, 0, 5, 222),
      Role("activation_row", 1, 0, 0, 223), Role("activation_read", 1, 1, 4, 223),
      Role("weight_row", 1, 0, 0, 10), Role("output_address", 64, 5, 5, 0),
      Role("store_auxiliary", 1, 5, 5, 216)>>
Int8WaveNRegisters == 240

Int8SmallMRoles(m) ==
    LET activations == 16 * m + 8
        scales == activations + 8 * m
        copies == scales + 8 + m + 1
        zero == ((copies + 9) \div 8) * 8
        address == zero + 8
    IN <<Role("c", 8 * m, 2, 3, 0), Role("sums", 8 * m, 0, 5, 8 * m),
         Role("weights", 8, 1, 3, 16 * m), Role("activations", 8 * m, 1, 3, activations),
         Role("weight_scales", 8, 1, 4, scales), Role("activation_scales", m, 1, 3, scales + 8),
         Role("scale_copies", 2, 2, 3, copies), RoleAligned("zero", 8, 2, 4, zero, 8),
         Role("staged_weights", 8, 1, 1, 0), Role("scale_read", 1, 2, 4, address),
         Role("weight_address", 1, 0, 4, address), Role("activation_address", 1, 0, 4, address),
         Role("activation_scale_stage", 1, 0, 4, address), Role("activation_lds", 1, 0, 4, address),
         Role("activation_scale_lds", 1, 0, 4, address), Role("weight_lds", 1, 0, 4, address),
         Role("stage_address", 1, 1, 1, 8), Role("scale_stage", 1, 1, 1, 9),
         Role("temporary", 1, 0, 5, address), Role("lane", 1, 0, 5, address),
         Role("wave", 1, 0, 5, address), Role("activation_row", 1, 0, 0, address),
         Role("activation_group", 1, 0, 0, 8), Role("activation_read", 1, 1, 4, address),
         Role("weight_row", 1, 0, 0, 10), Role("output_address", 8 * m, 5, 5, 0),
         Role("store_auxiliary", 1, 5, 5, address)>>
Int8SmallMRegisters(m) == IF m = 2 THEN 96 ELSE 144

-----------------------------------------------------------------------------
(* Packed weights with a scale and a minimum, straight from global memory:  *)
(* the same phases.                                                         *)
PackedDirectRoles ==
    <<Role("c", 8, 2, 3, 0), Role("sums", 8, 0, 5, 8), Role("weights", 8, 2, 3, 16),
      Role("activations", 8, 2, 3, 24), Role("metadata", 32, 1, 4, 32),
      Role("results", 8, 0, 4, 64), Role("weight_address", 1, 0, 4, 72),
      Role("activation_addresses", 2, 0, 4, 73), Role("output_address", 1, 5, 5, 75),
      Role("scale", 1, 2, 4, 76), Role("minimum", 1, 2, 4, 77), Role("scaled_dm", 1, 4, 4, 78),
      Role("activation_scale_sum", 1, 2, 4, 79), Role("weight_d", 1, 4, 4, 80),
      Role("weight_minimum", 1, 4, 4, 81), Role("activation_d", 1, 4, 4, 82),
      Role("activation_sum", 1, 4, 4, 83), Role("temporary", 1, 0, 5, 84),
      Role("output_column", 1, 0, 0, 85), Role("store_auxiliary", 1, 5, 5, 85),
      Role("serial", 1, 0, 5, 86), Role("activation_row", 1, 0, 0, 87)>>
PackedDirectRegisters == 88

-----------------------------------------------------------------------------
(* Packed weights decoded into LDS: phase 1 decodes and stages, 2 to 3      *)
(* multiply.  m: the fragments of activation rows of a wave.                *)
DecodedBases(m) ==
    CASE m = 8 -> [decode |-> 72, staged |-> 112, staged_width |-> 64, low |-> 176, high |-> 180,
                   scales |-> 212, dm |-> 220, address |-> 228]
      [] m = 4 -> [decode |-> 40, staged |-> 72, staged_width |-> 52, low |-> 104, high |-> 108,
                   scales |-> 136, dm |-> 140, address |-> 148]
      [] m = 2 -> [decode |-> 24, staged |-> 56, staged_width |-> 52, low |-> 72, high |-> 76,
                   scales |-> 88, dm |-> 90, address |-> 124]
DecodedRoles(m) ==
    LET b == DecodedBases(m) IN
    <<Role("zero", 8, 0, 3, 0), Role("sums", 8 * m, 0, 5, 8),
      Role("decode_scratch", 32, 1, 1, b.decode), Role("weights", 8, 2, 3, b.decode),
      Role("metadata_addresses", 4, 2, 3, b.decode + 8),
      Role("staged", b.staged_width, 1, 1, b.staged), Role("c", 8 * m, 2, 3, b.staged),
      Role("low_tail", 4, 2, 3, b.low), Role("high", 4 * m, 2, 3, b.high),
      Role("scale_sum", m, 2, 3, b.scales), Role("scaled_dm", 8, 2, 3, b.dm),
      Role("temporary", 1, 0, 5, b.address), Role("lds_address", 1, 0, 4, b.address + 1),
      Role("auxiliary", 2, 0, 5, b.address + 2), Role("metadata_lds", 1, 0, 4, b.address + 4),
      Role("output_address", 1, 5, 5, b.address + 4), Role("plane_address", 1, 0, 4, b.address + 5),
      Role("output_column", 1, 0, 4, b.address + 6), Role("wave_column", 1, 0, 5, b.address + 7),
      Role("wave", 1, 0, 0, b.address + 8), Role("activation_base", 1, 1, 4, b.address + 8),
      Role("lane", 1, 0, 5, b.address + 9), Role("serial", 1, 0, 5, b.address + 10)>>
DecodedRegisters(m) == DecodedBases(m).address + 11
-----------------------------------------------------------------------------
(* Packed three-bit weights.  The half tile stages half of a weight block:  *)
(* phase 1 loads, 2 decodes, 3 multiplies.                                   *)
Q3HalfRoles ==
    <<Role("sums", 64, 0, 5, 0), Role("activation_stage", 36, 1, 1, 0),
      Role("activation_payload", 32, 3, 3, 0), Role("decoded", 4, 2, 2, 0), Role("c", 8, 3, 3, 0),
      Role("metadata", 4, 1, 2, 0), Role("output_address", 1, 5, 5, 0), Role("stage_d", 1, 2, 2, 0),
      Role("wave", 1, 0, 5, 0), Role("activation_read", 1, 0, 3, 0), Role("half_shift", 1, 1, 2, 0),
      Role("activation_lds", 1, 0, 5, 0), Role("lane", 1, 0, 5, 0),
      Role("weight_payload", 4, 3, 3, 0), Role("low_raw", 4, 1, 2, 0),
      Role("weight_scales", 8, 3, 3, 0), Role("temporary", 2, 0, 5, 0),
      Role("weight_lds", 1, 0, 5, 0), Role("auxiliary", 1, 2, 2, 0),
      Role("weight_scale_address", 1, 3, 3, 0), Role("zero", 8, 0, 3, 0),
      Role("stage_scale", 1, 2, 2, 0), Role("stage_address", 1, 1, 2, 0),
      Role("weight_address", 1, 0, 5, 0), Role("activation_scale", 8, 3, 3, 0),
      Role("activation_address", 1, 0, 5, 0), Role("high_raw", 4, 1, 2, 0)>>
Q3HalfRegisters == 144
(* The full tile has its registers by hand.                                 *)
Q3FullPlan ==
    [sums |-> 0, activation_stage |-> 64, low_raw |-> 105, high_raw |-> 110, low1_raw |-> 114,
     metadata |-> 100, decoded |-> 126, payload_high |-> 118, auxiliary |-> 131, stage_d |-> 130,
     stage_scale |-> 132, scales |-> 133, scale_auxiliary |-> 137, stage_address |-> 109,
     half_shift |-> 104, c |-> 96, zero |-> 183, weight_payload |-> 164,
     activation_payload |-> 64, weight_scales |-> 168, activation_scale |-> 192,
     weight_scale_address |-> 179, output_address |-> 64, weight_address |-> 191,
     activation_lds |-> 162, activation_read |-> 161, weight_lds |-> 178, temporary |-> 176,
     lane |-> 163, wave |-> 160]
Q3FullRegisters == 200

-----------------------------------------------------------------------------
(* What the forward bodies have in common.  r maps the roles of a plan to  *)
(* their first registers.                                                  *)
Only(r, role, ix) == {<<r, role, ix>>}
Fresh(r, role, ix) == {<<r, role, ix, 0>>}
Scratch(registers) == {<<r, "scratch", 0, 0>> : r \in registers}
Sums(r, fragment, j) == Filled(r["sums"] + 8 * j, 8, "sum", fragment)
FragmentsOf(m, n) == (0 .. m - 1) \X (0 .. n - 1)
ClearSums(r, m, n) ==
    Alu({}, UNION {Sums(r, t, n * t[1] + t[2]) : t \in FragmentsOf(m, n)})
Totals(r, j) == {r["sums"] + 8 * j + e : e \in 0 .. 7}

(* What the machine needs to know of a body: every output fragment takes    *)
(* the groups of the contraction in their order.  Two iterations of the     *)
(* loop: what the last leaves behind and what the next one finds.           *)
ForwardStages == 2
RowCellsOf(code) ==
    UNION {IF code[j].op = "lds_write" THEN DOMAIN code[j].ahead ELSE {} : j \in DOMAIN code}
DecodedProgram(s, registers, body, groups, tiles, decoders) ==
    [spec |-> s, code |-> body, registers |-> registers, decoders |-> decoders, rows |-> 0,
     span |-> 1, codebook |-> 0, row_cells |-> RowCellsOf(body), stages |-> ForwardStages * groups,
     order |-> [i \in 1 .. ForwardStages * groups |-> <<i - 1, 0>>],
     tiles |-> tiles, suppress |-> FALSE,
     routes |-> {[full |-> 1, short |-> FALSE, active |-> [w \in Waves |-> <<s.m>>]]}]
ForwardProgram(s, registers, body, groups, tiles) ==
    DecodedProgram(s, registers, body, groups, tiles, {})
=============================================================================
