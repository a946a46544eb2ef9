------------------------------- MODULE ForwardQ6 -------------------------------
(***************************************************************************)
(* The structured forward bodies of packed six-bit weights.  A block is     *)
(* sixteen groups of products: the workgroup loads it and the activations   *)
(* of its first eight groups together, decodes it in place, stages both in  *)
(* LDS, and multiplies; for the other eight groups only the activations are *)
(* staged again, and every register is one lower.  The registers are fixed: *)
(* packed values, addresses, fragments, products and sums take turns.  The  *)
(* loops over the eight groups of a phase are unrolled here.                *)
(***************************************************************************)
EXTENDS ForwardPlan

(* rows: blocks of 64 activation rows of a wave's output; shared: two       *)
(* groups of waves on one block of weights, which the first decodes;        *)
(* wavefront: a decoding step is done of all atoms before the next; wide:   *)
(* addresses of a batch are added low halves first, carries in scalars;     *)
(* width, whole: values rounded ahead, over the whole tile or a store's.    *)
Q6Spec(rows) ==
    [quant |-> "Q6_K", staging |-> "Structured", m |-> 4 * rows, n |-> 1, rows |-> rows,
     shared |-> FALSE, wavefront |-> TRUE, wide |-> FALSE, width |-> 2, whole |-> rows = 2]
GroupsOfPhase == 8
GroupsOfQ6Block == 16

-----------------------------------------------------------------------------
(* An atom is a row of weights for each wave, low bits and high bits; the   *)
(* low values it decodes to replace the low bits, the high ones take the    *)
(* register of the high bits before it.                                     *)
Atoms == 0 .. 15
PackedPayloads(s) ==
    IF s.rows = 1
    THEN <<<<10, 122>>, <<8, 79>>, <<7, 9>>, <<6, 80>>, <<84, 88>>, <<83, 86>>, <<82, 85>>, <<81, 87>>,
           <<109, 113>>, <<108, 111>>, <<107, 110>>, <<106, 112>>, <<121, 120>>, <<116, 119>>,
           <<118, 117>>, <<114, 115>>>>
    ELSE <<<<112, 172>>, <<9, 10>>, <<7, 8>>, <<6, 111>>, <<119, 120>>, <<116, 117>>, <<114, 115>>,
           <<113, 118>>, <<162, 163>>, <<159, 160>>, <<157, 158>>, <<156, 161>>, <<170, 171>>,
           <<168, 169>>, <<166, 167>>, <<164, 165>>>>
Packed(s, plane, atom) == PackedPayloads(s)[atom + 1][IF plane = "low" THEN 1 ELSE 2]
DecodedValue(s, half, atom) ==
    IF half = "low" THEN Packed(s, "low", atom)
    ELSE IF atom = 0 THEN (IF s.rows = 1 THEN 123 ELSE 173)
    ELSE Packed(s, "high", atom - 1)

(* Where a slot of the staged activations is loaded, in a block and again.  *)
ActivationPayloads(s) ==
    IF s.rows = 1
    THEN <<5>> \o [j \in 1 .. 7 |-> 88 + j] \o [j \in 1 .. 8 |-> 96 + j] \o <<96, 105>>
    ELSE <<5>> \o [j \in 1 .. 7 |-> 120 + j] \o <<153>> \o [j \in 1 .. 7 |-> 127 + j] \o <<146>>
         \o [j \in 1 .. 7 |-> 134 + j] \o <<145, 142, 143, 147, 148, 149, 150, 151, 144, 152, 154, 155>>
RefillPayloads(s) ==
    IF s.rows = 1
    THEN <<8, 9, 10, 79, 80, 81, 82, 83, 84, 7, 85, 86, 87, 88, 89, 4, 6, 2>>
    ELSE <<10, 113, 114, 115, 116, 117, 118, 119, 134, 120, 121, 122, 123, 124, 125, 126, 6, 127, 128,
           129, 130, 131, 132, 8, 7, 9, 133, 112, 135, 136, 137, 4, 111, 5, 138, 2>>
ActivationSlots(s) == 18 * s.rows

Q6Accumulators(s) ==
    IF s.rows = 1
    THEN <<32, 46, 44, 43, 40, 39, 38, 37, 36, 35, 33, 31>> \o [j \in 1 .. 20 |-> 31 - j]
    ELSE <<110, 105, 97, 91, 84, 76, 72, 71, 67, 66, 65, 64, 63, 62, 60, 59>>
         \o [j \in 1 .. 48 |-> 59 - j]
AccumulatorsOf(s, t) == {Q6Accumulators(s)[8 * t + e] : e \in 1 .. 8}

(* The rest, of the first phase; rows at: the LDS rows of this lane. *)
Q6Registers(s) ==
    LET base == 48 + 32 * s.rows
        rowsAt == 25 + 27 * s.rows
    IN [row_pointer |-> base - 1, weights |-> base, activations |-> base + 1,
        product |-> base + 2, fragment |-> base + 18, factor |-> base + 18 + 32 * s.rows,
        scale |-> base + 18 + 36 * s.rows, weight_fragment |-> base + 2 + 8 * (s.m + 1),
        cooperative |-> rowsAt, scale_rows |-> rowsAt - 1, activation_rows |-> rowsAt - 2,
        weight_rows |-> rowsAt - s.rows - 2, factor_write |-> 28 + 27 * s.rows,
        scale_write |-> 29 + 28 * s.rows, stage_read |-> 44 + 31 * s.rows,
        output_index |-> 7 + 27 * s.rows,
        lane_shift |-> IF s.rows = 1 THEN 42 ELSE 69,
        d_half |-> IF s.rows = 1 THEN 124 ELSE 174, d |-> IF s.rows = 1 THEN 142 ELSE 205]
Q6Vgprs(s) == 106 + 52 * s.rows
DecodedWriteAddress(s, atom) ==
    31 + 28 * s.rows + atom
    + (IF s.rows = 2 THEN (IF atom >= 9 THEN 2 ELSE IF atom >= 4 THEN 1 ELSE 0) ELSE 0)

(* What the addresses of a block are made from, of this lane.               *)
LaneParts(s) ==
    IF s.rows = 1
    THEN [row |-> 41, second |-> 48, d |-> 45, first |-> 47, low |-> 53, high |-> 54, scales |-> 56]
    ELSE [row |-> 68, second |-> 74, d |-> 70, first |-> 73, low |-> 80, high |-> 81, scales |-> 83]

LaneSetup(s, r) ==
    LET parts == LaneParts(s) IN
    Alu({}, Fresh(0, "output row", 0) \cup Fresh(1, "lane", 0)
            \cup UNION {Fresh(parts[p], p, 0) : p \in DOMAIN parts}
            \cup UNION {Fresh(r[p], p, 0) : p \in {"cooperative", "scale_rows", "activation_rows",
                          "weight_rows", "factor_write", "output_index", "lane_shift"}}
            \cup UNION {Fresh(r["scale_write"] + h, "scale_write", h) : h \in 0 .. 1}
            \cup UNION {Fresh(r["stage_read"] + p, "stage_read", p) : p \in 0 .. 3}
            \cup UNION {Fresh(DecodedWriteAddress(s, a), "decoded row", a) : a \in Atoms}
            \cup UNION {{<<x, "sum", <<t, 0>>, 0>> : x \in AccumulatorsOf(s, t)} : t \in 0 .. s.m - 1})

-----------------------------------------------------------------------------
(* Addresses take two registers, added one after the other.                 *)
AddressPair(at, role, ix) == Span(at, 2, role, ix)
AddressSum(to, role, ix, from, other) ==
    [to |-> to, role |-> role, ix |-> ix, low |-> Only(from[1], from[2], from[3]) \cup other,
     high |-> Only(from[1] + 1, from[2], from[3])]
AddLow(a) == Alu(a.low, Fresh(a.to, a.role, a.ix))
AddHigh(a) == Alu(a.high, Fresh(a.to + 1, a.role, a.ix))
AddBoth(a) == AddLow(a) \o AddHigh(a)
AddAll(s, adds) ==
    IF s.wide
    THEN Each(1, Len(adds), LAMBDA j : AddLow(adds[j])) \o Each(1, Len(adds), LAMBDA j : AddHigh(adds[j]))
    ELSE Each(1, Len(adds), LAMBDA j : AddBoth(adds[j]))

(* The packed values, four atoms at a time.                                 *)
PlaneAt(s) ==
    IF s.rows = 1
    THEN [low |-> <<4, 6, 81, 85, 81, 89, 93, 97, 89, 93, 97, 101, 89, 93, 97, 4>>,
          high |-> <<2, 79, 83, 87, 85, 91, 95, 99, 91, 95, 99, 103, 91, 95, 99, 101>>]
    ELSE [low |-> <<2, 6, 115, 119, 113, 117, 123, 127, 121, 125, 129, 133, 121, 125, 129, 133>>,
          high |-> <<4, 113, 117, 121, 115, 121, 125, 129, 123, 127, 131, 135, 123, 127, 131, 4>>]
AtomSum(s, x) ==
    AddressSum(PlaneAt(s)[x[2]][x[1] + 1], x[2], x[1], <<PlaneAt(s)[x[2]][1], x[2], 0>>, {})
AtomLoad(s, x) ==
    Load(AddressPair(PlaneAt(s)[x[2]][x[1] + 1], x[2], x[1]), Packed(s, x[2], x[1]), 1, "packed", x)
LoadAtoms(s, atoms) == Each(1, Len(atoms), LAMBDA j : AtomLoad(s, atoms[j]))
AtomSums(s, atoms) == [j \in DOMAIN atoms |-> AtomSum(s, atoms[j])]
BothPlanes(first, last) == Each(first, last, LAMBDA a : <<<<a, "low">>, <<a, "high">>>>)

RowBase(to, part, register) == AluAt(0, Only(register, part, 0), Filled(to, 2, part, 0))
NearAtoms(s) ==
    LET lane == LaneParts(s)
        rows == PlaneAt(s).high[1]
        Base(plane) == AddressSum(PlaneAt(s)[plane][1], plane, 0, <<rows, "row", 0>>, Only(lane[plane], plane, 0))
        at == IF s.rows = 1 THEN [second |-> 114, d |-> 123] ELSE [second |-> 137, d |-> 139]
    IN RowBase(rows, "row", lane["row"]) \o RowBase(at.second, "second", lane["second"])
       \o RowBase(at.d, "d", lane["d"])
       \o AddAll(s, <<Base("low"), Base("high")>> \o AtomSums(s, BothPlanes(1, 3)))
       \o LoadAtoms(s, BothPlanes(0, 3))
       \o AddAll(s, AtomSums(s, BothPlanes(4, 7)))
FarAtoms(s) ==
    LET lane == LaneParts(s)
        scales == Only(lane["scales"], "scales", 0)
        at == [first |-> IF s.rows = 1 THEN 103 ELSE 135]
        (* what is at v2 makes way for the activations' address before *)
        (* what is at v4 is added to in place                          *)
        lowFirst == PlaneAt(s).low[1] = 2
        early == <<15, IF lowFirst THEN "low" ELSE "high">>
        late == <<15, IF lowFirst THEN "high" ELSE "low">>
    IN LoadAtoms(s, BothPlanes(4, 7))
       \o AddAll(s, AtomSums(s, BothPlanes(8, 11))) \o LoadAtoms(s, BothPlanes(8, 11))
       \o AddAll(s, AtomSums(s, Append(BothPlanes(12, 14), early)))
       \o AluAt(0, Only(1, "lane", 0), Filled(2, 2, "activation", 0))
       \o (IF s.shared THEN AddBoth(AddressSum(2, "activation", 0, <<2, "activation", 0>>, {})) ELSE <<>>)
       \o RowBase(at.first, "first", lane["first"])
       \o AddBoth(AtomSum(s, late))
       \o Alu(Only(2, "activation", 0), Fresh(3, "activation", 0))
       \o AddBoth(AddressSum(at.first, "first scales", 0, <<at.first, "first", 0>>, scales))
LastAtoms(s) ==
    IF s.rows = 2 THEN BothPlanes(12, 15)
    ELSE <<<<12, "high">>, <<13, "low">>, <<13, "high">>, <<14, "high">>,
           <<15, "high">>, <<15, "low">>, <<14, "low">>, <<12, "low">>>>
(* With the last atoms, the factors of their rows. *)
LastReads(s) ==
    LET scales == Only(LaneParts(s)["scales"], "scales", 0)
        at == IF s.rows = 1 THEN [second |-> 114, d |-> 123, first |-> 103, stage |-> 116, read |-> 125, a |-> 127]
              ELSE [second |-> 137, d |-> 139, first |-> 135, stage |-> 141, read |-> 137, a |-> 141]
    IN Alu(AddressPair(2, "activation", 0), Filled(at.stage, 2, "offset", 0))
       \o AddBoth(AddressSum(at.read, "second scales", 0, <<at.second, "second", 0>>, scales))
       \o AddBoth(AddressSum(at.a, "page", 0, <<at.stage, "offset", 0>>, {}))
       \o LoadAtoms(s, LastAtoms(s))
       \o Load(AddressPair(at.d, "d", 0), Q6Registers(s)["d_half"], 1, "half", 0)
       \o Load(AddressPair(at.first, "first scales", 0), 3, 1, "scales", 0)
       \o Load(AddressPair(at.read, "second scales", 0), 4, 1, "scales", 1)

(* Activations, from addresses whole pages apart: the slots read from the   *)
(* page at a register.                                                      *)
PageSum(to, page, from) == AddressSum(to, "page", page, <<from, "page", 0>>, {})
Slots(first, last) == [j \in 1 .. last - first + 1 |-> first + j - 1]
From(at, page, slots) == [at |-> at, page |-> page, slots |-> slots]
LoadSlots(payloads, reads) ==
    Each(1, Len(reads), LAMBDA j :
        LET read == reads[j] IN
        Each(1, Len(read.slots), LAMBDA i :
            Load(AddressPair(read.at, "page", read.page), payloads[read.slots[i] + 1], 1, "A", read.slots[i])))
LoadQ6Activations(s) ==
    IF s.rows = 1
    THEN LoadSlots(ActivationPayloads(s), <<From(127, 0, Slots(0, 7))>>)
         \o AddAll(s, <<PageSum(98, 2, 127), PageSum(104, 1, 127), PageSum(125, 2, 127)>>)
         \o LoadSlots(ActivationPayloads(s),
              <<From(98, 2, <<8, 16>>), From(104, 1, Slots(9, 15)), From(125, 2, <<17>>)>>)
    ELSE LoadSlots(ActivationPayloads(s), <<From(141, 0, Slots(0, 7))>>)
         \o AddAll(s, <<PageSum(134, 1, 141), PageSum(144, 2, 141), PageSum(146, 2, 141), PageSum(151, 3, 141),
                        PageSum(148, 4, 141), PageSum(175, 4, 141)>>)
         \o LoadSlots(ActivationPayloads(s),
              <<From(134, 1, Slots(9, 15)), From(146, 2, Slots(17, 23)), From(151, 3, <<25, 26>>),
                From(144, 2, <<8, 16>>), From(148, 4, <<24, 32>>), From(151, 3, Slots(27, 31)),
                From(175, 4, Slots(33, 35))>>)

-----------------------------------------------------------------------------
ShiftedBits(s, r, a) ==
    LET high == Packed(s, "high", a) IN
    Alu(Only(high, "packed", <<a, "high">>) \cup Only(r["lane_shift"], "lane_shift", 0),
        Fresh(high, "shifted", a))
SplitNibbles(s, a) ==
    LET low == Packed(s, "low", a)
        value == DecodedValue(s, "high", a)
    IN Alu(Only(low, "packed", <<a, "low">>), Fresh(value, "high nibble", a))
       \o Alu(Only(low, "packed", <<a, "low">>), Fresh(low, "low nibble", a))
MergedBits(s, a) ==
    LET low == DecodedValue(s, "low", a)
        value == DecodedValue(s, "high", a)
        high == Packed(s, "high", a)
    IN Alu(Only(high, "shifted", a) \cup Only(value, "high nibble", a), Fresh(value, "six bits", a))
       \o Alu(Only(high, "shifted", a), Fresh(high, "shifted back", a))
       \o Alu(Only(high, "shifted back", a) \cup Only(low, "low nibble", a), Fresh(low, "six bits", a))
SignedValue(s, half, a) ==
    LET value == DecodedValue(s, half, a) IN Alu(Only(value, "six bits", a), Fresh(value, half, a))

(* The high bits are shifted before they meet the nibbles.                  *)
DecodeAtoms(s, r) ==
    Alu(Only(r["d_half"], "half", 0), Fresh(r["d"], "d", 0))
    \o (IF s.wavefront
        THEN Each(0, 15, LAMBDA a : ShiftedBits(s, r, a))
             \o Each(0, 15, LAMBDA a : SplitNibbles(s, a) \o MergedBits(s, a))
             \o Each(0, 15, LAMBDA a : SignedValue(s, "low", a))
             \o Each(0, 15, LAMBDA a : SignedValue(s, "high", a))
        ELSE Each(0, 15, LAMBDA a : SplitNibbles(s, a) \o ShiftedBits(s, r, a) \o MergedBits(s, a)
                                    \o SignedValue(s, "low", a) \o SignedValue(s, "high", a)))
DecodePacked(s, r) ==
    LET code == DecodeAtoms(s, r) IN
    WaitLoads(0) \o (IF s.shared THEN Unless("not_decoding", code) ELSE code)

(* An atom's values fill its row: the low ones hold the groups from 0 and   *)
(* from 8 on, the high ones those from 4 and from 12 on.                    *)
WriteAtoms(s, r) ==
    LET Atom(a) ==
          LdsWrite("W", Only(DecodedValue(s, "low", a), "low", a) \cup Only(DecodedValue(s, "high", a), "high", a),
                   Only(DecodedWriteAddress(s, a), "decoded row", a), "weights", 8 * a, 8)
    IN Each(0, 15, Atom)
       \o LdsWrite("d", Only(r["d"], "d", 0), Only(r["factor_write"], "factor_write", 0), "factors", 0, 4)
       \o Each(0, 1, LAMBDA h :
            LdsWrite("WS", Only(3 + h, "scales", h), Only(r["scale_write"] + h, "scale_write", h),
                     "scales", 4 * h, 4))
(* Fault: the waves that do not decode branch behind a barrier. *)
WriteDecodedPastBarrier(s, r) ==
    LET code == WriteAtoms(s, r) IN
    IF s.shared THEN Unless("not_decoding", code \o WaitLds(0) \o Barrier) ELSE code
WriteDecoded(s, r) ==
    LET code == WriteAtoms(s, r) IN IF s.shared THEN Unless("not_decoding", code) ELSE code
WriteSlots(r, payloads, p) ==
    LdsWrite("A", Only(payloads[2 * p + 1], "A", 2 * p) \cup Only(payloads[2 * p + 2], "A", 2 * p + 1),
             Only(r["cooperative"], "cooperative", 0), "activations", 8 * p, 8)
LastPair(s) == ActivationSlots(s) \div 2 - 1

(* The pointers of the phase, then, behind the barrier, the weight factors  *)
(* of this lane's rows, which it keeps in registers for the phase.          *)
CommitStage(s, r, pointers, factors) ==
    Copy({<<pointers[1], r["scale_rows"]>>, <<pointers[2], r["weight_rows"]>>,
          <<pointers[3], r["activation_rows"]>>})
    \o WaitLds(0) \o Barrier
    \o Each(0, 3, LAMBDA p :
         LdsReadDecoded(Only(r["stage_read"] + p, "stage_read", p),
           <<PieceOf("d", 0, factors + 2 * p, 2, "d", p, {<<"factors", 0>>})>>))
FirstStage(s, r) ==
    (IF s.rows = 1 THEN WaitLoads(0) ELSE <<>>)
    \o WriteSlots(r, ActivationPayloads(s), LastPair(s))
    \o CommitStage(s, r, <<r["row_pointer"], r["weights"], r["activations"]>>, 3)

(* The loads of the second stage, and of its writes those that wait.        *)
RefillFirst(s) ==
    <<From(2, 0, Slots(0, 7))>>
RefillReads(s) ==
    IF s.rows = 1 THEN <<<<From(6, 2, <<8, 16>>), From(4, 1, Slots(9, 15)), From(2, 2, <<17>>)>>>>
    ELSE <<<<From(4, 1, Slots(9, 15)), From(8, 2, <<17>>)>>,
           <<From(8, 2, Slots(18, 23)), From(4, 3, <<25, 26>>)>>,
           <<From(6, 2, <<8, 16>>), From(111, 4, <<24, 32>>), From(4, 3, Slots(27, 31)),
             From(2, 4, Slots(33, 35))>>>>
RefillLoads(s) ==
    LET reads == RefillReads(s)
        base == PageSum(2, IF s.rows = 1 THEN 2 ELSE 4, 2)
        Loads(reading) == LoadSlots(RefillPayloads(s), reading)
    IN Loads(RefillFirst(s))
       \o (IF s.rows = 1
           THEN AddAll(s, <<PageSum(4, 1, 2), PageSum(6, 2, 2), base>>) \o Loads(reads[1])
           ELSE AddAll(s, <<PageSum(4, 1, 2), PageSum(6, 2, 2), PageSum(8, 2, 2)>>) \o Loads(reads[1])
                \o AddAll(s, <<PageSum(4, 3, 2), PageSum(111, 4, 2)>>)
                \o AddLow(base) \o Loads(reads[2]) \o AddHigh(base) \o Loads(reads[3]))
RefillOrder(s) ==
    LET reads == RefillFirst(s) \o Each(1, Len(RefillReads(s)), LAMBDA j : RefillReads(s)[j])
    IN Each(1, Len(reads), LAMBDA j : reads[j].slots)
CommitInOrder(s, r, order) ==
    LET Behind(slot) == Len(order) - (CHOOSE j \in DOMAIN order : order[j] = slot)
        Allowed(p) == IF Behind(2 * p) < Behind(2 * p + 1) THEN Behind(2 * p) ELSE Behind(2 * p + 1)
        WaitFor(p) ==
          IF \A q \in 0 .. p - 1 : Allowed(q) > Allowed(p) THEN WaitLoads(Allowed(p)) ELSE <<>>
    IN Each(0, LastPair(s), LAMBDA p : WaitFor(p) \o WriteSlots(r, RefillPayloads(s), p))
CommitRefill(s, r) == CommitInOrder(s, r, RefillOrder(s))
SecondStage(s, r) ==
    StepStage({2}, GroupsOfPhase) \o Barrier
    \o Alu(Only(2, "activation", 0), Fresh(3, "activation", 0))
    \o Alu(AddressPair(2, "activation", 0), Filled(2, 2, "offset", 0))
    \o AddBoth(AddressSum(2, "page", 0, <<2, "offset", 0>>, {}))
    \o RefillLoads(s)
    \o CommitRefill(s, r)
    \o CommitStage(s, r, <<10, r["row_pointer"], r["weights"]>>, 2)

-----------------------------------------------------------------------------
(* The products of a group of all fragments: the integer products of each,  *)
(* scaled by the weights' scales of the group and, as they are added to the *)
(* sums, by the factors of weights and activations.                         *)
SlotsOfTile(t) == {<<"activations", x>> : x \in (576 * t) \div 128 .. (576 * t + 575) \div 128}
FragmentOfTile(t) == <<t, 0>>

(* A group, the last output tile and the registers of its phase. *)
Q6Group(s, r, phase, i) ==
    LET At(role) == r[role] - phase IN
    [index |-> i, group |-> GroupsOfPhase * phase + i, last |-> s.m - 1, reads |-> 7 + 2 * s.rows,
     rows |-> IF phase = 0 THEN r["row_pointer"] ELSE 10, factor_rows |-> r["activation_rows"],
     weights |-> At("weights"), activations |-> At("activations"), product |-> At("product"),
     dot |-> At("product") + 8, fragment |-> At("fragment"), weight_fragment |-> At("weight_fragment"),
     scale |-> At("scale"), factor |-> At("factor"), d |-> 3 - phase]
Q6Fragment(k, t) == k.fragment + 8 * t + (IF t = k.last THEN 4 ELSE 0)
DotsOf(k, t) == Span(k.dot + 8 * t, 8, "dot", FragmentOfTile(t))
ProductsOf(k, t, role) == Span(k.product + 8 * t, 8, role, FragmentOfTile(t))
ScaledProducts(k, t, role) == Filled(k.product + 8 * t, 8, role, FragmentOfTile(t))

ReadFragments(k) ==
    LET Activations(t) == PieceOf("A", k.index, Q6Fragment(k, t), 4, "A", t, SlotsOfTile(t))
        Weights == PieceOf("W", k.group, k.weight_fragment, 4, "W", 0,
                           {<<"weights", 2 * a + k.index \div 4>> : a \in Atoms})
        lane == Only(k.activations, "activation_rows", k.index)
    IN Alu(Only(k.weights, "weight_rows", k.index), Fresh(k.dot, "fragment at", 0))
       \o Alu(lane, UNION {Fresh(k.dot + t, "fragment at", t) : t \in 1 .. k.last})
       \o LdsReadShared(lane, <<Activations(0)>>)
       \o LdsReadDecoded(Only(k.dot, "fragment at", 0), <<Weights>>)
       \o LdsReadShared(UNION {Only(k.dot + t, "fragment at", t) : t \in 1 .. k.last},
                        [t \in 1 .. k.last |-> Activations(t)])
ReadFactors(k) ==
    LET Scale(e) == PieceOf("WS", k.group, k.scale + e, 1, "WS", e, {<<"scales", 0>>, <<"scales", 1>>})
        Factors(p) == PieceOf("A", k.index, k.factor + 2 * p, 2, "AS", p,
                              SlotsOfTile(2 * p) \cup SlotsOfTile(2 * p + 1))
    IN LdsReadDecoded(Only(k.rows, "scale_rows", k.index), [e \in 1 .. 8 |-> Scale(e - 1)])
       \o Alu({}, Filled(k.product, 8, "zero", 0))
       \o Alu(Only(k.factor_rows, "activation_rows", 0), Fresh(k.dot, "factors at", 0))
       \o LdsReadShared(Only(k.dot, "factors at", 0),
                        [p \in 1 .. (k.last + 1) \div 2 |-> Factors(p - 1)])
(* Each product waits for no more than its own fragment or scale. *)
DotAndScale(k) ==
    LET ScaleAt(e) == Only(k.scale + e, "WS", e)
        Dot(t) ==
          Alu(Span(k.weight_fragment, 4, "W", 0) \cup Span(Q6Fragment(k, t), 4, "A", t)
                \cup Span(k.product, 8, "zero", 0),
              Filled(k.dot + 8 * t, 8, "dot", FragmentOfTile(t)))
        ScaleFirst(e) ==
          Alu(Only(k.dot + e, "dot", FragmentOfTile(0)) \cup ScaleAt(e),
              Fresh(k.product + e, "product", FragmentOfTile(0)))
    IN Each(0, k.last, LAMBDA t : WaitLds(k.reads + k.last + 1 - t) \o Dot(t))
       \o Each(0, 7, LAMBDA e : WaitLds(k.reads - e) \o ScaleFirst(e))
       \o Each(1, k.last, LAMBDA t :
            Alu(DotsOf(k, t) \cup UNION {ScaleAt(e) : e \in 0 .. 7}, ScaledProducts(k, t, "product")))
(* The addresses of the next group are advanced among these. *)
ScaleProducts(k) ==
    LET Advanced(at, role) == Fresh(at, role, k.index + 1) IN
    AluShared(k.group, UNION {Only(k.d + e, "d", e \div 2) : e \in 0 .. 7},
              UNION {ProductsOf(k, t, "product") : t \in 0 .. k.last},
              UNION {ScaledProducts(k, t, "scaled") : t \in 0 .. k.last})
    \o Alu(Only(k.activations, "activation_rows", k.index) \cup Only(k.weights, "weight_rows", k.index)
             \cup Only(k.rows, "scale_rows", k.index),
           Advanced(k.activations, "activation_rows") \cup Advanced(k.weights, "weight_rows")
             \cup Advanced(k.rows, "scale_rows"))
AddProducts(s, k) ==
    LET Added(t) ==
          Take(FragmentOfTile(t), ProductsOf(k, t, "scaled") \cup Only(k.factor + t, "AS", t \div 2),
               AccumulatorsOf(s, t))
        lastPair == k.last \div 2
    IN Each(0, lastPair, LAMBDA p : WaitLds(lastPair - p) \o Accumulate({Added(2 * p), Added(2 * p + 1)}))
MultiplyQ6Group(s, k) ==
    ReadFragments(k) \o ReadFactors(k) \o DotAndScale(k) \o ScaleProducts(k) \o AddProducts(s, k)
MultiplyPhase(s, r, phase) ==
    Each(0, GroupsOfPhase - 1, LAMBDA i : MultiplyQ6Group(s, Q6Group(s, r, phase, i)))

-----------------------------------------------------------------------------
(* Sums are rounded a few ahead of each other and stored eight at a time.   *)
Q6Epilogue(s, r) ==
    LET all == 8 * s.m
        scratch == 1 + (IF s.rows = 1 THEN 46 ELSE 110)
        Source(x) == Q6Accumulators(s)[x + 1]
        SumOf(x) == Only(Source(x), "sum", FragmentOfTile(x \div 8))
        slot(x) == scratch + (x % s.width)
        Bits(x) == Alu(SumOf(x), Fresh(slot(x), "bits", x))
        Quiet(x) == Alu(SumOf(x), Fresh(slot(x) + s.width, "quiet", x))
        Biased(x) == Alu(SumOf(x) \cup Only(slot(x), "bits", x), Fresh(Source(x), "biased", x))
        Selected(x) ==
          Alu(Only(Source(x), "biased", x) \cup Only(slot(x) + s.width, "quiet", x), Fresh(Source(x), "rounded", x))
        End(x) == IF s.whole THEN all ELSE 8 * (x \div 8) + 8   \* of what x is rounded with
        Round(x) ==
          LET ahead == x + s.width IN
          Biased(x) \o (IF ahead < End(x) THEN Bits(ahead) ELSE <<>>)
          \o Selected(x) \o (IF ahead < End(x) THEN Quiet(ahead) ELSE <<>>)
        Begin(x) == Each(x, x + s.width - 1, LAMBDA y : Bits(y) \o Quiet(y))
        Address(j) == Alu(Only(0, "output", j), Filled(1, 2, "output at", j))
        NextRow(j) == Alu(Only(0, "output", j), Fresh(0, "output", j + 1))
        Batch(j) ==
          (IF s.whole THEN (IF j = 0 THEN Begin(0) \o Address(0) ELSE <<>>) ELSE Address(j) \o Begin(8 * j))
          \o Each(8 * j, 8 * j + 7, Round)
          \o StoreOutput(AddressPair(1, "output at", j)
                         \cup UNION {Only(Source(x), "rounded", x) : x \in 8 * j .. 8 * j + 7})
          \o (IF j = s.m - 1 THEN <<>> ELSE NextRow(j) \o (IF s.whole THEN Address(j + 1) ELSE <<>>))
    IN Alu(Only(0, "output row", 0) \cup Only(r["output_index"], "output_index", 0), Fresh(0, "output", 0))
       \o Each(0, s.m - 1, Batch)

Q6Body(s, r) ==
    BeginTile \o LaneSetup(s, r)
    \o RepeatWhile("more",
         NearAtoms(s) \o FarAtoms(s) \o LastReads(s) \o LoadQ6Activations(s)
         \o DecodePacked(s, r)
         \o WriteDecoded(s, r) \o Each(0, LastPair(s) - 1, LAMBDA p : WriteSlots(r, ActivationPayloads(s), p))
         \o FirstStage(s, r) \o MultiplyPhase(s, r, 0)
         \o SecondStage(s, r) \o MultiplyPhase(s, r, 1)
         \o CountStages(GroupsOfQ6Block) \o Barrier)
    \o Q6Epilogue(s, r)

Q6Program(s) ==
    DecodedProgram(s, Q6Vgprs(s), Q6Body(s, Q6Registers(s)), GroupsOfQ6Block, FragmentsOf(s.m, 1),
                   IF s.shared THEN {0} ELSE Waves)
=============================================================================
