--------------------------- MODULE BackwardDecode ---------------------------
(***************************************************************************)
(* What the backward bodies emit to read a packed weight tile and to decode *)
(* it into the LDS, format by format: which registers the sequences need,  *)
(* which they leave, and which they use up on the way.  s is the kernel    *)
(* specification and r its plan.                                           *)
(***************************************************************************)
EXTENDS BackwardPlan, WaveCode

LastRow(s) == Rows(s) - 1
(* The union of a set of operands over all packed rows. *)
AllRows(s, Of(_)) == UNION {Of(row) : row \in 0 .. LastRow(s)}

Serial(r) == {<<r.serial, "serial", 0>>}
Lane(r, i) == {<<r.t + i, "lane", i>>}
Lanes(r, is) == {<<r.t + i, "lane", i, 0>> : i \in is}
Temporary(r, is) == {<<r.t + i, "temporary", 0, 0>> : i \in is}
Block(r, row) == {<<r.a + row, "block", row>>}
(* Payload registers are numbered by plane and row, four in each. *)
Payload(r, j) == {<<r.q + j, "payload", j \div 4>>}
Shift(r) == {<<r.quant_shift, "shift", 0>>}

(* A payload register of a lane pair holds the bytes of the owning lane    *)
(* until they are handed to the other one.                                 *)
Owned(s) == IF s.share = 1 THEN "payload" ELSE "owned"
(* The routed bodies load the rows of the route over zeros.                *)
ALoads(s, pointer, base, m) ==
    LET loads == Load(pointer, base, 4, "A", m) \o Load(pointer, base + 4, 4, "A", m) IN
    IF s.bounded THEN Alu({}, Filled(base, 8, "zero", m)) \o Masked(loads) ELSE loads
LoadPayload(ins, via, base, r, role) ==
    LoadVia(ins, via, base, 4, role, (base - r.q) \div 4)

-----------------------------------------------------------------------------
(* Row pointers of the blocks a lane decodes, at the loop counter's stage. *)
BlockAddresses(s, r) ==
    AluAt(0, Serial(r),
          Temporary(r, {0}) \cup {<<r.a + row, "block", row, 0>> : row \in 0 .. LastRow(s)})

Q2Reads(s, r) ==
    BlockAddresses(s, r)
    \o Alu(Serial(r), Lanes(r, 0 .. 2) \cup {<<r.quant_shift, "shift", 0, 0>>})
    \o Each(0, LastRow(s), LAMBDA row :
         LoadPayload(Block(r, row) \cup Lane(r, 1), {r.t + 3}, r.q + 4 * row, r, "payload")
         \o LoadVia(Block(r, row) \cup Lane(r, 0), {r.t + 4}, r.scale + row, 1, "scale", row)
         \o Load(Block(r, row), r.dm + row, 1, "dm", row))

(* The high planes are loaded by the owning lanes of a pair only.          *)
Q6Reads(s, r) ==
    LET Low(row) == LoadPayload(Block(r, row) \cup Lane(r, 1), {r.t + 5},
                                r.q + 4 * row, r, "payload")
        High(row) == LoadPayload(Block(r, row) \cup Lane(r, 3), {r.t + 5},
                                 r.q + 4 * Rows(s) + 4 * row, r, Owned(s))
    IN BlockAddresses(s, r)
       \o Alu(Serial(r), Lanes(r, 0 .. 4))
       \o (IF s.share = 1
           THEN Each(0, LastRow(s), LAMBDA row : Low(row) \o High(row))
           ELSE Each(0, LastRow(s), Low) \o Alu(Serial(r), Temporary(r, {6}))
                \o Each(0, LastRow(s), High))
       \o Each(0, LastRow(s), LAMBDA row :
            LoadVia(Block(r, row) \cup Lane(r, 4), {r.t + 5}, r.scale + row, 1, "scale", row)
            \o Load(Block(r, row), r.dm + row, 1, "dm", row))

(* The rows' reads leave the lane offsets of their signs behind; those of   *)
(* the second projection take them from there.                              *)
Iq2sRows(s, r, SignLanes, address) ==
    Each(0, LastRow(s), LAMBDA row :
        LET Meta(lane, via, j) == LoadVia(Block(r, row) \cup Lane(r, lane), {via},
                                          r.scale + 4 * row + j, 1, "meta", 4 * row + j)
        IN Meta(1, address, 0) \o Meta(1, address, 1) \o SignLanes
           \o Meta(2, r.t + 3, 2) \o Meta(2, r.t + 3, 3)
           \o Load(Block(r, row), r.dm + row, 1, "dm", row))
Iq2sReads(s, r) ==
    BlockAddresses(s, r) \o Alu(Serial(r), Lanes(r, 0 .. 1))
    \o Iq2sRows(s, r, Alu(Lane(r, 1), Lanes(r, {2})), r.t + 2)

Iq2xxsRows(s, r) ==
    Each(0, LastRow(s), LAMBDA row :
        LoadVia(Block(r, row) \cup Lane(r, 1), {r.t + 2}, r.scale + 2 * row, 2,
                "meta", row)
        \o Load(Block(r, row), r.dm + row, 1, "dm", row))
Iq2xxsReads(s, r) ==
    BlockAddresses(s, r) \o Alu(Serial(r), Lanes(r, 0 .. 1)) \o Iq2xxsRows(s, r)

(* The second projection's reads at the addresses of the first one's.       *)
ReadsFromCurrentAddresses(s, r) ==
    IF s.quant = "IQ2_S" THEN Iq2sRows(s, r, <<>>, r.t + 3) ELSE Iq2xxsRows(s, r)

Q8Reads(s, r) ==
    BlockAddresses(s, r) \o Alu(Serial(r), Lanes(r, 0 .. 2))
    \o Each(0, LastRow(s), LAMBDA row :
         Alu(Block(r, row) \cup Lane(r, 1), {<<r.a + row, "block", row, 0>>})
         \o (IF s.extraction # "Scalar"
             THEN LoadPayload(Block(r, row) \cup Lane(r, 2), {r.t + 3}, r.q + 4 * row, r,
                              "payload")
             ELSE Alu(Block(r, row) \cup Lane(r, 2), Lanes(r, {3}))
                  \o Each(0, 3, LAMBDA j :
                       Load(Lane(r, 3), r.q + 4 * row + j, 1, "payload", row)))
         \o Load(Block(r, row), r.dm + row, 1, "dm", row))

Q3Reads(s, r) ==
    BlockAddresses(s, r) \o Alu(Serial(r), Lanes(r, 0 .. 1))
    \o Each(0, LastRow(s), LAMBDA row :
         Alu(Lane(r, 1), Lanes(r, 2 .. 6))
         \o LoadPayload(Block(r, row) \cup Lane(r, 2), {r.t + 2},
                        r.q + 4 * Rows(s) + 4 * row, r, "payload")
         \o LoadPayload(Block(r, row) \cup Lane(r, 3), {r.t + 3}, r.q + 4 * row, r, "payload")
         \o LoadVia(Block(r, row) \cup Lane(r, 6), {r.t + 6}, r.scale + 2 * row, 1,
                    "scale", 2 * row)
         \o LoadVia(Block(r, row) \cup Lane(r, 5), {r.t + 5}, r.scale + 2 * row + 1, 1,
                    "scale", 2 * row + 1)
         \o Load(Block(r, row), r.dm + row, 1, "dm", row))

(* The packed block scales and the three scale bytes of a row.             *)
ScaleBytes(r, row, via) ==
    Each(0, 2, LAMBDA j :
        Load({<<via, "scale address", row>>}, r.scale + 3 * row + j, 1, "scale", 3 * row + j))
Q5Metadata(s, r, row, via) ==
    IF s.vector THEN Load(Block(r, row), r.dm + 4 * row, 4, "dm", row)
    ELSE Load(Block(r, row), r.dm + row, 1, "dm", row) \o ScaleBytes(r, row, via)

(* Q4_K and Q5_K build the pointers of one or two rows ahead, behind the   *)
(* row pointers, and those of more rows one at a time.                     *)
Q45Reads(s, r, Planes(_, _), Blocks(_), Metadata(_, _)) ==
    LET Scales(row, base, to) == Alu(base, {<<to, "scale address", row, 0>>}) IN
    AluAt(0, Serial(r), Temporary(r, {0})
                        \cup {<<r.a + row, "block", row, 0>> :
                                row \in IF Rows(s) = 2 THEN 0 .. 1 ELSE {0}})
    \o Alu(Serial(r), Lanes(r, IF s.n = 8 THEN 0 .. 1 ELSE 0 .. 2))
    \o (IF Rows(s) > 2
        THEN Alu(Serial(r), Lanes(r, {2}))
             \o Each(0, LastRow(s), LAMBDA row :
                  (IF row = 0 THEN <<>>
                   ELSE Alu(Block(r, 0), {<<r.a + row, "block", row, 0>>}))
                  \o Planes(row, FALSE) \o Blocks(row)
                  \o Scales(row, Block(r, row) \cup Lane(r, 2), r.t + 4)
                  \o Metadata(row, r.t + 4))
        ELSE Each(0, LastRow(s), LAMBDA row :
                  Alu(Block(r, row) \cup Lane(r, 1), {<<r.a + 2 + row, "plane", row, 0>>}))
             \o (IF s.share = 1 THEN <<>>
                 ELSE Alu(Serial(r), {<<r.t + 2, "temporary", 0, 0>>}))
             \o Each(0, LastRow(s), LAMBDA row : Planes(row, TRUE))
             \o Alu(Serial(r) \cup Lane(r, 0), Lanes(r, {1}))
             \o Scales(0, Block(r, 0) \cup Lane(r, 1), r.a + 2)
             \o Each(0, LastRow(s), Blocks)
             \o Each(0, LastRow(s), LAMBDA row :
                  (IF row = 0 THEN <<>>
                   ELSE Scales(row, {<<r.a + 2, "scale address", 0>>}, r.a + 3))
                  \o Metadata(row, IF row = 0 THEN r.a + 2 ELSE r.a + 3)))

Q4Reads(s, r) ==
    Q45Reads(s, r,
        LAMBDA row, ahead :
            IF ahead
            THEN LoadPayload({<<r.a + 2 + row, "plane", row>>}, {}, r.q + 4 * row, r, Owned(s))
            ELSE LoadPayload(Block(r, row) \cup Lane(r, 1), {r.t + 3}, r.q + 4 * row, r,
                             "payload"),
        LAMBDA row : Load(Block(r, row), r.dm + row, 1, "dm", row),
        LAMBDA row, via : ScaleBytes(r, row, via))
Q5Reads(s, r) ==
    LET high == r.q + 4 * Rows(s) IN
    Q45Reads(s, r,
        LAMBDA row, ahead :
            IF ahead
            THEN LoadPayload(Block(r, row) \cup Lane(r, IF s.n = 8 THEN 0 ELSE 2), {r.t + 3},
                             high + 4 * row, r, Owned(s))
                 \o LoadPayload({<<r.a + 2 + row, "plane", row>>}, {}, r.q + 4 * row, r,
                                Owned(s))
            ELSE LoadPayload(Block(r, row) \cup Lane(r, 0), {r.t + 3}, high + 4 * row, r,
                             "payload")
                 \o LoadPayload(Block(r, row) \cup Lane(r, 1), {r.t + 3}, r.q + 4 * row, r,
                                "payload"),
        LAMBDA row : <<>>,
        LAMBDA row, via : Q5Metadata(s, r, row, via))

QuantReads(s, r) ==
    CASE s.quant = "Q2_K" -> Q2Reads(s, r)
      [] s.quant = "Q3_K" -> Q3Reads(s, r)
      [] s.quant = "Q4_K" -> Q4Reads(s, r)
      [] s.quant = "Q5_K" -> Q5Reads(s, r)
      [] s.quant = "Q6_K" -> Q6Reads(s, r)
      [] s.quant = "IQ2_S" -> Iq2sReads(s, r)
      [] s.quant = "IQ2_XXS" -> Iq2xxsReads(s, r)
      [] s.quant = "Q8_0" -> Q8Reads(s, r)

(* Hands the bytes of the owning lanes to the other lane of each pair.     *)
PackedLoadGrouping(s, r) ==
    LET first == IF s.quant = "Q6_K" THEN 4 * Rows(s) ELSE 0
        shared == first .. PayloadRegisters(s.quant) * Rows(s) - 1
        role == IF s.quant # "Q6_K" /\ Rows(s) > 2 THEN "payload" ELSE "owned"
    IN IF s.share = 1 THEN <<>>
       ELSE Alu(Serial(r), Temporary(r, {0}))
            \o Alu({<<r.q + j, role, j \div 4>> : j \in shared},
                   Temporary(r, {1}) \cup {<<r.q + j, "payload", j \div 4, 0>> : j \in shared})
-----------------------------------------------------------------------------
(* The activation fragments of a stage: pointers from the row offsets at    *)
(* the loop counter, 16 elements further for each half of a fragment pair.  *)
FirstAReads(s, r) ==
    LET pointers == {r.a + m : m \in 0 .. s.m - 1} IN
    Each(0, s.m - 1, LAMBDA m :
        AluAt(0, {<<r.a + 4 + m, "row", m>>}, {<<r.a + m, "pointer", m, 0>>}))
    \o Each(0, s.grp - 1, LAMBDA half :
         (IF half = 0 THEN <<>> ELSE Advance(pointers, 16))
         \o Each(0, s.m - 1, LAMBDA m :
              ALoads(s, {<<r.a + m, "pointer", m>>}, r.valu_a + 8 * (half * s.m + m), m)))

(* The codebook of IQ2_S and IQ2_XXS, staged once behind the weight tile.   *)
GridBytes(s) == IF s.quant = "IQ2_S" THEN 8192 ELSE 2048
CodebookLoads(s) ==
    IF s.quant \notin {"IQ2_S", "IQ2_XXS"} \/ ~s.grid_in_lds THEN 0
    ELSE GridBytes(s) \div (16 * Threads(s))
CodebookStage(s, r) ==
    LET loads == CodebookLoads(s)
        Batch(first) ==
          LET last == Smaller(4, loads - first) - 1 IN
          Each(0, last, LAMBDA item :
              Load({<<r.t, "grid address", 0>>}, r.valu_b + 4 * item, 4, "entry", item))
          \o WaitLoads(0)
          \o Each(0, last, LAMBDA item :
              LdsStore(1, Span(r.valu_b + 4 * item, 4, "entry", item),
                       {<<r.t + 1, "grid address", 1>>}, <<Rows(s), item>>))
          \o WaitLds(0)
    IN IF loads = 0 THEN <<>>
       ELSE Alu(Serial(r), {<<r.t + i, "grid address", i, 0>> : i \in 0 .. 1})
            \o Each(0, (loads - 1) \div 4, LAMBDA b : Batch(4 * b)) \o Barrier

-----------------------------------------------------------------------------
(* Decoding.  Preparing the rows leaves their scale factors in d and min;   *)
(* a chunk is one packed register, four values of a row, and is used up.    *)
ScaleFactor(r, row) == {<<r.t + 1 + 2 * row, "d", row>>}
Minimum(r, row) == {<<r.t + 2 + 2 * row, "min", row>>}
Scaled(reg, row) == {<<reg, "d", row, 0>>}
Metadata(reg, role, ix) == {<<reg, role, ix>>}
Used(registers) == {<<x, "used", 0, 0>> : x \in registers}
LowShift(r) == {<<r.low_bitfield_shift, "low shift", 0>>}

StoreAddresses(s, r, c) ==
    IF s.swizzle = 0 THEN {<<r.lds, "lds", 0>>}
    ELSE LET residues == 32 \div s.swizzle IN
         {<<r.lds_address + (e % residues), "lds", e % residues>> : e \in 4 * c .. 4 * c + 3}

(* Computes the values of a chunk and stores them.                          *)
Chunk(s, r, row, c, ins, used, values, scratch) ==
    Alu(ins, Used(used \cup scratch) \cup {<<v, "value", c, 0>> : v \in values})
    \o LdsStore(4, {<<v, "value", c>> : v \in values}, StoreAddresses(s, r, c), <<row, c>>)

Q2Prepare(s, r) ==
    Each(0, LastRow(s), LAMBDA row :
        Alu(Metadata(r.dm + row, "dm", row) \cup Metadata(r.scale + row, "scale", row),
            Used({r.t, r.scale + row}) \cup Scaled(r.t + 1 + 2 * row, row)
            \cup {<<r.t + 2 + 2 * row, "min", row, 0>>}))
(* One value at a time, or four behind one another in the fragment          *)
(* registers.                                                               *)
DependencyValues(s, r) == {r.values + 2 * slot : slot \in 0 .. s.dependency - 1}
Q24Chunk(s, r, row, c) ==
    Chunk(s, r, row, c,
          Payload(r, 4 * row + c) \cup Shift(r) \cup ScaleFactor(r, row) \cup Minimum(r, row),
          {r.q + 4 * row + c}, DependencyValues(s, r),
          {v + 1 : v \in DependencyValues(s, r)})

Q6Prepare(s, r) ==
    Alu(Serial(r), Used({r.t, r.t + 1}) \cup {<<r.low_bitfield_shift, "low shift", 0, 0>>,
                                              <<r.quant_shift, "shift", 0, 0>>})
    \o Each(0, LastRow(s), LAMBDA row :
         Alu(Metadata(r.dm + row, "dm", row) \cup Metadata(r.scale + row, "scale", row),
             Used({r.scale + row}) \cup Scaled(r.t + 1 + 2 * row, row)))
(* The dual instructions take the scale factor and the offset from copies.  *)
Q6Chunk(s, r, row, c) ==
    LET value == r.t + 1 + 2 * Rows(s)
        vopd == s.extraction = "PackedVopd"
        planes == {4 * row + c, 4 * Rows(s) + 4 * row + c}
    IN (IF vopd /\ c = 0
        THEN Alu(ScaleFactor(r, row), {<<value + 3, "d copy", row, 0>>})
             \o (IF row = 0 THEN Alu({}, {<<value + j, "32", j, 0>> : j \in 4 .. 5}) ELSE <<>>)
        ELSE <<>>)
       \o Chunk(s, r, row, c,
                UNION {Payload(r, j) : j \in planes} \cup LowShift(r) \cup Shift(r)
                \cup ScaleFactor(r, row)
                \cup (IF vopd THEN Metadata(value + 3, "d copy", row)
                                   \cup {<<value + j, "32", j>> : j \in 4 .. 5}
                      ELSE {}),
                {r.q + j : j \in planes}, IF vopd THEN {value, value + 1} ELSE {value},
                {IF vopd THEN value + 2 ELSE value + 1})

Q8Prepare(s, r) ==
    Each(0, LastRow(s), LAMBDA row :
        Alu(Metadata(r.dm + row, "dm", row), Scaled(r.t + 1 + 2 * row, row)))
Q8Chunk(s, r, row, c) ==
    LET value == r.t + 1 + 2 * Rows(s)
        vopd == s.extraction = "PackedVopd"
    IN (IF vopd /\ c = 0
        THEN Alu(ScaleFactor(r, row), {<<value + 3, "d copy", row, 0>>}) ELSE <<>>)
       \o Chunk(s, r, row, c,
                Payload(r, 4 * row + c) \cup ScaleFactor(r, row)
                \cup (IF vopd THEN Metadata(value + 3, "d copy", row) ELSE {}),
                {r.q + 4 * row + c}, IF vopd THEN {value, value + 1} ELSE {value},
                {IF vopd THEN value + 2 ELSE value + 1})

-----------------------------------------------------------------------------
(* IQ2_S: the codebook entries of a row are looked up in the LDS, or read   *)
(* from memory into the registers that hold their addresses; its signs      *)
(* replace the scale bytes they were loaded with.                           *)
Meta(r, j) == Metadata(r.scale + j, "meta", j)
Grid(s, r, row) == Span(r.q + 4 * row, 4, "grid", row)
Iq2sRow(r, row) ==
    Alu(Metadata(r.dm + row, "dm", row) \cup Meta(r, 4 * row + 3) \cup Meta(r, 4 * row + 1)
        \cup Lane(r, 0),
        Scaled(r.dm + row, row) \cup Used({r.t + 1})
        \cup {<<r.scale + 4 * row + 2, "db", row, 0>>, <<r.scale + 4 * row + 3, "signs", row, 0>>})
EntryFields(r, row) == Lane(r, 0) \cup Meta(r, 4 * row) \cup Meta(r, 4 * row + 2)
Iq2sLookups(s, r) ==
    LET Lookup(row, half) ==
          Alu(EntryFields(r, row), Used({r.t + 1, r.t + 2, r.t + 3})
                                   \cup {<<r.t + 4, "entry address", half, 0>>})
          \o LdsGather({<<r.t + 4, "entry address", half>>},
                       <<<<r.q + 4 * row + 2 * half, 2, row>>>>)
    IN Alu(Serial(r), Lanes(r, {0}))
       \o Each(0, LastRow(s), LAMBDA row : Lookup(row, 0) \o Lookup(row, 1) \o Iq2sRow(r, row))
EntryAddress(r, row, half) == <<r.q + 4 * row + 2 * half, "entry address", half>>
Iq2sAddresses(s, r) ==
    Alu(Serial(r), Lanes(r, {0}))
    \o Each(0, LastRow(s), LAMBDA row :
         Alu(EntryFields(r, row), Used({r.t + 1, r.t + 2, r.t + 3})
                                  \cup {Append(EntryAddress(r, row, half), 0) : half \in 0 .. 1})
         \o Iq2sRow(r, row))
CodebookReads(s, r) ==
    Each(0, LastRow(s), LAMBDA row :
        Each(0, 1, LAMBDA half :
            Load({EntryAddress(r, row, half)}, r.q + 4 * row + 2 * half, 2, "grid", row)))
Iq2sFinish(s, r) ==
    Each(0, LastRow(s), LAMBDA row :
        Alu(Grid(s, r, row) \cup Metadata(r.scale + 4 * row + 3, "signs", row),
            Used({r.t, r.t + 1, r.t + 2}) \cup Filled(r.q + 4 * row, 4, "payload", row)))
Iq2sPrepare(s, r) ==
    (IF s.grid_in_lds THEN Iq2sLookups(s, r) \o WaitLds(0)
     ELSE Iq2sAddresses(s, r) \o CodebookReads(s, r) \o WaitLoads(0))
    \o Iq2sFinish(s, r)
Iq2sChunk(s, r, row, c) ==
    LET ins == Payload(r, 4 * row + c) \cup Metadata(r.scale + 4 * row + 2, "db", row)
        copy == Metadata(r.t + 6, "db copy", row)
    IN IF s.grid_in_lds
       THEN Chunk(s, r, row, c, ins, {r.q + 4 * row + c}, {r.t}, {r.t + 1})
       ELSE (IF c = 0 THEN Alu(ins \ Payload(r, 4 * row), {<<r.t + 6, "db copy", row, 0>>})
             ELSE <<>>)
            \o Chunk(s, r, row, c, ins \cup copy, {r.q + 4 * row + c},
                     {r.t + j : j \in 0 .. 3}, {r.t + j : j \in {4, 5, 7, 8}})

(* IQ2_XXS: group is the register that selects the lane's half; outstanding *)
(* lookups of the other projection stay in flight behind its own.           *)
Iq2xxsLookups(s, r, group) ==
    LET first == IF group = r.t THEN r.t + 1 ELSE r.t
        Lookup(row, half) ==
          LdsGather({<<first + 2 + half, "entry address", half>>},
                    <<<<r.q + 4 * row + 2 * half, 2, row>>>>)
    IN Alu(Serial(r), {<<group, "group", 0, 0>>})
       \o Each(0, LastRow(s), LAMBDA row :
            Alu(Metadata(r.scale + 2 * row, "meta", row) \cup Metadata(group, "group", 0),
                Used({first, first + 1})
                \cup {<<first + 2 + half, "entry address", half, 0>> : half \in 0 .. 1})
            \o Lookup(row, 0) \o Lookup(row, 1))
Iq2xxsFinish(s, r, group, outstanding) ==
    Each(0, LastRow(s), LAMBDA row :
        LET Signs == Metadata(r.scale + 2 * row + 1, "meta", row) IN
        Alu(Metadata(group, "group", 0) \cup Signs,
            Used({r.t, r.t + 1, r.valu_b, r.valu_b + 1})
            \cup {<<r.t + j, "signs", row, 0>> : j \in 2 .. 3})
        \o WaitLds(outstanding)
        \o Alu(Grid(s, r, row) \cup {<<r.t + j, "signs", row>> : j \in 2 .. 3},
               Used({r.valu_b + j : j \in 0 .. 7}) \cup Filled(r.q + 4 * row, 4, "payload", row))
        \o Alu(Signs \cup Metadata(r.dm + row, "dm", row),
               Used({r.t + 4}) \cup Scaled(r.dm + row, row)))
Iq2xxsPrepare(s, r) == Iq2xxsLookups(s, r, r.t) \o Iq2xxsFinish(s, r, r.t, 0)
(* Two packed registers at a time. *)
Iq2xxsValues(s, r) ==
    Each(0, LastRow(s), LAMBDA row :
        Alu(Metadata(r.dm + row, "d", row), {<<r.t + 6, "d copy", row, 0>>})
        \o Each(0, 1, LAMBDA pair :
             Alu(Payload(r, 4 * row + 2 * pair) \cup Payload(r, 4 * row + 2 * pair + 1)
                 \cup Metadata(r.dm + row, "d", row) \cup Metadata(r.t + 6, "d copy", row),
                 Used({r.valu_b + j : j \in 8 .. 15})
                 \cup UNION {Filled(r.valu_b + 4 * h, 4, "value", 2 * pair + h) : h \in 0 .. 1})
             \o Each(0, 1, LAMBDA h :
                  LdsStore(4, Span(r.valu_b + 4 * h, 4, "value", 2 * pair + h),
                           StoreAddresses(s, r, 2 * pair + h), <<row, 2 * pair + h>>))))

-----------------------------------------------------------------------------
(* Q3_K keeps the scale factors of two rows in temporaries and those of the *)
(* others in place of the block scale.                                      *)
Q3Factor(r, row) == IF row < 2 THEN r.t + 3 + row ELSE r.dm + row
Q3Prepare(s, r) ==
    Alu(Serial(r), Used({r.t}) \cup Lanes(r, 1 .. 2))
    \o Each(0, LastRow(s), LAMBDA row :
         Alu(Metadata(r.scale + 2 * row, "scale", 2 * row) \cup Lane(r, 1) \cup Lane(r, 2)
             \cup Metadata(r.scale + 2 * row + 1, "scale", 2 * row + 1),
             Used({r.t, r.scale + 2 * row + 1}) \cup {<<r.scale + 2 * row, "factor", row, 0>>}))
    \o Each(0, LastRow(s), LAMBDA row :
         Alu(Metadata(r.dm + row, "dm", row) \cup Metadata(r.scale + 2 * row, "factor", row),
             Scaled(Q3Factor(r, row), row)))
    \o (IF s.pairing # "Full" THEN <<>>
        ELSE Each(0, LastRow(s), LAMBDA row :
               Alu(Metadata(r.t + 3 + row, "d", row), {<<r.t + 9 + row, "d copy", row, 0>>})))
    \o Alu(Serial(r), Used({r.t, r.t + 1})
                      \cup {<<r.low_bitfield_shift, "low shift", 0, 0>>,
                            <<r.quant_shift, "shift", 0, 0>>})
    \o (IF s.extraction # "Packed" THEN <<>>
        ELSE Alu({}, {<<r.t + j, "4", j, 0>> : j \in IF s.pairing = "Full" THEN 1 .. 2 ELSE {2}}))
Q3Chunk(s, r, row, c) ==
    LET planes == {4 * row + c, 4 * Rows(s) + 4 * row + c}
        full == s.pairing = "Full"
        needs == CASE s.extraction = "Scalar" -> {}
                   [] full -> {<<r.t + 1, "4", 1>>, <<r.t + 2, "4", 2>>,
                               <<r.t + 9 + row, "d copy", row>>}
                   [] OTHER -> {<<r.t + 2, "4", 2>>}
    IN Chunk(s, r, row, c,
             UNION {Payload(r, j) : j \in planes} \cup LowShift(r) \cup Shift(r)
             \cup Metadata(Q3Factor(r, row), "d", row) \cup needs,
             {r.q + j : j \in planes},
             IF s.extraction = "Scalar" THEN {r.t + 5} ELSE {r.t + 5, r.t + 8},
             IF s.extraction = "Scalar" \/ full \/ Q3Factor(r, row) % 2 = 1
             THEN {r.t + 6} ELSE {r.t + 6, r.t + 7})

(* The scale and minimum of a Q4_K or Q5_K row, in its scale registers or   *)
(* in the vector loaded with the block scale.                               *)
Q45Prepare(s, r) ==
    LET dm(row) == IF s.vector THEN r.dm + 4 * row ELSE r.dm + row
        lo(row) == IF s.vector THEN r.dm + 4 * row + 1 ELSE r.scale + 3 * row
        Fields(row) ==
          IF s.vector THEN Span(lo(row), 3, "dm", row)
          ELSE {<<lo(row) + j, "scale", 3 * row + j>> : j \in 0 .. 2}
    IN (IF s.vector THEN Alu(Serial(r), Used({r.t + 1, r.t + 2})) ELSE <<>>)
       \o Each(0, LastRow(s), LAMBDA row :
            Alu(Fields(row), Used({r.t}) \cup Filled(lo(row), 3, "factor", row)))
       \o Each(0, LastRow(s), LAMBDA row :
            Alu(Metadata(dm(row), "dm", row) \cup Span(lo(row), 2, "factor", row),
                Used({lo(row), lo(row) + 1}) \cup Scaled(r.t + 1 + 2 * row, row)
                \cup {<<r.t + 2 + 2 * row, "min", row, 0>>}))
NibbleShift(r) == Alu(Shift(r), {<<r.t, "nibble shift", 0, 0>>})
Q5Chunk(s, r, row, c) ==
    LET planes == {4 * row + c, 4 * Rows(s) + 4 * row + c}
        value == r.t + 1 + 2 * Rows(s)
    IN (IF s.hoisted THEN <<>> ELSE NibbleShift(r))
       \o Chunk(s, r, row, c,
                UNION {Payload(r, j) : j \in planes} \cup Metadata(r.t, "nibble shift", 0)
                \cup Shift(r) \cup ScaleFactor(r, row) \cup Minimum(r, row),
                {r.q + j : j \in planes}, {value}, {value + 1})

-----------------------------------------------------------------------------
DecodePrepare(s, r) ==
    CASE s.quant = "Q2_K" -> Q2Prepare(s, r)
      [] s.quant = "Q3_K" -> Q3Prepare(s, r)
      [] s.quant = "Q4_K" -> Q45Prepare(s, r) \o NibbleShift(r)
      [] s.quant = "Q5_K" -> Q45Prepare(s, r)
      [] s.quant = "Q6_K" -> Q6Prepare(s, r)
      [] s.quant = "Q8_0" -> Q8Prepare(s, r)
      [] s.quant = "IQ2_S" -> Iq2sPrepare(s, r)
      [] s.quant = "IQ2_XXS" -> Iq2xxsPrepare(s, r)

(* Chunk number j, row by row. *)
DecodeChunk(s, r, j) ==
    LET row == j \div 4
        c == j % 4
    IN CASE s.quant \in {"Q2_K", "Q4_K"} -> Q24Chunk(s, r, row, c)
         [] s.quant = "Q3_K" -> Q3Chunk(s, r, row, c)
         [] s.quant = "Q5_K" -> Q5Chunk(s, r, row, c)
         [] s.quant = "Q6_K" -> Q6Chunk(s, r, row, c)
         [] s.quant = "Q8_0" -> Q8Chunk(s, r, row, c)
         [] s.quant = "IQ2_S" -> Iq2sChunk(s, r, row, c)

HoistedShift(s, r) == IF s.quant = "Q5_K" /\ s.hoisted THEN NibbleShift(r) ELSE <<>>
DecodeValues(s, r) ==
    IF s.quant = "IQ2_XXS" THEN Iq2xxsValues(s, r)
    ELSE HoistedShift(s, r) \o Each(0, 4 * Rows(s) - 1, LAMBDA j : DecodeChunk(s, r, j))

=============================================================================
