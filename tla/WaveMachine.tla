----------------------------- MODULE WaveMachine -----------------------------
(***************************************************************************)
(* The gfx11 machine an emitted assembly body runs on, as far as its       *)
(* schedule depends on it: waves in one workgroup that execute the same    *)
(* program in order, vector registers, loads that return in order and are  *)
(* waited for by count, an LDS shared by the waves, and barriers.  What a  *)
(* register holds is its content <<role, index, at, k>>: what it is, which *)
(* tile or row of it, the contraction stage (or the LDS buffer) it belongs *)
(* to, and the element offset inside the stage.  Arithmetic is abstracted  *)
(* to the registers it needs and the contents it leaves.                   *)
(***************************************************************************)
EXTENDS WaveCode, FiniteSets, FiniteSetsExt, SequencesExt

CONSTANT
    Programs  \* the programs: code and registers, the waves that decode, the
              \* LDS rows a lane decodes, the stages of the contraction, the
              \* order of its products, the output fragments <<m, n>> of a
              \* wave, and the routes

VARIABLES
    program,   \* the program this workgroup runs
    pc,        \* per wave, the next instruction
    route,     \* the route's output tiles: how many are full, whether the tail
               \* tile holds them all, and per wave the row fragments of each
               \* tile that hold a row
    tile,      \* per wave, the output tile it works on
    stage,     \* per wave, the loop counter in stages of the contraction
    swapped,   \* per wave, the pointers exchanged with the second projection's
    vgpr,      \* per wave, the content of each vector register
    vmcnt,     \* per wave, the loads that have not returned, oldest first
    lgkmcnt,   \* per wave, the LDS operations that have not completed
    lds,       \* what each LDS cell holds, and of which stage
    touched,   \* per wave, the cells it stored to and read since its last barrier
    sums       \* per wave and output fragment, the products taken so far

vars == <<program, pc, route, tile, stage, swapped, vgpr, vmcnt, lgkmcnt, lds, touched, sums>>

Mixed == -2    \* cells of different stages
Empty == <<"empty", Static>>

Unset == <<"unset", 0, Static, 0>>
Pending == <<"pending", 0, Static, 0>>

Code == program.code
Running(w) == pc[w] <= Len(Code)
Instruction(w) == Code[pc[w]]
AtBarrier(w) == Running(w) /\ Instruction(w).op = "barrier"
AfterBarrier(w) == IF pc[w] = 1 THEN TRUE ELSE Code[pc[w] - 1].op = "barrier"

-----------------------------------------------------------------------------
Content(w, r) == vgpr[w][r]
Holds(w, operand) ==
    LET c == Content(w, operand[1]) IN c[1] = operand[2] /\ c[2] = operand[3]
StagesOf(w, ins, counters) ==
    ({Content(w, o[1])[3] : o \in ins} \ {Static}) \cup {stage[w] + d : d \in counters}
StageOf(w, ins, counters) ==
    LET s == StagesOf(w, ins, counters) IN IF s = {} THEN Static ELSE CHOOSE x \in s : TRUE
(* The stage the results of an ALU sequence belong to.                     *)
ResultStages(w, i) ==
    StagesOf(w, i.ins, i.counters) \cup {s + i.ahead : s \in StagesOf(w, i.shared, {})}
ResultStage(w, i) ==
    LET s == ResultStages(w, i) IN IF s = {} THEN Static ELSE CHOOSE x \in s : TRUE
OffsetOf(w, ins) == CHOOSE k \in {Content(w, o[1])[4] : o \in ins} :
                       \A o \in ins : Content(w, o[1])[4] <= k
BufferOf(w, i) ==
    LET parity == StageOf(w, i.addresses, {}) IN
    i.second + (IF parity = Static THEN 0 ELSE parity)
(* The projection a load reads.                                            *)
BankOf(w, i) ==
    IF i.role \in {"grid", "entry"} THEN 0
    ELSE IF (IF i.role = "A" THEN "A" ELSE "W") \in swapped[w] THEN 1 - i.bank ELSE i.bank
ActiveOf(w) == route.active[w][tile[w]]

(* The decoded rows that hold the sixteen elements from k on.              *)
RowsRead(w, i) ==
    LET rows == program.rows
        span == program.span
        k == OffsetOf(w, i.addresses)
    IN {row \in 0 .. rows - 1 : row * span < k + 16 /\ k < (row + 1) * span}

(* The decoders' shares of two weight tiles; behind them the codebook, which *)
(* every wave stages its share of: cells <<buffer, wave, row, chunk>>.       *)
Decoders == program.decoders
WeightCells == (0 .. 1) \X Decoders \X (0 .. program.rows - 1) \X (0 .. 3)
CodebookCells ==
    {0} \X Waves \X {program.rows} \X (0 .. program.codebook - 1)

(* The dwords of a staged row, by region, of each wave.                    *)
RowCells == {<<w>> \o c : w \in Waves, c \in program.row_cells}

(* The cells a wave's LDS instruction touches.                             *)
Cells(w, i) ==
    IF i.op = "lds_write" THEN {<<w>> \o c : c \in DOMAIN i.ahead}
    ELSE IF i.op = "lds_store" THEN {<<BufferOf(w, i), w>> \o i.cell}
    ELSE IF i.role = "grid" THEN CodebookCells
    ELSE {BufferOf(w, i)} \X Decoders \X RowsRead(w, i) \X (0 .. 3)

Init ==
    /\ program \in Programs
    /\ pc = [w \in Waves |-> 1]
    /\ route \in program.routes
    /\ tile = [w \in Waves |-> 0]
    /\ stage = [w \in Waves |-> 0]
    /\ swapped = [w \in Waves |-> {}]
    /\ vgpr = [w \in Waves |-> [r \in 0 .. program.registers - 1 |-> Unset]]
    /\ vmcnt = [w \in Waves |-> <<>>]
    /\ lgkmcnt = [w \in Waves |-> <<>>]
    /\ lds = [c \in WeightCells \cup CodebookCells \cup RowCells |-> Empty]
    /\ touched = [w \in Waves |-> [stores |-> {}, loads |-> {}]]
    /\ sums = [w \in Waves |-> [t \in program.tiles |-> 0]]

-----------------------------------------------------------------------------
Goto(w, target) == pc' = [pc EXCEPT ![w] = target]

(* The register contents after results are written.                        *)
Write(w, outs, at) ==
    LET written == {o[1] : o \in outs}
        Result(r) == LET o == CHOOSE o \in outs : o[1] = r IN <<o[2], o[3], at, o[4]>>
    IN [r \in DOMAIN vgpr[w] |-> IF r \in written THEN Result(r) ELSE Content(w, r)]
(* The register contents after loads return, the oldest first.             *)
Return(w, entries) ==
    LET into == UNION {entries[i].dst : i \in DOMAIN entries}
        Latest(r) == CHOOSE i \in DOMAIN entries :
                      /\ r \in entries[i].dst
                      /\ \A j \in DOMAIN entries : r \in entries[j].dst => j <= i
    IN [r \in DOMAIN vgpr[w] |->
          IF r \in into THEN entries[Latest(r)].content ELSE Content(w, r)]
Issued(registers, dst) ==
    [r \in DOMAIN registers |-> IF r \in dst THEN Pending ELSE registers[r]]
SetVgpr(w, registers) == vgpr' = [vgpr EXCEPT ![w] = registers]

Arithmetic(w) ==
    LET i == Instruction(w) IN
    /\ \/ /\ i.op = "alu"
          /\ SetVgpr(w, Write(w, i.outs, ResultStage(w, i)))
       \/ /\ i.op = "advance"
          /\ SetVgpr(w, [r \in DOMAIN vgpr[w] |->
                           IF r \in i.registers
                           THEN [Content(w, r) EXCEPT ![4] = @ + i.dk]
                           ELSE Content(w, r)])
       \/ /\ i.op = "step"
          /\ SetVgpr(w, [r \in DOMAIN vgpr[w] |->
                           IF r \in i.registers
                           THEN [Content(w, r) EXCEPT ![3] = @ + i.n]
                           ELSE Content(w, r)])
       \/ /\ i.op = "copy"
          /\ SetVgpr(w, [r \in DOMAIN vgpr[w] |->
                           IF \E v \in i.moves : v[1] = r
                           THEN Content(w, (CHOOSE v \in i.moves : v[1] = r)[2])
                           ELSE Content(w, r)])
       \/ /\ i.op = "toggle"
          /\ SetVgpr(w, [r \in DOMAIN vgpr[w] |->
                           IF r \in i.registers
                           THEN [Content(w, r) EXCEPT ![3] = IF @ = 1 THEN 0 ELSE 1]
                           ELSE Content(w, r)])
    /\ Goto(w, pc[w] + 1)
    /\ UNCHANGED <<program, route, tile, stage, swapped, vmcnt, lgkmcnt, lds, touched, sums>>

Control(w) ==
    LET i == Instruction(w)
        Jumps == CASE i.when = "no_more" -> stage[w] >= program.stages
                   [] i.when = "more" -> stage[w] < program.stages
                   [] i.when = "before_last" -> stage[w] < program.stages - 1
                   [] i.when = "not_decoding" -> w \notin Decoders
                   [] i.when = "inactive" -> ActiveOf(w) = 0
                   [] i.when = "active" -> ActiveOf(w) # 0
                   [] i.when = "more_tiles" -> tile[w] < Len(route.active[w])
                   [] i.when = "more_full" -> tile[w] < route.full
                   [] i.when = "no_full" -> tile[w] >= route.full
                   [] i.when = "short_route" -> route.short
                   [] i.when = "no_tiles" -> tile[w] >= Len(route.active[w])
                   [] i.when = "always" -> TRUE
    IN
    /\ \/ /\ i.op = "count"
          /\ stage' = [stage EXCEPT ![w] = @ + i.n]
          /\ Goto(w, pc[w] + 1)
          /\ UNCHANGED <<tile, swapped, sums>>
       \/ /\ i.op = "branch"
          /\ Goto(w, pc[w] + 1 + (IF Jumps THEN i.skip ELSE 0))
          /\ UNCHANGED <<tile, stage, swapped, sums>>
       \/ /\ i.op = "begin_tile"
          /\ tile' = [tile EXCEPT ![w] = @ + 1]
          /\ stage' = [stage EXCEPT ![w] = 0]
          /\ sums' = [sums EXCEPT ![w] = [t \in DOMAIN @ |-> 0]]
          /\ Goto(w, pc[w] + 1)
          /\ UNCHANGED swapped
       \/ /\ i.op = "swap"
          /\ swapped' = [swapped EXCEPT ![w] = SymDiff(@, i.pointers)]
          /\ Goto(w, pc[w] + 1)
          /\ UNCHANGED <<tile, stage, sums>>
       \/ /\ i.op = "store"
          /\ Goto(w, pc[w] + 1)
          /\ UNCHANGED <<tile, stage, swapped, sums>>
    /\ UNCHANGED <<program, route, vgpr, vmcnt, lgkmcnt, lds, touched>>

GlobalLoad(w) ==
    LET i == Instruction(w)
        content == <<i.role, i.ix, StageOf(w, i.ins, {}) + i.ahead + Second * BankOf(w, i),
                     OffsetOf(w, i.ins)>>
        dst == IF i.masked /\ i.ix >= ActiveOf(w) THEN {} ELSE i.base .. i.base + i.n - 1
        addressed == Write(w, {<<r, "address", 0, 0>> : r \in i.via}, Static)
    IN
    /\ i.op = "load"
    /\ SetVgpr(w, Issued(addressed, dst))
    /\ vmcnt' = [vmcnt EXCEPT ![w] = Append(@, [dst |-> dst, content |-> content])]
    /\ Goto(w, pc[w] + 1)
    /\ UNCHANGED <<program, route, tile, stage, swapped, lgkmcnt, lds, touched, sums>>

WaitCount(w) ==
    LET i == Instruction(w)
        Late(queue, n) == Len(queue) - (IF Len(queue) < n THEN Len(queue) ELSE n)
        loaded == SubSeq(vmcnt[w], 1, Late(vmcnt[w], i.vm))
        read == SubSeq(lgkmcnt[w], 1, Late(lgkmcnt[w], i.lgkm))
    IN
    /\ i.op = "wait"
    /\ SetVgpr(w, Return(w, loaded \o read))
    /\ vmcnt' = [vmcnt EXCEPT ![w] = SubSeq(@, Len(loaded) + 1, Len(@))]
    /\ lgkmcnt' = [lgkmcnt EXCEPT ![w] = SubSeq(@, Len(read) + 1, Len(@))]
    /\ Goto(w, pc[w] + 1)
    /\ UNCHANGED <<program, route, tile, stage, swapped, lds, touched, sums>>

StoreChunk(w) ==
    LET i == Instruction(w)
        at == StageOf(w, i.ins, {})
        Ahead(c) == IF i.op = "lds_write" THEN i.ahead[Tail(c)] ELSE 0
        cells == Cells(w, i)
        count == IF i.op = "lds_write" THEN 1 ELSE i.n
        entry == [dst |-> {}, content |-> Unset, stores |-> TRUE, cells |-> cells]
    IN
    /\ i.op \in {"lds_store", "lds_write"}
    /\ lds' = [c \in DOMAIN lds |->
                 IF c \in cells THEN <<i.role, at + Ahead(c)>> ELSE lds[c]]
    /\ lgkmcnt' = [lgkmcnt EXCEPT ![w] = @ \o [j \in 1 .. count |-> entry]]
    /\ touched' = [touched EXCEPT ![w].stores = @ \cup cells]
    /\ Goto(w, pc[w] + 1)
    /\ UNCHANGED <<program, route, tile, stage, swapped, vgpr, vmcnt, sums>>

LoadFragments(w) ==
    LET i == Instruction(w)
        found == {lds[c] : c \in Cells(w, i)}
        at == CASE i.role = "grid" /\ found = {<<"value", Static>>} -> StageOf(w, i.addresses, {})
                [] i.role = "B" /\ Cardinality(found) = 1 -> (CHOOSE v \in found : TRUE)[2]
                [] OTHER -> Mixed
        Entry(part) ==
            [dst |-> part[1] .. part[1] + part[2] - 1,
             content |-> <<i.role, part[3], at, OffsetOf(w, i.addresses)>>,
             stores |-> FALSE, cells |-> Cells(w, i)]
        entries == [j \in DOMAIN i.parts |-> Entry(i.parts[j])]
    IN
    /\ i.op = "lds_load"
    /\ SetVgpr(w, Issued(vgpr[w], UNION {entries[j].dst : j \in DOMAIN entries}))
    /\ lgkmcnt' = [lgkmcnt EXCEPT ![w] = @ \o entries]
    /\ touched' = [touched EXCEPT ![w].loads = @ \cup Cells(w, i)]
    /\ Goto(w, pc[w] + 1)
    /\ UNCHANGED <<program, route, tile, stage, swapped, vmcnt, lds, sums>>

(* Reads of staged rows: one stage of the part's role, or a mixture.        *)
Writers(w, i) ==
    CASE i.whose = "own" -> {w} [] i.whose = "all" -> Waves [] i.whose = "decoders" -> Decoders
PartCells(writers, places) == {<<v>> \o c : v \in writers, c \in places}
PartEntry(w, i, part) ==
    LET cells == PartCells(Writers(w, i), part.cells)
        found == {lds[c] : c \in cells}
        at == IF \E s \in {v[2] : v \in found} : found = {<<part.held, s>>}
              THEN (CHOOSE v \in found : TRUE)[2] + part.ahead ELSE Mixed
    IN [dst |-> part.base .. part.base + part.n - 1,
        content |-> <<part.role, part.ix, at, 0>>, stores |-> FALSE, cells |-> cells]

ReadRows(w) ==
    LET i == Instruction(w)
        entries == [j \in DOMAIN i.parts |-> PartEntry(w, i, i.parts[j])]
    IN
    /\ i.op = "lds_read"
    /\ SetVgpr(w, Issued(vgpr[w], UNION {entries[j].dst : j \in DOMAIN entries}))
    /\ lgkmcnt' = [lgkmcnt EXCEPT ![w] = @ \o entries]
    /\ touched' = [touched EXCEPT ![w].loads = @ \cup UNION {entries[j].cells : j \in DOMAIN entries}]
    /\ Goto(w, pc[w] + 1)
    /\ UNCHANGED <<program, route, tile, stage, swapped, vmcnt, lds, sums>>

(* The products a wave takes: a fragment with no row of the route in it is *)
(* skipped where the program suppresses empty ones, but for the first.     *)
Taken(w, i) ==
    {t \in i.tiles : t[1] = 0 \/ t[1] < ActiveOf(w) \/ ~program.suppress}

MultiplyFragments(w) ==
    LET i == Instruction(w)
        taken == IF i.op = "accumulate" THEN {t.fragment : t \in i.takes}
                 ELSE {<<t[1], t[2]>> : t \in Taken(w, i)}
    IN
    /\ i.op \in {"wmma", "accumulate"}
    /\ sums' = [sums EXCEPT ![w] =
                  [t \in DOMAIN @ |-> IF t \in taken THEN @[t] + 1 ELSE @[t]]]
    /\ Goto(w, pc[w] + 1)
    /\ UNCHANGED <<program, route, tile, stage, swapped, vgpr, vmcnt, lgkmcnt, lds, touched>>

(* The barrier opens when every wave of the workgroup has arrived.  LDS    *)
(* operations still outstanding reach past it.                             *)
Outstanding(w, stores) ==
    UNION {lgkmcnt[w][j].cells : j \in {j \in DOMAIN lgkmcnt[w] : lgkmcnt[w][j].stores = stores}}
OpenBarrier ==
    /\ \A w \in Waves : AtBarrier(w)
    /\ pc' = [w \in Waves |-> pc[w] + 1]
    /\ touched' = [w \in Waves |-> [stores |-> Outstanding(w, TRUE),
                                    loads |-> Outstanding(w, FALSE)]]
    /\ UNCHANGED <<program, route, tile, stage, swapped, vgpr, vmcnt, lgkmcnt, lds, sums>>

-----------------------------------------------------------------------------
(* Between two barriers the waves run one after the other, in every order: *)
(* a wave takes its turn while the others wait at the barrier, have ended, *)
(* or have not left the last one.  Finer interleavings reach nothing else  *)
(* as long as no two waves touch the same cells (NoLdsRace).               *)
Turn(w) ==
    /\ Running(w) /\ ~AtBarrier(w)
    /\ \A v \in Waves \ {w} : ~Running(v) \/ AtBarrier(v) \/ AfterBarrier(v)

Perform(w) ==
    \/ Arithmetic(w)
    \/ Control(w)
    \/ GlobalLoad(w)
    \/ WaitCount(w)
    \/ StoreChunk(w)
    \/ LoadFragments(w)
    \/ ReadRows(w)
    \/ MultiplyFragments(w)
Execute(w) == Turn(w) /\ Perform(w)

(* The workgroup ends when all of its waves have. *)
Ended == (\A w \in Waves : ~Running(w)) /\ UNCHANGED vars

Next == OpenBarrier \/ Ended \/ \E w \in Waves : Execute(w)

Spec == Init /\ [][Next]_vars

-----------------------------------------------------------------------------
Written(i) ==
    CASE i.op = "alu" -> {o[1] : o \in i.outs}
      [] i.op = "copy" -> {v[1] : v \in i.moves}
      [] i.op \in {"advance", "step", "toggle"} -> i.registers
      [] i.op = "load" -> i.via \cup (i.base .. i.base + i.n - 1)
      [] i.op = "lds_load" ->
           UNION {p[1] .. p[1] + p[2] - 1 : p \in {i.parts[j] : j \in DOMAIN i.parts}}
      [] i.op = "lds_read" ->
           UNION {p.base .. p.base + p.n - 1 : p \in {i.parts[j] : j \in DOMAIN i.parts}}
      [] OTHER -> {}

Operands(i) ==
    CASE i.op = "alu" -> i.ins \cup i.shared
      [] i.op \in {"load", "store"} -> i.ins
      [] i.op \in {"lds_store", "lds_write"} -> i.ins \cup i.addresses
      [] i.op \in {"lds_load", "lds_read"} -> i.addresses
      [] OTHER -> {}

(* Every register an instruction reads holds what the code put there for   *)
(* it: no load into it is outstanding, nothing has used it as a temporary  *)
(* since, and all of it belongs to one stage.  Nothing is written into a   *)
(* register a load has still to fill, or outside of the allocation.        *)
OperandsReady ==
    \A w \in Waves : Running(w) =>
        LET i == Instruction(w) IN
        /\ \A o \in Operands(i) : Holds(w, o)
        /\ i.op = "alu" => Cardinality(ResultStages(w, i)) <= 1
        /\ i.op \in {"load", "lds_store", "lds_write"} => Cardinality(StagesOf(w, i.ins, {})) <= 1
        /\ i.op \in {"lds_store", "lds_load"} =>
              Cardinality({Content(w, o[1])[3] : o \in i.addresses}) <= 1
        /\ Written(i) \subseteq DOMAIN vgpr[w]
        /\ \A r \in Written(i) : Content(w, r) # Pending
        /\ i.op \in {"advance", "step", "copy"} =>
              \A r \in (IF i.op # "copy" THEN i.registers ELSE {v[2] : v \in i.moves}) :
                 Content(w, r) \notin {Unset, Pending}

(* A product takes an activation fragment and a weight fragment of the     *)
(* same projection, stage and offset, both complete, into the sum of its   *)
(* fragment, and every sum takes the products in the order of the          *)
(* contraction.  Rows outside the route are zero.                          *)
ProductsMatch ==
    \A w \in Waves : Running(w) /\ Instruction(w).op = "wmma" =>
        \A t \in Taken(w, Instruction(w)) :
            LET next == sums[w][<<t[1], t[2]>>] + 1
                at == program.order[next]
                empty == t[1] >= ActiveOf(w)
            IN
            /\ next \in DOMAIN program.order
            /\ \A j \in 0 .. 7 :
                 /\ Content(w, t[3] + j) = IF empty THEN <<"zero", t[1], Static, 0>>
                                           ELSE <<"A", t[1]>> \o at
                 /\ Content(w, t[4] + j) = <<"B", t[2]>> \o at
                 /\ Content(w, t[5] + j) = <<"sum", <<t[1], t[2]>>, Static, 0>>
(* The same of scaled products: they and their scales belong to the stage   *)
(* whose turn it is.                                                        *)
ScaledProductsMatch ==
    \A w \in Waves : Running(w) /\ Instruction(w).op = "accumulate" =>
        \A t \in Instruction(w).takes :
            LET next == sums[w][t.fragment] + 1
                at == program.order[next]
            IN
            /\ next \in DOMAIN program.order
            /\ \A o \in t.ins : Holds(w, o) /\ Content(w, o[1])[3] = at[1]
            /\ \A r \in t.totals : Content(w, r) = <<"sum", t.fragment, Static, 0>>
FragmentsMatch == ProductsMatch /\ ScaledProductsMatch

(* Between two barriers no wave stores to an LDS cell another one stores   *)
(* to or reads, with the operations a barrier did not wait for.            *)
NoLdsRace ==
    \A w, v \in Waves : w # v =>
        touched[w].stores \cap (touched[v].stores \cup touched[v].loads) = {}

(* A wave that stores its output tile has taken every product of the       *)
(* contraction into every fragment with a row of the route in it.          *)
ContractionComplete ==
    \A w \in Waves : Running(w) /\ Instruction(w).op = "store" =>
        \A t \in DOMAIN sums[w] :
            t[1] < ActiveOf(w) => sums[w][t] = Len(program.order)

(* The branches around the barriers agree: no wave ends while another one  *)
(* waits for it, and those that meet meet at the same barrier.             *)
BarriersAgree ==
    \A w, v \in Waves : AtBarrier(w) =>
        /\ Running(v)
        /\ AtBarrier(v) => pc[w] = pc[v]
-----------------------------------------------------------------------------
(* What can be read off the text of a program, and what the proofs about   *)
(* every number of waves, stages and route tiles ask of it.                *)
Uniform == {"no_more", "more", "before_last", "more_tiles", "more_full", "no_full",
            "short_route", "no_tiles", "always"}
Divergent == {"not_decoding", "inactive", "active"}
Machine == {"alu", "advance", "step", "copy", "toggle", "count", "branch", "begin_tile", "swap",
            "store", "load", "wait", "lds_store", "lds_write", "lds_load", "lds_read", "wmma",
            "accumulate", "barrier"}

(* What a branch at c may skip for one wave and not for another one, and   *)
(* what they come to on the way, is left at end only and neither counts nor *)
(* holds a barrier.                                                        *)
RejoinsAt(code, c, end) ==
    /\ c + 1 + code[c].skip \in c + 1 .. end
    /\ \A d \in c + 1 .. end - 1 :
         /\ code[d].op \notin {"barrier", "count", "begin_tile"}
         /\ code[d].op = "branch" => code[d].skip >= 0 /\ d + 1 + code[d].skip <= end

(* All waves walk the same number of tiles, count alike, and part only to  *)
(* meet again before the next barrier.                                     *)
IsStructured(p) ==
    /\ Len(p.code) \in Nat /\ p.stages \in Nat \ {0}
    /\ \A rt \in p.routes : \A w, v \in Waves : Len(rt.active[w]) = Len(rt.active[v])
    /\ \A c \in 1 .. Len(p.code) :
         /\ p.code[c].op \in Machine
         /\ p.code[c].op = "count" => p.code[c].n \in Nat
         /\ p.code[c].op = "branch" =>
              /\ p.code[c].when \in Uniform \cup Divergent
              /\ p.code[c].skip \in Int
              /\ c + 1 + p.code[c].skip \in 1 .. Len(p.code) + 1
              /\ p.code[c].when \in Divergent =>
                   \E end \in c + 1 .. Len(p.code) + 1 : RejoinsAt(p.code, c, end)

(* A point of the text: the next instruction, and whether two stages of the *)
(* contraction or more are left, the last one, or none.                    *)
Points(p) == (1 .. Len(p.code) + 1) \X (0 .. 2)
Left(p, g) == IF g >= p.stages THEN 0 ELSE IF g >= p.stages - 1 THEN 1 ELSE 2
Counted(left, n) ==
    CASE n = 0 -> {left}
      [] n = 1 /\ left = 2 -> {1, 2}
      [] n > 1 /\ left = 2 -> 0 .. 2
      [] OTHER -> {0}
Skips(i, left, short) ==
    CASE i.when = "no_more" -> {IF left = 0 THEN i.skip ELSE 0}
      [] i.when = "more" -> {IF left = 0 THEN 0 ELSE i.skip}
      [] i.when = "before_last" -> {IF left = 2 THEN i.skip ELSE 0}
      [] i.when = "short_route" -> {IF short THEN i.skip ELSE 0}
      [] i.when = "always" -> {i.skip}
      [] OTHER -> {0, i.skip}
Following(p, short, x) ==
    LET i == p.code[x[1]] IN
    CASE i.op = "branch" -> {<<x[1] + 1 + n, x[2]>> : n \in Skips(i, x[2], short)}
      [] i.op = "count" -> {<<x[1] + 1, left>> : left \in Counted(x[2], i.n)}
      [] i.op = "begin_tile" -> {<<x[1] + 1, Left(p, 0)>>}
      [] OTHER -> {<<x[1] + 1, x[2]>>}

(* The places of LDS an instruction stores to, and those of all waves that  *)
(* it reads: cells without the buffer and the wave.                        *)
LdsOps == {"lds_store", "lds_write", "lds_load", "lds_read"}
StoredPlaces(i) ==
    CASE i.op = "lds_store" -> {i.cell}
      [] i.op = "lds_write" -> DOMAIN i.ahead
      [] OTHER -> {}
PartsPlaces(i) == UNION {i.parts[j].cells : j \in DOMAIN i.parts}
ReadPlaces(p, i) ==
    CASE i.op = "lds_load" /\ i.role = "grid" -> {p.rows} \X (0 .. p.codebook - 1)
      [] i.op = "lds_load" /\ i.role # "grid" -> (0 .. p.rows - 1) \X (0 .. 3)
      [] i.op = "lds_read" /\ i.whose # "own" -> PartsPlaces(i)
      [] OTHER -> {}
IsPlace(c) == c = <<c[1], c[2]>>
LdsTyped(i) ==
    /\ \A c \in StoredPlaces(i) : IsPlace(c)
    /\ i.op = "wait" => i.lgkm \in Nat
    /\ i.op = "lds_store" => i.n \in Nat
    /\ i.op \in {"lds_load", "lds_read"} => DOMAIN i.parts = 1 .. Len(i.parts) /\ Len(i.parts) \in Nat
    /\ i.op = "lds_read" => /\ i.whose \in {"own", "all", "decoders"}
                            /\ \A c \in PartsPlaces(i) : IsPlace(c)

(* A division of the points a wave may come to in a route into zones that   *)
(* are left at barriers only and in none of which what one wave stores is   *)
(* read by another; at the points in idle no LDS operation is outstanding,  *)
(* which barriers need.                                                     *)
IsZoning(p, short, z) ==
    /\ z.points \subseteq Points(p) /\ <<1, Left(p, 0)>> \in z.points
    /\ \A x \in z.points : x[1] # Len(p.code) + 1 =>
         LET i == p.code[x[1]] IN
         /\ i.op = "barrier" => x \in z.idle
         /\ \A y \in Following(p, short, x) :
              /\ y \in z.points
              /\ i.op # "barrier" => z.zone[y] = z.zone[x]
              /\ y \in z.idle => \/ i.op = "wait" /\ i.lgkm = 0
                                 \/ i.op \notin LdsOps /\ x \in z.idle
         /\ LdsTyped(i)
         /\ StoredPlaces(i) \subseteq z.stored[z.zone[x]]
         /\ ReadPlaces(p, i) \subseteq z.read[z.zone[x]]
    /\ \A x \in z.points : z.stored[z.zone[x]] \cap z.read[z.zone[x]] = {}

(* The sums.  Of the places in the text a wave may come to, it has a tile of *)
(* the route before it at those in more, and begins tiles there; at those in *)
(* fresh it may not have begun one, and stores none.                       *)
Onward(i, c, short) ==
    IF i.op = "branch" THEN {c + 1 + n : n \in UNION {Skips(i, left, short) : left \in 0 .. 2}}
    ELSE {c + 1}
IsBeginning(p, short, z) ==
    /\ z.places \subseteq 1 .. Len(p.code) + 1
    /\ 1 \in z.places /\ 1 \in z.fresh /\ 1 \in z.more
    /\ \A c \in z.places \ {Len(p.code) + 1} :
         LET i == p.code[c] IN
         /\ Onward(i, c, short) \subseteq z.places
         /\ c \in z.fresh /\ i.op # "begin_tile" => Onward(i, c, short) \subseteq z.fresh
         /\ c \in z.fresh => i.op # "store"
         /\ i.op = "begin_tile" => c \in z.more /\ c + 1 \notin z.more
         /\ c \notin z.more =>
              /\ c + 1 \in z.more => i.op = "branch" /\ i.when \in {"no_tiles", "no_full", "always"}
              /\ i.op = "branch" /\ c + 1 + i.skip \in z.more =>
                   i.when \in {"more_tiles", "more_full"}

(* For a wave with rows in its tile, the points it may come to, and for the *)
(* fragments that may hold rows of it the products a walk to a point has    *)
(* taken beyond those of the stages counted: done up to the place in the    *)
(* text, off what branches and loops repeat or leave out.                  *)
Products(i) ==
    CASE i.op = "wmma" -> {<<t[1], t[2]>> : t \in i.tiles}
      [] i.op = "accumulate" -> {t.fragment : t \in i.takes}
      [] OTHER -> {}
WithProducts(sum, i) ==
    IF Products(i) = {} THEN sum
    ELSE [t \in DOMAIN sum |-> IF t \in Products(i) THEN sum[t] + 1 ELSE sum[t]]
FollowingActive(p, short, x) ==
    LET i == p.code[x[1]] IN
    CASE i.op = "branch" /\ i.when = "active" -> {<<x[1] + 1 + i.skip, x[2]>>}
      [] i.op = "branch" /\ i.when = "inactive" -> {<<x[1] + 1, x[2]>>}
      [] OTHER -> Following(p, short, x)
Tally(z, x, t) == z.done[x[1]][t] - z.off[x]

(* The fragments a route may have rows in, of the first z.rows rows of them. *)
Fragments(p, z) == {t \in p.tiles : t[1] < z.rows}
RowsWithin(p, rt, z) ==
    /\ z.rows \in Nat /\ Len(p.order) \in Nat /\ \A t \in p.tiles : t[1] \in Nat
    /\ rt.full \in Nat
    /\ \A w \in Waves :
         /\ Len(rt.active[w]) \in Nat \ {0} /\ rt.full <= Len(rt.active[w])
         /\ \A n \in 1 .. Len(rt.active[w]) : rt.active[w][n] \in 0 .. z.rows

(* Before a wave stores its tile the walk has taken the products of every   *)
(* stage into each of these fragments.                                     *)
IsTallying(p, short, z) ==
    /\ z.rate \in Nat /\ z.rate * p.stages = Len(p.order)
    /\ z.unit \in Nat /\ \E k \in 1 .. p.stages : z.unit * k = p.stages
    /\ \A c \in z.places :
         /\ z.done[c] \in [Fragments(p, z) -> Int]
         /\ c # Len(p.code) + 1 =>
              /\ z.done[c + 1] = WithProducts(z.done[c], p.code[c])
              /\ p.code[c].op = "begin_tile" =>
                   LET x == <<c + 1, Left(p, 0)>> IN
                   x \in z.live /\ \A t \in Fragments(p, z) : Tally(z, x, t) = 0
    /\ \A x \in z.live :
         /\ x[1] \in z.places /\ z.off[x] \in Int
         /\ x[1] # Len(p.code) + 1 =>
              LET i == p.code[x[1]] IN
              /\ i.op # "begin_tile" =>
                   \A y \in FollowingActive(p, short, x) :
                      /\ y \in z.live
                      /\ CASE i.op = "branch" ->
                                \A t \in Fragments(p, z) : Tally(z, y, t) = Tally(z, x, t)
                           [] i.op = "count" -> z.off[y] = z.off[x] + z.rate * i.n
                           [] OTHER -> z.off[y] = z.off[x]
              /\ i.op = "count" => i.n = z.unit /\ x[2] # 0
              /\ i.op = "store" => /\ x[2] # 2
                                   /\ \A t \in Fragments(p, z) : Tally(z, x, t) = x[2] * z.rate
=============================================================================
