------------------------------- MODULE WaveCode -------------------------------
(***************************************************************************)
(* The instructions an emitted assembly body is made of, at the level at   *)
(* which its schedule is checked, and how bodies are put together.         *)
(***************************************************************************)
EXTENDS Integers, Sequences

CONSTANT Waves   \* the modelled waves, in the order of their first lane

Static == -1   \* not of any stage, or the first LDS buffer
Second == 100

-----------------------------------------------------------------------------
(* The instructions.  An operand is <<register, role, index>>, a result    *)
(* <<register, role, index, k>>; both are given as sets.                   *)
Span(base, n, role, ix) == {<<base + i, role, ix>> : i \in 0 .. n - 1}
Filled(base, n, role, ix) == {<<base + i, role, ix, 0>> : i \in 0 .. n - 1}

(* Results of an ALU sequence belong to the stage of its operands, or of   *)
(* the loop counter plus an offset where it reads that.                    *)
Alu(ins, outs) ==
    <<[op |-> "alu", ins |-> ins, shared |-> {}, ahead |-> 0, counters |-> {}, outs |-> outs]>>
AluAt(offset, ins, outs) == <<[Alu(ins, outs)[1] EXCEPT !.counters = {offset}]>>
(* With operands shared by several stages, of which this one is so many     *)
(* ahead of the first.                                                      *)
AluShared(ahead, shared, ins, outs) ==
    <<[Alu(ins, outs)[1] EXCEPT !.shared = shared, !.ahead = ahead]>>
AluAhead(ahead, shared, outs) == AluShared(ahead, shared, {}, outs)
Advance(registers, dk) == <<[op |-> "advance", registers |-> registers, dk |-> dk]>>
(* Addresses move on by n stages of the contraction.                        *)
StepStage(registers, n) == <<[op |-> "step", registers |-> registers, n |-> n]>>
Copy(moves) == <<[op |-> "copy", moves |-> moves]>>
Toggle(registers) == <<[op |-> "toggle", registers |-> registers]>>
CountStages(n) == <<[op |-> "count", n |-> n]>>
CountStage == CountStages(1)
(* Starts an output tile: the loop counter at zero, the sums at zero.      *)
BeginTile == <<[op |-> "begin_tile"]>>
SwapPointers(pointers) == <<[op |-> "swap", pointers |-> pointers]>>
(* A global load; the last address step writes the registers in via.       *)
LoadVia(ins, via, base, n, role, ix) ==
    <<[op |-> "load", ins |-> ins, via |-> via, base |-> base, n |-> n,
       role |-> role, ix |-> ix, ahead |-> 0, masked |-> FALSE, bank |-> 0]>>
(* Masked by the rows of a route: a fragment with no row in it loads nothing. *)
Masked(code) == [j \in DOMAIN code |-> [code[j] EXCEPT !.masked = TRUE]]
Load(ins, base, n, role, ix) == LoadVia(ins, {}, base, n, role, ix)
(* With an offset of so many stages in the instruction.                    *)
LoadAhead(ahead, ins, base, n, role, ix) ==
    <<[Load(ins, base, n, role, ix)[1] EXCEPT !.ahead = ahead]>>
Wait(vm, lgkm) == <<[op |-> "wait", vm |-> vm, lgkm |-> lgkm]>>
WaitLoads(n) == Wait(n, 63)
WaitLds(n) == Wait(63, n)
(* n stores of a decoded chunk: to the buffer of the address registers,    *)
(* the cell <<row, chunk>> of the wave's share.                            *)
LdsStore(n, ins, addresses, cell) ==
    <<[op |-> "lds_store", role |-> "value", n |-> n, ins |-> ins, addresses |-> addresses,
       cell |-> cell, second |-> 0]>>
(* Loads of weight fragments into register ranges <<base, n, tile>>, from  *)
(* the decoded rows that hold the elements at the address.                 *)
LdsLoad(addresses, parts) ==
    <<[op |-> "lds_load", role |-> "B", addresses |-> addresses, parts |-> parts,
       second |-> 0]>>
(* Loads of codebook entries, for the stage their addresses belong to.     *)
LdsGather(addresses, parts) ==
    <<[op |-> "lds_load", role |-> "grid", addresses |-> addresses, parts |-> parts,
       second |-> 0]>>
(* LDS laid out in rows, one of each region for every row a wave stages:    *)
(* the bytes of a row from an offset on are written, at an offset <<at,     *)
(* ahead>> for each part of the lanes, which may be so many stages ahead,   *)
(* and read back from the wave's own rows or from those of every wave.      *)
Dwords(region, at, bytes) == {region} \X (at \div 4 .. (at + bytes - 1) \div 4)
LdsWriteAll(role, ins, addresses, region, offsets, bytes) ==
    LET cells == UNION {Dwords(region, o[1], bytes) : o \in offsets} IN
    <<[op |-> "lds_write", role |-> role, ins |-> ins, addresses |-> addresses,
       ahead |-> [c \in cells |->
                    (CHOOSE o \in offsets : c \in Dwords(region, o[1], bytes))[2]]]>>
LdsWrite(role, ins, addresses, region, at, bytes) ==
    LdsWriteAll(role, ins, addresses, region, {<<at, 0>>}, bytes)
Part(base, n, role, ix, region, at) ==
    [base |-> base, n |-> n, role |-> role, ix |-> ix, cells |-> Dwords(region, at, 4 * n),
     held |-> role, ahead |-> 0]
(* The same dword of n rows.                                                *)
RowsPart(base, n, role, ix, region, at) ==
    [Part(base, n, role, ix, region, at) EXCEPT !.cells = Dwords(region, at, 4)]
(* A piece, so many stages ahead, of what the cells hold as a whole.        *)
PieceOf(held, ahead, base, n, role, ix, cells) ==
    [base |-> base, n |-> n, role |-> role, ix |-> ix, cells |-> cells,
     held |-> held, ahead |-> ahead]
(* What the wave itself wrote, every wave, or the waves that decode.        *)
LdsRead(whose, addresses, parts) ==
    <<[op |-> "lds_read", whose |-> whose, addresses |-> addresses, parts |-> parts]>>
LdsReadOwn(addresses, parts) == LdsRead("own", addresses, parts)
LdsReadShared(addresses, parts) == LdsRead("all", addresses, parts)
LdsReadDecoded(addresses, parts) == LdsRead("decoders", addresses, parts)
Barrier == <<[op |-> "barrier"]>>
(* Products <<m, n, activation base, weight base, accumulator base>>.      *)
Multiply(tiles) == <<[op |-> "wmma", tiles |-> tiles]>>
(* Scaled products added to the sums of a fragment: the registers of the    *)
(* products and scales, and the sums.                                       *)
Take(fragment, ins, totals) == [fragment |-> fragment, ins |-> ins, totals |-> totals]
Accumulate(takes) == <<[op |-> "accumulate", takes |-> takes]>>
StoreOutput(ins) == <<[op |-> "store", ins |-> ins]>>

(* The same code for the second projection: its LDS tile, its pointers.    *)
SecondTile(code) ==
    [j \in DOMAIN code |->
       IF code[j].op \in {"lds_store", "lds_load"} /\ code[j].role # "grid"
       THEN [code[j] EXCEPT !.second = 1] ELSE code[j]]
SecondPointers(code) ==
    [j \in DOMAIN code |->
       IF code[j].op = "load" /\ code[j].role \notin {"grid", "entry"}
       THEN [code[j] EXCEPT !.bank = 1] ELSE code[j]]

Branch(when, skip) == <<[op |-> "branch", when |-> when, skip |-> skip]>>
Unless(when, body) == Branch(when, Len(body)) \o body
Either(when, body, other) ==
    Branch(when, Len(other) + 1) \o other \o Branch("always", Len(body)) \o body
RepeatWhile(when, body) == body \o Branch(when, -(Len(body) + 1))

(* One piece of code for each i from lo to hi, in that order.              *)
Each(lo, hi, Piece(_)) ==
    LET upto[i \in lo - 1 .. hi] == IF i < lo THEN <<>> ELSE upto[i - 1] \o Piece(i)
    IN upto[hi]

=============================================================================
