---------------------------- MODULE StagePipeline ----------------------------
(***************************************************************************)
(* The stage loop of the backward bodies: the waves of one workgroup       *)
(* decode the packed weight of a contraction stage into a shared LDS tile, *)
(* each wave its own share, and multiply whole tiles.  Three schedules are *)
(* in use: "single" has one tile and two barriers per stage, "pipelined"   *)
(* decodes tiles - 1 stages ahead with one barrier behind the multiply,    *)
(* "staged" decodes one stage ahead with one barrier before the decode.    *)
(* A serial body runs the whole loop once for each row tile of its route,  *)
(* with nothing between the row tiles.                                     *)
(***************************************************************************)
EXTENDS Integers, FiniteSets

CONSTANTS
    Waves,   \* waves of the workgroup
    Shapes   \* the instantiations to run

VARIABLES
    shape,         \* template constants and trip counts of this instantiation
    pc,            \* per wave, where it is in the loop
    row_tile,      \* per wave, row tile of the serial walk
    stage,         \* per wave, loop counter
    tiles,         \* LDS: per tile and wave share, the stage decoded there
    accumulators   \* per wave, <<stage, share, stage found>> it multiplied

vars == <<shape, pc, row_tile, stage, tiles, accumulators>>

WaveIds == 0 .. Waves - 1

(* tiles: LDS tiles; stages: stage_count or ITERATIONS, none in an empty   *)
(* split slice; active: waves that multiply, the others only decode;       *)
(* row_tiles: calls of the tile body.                                      *)
IsShape(s) ==
    /\ s.kind \in {"single", "pipelined", "staged"}
    /\ s.tiles \in Nat \ {0} /\ (s.kind = "single" <=> s.tiles = 1)
    /\ s.stages \in Nat /\ s.row_tiles \in Nat \ {0}
    /\ s.stages = 0 => s.kind = "pipelined"
    /\ s.active \in 1 .. Waves

ASSUME WavesAssumption == Waves \in Nat \ {0}
ASSUME ShapesAssumption == \A s \in Shapes : IsShape(s)

Garbage == -1

Init ==
    /\ shape \in Shapes
    /\ pc = [w \in WaveIds |-> "fill"]
    /\ row_tile = [w \in WaveIds |-> 0]
    /\ stage = [w \in WaveIds |-> 0]
    /\ tiles = [t \in 0 .. shape.tiles - 1 |-> [w \in WaveIds |-> Garbage]]
    /\ accumulators = [w \in WaveIds |-> {}]

TileOf(s) == s % shape.tiles

(* Fault: the prologue fills one tile whatever the depth. *)
PrologueOfOne == 1

(* Stages decoded before the loop, and how far the loop decodes ahead.     *)
Prologue == IF shape.kind = "pipelined" THEN shape.tiles - 1 ELSE 1
(* Fault: the loop decodes as far ahead as there are tiles. *)
AheadByTiles == IF shape.kind = "single" THEN 0 ELSE shape.tiles

Ahead ==
    CASE shape.kind = "single" -> 0
      [] shape.kind = "pipelined" -> shape.tiles - 1
      [] shape.kind = "staged" -> 1

Decoded(w, s) ==
    tiles' = IF s < shape.stages
             THEN [tiles EXCEPT ![TileOf(s)][w] = s] ELSE tiles

(* One decode of the prologue; behind the last one there is a barrier.     *)
Fill(w) ==
    /\ pc[w] = "fill"
    /\ Decoded(w, stage[w])
    /\ IF stage[w] + 1 < Prologue
       THEN stage' = [stage EXCEPT ![w] = @ + 1] /\ pc' = pc
       ELSE stage' = [stage EXCEPT ![w] = 0] /\ pc' = [pc EXCEPT ![w] = "decoded"]
    /\ UNCHANGED <<shape, row_tile, accumulators>>

(* A barrier opens for all waves at once, when all of them wait at it.     *)
Barrier(label, next) ==
    /\ \A w \in WaveIds : pc[w] = label
    /\ pc' = [w \in WaveIds |-> next]
    /\ UNCHANGED <<shape, row_tile, tiles, accumulators>>

DecodedBarrier ==
    /\ Barrier("decoded", IF shape.kind = "single" THEN "multiply"
                          ELSE IF shape.stages = 0 THEN "store" ELSE "decode")
    /\ UNCHANGED stage

Decode(w) ==
    /\ pc[w] = "decode"
    /\ Decoded(w, stage[w] + Ahead)
    /\ pc' = [pc EXCEPT ![w] = IF shape.kind = "single" THEN "decoded" ELSE "multiply"]
    /\ UNCHANGED <<shape, row_tile, stage, accumulators>>

IsActive(w) == w < shape.active

(* Fault: a wave without rows returns before the barrier. *)
MultiplyOrReturn(w) ==
    /\ pc[w] = "multiply"
    /\ accumulators' =
         IF IsActive(w)
         THEN [accumulators EXCEPT ![w] =
                 @ \cup {<<stage[w], v, tiles[TileOf(stage[w])][v]>> : v \in WaveIds}]
         ELSE accumulators
    /\ IF shape.kind = "staged"
       THEN stage' = [stage EXCEPT ![w] = @ + 1] ELSE UNCHANGED stage
    /\ pc' = [pc EXCEPT ![w] =
                IF ~IsActive(w) THEN "done"
                ELSE IF shape.kind # "staged" THEN "multiplied"
                ELSE IF stage[w] + 1 < shape.stages THEN "decoded" ELSE "store"]
    /\ UNCHANGED <<shape, row_tile, tiles>>

Multiply(w) ==
    /\ pc[w] = "multiply"
    /\ accumulators' =
         IF IsActive(w)
         THEN [accumulators EXCEPT ![w] =
                 @ \cup {<<stage[w], v, tiles[TileOf(stage[w])][v]>> : v \in WaveIds}]
         ELSE accumulators
    /\ IF shape.kind = "staged"
       THEN /\ stage' = [stage EXCEPT ![w] = @ + 1]
            /\ pc' = [pc EXCEPT ![w] =
                        IF stage[w] + 1 < shape.stages THEN "decoded" ELSE "store"]
       ELSE /\ pc' = [pc EXCEPT ![w] = "multiplied"]
            /\ UNCHANGED stage
    /\ UNCHANGED <<shape, row_tile, tiles>>

MultipliedBarrier ==
    /\ Barrier("multiplied",
               IF stage[0] + 1 < shape.stages THEN "decode" ELSE "store")
    /\ stage' = [w \in WaveIds |-> stage[w] + 1]

(* Fault: one row tile too many. *)
StoreAndOneMore(w) ==
    /\ pc[w] = "store"
    /\ row_tile' = [row_tile EXCEPT ![w] = @ + 1]
    /\ stage' = [stage EXCEPT ![w] = 0]
    /\ accumulators' = [accumulators EXCEPT ![w] = {}]
    /\ pc' = [pc EXCEPT ![w] = IF row_tile[w] < shape.row_tiles THEN "fill" ELSE "done"]
    /\ UNCHANGED <<shape, tiles>>

(* The epilogue stores the accumulators; a serial body then starts its     *)
(* next row tile with the same LDS tiles.                                  *)
Store(w) ==
    /\ pc[w] = "store"
    /\ row_tile' = [row_tile EXCEPT ![w] = @ + 1]
    /\ stage' = [stage EXCEPT ![w] = 0]
    /\ accumulators' = [accumulators EXCEPT ![w] = {}]
    /\ pc' = [pc EXCEPT ![w] =
                IF row_tile[w] + 1 < shape.row_tiles THEN "fill" ELSE "done"]
    /\ UNCHANGED <<shape, tiles>>

WaveStep(w) == Fill(w) \/ Decode(w) \/ Multiply(w) \/ Store(w)

Next == DecodedBarrier \/ MultipliedBarrier \/ \E w \in WaveIds : WaveStep(w)

(* The hardware schedules every resident wave, and a full barrier opens.   *)
Spec == Init /\ [][Next]_vars /\ WF_vars(Next)

-----------------------------------------------------------------------------
(* The tile a wave is about to write, and the one it is about to read.     *)
Writes(w) ==
    {TileOf(s) : s \in {s \in {stage[w] + (IF pc[w] = "fill" THEN 0 ELSE Ahead)} :
                          pc[w] \in {"fill", "decode"} /\ s < shape.stages}}
Reads(w) ==
    {TileOf(s) : s \in {s \in {stage[w]} : pc[w] = "multiply" /\ IsActive(w)}}

(* Type invariant: no counter runs past its loop, no tile holds a stage    *)
(* beyond the contraction.                                                 *)
TypeOK ==
    /\ shape \in Shapes
    /\ pc \in [WaveIds -> {"fill", "decoded", "decode", "multiply", "multiplied",
                           "store", "done"}]
    /\ row_tile \in [WaveIds -> 0 .. shape.row_tiles]
    /\ stage \in [WaveIds -> 0 .. shape.stages + shape.tiles]
    /\ tiles \in [0 .. shape.tiles - 1 ->
                    [WaveIds -> {Garbage} \cup (0 .. shape.stages - 1)]]

(* No wave decodes into a tile another wave may still be multiplying.      *)
NoTileRace ==
    \A w, v \in WaveIds : w # v => Writes(w) \cap Reads(v) = {}

(* At the epilogue a wave has multiplied every stage of the contraction,   *)
(* and found in each share of the tile the stage it meant to multiply.     *)
FullContraction ==
    \A w \in WaveIds :
        pc[w] = "store" /\ IsActive(w) =>
            accumulators[w] =
                {<<s, v, s>> : s \in 0 .. shape.stages - 1, v \in WaveIds}

(* Waves that only decode meet the same barriers as those that multiply:   *)
(* the workgroup retires.                                                  *)
Drains == <>(\A w \in WaveIds : pc[w] = "done")

(* csrc/ck/grouped_mmq_backward_pair_staged.cuh says that every pair       *)
(* family shares one structure, "STAGES LDS buffers with a single plain    *)
(* barrier per stage": that barrier keeps decode and multiply apart.       *)
OneBarrierPerStageSuffices == shape.kind = "staged" => NoTileRace
=============================================================================
