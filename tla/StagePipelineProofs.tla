------------------------- MODULE StagePipelineProofs -------------------------
(***************************************************************************)
(* The stage loop for any number of waves, LDS tiles, stages, waves that   *)
(* multiply and row tiles.  The argument is about barriers: all waves wait *)
(* at the same barrier next, so two waves are never further apart than one *)
(* stage, and the tiles between the stage that is read and the one that is *)
(* decoded are fewer than there are.  A serial walk of a staged body has   *)
(* no barrier between its row tiles: there the argument needs the last     *)
(* stage and the first one to lie in different tiles.                      *)
(***************************************************************************)
EXTENDS StagePipeline, TLAPS

Places == {"fill", "decoded", "decode", "multiply", "multiplied", "store", "done"}

(* The serial staged walks whose last stage is not in the first tile: an   *)
(* even number of stages in two tiles, and not the sixteen stages in three *)
(* tiles of the M256 control.                                              *)
SerialWalksFit ==
    \A s \in Shapes :
        s.kind = "staged" /\ s.row_tiles > 1 => (s.stages - 1) % s.tiles # 0

(* The barrier a wave waits at next is given by its row tile and a mark in *)
(* it, 2 * s in front of stage s and 2 * s + 1 behind it.  Behind its last *)
(* barrier of a row tile a wave meets the first one of the next row tile.  *)
PastLast(p, s) ==
    \/ p = "store"
    \/ shape.kind = "staged" /\ p \in {"decode", "multiply"} /\ s + 1 = shape.stages

BarrierRow(p, s, r) == IF PastLast(p, s) THEN r + 1 ELSE r

BarrierMark(p, s) ==
    IF PastLast(p, s) \/ p \in {"fill", "done"} THEN 0
    ELSE IF p = "decoded" \/ (p = "decode" /\ shape.kind = "single") THEN 2 * s
    ELSE IF shape.kind = "staged" THEN 2 * s + 2 ELSE 2 * s + 1

Aligned ==
    \A w, v \in WaveIds :
        /\ BarrierRow(pc[w], stage[w], row_tile[w]) = BarrierRow(pc[v], stage[v], row_tile[v])
        /\ BarrierMark(pc[w], stage[w]) = BarrierMark(pc[v], stage[v])

(* Where a wave is in its loops. *)
InLoop(p, s, r) ==
    /\ p = "fill" => s < Prologue
    /\ p = "decoded" => IF shape.kind = "pipelined" THEN s = 0 ELSE s < shape.stages
    /\ p \in {"decode", "multiply", "multiplied"} => s < shape.stages
    /\ p = "multiplied" => shape.kind # "staged"
    /\ p = "store" => s = shape.stages
    /\ p = "done" => s = 0 /\ r = shape.row_tiles
    /\ p # "done" => r < shape.row_tiles

Typed ==
    /\ shape \in Shapes
    /\ pc \in [WaveIds -> Places]
    /\ row_tile \in [WaveIds -> Nat]
    /\ stage \in [WaveIds -> Nat]
    /\ tiles \in [0 .. shape.tiles - 1 ->
                    [WaveIds -> {Garbage} \cup (0 .. shape.stages - 1)]]
    /\ accumulators \in [WaveIds -> SUBSET (Nat \X WaveIds \X Int)]

Control ==
    /\ Typed
    /\ \A w \in WaveIds : InLoop(pc[w], stage[w], row_tile[w])
    /\ Aligned

(* How many stages of its row tile a wave has decoded, and multiplied.     *)
DecodedStages(p, s) ==
    IF shape.kind = "single"
    THEN IF p = "decode" THEN s ELSE IF p \in {"decoded", "multiply", "multiplied"} THEN s + 1 ELSE 0
    ELSE IF shape.kind = "pipelined"
    THEN IF p = "fill" THEN s
         ELSE IF p \in {"decoded", "decode"} THEN s + shape.tiles - 1
         ELSE IF p \in {"multiply", "multiplied"} THEN s + shape.tiles ELSE 0
    ELSE IF p \in {"decoded", "decode", "store"} THEN s + 1
         ELSE IF p = "multiply" THEN s + 2 ELSE 0

MultipliedStages(p, s) ==
    IF p \in {"fill", "done"} THEN 0 ELSE IF p = "multiplied" THEN s + 1 ELSE s

(* The tiles hold the last stages a wave has decoded, as many as there are *)
(* tiles.                                                                  *)
Window(share, d) ==
    \A s \in 0 .. shape.stages - 1 : d - shape.tiles <= s /\ s < d => share[TileOf(s)] = s

(* Until the first barrier of a row tile the last stage of the row tile    *)
(* before stays, for the waves that still multiply it.                     *)
BetweenRows(p, s, r) ==
    /\ shape.kind = "staged"
    /\ p = "done" \/ (r > 0 /\ (p = "fill" \/ (p = "decoded" /\ s = 0)))

LastStays(share) == share[TileOf(shape.stages - 1)] = shape.stages - 1

Share(w) == [t \in 0 .. shape.tiles - 1 |-> tiles[t][w]]

Products(n) == {<<s, v, s>> : s \in 0 .. n - 1, v \in WaveIds}

WaveData(p, s, r, share) ==
    /\ Window(share, DecodedStages(p, s))
    /\ BetweenRows(p, s, r) => LastStays(share)

Data ==
    \A w \in WaveIds :
        /\ WaveData(pc[w], stage[w], row_tile[w], Share(w))
        /\ IsActive(w) => accumulators[w] = Products(MultipliedStages(pc[w], stage[w]))

IInv == Control /\ Data

-----------------------------------------------------------------------------
(* Division leaves a remainder below the divisor.                          *)
LEMMA RemainderRange ==
    ASSUME NEW n \in Nat, NEW d \in Nat \ {0}
    PROVE  /\ n \div d \in Nat
           /\ n % d \in 0 .. d - 1
           /\ n = (n \div d) * d + (n % d)
  BY SMT

(* Two stages less than a pipeline depth apart lie in different tiles.     *)
LEMMA TilesDiffer ==
    ASSUME NEW a \in Nat, NEW b \in Nat, NEW d \in Nat \ {0}, a < b, b < a + d
    PROVE  a % d # b % d
<1> DEFINE p == a \div d
<1> DEFINE q == b \div d
<1> SUFFICES ASSUME a % d = b % d PROVE FALSE
  OBVIOUS
<1>1. /\ p \in Nat /\ q \in Nat
      /\ a = p * d + (a % d) /\ b = q * d + (b % d)
      /\ a % d \in Nat
  <2>1. p \in Nat /\ a % d \in 0 .. d - 1 /\ a = p * d + (a % d)
    BY RemainderRange
  <2>2. q \in Nat /\ b = q * d + (b % d)
    BY RemainderRange
  <2> HIDE DEF p, q
  <2> QED
    BY <2>1, <2>2
<1> HIDE DEF p, q
<1>2. /\ p * d \in Nat /\ q * d \in Nat
      /\ p * d < q * d /\ q * d < p * d + d
  BY <1>1
<1>3. CASE q <= p
  <2>1. q * d <= p * d
    BY <1>1, <1>3
  <2> QED
    BY <1>2, <2>1
<1>4. CASE p + 1 <= q
  <2>1. (p + 1) * d <= q * d
    BY <1>1, <1>4
  <2>2. (p + 1) * d = p * d + d
    BY <1>1
  <2> QED
    BY <1>2, <2>1, <2>2
<1> QED
  BY <1>1, <1>3, <1>4

(* What every shape is known to satisfy.                                   *)
LEMMA ShapeFacts ==
    ASSUME shape \in Shapes
    PROVE  /\ shape.kind \in {"single", "pipelined", "staged"}
           /\ shape.tiles \in Nat \ {0}
           /\ shape.kind # "single" => shape.tiles >= 2
           /\ shape.kind = "single" => shape.tiles = 1
           /\ shape.stages \in Nat
           /\ shape.kind # "pipelined" => shape.stages >= 1
           /\ shape.row_tiles \in Nat \ {0}
           /\ shape.active \in 1 .. Waves
           /\ Waves \in Nat \ {0}
           /\ Prologue \in Nat \ {0}
           /\ Ahead \in Nat
           /\ \A s \in Nat : TileOf(s) \in 0 .. shape.tiles - 1
<1>1. IsShape(shape)
  BY ShapesAssumption
<1>2. /\ shape.kind \in {"single", "pipelined", "staged"}
      /\ shape.tiles \in Nat \ {0}
      /\ shape.kind # "single" => shape.tiles >= 2
      /\ shape.kind = "single" => shape.tiles = 1
  BY <1>1 DEF IsShape
<1>3. Prologue \in Nat \ {0} /\ Ahead \in Nat
  BY <1>2 DEF Prologue, Ahead
<1>4. \A s \in Nat : TileOf(s) \in 0 .. shape.tiles - 1
  BY <1>2, RemainderRange DEF TileOf
<1> QED
  BY <1>1, <1>2, <1>3, <1>4, WavesAssumption DEF IsShape

(* A decode changes the wave's own share of one tile.                      *)
LEMMA DecodeShare ==
    ASSUME Typed, NEW w \in WaveIds, NEW s \in Nat, Decoded(w, s), UNCHANGED shape
    PROVE  /\ tiles' \in [0 .. shape.tiles - 1 ->
                             [WaveIds -> {Garbage} \cup (0 .. shape.stages - 1)]]
           /\ \A v \in WaveIds \ {w} : Share(v)' = Share(v)
           /\ Share(w)' = IF s < shape.stages THEN [Share(w) EXCEPT ![TileOf(s)] = s]
                                              ELSE Share(w)
<1>1. shape.stages \in Nat /\ TileOf(s) \in 0 .. shape.tiles - 1
  BY ShapeFacts DEF Typed
<1>2. CASE s < shape.stages
  <2>1. tiles' = [tiles EXCEPT ![TileOf(s)][w] = s]
    BY <1>2 DEF Decoded
  <2>2. s \in 0 .. shape.stages - 1
    BY <1>1, <1>2
  <2> QED
    BY <1>1, <1>2, <2>1, <2>2 DEF Typed, Share
<1>3. CASE ~ (s < shape.stages)
  BY <1>3 DEF Decoded, Typed, Share
<1> QED
  BY <1>2, <1>3

-----------------------------------------------------------------------------
(* The first fill.                                                         *)
LEMMA InitControl == Init => Control
<1> SUFFICES ASSUME Init PROVE Control
  OBVIOUS
<1>1. shape \in Shapes
  BY DEF Init
<1>2. Typed
  BY <1>1, ShapeFacts DEF Init, Typed, Places
<1>3. ASSUME NEW w \in WaveIds PROVE InLoop(pc[w], stage[w], row_tile[w])
  <2>1. Prologue \in Nat \ {0} /\ shape.row_tiles \in Nat \ {0}
    BY <1>1, ShapeFacts
  <2>2. pc[w] = "fill" /\ stage[w] = 0 /\ row_tile[w] = 0
    BY DEF Init
  <2> QED
    BY <2>1, <2>2 DEF InLoop
<1>4. Aligned
  BY DEF Init, Aligned, BarrierRow, BarrierMark, PastLast
<1> QED
  BY <1>2, <1>3, <1>4 DEF Control

(* A step of one wave between two barriers: it waits at the same barrier   *)
(* as before.                                                              *)
LEMMA LocalControl ==
    ASSUME Control, Typed', UNCHANGED shape, NEW w \in WaveIds,
           \A v \in WaveIds \ {w} :
               pc'[v] = pc[v] /\ stage'[v] = stage[v] /\ row_tile'[v] = row_tile[v],
           InLoop(pc'[w], stage'[w], row_tile'[w]),
           BarrierRow(pc'[w], stage'[w], row_tile'[w]) = BarrierRow(pc[w], stage[w], row_tile[w]),
           BarrierMark(pc'[w], stage'[w]) = BarrierMark(pc[w], stage[w])
    PROVE  Control'
<1>1. ASSUME NEW v \in WaveIds
      PROVE  /\ InLoop(pc'[v], stage'[v], row_tile'[v])
             /\ BarrierRow(pc'[v], stage'[v], row_tile'[v]) = BarrierRow(pc[v], stage[v], row_tile[v])
             /\ BarrierMark(pc'[v], stage'[v]) = BarrierMark(pc[v], stage[v])
  <2>1. CASE v = w
    BY <2>1
  <2>2. CASE v # w
    BY <2>2 DEF Control
  <2> QED
    BY <2>1, <2>2
<1>2. Aligned'
  BY <1>1 DEF Control, Aligned, BarrierRow, BarrierMark, PastLast
<1>3. \A v \in WaveIds : InLoop(pc[v], stage[v], row_tile[v])'
  BY <1>1 DEF InLoop, Prologue
<1> QED
  BY <1>2, <1>3 DEF Control

LEMMA FillControl ==
    ASSUME Control, NEW w \in WaveIds, Fill(w)
    PROVE  Control'
<1> DEFINE p == pc'[w]
<1> DEFINE s == stage'[w]
<1>1. /\ pc[w] = "fill" /\ stage[w] \in Nat /\ row_tile[w] \in Nat
      /\ row_tile[w] < shape.row_tiles
      /\ UNCHANGED <<shape, row_tile, accumulators>> /\ Decoded(w, stage[w])
  BY DEF Fill, Control, Typed, InLoop
<1>2. /\ \A v \in WaveIds \ {w} : pc'[v] = pc[v] /\ stage'[v] = stage[v]
      /\ pc' \in [WaveIds -> Places] /\ stage' \in [WaveIds -> Nat]
      /\ \/ p = "fill" /\ s = stage[w] + 1 /\ s < Prologue
         \/ p = "decoded" /\ s = 0
  <2>1. CASE stage[w] + 1 < Prologue
    <3>1. stage' = [stage EXCEPT ![w] = stage[w] + 1] /\ pc' = pc
      BY <2>1 DEF Fill
    <3> QED
      BY <1>1, <2>1, <3>1 DEF Control, Typed
  <2>2. CASE ~ (stage[w] + 1 < Prologue)
    <3>1. stage' = [stage EXCEPT ![w] = 0] /\ pc' = [pc EXCEPT ![w] = "decoded"]
      BY <2>2 DEF Fill
    <3> QED
      BY <3>1 DEF Control, Typed, Places
  <2> QED
    BY <2>1, <2>2
<1> HIDE DEF p, s
<1>3. Typed'
  BY <1>1, <1>2, DecodeShare DEF Control, Typed
<1>4. /\ InLoop(p, s, row_tile'[w])
      /\ BarrierRow(p, s, row_tile'[w]) = BarrierRow(pc[w], stage[w], row_tile[w])
      /\ BarrierMark(p, s) = BarrierMark(pc[w], stage[w])
  <2>1. shape.kind # "pipelined" => shape.stages \in Nat /\ shape.stages >= 1
    BY ShapeFacts DEF Control, Typed
  <2> QED
    BY <1>1, <1>2, <2>1 DEF InLoop, BarrierRow, BarrierMark, PastLast
<1> QED
  BY <1>1, <1>2, <1>3, <1>4, LocalControl DEF p, s

LEMMA DecodeControl ==
    ASSUME Control, NEW w \in WaveIds, Decode(w)
    PROVE  Control'
<1> DEFINE p == pc'[w]
<1>1. /\ pc[w] = "decode" /\ stage[w] \in Nat /\ row_tile[w] \in Nat
      /\ row_tile[w] < shape.row_tiles /\ stage[w] < shape.stages
      /\ UNCHANGED <<shape, row_tile, stage, accumulators>>
      /\ Decoded(w, stage[w] + Ahead)
  BY DEF Decode, Control, Typed, InLoop
<1>2. /\ \A v \in WaveIds \ {w} : pc'[v] = pc[v]
      /\ pc' \in [WaveIds -> Places]
      /\ p = IF shape.kind = "single" THEN "decoded" ELSE "multiply"
  BY DEF Decode, Control, Typed, Places
<1> HIDE DEF p
<1>3. stage[w] + Ahead \in Nat
  <2>1. Ahead \in Nat
    BY ShapeFacts DEF Control, Typed
  <2> QED
    BY <1>1, <2>1
<1>4. Typed'
  BY <1>1, <1>2, <1>3, DecodeShare DEF Control, Typed
<1>5. /\ InLoop(p, stage[w], row_tile[w])
      /\ BarrierRow(p, stage[w], row_tile[w]) = BarrierRow(pc[w], stage[w], row_tile[w])
      /\ BarrierMark(p, stage[w]) = BarrierMark(pc[w], stage[w])
  BY <1>1, <1>2, ShapeFacts
  DEF Control, Typed, InLoop, BarrierRow, BarrierMark, PastLast
<1> QED
  BY <1>1, <1>2, <1>4, <1>5, LocalControl DEF p

LEMMA MultiplyControl ==
    ASSUME Control, NEW w \in WaveIds, Multiply(w)
    PROVE  Control'
<1> DEFINE p == pc'[w]
<1> DEFINE s == stage'[w]
<1>1. /\ pc[w] = "multiply" /\ stage[w] \in Nat /\ row_tile[w] \in Nat
      /\ row_tile[w] < shape.row_tiles /\ stage[w] < shape.stages
      /\ UNCHANGED <<shape, row_tile, tiles>>
  BY DEF Multiply, Control, Typed, InLoop
<1>2. /\ \A v \in WaveIds \ {w} : pc'[v] = pc[v] /\ stage'[v] = stage[v]
      /\ pc' \in [WaveIds -> Places] /\ stage' \in [WaveIds -> Nat]
      /\ shape.kind = "staged" =>
            /\ s = stage[w] + 1
            /\ p = IF stage[w] + 1 < shape.stages THEN "decoded" ELSE "store"
      /\ shape.kind # "staged" => s = stage[w] /\ p = "multiplied"
  <2>1. CASE shape.kind = "staged"
    <3>1. /\ stage' = [stage EXCEPT ![w] = stage[w] + 1]
          /\ pc' = [pc EXCEPT ![w] =
                       IF stage[w] + 1 < shape.stages THEN "decoded" ELSE "store"]
      BY <2>1 DEF Multiply
    <3> QED
      BY <1>1, <2>1, <3>1 DEF Control, Typed, Places
  <2>2. CASE shape.kind # "staged"
    <3>1. stage' = stage /\ pc' = [pc EXCEPT ![w] = "multiplied"]
      BY <2>2 DEF Multiply
    <3> QED
      BY <2>2, <3>1 DEF Control, Typed, Places
  <2> QED
    BY <2>1, <2>2
<1> HIDE DEF p, s
<1>3. accumulators' \in [WaveIds -> SUBSET (Nat \X WaveIds \X Int)]
  <2> DEFINE new == {<<stage[w], v, tiles[TileOf(stage[w])][v]>> : v \in WaveIds}
  <2>1. \A v \in WaveIds : tiles[TileOf(stage[w])][v] \in Int
    <3>1. TileOf(stage[w]) \in 0 .. shape.tiles - 1 /\ shape.stages \in Nat
      BY <1>1, ShapeFacts DEF Control, Typed
    <3> QED
      BY <3>1 DEF Control, Typed, Garbage
  <2>2. new \in SUBSET (Nat \X WaveIds \X Int)
    BY <1>1, <2>1
  <2>3. accumulators' = IF IsActive(w) THEN [accumulators EXCEPT ![w] = @ \cup new]
                        ELSE accumulators
    BY DEF Multiply
  <2> HIDE DEF new
  <2> QED
    BY <2>2, <2>3 DEF Control, Typed
<1>4. Typed'
  BY <1>1, <1>2, <1>3 DEF Control, Typed
<1>5. /\ InLoop(p, s, row_tile[w])
      /\ BarrierRow(p, s, row_tile[w]) = BarrierRow(pc[w], stage[w], row_tile[w])
      /\ BarrierMark(p, s) = BarrierMark(pc[w], stage[w])
  <2>1. shape.stages \in Nat
    BY ShapeFacts DEF Control, Typed
  <2> QED
    BY <1>1, <1>2, <2>1 DEF InLoop, BarrierRow, BarrierMark, PastLast
<1> QED
  BY <1>1, <1>2, <1>4, <1>5, LocalControl DEF p, s

LEMMA StoreControl ==
    ASSUME Control, NEW w \in WaveIds, Store(w)
    PROVE  Control'
<1> DEFINE p == pc'[w]
<1> DEFINE r == row_tile[w] + 1
<1>1. /\ pc[w] = "store" /\ row_tile[w] \in Nat
      /\ row_tile[w] < shape.row_tiles
      /\ UNCHANGED <<shape, tiles>>
  BY DEF Store, Control, Typed, InLoop
<1>2. /\ \A v \in WaveIds \ {w} :
            pc'[v] = pc[v] /\ stage'[v] = stage[v] /\ row_tile'[v] = row_tile[v]
      /\ pc' \in [WaveIds -> Places] /\ stage' \in [WaveIds -> Nat]
      /\ row_tile' \in [WaveIds -> Nat]
      /\ accumulators' \in [WaveIds -> SUBSET (Nat \X WaveIds \X Int)]
      /\ stage'[w] = 0 /\ row_tile'[w] = r
      /\ p = IF row_tile[w] + 1 < shape.row_tiles THEN "fill" ELSE "done"
  BY DEF Store, Control, Typed, Places
<1>3. Typed'
  BY <1>1, <1>2 DEF Control, Typed
<1> HIDE DEF p
<1>4. /\ InLoop(p, 0, r)
      /\ BarrierRow(p, 0, r) = BarrierRow(pc[w], stage[w], row_tile[w])
      /\ BarrierMark(p, 0) = BarrierMark(pc[w], stage[w])
  <2>1. Prologue \in Nat \ {0} /\ shape.row_tiles \in Nat
    BY ShapeFacts DEF Control, Typed
  <2> QED
    BY <1>1, <1>2, <2>1 DEF InLoop, BarrierRow, BarrierMark, PastLast
<1> QED
  BY <1>1, <1>2, <1>3, <1>4, LocalControl DEF p

(* Waves that wait at one barrier are in the same stage of the same row    *)
(* tile, and leave it together.                                            *)
LEMMA BarrierControl ==
    ASSUME Control, NEW label \in {"decoded", "multiplied"}, NEW next \in Places,
           \A w \in WaveIds : pc[w] = label,
           pc' = [w \in WaveIds |-> next], stage' \in [WaveIds -> Nat],
           UNCHANGED <<shape, row_tile, tiles, accumulators>>,
           \A w, v \in WaveIds : stage[w] = stage[v] => stage'[w] = stage'[v],
           \A w \in WaveIds : InLoop(next, stage'[w], row_tile[w])
    PROVE  Control'
<1>1. ASSUME NEW w \in WaveIds, NEW v \in WaveIds
      PROVE  stage[w] = stage[v] /\ row_tile[w] = row_tile[v]
  <2>1. /\ stage[w] \in Nat /\ stage[v] \in Nat
        /\ row_tile[w] \in Nat /\ row_tile[v] \in Nat
        /\ pc[w] = label /\ pc[v] = label
        /\ label = "multiplied" => shape.kind # "staged"
    BY DEF Control, Typed, InLoop
  <2>2. /\ BarrierRow(label, stage[w], row_tile[w]) = BarrierRow(label, stage[v], row_tile[v])
        /\ BarrierMark(label, stage[w]) = BarrierMark(label, stage[v])
    BY <2>1 DEF Control, Aligned
  <2>3. ~ PastLast(label, stage[w]) /\ ~ PastLast(label, stage[v])
    BY DEF PastLast
  <2>4. row_tile[w] = row_tile[v]
    BY <2>2, <2>3 DEF BarrierRow
  <2>5. CASE label = "decoded"
    BY <2>1, <2>2, <2>3, <2>4, <2>5 DEF BarrierMark
  <2>6. CASE label = "multiplied"
    BY <2>1, <2>2, <2>3, <2>4, <2>6 DEF BarrierMark
  <2> QED
    BY <2>5, <2>6
<1>2. Typed'
  BY DEF Control, Typed
<1>3. \A w, v \in WaveIds : stage'[w] = stage'[v] /\ row_tile'[w] = row_tile'[v]
  BY <1>1
<1>4. Aligned'
  BY <1>3 DEF Aligned
<1>5. \A w \in WaveIds : InLoop(pc[w], stage[w], row_tile[w])'
  BY DEF InLoop, Prologue
<1> QED
  BY <1>2, <1>4, <1>5 DEF Control

LEMMA DecodedBarrierControl ==
    ASSUME Control, DecodedBarrier
    PROVE  Control'
<1> DEFINE next == IF shape.kind = "single" THEN "multiply"
                   ELSE IF shape.stages = 0 THEN "store" ELSE "decode"
<1>1. /\ \A w \in WaveIds : pc[w] = "decoded"
      /\ pc' = [w \in WaveIds |-> next]
      /\ UNCHANGED <<shape, row_tile, tiles, accumulators, stage>>
  BY DEF DecodedBarrier, Barrier
<1>2. next \in Places
  BY DEF Places
<1>3. ASSUME NEW w \in WaveIds PROVE InLoop(next, stage[w], row_tile[w])
  <2>1. shape.stages \in Nat /\ (shape.kind # "pipelined" => shape.stages >= 1)
    BY ShapeFacts DEF Control, Typed
  <2>2. stage[w] \in Nat /\ InLoop("decoded", stage[w], row_tile[w])
    BY <1>1 DEF Control, Typed
  <2> QED
    BY <2>1, <2>2 DEF InLoop
<1>4. stage' \in [WaveIds -> Nat]
  BY <1>1 DEF Control, Typed
<1> HIDE DEF next
<1> QED
  BY <1>1, <1>2, <1>3, <1>4, BarrierControl

LEMMA MultipliedBarrierControl ==
    ASSUME Control, MultipliedBarrier
    PROVE  Control'
<1> DEFINE next == IF stage[0] + 1 < shape.stages THEN "decode" ELSE "store"
<1>1. /\ \A w \in WaveIds : pc[w] = "multiplied"
      /\ pc' = [w \in WaveIds |-> next]
      /\ stage' = [w \in WaveIds |-> stage[w] + 1]
      /\ UNCHANGED <<shape, row_tile, tiles, accumulators>>
  BY DEF MultipliedBarrier, Barrier
<1>2. next \in Places
  BY DEF Places
<1>3. ASSUME NEW w \in WaveIds PROVE InLoop(next, stage'[w], row_tile[w])
  <2>1. shape.stages \in Nat /\ Waves \in Nat \ {0}
    BY ShapeFacts DEF Control, Typed
  <2>2. 0 \in WaveIds
    BY <2>1 DEF WaveIds
  <2>3. /\ stage[w] \in Nat /\ stage[0] \in Nat
        /\ InLoop("multiplied", stage[w], row_tile[w])
        /\ BarrierMark("multiplied", stage[w]) = BarrierMark("multiplied", stage[0])
    BY <1>1, <2>2 DEF Control, Typed, Aligned
  <2>4. stage[w] = stage[0]
    BY <2>3 DEF BarrierMark, PastLast, InLoop
  <2>5. stage'[w] = stage[0] + 1
    BY <1>1, <2>4
  <2> QED
    BY <2>1, <2>3, <2>4, <2>5 DEF InLoop
<1>4. /\ stage' \in [WaveIds -> Nat]
      /\ \A w, v \in WaveIds : stage[w] = stage[v] => stage'[w] = stage'[v]
  BY <1>1 DEF Control, Typed
<1> HIDE DEF next
<1> QED
  BY <1>1, <1>2, <1>3, <1>4, BarrierControl

LEMMA NextControl == Control /\ [Next]_vars => Control'
<1> SUFFICES ASSUME Control, [Next]_vars PROVE Control'
  OBVIOUS
<1>1. CASE UNCHANGED vars
  BY <1>1
  DEF vars, Control, Typed, InLoop, Prologue, Aligned, BarrierRow, BarrierMark, PastLast
<1>2. ASSUME NEW w \in WaveIds, WaveStep(w) PROVE Control'
  BY <1>2, FillControl, DecodeControl, MultiplyControl, StoreControl DEF WaveStep
<1> QED
  BY <1>1, <1>2, DecodedBarrierControl, MultipliedBarrierControl DEF Next

LEMMA ControlHolds == Spec => []Control
  BY InitControl, NextControl, PTL DEF Spec

LEMMA TypeFromControl == Control => TypeOK
<1> SUFFICES ASSUME Control PROVE TypeOK
  OBVIOUS
<1>1. /\ shape.tiles \in Nat \ {0} /\ shape.stages \in Nat /\ shape.row_tiles \in Nat
      /\ Prologue = (IF shape.kind = "pipelined" THEN shape.tiles - 1 ELSE 1)
  BY ShapeFacts DEF Control, Typed, Prologue
<1>2. ASSUME NEW w \in WaveIds
      PROVE  /\ row_tile[w] \in 0 .. shape.row_tiles
             /\ stage[w] \in 0 .. shape.stages + shape.tiles
  <2>1. pc[w] \in Places /\ row_tile[w] \in Nat /\ stage[w] \in Nat
    BY DEF Control, Typed
  <2>2. InLoop(pc[w], stage[w], row_tile[w])
    BY DEF Control
  <2> QED
    BY <1>1, <2>1, <2>2 DEF InLoop, Places
<1>3. /\ row_tile \in [WaveIds -> 0 .. shape.row_tiles]
      /\ stage \in [WaveIds -> 0 .. shape.stages + shape.tiles]
  BY <1>2 DEF Control, Typed
<1> QED
  BY <1>3 DEF Control, Typed, TypeOK, Places

(* Type correctness of the loop, in every shape and also in those whose    *)
(* waves race: no counter runs past its loop.                              *)
THEOREM PipelineTypeCorrect == Spec => []TypeOK
  BY ControlHolds, TypeFromControl, PTL

-----------------------------------------------------------------------------
(* The stage decoded next goes to the one tile that is not in the window.  *)
LEMMA WindowSlides ==
    ASSUME shape \in Shapes, NEW share, NEW next, NEW d \in Nat,
           DOMAIN share = 0 .. shape.tiles - 1, Window(share, d),
           next = IF d < shape.stages THEN [share EXCEPT ![TileOf(d)] = d] ELSE share
    PROVE  Window(next, d + 1)
<1>1. shape.tiles \in Nat \ {0} /\ shape.stages \in Nat
  BY ShapeFacts
<1> SUFFICES ASSUME NEW s \in 0 .. shape.stages - 1, (d + 1) - shape.tiles <= s, s < d + 1
             PROVE  next[TileOf(s)] = s
  BY Zenon DEF Window
<1>2. s \in Nat /\ s < shape.stages /\ TileOf(s) \in 0 .. shape.tiles - 1
  <2>1. s \in Nat /\ s < shape.stages
    BY <1>1
  <2> QED
    BY <2>1, ShapeFacts
<1>3. CASE s = d
  BY <1>2, <1>3
<1>4. CASE s # d
  <2>1. s < d /\ d < s + shape.tiles /\ d - shape.tiles <= s
    BY <1>1, <1>2, <1>4, SMT
  <2>2. TileOf(s) # TileOf(d)
    BY <1>1, <1>2, <2>1, TilesDiffer DEF TileOf
  <2>3. share[TileOf(s)] = s
    BY <2>1 DEF Window
  <2> QED
    BY <2>2, <2>3
<1> QED
  BY <1>3, <1>4

(* The products of one more stage. *)
LEMMA ProductsGrow ==
    ASSUME NEW n \in Nat
    PROVE  Products(n) \cup {<<n, v, n>> : v \in WaveIds} = Products(n + 1)
<1>1. 0 .. n = (0 .. n - 1) \cup {n}
  OBVIOUS
<1>2. (n + 1) - 1 = n
  OBVIOUS
<1>3. ASSUME NEW x PROVE x \in Products(n + 1) <=> x \in Products(n) \cup {<<n, v, n>> : v \in WaveIds}
  BY <1>1, <1>2 DEF Products
<1> QED
  BY <1>3

LEMMA InitData == Init => Data
<1> SUFFICES ASSUME Init, NEW w \in WaveIds
             PROVE  /\ WaveData(pc[w], stage[w], row_tile[w], Share(w))
                    /\ accumulators[w] = Products(MultipliedStages(pc[w], stage[w]))
  BY DEF Data
<1>1. pc[w] = "fill" /\ stage[w] = 0 /\ row_tile[w] = 0 /\ accumulators[w] = {}
  BY DEF Init
<1>2. WaveData("fill", 0, 0, Share(w))
  BY DEF WaveData, DecodedStages, Window, BetweenRows
<1>3. Products(0) = {}
  BY DEF Products
<1> QED
  BY <1>1, <1>2, <1>3 DEF MultipliedStages

(* A step of one wave changes its own share of the tiles, and its own      *)
(* accumulators.                                                           *)
LEMMA LocalData ==
    ASSUME Data, UNCHANGED shape, NEW w \in WaveIds,
           \A v \in WaveIds \ {w} :
               /\ pc'[v] = pc[v] /\ stage'[v] = stage[v] /\ row_tile'[v] = row_tile[v]
               /\ Share(v)' = Share(v) /\ accumulators'[v] = accumulators[v],
           WaveData(pc'[w], stage'[w], row_tile'[w], Share(w)'),
           IsActive(w) => accumulators'[w] = Products(MultipliedStages(pc'[w], stage'[w]))
    PROVE  Data'
<1>1. ASSUME NEW v \in WaveIds
      PROVE  /\ WaveData(pc'[v], stage'[v], row_tile'[v], Share(v)')
             /\ IsActive(v) => accumulators'[v] = Products(MultipliedStages(pc'[v], stage'[v]))
  <2>1. CASE v = w
    BY <2>1
  <2>2. CASE v # w
    BY <2>2 DEF Data
  <2> QED
    BY <2>1, <2>2
<1>2. ASSUME NEW v \in WaveIds
      PROVE  /\ WaveData(pc[v], stage[v], row_tile[v], Share(v))'
             /\ IsActive(v)' => accumulators'[v] = Products(MultipliedStages(pc'[v], stage'[v]))
  BY <1>1
  DEF WaveData, DecodedStages, Window, BetweenRows, LastStays, TileOf, IsActive
<1> QED
  BY <1>2 DEF Data, Products, MultipliedStages

LEMMA FillData ==
    ASSUME SerialWalksFit, Control, Data, NEW w \in WaveIds, Fill(w)
    PROVE  Data'
<1> DEFINE p == pc'[w]
<1> DEFINE s == stage'[w]
<1> DEFINE r == row_tile[w]
<1> DEFINE d == stage[w]
<1>1. /\ pc[w] = "fill" /\ d \in Nat /\ r \in Nat /\ d < Prologue /\ r < shape.row_tiles
      /\ UNCHANGED <<shape, row_tile, accumulators>> /\ Decoded(w, d)
  BY DEF Fill, Control, Typed, InLoop
<1>2. /\ \A v \in WaveIds \ {w} : pc'[v] = pc[v] /\ stage'[v] = stage[v]
      /\ \/ p = "fill" /\ s = d + 1 /\ s < Prologue
         \/ p = "decoded" /\ s = 0 /\ ~ (d + 1 < Prologue)
  <2>1. CASE stage[w] + 1 < Prologue
    <3>1. stage' = [stage EXCEPT ![w] = stage[w] + 1] /\ pc' = pc
      BY <2>1 DEF Fill
    <3> QED
      BY <1>1, <2>1, <3>1 DEF Control, Typed
  <2>2. CASE ~ (stage[w] + 1 < Prologue)
    <3>1. stage' = [stage EXCEPT ![w] = 0] /\ pc' = [pc EXCEPT ![w] = "decoded"]
      BY <2>2 DEF Fill
    <3> QED
      BY <2>2, <3>1 DEF Control, Typed
  <2> QED
    BY <2>1, <2>2
<1>3. shape \in Shapes /\ DOMAIN Share(w) = 0 .. shape.tiles - 1
  BY DEF Control, Typed, Share
<1>4. /\ \A v \in WaveIds \ {w} : Share(v)' = Share(v)
      /\ Share(w)' = IF d < shape.stages THEN [Share(w) EXCEPT ![TileOf(d)] = d] ELSE Share(w)
  BY <1>1, DecodeShare DEF Control
<1>5. /\ WaveData("fill", d, r, Share(w))
      /\ IsActive(w) => accumulators[w] = Products(MultipliedStages("fill", d))
  BY <1>1 DEF Data
<1> HIDE DEF p, s, r, d
<1>6. /\ shape.kind \in {"single", "pipelined", "staged"}
      /\ shape.tiles \in Nat \ {0} /\ shape.stages \in Nat
      /\ shape.kind # "single" => shape.tiles >= 2
      /\ shape.kind # "pipelined" => shape.stages >= 1
  BY <1>3, ShapeFacts
<1>7. d < Prologue /\ Prologue = IF shape.kind = "pipelined" THEN shape.tiles - 1 ELSE 1
  BY <1>1 DEF Prologue, d
<1>8. Window(Share(w), d)
  <2>1. CASE shape.kind = "pipelined"
    BY <1>5, <2>1 DEF WaveData, DecodedStages
  <2>2. CASE shape.kind # "pipelined"
    <3>1. d = 0
      BY <1>1, <1>7, <2>2 DEF d
    <3> QED
      BY <1>6, <3>1 DEF Window
  <2> QED
    BY <2>1, <2>2
<1>9. d \in Nat /\ Window(Share(w)', d + 1)
  <2>1. d \in Nat
    BY <1>1 DEF d
  <2> QED
    BY <1>3, <1>4, <1>8, <2>1, WindowSlides
<1>10. DecodedStages(p, s) = d + 1
  BY <1>2, <1>6, <1>7, <1>9 DEF DecodedStages
<1>11. BetweenRows(p, s, r) => LastStays(Share(w)')
  <2> SUFFICES ASSUME BetweenRows(p, s, r) PROVE LastStays(Share(w)')
    OBVIOUS
  <2>1. shape.kind = "staged" /\ r > 0 /\ d = 0
    BY <1>2, <1>7, <1>9 DEF BetweenRows
  <2>2. LastStays(Share(w))
    BY <1>5, <2>1 DEF WaveData, BetweenRows
  <2>3. shape.row_tiles > 1
    <3>1. shape.row_tiles \in Nat
      BY <1>3, ShapeFacts
    <3> QED
      BY <1>1, <2>1, <3>1 DEF r
  <2>4. TileOf(shape.stages - 1) # 0
    BY <1>3, <2>1, <2>3 DEF SerialWalksFit, TileOf
  <2>5. TileOf(0) = 0
    <3>1. 0 % shape.tiles = 0
      BY <1>6
    <3> QED
      BY <3>1 DEF TileOf
  <2>6. TileOf(shape.stages - 1) \in 0 .. shape.tiles - 1
    <3>1. shape.stages - 1 \in Nat
      BY <1>6, <2>1
    <3> QED
      BY <1>3, <3>1, ShapeFacts
  <2> QED
    BY <1>3, <1>4, <2>1, <2>2, <2>4, <2>5, <2>6 DEF LastStays
<1>12. WaveData(p, s, r, Share(w)')
  BY <1>9, <1>10, <1>11 DEF WaveData
<1>13. MultipliedStages(p, s) = MultipliedStages("fill", d)
  BY <1>2 DEF MultipliedStages
<1> QED
  BY <1>1, <1>2, <1>4, <1>5, <1>12, <1>13, LocalData DEF p, s, r

LEMMA DecodeData ==
    ASSUME Control, Data, NEW w \in WaveIds, Decode(w)
    PROVE  Data'
<1> DEFINE p == pc'[w]
<1> DEFINE s == stage[w]
<1> DEFINE r == row_tile[w]
<1>1. /\ pc[w] = "decode" /\ s \in Nat /\ r \in Nat
      /\ UNCHANGED <<shape, row_tile, stage, accumulators>> /\ Decoded(w, s + Ahead)
  BY DEF Decode, Control, Typed
<1>2. /\ \A v \in WaveIds \ {w} : pc'[v] = pc[v]
      /\ p = IF shape.kind = "single" THEN "decoded" ELSE "multiply"
  BY DEF Decode, Control, Typed
<1>3. shape \in Shapes /\ DOMAIN Share(w) = 0 .. shape.tiles - 1
  BY DEF Control, Typed, Share
<1>4. /\ shape.kind \in {"single", "pipelined", "staged"}
      /\ shape.tiles \in Nat \ {0} /\ Ahead \in Nat
      /\ Ahead = IF shape.kind = "single" THEN 0
                 ELSE IF shape.kind = "pipelined" THEN shape.tiles - 1 ELSE 1
  BY <1>3, ShapeFacts DEF Ahead
<1>5. /\ WaveData("decode", s, r, Share(w))
      /\ IsActive(w) => accumulators[w] = Products(MultipliedStages("decode", s))
  BY <1>1 DEF Data
<1>6. /\ s + Ahead \in Nat
      /\ DecodedStages("decode", s) = s + Ahead
      /\ DecodedStages(p, s) = (s + Ahead) + 1
      /\ MultipliedStages(p, s) = MultipliedStages("decode", s)
      /\ ~ BetweenRows(p, s, r)
  BY <1>1, <1>2, <1>4 DEF DecodedStages, MultipliedStages, BetweenRows
<1> HIDE DEF p, s, r
<1>7. /\ \A v \in WaveIds \ {w} : Share(v)' = Share(v)
      /\ Share(w)' = IF s + Ahead < shape.stages
                     THEN [Share(w) EXCEPT ![TileOf(s + Ahead)] = s + Ahead] ELSE Share(w)
  BY <1>1, <1>6, DecodeShare DEF Control
<1>8. Window(Share(w)', (s + Ahead) + 1)
  <2>1. Window(Share(w), s + Ahead)
    BY <1>5, <1>6 DEF WaveData
  <2> QED
    BY <1>3, <1>6, <1>7, <2>1, WindowSlides
<1>9. WaveData(p, s, r, Share(w)')
  BY <1>6, <1>8 DEF WaveData
<1> QED
  BY <1>1, <1>2, <1>5, <1>6, <1>7, <1>9, LocalData DEF p, s, r

(* A wave that multiplies a stage finds it in every share of its tile:     *)
(* whoever is ahead of it has decoded other tiles.                         *)
LEMMA MultiplyFinds ==
    ASSUME Control, Data, NEW w \in WaveIds, pc[w] = "multiply", NEW v \in WaveIds
    PROVE  tiles[TileOf(stage[w])][v] = stage[w]
<1> DEFINE s == stage[w]
<1> DEFINE q == pc[v]
<1> DEFINE u == stage[v]
<1> DEFINE r == row_tile[w]
<1> DEFINE m == row_tile[v]
<1> DEFINE n == shape.stages
<1> DEFINE T == shape.tiles
<1>1. /\ q \in Places /\ s \in Nat /\ u \in Nat /\ r \in Nat /\ m \in Nat
      /\ shape \in Shapes
      /\ InLoop(q, u, m) /\ s < n
      /\ WaveData(q, u, m, Share(v))
  BY DEF Control, Typed, Data, InLoop
<1>2. /\ BarrierRow(q, u, m) = BarrierRow("multiply", s, r)
      /\ BarrierMark(q, u) = BarrierMark("multiply", s)
  BY DEF Control, Aligned
<1>3. /\ shape.kind \in {"single", "pipelined", "staged"} /\ n \in Nat /\ T \in Nat \ {0}
      /\ shape.kind # "single" => T >= 2
      /\ shape.kind = "single" => T = 1
  BY <1>1, ShapeFacts
<1>4. TileOf(s) \in 0 .. shape.tiles - 1
  BY <1>1, ShapeFacts
<1>5. Share(v)[TileOf(s)] = tiles[TileOf(s)][v]
  BY <1>4 DEF Share
<1> HIDE DEF s, q, u, r, m, n, T
<1>6. ASSUME DecodedStages(q, u) - T <= s, s < DecodedStages(q, u)
      PROVE  Share(v)[TileOf(s)] = s
  <2>1. s \in 0 .. shape.stages - 1
    BY <1>1, <1>3 DEF n
  <2> QED
    BY <1>1, <1>6, <2>1 DEF WaveData, Window, T
<1>7. CASE shape.kind = "single"
  <2>1. q \in {"multiply", "multiplied"} /\ u = s
    BY <1>1, <1>2, <1>7 DEF BarrierMark, PastLast, Places
  <2>2. DecodedStages(q, u) = s + 1
    BY <1>7, <2>1 DEF DecodedStages
  <2> QED
    BY <1>1, <1>3, <1>5, <1>6, <1>7, <2>2 DEF s
<1>8. CASE shape.kind = "pipelined"
  <2>1. q \in {"decode", "multiply", "multiplied"} /\ u = s
    BY <1>1, <1>2, <1>8 DEF BarrierMark, PastLast, Places
  <2>2. DecodedStages(q, u) \in {s + T - 1, s + T}
    BY <1>8, <2>1 DEF DecodedStages, T
  <2> QED
    BY <1>1, <1>3, <1>5, <1>6, <1>8, <2>2 DEF s
<1>9. CASE shape.kind = "staged" /\ s + 1 < n
  <2>1. BarrierMark(q, u) = 2 * s + 2
    BY <1>1, <1>2, <1>3, <1>9 DEF BarrierMark, PastLast, n
  <2>2. \/ q = "decoded" /\ u = s + 1
        \/ q \in {"decode", "multiply"} /\ u = s
    BY <1>1, <1>9, <2>1 DEF BarrierMark, PastLast, Places, InLoop
  <2>3. DecodedStages(q, u) \in {s + 1, s + 2}
    BY <1>1, <1>9, <2>2 DEF DecodedStages
  <2> QED
    BY <1>1, <1>3, <1>5, <1>6, <1>9, <2>3 DEF s
<1>10. CASE shape.kind = "staged" /\ s + 1 = n
  <2>1. BarrierMark(q, u) = 0 /\ BarrierRow(q, u, m) = r + 1
    BY <1>1, <1>2, <1>10 DEF BarrierMark, BarrierRow, PastLast, n
  <2>2. CASE PastLast(q, u)
    <3>1. \/ q = "store" /\ u = s + 1
          \/ q \in {"decode", "multiply"} /\ u = s
      BY <1>1, <1>3, <1>10, <2>2 DEF PastLast, InLoop, n
    <3>2. DecodedStages(q, u) \in {s + 1, s + 2}
      BY <1>1, <1>10, <3>1 DEF DecodedStages
    <3> QED
      BY <1>1, <1>3, <1>5, <1>6, <1>10, <3>2 DEF s
  <2>3. CASE ~ PastLast(q, u)
    <3>1. q \in {"fill", "done"} \/ (q = "decoded" /\ u = 0)
      BY <1>1, <1>10, <2>1, <2>3 DEF BarrierMark, Places, InLoop
    <3>2. m = r + 1
      BY <2>1, <2>3 DEF BarrierRow
    <3>3. BetweenRows(q, u, m)
      BY <1>1, <1>10, <3>1, <3>2 DEF BetweenRows
    <3>4. s = shape.stages - 1
      BY <1>1, <1>3, <1>10 DEF n
    <3> QED
      BY <1>1, <1>5, <3>3, <3>4 DEF WaveData, LastStays, s
  <2> QED
    BY <2>2, <2>3
<1>11. s + 1 < n \/ s + 1 = n
  BY <1>1, <1>3
<1> QED
  BY <1>3, <1>7, <1>8, <1>9, <1>10, <1>11 DEF s

LEMMA MultiplyData ==
    ASSUME Control, Data, NEW w \in WaveIds, Multiply(w)
    PROVE  Data'
<1> DEFINE p == pc'[w]
<1> DEFINE s == stage'[w]
<1> DEFINE r == row_tile[w]
<1> DEFINE d == stage[w]
<1>1. /\ pc[w] = "multiply" /\ d \in Nat /\ r \in Nat
      /\ UNCHANGED <<shape, row_tile, tiles>>
      /\ shape \in Shapes /\ d < shape.stages
  BY DEF Multiply, Control, Typed, InLoop
<1>2. /\ \A v \in WaveIds \ {w} : pc'[v] = pc[v] /\ stage'[v] = stage[v]
      /\ shape.kind = "staged" => s = d + 1 /\ p \in {"decoded", "store"}
      /\ shape.kind # "staged" => s = d /\ p = "multiplied"
  <2>1. CASE shape.kind = "staged"
    <3>1. /\ stage' = [stage EXCEPT ![w] = stage[w] + 1]
          /\ pc' = [pc EXCEPT ![w] =
                       IF stage[w] + 1 < shape.stages THEN "decoded" ELSE "store"]
      BY <2>1 DEF Multiply
    <3> QED
      BY <1>1, <2>1, <3>1 DEF Control, Typed
  <2>2. CASE shape.kind # "staged"
    <3>1. stage' = stage /\ pc' = [pc EXCEPT ![w] = "multiplied"]
      BY <2>2 DEF Multiply
    <3> QED
      BY <2>2, <3>1 DEF Control, Typed
  <2> QED
    BY <2>1, <2>2
<1>3. /\ WaveData("multiply", d, r, Share(w))
      /\ IsActive(w) => accumulators[w] = Products(MultipliedStages("multiply", d))
  BY <1>1 DEF Data
<1>4. /\ \A v \in WaveIds \ {w} : accumulators'[v] = accumulators[v]
      /\ IsActive(w) => accumulators'[w] = accumulators[w] \cup {<<d, v, d>> : v \in WaveIds}
  <2> DEFINE found == {<<d, v, tiles[TileOf(d)][v]>> : v \in WaveIds}
  <2>1. accumulators' = IF IsActive(w) THEN [accumulators EXCEPT ![w] = @ \cup found]
                        ELSE accumulators
    BY DEF Multiply
  <2>2. found = {<<d, v, d>> : v \in WaveIds}
    BY <1>1, MultiplyFinds
  <2> HIDE DEF found
  <2> QED
    BY <2>1, <2>2 DEF Control, Typed
<1>5. \A v \in WaveIds : Share(v)' = Share(v)
  BY <1>1 DEF Share
<1> HIDE DEF p, s, r, d
<1>6. shape.kind \in {"single", "pipelined", "staged"}
  BY <1>1, ShapeFacts
<1>7. /\ DecodedStages(p, s) = DecodedStages("multiply", d)
      /\ MultipliedStages("multiply", d) = d
      /\ MultipliedStages(p, s) = d + 1
      /\ ~ BetweenRows(p, s, r)
  BY <1>1, <1>2, <1>6 DEF DecodedStages, MultipliedStages, BetweenRows, d
<1>8. WaveData(p, s, r, Share(w)')
  BY <1>3, <1>5, <1>7 DEF WaveData
<1>9. IsActive(w) => accumulators'[w] = Products(MultipliedStages(p, s))
  BY <1>1, <1>3, <1>4, <1>7, ProductsGrow DEF d
<1> QED
  BY <1>1, <1>2, <1>4, <1>5, <1>8, <1>9, LocalData DEF p, s, r

LEMMA StoreData ==
    ASSUME Control, Data, NEW w \in WaveIds, Store(w)
    PROVE  Data'
<1> DEFINE p == pc'[w]
<1> DEFINE d == stage[w]
<1> DEFINE r == row_tile[w]
<1>1. /\ pc[w] = "store" /\ d = shape.stages /\ r \in Nat
      /\ UNCHANGED <<shape, tiles>> /\ shape \in Shapes
  BY DEF Store, Control, Typed, InLoop
<1>2. /\ \A v \in WaveIds \ {w} :
            /\ pc'[v] = pc[v] /\ stage'[v] = stage[v] /\ row_tile'[v] = row_tile[v]
            /\ accumulators'[v] = accumulators[v]
      /\ stage'[w] = 0 /\ row_tile'[w] = r + 1 /\ accumulators'[w] = {}
      /\ p \in {"fill", "done"}
  BY DEF Store, Control, Typed
<1>3. \A v \in WaveIds : Share(v)' = Share(v)
  BY <1>1 DEF Share
<1>4. WaveData("store", d, r, Share(w))
  BY <1>1 DEF Data
<1> HIDE DEF p, d, r
<1>5. /\ shape.tiles \in Nat \ {0} /\ shape.stages \in Nat
      /\ shape.kind = "staged" => shape.tiles >= 2 /\ shape.stages >= 1
      /\ shape.kind \in {"single", "pipelined", "staged"}
  BY <1>1, ShapeFacts
<1>6. Window(Share(w)', DecodedStages(p, 0))
  <2>1. DecodedStages(p, 0) = 0
    BY <1>2 DEF DecodedStages
  <2> QED
    BY <1>5, <2>1 DEF Window
<1>7. shape.kind = "staged" => LastStays(Share(w)')
  <2> SUFFICES ASSUME shape.kind = "staged" PROVE LastStays(Share(w))
    BY <1>3
  <2>1. Window(Share(w), shape.stages + 1)
    BY <1>1, <1>4 DEF WaveData, DecodedStages
  <2>2. /\ shape.stages - 1 \in 0 .. shape.stages - 1
        /\ (shape.stages + 1) - shape.tiles <= shape.stages - 1
        /\ shape.stages - 1 < shape.stages + 1
    BY <1>5
  <2> QED
    BY <2>1, <2>2 DEF Window, LastStays
<1>8. WaveData(p, 0, r + 1, Share(w)')
  BY <1>6, <1>7 DEF WaveData, BetweenRows
<1>9. accumulators'[w] = Products(MultipliedStages(p, 0))
  <2>1. MultipliedStages(p, 0) = 0
    BY <1>2 DEF MultipliedStages
  <2>2. Products(0) = {}
    BY DEF Products
  <2> QED
    BY <1>2, <2>1, <2>2
<1> QED
  BY <1>1, <1>2, <1>3, <1>8, <1>9, LocalData DEF p

(* At a barrier no wave decodes or multiplies. *)
LEMMA BarrierData ==
    ASSUME Control, Data, DecodedBarrier \/ MultipliedBarrier
    PROVE  Data'
<1>1. UNCHANGED <<shape, row_tile, tiles, accumulators>> /\ shape \in Shapes
  BY DEF DecodedBarrier, MultipliedBarrier, Barrier, Control, Typed
<1>2. /\ shape.tiles \in Nat \ {0} /\ shape.stages \in Nat
      /\ shape.kind \in {"single", "pipelined", "staged"}
  BY <1>1, ShapeFacts
<1>3. ASSUME NEW w \in WaveIds
      PROVE  /\ MultipliedStages(pc'[w], stage'[w]) = MultipliedStages(pc[w], stage[w])
             /\ \/ DecodedStages(pc'[w], stage'[w]) = DecodedStages(pc[w], stage[w])
                \/ DecodedStages(pc'[w], stage'[w]) = 0
             /\ ~ BetweenRows(pc'[w], stage'[w], row_tile[w])
  <2>1. stage[w] \in Nat /\ row_tile[w] \in Nat /\ InLoop(pc[w], stage[w], row_tile[w])
    BY DEF Control, Typed
  <2>2. CASE DecodedBarrier
    <3>1. /\ pc[w] = "decoded" /\ stage'[w] = stage[w]
          /\ pc'[w] = IF shape.kind = "single" THEN "multiply"
                      ELSE IF shape.stages = 0 THEN "store" ELSE "decode"
      BY <2>2 DEF DecodedBarrier, Barrier
    <3>2. shape.stages = 0 => shape.kind = "pipelined"
      BY <2>1, <3>1, <1>2 DEF InLoop
    <3> QED
      BY <1>2, <2>1, <3>1, <3>2 DEF MultipliedStages, DecodedStages, BetweenRows
  <2>3. CASE MultipliedBarrier
    <3>1. /\ pc[w] = "multiplied" /\ stage'[w] = stage[w] + 1
          /\ pc'[w] \in {"decode", "store"}
      BY <2>3 DEF MultipliedBarrier, Barrier
    <3>2. shape.kind # "staged"
      BY <2>1, <3>1 DEF InLoop
    <3> QED
      BY <1>2, <2>1, <3>1, <3>2 DEF MultipliedStages, DecodedStages, BetweenRows
  <2> QED
    BY <2>2, <2>3
<1>4. ASSUME NEW share PROVE Window(share, 0)
  BY <1>2 DEF Window
<1>5. ASSUME NEW w \in WaveIds
      PROVE  /\ WaveData(pc'[w], stage'[w], row_tile[w], Share(w))
             /\ IsActive(w) =>
                   accumulators[w] = Products(MultipliedStages(pc'[w], stage'[w]))
  BY <1>3, <1>4 DEF Data, WaveData
<1>6. ASSUME NEW w \in WaveIds
      PROVE  /\ WaveData(pc[w], stage[w], row_tile[w], Share(w))'
             /\ IsActive(w)' =>
                   accumulators'[w] = Products(MultipliedStages(pc'[w], stage'[w]))
  BY <1>1, <1>5
  DEF WaveData, DecodedStages, Window, BetweenRows, LastStays, TileOf, IsActive, Share
<1> QED
  BY <1>6 DEF Data, Products, MultipliedStages

LEMMA NextData == SerialWalksFit /\ IInv /\ [Next]_vars => Data'
<1> SUFFICES ASSUME SerialWalksFit, Control, Data, [Next]_vars PROVE Data'
  BY DEF IInv
<1>1. CASE UNCHANGED vars
  BY <1>1
  DEF vars, Data, WaveData, DecodedStages, MultipliedStages, Products, Window, BetweenRows,
      LastStays, TileOf, IsActive, Share
<1>2. ASSUME NEW w \in WaveIds, WaveStep(w) PROVE Data'
  BY <1>2, FillData, DecodeData, MultiplyData, StoreData DEF WaveStep
<1> QED
  BY <1>1, <1>2, BarrierData DEF Next

LEMMA IInvHolds ==
    ASSUME SerialWalksFit
    PROVE  Spec => []IInv
<1>1. Init => IInv
  BY InitControl, InitData DEF IInv
<1>2. IInv /\ [Next]_vars => IInv'
  BY NextControl, NextData DEF IInv
<1> QED
  BY <1>1, <1>2, PTL DEF Spec

(* Before its barrier a wave is at most one stage ahead of another one,    *)
(* and what it decodes lies less than the number of tiles ahead.           *)
LEMMA ControlSeparates ==
    ASSUME SerialWalksFit, Control
    PROVE  NoTileRace
<1> SUFFICES ASSUME NEW w \in WaveIds, NEW v \in WaveIds,
                    pc[w] \in {"fill", "decode"}, pc[v] = "multiply",
                    stage[w] + (IF pc[w] = "fill" THEN 0 ELSE Ahead) < shape.stages
             PROVE  TileOf(stage[w] + (IF pc[w] = "fill" THEN 0 ELSE Ahead)) # TileOf(stage[v])
  BY DEF NoTileRace, Writes, Reads
<1> DEFINE s == stage[v]
<1> DEFINE u == stage[w]
<1> DEFINE r == row_tile[v]
<1> DEFINE m == row_tile[w]
<1>1. /\ s \in Nat /\ u \in Nat /\ r \in Nat /\ m \in Nat /\ shape \in Shapes
      /\ InLoop(pc[w], u, m) /\ s < shape.stages
  BY DEF Control, Typed, InLoop
<1>2. /\ BarrierRow(pc[w], u, m) = BarrierRow("multiply", s, r)
      /\ BarrierMark(pc[w], u) = BarrierMark("multiply", s)
  BY DEF Control, Aligned
<1>3. /\ shape.kind \in {"single", "pipelined", "staged"}
      /\ shape.tiles \in Nat \ {0} /\ shape.stages \in Nat /\ shape.row_tiles \in Nat
      /\ shape.kind # "single" => shape.tiles >= 2
      /\ Prologue = IF shape.kind = "pipelined" THEN shape.tiles - 1 ELSE 1
      /\ Ahead = IF shape.kind = "single" THEN 0
                 ELSE IF shape.kind = "pipelined" THEN shape.tiles - 1 ELSE 1
  BY <1>1, ShapeFacts DEF Prologue, Ahead
<1> HIDE DEF s, u, r, m
<1>4. CASE pc[w] = "decode"
  <2>1. shape.kind # "single" /\ u = s
    BY <1>1, <1>2, <1>3, <1>4 DEF BarrierMark, BarrierRow, PastLast
  <2>2. s < s + Ahead /\ s + Ahead < s + shape.tiles /\ s + Ahead \in Nat
    BY <1>1, <1>3, <2>1
  <2>3. s % shape.tiles # (s + Ahead) % shape.tiles
    BY <1>1, <1>3, <2>2, TilesDiffer
  <2>4. TileOf(u + Ahead) # TileOf(s)
    BY <2>1, <2>3 DEF TileOf
  <2> QED
    BY <1>4, <2>4 DEF u, s
<1>5. CASE pc[w] = "fill"
  <2>1. shape.kind = "staged" /\ s = shape.stages - 1 /\ m = r + 1
    BY <1>1, <1>2, <1>3, <1>5 DEF BarrierMark, BarrierRow, PastLast
  <2>2. u = 0 /\ m < shape.row_tiles
    BY <1>1, <1>3, <1>5, <2>1 DEF InLoop
  <2>3. shape.row_tiles > 1
    BY <1>1, <1>3, <2>1, <2>2
  <2>4. TileOf(s) # 0
    BY <1>1, <2>1, <2>3 DEF SerialWalksFit, TileOf
  <2>5. TileOf(u + 0) = 0
    <3>1. 0 % shape.tiles = 0
      BY <1>3
    <3> QED
      BY <2>2, <3>1 DEF TileOf
  <2> QED
    BY <1>5, <2>4, <2>5 DEF u, s
<1> QED
  BY <1>4, <1>5

(* No wave decodes into a tile another one still multiplies, for every     *)
(* number of waves, tiles, stages and row tiles, as long as a serial       *)
(* staged walk does not end in the tile it starts in.                      *)
THEOREM WavesDoNotRace ==
    ASSUME SerialWalksFit
    PROVE  Spec => []NoTileRace
<1>1. Control => NoTileRace
  BY ControlSeparates
<1> QED
  BY <1>1, ControlHolds, PTL

(* Under the same condition every wave that multiplies has multiplied the  *)
(* whole contraction when it stores its row tile, each share as it was     *)
(* decoded for its stage.                                                  *)
THEOREM ContractionIsFull ==
    ASSUME SerialWalksFit
    PROVE  Spec => []FullContraction
<1>1. IInv => FullContraction
  <2> SUFFICES ASSUME IInv, NEW w \in WaveIds, pc[w] = "store", IsActive(w)
               PROVE  accumulators[w] =
                          {<<s, v, s>> : s \in 0 .. shape.stages - 1, v \in WaveIds}
    BY DEF FullContraction
  <2>1. stage[w] = shape.stages
    BY DEF IInv, Control, InLoop
  <2>2. accumulators[w] = Products(MultipliedStages("store", shape.stages))
    BY <2>1 DEF IInv, Data
  <2> QED
    BY <2>2 DEF MultipliedStages, Products
<1> QED
  BY <1>1, IInvHolds, PTL
=============================================================================
