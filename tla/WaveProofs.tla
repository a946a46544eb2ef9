------------------------------ MODULE WaveProofs ------------------------------
(***************************************************************************)
(* The barriers of the emitted assembly bodies, for any number of waves,   *)
(* stages of the contraction and tiles of a route, and any program whose   *)
(* text is structured (IsStructured).  A barrier is opened by all waves at  *)
(* once, so what has to be shown is that each wave comes to the same one:   *)
(* Meets(p, rt, s) is the barrier, or the end, that a walk of the text      *)
(* comes to from a place s, with its stage and tile, and the invariant says *)
(* that it is the same for the places of all waves.  A branch on a counter  *)
(* is taken by the walk as by the wave; where waves part, the walk goes     *)
(* straight on, and Rejoins shows that both ways lead to the same barrier.  *)
(* On it rests the absence of LDS races, from a division of the text into   *)
(* zones.  That no product is missing is about each wave's own walk.       *)
(***************************************************************************)
EXTENDS WaveMachine, WellFoundedInduction, SequenceTheorems, TLAPS

(* What MCAssemblyBodies checks of the deployed programs.                  *)
Structured == \A p \in Programs : IsStructured(p)

(* The number of tiles of a route, the same for each wave.                 *)
TilesOf(rt) == CHOOSE n : \A w \in Waves : Len(rt.active[w]) = n

(* A place of a wave's walk: <<instruction, stage, tile>>.                 *)
Places(p) == (1 .. Len(p.code) + 1) \X Nat \X Nat
Stops(p, s) == s[1] = Len(p.code) + 1 \/ p.code[s[1]].op = "barrier"

(* Whether the branch is taken, where all waves agree.                     *)
Taking(p, rt, when, g, t) ==
    CASE when = "no_more" -> g >= p.stages
      [] when = "more" -> g < p.stages
      [] when = "before_last" -> g < p.stages - 1
      [] when = "more_tiles" -> t < TilesOf(rt)
      [] when = "more_full" -> t < rt.full
      [] when = "no_full" -> t >= rt.full
      [] when = "short_route" -> rt.short
      [] when = "no_tiles" -> t >= TilesOf(rt)
      [] when = "always" -> TRUE
      [] OTHER -> FALSE

(* Where a wave goes next that skips nothing others may not skip.          *)
Flow(p, rt, s) ==
    LET i == p.code[s[1]] IN
    CASE i.op = "branch" ->
           <<s[1] + 1 + (IF Taking(p, rt, i.when, s[2], s[3]) THEN i.skip ELSE 0), s[2], s[3]>>
      [] i.op = "count" -> <<s[1] + 1, s[2] + i.n, s[3]>>
      [] i.op = "begin_tile" -> <<s[1] + 1, 0, s[3] + 1>>
      [] OTHER -> <<s[1] + 1, s[2], s[3]>>

Closed(p, rt, S) == \A x \in S : Stops(p, x) \/ Flow(p, rt, x) \in S
(* The places ahead of s up to the next barrier or the end, and that one.  *)
Ahead(p, rt, s) ==
    {x \in Places(p) : \A S \in SUBSET Places(p) : s \in S /\ Closed(p, rt, S) => x \in S}
Meets(p, rt, s) == {x \in Ahead(p, rt, s) : Stops(p, x)}

LEMMA FlowStays ==
    ASSUME NEW p, IsStructured(p), NEW rt, NEW s \in Places(p), ~ Stops(p, s)
    PROVE  Flow(p, rt, s) \in Places(p)
<1> DEFINE i == p.code[s[1]]
<1>1. /\ s[1] \in 1 .. Len(p.code) /\ s[2] \in Nat /\ s[3] \in Nat
      /\ Len(p.code) \in Nat
  BY DEF Places, Stops, IsStructured
<1>2. /\ i.op = "count" => i.n \in Nat
      /\ i.op = "branch" => i.skip \in Int /\ s[1] + 1 + i.skip \in 1 .. Len(p.code) + 1
  BY <1>1 DEF IsStructured
<1>3. CASE i.op = "branch"
  <2>1. PICK k \in Int : /\ k = i.skip \/ k = 0
                         /\ Flow(p, rt, s) = <<s[1] + 1 + k, s[2], s[3]>>
    BY <1>2, <1>3 DEF Flow
  <2> QED
    BY <1>1, <1>2, <1>3, <2>1 DEF Places
<1>4. CASE i.op = "count"
  <2>1. Flow(p, rt, s) = <<s[1] + 1, s[2] + i.n, s[3]>>
    BY <1>4 DEF Flow
  <2>2. s[2] + i.n \in Nat /\ s[1] + 1 \in 1 .. Len(p.code) + 1
    BY <1>1, <1>2, <1>4
  <2> QED
    BY <1>1, <2>1, <2>2 DEF Places
<1>5. CASE i.op = "begin_tile"
  BY <1>1, <1>5 DEF Flow, Places
<1>6. CASE i.op \notin {"branch", "count", "begin_tile"}
  BY <1>1, <1>6 DEF Flow, Places
<1> QED
  BY <1>3, <1>4, <1>5, <1>6

LEMMA AheadHere ==
    ASSUME NEW p, NEW rt, NEW s \in Places(p)
    PROVE  s \in Ahead(p, rt, s)
  BY DEF Ahead

LEMMA AheadLeast ==
    ASSUME NEW p, NEW rt, NEW s, NEW S \in SUBSET Places(p), s \in S, Closed(p, rt, S)
    PROVE  Ahead(p, rt, s) \subseteq S
  BY DEF Ahead

LEMMA AheadClosed ==
    ASSUME NEW p, IsStructured(p), NEW rt, NEW s
    PROVE  Ahead(p, rt, s) \in SUBSET Places(p) /\ Closed(p, rt, Ahead(p, rt, s))
<1>1. Ahead(p, rt, s) \in SUBSET Places(p)
  BY DEF Ahead
<1>2. ASSUME NEW x \in Ahead(p, rt, s), ~ Stops(p, x)
      PROVE  Flow(p, rt, x) \in Ahead(p, rt, s)
  <2>1. Flow(p, rt, x) \in Places(p)
    BY <1>1, <1>2, FlowStays
  <2>2. ASSUME NEW S \in SUBSET Places(p), s \in S, Closed(p, rt, S)
        PROVE  Flow(p, rt, x) \in S
    <3>1. x \in S
      BY <2>2 DEF Ahead
    <3> QED
      BY <1>2, <2>2, <3>1 DEF Closed
  <2> QED
    BY <2>1, <2>2 DEF Ahead
<1> QED
  BY <1>1, <1>2 DEF Closed

LEMMA MeetsHere ==
    ASSUME NEW p, NEW rt, NEW s \in Places(p), Stops(p, s)
    PROVE  Meets(p, rt, s) = {s}
<1> DEFINE one == {s}
<1>1. one \in SUBSET Places(p) /\ s \in one /\ Closed(p, rt, one)
  BY DEF Closed
<1> HIDE DEF one
<1>2. Ahead(p, rt, s) \subseteq one
  BY <1>1, AheadLeast
<1> QED
  BY <1>2, AheadHere DEF Meets, one

LEMMA MeetsNext ==
    ASSUME NEW p, IsStructured(p), NEW rt, NEW s \in Places(p), ~ Stops(p, s)
    PROVE  Meets(p, rt, s) = Meets(p, rt, Flow(p, rt, s))
<1> DEFINE n == Flow(p, rt, s)
           S == {s} \cup Ahead(p, rt, n)
<1>1. n \in Places(p)
  BY FlowStays
<1> HIDE DEF n
<1>2. Ahead(p, rt, n) \in SUBSET Places(p) /\ Closed(p, rt, Ahead(p, rt, n)) /\ n \in Ahead(p, rt, n)
  BY <1>1, AheadClosed, AheadHere
<1>3. S \in SUBSET Places(p) /\ s \in S /\ Closed(p, rt, S)
  BY <1>2 DEF Closed, n
<1> HIDE DEF S
<1>4. Ahead(p, rt, s) \subseteq S
  BY <1>3, AheadLeast
<1>5. Ahead(p, rt, s) \in SUBSET Places(p) /\ Closed(p, rt, Ahead(p, rt, s)) /\ s \in Ahead(p, rt, s)
  BY AheadClosed, AheadHere
<1>6. n \in Ahead(p, rt, s)
  BY <1>5 DEF Closed, n
<1>7. Ahead(p, rt, n) \subseteq Ahead(p, rt, s)
  BY <1>5, <1>6, AheadLeast
<1> QED
  BY <1>4, <1>7 DEF Meets, S, n

(* Every non-empty set of natural numbers has a least element.             *)
LEMMA NatOrder ==
    \E R : IsWellFoundedOn(R, Nat) /\ \A a, b \in Nat : a < b => <<a, b>> \in R
<1>1. \A a, b \in Nat : a < b => <<a, b>> \in OpToRel(<, Nat)
  BY Zenon DEF OpToRel
<1>2. IsWellFoundedOn(OpToRel(<, Nat), Nat)
  BY NatLessThanWellFounded, Zenon
<1> QED
  BY <1>1, <1>2, Zenon

LEMMA LeastNatural ==
    ASSUME NEW S, S \subseteq Nat, S # {}
    PROVE  \E n \in S : \A k \in S : n <= k
<1>1. PICK R : IsWellFoundedOn(R, Nat) /\ \A a, b \in Nat : a < b => <<a, b>> \in R
  BY NatOrder
<1>2. PICK n \in S : \A k \in S : ~ (<<k, n>> \in R)
  <2>1. \A U, V, T : IsWellFoundedOn(U, V) /\ T \subseteq V /\ T # {}
          => \E x \in T : \A y \in T : ~ (<<y, x>> \in U)
    BY WFMin
  <2>2. IsWellFoundedOn(R, Nat)
    BY <1>1
  <2> QED
    BY <2>1, <2>2, Zenon
<1>3. ASSUME NEW k \in S PROVE n <= k
  <2>1. n \in Nat /\ k \in Nat
    OBVIOUS
  <2>2. ~ (k < n)
    BY <1>1, <1>2, <2>1
  <2> QED
    BY <2>1, <2>2
<1> QED
  BY <1>3

(* From any place of the code in which waves may part, a wave comes to the *)
(* barrier that it comes to from behind that code.                         *)
Behind(p, c) == CHOOSE end \in c + 1 .. Len(p.code) + 1 : RejoinsAt(p.code, c, end)

LEMMA Rejoins ==
    ASSUME NEW p, IsStructured(p), NEW rt, NEW c \in 1 .. Len(p.code),
           p.code[c].op = "branch", p.code[c].when \in Divergent,
           NEW g \in Nat, NEW t \in Nat, NEW d \in c + 1 .. Behind(p, c)
    PROVE  Meets(p, rt, <<d, g, t>>) = Meets(p, rt, <<Behind(p, c), g, t>>)
<1> DEFINE end == Behind(p, c)
           Bad == {k \in Nat : /\ k < end - c
                               /\ Meets(p, rt, <<end - k, g, t>>) # Meets(p, rt, <<end, g, t>>)}
<1>5. end \in c + 1 .. Len(p.code) + 1 /\ RejoinsAt(p.code, c, end)
  BY DEF IsStructured, Behind
<1> HIDE DEF end
<1>1. /\ Len(p.code) \in Nat /\ end \in 1 .. Len(p.code) + 1 /\ end > c
      /\ \A e \in c + 1 .. end - 1 :
           /\ p.code[e].op \notin {"barrier", "count", "begin_tile"}
           /\ p.code[e].op = "branch" => p.code[e].skip >= 0 /\ e + 1 + p.code[e].skip <= end
  BY <1>5 DEF IsStructured, RejoinsAt
<1>0. c \in Nat /\ end \in Nat
  BY <1>1
<1>2. \A e \in 1 .. Len(p.code) : p.code[e].op = "branch" => p.code[e].skip \in Int
  BY DEF IsStructured
<1>3. CASE Bad # {}
  <2>1. PICK k \in Bad : \A j \in Bad : k <= j
    BY <1>3, LeastNatural
  <2> DEFINE e == end - k
  <2>2. /\ k \in Nat /\ k # 0 /\ e \in c + 1 .. end - 1
        /\ Meets(p, rt, <<e, g, t>>) # Meets(p, rt, <<end, g, t>>)
    <3>1. k \in Nat /\ k < end - c /\ Meets(p, rt, <<end - k, g, t>>) # Meets(p, rt, <<end, g, t>>)
      BY <2>1
    <3>2. end - 0 = end
      BY <1>0
    <3>3. k # 0
      BY <3>1, <3>2
    <3>4. e \in c + 1 .. end - 1
      BY <1>0, <3>1, <3>3
    <3> QED
      BY <3>1, <3>3, <3>4
  <2> HIDE DEF e
  <2>3. e \in 1 .. Len(p.code) /\ <<e, g, t>> \in Places(p) /\ ~ Stops(p, <<e, g, t>>)
    <3>1. e \in 1 .. Len(p.code)
      BY <1>0, <1>1, <2>2
    <3>2. p.code[e].op # "barrier"
      BY <1>1, <2>2
    <3>3. e # Len(p.code) + 1 /\ e \in 1 .. Len(p.code) + 1
      BY <1>1, <3>1
    <3> QED
      BY <3>1, <3>2, <3>3 DEF Places, Stops
  <2>4. PICK f \in e + 1 .. end : Flow(p, rt, <<e, g, t>>) = <<f, g, t>>
    <3>1. CASE p.code[e].op = "branch"
      <4>0. p.code[e].skip \in Int
        BY <1>2, <2>3, <3>1
      <4>2. p.code[e].skip >= 0 /\ e + 1 + p.code[e].skip <= end
        BY <1>1, <2>2, <3>1
      <4>3. e \in Nat /\ e + 1 <= end
        BY <1>0, <2>2
      <4> DEFINE j == IF Taking(p, rt, p.code[e].when, g, t) THEN p.code[e].skip ELSE 0
      <4>1. Flow(p, rt, <<e, g, t>>) = <<e + 1 + j, g, t>>
        BY <3>1 DEF Flow
      <4>5. j \in Nat /\ e + 1 + j <= end
        BY <4>0, <4>2, <4>3
      <4> HIDE DEF j
      <4>4. e + 1 + j \in e + 1 .. end
        BY <1>0, <4>3, <4>5
      <4> QED
        BY <4>1, <4>4
    <3>2. CASE p.code[e].op # "branch"
      <4>1. Flow(p, rt, <<e, g, t>>) = <<e + 1, g, t>>
        BY <1>1, <2>2, <3>2 DEF Flow
      <4>2. e + 1 \in e + 1 .. end
        BY <1>1, <2>2
      <4> QED
        BY <4>1, <4>2
    <3> QED
      BY <3>1, <3>2
  <2>5. Meets(p, rt, <<e, g, t>>) = Meets(p, rt, <<f, g, t>>)
    BY <2>3, <2>4, MeetsNext
  <2>6. end - f \in Nat /\ end - f < k /\ end - f < end - c
    BY <1>1, <2>2, <2>4 DEF e
  <2>7. end - f \notin Bad
    <3> SUFFICES ASSUME end - f \in Bad PROVE FALSE
      OBVIOUS
    <3>1. k <= end - f
      BY <2>1
    <3> QED
      BY <2>2, <2>6, <3>1
  <2>8. end - (end - f) = f
    BY <1>1, <2>4
  <2>9. Meets(p, rt, <<f, g, t>>) = Meets(p, rt, <<end, g, t>>)
    BY <2>6, <2>7, <2>8
  <2> QED
    BY <2>2, <2>5, <2>9
<1>4. CASE Bad = {}
  <2>1. end - d \in Nat /\ end - d < end - c /\ end - (end - d) = d
    BY <1>1 DEF end
  <2>2. end - d \notin Bad
    BY <1>4
  <2>3. Meets(p, rt, <<end - (end - d), g, t>>) = Meets(p, rt, <<end, g, t>>)
    BY <2>1, <2>2
  <2> QED
    BY <2>1, <2>3 DEF end
<1> QED
  BY <1>3, <1>4

-----------------------------------------------------------------------------
Place(w) == <<pc[w], stage[w], tile[w]>>

TypeInv ==
    /\ program \in Programs /\ route \in program.routes
    /\ pc \in [Waves -> 1 .. Len(Code) + 1]
    /\ stage \in [Waves -> Nat]
    /\ tile \in [Waves -> Nat]

(* Each wave comes to the same barrier next, in the same stage and tile.   *)
Together ==
    \A w, v \in Waves : Meets(program, route, Place(w)) = Meets(program, route, Place(v))

WalkInv == TypeInv /\ Together

LEMMA PlaceTyped ==
    ASSUME Structured, TypeInv, NEW w \in Waves
    PROVE  /\ IsStructured(program) /\ Len(Code) \in Nat
           /\ pc[w] \in 1 .. Len(Code) + 1 /\ stage[w] \in Nat /\ tile[w] \in Nat
           /\ Place(w) \in Places(program)
           /\ Running(w) => pc[w] \in 1 .. Len(Code)
           /\ Running(w) <=> pc[w] # Len(Code) + 1
           /\ Running(w) => Instruction(w).op \in Machine
           /\ Stops(program, Place(w)) <=> ~ Running(w) \/ AtBarrier(w)
<1>1. IsStructured(program) /\ Len(Code) \in Nat
  BY DEF Structured, TypeInv, IsStructured, Code
<1>2. pc[w] \in 1 .. Len(Code) + 1 /\ stage[w] \in Nat /\ tile[w] \in Nat
  BY DEF TypeInv
<1>3. /\ Running(w) => pc[w] \in 1 .. Len(Code)
      /\ Running(w) <=> pc[w] # Len(Code) + 1
  BY <1>1, <1>2 DEF Running
<1>4. Place(w) \in Places(program)
  BY <1>2 DEF Place, Places, Code
<1>5. Stops(program, Place(w)) <=> ~ Running(w) \/ AtBarrier(w)
  BY <1>3 DEF Stops, Place, AtBarrier, Instruction, Code
<1>6. Running(w) => Instruction(w).op \in Machine
  BY <1>1, <1>3 DEF IsStructured, Instruction, Code
<1> QED
  BY <1>1, <1>2, <1>3, <1>4, <1>5, <1>6

LEMMA TilesAre ==
    ASSUME Structured, TypeInv, NEW w \in Waves
    PROVE  Len(route.active[w]) = TilesOf(route)
<1>1. \A u, v \in Waves : Len(route.active[u]) = Len(route.active[v])
  BY DEF Structured, TypeInv, IsStructured
<1>2. \E n : \A v \in Waves : Len(route.active[v]) = n
  BY <1>1
<1> QED
  BY <1>2 DEF TilesOf

(* What a step of a wave does to its place and to the others'.             *)
MovesTo(w, place) ==
    /\ UNCHANGED <<program, route>>
    /\ pc' = [pc EXCEPT ![w] = place[1]]
    /\ stage' = [stage EXCEPT ![w] = place[2]]
    /\ tile' = [tile EXCEPT ![w] = place[3]]

LEMMA MoveKeeps ==
    ASSUME Structured, WalkInv, NEW w \in Waves, NEW place \in Places(program),
           MovesTo(w, place),
           Meets(program, route, place) = Meets(program, route, Place(w))
    PROVE  WalkInv'
<1>1. place[1] \in 1 .. Len(Code) + 1 /\ place[2] \in Nat /\ place[3] \in Nat
      /\ place = <<place[1], place[2], place[3]>>
  BY DEF Places, Code
<1>2. TypeInv'
  BY <1>1 DEF WalkInv, TypeInv, MovesTo, Code
<1>3. Place(w)' = place /\ \A v \in Waves : v # w => Place(v)' = Place(v)
  BY <1>1 DEF WalkInv, TypeInv, MovesTo, Place
<1>4. \A v \in Waves : Meets(program, route, Place(v)') = Meets(program, route, Place(v))
  BY <1>3
<1>5. program' = program /\ route' = route
  BY DEF MovesTo
<1>6. Together'
  BY <1>4, <1>5 DEF WalkInv, Together
<1> QED
  BY <1>2, <1>6 DEF WalkInv

(* Instructions that leave the counters alone. *)
LEMMA PlainMoves ==
    ASSUME Structured, WalkInv, NEW w \in Waves, Running(w), ~ AtBarrier(w),
           Instruction(w).op \notin {"branch", "count", "begin_tile"},
           Goto(w, pc[w] + 1), UNCHANGED <<program, route, tile, stage>>
    PROVE  WalkInv'
<1> DEFINE place == <<pc[w] + 1, stage[w], tile[w]>>
<1>1. TypeInv
  BY DEF WalkInv
<1>2. Flow(program, route, Place(w)) = place
  BY DEF Flow, Place, Instruction, Code
<1>3. /\ IsStructured(program) /\ Place(w) \in Places(program)
      /\ ~ Stops(program, Place(w))
  BY <1>1, PlaceTyped
<1>4. place \in Places(program) /\ Meets(program, route, place) = Meets(program, route, Place(w))
  BY <1>2, <1>3, FlowStays, MeetsNext
<1>5. MovesTo(w, place)
  BY <1>1 DEF MovesTo, Goto, TypeInv
<1> HIDE DEF place
<1> QED
  BY <1>4, <1>5, MoveKeeps

LEMMA ControlMoves ==
    ASSUME Structured, WalkInv, NEW w \in Waves, Running(w), ~ AtBarrier(w), Control(w)
    PROVE  WalkInv'
<1> DEFINE i == Instruction(w)
<1>1. TypeInv
  BY DEF WalkInv
<1>2. /\ IsStructured(program) /\ Place(w) \in Places(program)
      /\ ~ Stops(program, Place(w)) /\ pc[w] \in 1 .. Len(Code)
      /\ stage[w] \in Nat /\ tile[w] \in Nat /\ Len(Code) \in Nat
  BY <1>1, PlaceTyped
<1>3. i = program.code[pc[w]]
  BY DEF Instruction, Code
<1>4. UNCHANGED <<program, route>>
  BY DEF Control
<1>5. ASSUME NEW place, place = Flow(program, route, Place(w)), MovesTo(w, place)
      PROVE  WalkInv'
  <2>1. place \in Places(program) /\ Meets(program, route, place) = Meets(program, route, Place(w))
    BY <1>2, <1>5, FlowStays, MeetsNext
  <2> QED
    BY <1>5, <2>1, MoveKeeps
<1>6. CASE i.op = "count"
  <2>1. MovesTo(w, <<pc[w] + 1, stage[w] + i.n, tile[w]>>)
    BY <1>1, <1>4, <1>6 DEF Control, MovesTo, TypeInv, Goto
  <2>2. Flow(program, route, Place(w)) = <<pc[w] + 1, stage[w] + i.n, tile[w]>>
    BY <1>3, <1>6 DEF Flow, Place
  <2> QED
    BY <1>5, <2>1, <2>2
<1>7. CASE i.op = "begin_tile"
  <2>1. MovesTo(w, <<pc[w] + 1, 0, tile[w] + 1>>)
    BY <1>1, <1>4, <1>7 DEF Control, MovesTo, TypeInv, Goto
  <2>2. Flow(program, route, Place(w)) = <<pc[w] + 1, 0, tile[w] + 1>>
    BY <1>3, <1>7 DEF Flow, Place
  <2> QED
    BY <1>5, <2>1, <2>2
<1>8. CASE i.op \in {"swap", "store"}
  <2>1. Goto(w, pc[w] + 1) /\ UNCHANGED <<tile, stage>>
    BY <1>8 DEF Control
  <2> QED
    BY <1>4, <1>8, <2>1, PlainMoves
<1>9. CASE i.op = "branch"
  <2>1. /\ i.when \in Uniform \cup Divergent /\ i.skip \in Int
        /\ pc[w] + 1 + i.skip \in 1 .. Len(Code) + 1
        /\ i.when \in Divergent =>
             \E end \in pc[w] + 1 .. Len(Code) + 1 : RejoinsAt(Code, pc[w], end)
    BY <1>2, <1>3, <1>9 DEF IsStructured, Code
  <2>2. CASE i.when \in Uniform
    <3>1. Len(route.active[w]) = TilesOf(route)
      BY <1>1, TilesAre
    <3> DEFINE skipped == IF Taking(program, route, i.when, stage[w], tile[w])
                          THEN i.skip ELSE 0
    <3>2. Goto(w, pc[w] + 1 + skipped) /\ UNCHANGED <<tile, stage>>
      BY <1>9, <2>2, <3>1 DEF Control, Taking, Uniform
    <3>3. Flow(program, route, Place(w)) = <<pc[w] + 1 + skipped, stage[w], tile[w]>>
      BY <1>3, <1>9 DEF Flow, Place
    <3> HIDE DEF skipped
    <3>4. MovesTo(w, <<pc[w] + 1 + skipped, stage[w], tile[w]>>)
      BY <1>1, <1>4, <3>2 DEF MovesTo, TypeInv, Goto
    <3> QED
      BY <1>5, <3>3, <3>4
  <2>3. CASE i.when \in Divergent
    <3>1. PICK skipped \in {0, i.skip} : Goto(w, pc[w] + 1 + skipped) /\ UNCHANGED <<tile, stage>>
      BY <1>9 DEF Control
    <3> DEFINE place == <<pc[w] + 1 + skipped, stage[w], tile[w]>>
    <3> DEFINE end == Behind(program, pc[w])
    <3>0. end \in pc[w] + 1 .. Len(Code) + 1 /\ RejoinsAt(Code, pc[w], end)
      BY <2>1, <2>3 DEF Behind, Code
    <3> HIDE DEF end
    <3>2. MovesTo(w, place)
      BY <1>1, <1>4, <3>1 DEF MovesTo, TypeInv, Goto
    <3>3. pc[w] + 1 + i.skip \in pc[w] + 1 .. end
      <4>1. RejoinsAt(Code, pc[w], end) /\ Code[pc[w]] = i
        BY <3>0 DEF Instruction
      <4> HIDE DEF i
      <4> QED
        BY <4>1 DEF RejoinsAt
    <3>4. pc[w] \in Nat /\ skipped \in Int /\ end \in Nat /\ pc[w] + 1 <= end
      BY <1>2, <2>1, <3>0
    <3>5. pc[w] + 1 + skipped \in pc[w] + 1 .. end
      <4>1. CASE skipped = 0
        BY <3>4, <4>1
      <4>2. CASE skipped = i.skip
        BY <3>3, <4>2
      <4> QED
        BY <3>1, <4>1, <4>2
    <3>11. place \in Places(program)
      <4>1. pc[w] + 1 + skipped \in 1 .. Len(Code) + 1
        <5> HIDE DEF i
        <5> QED
          BY <1>2, <2>1, <3>4, <3>5
      <4> QED
        BY <1>2, <4>1 DEF Places, Code
    <3>12. ASSUME NEW d \in pc[w] + 1 .. end
           PROVE  Meets(program, route, <<d, stage[w], tile[w]>>)
                    = Meets(program, route, <<end, stage[w], tile[w]>>)
      <4>1. /\ pc[w] \in 1 .. Len(program.code)
            /\ program.code[pc[w]].op = "branch" /\ program.code[pc[w]].when \in Divergent
            /\ Behind(program, pc[w]) = end
        BY <1>2, <1>3, <1>9, <2>3 DEF Code, end
      <4> QED
        BY <1>2, <4>1, Rejoins
    <3>6. Meets(program, route, place) = Meets(program, route, <<end, stage[w], tile[w]>>)
      BY <3>5, <3>12
    <3>7. pc[w] + 1 \in pc[w] + 1 .. end
      BY <3>4
    <3>8. Meets(program, route, <<pc[w] + 1, stage[w], tile[w]>>)
            = Meets(program, route, <<end, stage[w], tile[w]>>)
      BY <3>7, <3>12
    <3>9. Flow(program, route, Place(w)) = <<pc[w] + 1, stage[w], tile[w]>>
      BY <1>3, <1>9, <2>3, <3>4 DEF Flow, Place, Taking, Divergent
    <3>10. Meets(program, route, Place(w)) = Meets(program, route, place)
      BY <1>2, <3>6, <3>8, <3>9, MeetsNext
    <3> HIDE DEF place
    <3> QED
      BY <3>2, <3>10, <3>11, MoveKeeps
  <2> QED
    BY <2>1, <2>2, <2>3
<1> QED
  BY <1>6, <1>7, <1>8, <1>9 DEF Control

(* A wave executes its next instruction, whatever the others do: any        *)
(* interleaving, of which Turn picks those that the runs explore.          *)
Proceeds(w) == Running(w) /\ ~ AtBarrier(w) /\ Perform(w)
AnyOrder == OpenBarrier \/ Ended \/ \E w \in Waves : Proceeds(w)
Interleaved == Init /\ [][AnyOrder]_vars

LEMMA NextOfAnyOrder == [Next]_vars => [AnyOrder]_vars
  BY DEF Next, AnyOrder, Execute, Proceeds, Turn

LEMMA ReadsMove ==
    ASSUME NEW w \in Waves, ReadRows(w)
    PROVE  /\ Instruction(w).op = "lds_read" /\ Goto(w, pc[w] + 1)
           /\ UNCHANGED <<program, route, tile, stage>>
<1>1. Instruction(w).op = "lds_read"
  BY Zenon DEF ReadRows
<1>2. Goto(w, pc[w] + 1)
  BY ZenonT(60) DEF ReadRows, Goto
<1>3. UNCHANGED <<program, route, tile, stage, swapped, vmcnt, lds, sums>>
  BY Zenon DEF ReadRows
<1> QED
  BY <1>1, <1>2, <1>3

LEMMA ExecuteMoves ==
    ASSUME Structured, WalkInv, NEW w \in Waves, Proceeds(w)
    PROVE  WalkInv'
<1>1. Running(w) /\ ~ AtBarrier(w)
  BY DEF Proceeds
<1>2. CASE Control(w)
  BY <1>1, <1>2, ControlMoves
<1>3. ASSUME Instruction(w).op \notin {"branch", "count", "begin_tile"},
             Goto(w, pc[w] + 1), UNCHANGED <<program, route, tile, stage>>
      PROVE  WalkInv'
  BY <1>1, <1>3, PlainMoves
<1>4. CASE Arithmetic(w)
  BY <1>3, <1>4 DEF Arithmetic
<1>5. CASE GlobalLoad(w)
  BY <1>3, <1>5 DEF GlobalLoad
<1>6. CASE WaitCount(w)
  BY <1>3, <1>6 DEF WaitCount
<1>7. CASE StoreChunk(w)
  BY <1>3, <1>7 DEF StoreChunk
<1>8. CASE LoadFragments(w)
  BY <1>3, <1>8 DEF LoadFragments
<1>9. CASE ReadRows(w)
  BY <1>3, <1>9, ReadsMove
<1>10. CASE MultiplyFragments(w)
  <2>1. Instruction(w).op \in {"wmma", "accumulate"}
    BY <1>10, Zenon DEF MultiplyFragments
  <2>2. Goto(w, pc[w] + 1) /\ UNCHANGED <<program, route, tile, stage>>
    BY <1>10, Zenon DEF MultiplyFragments
  <2>3. Instruction(w).op \notin {"branch", "count", "begin_tile"}
    BY <2>1
  <2> QED
    BY <1>3, <2>2, <2>3
<1> QED
  BY <1>2, <1>4, <1>5, <1>6, <1>7, <1>8, <1>9, <1>10 DEF Perform, Proceeds

(* Waves at a barrier are at one place.                                    *)
LEMMA MetAtOne ==
    ASSUME Structured, WalkInv, NEW w \in Waves, NEW v \in Waves, AtBarrier(w)
    PROVE  /\ Running(v)
           /\ AtBarrier(v) => Place(v) = Place(w)
<1>1. TypeInv /\ Meets(program, route, Place(w)) = Meets(program, route, Place(v))
  BY DEF WalkInv, Together
<1>2. Place(w) \in Places(program) /\ Stops(program, Place(w))
  BY <1>1, PlaceTyped
<1>3. Meets(program, route, Place(w)) = {Place(w)}
  BY <1>2, MeetsHere
<1>4. ASSUME Stops(program, Place(v)) PROVE Place(v) = Place(w)
  <2>1. Place(v) \in Places(program)
    BY <1>1, PlaceTyped
  <2>2. Meets(program, route, Place(v)) = {Place(v)}
    BY <1>4, <2>1, MeetsHere
  <2> QED
    BY <1>1, <1>3, <2>2
<1>5. ASSUME ~ Running(v) PROVE FALSE
  <2>1. Place(v) = Place(w)
    BY <1>1, <1>4, <1>5, PlaceTyped
  <2>2. pc[v] = pc[w]
    BY <2>1 DEF Place
  <2> QED
    BY <1>5, <2>2 DEF AtBarrier, Running
<1>6. AtBarrier(v) => Place(v) = Place(w)
  BY <1>1, <1>4, PlaceTyped
<1> QED
  BY <1>5, <1>6

LEMMA BarrierMoves ==
    ASSUME Structured, WalkInv, OpenBarrier
    PROVE  WalkInv'
<1>1. TypeInv
  BY DEF WalkInv
<1>2. /\ \A w \in Waves : AtBarrier(w)
      /\ pc' = [w \in Waves |-> pc[w] + 1]
      /\ UNCHANGED <<program, route, tile, stage>>
  BY DEF OpenBarrier
<1>3. \A w \in Waves : pc[w] + 1 \in 1 .. Len(Code) + 1
  <2> SUFFICES ASSUME NEW w \in Waves PROVE pc[w] + 1 \in 1 .. Len(Code) + 1
    OBVIOUS
  <2>1. Running(w)
    BY <1>2 DEF AtBarrier
  <2> QED
    BY <1>1, <2>1, PlaceTyped
<1>4. TypeInv'
  BY <1>1, <1>2, <1>3 DEF TypeInv, Code
<1>5. \A w, v \in Waves : Place(w)' = Place(v)'
  <2> SUFFICES ASSUME NEW w \in Waves, NEW v \in Waves PROVE Place(w)' = Place(v)'
    OBVIOUS
  <2>1. Place(v) = Place(w)
    BY <1>2, MetAtOne
  <2> QED
    BY <1>2, <2>1 DEF Place
<1> QED
  BY <1>4, <1>5 DEF WalkInv, Together

LEMMA WalkInit == ASSUME Structured, Init PROVE WalkInv
<1>1. program \in Programs /\ Len(Code) \in Nat
  BY DEF Init, Structured, IsStructured, Code
<1>2. TypeInv
  BY <1>1 DEF Init, TypeInv
<1>3. \A w \in Waves : Place(w) = <<1, 0, 0>>
  BY DEF Init, Place
<1> QED
  BY <1>2, <1>3 DEF WalkInv, Together

LEMMA WalkNext == ASSUME Structured, WalkInv, [AnyOrder]_vars PROVE WalkInv'
<1>1. CASE OpenBarrier
  BY <1>1, BarrierMoves
<1>2. CASE UNCHANGED vars
  BY <1>2 DEF vars, WalkInv, TypeInv, Together, Place, Code
<1>3. ASSUME NEW w \in Waves, Proceeds(w) PROVE WalkInv'
  BY <1>3, ExecuteMoves
<1> QED
  BY <1>1, <1>2, <1>3 DEF AnyOrder, Ended

LEMMA WalkAgrees == ASSUME Structured, WalkInv PROVE BarriersAgree
<1> SUFFICES ASSUME NEW w \in Waves, NEW v \in Waves, AtBarrier(w)
             PROVE  Running(v) /\ (AtBarrier(v) => pc[w] = pc[v])
  BY DEF BarriersAgree
<1>1. Running(v) /\ (AtBarrier(v) => Place(v) = Place(w))
  BY MetAtOne
<1> QED
  BY <1>1 DEF Place

(* For every number of waves, stages and tiles: no wave ends while another  *)
(* one waits at a barrier, and waves that wait wait at the same barrier.    *)
(* The emitters put branches on the role of a wave, on its rows and on loop *)
(* counters around barriers; s_barrier does not say which one it is.        *)
THEOREM WavesMeet == Structured => (Spec => []BarriersAgree)
<1> SUFFICES ASSUME Structured PROVE Spec => []BarriersAgree
  OBVIOUS
<1>1. Init => WalkInv
  BY WalkInit
<1>2. WalkInv /\ [Next]_vars => WalkInv'
  BY WalkNext, NextOfAnyOrder
<1>3. WalkInv => BarriersAgree
  BY WalkAgrees
<1> QED
  BY <1>1, <1>2, <1>3, PTL DEF Spec

-----------------------------------------------------------------------------
(* A wave that does not keep others from their turn.                       *)
Parked(w) == ~ Running(w) \/ AtBarrier(w) \/ AfterBarrier(w)
Alone == \A w, v \in Waves : w # v => Parked(w) \/ Parked(v)

(* The workgroup has ended, its barrier opens, or a wave has its turn, at an *)
(* instruction the machine has an action for.                               *)
NeverStuck ==
    \/ \A w \in Waves : ~ Running(w)
    \/ \A w \in Waves : AtBarrier(w)
    \/ \E w \in Waves : Turn(w) /\ Instruction(w).op \in Machine

LEMMA OthersStay ==
    ASSUME TypeInv, NEW w \in Waves, Execute(w), NEW v \in Waves, v # w
    PROVE  Parked(v) => Parked(v)'
<1>1. program' = program /\ \E n : Goto(w, n)
  <2>1. CASE Arithmetic(w)
    BY <2>1, Zenon DEF Arithmetic
  <2>2. CASE Control(w)
    BY <2>2, Zenon DEF Control
  <2>3. CASE GlobalLoad(w)
    BY <2>3, Zenon DEF GlobalLoad
  <2>4. CASE WaitCount(w)
    BY <2>4, Zenon DEF WaitCount
  <2>5. CASE StoreChunk(w)
    BY <2>5, Zenon DEF StoreChunk
  <2>6. CASE LoadFragments(w)
    BY <2>6, Zenon DEF LoadFragments
  <2>7. CASE ReadRows(w)
    BY <2>7, ReadsMove
  <2>8. CASE MultiplyFragments(w)
    BY <2>8, Zenon DEF MultiplyFragments
  <2> QED
    BY <2>1, <2>2, <2>3, <2>4, <2>5, <2>6, <2>7, <2>8 DEF Execute, Perform
<1>2. pc'[v] = pc[v]
  BY <1>1 DEF Goto, TypeInv
<1> QED
  BY <1>1, <1>2 DEF Parked, Running, AtBarrier, AfterBarrier, Instruction, Code

LEMMA AloneNext == ASSUME TypeInv, Alone, [Next]_vars PROVE Alone'
<1>1. CASE OpenBarrier
  <2> SUFFICES ASSUME NEW w \in Waves PROVE Parked(w)'
    BY DEF Alone
  <2>1. /\ pc'[w] = pc[w] + 1 /\ program' = program
        /\ Code[pc[w]].op = "barrier" /\ pc[w] \in Int
    BY <1>1 DEF OpenBarrier, AtBarrier, Instruction, TypeInv
  <2>2. pc'[w] - 1 = pc[w]
    BY <2>1
  <2>3. AfterBarrier(w)'
    BY <2>1, <2>2 DEF AfterBarrier, Code
  <2> QED
    BY <2>3 DEF Parked
<1>2. CASE UNCHANGED vars
  BY <1>2 DEF vars, Alone, Parked, Running, AtBarrier, AfterBarrier, Instruction, Code
<1>3. ASSUME NEW w \in Waves, Execute(w) PROVE Alone'
  <2>1. \A v \in Waves : v # w => Parked(v) /\ Parked(v)'
    BY <1>3, OthersStay DEF Execute, Turn, Parked
  <2> QED
    BY <2>1 DEF Alone
<1> QED
  BY <1>1, <1>2, <1>3 DEF Next, Ended

(* A workgroup that has not ended goes on: its barrier opens or some wave   *)
(* has its turn, whichever waves decode, have rows in the tile, or are      *)
(* ahead.  An s_barrier one wave skips would stop the others for good.      *)
THEOREM SomeWaveMoves == Structured => (Spec => []NeverStuck)
<1> SUFFICES ASSUME Structured PROVE Spec => []NeverStuck
  OBVIOUS
<1>1. Init => WalkInv /\ Alone
  BY WalkInit DEF Init, Alone, Parked, AfterBarrier
<1>2. WalkInv /\ Alone /\ [Next]_vars => (WalkInv /\ Alone)'
  BY WalkNext, AloneNext, NextOfAnyOrder DEF WalkInv
<1>3. WalkInv /\ Alone => NeverStuck
  <2> SUFFICES ASSUME WalkInv, Alone PROVE NeverStuck
    OBVIOUS
  <2> DEFINE busy == {w \in Waves : Running(w) /\ ~ AtBarrier(w)}
  <2>1. CASE busy = {}
    <3>1. \A w \in Waves : ~ Running(w) \/ AtBarrier(w)
      BY <2>1
    <3>2. \A w, v \in Waves : AtBarrier(w) => Running(v)
      BY MetAtOne
    <3> QED
      BY <3>1, <3>2 DEF NeverStuck
  <2>2. ASSUME NEW w \in busy, ~ AfterBarrier(w) PROVE Turn(w)
    <3>1. \A v \in Waves \ {w} : Parked(v)
      BY <2>2 DEF Alone, Parked
    <3> QED
      BY <2>2, <3>1 DEF Turn, Parked
  <2>3. ASSUME NEW w \in busy, \A v \in busy : AfterBarrier(v) PROVE Turn(w)
    BY <2>3 DEF Turn
  <2>4. CASE busy # {}
    <3>1. \E w \in busy : Turn(w)
      BY <2>2, <2>3, <2>4
    <3>2. \A w \in busy : Instruction(w).op \in Machine
      BY PlaceTyped DEF WalkInv
    <3> QED
      BY <3>1, <3>2 DEF NeverStuck
  <2> QED
    BY <2>1, <2>4
<1> QED
  BY <1>1, <1>2, <1>3, PTL DEF Spec

-----------------------------------------------------------------------------
(* LDS races.  The points of a program's text fall into zones that are left  *)
(* at barriers only, and in none of them one wave stores where another one   *)
(* reads (IsZoning).  Waves are always in one zone, what a wave has touched  *)
(* since its last barrier belongs to it, and nothing is outstanding at a     *)
(* barrier, so that what was touched before does not reach past it.          *)

(* What MCAssemblyBodies checks of the deployed programs that keep one LDS  *)
(* buffer.                                                                 *)
Zoned == \A p \in Programs : \A rt \in p.routes : \E z : IsZoning(p, rt.short, z)

Zoning == CHOOSE z : IsZoning(program, route.short, z)
At(w) == <<pc[w], Left(program, stage[w])>>
ZoneOf(w) == Zoning.zone[At(w)]

(* A cell is <<wave, region, part>> or <<buffer, wave, row, chunk>>.       *)
Owner(x) == IF Len(x) = 3 THEN x[1] ELSE x[2]
Lies(x, c) ==
    \/ Len(x) = 3 /\ x[2] = c[1] /\ x[3] = c[2]
    \/ Len(x) = 4 /\ x[3] = c[1] /\ x[4] = c[2]

(* LDS operations return in order; none is outstanding at idle points.     *)
Queues ==
    /\ lgkmcnt = [w \in Waves |-> lgkmcnt[w]]
    /\ \A w \in Waves : \E S : lgkmcnt[w] \in Seq(S)
Drained == \A w \in Waves : At(w) \in Zoning.idle => lgkmcnt[w] = <<>>
OneZone == \A w, v \in Waves : ZoneOf(w) = ZoneOf(v)
Inside == \A w \in Waves : At(w) \in Zoning.points
(* Stores go to the wave's own cells, at places of its zone; loads to those, *)
(* or to the cells of others at places of the zone nobody stores to.         *)
StoredIn(w, x) == Owner(x) = w /\ \E c \in Zoning.stored[ZoneOf(w)] : IsPlace(c) /\ Lies(x, c)
ReadIn(w, x) == Owner(x) = w \/ \E c \in Zoning.read[ZoneOf(w)] : IsPlace(c) /\ Lies(x, c)
Touching ==
    /\ touched = [w \in Waves |-> [stores |-> touched[w].stores, loads |-> touched[w].loads]]
    /\ \A w \in Waves : \A x \in touched[w].stores : StoredIn(w, x)
    /\ \A w \in Waves : \A x \in touched[w].loads : ReadIn(w, x)

ZoneInv == Inside /\ OneZone /\ Queues /\ Drained /\ Touching

LEMMA ZoningIs ==
    ASSUME Zoned, TypeInv PROVE IsZoning(program, route.short, Zoning)
  BY DEF Zoned, TypeInv, Zoning

LEMMA LeftCounts ==
    ASSUME NEW p, p.stages \in Nat \ {0}, NEW g \in Nat, NEW n \in Nat
    PROVE  Left(p, g) \in 0 .. 2 /\ Left(p, g + n) \in Counted(Left(p, g), n)
<1>1. CASE g >= p.stages
  BY <1>1 DEF Left, Counted
<1>2. CASE g < p.stages /\ g >= p.stages - 1
  BY <1>2 DEF Left, Counted
<1>3. CASE g < p.stages - 1
  <2>1. CASE n = 0
    BY <1>3, <2>1 DEF Left, Counted
  <2>2. CASE n = 1
    BY <1>3, <2>2 DEF Left, Counted
  <2>3. CASE n > 1
    BY <1>3, <2>3 DEF Left, Counted
  <2> QED
    BY <2>1, <2>2, <2>3
<1> QED
  BY <1>1, <1>2, <1>3

(* A wave that executes goes to a point that follows its own. *)
LEMMA ControlFollows ==
    ASSUME Structured, WalkInv, NEW w \in Waves, Running(w), ~ AtBarrier(w), Control(w)
    PROVE  At(w)' \in Following(program, route.short, At(w))
<1> DEFINE i == Instruction(w)
           left == Left(program, stage[w])
<1>1. TypeInv
  BY DEF WalkInv
<1>2. /\ IsStructured(program) /\ pc[w] \in 1 .. Len(Code)
      /\ stage[w] \in Nat /\ tile[w] \in Nat /\ Len(Code) \in Nat
  BY <1>1, PlaceTyped
<1>3. i = program.code[pc[w]]
  BY DEF Instruction, Code
<1>4. UNCHANGED <<program, route>>
  BY DEF Control
<1>5. /\ program.stages \in Nat \ {0}
      /\ i.op = "count" => i.n \in Nat
      /\ i.op = "branch" => i.when \in Uniform \cup Divergent /\ i.skip \in Int
  BY <1>2, <1>3 DEF IsStructured, Code
<1>6. CASE i.op = "count"
  <2>1. pc'[w] = pc[w] + 1 /\ stage'[w] = stage[w] + i.n
    BY <1>1, <1>6 DEF Control, TypeInv, Goto
  <2>2. Left(program, stage[w] + i.n) \in Counted(left, i.n)
    BY <1>2, <1>5, <1>6, LeftCounts
  <2> QED
    BY <1>3, <1>4, <1>6, <2>1, <2>2 DEF Following, At
<1>7. CASE i.op = "begin_tile"
  <2>1. pc'[w] = pc[w] + 1 /\ stage'[w] = 0
    BY <1>1, <1>7 DEF Control, TypeInv, Goto
  <2> QED
    BY <1>3, <1>4, <1>7, <2>1 DEF Following, At
<1>8. CASE i.op \in {"swap", "store"}
  <2>1. pc'[w] = pc[w] + 1 /\ stage'[w] = stage[w]
    BY <1>1, <1>8 DEF Control, TypeInv, Goto
  <2> QED
    BY <1>3, <1>4, <1>8, <2>1 DEF Following, At
<1>9. CASE i.op = "branch"
  <2>1. \E n \in Skips(i, left, route.short) : Goto(w, pc[w] + 1 + n)
    <3>1. /\ stage[w] >= program.stages <=> left = 0
          /\ stage[w] < program.stages <=> left # 0
          /\ stage[w] < program.stages - 1 <=> left = 2
      BY <1>2, <1>5 DEF Left
    <3> HIDE DEF left
    <3>2. PICK n \in {0, i.skip} :
             /\ Goto(w, pc[w] + 1 + n)
             /\ i.when = "no_more" => n = IF stage[w] >= program.stages THEN i.skip ELSE 0
             /\ i.when = "more" => n = IF stage[w] < program.stages THEN i.skip ELSE 0
             /\ i.when = "before_last" => n = IF stage[w] < program.stages - 1 THEN i.skip ELSE 0
             /\ i.when = "short_route" => n = IF route.short THEN i.skip ELSE 0
             /\ i.when = "always" => n = i.skip
      BY <1>9 DEF Control
    <3>3. n \in Skips(i, left, route.short)
      BY <3>1, <3>2 DEF Skips
    <3> QED
      BY <3>2, <3>3
  <2>2. stage'[w] = stage[w]
    BY <1>9 DEF Control
  <2>3. PICK n \in Skips(i, left, route.short) : pc'[w] = pc[w] + 1 + n
    BY <1>1, <2>1 DEF TypeInv, Goto
  <2> QED
    BY <1>3, <1>4, <1>9, <2>2, <2>3 DEF Following, At
<1> QED
  BY <1>6, <1>7, <1>8, <1>9 DEF Control

LEMMA PlainFollows ==
    ASSUME TypeInv, NEW w \in Waves,
           Instruction(w).op \notin {"branch", "count", "begin_tile"},
           Goto(w, pc[w] + 1), UNCHANGED <<program, route, tile, stage>>
    PROVE  At(w)' \in Following(program, route.short, At(w))
  BY DEF Following, At, Instruction, Code, Goto, TypeInv

LEMMA ExecuteFollows ==
    ASSUME Structured, WalkInv, NEW w \in Waves, Proceeds(w)
    PROVE  /\ UNCHANGED <<program, route>>
           /\ At(w)' \in Following(program, route.short, At(w))
           /\ \A v \in Waves \ {w} : At(v)' = At(v)
<1>1. Running(w) /\ ~ AtBarrier(w) /\ TypeInv
  BY DEF Proceeds, WalkInv
<1>2. CASE Control(w)
  <2>1. UNCHANGED <<program, route>>
    BY <1>2 DEF Control
  <2>2. At(w)' \in Following(program, route.short, At(w))
    BY <1>1, <1>2, ControlFollows
  <2>3. \A v \in Waves \ {w} : pc'[v] = pc[v] /\ stage'[v] = stage[v]
    BY <1>1, <1>2 DEF Control, Goto, TypeInv
  <2> QED
    BY <2>1, <2>2, <2>3 DEF At
<1>3. ASSUME Instruction(w).op \notin {"branch", "count", "begin_tile"},
             Goto(w, pc[w] + 1), UNCHANGED <<program, route, tile, stage>>
      PROVE  /\ At(w)' \in Following(program, route.short, At(w))
             /\ \A v \in Waves \ {w} : At(v)' = At(v)
  BY <1>1, <1>3, PlainFollows DEF At, Goto, TypeInv
<1>4. CASE Arithmetic(w)
  BY <1>3, <1>4 DEF Arithmetic
<1>5. CASE GlobalLoad(w)
  BY <1>3, <1>5 DEF GlobalLoad
<1>6. CASE WaitCount(w)
  BY <1>3, <1>6 DEF WaitCount
<1>7. CASE StoreChunk(w)
  BY <1>3, <1>7 DEF StoreChunk
<1>8. CASE LoadFragments(w)
  BY <1>3, <1>8 DEF LoadFragments
<1>9. CASE ReadRows(w)
  BY <1>3, <1>9, ReadsMove
<1>10. CASE MultiplyFragments(w)
  <2>1. Instruction(w).op \in {"wmma", "accumulate"}
    BY <1>10, Zenon DEF MultiplyFragments
  <2>2. Goto(w, pc[w] + 1) /\ UNCHANGED <<program, route, tile, stage>>
    BY <1>10, Zenon DEF MultiplyFragments
  <2>3. Instruction(w).op \notin {"branch", "count", "begin_tile"}
    BY <2>1
  <2> QED
    BY <1>3, <2>2, <2>3
<1> QED
  BY <1>2, <1>4, <1>5, <1>6, <1>7, <1>8, <1>9, <1>10 DEF Perform, Proceeds

(* What a step adds to the outstanding operations and the touched cells. *)
Queueing(w) ==
    /\ lgkmcnt' = [v \in Waves |-> lgkmcnt'[v]]
    /\ \E S : lgkmcnt'[w] \in Seq(S)
    /\ \A v \in Waves \ {w} : lgkmcnt'[v] = lgkmcnt[v]
Touches(w) ==
    /\ touched' = [v \in Waves |-> [stores |-> touched'[v].stores, loads |-> touched'[v].loads]]
    /\ \A v \in Waves \ {w} : touched'[v] = touched[v]
    /\ \A x \in touched'[w].stores : x \in touched[w].stores \/ StoredIn(w, x)
    /\ \A x \in touched'[w].loads : x \in touched[w].loads \/ ReadIn(w, x)
    
LEMMA QueuesStay ==
    ASSUME Queues, NEW w \in Waves, UNCHANGED lgkmcnt
    PROVE  Queueing(w) /\ lgkmcnt'[w] = lgkmcnt[w]
  BY DEF Queues, Queueing

LEMMA NothingTouched ==
    ASSUME Touching, NEW w \in Waves, UNCHANGED touched
    PROVE  Touches(w)
  BY DEF Touching, Touches

LEMMA QueueGrows ==
    ASSUME Queues, NEW w \in Waves, NEW T, NEW entries \in Seq(T),
           lgkmcnt' = [lgkmcnt EXCEPT ![w] = @ \o entries]
    PROVE  Queueing(w)
<1>1. PICK S : lgkmcnt[w] \in Seq(S)
  BY DEF Queues
<1>2. lgkmcnt[w] \in Seq(S \cup T) /\ entries \in Seq(S \cup T)
  BY <1>1
<1>3. lgkmcnt[w] \o entries \in Seq(S \cup T)
  BY <1>2
<1>4. /\ lgkmcnt'[w] = lgkmcnt[w] \o entries
      /\ lgkmcnt' = [v \in Waves |-> lgkmcnt'[v]]
      /\ \A v \in Waves \ {w} : lgkmcnt'[v] = lgkmcnt[v]
  BY DEF Queues
<1> QED
  BY <1>3, <1>4 DEF Queueing

LEMMA QueueShrinks ==
    ASSUME Queues, NEW w \in Waves, WaitCount(w), Instruction(w).lgkm \in Nat
    PROVE  /\ Queueing(w)
           /\ lgkmcnt[w] = <<>> \/ Instruction(w).lgkm = 0 => lgkmcnt'[w] = <<>>
<1> DEFINE q == lgkmcnt[w]
           n == Instruction(w).lgkm
           late == Len(q) - (IF Len(q) < n THEN Len(q) ELSE n)
           left == SubSeq(q, Len(SubSeq(q, 1, late)) + 1, Len(q))
<1>1. PICK S : q \in Seq(S)
  BY DEF Queues
<1>2. lgkmcnt' = [lgkmcnt EXCEPT ![w] = left]
  BY DEF WaitCount
<1>3. /\ lgkmcnt'[w] = left
      /\ lgkmcnt' = [v \in Waves |-> lgkmcnt'[v]]
      /\ \A v \in Waves \ {w} : lgkmcnt'[v] = lgkmcnt[v]
  BY <1>2 DEF Queues
<1>4. /\ late \in 0 .. Len(q)
      /\ n = 0 => late = Len(q)
      /\ Len(q) \in Nat
  BY <1>1
<1> HIDE DEF late, q
<1>5. Len(SubSeq(q, 1, late)) = late
  BY <1>1, <1>4
<1>6. left \in Seq(S)
  BY <1>1, <1>4, <1>5
<1>7. ASSUME late = Len(q) PROVE left = <<>>
  <2>1. left = SubSeq(q, Len(q) + 1, Len(q))
    BY <1>5, <1>7
  <2>2. Len(SubSeq(q, Len(q) + 1, Len(q))) = 0 /\ SubSeq(q, Len(q) + 1, Len(q)) \in Seq(S)
    BY <1>1, <1>4
  <2> QED
    BY <2>1, <2>2, EmptySeq
<1>8. q = <<>> => late = Len(q)
  BY <1>4
<1> QED
  BY <1>3, <1>4, <1>6, <1>7, <1>8 DEF Queueing, q

LEMMA ExecuteZones ==
    ASSUME Structured, Zoned, WalkInv, ZoneInv, NEW w \in Waves, Proceeds(w),
           Queueing(w), Touches(w), At(w)' \in Zoning.idle => lgkmcnt'[w] = <<>>
    PROVE  ZoneInv'
<1>1. /\ UNCHANGED <<program, route>>
      /\ At(w)' \in Following(program, route.short, At(w))
      /\ \A v \in Waves \ {w} : At(v)' = At(v)
  BY ExecuteFollows
<1>2. Zoning' = Zoning
  BY <1>1 DEF Zoning
<1>3. /\ TypeInv /\ Running(w) /\ ~ AtBarrier(w)
      /\ At(w) \in Zoning.points
  BY DEF WalkInv, ZoneInv, Inside, Proceeds
<1>4. pc[w] # Len(program.code) + 1 /\ program.code[pc[w]].op # "barrier"
  BY <1>3, PlaceTyped DEF AtBarrier, Instruction, Code
<1>5. At(w)' \in Zoning.points /\ Zoning.zone[At(w)'] = Zoning.zone[At(w)]
  <2>1. IsZoning(program, route.short, Zoning)
    BY <1>3, ZoningIs
  <2>2. At(w)[1] = pc[w]
    BY DEF At
  <2> QED
    BY <1>1, <1>3, <1>4, <2>1, <2>2 DEF IsZoning
<1>6. \A v \in Waves : At(v)' \in Zoning.points /\ ZoneOf(v)' = ZoneOf(v)
  BY <1>1, <1>2, <1>5 DEF ZoneOf, ZoneInv, Inside
<1>7. Inside' /\ OneZone'
  BY <1>2, <1>6 DEF ZoneInv, Inside, OneZone
<1>8. Queues'
  BY DEF Queueing, Queues, ZoneInv
<1>9. Drained'
  BY <1>1, <1>2 DEF Queueing, Drained, ZoneInv
<1>10. \A v \in Waves : \A x : (StoredIn(v, x) => StoredIn(v, x)') /\ (ReadIn(v, x) => ReadIn(v, x)')
  BY <1>2, <1>6 DEF StoredIn, ReadIn
<1>11. Touching'
  <2>1. \A v \in Waves : \A x \in touched'[v].stores : StoredIn(v, x)
    BY DEF Touches, Touching, ZoneInv
  <2>2. \A v \in Waves : \A x \in touched'[v].loads : ReadIn(v, x)
    BY DEF Touches, Touching, ZoneInv
  <2> QED
    BY <1>10, <2>1, <2>2 DEF Touches, Touching
<1> QED
  BY <1>7, <1>8, <1>9, <1>11 DEF ZoneInv

(* What the zoning says of the instruction a wave is at.                   *)
LEMMA InstructionZoned ==
    ASSUME Structured, Zoned, WalkInv, ZoneInv, NEW w \in Waves, Proceeds(w)
    PROVE  /\ At(w)' \in Zoning.idle =>
                \/ Instruction(w).op = "wait" /\ Instruction(w).lgkm = 0
                \/ Instruction(w).op \notin LdsOps /\ lgkmcnt[w] = <<>>
           /\ LdsTyped(Instruction(w))
           /\ StoredPlaces(Instruction(w)) \subseteq Zoning.stored[ZoneOf(w)]
           /\ ReadPlaces(program, Instruction(w)) \subseteq Zoning.read[ZoneOf(w)]
<1>1. At(w)' \in Following(program, route.short, At(w))
  BY ExecuteFollows
<1>2. /\ TypeInv /\ Running(w) /\ ~ AtBarrier(w)
      /\ At(w) \in Zoning.points
  BY DEF WalkInv, ZoneInv, Inside, Proceeds
<1>3. pc[w] # Len(program.code) + 1 /\ Instruction(w) = program.code[pc[w]]
  BY <1>2, PlaceTyped DEF Instruction, Code
<1>4. IsZoning(program, route.short, Zoning)
  BY <1>2, ZoningIs
<1>5. At(w)[1] = pc[w]
  BY DEF At
<1>6. At(w) \in Zoning.idle => lgkmcnt[w] = <<>>
  BY DEF ZoneInv, Drained
<1> HIDE DEF At
<1>7. LET i == program.code[At(w)[1]]
          z == Zoning.zone[At(w)]
      IN  /\ At(w)' \in Zoning.idle =>
               \/ i.op = "wait" /\ i.lgkm = 0
               \/ i.op \notin LdsOps /\ At(w) \in Zoning.idle
          /\ LdsTyped(i)
          /\ StoredPlaces(i) \subseteq Zoning.stored[z]
          /\ ReadPlaces(program, i) \subseteq Zoning.read[z]
  BY <1>1, <1>2, <1>3, <1>4, <1>5 DEF IsZoning
<1> QED
  BY <1>3, <1>5, <1>6, <1>7 DEF ZoneOf

LEMMA QuietMoves ==
    ASSUME Structured, Zoned, WalkInv, ZoneInv, NEW w \in Waves, Proceeds(w),
           Instruction(w).op # "wait", UNCHANGED <<lgkmcnt, touched>>
    PROVE  ZoneInv'
<1>1. Queueing(w) /\ Touches(w) /\ lgkmcnt'[w] = lgkmcnt[w]
  BY QueuesStay, NothingTouched DEF ZoneInv
<1>2. At(w)' \in Zoning.idle => lgkmcnt[w] = <<>>
  BY InstructionZoned
<1> QED
  BY <1>1, <1>2, ExecuteZones

LEMMA WaitMoves ==
    ASSUME Structured, Zoned, WalkInv, ZoneInv, NEW w \in Waves, Proceeds(w), WaitCount(w)
    PROVE  ZoneInv'
<1>1. Instruction(w).op = "wait" /\ UNCHANGED touched
  BY DEF WaitCount
<1>2. Instruction(w).lgkm \in Nat
  BY <1>1, InstructionZoned DEF LdsTyped
<1>3. Queueing(w) /\ (lgkmcnt[w] = <<>> \/ Instruction(w).lgkm = 0 => lgkmcnt'[w] = <<>>)
  BY <1>2, QueueShrinks DEF ZoneInv
<1>4. Touches(w)
  BY <1>1, NothingTouched DEF ZoneInv
<1> QED
  BY <1>3, <1>4, InstructionZoned, ExecuteZones

LEMMA LdsMoves ==
    ASSUME Structured, Zoned, WalkInv, ZoneInv, NEW w \in Waves, Proceeds(w),
           Instruction(w).op \in LdsOps, Queueing(w), Touches(w)
    PROVE  ZoneInv'
<1>1. At(w)' \notin Zoning.idle
  BY InstructionZoned DEF LdsOps
<1> QED
  BY <1>1, ExecuteZones

LEMMA OwnedCells ==
    ASSUME NEW c, IsPlace(c), NEW w, NEW b
    PROVE  /\ Owner(<<w>> \o c) = w /\ Lies(<<w>> \o c, c)
           /\ Owner(<<b, w>> \o c) = w /\ Lies(<<b, w>> \o c, c)
<1>1. PICK a, d : c = <<a, d>>
  BY DEF IsPlace
<1> DEFINE T == {w, b, a, d}
<1>2. <<w>> \in Seq(T) /\ <<b, w>> \in Seq(T) /\ <<a, d>> \in Seq(T)
  OBVIOUS
<1> HIDE DEF T
<1>3. LET x == <<w>> \o <<a, d>> IN Len(x) = 3 /\ x[1] = w /\ x[2] = a /\ x[3] = d
  BY <1>2
<1>4. LET x == <<b, w>> \o <<a, d>> IN Len(x) = 4 /\ x[2] = w /\ x[3] = a /\ x[4] = d
  BY <1>2
<1> QED
  BY <1>1, <1>3, <1>4 DEF Owner, Lies

(* A field of a wave's record is replaced. *)
LEMMA RecordChanged ==
    ASSUME Touching, NEW w \in Waves, NEW cells,
           \/ touched' = [touched EXCEPT ![w].stores = @ \cup cells]
           \/ touched' = [touched EXCEPT ![w].loads = @ \cup cells]
    PROVE  /\ touched' = [v \in Waves |-> [stores |-> touched'[v].stores,
                                           loads |-> touched'[v].loads]]
           /\ \A v \in Waves \ {w} : touched'[v] = touched[v]
<1>1. /\ touched = [v \in Waves |-> touched[v]]
      /\ \A v \in Waves : touched[v] = [stores |-> touched[v].stores, loads |-> touched[v].loads]
  BY DEF Touching
<1>2. touched' = [v \in Waves |-> touched'[v]] /\ \A v \in Waves \ {w} : touched'[v] = touched[v]
  BY <1>1
<1>3. \E s, l : touched'[w] = [stores |-> s, loads |-> l]
  <2>1. \/ touched'[w] = [touched[w] EXCEPT !.stores = @ \cup cells]
        \/ touched'[w] = [touched[w] EXCEPT !.loads = @ \cup cells]
    BY <1>1
  <2>2. \/ touched'[w] = [stores |-> touched[w].stores \cup cells, loads |-> touched[w].loads]
        \/ touched'[w] = [stores |-> touched[w].stores, loads |-> touched[w].loads \cup cells]
    BY <1>1, <2>1
  <2> QED
    BY <2>2
<1>4. touched'[w] = [stores |-> touched'[w].stores, loads |-> touched'[w].loads]
  BY <1>3
<1>5. \A v \in Waves : touched'[v] = [stores |-> touched'[v].stores, loads |-> touched'[v].loads]
  BY <1>1, <1>2, <1>4
<1> QED
  BY <1>2, <1>5

LEMMA StoresZoned ==
    ASSUME Structured, Zoned, WalkInv, ZoneInv, NEW w \in Waves, Proceeds(w), StoreChunk(w)
    PROVE  ZoneInv'
<1> DEFINE i == Instruction(w)
           cells == Cells(w, i)
<1>1. i.op \in {"lds_store", "lds_write"} /\ i.op \in LdsOps
  BY DEF StoreChunk, LdsOps
<1>2. /\ \A c \in StoredPlaces(i) : IsPlace(c) /\ c \in Zoning.stored[ZoneOf(w)]
      /\ i.op = "lds_store" => i.n \in Nat
  BY InstructionZoned DEF LdsTyped
<1>3. \A x \in cells : StoredIn(w, x)
  <2>1. CASE i.op = "lds_write"
    <3>1. cells = {<<w>> \o c : c \in StoredPlaces(i)}
      BY <2>1 DEF Cells, StoredPlaces
    <3> QED
      BY <1>2, <3>1, OwnedCells DEF StoredIn
  <2>2. CASE i.op = "lds_store"
    <3>1. cells = {<<BufferOf(w, i), w>> \o i.cell} /\ StoredPlaces(i) = {i.cell}
      BY <2>2 DEF Cells, StoredPlaces
    <3>2. IsPlace(i.cell) /\ i.cell \in Zoning.stored[ZoneOf(w)]
      BY <1>2, <3>1
    <3>3. Owner(<<BufferOf(w, i), w>> \o i.cell) = w /\ Lies(<<BufferOf(w, i), w>> \o i.cell, i.cell)
      BY <3>2, OwnedCells
    <3> QED
      BY <3>1, <3>2, <3>3 DEF StoredIn
  <2> QED
    BY <1>1, <2>1, <2>2
<1>4. Queueing(w)
  <2>1. PICK count \in Nat : \E entry :
           lgkmcnt' = [lgkmcnt EXCEPT ![w] = @ \o [j \in 1 .. count |-> entry]]
    BY <1>2 DEF StoreChunk
  <2>2. PICK entry : lgkmcnt' = [lgkmcnt EXCEPT ![w] = @ \o [j \in 1 .. count |-> entry]]
    BY <2>1
  <2>3. [j \in 1 .. count |-> entry] \in Seq({entry})
    OBVIOUS
  <2> QED
    BY <2>2, <2>3, QueueGrows DEF ZoneInv
<1>5. Touches(w)
  <2>1. touched' = [touched EXCEPT ![w].stores = @ \cup cells]
    BY DEF StoreChunk
  <2> HIDE DEF cells
  <2>2. \A v \in Waves \ {w} : touched'[v] = touched[v]
    BY <2>1, RecordChanged DEF ZoneInv
  <2>3. touched' = [v \in Waves |-> [stores |-> touched'[v].stores, loads |-> touched'[v].loads]]
    BY <2>1, RecordChanged DEF ZoneInv
  <2>4. touched'[w].stores = touched[w].stores \cup cells /\ touched'[w].loads = touched[w].loads
    BY <2>1 DEF ZoneInv, Touching
  <2> QED
    BY <1>3, <2>2, <2>3, <2>4 DEF Touches
<1> QED
  BY <1>1, <1>4, <1>5, LdsMoves

(* The same for both kinds of loads, with the cells they read.             *)
LEMMA LoadsZoned ==
    ASSUME Structured, Zoned, WalkInv, ZoneInv, NEW w \in Waves, Proceeds(w),
           Instruction(w).op \in LdsOps,
           NEW n \in Nat, NEW entries, entries = [j \in 1 .. n |-> entries[j]],
           lgkmcnt' = [lgkmcnt EXCEPT ![w] = @ \o entries],
           NEW cells, \A x \in cells : ReadIn(w, x),
           touched' = [touched EXCEPT ![w].loads = @ \cup cells]
    PROVE  ZoneInv'
<1>1. entries \in Seq({entries[j] : j \in 1 .. n})
  OBVIOUS
<1>2. Queueing(w)
  BY <1>1, QueueGrows DEF ZoneInv
<1>3. Touches(w)
  <2>2. \A v \in Waves \ {w} : touched'[v] = touched[v]
    BY RecordChanged DEF ZoneInv
  <2>3. touched' = [v \in Waves |-> [stores |-> touched'[v].stores, loads |-> touched'[v].loads]]
    BY RecordChanged DEF ZoneInv
  <2>4. touched'[w].stores = touched[w].stores /\ touched'[w].loads = touched[w].loads \cup cells
    BY DEF ZoneInv, Touching
  <2> QED
    BY <2>2, <2>3, <2>4 DEF Touches
<1> QED
  BY <1>2, <1>3, LdsMoves

LEMMA FragmentsZoned ==
    ASSUME Structured, Zoned, WalkInv, ZoneInv, NEW w \in Waves, Proceeds(w), LoadFragments(w)
    PROVE  ZoneInv'
<1> DEFINE i == Instruction(w)
           cells == Cells(w, i)
<1>1. i.op = "lds_load" /\ i.op \in LdsOps
  BY DEF LoadFragments, LdsOps
<1>2. /\ \A c \in ReadPlaces(program, i) : c \in Zoning.read[ZoneOf(w)]
      /\ Len(i.parts) \in Nat /\ DOMAIN i.parts = 1 .. Len(i.parts)
  BY <1>1, InstructionZoned DEF LdsTyped
<1>3. \A x \in cells : ReadIn(w, x)
  <2>1. CASE i.role = "grid"
    <3> SUFFICES ASSUME NEW x \in cells PROVE ReadIn(w, x)
      OBVIOUS
    <3>1. x \in CodebookCells
      BY <1>1, <2>1 DEF Cells
    <3>2. PICK v \in Waves, k \in 0 .. program.codebook - 1 : x = <<0, v, program.rows, k>>
      BY <3>1 DEF CodebookCells
    <3>3. <<program.rows, k>> \in ReadPlaces(program, i)
      BY <1>1, <2>1 DEF ReadPlaces
    <3>4. Lies(x, <<program.rows, k>>) /\ IsPlace(<<program.rows, k>>)
      BY <3>2 DEF Lies, IsPlace
    <3> QED
      BY <1>2, <3>3, <3>4 DEF ReadIn
  <2>2. CASE i.role # "grid"
    <3> SUFFICES ASSUME NEW x \in cells PROVE ReadIn(w, x)
      OBVIOUS
    <3>1. x \in {BufferOf(w, i)} \X Decoders \X RowsRead(w, i) \X (0 .. 3)
      BY <1>1, <2>2 DEF Cells
    <3>2. PICK v \in Decoders, row \in RowsRead(w, i), k \in 0 .. 3 : x = <<BufferOf(w, i), v, row, k>>
      BY <3>1
    <3>3. <<row, k>> \in ReadPlaces(program, i)
      BY <1>1, <2>2 DEF ReadPlaces, RowsRead
    <3>4. Lies(x, <<row, k>>) /\ IsPlace(<<row, k>>)
      BY <3>2 DEF Lies, IsPlace
    <3> QED
      BY <1>2, <3>3, <3>4 DEF ReadIn
  <2> QED
    BY <2>1, <2>2
<1>4. touched' = [touched EXCEPT ![w].loads = @ \cup cells]
  BY DEF LoadFragments
<1>5. PICK entries : /\ entries = [j \in 1 .. Len(i.parts) |-> entries[j]]
                     /\ lgkmcnt' = [lgkmcnt EXCEPT ![w] = @ \o entries]
  BY <1>2 DEF LoadFragments
<1> HIDE DEF cells
<1> QED
  BY <1>1, <1>2, <1>3, <1>4, <1>5, LoadsZoned

RowCell(v, c) == <<v>> \o c

LEMMA PartOf ==
    ASSUME NEW W, NEW C, NEW x, x \in PartCells(W, C)
    PROVE  \E v \in W : \E c \in C : x = RowCell(v, c)
  BY DEF PartCells, RowCell

LEMMA ReadsZoned ==
    ASSUME Structured, Zoned, WalkInv, ZoneInv, NEW w \in Waves, Proceeds(w), ReadRows(w)
    PROVE  ZoneInv'
<1> DEFINE i == Instruction(w)
<1>1. i.op = "lds_read" /\ i.op \in LdsOps
  BY Zenon DEF ReadRows, LdsOps
<1>2. /\ \A c \in ReadPlaces(program, i) : c \in Zoning.read[ZoneOf(w)]
      /\ Len(i.parts) \in Nat /\ DOMAIN i.parts = 1 .. Len(i.parts)
      /\ i.whose \in {"own", "all", "decoders"}
      /\ \A c \in PartsPlaces(i) : IsPlace(c)
  BY <1>1, InstructionZoned DEF LdsTyped
<1> DEFINE entries == [j \in DOMAIN i.parts |-> PartEntry(w, i, i.parts[j])]
<1>3. /\ lgkmcnt' = [lgkmcnt EXCEPT ![w] = @ \o entries]
      /\ touched' = [touched EXCEPT ![w].loads = @ \cup UNION {entries[j].cells : j \in DOMAIN entries}]
  BY Zenon DEF ReadRows
<1> DEFINE cells == UNION {entries[j].cells : j \in DOMAIN entries}
<1>4. \A x \in cells : ReadIn(w, x)
  <2> SUFFICES ASSUME NEW j \in DOMAIN i.parts, NEW x \in PartCells(Writers(w, i), i.parts[j].cells)
               PROVE  ReadIn(w, x)
    <3>1. \A j \in DOMAIN entries : entries[j].cells = PartCells(Writers(w, i), i.parts[j].cells)
      BY DEF PartEntry
    <3> HIDE DEF entries
    <3>2. DOMAIN entries = DOMAIN i.parts
      BY DEF entries
    <3> QED
      BY <3>1, <3>2
  <2>1. PICK v \in Writers(w, i), c \in i.parts[j].cells : x = RowCell(v, c)
    BY PartOf
  <2>2. c \in PartsPlaces(i) /\ IsPlace(c)
    BY <1>2 DEF PartsPlaces
  <2>3. Owner(x) = v /\ Lies(x, c)
    BY <2>1, <2>2, OwnedCells DEF RowCell
  <2>4. CASE i.whose = "own"
    BY <2>1, <2>3, <2>4 DEF ReadIn, Writers
  <2>5. CASE i.whose # "own"
    BY <1>1, <1>2, <2>1, <2>2, <2>3, <2>5 DEF ReadIn, ReadPlaces
  <2> QED
    BY <2>4, <2>5
<1>5. touched' = [touched EXCEPT ![w].loads = @ \cup cells]
  BY <1>3
<1>6. entries = [j \in 1 .. Len(i.parts) |-> entries[j]]
  BY <1>2
<1> HIDE DEF cells, entries
<1> QED
  BY <1>1, <1>2, <1>3, <1>4, <1>5, <1>6, LoadsZoned

LEMMA ExecuteMovesZone ==
    ASSUME Structured, Zoned, WalkInv, ZoneInv, NEW w \in Waves, Proceeds(w)
    PROVE  ZoneInv'
<1>1. CASE Arithmetic(w)
  BY <1>1, QuietMoves DEF Arithmetic
<1>2. CASE Control(w)
  BY <1>2, QuietMoves DEF Control
<1>3. CASE GlobalLoad(w)
  BY <1>3, QuietMoves DEF GlobalLoad
<1>4. CASE WaitCount(w)
  BY <1>4, WaitMoves
<1>5. CASE StoreChunk(w)
  BY <1>5, StoresZoned
<1>6. CASE LoadFragments(w)
  BY <1>6, FragmentsZoned
<1>7. CASE ReadRows(w)
  BY <1>7, ReadsZoned
<1>8. CASE MultiplyFragments(w)
  <2>1. Instruction(w).op \in {"wmma", "accumulate"} /\ UNCHANGED <<lgkmcnt, touched>>
    BY <1>8, Zenon DEF MultiplyFragments
  <2> QED
    BY <2>1, QuietMoves
<1> QED
  BY <1>1, <1>2, <1>3, <1>4, <1>5, <1>6, <1>7, <1>8 DEF Perform, Proceeds

(* All waves pass a barrier at one point, with nothing outstanding. *)
LEMMA BarrierZones ==
    ASSUME Structured, Zoned, WalkInv, ZoneInv, OpenBarrier
    PROVE  ZoneInv'
<1>1. /\ TypeInv /\ UNCHANGED <<program, route, stage, lgkmcnt>>
      /\ \A w \in Waves : AtBarrier(w) /\ pc'[w] = pc[w] + 1
  BY DEF WalkInv, OpenBarrier
<1>2. Zoning' = Zoning
  BY <1>1 DEF Zoning
<1>3. ASSUME NEW w \in Waves
      PROVE  /\ lgkmcnt[w] = <<>>
             /\ At(w)' \in Zoning.points
             /\ At(w)' \in Following(program, route.short, At(w))
  <2>1. Running(w) /\ Instruction(w).op = "barrier"
    BY <1>1 DEF AtBarrier
  <2>2. /\ At(w) \in Zoning.points /\ At(w)[1] = pc[w]
        /\ Instruction(w) = program.code[pc[w]] /\ pc[w] # Len(program.code) + 1
    BY <1>1, <2>1, PlaceTyped DEF At, ZoneInv, Inside, Instruction, Code
  <2>3. At(w)' \in Following(program, route.short, At(w))
    BY <1>1, <2>1 DEF Following, At, Instruction, Code
  <2> HIDE DEF At
  <2>4. IsZoning(program, route.short, Zoning)
    BY <1>1, ZoningIs
  <2>5. At(w) \in Zoning.idle /\ At(w)' \in Zoning.points
    BY <2>1, <2>2, <2>3, <2>4 DEF IsZoning
  <2> QED
    BY <2>3, <2>5 DEF ZoneInv, Drained
<1>4. \A w, v \in Waves : At(w)' = At(v)'
  <2> SUFFICES ASSUME NEW w \in Waves, NEW v \in Waves PROVE At(w)' = At(v)'
    OBVIOUS
  <2>1. Place(v) = Place(w)
    BY <1>1, MetAtOne
  <2> QED
    BY <1>1, <2>1 DEF At, Place
<1>5. Inside' /\ OneZone' /\ Queues' /\ Drained'
  <2>1. Queues
    BY DEF ZoneInv
  <2>2. Queues'
    BY <1>1, <2>1 DEF Queues
  <2>3. Inside' /\ Drained'
    BY <1>1, <1>2, <1>3 DEF Inside, Drained
  <2>4. OneZone'
    BY <1>4 DEF OneZone, ZoneOf
  <2> QED
    BY <2>2, <2>3, <2>4
<1>6. touched' = [w \in Waves |-> [stores |-> {}, loads |-> {}]]
  <2>1. \A w \in Waves : Outstanding(w, TRUE) = {} /\ Outstanding(w, FALSE) = {}
    BY <1>3 DEF Outstanding
  <2> QED
    BY <2>1 DEF OpenBarrier
<1>7. Touching'
  BY <1>6 DEF Touching
<1> QED
  BY <1>5, <1>7 DEF ZoneInv

LEMMA ZoneInit == ASSUME Structured, Zoned, Init PROVE ZoneInv
<1>1. TypeInv
  BY WalkInit DEF WalkInv
<1>2. IsZoning(program, route.short, Zoning)
  BY <1>1, ZoningIs
<1>3. \A w \in Waves : At(w) = <<1, Left(program, 0)>>
  BY DEF Init, At
<1>4. Inside /\ OneZone
  BY <1>2, <1>3 DEF Inside, OneZone, ZoneOf, IsZoning
<1>5. lgkmcnt = [w \in Waves |-> <<>>] /\ touched = [w \in Waves |-> [stores |-> {}, loads |-> {}]]
  BY DEF Init
<1>6. Queues /\ Drained
  BY <1>5 DEF Queues, Drained
<1>7. Touching
  BY <1>5 DEF Touching
<1> QED
  BY <1>4, <1>6, <1>7 DEF ZoneInv

LEMMA ZoneNext == ASSUME Structured, Zoned, WalkInv, ZoneInv, [AnyOrder]_vars PROVE ZoneInv'
<1>1. CASE OpenBarrier
  BY <1>1, BarrierZones
<1>2. CASE UNCHANGED vars
  <2>1. UNCHANGED <<program, route, pc, stage, lgkmcnt, touched>>
    BY <1>2 DEF vars
  <2>2. Zoning' = Zoning /\ \A w : At(w)' = At(w)
    BY <2>1 DEF Zoning, At
  <2> QED
    BY <2>1, <2>2 DEF ZoneInv, Inside, OneZone, Queues, Drained, Touching, StoredIn, ReadIn, ZoneOf
<1>3. ASSUME NEW w \in Waves, Proceeds(w) PROVE ZoneInv'
  BY <1>3, ExecuteMovesZone
<1> QED
  BY <1>1, <1>2, <1>3 DEF AnyOrder, Ended

LEMMA OneZoneNoRace == ASSUME Zoned, WalkInv, ZoneInv PROVE NoLdsRace
<1> SUFFICES ASSUME NEW w \in Waves, NEW v \in Waves, w # v,
                    NEW x \in touched[w].stores, x \in touched[v].stores \cup touched[v].loads
             PROVE  FALSE
  BY DEF NoLdsRace
<1>1. StoredIn(w, x) /\ (x \in touched[v].stores => StoredIn(v, x)) /\ (x \in touched[v].loads => ReadIn(v, x))
  BY DEF ZoneInv, Touching
<1>2. CASE x \in touched[v].stores
  BY <1>1, <1>2 DEF StoredIn
<1>3. CASE x \in touched[v].loads
  <2>1. PICK c \in Zoning.stored[ZoneOf(w)] : IsPlace(c) /\ Lies(x, c)
    BY <1>1 DEF StoredIn
  <2>2. PICK d \in Zoning.read[ZoneOf(v)] : IsPlace(d) /\ Lies(x, d)
    BY <1>1, <1>3 DEF StoredIn, ReadIn
  <2>3. c = d
    BY <2>1, <2>2 DEF IsPlace, Lies
  <2>4. ZoneOf(v) = ZoneOf(w) /\ At(w) \in Zoning.points /\ IsZoning(program, route.short, Zoning)
    BY ZoningIs DEF ZoneInv, OneZone, Inside, WalkInv
  <2>5. Zoning.stored[ZoneOf(w)] \cap Zoning.read[ZoneOf(w)] = {}
    BY <2>4 DEF IsZoning, ZoneOf
  <2> QED
    BY <2>1, <2>2, <2>3, <2>4, <2>5
<1> QED
  BY <1>2, <1>3

(* For every number of waves and every route: no wave stores to an LDS cell *)
(* that another one stores to or reads before a barrier parts them, loads   *)
(* and stores that outlive the barrier included.  The emitters put barriers *)
(* by hand around the staging of rows, codebooks and decoded tiles.         *)
THEOREM NoWavesRace == Structured /\ Zoned => (Spec => []NoLdsRace)
<1> SUFFICES ASSUME Structured, Zoned PROVE Spec => []NoLdsRace
  OBVIOUS
<1>1. Init => WalkInv /\ ZoneInv
  BY WalkInit, ZoneInit
<1>2. WalkInv /\ ZoneInv /\ [Next]_vars => (WalkInv /\ ZoneInv)'
  BY WalkNext, ZoneNext, NextOfAnyOrder
<1>3. WalkInv /\ ZoneInv => NoLdsRace
  BY OneZoneNoRace
<1> QED
  BY <1>1, <1>2, <1>3, PTL DEF Spec

(* The same of every interleaving of the waves' instructions, not only of   *)
(* those in which each wave in turn runs to the next barrier: that is what  *)
(* lets the runs explore these alone.                                      *)
THEOREM RaceFreeInAnyOrder ==
    Structured /\ Zoned => (Interleaved => [](NoLdsRace /\ BarriersAgree))
<1> SUFFICES ASSUME Structured, Zoned PROVE Interleaved => [](NoLdsRace /\ BarriersAgree)
  OBVIOUS
<1>1. Init => WalkInv /\ ZoneInv
  BY WalkInit, ZoneInit
<1>2. WalkInv /\ ZoneInv /\ [AnyOrder]_vars => (WalkInv /\ ZoneInv)'
  BY WalkNext, ZoneNext
<1>3. WalkInv /\ ZoneInv => NoLdsRace /\ BarriersAgree
  BY OneZoneNoRace, WalkAgrees
<1> QED
  BY <1>1, <1>2, <1>3, PTL DEF Interleaved
-----------------------------------------------------------------------------
(* The sums.  Each wave walks the text on its own, and while it has rows in  *)
(* its tile every fragment with a row holds the products of the stages      *)
(* counted and the tally of the point it is at; stages are counted in units *)
(* that divide their number, so that a loop ends with the last one.        *)

(* What MCAssemblyBodies checks of the deployed programs.                  *)
TalliedBy(p, rt, z) ==
    IsBeginning(p, rt.short, z) /\ IsTallying(p, rt.short, z) /\ RowsWithin(p, rt, z)
Tallied == \A p \in Programs : \A rt \in p.routes : \E z : TalliedBy(p, rt, z)

Tallying == CHOOSE z : TalliedBy(program, route, z)

(* A wave begins no more tiles than its route has.                         *)
Begun(w) ==
    /\ pc[w] \in Tallying.places
    /\ tile[w] <= Len(route.active[w])
    /\ pc[w] \in Tallying.more => tile[w] < Len(route.active[w])
    /\ pc[w] \in Tallying.fresh \/ tile[w] >= 1
Working(w) == tile[w] >= 1 /\ ActiveOf(w) # 0
Summed(w) ==
    /\ At(w) \in Tallying.live
    /\ stage[w] <= program.stages /\ \E k \in Nat : stage[w] = Tallying.unit * k
    /\ \A t \in Fragments(program, Tallying) :
         t[1] < ActiveOf(w) =>
           sums[w][t] = Tallying.rate * stage[w] + Tally(Tallying, At(w), t)
SumsTyped == sums = [w \in Waves |-> [t \in program.tiles |-> sums[w][t]]]
SumInv ==
    /\ SumsTyped
    /\ \A w \in Waves : Begun(w) /\ (Working(w) => Summed(w))

LEMMA TallyingIs ==
    ASSUME Tallied, TypeInv
    PROVE  /\ IsBeginning(program, route.short, Tallying)
           /\ IsTallying(program, route.short, Tallying)
           /\ RowsWithin(program, route, Tallying)
<1>1. \E z : TalliedBy(program, route, z)
  BY DEF Tallied, TypeInv
<1>2. TalliedBy(program, route, Tallying)
  BY <1>1 DEF Tallying
<1> QED
  BY <1>2 DEF TalliedBy

(* Arithmetic of products. *)
LEMMA TimesSum ==
    ASSUME NEW a \in Nat, NEW b \in Nat, NEW c \in Nat
    PROVE  a * (b + c) = a * b + a * c /\ a * b \in Nat
  OBVIOUS

LEMMA TimesMonotone ==
    ASSUME NEW a \in Nat, NEW b \in Nat, NEW c \in Nat, b <= c
    PROVE  a * b <= a * c
<1>1. PICK d \in Nat : c = b + d
  <2>1. c - b \in Nat /\ c = b + (c - b)
    OBVIOUS
  <2> QED
    BY <2>1
<1>2. a * (b + d) = a * b + a * d /\ a * b \in Nat /\ a * d \in Nat
  BY TimesSum
<1> QED
  BY <1>1, <1>2

LEMMA NextUnit ==
    ASSUME NEW u \in Nat, NEW k \in Nat, NEW m \in Nat, u * k < u * m
    PROVE  u * k + u = u * (k + 1) /\ u * k + u <= u * m
<1>1. u * (k + 1) = u * k + u
  <2>1. u * (k + 1) = u * k + u * 1
    BY TimesSum
  <2> QED
    BY <2>1
<1>2. k + 1 <= m
  <2>1. ASSUME m <= k PROVE FALSE
    <3>1. u * m <= u * k
      BY <2>1, TimesMonotone
    <3>2. u * m \in Nat /\ u * k \in Nat
      BY TimesSum
    <3> QED
      BY <3>1, <3>2
  <2> QED
    BY <2>1
<1>3. u * (k + 1) <= u * m
  BY <1>2, TimesMonotone
<1> QED
  BY <1>1, <1>3

(* Where a wave goes on in the text. *)
LEMMA FollowingOnward ==
    ASSUME NEW p, NEW short, NEW x, x[2] \in 0 .. 2, NEW y \in Following(p, short, x)
    PROVE  y[1] \in Onward(p.code[x[1]], x[1], short)
<1>1. CASE p.code[x[1]].op = "branch"
  <2>1. PICK n \in Skips(p.code[x[1]], x[2], short) : y = <<x[1] + 1 + n, x[2]>>
    BY <1>1 DEF Following
  <2> QED
    BY <1>1, <2>1 DEF Onward
<1>2. CASE p.code[x[1]].op # "branch"
  BY <1>2 DEF Following, Onward
<1> QED
  BY <1>1, <1>2

(* What a step does to a wave: it stays, or executes its instruction.      *)
Stays(w) == pc'[w] = pc[w] /\ stage'[w] = stage[w] /\ tile'[w] = tile[w] /\ sums'[w] = sums[w]
Jumping(w, n) ==
    LET i == Instruction(w) IN
    /\ i.when = "active" => n = IF ActiveOf(w) # 0 THEN i.skip ELSE 0
    /\ i.when = "inactive" => n = IF ActiveOf(w) = 0 THEN i.skip ELSE 0
    /\ i.when = "more_tiles" => n = IF tile[w] < Len(route.active[w]) THEN i.skip ELSE 0
    /\ i.when = "no_tiles" => n = IF tile[w] >= Len(route.active[w]) THEN i.skip ELSE 0
    /\ i.when = "more_full" => n = IF tile[w] < route.full THEN i.skip ELSE 0
    /\ i.when = "no_full" => n = IF tile[w] >= route.full THEN i.skip ELSE 0
    /\ i.when = "always" => n = i.skip
Moving(w) ==
    LET i == Instruction(w) IN
    /\ tile'[w] = IF i.op = "begin_tile" THEN tile[w] + 1 ELSE tile[w]
    /\ i.op = "begin_tile" => stage'[w] = 0
    /\ i.op = "count" => stage'[w] = stage[w] + i.n
    /\ i.op \notin {"begin_tile", "count"} => stage'[w] = stage[w]
    /\ i.op = "branch" => \E n \in {0, i.skip} : pc'[w] = pc[w] + 1 + n /\ Jumping(w, n)
Adds(w) ==
    LET i == Instruction(w) IN
    \A t \in program.tiles :
      /\ i.op = "begin_tile" => sums'[w][t] = 0
      /\ i.op # "begin_tile" /\ t[1] < ActiveOf(w) =>
           sums'[w][t] = IF t \in Products(i) THEN sums[w][t] + 1 ELSE sums[w][t]
Steps(w) ==
    /\ Running(w)
    /\ At(w)' \in Following(program, route.short, At(w))
    /\ Moving(w) /\ Adds(w)

LEMMA QuietSteps ==
    ASSUME Structured, WalkInv, SumsTyped, NEW w \in Waves, Running(w), 
           Instruction(w).op \notin {"branch", "count", "begin_tile", "wmma", "accumulate"},
           pc'[w] = pc[w] + 1, tile'[w] = tile[w], stage'[w] = stage[w], sums' = sums,
           UNCHANGED <<program, route>>
    PROVE  Steps(w)
<1>1. Moving(w)
  BY DEF Moving
<1>2. Adds(w)
  BY DEF Adds, Products
<1>3. At(w)' \in Following(program, route.short, At(w))
  BY DEF Following, At, Instruction, Code
<1> QED
  BY <1>1, <1>2, <1>3 DEF Steps

LEMMA ControlSteps ==
    ASSUME Structured, WalkInv, SumsTyped, NEW w \in Waves, Running(w), ~ AtBarrier(w), Control(w)
    PROVE  /\ Steps(w) /\ \A v \in Waves \ {w} : Stays(v)
           /\ SumsTyped'
<1> DEFINE i == Instruction(w)
<1>1. TypeInv /\ sums = [v \in Waves |-> [t \in program.tiles |-> sums[v][t]]]
  BY DEF WalkInv, SumsTyped
<1>2. At(w)' \in Following(program, route.short, At(w))
  BY ControlFollows
<1>3. UNCHANGED <<program, route>>
  BY DEF Control
<1>4. CASE i.op = "count"
  <2>1. /\ stage' = [stage EXCEPT ![w] = @ + i.n]
        /\ pc' = [pc EXCEPT ![w] = pc[w] + 1] /\ UNCHANGED <<tile, sums>>
    BY <1>4, Zenon DEF Control, Goto
  <2>2. Moving(w) /\ Adds(w)
    BY <1>1, <1>4, <2>1 DEF Moving, Adds, Products, TypeInv
  <2> QED
    BY <1>1, <1>2, <1>3, <2>1, <2>2 DEF Steps, Stays, SumsTyped, TypeInv
<1>5. CASE i.op = "branch"
  <2>1. \E n \in {0, i.skip} : Goto(w, pc[w] + 1 + n) /\ Jumping(w, n)
    BY <1>5 DEF Control, Jumping
  <2>2. UNCHANGED <<tile, stage, sums>>
    BY <1>5, Zenon DEF Control
  <2>3. \E n \in {0, i.skip} : pc'[w] = pc[w] + 1 + n /\ Jumping(w, n)
    BY <1>1, <2>1 DEF Goto, TypeInv
  <2>4. \A v \in Waves \ {w} : pc'[v] = pc[v]
    BY <1>1, <2>1 DEF Goto, TypeInv
  <2>5. Moving(w)
    BY <1>5, <2>2, <2>3 DEF Moving
  <2>6. Adds(w)
    BY <1>5, <2>2 DEF Adds, Products
  <2> QED
    BY <1>1, <1>2, <1>3, <2>2, <2>4, <2>5, <2>6 DEF Steps, Stays, SumsTyped
<1>6. CASE i.op = "begin_tile"
  <2>1. /\ tile' = [tile EXCEPT ![w] = @ + 1] /\ stage' = [stage EXCEPT ![w] = 0]
        /\ sums' = [sums EXCEPT ![w] = [t \in DOMAIN @ |-> 0]]
        /\ pc' = [pc EXCEPT ![w] = pc[w] + 1]
    BY <1>6, Zenon DEF Control, Goto
  <2>2. sums'[w] = [t \in program.tiles |-> 0] /\ \A v \in Waves \ {w} : sums'[v] = sums[v]
    BY <1>1, <2>1
  <2>3. Moving(w) /\ Adds(w)
    BY <1>1, <1>6, <2>1, <2>2 DEF Moving, Adds, TypeInv
  <2>4. SumsTyped'
    BY <1>1, <1>3, <2>1, <2>2 DEF SumsTyped
  <2> QED
    BY <1>1, <1>2, <2>1, <2>2, <2>3, <2>4 DEF Steps, Stays, TypeInv
<1>7. CASE i.op \in {"swap", "store"}
  <2>1. Goto(w, pc[w] + 1) /\ UNCHANGED <<tile, stage, sums>>
    BY <1>7, Zenon DEF Control
  <2>2. pc'[w] = pc[w] + 1 /\ \A v \in Waves \ {w} : pc'[v] = pc[v]
    BY <1>1, <2>1 DEF Goto, TypeInv
  <2> QED
    BY <1>1, <1>3, <1>7, <2>1, <2>2, QuietSteps DEF Stays, SumsTyped
<1> QED
  BY <1>4, <1>5, <1>6, <1>7, Zenon DEF Control

LEMMA MultiplySteps ==
    ASSUME Structured, WalkInv, SumsTyped, NEW w \in Waves, Running(w), MultiplyFragments(w)
    PROVE  /\ Steps(w) /\ \A v \in Waves \ {w} : Stays(v)
           /\ SumsTyped'
<1> DEFINE i == Instruction(w)
           taken == IF i.op = "accumulate" THEN {t.fragment : t \in i.takes}
                    ELSE {<<t[1], t[2]>> : t \in Taken(w, i)}
<1>1. TypeInv /\ sums = [v \in Waves |-> [t \in program.tiles |-> sums[v][t]]]
  BY DEF WalkInv, SumsTyped
<1>2. i.op \in {"wmma", "accumulate"}
  BY Zenon DEF MultiplyFragments
<1>3. /\ sums' = [sums EXCEPT ![w] = [t \in DOMAIN @ |-> IF t \in taken THEN @[t] + 1 ELSE @[t]]]
      /\ Goto(w, pc[w] + 1) /\ UNCHANGED <<program, route, tile, stage>>
  BY Zenon DEF MultiplyFragments
<1>4. \A t \in program.tiles : t[1] < ActiveOf(w) => (t \in taken <=> t \in Products(i))
  BY <1>2 DEF Products, Taken
<1> HIDE DEF taken
<1>5. /\ sums'[w] = [t \in program.tiles |-> IF t \in taken THEN sums[w][t] + 1 ELSE sums[w][t]]
      /\ \A v \in Waves \ {w} : sums'[v] = sums[v]
  BY <1>1, <1>3
<1>6. Adds(w)
  BY <1>2, <1>4, <1>5 DEF Adds
<1>7. Moving(w) /\ pc'[w] = pc[w] + 1 /\ \A v \in Waves \ {w} : pc'[v] = pc[v]
  BY <1>1, <1>2, <1>3 DEF Moving, Goto, TypeInv
<1>8. At(w)' \in Following(program, route.short, At(w))
  BY <1>1, <1>2, <1>3, PlainFollows
<1>9. SumsTyped'
  BY <1>1, <1>3, <1>5 DEF SumsTyped
<1> QED
  BY <1>3, <1>5, <1>6, <1>7, <1>8, <1>9 DEF Steps, Stays

LEMMA ProceedsSteps ==
    ASSUME Structured, WalkInv, SumsTyped, NEW w \in Waves, Proceeds(w)
    PROVE  /\ Steps(w) /\ \A v \in Waves \ {w} : Stays(v)
           /\ SumsTyped'
<1>1. TypeInv /\ Running(w) /\ ~ AtBarrier(w)
  BY DEF WalkInv, Proceeds
<1>2. CASE Control(w)
  BY <1>1, <1>2, ControlSteps
<1>3. CASE MultiplyFragments(w)
  BY <1>1, <1>3, MultiplySteps
<1>4. ASSUME Instruction(w).op \notin {"branch", "count", "begin_tile", "wmma", "accumulate"},
             Goto(w, pc[w] + 1), UNCHANGED <<program, route, tile, stage, sums>>
      PROVE  /\ Steps(w) /\ \A v \in Waves \ {w} : Stays(v)
             /\ SumsTyped'
  <2>1. pc'[w] = pc[w] + 1 /\ \A v \in Waves \ {w} : pc'[v] = pc[v]
    BY <1>1, <1>4 DEF Goto, TypeInv
  <2> QED
    BY <1>1, <1>4, <2>1, QuietSteps DEF Stays, SumsTyped
<1>5. CASE Arithmetic(w)
  BY <1>4, <1>5 DEF Arithmetic
<1>6. CASE GlobalLoad(w)
  BY <1>4, <1>6 DEF GlobalLoad
<1>7. CASE WaitCount(w)
  BY <1>4, <1>7 DEF WaitCount
<1>8. CASE StoreChunk(w)
  BY <1>4, <1>8 DEF StoreChunk
<1>9. CASE LoadFragments(w)
  BY <1>4, <1>9 DEF LoadFragments
<1>10. CASE ReadRows(w)
  <2>1. Instruction(w).op = "lds_read" /\ UNCHANGED <<program, route, tile, stage, sums>>
    BY <1>10, Zenon DEF ReadRows
  <2>2. Goto(w, pc[w] + 1)
    BY <1>10, ReadsMove
  <2> QED
    BY <1>4, <2>1, <2>2
<1> QED
  BY <1>2, <1>3, <1>5, <1>6, <1>7, <1>8, <1>9, <1>10 DEF Perform, Proceeds

LEMMA AllStep ==
    ASSUME Structured, WalkInv, SumsTyped, [AnyOrder]_vars
    PROVE  /\ UNCHANGED <<program, route>> /\ SumsTyped'
           /\ \A w \in Waves : Stays(w) \/ Steps(w)
<1>1. CASE OpenBarrier
  <2>1. /\ \A w \in Waves : AtBarrier(w) /\ pc'[w] = pc[w] + 1
        /\ UNCHANGED <<program, route, tile, stage, sums>>
    BY <1>1 DEF OpenBarrier
  <2>2. \A w \in Waves : Steps(w)
    BY <2>1, QuietSteps DEF AtBarrier
  <2> QED
    BY <2>1, <2>2 DEF SumsTyped
<1>2. CASE UNCHANGED vars
  BY <1>2 DEF vars, SumsTyped, Stays
<1>3. ASSUME NEW w \in Waves, Proceeds(w)
      PROVE  /\ UNCHANGED <<program, route>> /\ SumsTyped'
             /\ \A v \in Waves : Stays(v) \/ Steps(v)
  BY <1>3, ProceedsSteps, ExecuteFollows
<1> QED
  BY <1>1, <1>2, <1>3 DEF AnyOrder, Ended

LEMMA BegunSteps ==
    ASSUME Structured, Tallied, WalkInv, NEW w \in Waves, Begun(w), Steps(w),
           UNCHANGED <<program, route>>
    PROVE  Begun(w)'
<1> DEFINE i == Instruction(w)
           z == Tallying
           tiles == Len(route.active[w])
<1>1. /\ TypeInv /\ Running(w) /\ tile[w] \in Nat /\ pc[w] \in 1 .. Len(Code)
      /\ Len(Code) \in Nat /\ program.stages \in Nat \ {0} /\ stage[w] \in Nat
      /\ i.op = "branch" => i.skip \in Int
  <2>1. TypeInv /\ Running(w)
    BY DEF WalkInv, Steps
  <2> QED
    BY <2>1, PlaceTyped DEF IsStructured, Instruction, Code
<1>2. Tallying' = z
  BY DEF Tallying
<1>3. i = program.code[pc[w]] /\ pc[w] \in z.places \ {Len(program.code) + 1}
  BY <1>1 DEF Begun, Instruction, Code
<1>4. /\ Onward(i, pc[w], route.short) \subseteq z.places
      /\ pc[w] \in z.fresh /\ i.op # "begin_tile" => Onward(i, pc[w], route.short) \subseteq z.fresh
      /\ i.op = "begin_tile" => pc[w] \in z.more /\ pc[w] + 1 \notin z.more
      /\ pc[w] \notin z.more =>
           /\ pc[w] + 1 \in z.more => i.op = "branch" /\ i.when \in {"no_tiles", "no_full", "always"}
           /\ i.op = "branch" /\ pc[w] + 1 + i.skip \in z.more => i.when \in {"more_tiles", "more_full"}
  <2>1. IsBeginning(program, route.short, z)
    BY <1>1, TallyingIs
  <2> HIDE DEF z, i
  <2> QED
    BY <1>3, <2>1 DEF IsBeginning
<1>5. pc'[w] \in Onward(i, pc[w], route.short)
  <2>1. At(w)[2] \in 0 .. 2 /\ At(w)[1] = pc[w]
    BY <1>1 DEF At, Left
  <2>2. At(w)'[1] \in Onward(program.code[At(w)[1]], At(w)[1], route.short)
    BY <2>1, FollowingOnward DEF Steps
  <2>3. At(w)'[1] = pc'[w]
    BY DEF At
  <2> QED
    BY <1>3, <2>1, <2>2, <2>3
<1>6. tiles \in Nat /\ route.full \in Nat /\ route.full <= tiles
  BY <1>1, TallyingIs DEF RowsWithin
<1>7. i.op # "branch" => pc'[w] = pc[w] + 1
  BY <1>5 DEF Onward
<1>8. tile'[w] = IF i.op = "begin_tile" THEN tile[w] + 1 ELSE tile[w]
  BY DEF Steps, Moving
<1>9. ASSUME pc'[w] \in z.more PROVE tile'[w] < tiles
  <2>1. i.op # "begin_tile"
    BY <1>4, <1>7, <1>9
  <2>2. CASE pc[w] \in z.more
    BY <1>8, <2>1, <2>2 DEF Begun
  <2>3. CASE pc[w] \notin z.more
    <3>1. i.op = "branch"
      BY <1>4, <1>7, <1>9, <2>3
    <3>2. PICK n \in {0, i.skip} : pc'[w] = pc[w] + 1 + n /\ Jumping(w, n)
      BY <3>1 DEF Steps, Moving
    <3>3. /\ i.when = "more_tiles" => n = IF tile[w] < tiles THEN i.skip ELSE 0
          /\ i.when = "no_tiles" => n = IF tile[w] >= tiles THEN i.skip ELSE 0
          /\ i.when = "more_full" => n = IF tile[w] < route.full THEN i.skip ELSE 0
          /\ i.when = "no_full" => n = IF tile[w] >= route.full THEN i.skip ELSE 0
          /\ i.when = "always" => n = i.skip
      BY <3>2 DEF Jumping
    <3>4. n = 0 => pc[w] + 1 \in z.more
      BY <1>1, <1>9, <3>2
    <3>5. n = i.skip => pc[w] + 1 + i.skip \in z.more
      BY <1>9, <3>2
    <3> HIDE DEF i, z, tiles
    <3> QED
      BY <1>1, <1>4, <1>6, <1>8, <2>1, <2>3, <3>1, <3>2, <3>3, <3>4, <3>5
  <2> QED
    BY <2>2, <2>3
<1>10. tile'[w] <= tiles
  <2>1. i.op = "begin_tile" => tile[w] < tiles
    BY <1>4 DEF Begun
  <2>2. tile[w] <= tiles
    BY DEF Begun
  <2> HIDE DEF i, tiles
  <2> QED
    BY <1>1, <1>6, <1>8, <2>1, <2>2
<1>11. pc'[w] \in z.fresh \/ tile'[w] >= 1
  <2>1. pc[w] \in z.fresh \/ tile[w] >= 1
    BY DEF Begun
  <2> HIDE DEF i, z
  <2> QED
    BY <1>1, <1>4, <1>5, <1>8, <2>1
<1>12. pc'[w] \in z.places
  BY <1>4, <1>5
<1> HIDE DEF z
<1> QED
  BY <1>2, <1>9, <1>10, <1>11, <1>12 DEF Begun

LEMMA ActiveRows ==
    ASSUME Tallied, TypeInv, NEW w \in Waves, Begun(w), tile[w] >= 1
    PROVE  ActiveOf(w) \in 0 .. Tallying.rows
<1>1. tile[w] \in 1 .. Len(route.active[w])
  BY TallyingIs DEF TypeInv, Begun, RowsWithin
<1> QED
  BY <1>1, TallyingIs DEF RowsWithin, ActiveOf

LEMMA ActiveFollows ==
    ASSUME Structured, WalkInv, NEW w \in Waves, Steps(w), ActiveOf(w) # 0
    PROVE  At(w)' \in FollowingActive(program, route.short, At(w))
<1> DEFINE i == Instruction(w)
<1>1. /\ i = program.code[At(w)[1]] /\ pc[w] \in Int
      /\ At(w)' \in Following(program, route.short, At(w))
  BY PlaceTyped DEF WalkInv, Steps, At, Instruction, Code
<1>2. ASSUME i.op = "branch"
      PROVE  \E n \in {0, i.skip} : /\ At(w)' = <<pc[w] + 1 + n, At(w)'[2]>>
                                    /\ Jumping(w, n) /\ At(w)'[2] = At(w)[2]
  <2>1. PICK n \in {0, i.skip} : pc'[w] = pc[w] + 1 + n /\ Jumping(w, n)
    BY <1>2 DEF Steps, Moving
  <2>2. At(w)'[2] = At(w)[2]
    BY <1>1, <1>2 DEF Following
  <2> QED
    BY <2>1, <2>2 DEF At
<1>3. CASE i.op = "branch" /\ i.when = "active"
  BY <1>1, <1>2, <1>3 DEF FollowingActive, Jumping, At
<1>4. CASE i.op = "branch" /\ i.when = "inactive"
  BY <1>1, <1>2, <1>4 DEF FollowingActive, Jumping, At
<1>5. CASE ~ (i.op = "branch" /\ i.when \in {"active", "inactive"})
  BY <1>1, <1>5 DEF FollowingActive
<1> QED
  BY <1>3, <1>4, <1>5

(* The tally of fragment t behind an instruction that does not begin a tile. *)
Grown(tally, t, i, rate) ==
    IF i.op = "count" THEN tally - rate * i.n
    ELSE IF t \in Products(i) THEN tally + 1 ELSE tally

(* What a tallying says of the point a wave goes to.                       *)
LEMMA TallySteps ==
    ASSUME NEW p, NEW short, NEW z, IsTallying(p, short, z),
           NEW x \in z.live, x[1] # Len(p.code) + 1, NEW i, i = p.code[x[1]], i.op # "begin_tile",
           NEW y \in FollowingActive(p, short, x), i.op # "branch" => y[1] = x[1] + 1
    PROVE  /\ y \in z.live
           /\ \A t \in Fragments(p, z) :
                /\ Tally(z, x, t) \in Int /\ Tally(z, y, t) \in Int
                /\ Tally(z, y, t) = Grown(Tally(z, x, t), t, i, z.rate)
           /\ i.op = "count" => i.n = z.unit /\ x[2] # 0
<1>1. /\ y \in z.live /\ x[1] \in z.places /\ y[1] \in z.places /\ z.off[x] \in Int /\ z.off[y] \in Int
      /\ i.op = "branch" => \A t \in Fragments(p, z) : Tally(z, y, t) = Tally(z, x, t)
      /\ i.op = "count" => z.off[y] = z.off[x] + z.rate * i.n
      /\ i.op \notin {"branch", "count"} => z.off[y] = z.off[x]
      /\ i.op = "count" => i.n = z.unit /\ x[2] # 0
  BY DEF IsTallying
<1>2. /\ z.done[x[1]] \in [Fragments(p, z) -> Int] /\ z.done[y[1]] \in [Fragments(p, z) -> Int]
      /\ z.done[x[1] + 1] = WithProducts(z.done[x[1]], i)
      /\ z.rate \in Nat /\ z.unit \in Nat
  BY <1>1 DEF IsTallying
<1>3. ASSUME NEW t \in Fragments(p, z)
      PROVE  Tally(z, x, t) \in Int /\ Tally(z, y, t) \in Int
  <2>1. z.done[x[1]][t] \in Int /\ z.done[y[1]][t] \in Int
    BY <1>2
  <2> QED
    BY <1>1, <2>1 DEF Tally
<1>4. ASSUME NEW t \in Fragments(p, z)
      PROVE  Tally(z, y, t) = Grown(Tally(z, x, t), t, i, z.rate)
  <2>1. CASE i.op = "branch"
    <3>1. Products(i) = {}
      BY <2>1 DEF Products
    <3> QED
      BY <1>1, <2>1, <3>1 DEF Grown
  <2>2. CASE i.op = "count"
    <3>1. z.done[y[1]] = z.done[x[1]]
      BY <1>2, <2>2 DEF WithProducts, Products
    <3>2. z.rate * i.n \in Int /\ z.done[x[1]][t] \in Int
      BY <1>1, <1>2, <2>2
    <3> QED
      BY <1>1, <2>2, <3>1, <3>2 DEF Tally, Grown
  <2>3. CASE i.op # "branch" /\ i.op # "count"
    <3>1. z.done[y[1]][t] = IF t \in Products(i) THEN z.done[x[1]][t] + 1 ELSE z.done[x[1]][t]
      BY <1>2, <2>3 DEF WithProducts
    <3>2. z.done[x[1]][t] \in Int /\ z.off[y] = z.off[x]
      BY <1>1, <1>2, <2>3
    <3> QED
      BY <1>1, <2>3, <3>1, <3>2 DEF Tally, Grown
  <2> QED
    BY <2>1, <2>2, <2>3, Zenon
<1> QED
  BY <1>1, <1>3, <1>4

LEMMA SummedSteps ==
    ASSUME Structured, Tallied, WalkInv, NEW w \in Waves, Begun(w), Working(w) => Summed(w),
           Steps(w), UNCHANGED <<program, route>>, Working(w)'
    PROVE  Summed(w)'
<1> DEFINE i == Instruction(w)
           z == Tallying
           x == At(w)
           y == At(w)'
           fragments == Fragments(program, z)
<1>1. /\ TypeInv /\ Running(w) /\ tile[w] \in Nat /\ pc[w] \in 1 .. Len(Code) /\ stage[w] \in Nat
      /\ Len(Code) \in Nat /\ program.stages \in Nat \ {0}
  <2>1. TypeInv /\ Running(w)
    BY DEF WalkInv, Steps
  <2> QED
    BY <2>1, PlaceTyped DEF IsStructured
<1>2. Tallying' = z /\ Fragments(program, Tallying)' = fragments
  BY DEF Tallying, Fragments
<1>3. /\ i = program.code[pc[w]] /\ pc[w] \in z.places /\ pc[w] # Len(program.code) + 1
      /\ x[1] = pc[w] /\ y[1] = pc'[w] /\ x[2] = Left(program, stage[w])
  BY <1>1 DEF Begun, Instruction, Code, At
<1>4. IsTallying(program, route.short, z) /\ z.rate \in Nat /\ z.unit \in Nat
  BY <1>1, TallyingIs DEF IsTallying
<1>5. \A t \in fragments : t \in program.tiles
  BY DEF Fragments
<1>6. CASE i.op = "begin_tile"
  <2>1. y = <<pc[w] + 1, Left(program, 0)>> /\ stage'[w] = 0
    BY <1>3, <1>6 DEF Steps, Moving, Following
  <2>2. y \in z.live /\ \A t \in fragments : Tally(z, y, t) = 0
    <3> HIDE DEF i, y, z
    <3> QED
      BY <1>3, <1>4, <1>6, <2>1 DEF IsTallying, fragments
  <2>3. \A t \in fragments : sums'[w][t] = 0
    BY <1>5, <1>6 DEF Steps, Adds
  <2>4. z.unit * 0 = 0 /\ z.rate * 0 = 0
    BY <1>4
  <2> HIDE DEF i, y, z, fragments
  <2>5. \A t \in fragments : sums'[w][t] = z.rate * 0 + Tally(z, y, t)
    BY <2>2, <2>3, <2>4
  <2>6. \E k \in Nat : 0 = z.unit * k
    BY <2>4
  <2> QED
    BY <1>1, <1>2, <2>1, <2>2, <2>5, <2>6 DEF Summed, y
<1>7. CASE i.op # "begin_tile"
  <2>1. tile'[w] = tile[w] /\ ActiveOf(w)' = ActiveOf(w)
    BY <1>7 DEF Steps, Moving, ActiveOf
  <2>2. Working(w) /\ Summed(w) /\ ActiveOf(w) # 0
    BY <2>1 DEF Working
  <2>3. x \in z.live /\ y \in FollowingActive(program, route.short, x)
    BY <2>2, ActiveFollows DEF Summed
  <2>4. i.op # "branch" => y[1] = x[1] + 1
    BY <1>3, <1>7 DEF Steps, Following, At
  <2>5. /\ y \in z.live
        /\ \A t \in fragments : /\ Tally(z, x, t) \in Int /\ Tally(z, y, t) \in Int
                                /\ Tally(z, y, t) = Grown(Tally(z, x, t), t, i, z.rate)
        /\ i.op = "count" => i.n = z.unit /\ x[2] # 0
    <3> HIDE DEF i, x, y, z
    <3> QED
      BY <1>3, <1>4, <1>7, <2>3, <2>4, TallySteps DEF fragments
  <2>6. \A t \in fragments : t[1] < ActiveOf(w) => sums[w][t] = z.rate * stage[w] + Tally(z, x, t)
    BY <2>2 DEF Summed
  <2>7. PICK k \in Nat : stage[w] = z.unit * k
    BY <2>2 DEF Summed
  <2>8. stage[w] <= program.stages
    BY <2>2 DEF Summed
  <2>9. CASE i.op = "count"
    <3>1. stage'[w] = stage[w] + z.unit
      BY <2>5, <2>9 DEF Steps, Moving
    <3>2. PICK m \in Nat : z.unit * m = program.stages
      BY <1>1, <1>4 DEF IsTallying
    <3>3. stage[w] < program.stages
      BY <1>1, <1>3, <2>5, <2>8, <2>9 DEF Left
    <3>4. stage'[w] <= program.stages /\ stage'[w] = z.unit * (k + 1)
      <4>1. z.unit * k < z.unit * m
        BY <2>7, <3>2, <3>3
      <4>2. z.unit * k + z.unit = z.unit * (k + 1) /\ z.unit * k + z.unit <= z.unit * m
        <5> HIDE DEF z
        <5> QED
          BY <1>4, <4>1, NextUnit
      <4> QED
        BY <2>7, <3>1, <3>2, <4>2
    <3>5. \A t \in fragments : t[1] < ActiveOf(w) => sums'[w][t] = sums[w][t]
      BY <1>5, <2>9 DEF Steps, Adds, Products
    <3>6. /\ z.rate * stage'[w] = z.rate * stage[w] + z.rate * z.unit
          /\ z.rate * stage[w] \in Int /\ z.rate * z.unit \in Int
      BY <1>1, <1>4, <3>1, TimesSum
    <3>7. ASSUME NEW t \in fragments, t[1] < ActiveOf(w)
          PROVE  sums'[w][t] = z.rate * stage'[w] + Tally(z, y, t)
      <4>1. Tally(z, y, t) = Tally(z, x, t) - z.rate * z.unit
        BY <2>5, <2>9 DEF Grown
      <4>2. sums'[w][t] = z.rate * stage[w] + Tally(z, x, t) /\ Tally(z, x, t) \in Int
        BY <2>5, <2>6, <3>5, <3>7
      <4> HIDE DEF x, y, z, fragments
      <4> QED
        BY <3>6, <4>1, <4>2
    <3>8. \E j \in Nat : stage'[w] = z.unit * j
      BY <3>4
    <3> HIDE DEF x, z, fragments, i
    <3> QED
      BY <1>2, <2>1, <2>5, <3>4, <3>7, <3>8 DEF Summed
  <2>10. CASE i.op # "count"
    <3>1. stage'[w] = stage[w]
      BY <1>7, <2>10 DEF Steps, Moving
    <3>2. ASSUME NEW t \in fragments, t[1] < ActiveOf(w)
          PROVE  sums'[w][t] = z.rate * stage'[w] + Tally(z, y, t)
      <4>1. Tally(z, y, t) = IF t \in Products(i) THEN Tally(z, x, t) + 1 ELSE Tally(z, x, t)
        BY <2>5, <2>10 DEF Grown
      <4>2. sums'[w][t] = IF t \in Products(i) THEN sums[w][t] + 1 ELSE sums[w][t]
        BY <1>5, <1>7, <3>2 DEF Steps, Adds
      <4>3. sums[w][t] = z.rate * stage[w] + Tally(z, x, t) /\ Tally(z, x, t) \in Int
        BY <2>5, <2>6, <3>2
      <4>4. z.rate * stage[w] \in Int
        BY <1>1, <1>4
      <4> HIDE DEF x, y, z, fragments, i
      <4> QED
        BY <3>1, <4>1, <4>2, <4>3, <4>4
    <3> HIDE DEF x, z, fragments, i
    <3> QED
      BY <1>2, <2>1, <2>5, <2>7, <2>8, <3>1, <3>2 DEF Summed
  <2> QED
    BY <2>9, <2>10
<1> QED
  BY <1>6, <1>7

LEMMA SumNext ==
    ASSUME Structured, Tallied, WalkInv, SumInv, [AnyOrder]_vars
    PROVE  SumInv'
<1>1. /\ UNCHANGED <<program, route>> /\ SumsTyped'
      /\ \A w \in Waves : Stays(w) \/ Steps(w)
  BY AllStep DEF SumInv
<1>2. ASSUME NEW w \in Waves PROVE Begun(w)' /\ (Working(w)' => Summed(w)')
  <2>1. Begun(w) /\ (Working(w) => Summed(w))
    BY DEF SumInv
  <2>2. CASE Steps(w)
    BY <1>1, <2>1, <2>2, BegunSteps, SummedSteps
  <2>3. CASE Stays(w)
    <3>1. Tallying' = Tallying
      BY <1>1 DEF Tallying
    <3>2. /\ pc'[w] = pc[w] /\ stage'[w] = stage[w] /\ tile'[w] = tile[w] /\ sums'[w] = sums[w]
          /\ At(w)' = At(w) /\ ActiveOf(w)' = ActiveOf(w)
      BY <1>1, <2>3 DEF Stays, At, ActiveOf
    <3>3. Begun(w)'
      BY <1>1, <2>1, <3>1, <3>2 DEF Begun
    <3>4. Working(w)' => Summed(w)'
      BY <1>1, <2>1, <3>1, <3>2 DEF Working, Summed, Fragments
    <3> QED
      BY <3>3, <3>4
  <2> QED
    BY <1>1, <2>2, <2>3
<1> QED
  BY <1>1, <1>2 DEF SumInv

LEMMA SumInit == ASSUME Structured, Tallied, Init PROVE SumInv
<1>1. TypeInv
  BY WalkInit DEF WalkInv
<1>2. \A w \in Waves : pc[w] = 1 /\ tile[w] = 0
  BY DEF Init
<1>3. SumsTyped
  BY DEF Init, SumsTyped
<1>4. \A w \in Waves : Len(route.active[w]) \in Nat \ {0}
  BY <1>1, TallyingIs DEF RowsWithin
<1>5. 1 \in Tallying.places /\ 1 \in Tallying.fresh
  BY <1>1, TallyingIs DEF IsBeginning
<1>6. ASSUME NEW w \in Waves PROVE Begun(w) /\ ~ Working(w)
  <2>1. pc[w] = 1 /\ tile[w] = 0 /\ Len(route.active[w]) \in Nat \ {0}
    BY <1>2, <1>4
  <2> QED
    BY <1>5, <2>1 DEF Begun, Working
<1> QED
  BY <1>3, <1>6 DEF SumInv

LEMMA SumsComplete ==
    ASSUME Structured, Tallied, WalkInv, SumInv
    PROVE  ContractionComplete
<1> SUFFICES ASSUME NEW w \in Waves, Running(w), Instruction(w).op = "store",
                    NEW t \in DOMAIN sums[w], t[1] < ActiveOf(w)
             PROVE  sums[w][t] = Len(program.order)
  BY DEF ContractionComplete
<1> DEFINE z == Tallying
           x == At(w)
<1>1. /\ TypeInv /\ pc[w] \in 1 .. Len(Code) /\ stage[w] \in Nat /\ tile[w] \in Nat
      /\ Len(Code) \in Nat /\ program.stages \in Nat \ {0}
  <2>1. TypeInv
    BY DEF WalkInv
  <2> QED
    BY <2>1, PlaceTyped DEF IsStructured
<1>2. Begun(w) /\ (Working(w) => Summed(w)) /\ t \in program.tiles
  BY DEF SumInv, SumsTyped
<1>3. tile[w] >= 1
  <2>1. pc[w] \in z.places \ {Len(program.code) + 1} /\ program.code[pc[w]].op = "store"
    BY <1>1, <1>2 DEF Begun, Instruction, Code
  <2>2. IsBeginning(program, route.short, z)
    BY <1>1, TallyingIs
  <2> HIDE DEF z
  <2>3. pc[w] \notin z.fresh
    BY <2>1, <2>2 DEF IsBeginning
  <2> QED
    BY <1>2, <2>3 DEF Begun, z
<1>4. ActiveOf(w) \in 0 .. z.rows /\ z.rows \in Nat /\ t[1] \in Nat
  BY <1>1, <1>2, <1>3, ActiveRows, TallyingIs DEF RowsWithin
<1>5. Summed(w) /\ t \in Fragments(program, z)
  <2>1. ActiveOf(w) # 0 /\ t[1] < z.rows
    <3> HIDE DEF z
    <3> QED
      BY <1>4
  <2> QED
    BY <1>2, <1>3, <2>1 DEF Working, Fragments
<1>6. sums[w][t] = z.rate * stage[w] + Tally(z, x, t) /\ stage[w] <= program.stages /\ x \in z.live
  BY <1>5 DEF Summed
<1>7. x[1] # Len(program.code) + 1 /\ program.code[x[1]].op = "store" /\ x[2] = Left(program, stage[w])
  BY <1>1 DEF At, Instruction, Code
<1>8. /\ x[2] # 2 /\ Tally(z, x, t) = x[2] * z.rate
      /\ z.rate \in Nat /\ z.rate * program.stages = Len(program.order)
  <2>1. IsTallying(program, route.short, z)
    BY <1>1, TallyingIs
  <2> HIDE DEF z, x
  <2> QED
    BY <1>5, <1>6, <1>7, <2>1 DEF IsTallying
<1> HIDE DEF z, x
<1>9. CASE stage[w] = program.stages
  <2>1. x[2] = 0
    BY <1>1, <1>7, <1>9 DEF Left
  <2>2. Tally(z, x, t) = 0 /\ z.rate * program.stages \in Nat
    BY <1>1, <1>8, <2>1
  <2> QED
    BY <1>6, <1>8, <1>9, <2>2
<1>10. CASE stage[w] # program.stages
  <2>1. stage[w] + 1 = program.stages /\ x[2] = 1
    BY <1>1, <1>6, <1>7, <1>8, <1>10 DEF Left
  <2>2. Tally(z, x, t) = z.rate
    BY <1>8, <2>1
  <2>3. z.rate * (stage[w] + 1) = z.rate * stage[w] + z.rate * 1 /\ z.rate * 1 = z.rate
    BY <1>1, <1>8, TimesSum
  <2> QED
    BY <1>6, <1>8, <2>1, <2>2, <2>3
<1> QED
  BY <1>9, <1>10

(* For every number of waves and every route: a wave stores an output tile  *)
(* only when each fragment with a row of the route in it has taken as many  *)
(* products as the contraction has, no stage left out and none taken twice. *)
(* The emitters peel the first and last stages off their loops, repeat the  *)
(* products in both, and jump over them for waves without rows.            *)
THEOREM NoProductMissing == Structured /\ Tallied => (Spec => []ContractionComplete)
<1> SUFFICES ASSUME Structured, Tallied PROVE Spec => []ContractionComplete
  OBVIOUS
<1>1. Init => WalkInv /\ SumInv
  BY WalkInit, SumInit
<1>2. WalkInv /\ SumInv /\ [Next]_vars => (WalkInv /\ SumInv)'
  BY WalkNext, SumNext, NextOfAnyOrder
<1>3. WalkInv /\ SumInv => ContractionComplete
  BY SumsComplete
<1> QED
  BY <1>1, <1>2, <1>3, PTL DEF Spec
=============================================================================
