--------------------------- MODULE MCAssemblyBodies ---------------------------
(***************************************************************************)
(* Every catalogued assembly body on the machine.                          *)
(***************************************************************************)
EXTENDS DenseCatalog, RoutedCatalog, ForwardCatalog, WaveMachine

MCPrograms ==
    DensePrograms(Range(DenseDeployed \o DenseCandidates))
    \cup RoutedPrograms(Range(RoutedDeployed \o RoutedTested))
    \cup ForwardPrograms
MCDeployed ==
    LET specs == Range(DenseDeployed) \cup Range(RoutedDeployed) \cup ForwardDeployed
    IN {p \in MCPrograms : p.spec \in specs}

(* The proofs about any number of waves, stages and tiles ask this of the   *)
(* text of a program.                                                       *)
ASSUME DeployedStructured == \A p \in MCDeployed : IsStructured(p)

(* For each place of a text the first of the positions that is not before   *)
(* it; the last position is behind the text.                               *)
FirstFrom(positions) ==
    LET upto[n \in 0 .. Cardinality(positions)] ==
          IF n = 0 THEN <<>>
          ELSE LET before == upto[n - 1]
                   next == Min({d \in positions : d > Len(before)})
               IN before \o [j \in 1 .. next - Len(before) |-> next]
    IN upto[Cardinality(positions)]

(* Zones of a program: the points a wave may come to, joined wherever one   *)
(* follows another but across a barrier.  Runs of straight-line code are    *)
(* walked at once: a run ends at a branch or a count, and Leaders are the   *)
(* points runs begin at.                                                   *)
Controls(p) == {c \in 1 .. Len(p.code) : p.code[c].op \in {"branch", "count", "begin_tile"}}
EndOf(p) == FirstFrom(Controls(p) \cup {Len(p.code) + 1})
Leaders(p, short, end) ==
    LET After(x) == IF end[x[1]] = Len(p.code) + 1 THEN {}
                    ELSE Following(p, short, <<end[x[1]], x[2]>>)
        steps == 3 * Cardinality(Controls(p))
        upto[n \in 0 .. steps] ==
          IF n = 0 THEN {<<1, Left(p, 0)>>}
          ELSE LET before == upto[n - 1] IN before \cup UNION {After(x) : x \in before}
    IN upto[steps]
Walked(end, leaders) == UNION {(x[1] .. end[x[1]]) \X {x[2]} : x \in leaders}

Barriers(p) == {c \in 1 .. Len(p.code) : p.code[c].op = "barrier"}
ZonesOf(p, short, points) ==
    LET code == p.code
        cuts == Barriers(p) \cup {c \in Controls(p) : code[c].op = "branch" /\ code[c].when = "always"}
        block == FirstFrom(cuts \cup {Len(code) + 1})
        Node(x) == <<block[x[1]], x[2]>>
        nodes == {Node(x) : x \in points}
        inner == {x \in points : x[1] \notin Barriers(p) \cup {Len(code) + 1}}
        links == UNION {{<<Node(x), Node(y)>> : y \in Following(p, short, x)} : x \in inner}
        Grown(S) == S \cup {l[1] : l \in {l \in links : l[2] \in S}}
                      \cup {l[2] : l \in {l \in links : l[1] \in S}}
        upto[n \in 0 .. Cardinality(nodes)] ==
          IF n = 0 THEN [v \in nodes |-> {v}]
          ELSE LET before == upto[n - 1] IN [v \in nodes |-> Grown(before[v])]
        joined == upto[Cardinality(nodes)]
        zone == [x \in points |-> joined[Node(x)]]
        inside == [z \in Range(joined) |-> {x[1] : x \in {x \in points : zone[x] = z}} \ {Len(code) + 1}]
        drains == {0} \cup {c \in 1 .. Len(code) : code[c].op = "wait" /\ code[c].lgkm = 0}
    IN [points |-> points, zone |-> zone,
        stored |-> [z \in DOMAIN inside |-> UNION {StoredPlaces(code[c]) : c \in inside[z]}],
        read |-> [z \in DOMAIN inside |-> UNION {ReadPlaces(p, code[c]) : c \in inside[z]}],
        idle |-> UNION {(Max({c \in drains : c < b}) + 1 .. b) \X (0 .. 2) : b \in Barriers(p)}]

(* The proof that no two waves race asks for such zones: every deployed     *)
(* body has them but those that alternate between two LDS buffers.         *)
Alternates(p) == \E c \in 1 .. Len(p.code) : p.code[c].op = "toggle"
ASSUME DeployedZoned ==
    \A p \in MCDeployed : Alternates(p) \/
        \A end \in {EndOf(p)}, short \in {rt.short : rt \in p.routes} :
            \A leaders \in {Leaders(p, short, end)} :
                \A z \in {ZonesOf(p, short, Walked(end, leaders))} : IsZoning(p, short, z)

(* A tallying.  The products done up to each place of the text; what each   *)
(* run of straight-line code has to take off, from the points tiles are    *)
(* begun at along the branches and counts that runs end at.                *)
DoneUpTo(p, places, rows) ==
    LET last == Len(p.code) + 1
        taking == {c \in places \ {last} : Products(p.code[c]) # {}} \cup {last}
        upto[n \in 0 .. Cardinality(taking)] ==
          IF n = 0 THEN [done |-> <<>>, sum |-> [t \in {t \in p.tiles : t[1] < rows} |-> 0]]
          ELSE LET before == upto[n - 1]
                   next == Min({d \in taking : d > Len(before.done)})
               IN [done |-> before.done \o [j \in 1 .. next - Len(before.done) |-> before.sum],
                   sum |-> IF next = last THEN before.sum ELSE WithProducts(before.sum, p.code[next])]
    IN upto[Cardinality(taking)].done
(* The places a wave may come to before it executes one of the last ones.  *)
Reach(p, short, end, last) ==
    LET Entered(c) == IF end[c] \in last \cup {Len(p.code) + 1} THEN {}
                      ELSE Onward(p.code[end[c]], end[c], short)
        steps == Cardinality(Controls(p))
        upto[n \in 0 .. steps] ==
          IF n = 0 THEN {1}
          ELSE LET before == upto[n - 1] IN before \cup UNION {Entered(c) : c \in before}
    IN UNION {c .. end[c] : c \in upto[steps]}
Begins(p) == {c \in 1 .. Len(p.code) : p.code[c].op = "begin_tile"}
Offsets(p, short, end, places, done, rate) ==
    LET one == CHOOSE t \in DOMAIN done[1] : TRUE
        Sum(c) == done[c][one]
        Run(y, off) == [from |-> y[1], at |-> <<end[y[1]], y[2]>>, off |-> off]
        After(l) ==
          LET c == l.at[1] IN
          IF c \in Begins(p) \cup {Len(p.code) + 1} THEN {}
          ELSE {Run(y, IF p.code[c].op = "count" THEN l.off + rate * p.code[c].n
                       ELSE l.off + Sum(y[1]) - Sum(c)) :
                  y \in FollowingActive(p, short, l.at)}
        steps == 3 * Cardinality(Controls(p))
        upto[n \in 0 .. steps] ==
          IF n = 0 THEN {Run(<<c + 1, Left(p, 0)>>, Sum(c + 1)) : c \in Begins(p) \cap places}
          ELSE LET before == upto[n - 1] IN before \cup UNION {After(l) : l \in before}
    IN upto[steps]
TallyOf(p, short, end, places, rows, done) ==
    LET rate == Len(p.order) \div p.stages
        units == {p.code[c].n : c \in {c \in Controls(p) : p.code[c].op = "count"}}
        offsets == Offsets(p, short, end, places, done, rate)
        off == [x \in {l.at : l \in offsets} |-> (CHOOSE l \in offsets : l.at = x).off]
        live == UNION {(l.from .. l.at[1]) \X {l.at[2]} : l \in offsets}
        asks == {c \in Controls(p) : p.code[c].op = "branch" /\
                   p.code[c].when \in {"more_tiles", "more_full", "no_tiles", "always"}}
        next == FirstFrom(Begins(p) \cup asks \cup {Len(p.code) + 1})
    IN [rows |-> rows, rate |-> rate,
        unit |-> IF units = {} THEN p.stages ELSE CHOOSE u \in units : TRUE,
        done |-> done, live |-> live, off |-> [x \in live |-> off[<<end[x[1]], x[2]>>]],
        more |-> {c \in 1 .. Len(p.code) + 1 : next[c] \in Begins(p)},
        places |-> places, fresh |-> Reach(p, short, end, Begins(p))]

(* The proof that no product is missing asks for such a tallying.          *)
ASSUME DeployedTallied ==
    \A p \in MCDeployed : \A end \in {EndOf(p)}, short \in {rt.short : rt \in p.routes} :
        LET routes == {rt \in p.routes : rt.short = short}
            rows == Max(UNION {UNION {Range(rt.active[w]) : w \in Waves} : rt \in routes})
        IN \A places \in {Reach(p, short, end, {})} :
             \A z \in {TallyOf(p, short, end, places, rows, DoneUpTo(p, places, rows))} :
                /\ IsBeginning(p, short, z) /\ IsTallying(p, short, z)
                /\ \A rt \in routes : RowsWithin(p, rt, z)

(* The Q6_K candidate with a swizzled, double-buffered LDS tile and one     *)
(* packed row a lane: the specification accepts it, its read addresses     *)
(* overlap the decoded scale of the row.                                   *)
MCPipelined == DensePrograms({PipelinedQ6})

(* States are told apart by the specification their program is made from,  *)
(* in place of the program.                                                 *)
Identified ==
    <<program.spec, pc, route, tile, stage, swapped, vgpr, vmcnt, lgkmcnt, lds, touched, sums>>
=============================================================================
