--------------------------- MODULE SplitContraction ---------------------------
(***************************************************************************)
(* The dense backward whose contraction is split into slices: one launch   *)
(* stores one partial tile per slice into a buffer nobody initializes, a   *)
(* second launch in the same stream adds the partials of a cell up.  The   *)
(* configuration of a control decides where the slices lie, and an         *)
(* unguarded body relies on that decision alone.                           *)
(*                                                                         *)
(* A sum is the set of the terms added to it; a term names its slice, the  *)
(* stage that added it and the contraction column.  One column tile of the *)
(* gradient stands for all: a cell is a row.  LDS is StagePipeline's.      *)
(***************************************************************************)
EXTENDS Integers, FiniteSets

CONSTANTS
    RowCounts,        \* rows of grad_output that are tried
    OutFeatures,      \* contraction lengths that are tried
    SliceCounts,      \* split_k of the control
    StageWidths,      \* k_iteration of the control: multiples of 16
    DecodeStep,       \* SPLIT_K_STEP
    RowTile,          \* rows of one workgroup: m_per_block
    ReduceBlock,      \* threads of a workgroup of the reduction: 256
    MaxReduceBlocks   \* its largest grid: 1024

Positive(S) == \A n \in S : n \in Nat /\ n > 0
SmallerOf(a, b) == IF a < b THEN a ELSE b
LargerOf(a, b) == IF a > b THEN a ELSE b

ASSUME SplitAssumption ==
    /\ Positive(RowCounts) /\ Positive(OutFeatures)
    /\ Positive(SliceCounts) /\ Positive(StageWidths)
    /\ Positive({DecodeStep, RowTile, ReduceBlock, MaxReduceBlocks})

(* 16 and 32 divide SPLIT_K_STEP, which is 32.                             *)
ASSUME StageAssumption ==
    \A k \in StageWidths : k <= DecodeStep => \E n \in 1 .. DecodeStep : DecodeStep = n * k

CeilDiv(n, d) == (n + d - 1) \div d

-----------------------------------------------------------------------------
(* exact_out_features is a template parameter of the body: the bound of    *)
(* the one problem the control is built for, or 0 for any bound.           *)
Controls ==
    {c \in [rows : RowCounts, out_features : OutFeatures, slices : SliceCounts,
            k_iteration : StageWidths, exact_out_features : OutFeatures \cup {0},
            full_tiles : BOOLEAN, pipelined : BOOLEAN] :
        c.exact_out_features \in {0, c.out_features}}

(* Fault: the slice quantum is the decode step, whatever the stage width. *)
DecodeStepOnly(c) == DecodeStep

Step(c) == LargerOf(DecodeStep, c.k_iteration)

(* Fault: the width of a slice is rounded down before it is rounded up. *)
ChunkOfFloor(c) == CeilDiv(c.exact_out_features \div c.slices, Step(c)) * Step(c)

Chunk(c) == CeilDiv(CeilDiv(c.exact_out_features, c.slices), Step(c)) * Step(c)

(* launch_configuration faults otherwise.                                  *)
Admitted(c) ==
    /\ c.exact_out_features % Step(c) = 0
    /\ c.full_tiles => c.rows % RowTile = 0 /\ c.out_features % c.k_iteration = 0

(* What the renderer means to refuse, and what no control of the catalog   *)
(* is; for pipelined controls it returns before it checks.                 *)
Rendered(c) == c.exact_out_features > 0 /\ (c.pipelined => c.full_tiles)

Launchable == {c \in Controls : Admitted(c) /\ Rendered(c)}

-----------------------------------------------------------------------------
SliceBegin(c, s) == s * Chunk(c)
SliceEnd(c, s) == SmallerOf(SliceBegin(c, s) + Chunk(c), c.out_features)

StageStarts(c, s) ==
    {o \in SliceBegin(c, s) .. SliceEnd(c, s) - 1 :
        (o - SliceBegin(c, s)) % c.k_iteration = 0}

(* Only the body without a pipeline decodes whole stages unguarded.        *)
StageColumns(c, s, o) ==
    IF c.full_tiles /\ ~c.pipelined
    THEN o .. o + c.k_iteration - 1
    ELSE o .. SmallerOf(o + c.k_iteration, SliceEnd(c, s)) - 1

Term(s, o, column) == [slice |-> s, stage |-> o, column |-> column]

(* What a workgroup of slice s has in its accumulators after its loop.     *)
SliceTerms(c, s) ==
    UNION {{Term(s, o, column) : column \in StageColumns(c, s, o)} :
               o \in StageStarts(c, s)}

(* torch.empty *)
Garbage == {Term(-1, -1, -1)}

Slices(c) == 0 .. c.slices - 1
Tiles(c) == 0 .. CeilDiv(c.rows, RowTile) - 1
WorkGroups(c) == Tiles(c) \X Slices(c)

(* Both unguarded bodies store whole tiles.                                *)
TileRows(c, tile) ==
    {row \in tile * RowTile .. tile * RowTile + RowTile - 1 :
        c.full_tiles \/ c.pipelined \/ row < c.rows}

Cell(c, s, row) == s * c.rows + row
PartialCells(c) == 0 .. c.slices * c.rows - 1

ReduceThreads(c) ==
    ReduceBlock *
        SmallerOf(MaxReduceBlocks, LargerOf(1, CeilDiv(c.rows, ReduceBlock)))

(* Fault: one pass, as if the grid were never capped. *)
ReducedOnce(c, thread) == {row \in 0 .. c.rows - 1 : row = thread}

(* The grid-stride loop of one thread.                                     *)
ReducedRows(c, thread) ==
    {row \in 0 .. c.rows - 1 : row % ReduceThreads(c) = thread}

-----------------------------------------------------------------------------
VARIABLES
    control,   \* the deployed control and its problem
    phase,     \* which kernel of the two runs
    stored,    \* workgroups of the split launch that have returned
    partials,  \* the FP32 buffer, slice after slice
    summed,    \* threads of the reduction that have returned
    grad_input

vars == <<control, phase, stored, partials, summed, grad_input>>

Init ==
    /\ control \in Launchable
    /\ phase = "split"
    /\ stored = {}
    /\ partials = [cell \in PartialCells(control) |-> Garbage]
    /\ summed = {}
    /\ grad_input = [row \in 0 .. control.rows - 1 |-> Garbage]

(* Fault: a workgroup whose slice is empty returns before its store. *)
StoreUnlessEmpty(tile, s) ==
    /\ phase = "split"
    /\ <<tile, s>> \in WorkGroups(control) \ stored
    /\ stored' = stored \cup {<<tile, s>>}
    /\ partials' =
         [cell \in PartialCells(control) |->
             IF /\ SliceTerms(control, s) # {}
                /\ \E row \in TileRows(control, tile) : cell = Cell(control, s, row)
             THEN SliceTerms(control, s) ELSE partials[cell]]
    /\ UNCHANGED <<control, phase, summed, grad_input>>

(* A workgroup contracts its slice and stores its tile, an empty slice too. *)
StorePartial(tile, s) ==
    /\ phase = "split"
    /\ <<tile, s>> \in WorkGroups(control) \ stored
    /\ stored' = stored \cup {<<tile, s>>}
    /\ partials' =
         [cell \in PartialCells(control) |->
             IF \E row \in TileRows(control, tile) : cell = Cell(control, s, row)
             THEN SliceTerms(control, s) ELSE partials[cell]]
    /\ UNCHANGED <<control, phase, summed, grad_input>>

(* Fault: the reduction runs in a stream of its own. *)
StartReduceEarly ==
    /\ phase = "split"
    /\ stored # {}
    /\ phase' = "reduce"
    /\ UNCHANGED <<control, stored, partials, summed, grad_input>>

(* The reduction is behind the split launch in the same stream.            *)
StartReduce ==
    /\ phase = "split"
    /\ stored = WorkGroups(control)
    /\ phase' = "reduce"
    /\ UNCHANGED <<control, stored, partials, summed, grad_input>>

(* A thread adds the slices up, in ascending order, for each of its cells. *)
Reduce(thread) ==
    /\ phase = "reduce"
    /\ thread \in 0 .. ReduceThreads(control) - 1 \ summed
    /\ summed' = summed \cup {thread}
    /\ grad_input' =
         [row \in 0 .. control.rows - 1 |->
             IF row \in ReducedRows(control, thread)
             THEN UNION {partials[Cell(control, s, row)] : s \in Slices(control)}
             ELSE grad_input[row]]
    /\ UNCHANGED <<control, phase, stored, partials>>

Next ==
    \/ \E tile \in Tiles(control), s \in Slices(control) : StorePartial(tile, s)
    \/ StartReduce
    \/ \E thread \in 0 .. ReduceThreads(control) - 1 : Reduce(thread)

(* Launched grids run to their end, and the stream goes on.                *)
Spec == Init /\ [][Next]_vars /\ WF_vars(Next)

-----------------------------------------------------------------------------
Terms(c) ==
    [slice : -1 .. c.slices - 1, stage : -1 .. c.out_features - 1,
     column : -1 .. c.out_features - 1]

(* Type invariant of the two launches: no sum ever holds a column behind   *)
(* the contraction.                                                        *)
TypeOK ==
    /\ control \in Launchable
    /\ phase \in {"split", "reduce"}
    /\ stored \in SUBSET WorkGroups(control)
    /\ partials \in [PartialCells(control) -> SUBSET Terms(control)]
    /\ summed \in SUBSET (0 .. ReduceThreads(control) - 1)
    /\ grad_input \in [0 .. control.rows - 1 -> SUBSET Terms(control)]

(* A sum is the contraction: every column once, no column behind it, and   *)
(* nothing that was not computed.                                          *)
IsContraction(c, sum) ==
    /\ \A t \in sum : t.column \in 0 .. c.out_features - 1
    /\ \A column \in 0 .. c.out_features - 1 :
         /\ \E t \in sum : t.column = column
         /\ \A t, u \in sum : t.column = column /\ u.column = column => t = u

(* Every gradient cell the reduction has written holds the whole           *)
(* contraction, each column exactly once: the slices of the split launch   *)
(* neither overlap nor leave a gap, and no garbage is added.               *)
ExactGradient ==
    \A row \in 0 .. control.rows - 1 :
        \/ grad_input[row] = Garbage /\ \A thread \in summed :
                                          row \notin ReducedRows(control, thread)
        \/ IsContraction(control, grad_input[row])

(* When the reduction starts, each cell of the partial buffer holds the    *)
(* partial sum of its own slice: empty slices have stored their zeros, and *)
(* no unguarded tile has spilled into the next slice's rows.               *)
PartialsStored ==
    phase = "reduce" =>
        \A s \in Slices(control), row \in 0 .. control.rows - 1 :
            partials[Cell(control, s, row)] = SliceTerms(control, s)

(* "No stage is therefore truncated and the unguarded full-tile path is    *)
(* safe": in every launch that is configured, a stage that starts in a     *)
(* slice ends in it.                                                       *)
NoTruncatedStage ==
    \A s \in Slices(control) :
        \A o \in StageStarts(control, s) :
            o + control.k_iteration <= SliceEnd(control, s)

(* The whole gradient is written, for every grid of the reduction.         *)
GradientCompletes ==
    <>(\A row \in 0 .. control.rows - 1 : IsContraction(control, grad_input[row]))
=============================================================================
