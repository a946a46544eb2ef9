--------------------------- MODULE MCStagePipeline ---------------------------
(* The instantiations of the stage loop, with short contractions.  A serial*)
(* staged body is deployed with an even number of stages in two tiles; the *)
(* catalog's M256 control has sixteen stages in three, here four in three. *)
EXTENDS StagePipeline

Shape(kind, lds_tiles, stages, active, row_tiles) ==
    [kind |-> kind, tiles |-> lds_tiles, stages |-> stages, active |-> active,
     row_tiles |-> row_tiles]

(* Serial walks of one-tile bodies, with waves that only decode.           *)
SingleShapes ==
    {Shape("single", 1, n, active, r) : n \in 1 .. 3, active \in 1 .. Waves, r \in 1 .. 2}

(* Dense bodies of every admitted PIPELINE_DEPTH, and split slices that    *)
(* are empty or shorter than the pipeline is deep.                         *)
PipelinedShapes ==
    {Shape("pipelined", d, n, active, 1) :
       d \in 2 .. 4, n \in 0 .. 5, active \in {1, Waves}}

(* Row tasks run one row tile whatever the stage count is.                 *)
StagedTaskShapes ==
    {Shape("staged", d, n, active, 1) : d \in 2 .. 3, n \in 1 .. 5, active \in {1, Waves}}

StagedSerialShapes ==
    {Shape("staged", 2, n, active, r) : n \in {2, 4}, active \in {1, Waves}, r \in 2 .. 3}

MCShapes ==
    SingleShapes \cup PipelinedShapes \cup StagedTaskShapes \cup StagedSerialShapes

MCStagedM256 == {Shape("staged", 3, 4, Waves, 2)}
=============================================================================
