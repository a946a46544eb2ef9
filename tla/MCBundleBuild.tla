----------------------------- MODULE MCBundleBuild -----------------------------
(***************************************************************************)
(* BundleBuild with two builders, which are only compared for equality,    *)
(* and a process.                                                          *)
(***************************************************************************)
EXTENDS BundleBuild, TLC

Symmetry == Permutations(Builders)

(* What an ended builder has in memory, and the staging directory it may   *)
(* have left under a name nobody uses again, have no effect any more; nor  *)
(* has what a builder needs no more where it is, or what a process holds   *)
(* that has imported a disturbed tree.                                     *)
Needed(b) ==
    [loaded |-> IF pc[b] \in Installing \cup {"extension"} THEN Absent ELSE loaded[b],
     written |-> IF pc[b] \in {"write", "building"} THEN written[b] ELSE {},
     staging |-> staging[b]]

Remembered ==
    <<pc, target, old, quiet, recipe, header, source, tree,
      [b \in {x \in Builders : Live(x)} |-> Needed(b)],
      [b \in {x \in Builders : Live(x) \/ quiet[x]} |-> kind[b]],
      [p \in Processes |->
          IF process[p].clean \/ process[p].native = Absent THEN process[p] ELSE Absent]>>
=============================================================================
