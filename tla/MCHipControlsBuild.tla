-------------------------- MODULE MCHipControlsBuild --------------------------
(***************************************************************************)
(* HipControlsBuild with two builders: builders and artifacts are only     *)
(* compared for equality.                                                  *)
(***************************************************************************)
EXTENDS HipControlsBuild, TLC

Symmetry == Permutations(Builders) \cup Permutations(Artifacts)

(* What an ended builder has in memory, and the staging directory it may   *)
(* have left under a name nobody uses again, have no effect any more; nor  *)
(* has what a builder needs no more where it is.                           *)
Needed(b) ==
    [loaded |-> loaded[b], staging |-> staging[b],
     mode |-> IF pc[b] \in Installing THEN Absent ELSE mode[b],
     digest |-> IF pc[b] \in Installing \cup {"digest"} THEN Absent ELSE digest[b],
     wrote |-> IF pc[b] \in {"building", "rebuilding"} THEN wrote[b] ELSE {},
     second |-> IF pc[b] = "rebuilding" THEN second[b] ELSE Unbuilt]

Remembered ==
    <<pc, target, old, quiet, sources, wrapper, mixed,
      [b \in {x \in Builders : Live(x)} |-> Needed(b)]>>
=============================================================================
