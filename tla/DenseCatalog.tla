---------------------------- MODULE DenseCatalog ----------------------------
(***************************************************************************)
(* The ordinary backward bodies that are checked: all that the dense       *)
(* catalogs deploy, and those the configuration search enumerates around   *)
(* them.                                                                   *)
(***************************************************************************)
EXTENDS BackwardTile

DenseDeployed == <<
    [KernelSpec("Q3_K", 4, 2, 4, 32) EXCEPT !.interleave = TRUE, !.extraction = "Packed",
         !.pairing = "Full"],
    [KernelSpec("Q3_K", 4, 2, 8, 32) EXCEPT !.interleave = TRUE, !.extraction = "Packed",
         !.pairing = "Full"],
    [KernelSpec("Q3_K", 4, 4, 4, 32) EXCEPT !.interleave = TRUE, !.extraction = "Packed",
         !.pairing = "Full"],
    [KernelSpec("Q3_K", 4, 4, 4, 32) EXCEPT !.interleave = TRUE, !.extraction = "Packed",
         !.pairing = "Partial"],
    [KernelSpec("Q4_K", 4, 2, 4, 32) EXCEPT !.interleave = TRUE],
    [KernelSpec("Q4_K", 4, 2, 8, 32) EXCEPT !.pad = 0, !.swizzle = 8, !.double = TRUE],
    [KernelSpec("Q4_K", 4, 2, 8, 32) EXCEPT !.pad = 0, !.swizzle = 8, !.double = TRUE,
         !.dependency = 4],
    [KernelSpec("Q4_K", 4, 4, 4, 32) EXCEPT !.interleave = TRUE],
    [KernelSpec("Q4_K", 4, 4, 4, 32) EXCEPT !.interleave = TRUE, !.dependency = 4],
    [KernelSpec("Q5_K", 4, 2, 8, 32) EXCEPT !.pad = 0, !.swizzle = 8, !.double = TRUE,
         !.extraction = "Packed"],
    [KernelSpec("Q5_K", 4, 2, 8, 32) EXCEPT !.pad = 0, !.swizzle = 8, !.double = TRUE,
         !.extraction = "Packed", !.hoisted = TRUE],
    [KernelSpec("Q5_K", 4, 4, 4, 32) EXCEPT !.interleave = TRUE, !.extraction = "Packed",
         !.hoisted = TRUE],
    [KernelSpec("Q6_K", 4, 1, 2, 64) EXCEPT !.extraction = "PackedVopd"],
    [KernelSpec("Q6_K", 4, 2, 2, 64) EXCEPT !.extraction = "PackedVopd"],
    [KernelSpec("Q6_K", 4, 4, 4, 32) EXCEPT !.next_packed = TRUE, !.extraction = "PackedVopd"],
    [KernelSpec("Q8_0", 2, 1, 4, 64) EXCEPT !.extraction = "PackedVopd"],
    [KernelSpec("Q8_0", 4, 1, 4, 64) EXCEPT !.extraction = "PackedVopd"],
    [KernelSpec("Q8_0", 4, 2, 4, 32) EXCEPT !.interleave = TRUE, !.extraction = "Packed"],
    [KernelSpec("Q8_0", 4, 2, 4, 64) EXCEPT !.extraction = "PackedVopd"],
    [KernelSpec("Q8_0", 4, 2, 8, 32) EXCEPT !.next_packed = TRUE, !.extraction = "Scalar"],
    [KernelSpec("Q8_0", 4, 2, 8, 32) EXCEPT !.interleave = TRUE, !.extraction = "Packed"],
    [KernelSpec("Q8_0", 4, 2, 8, 64) EXCEPT !.pad = 0, !.swizzle = 8, !.extraction = "Packed"],
    [KernelSpec("Q8_0", 4, 4, 4, 32) EXCEPT !.next_packed = TRUE, !.extraction = "Packed"],
    [KernelSpec("Q8_0", 4, 4, 4, 32) EXCEPT !.interleave = TRUE, !.extraction = "Packed"],
    [KernelSpec("Q8_0", 4, 4, 4, 32) EXCEPT !.interleave = TRUE, !.extraction = "PackedVopd"]>>

(* Candidates of the search, each one decision away from a deployed body. *)
DenseCandidates == <<
    [KernelSpec("Q3_K", 4, 4, 4, 32) EXCEPT !.pad = 0, !.interleave = TRUE,
         !.extraction = "Packed", !.pairing = "Full"],
    [KernelSpec("Q3_K", 4, 4, 4, 32) EXCEPT !.pad = 0, !.swizzle = 8,
         !.interleave = TRUE, !.extraction = "Packed", !.pairing = "Full"],
    [KernelSpec("Q3_K", 4, 4, 4, 32) EXCEPT !.grp = 1, !.prefetch_activation = FALSE,
         !.extraction = "Packed", !.pairing = "Full"],
    [KernelSpec("Q3_K", 4, 4, 4, 32) EXCEPT !.grp = 1, !.lrp = 2,
         !.prefetch_activation = FALSE, !.interleave = TRUE, !.extraction = "Packed", !.pairing = "Full"],
    [KernelSpec("Q3_K", 4, 4, 4, 32) EXCEPT !.extraction = "Packed", !.pairing = "Full"],
    [KernelSpec("Q3_K", 4, 4, 4, 32) EXCEPT !.interleave = TRUE, !.extraction = "Scalar"],
    [KernelSpec("Q4_K", 4, 4, 4, 32) EXCEPT !.pad = 0, !.interleave = TRUE],
    [KernelSpec("Q4_K", 4, 4, 4, 32) EXCEPT !.pad = 0, !.swizzle = 8, !.interleave = TRUE],
    [KernelSpec("Q4_K", 4, 4, 4, 32) EXCEPT !.pad = 0, !.swizzle = 8, !.double = TRUE],
    [KernelSpec("Q4_K", 4, 4, 4, 32) EXCEPT !.grp = 1, !.prefetch_activation = FALSE],
    [KernelSpec("Q4_K", 4, 4, 4, 32) EXCEPT !.grp = 1, !.lrp = 2,
         !.prefetch_activation = FALSE, !.interleave = TRUE],
    KernelSpec("Q4_K", 4, 4, 4, 32),
    [KernelSpec("Q4_K", 4, 4, 4, 32) EXCEPT !.interleave = TRUE, !.share = 2],
    [KernelSpec("Q5_K", 4, 4, 4, 32) EXCEPT !.pad = 0, !.interleave = TRUE,
         !.extraction = "Packed", !.hoisted = TRUE],
    [KernelSpec("Q5_K", 4, 4, 4, 32) EXCEPT !.pad = 0, !.swizzle = 8,
         !.interleave = TRUE, !.extraction = "Packed", !.hoisted = TRUE],
    [KernelSpec("Q5_K", 4, 4, 4, 32) EXCEPT !.grp = 1, !.prefetch_activation = FALSE,
         !.extraction = "Packed", !.hoisted = TRUE],
    [KernelSpec("Q5_K", 4, 4, 4, 32) EXCEPT !.grp = 1, !.lrp = 2,
         !.prefetch_activation = FALSE, !.interleave = TRUE, !.extraction = "Packed", !.hoisted = TRUE],
    [KernelSpec("Q5_K", 4, 4, 4, 32) EXCEPT !.extraction = "Packed", !.hoisted = TRUE],
    [KernelSpec("Q5_K", 4, 4, 4, 32) EXCEPT !.interleave = TRUE, !.extraction = "Packed",
         !.hoisted = TRUE, !.vector = TRUE],
    [KernelSpec("Q5_K", 4, 4, 4, 32) EXCEPT !.interleave = TRUE, !.extraction = "Scalar",
         !.hoisted = TRUE],
    [KernelSpec("Q6_K", 4, 1, 2, 64) EXCEPT !.pad = 0, !.extraction = "PackedVopd"],
    [KernelSpec("Q6_K", 4, 1, 2, 64) EXCEPT !.pad = 0, !.swizzle = 8,
         !.extraction = "PackedVopd"],
    [KernelSpec("Q6_K", 4, 1, 2, 64) EXCEPT !.grp = 1, !.prefetch_activation = FALSE,
         !.extraction = "PackedVopd"],
    [KernelSpec("Q6_K", 4, 1, 2, 64) EXCEPT !.extraction = "Packed"],
    [KernelSpec("Q6_K", 4, 1, 2, 64) EXCEPT !.extraction = "Scalar"],
    [KernelSpec("Q6_K", 4, 1, 2, 64) EXCEPT !.share = 2, !.extraction = "PackedVopd"],
    [KernelSpec("Q8_0", 2, 1, 4, 64) EXCEPT !.pad = 0, !.extraction = "PackedVopd"],
    [KernelSpec("Q8_0", 2, 1, 4, 64) EXCEPT !.pad = 0, !.swizzle = 8,
         !.extraction = "PackedVopd"],
    [KernelSpec("Q8_0", 2, 1, 4, 64) EXCEPT !.grp = 1, !.prefetch_activation = FALSE,
         !.extraction = "PackedVopd"],
    [KernelSpec("Q8_0", 2, 1, 4, 64) EXCEPT !.extraction = "Packed"],
    [KernelSpec("Q8_0", 2, 1, 4, 64) EXCEPT !.extraction = "Scalar"],
    [KernelSpec("Q8_0", 4, 2, 8, 32) EXCEPT !.pad = 0, !.next_packed = TRUE,
         !.extraction = "Scalar"],
    [KernelSpec("Q8_0", 4, 2, 8, 32) EXCEPT !.pad = 0, !.swizzle = 8,
         !.next_packed = TRUE, !.extraction = "Scalar"],
    [KernelSpec("Q8_0", 4, 2, 8, 32) EXCEPT !.pad = 0, !.swizzle = 8, !.double = TRUE,
         !.extraction = "Scalar"],
    [KernelSpec("Q8_0", 4, 2, 8, 32) EXCEPT !.grp = 1, !.prefetch_activation = FALSE,
         !.extraction = "Scalar"],
    [KernelSpec("Q8_0", 4, 2, 8, 32) EXCEPT !.grp = 1, !.lrp = 2,
         !.prefetch_activation = FALSE, !.interleave = TRUE, !.extraction = "Scalar"],
    [KernelSpec("Q8_0", 4, 2, 8, 32) EXCEPT !.extraction = "Scalar"],
    [KernelSpec("Q8_0", 4, 2, 8, 32) EXCEPT !.next_packed = TRUE, !.extraction = "Packed"],
    [KernelSpec("Q8_0", 4, 2, 8, 32) EXCEPT !.next_packed = TRUE, !.extraction = "PackedVopd"],
    [KernelSpec("Q8_0", 4, 4, 4, 32) EXCEPT !.pad = 0, !.interleave = TRUE,
         !.extraction = "Packed"],
    [KernelSpec("Q8_0", 4, 4, 4, 32) EXCEPT !.pad = 0, !.swizzle = 8,
         !.interleave = TRUE, !.extraction = "Packed"],
    [KernelSpec("Q8_0", 4, 4, 4, 32) EXCEPT !.grp = 1, !.prefetch_activation = FALSE,
         !.extraction = "Packed"],
    [KernelSpec("Q8_0", 4, 4, 4, 32) EXCEPT !.grp = 1, !.lrp = 2,
         !.prefetch_activation = FALSE, !.interleave = TRUE, !.extraction = "Packed"],
    [KernelSpec("Q8_0", 4, 4, 4, 32) EXCEPT !.extraction = "Packed"],
    [KernelSpec("Q8_0", 4, 4, 4, 32) EXCEPT !.interleave = TRUE, !.extraction = "Scalar"],
    [KernelSpec("Q8_0", 8, 1, 4, 32) EXCEPT !.grp = 1, !.prefetch_activation = FALSE,
         !.interleave = TRUE, !.extraction = "Packed"]>>

(* One that no catalog deploys although it passes validation. *)
PipelinedQ6 ==
    [KernelSpec("Q6_K", 4, 1, 2, 64) EXCEPT !.pad = 0, !.swizzle = 8, !.double = TRUE,
         !.extraction = "PackedVopd"]

ASSUME CandidatesValid ==
    \A s \in Range(DenseDeployed \o DenseCandidates) \cup {PipelinedQ6} : ValidSpec(s)

(* Two stages take a loop's back edge; a pipelined one also fills and drains. *)
Stages(s) == IF s.double \/ s.next_packed THEN 3 ELSE 2
DensePrograms(specs) ==
    {OrdinaryProgram(k, Stages(k.spec)) :
       k \in {Kernel(x[1], x[2]) : x \in {<<s, Plan(s)>> : s \in specs}}}
=============================================================================
