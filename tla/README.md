# Verification of torch-ggml-ops

torch-ggml-ops binds quantized matrix multiplications (MMQ) for one GPU
architecture, gfx1151, to PyTorch.  This directory holds TLA+ models of the
parts of it whose correctness depends on order, sharing or arithmetic over
ranges, the TLC configurations that check them on small instances, and proofs
for every value of the constants.  Paths below are relative to the repository.

## Inventory

| Component | State it keeps | Operations | What is hard | What makes it correct |
| --- | --- | --- | --- | --- |
| Python operations (`torch_ggml_ops/_mmq_cuda.py`, `_mmq_autograd.py`) | the buffers of one call: workspace, task bank, partials, output | allocate, launch, reduce, backward with missing cotangents | a call is several launches over buffers nobody initializes; the Python tables and the C++ records are two copies | a kernel reads only what an earlier launch of the same call wrote |
| Native validation (`csrc/mmq_*_validation.cuh`) | none | shape, dtype, alignment and count checks | what is checked before which launch | an unsupported request fails before anything is launched |
| Host launch (`csrc/mmq_bundle.cpp`, generated table) | the record table | exact lookup, grid, arguments, one or several kernels | ownership of a record against the launch path used | the launch and the buffers are of the same deployment |
| Bundle loader (`csrc/mmq_bundle_loader.cpp`) | process-wide map of modules, mutex | resolve (load once), launch | threads missing on one key, failures under the lock, a reference used after it | load once, leak nothing, launch live modules |
| Row-task setup (`csrc/mmq_core.cuh`) | LDS scan array, task bank | count, scan, emit, publish | interleaved lanes, several passes, capacity | the bank is the row tiles, nothing else |
| Grouped multiply bodies (`csrc/mmq_core.cuh`, `csrc/ck/grouped_*`) | output tensor | row-task, serial and tail walks | partial tiles, empty entries, garbage slots | every valid row once, with its own expert |
| Routed assembly kernels (`tools/ggtensile/*lowering*.py`) | output tensor, scalar registers | guards, grid decoding, strided walk | workgroups that share one route | the sharing workgroups partition the route |
| Stage pipelines (`csrc/ck/*pipelined*`, `*staged*`) | LDS tiles, accumulators | decode ahead, multiply, barrier | barriers against reuse of a tile | no tile race, the whole contraction |
| Split contraction (`csrc/ck/mmq_backward_split_k.cuh`, `csrc/mmq_dense_split.cuh`) | partial tiles in global memory | split launch, reduce launch | slice bounds, empty slices, uninitialized partials | every column of the contraction once |
| Bundle build (`tools/mmq_deployment_bundle.py`, `setup.py`) | generated header, contract, package directory | compile, generate, install | a crash between renames, `_C` rebuilt later than the tables | what a process loads is one generation |
| Control build (`tools/build_mmq_hip_controls.py`) | stamp and inventory | compile, check, install | a source edited during the build | `--check` accepts only what the sources say |
| Assembly bodies (`tools/ggtensile/mmq_*_lowering*.py`, `*_physical.py`, `grouped_*`) | vector registers, LDS, the load counters of a wave | global and LDS loads, waits, decoding, products, barriers, epilogue | hand-counted waits, registers shared by hand, one barrier for two waves and two buffers, peeled pipelines | every product is of matching, completed operands, none is missing, no LDS race |
| Specifications and catalogs (`*_spec.py`, `*_search.py`) | none | validate, propose, deploy | combinations nobody rendered before | what passes validation renders a correct body |
| Benches, runners, inspection, checkers | text | parsing, measuring | size | not modelled, see the end |

The first kind of module looks at a call from outside a kernel, the second at
the workgroups of a kernel, the third at the instructions of a wave.  Components
meet in three ways.  Kernels of one call meet on a HIP stream,
which runs them in order.  Threads of one workgroup meet at barriers.  Host
threads meet at the loader's mutex.  The device tensors `expert_indices` and
`expert_offsets` are never read by the host, so the kernels themselves drop
route entries that are empty or out of range.

## The modules and the code

A definition carries the name the code uses where TLA+ allows it.  A body
marked `Fault:` is what a plausible mistake would make of the definition
behind it; no specification uses it.

**Routed problems.**  `RoutedProblem` holds what every grouped operation
receives: route entries with an expert id and a row end, both device data that
the host does not read, and the row tile of the deployed kernel.  `Valid` is
the guard each kernel repeats, `Capacity` is `paired_row_task_capacity`.
`RowTaskSetup` is `grouped_mmq_build_row_tasks_body`: one action per lane and
code segment between two `__syncthreads`, one per barrier, with the LDS array
of the doubling scan read and written lane by lane, so lanes interleave freely
inside a segment.  `stores` collects what the kernel writes to the task bank.

**Grouped outputs.**  `RoutedGrid` is the output tensor: a cell per row and
column tile whose value is the expert used for it, unwritten, or written
twice.  `RoutedOutput` is the promise of a grouped operation: rows of a valid
entry are stored once, with the entry's expert, nothing else is stored, and in
the end all of them are.  Three modules implement it:

- `RowTaskMultiply` extends `RowTaskSetup` with the second launch of the call,
  a grid of capacity times columns whose workgroups read the count, skip or
  take their task, and, in bodies that revalidate, check it again.  Slots
  nobody stored hold any task at all.
- `SerialMultiply` is the HIP body that owns a whole entry: guard, full tiles,
  one tail in the smallest instantiated tile that holds it.
- `AssemblyRoutes` is the scalar control of the emitted kernels: the shape
  guard, the route guard, the decoding of a grid coordinate into column, lane,
  split and first tile, and the strided walk in its rolled, full-and-tail and
  secondary-tail forms, for each ownership policy the generator can emit.
- `RoutedBodies` composes the last two: an operation whose record names one of
  the bodies that own whole entries, launched on the same grid of tensors.

**Stage loops.**  `StagePipeline` is the loop shared by the backward bodies:
waves decode their share of a stage into an LDS tile and multiply whole tiles.
It has the "single", "pipelined" and "staged" schedules with their different
places for the barrier.  A barrier orders LDS accesses: in the generated code
a bare `s_barrier` is preceded by the waits that complete the wave's LDS
operations, and the model takes that for granted.

**Split contraction.**  `SplitContraction` has the arithmetic of slices and
stages of the control's configuration, the split launch over an uninitialized
partial buffer, and the capped grid of the reduction.  A sum is the set of the
terms added to it, so a column added twice, left out, or read from garbage is
visible.

**Loader.**  `KernelLoader` is `mmq_bundle_loader.cpp`: a step for every place
where a thread can be overtaken or a HIP call can fail, under the mutex of
`resolve_kernel` and behind it.  `KernelCache` is what it promises: a map that
grows by resolved keys, of which only resolved ones are launched.

**Assembly bodies.**  The generator writes, for each specification, the body of
one wave.  The models repeat its functions: an operator with the name of an
emitter returns the instructions the emitter appends, in its order, under its
conditions.  `WaveCode` has the instructions, `WaveMachine` the workgroup that
executes them.

- A register holds a content `<<role, index, at, k>>`: what the value is (a
  packed payload, a scale, an LDS address, an activation fragment), of which
  tile or row, of which stage of the contraction (or which LDS buffer, or
  neither), and the offset in the stage.  An ALU sequence is the registers it
  reads, with the content it expects in them, and the contents it leaves.
  Consecutive ALU instructions between two loads, waits or stores are one such
  sequence; what they use up on the way is a result named `junk`.
- A load makes its registers `Pending` and joins the queue of `vmcnt` or
  `lgkmcnt`.  They get their content when an `s_waitcnt` leaves at most so many
  operations outstanding, the oldest returning first.  Loads that have
  returned early are not told apart from pending ones: a read is right only if
  the waits before it say so.
- The LDS is a cell for each part a wave writes at once.  A cell holds the
  role and stage written last; a read of cells of different stages is `Mixed`.
- `sums` counts the products an output fragment has taken.  A program states
  the order of the contraction (`order`), so the next product of a fragment is
  known, and its operands have to belong to it.
- Scalar registers are the loop counter, the tile of a route and the exchange
  of the pointers of a pair.  Branches are on these.
- The waves of a workgroup run the same program.  Waves that decode and, where
  the code has them, waves that only multiply are both present.

`BackwardPlan` is `derive_backward_physical_plan` with the validation of a
specification: registers are handed out by first fit as the generator does, and
so have the numbers of the rendered source.  `BackwardDecode` has the loads and
the decoding of a weight tile for each of the eight formats, `BackwardTile` the body over
one output tile with its ordinary, packed-pipelined and decoded-pipelined loops,
`BackwardGrouped` the walk over a route, the secondary tail tile and the paired
kernels with their exchange of pointers, two LDS tiles and pipelined decodes.
`DenseCatalog` and `RoutedCatalog` list specifications: all the catalogs
deploy, candidates of the search, fixtures of the tests.

The forward bodies are split likewise: `ForwardPlan` has the register plans,
where roles with disjoint lifetimes share registers; `ForwardInt8` the direct,
register-tiled, and two LDS-tiled bodies of Q8_0; `ForwardPackedDirect` and
`ForwardDecoded` those of Q4_K and Q5_K; `ForwardQ3` the half and the full tile
of Q3_K; `ForwardQ6` the structured body of Q6_K; `ForwardCatalog` their
specifications.  In `ForwardDecoded` and `ForwardQ6` the loop over the groups
of a plane or phase is unrolled.  In `ForwardQ3` the plane of the activations,
a scalar register in the code, is the loop counter.

The body of Q6_K has its registers written out in the source, in tables for one
and two blocks of rows, and turns them over many times: packed values become
decoded ones in place, an address is overwritten by the load it was made for,
the second half of a block has all pointers and factors one register lower.
`ForwardQ6` has the tables and the sequence of loads, sums of addresses, waits
and writes.  The setup of a lane is one step.  An atom of decoded weights is
two LDS cells, of the groups its halves hold; a slot of the activations is one.
The fixture with two groups of waves on one block of weights has the first
decode for both; of the two waves here one then skips the decoding, and a read
of activations, which are one group's in the code, expects those of both.

Register numbers, waits, offsets and the order of instructions in the programs
agree with those of the source the generator renders for the same
specification; comparing the two lists was the way the operators were brought
to their present form.

**Calls.**  `OperationLaunch` is a public call: the uninitialized tensors the
Python layer allocates, the private operations it calls, their kernels, and
the places where each of them fails.  Two calls share streams and the caching
allocator, an external component: it hands a dropped block out again at once,
to the stream it was allocated for.  Contents are tracked by what computed
them, so the use of a block that another call has overwritten shows as
`Stale`.  What Python allocates and which operation it calls follows from the
sizes in its own generated tables (`tabled`); which kernels an operation
launches and what it refuses follows from the native record (`record`).  The
two are separate variables.  The comment above the tables, that they always
describe the same deployment, holds for a process imported after a clean
`build_ext` (`BundleBuild`, `CleanProcessAgrees`); a standalone build leaves
newer tables beside the compiled extension.  Row-task, split and pair forward
operations check the record and the lengths of the buffers they were given;
the plain backward launches check neither the ownership nor the split of the
record they find.  A body launched with other arguments than its record was
deployed with (`Fits` fails) may leave anything in any block.

**Builds.**  `StagedInstall` is the protocol with which both builders replace
a directory: `rmtree` of `.old` (in two steps, because a kill in the middle
leaves part of it), the test, two renames, `rmtree` again.  `HipControlsBuild`
is `tools/build_mmq_hip_controls.py` with its digest, its stamp and its three
command lines; a code object is the pair of versions (Python sources, headers)
it was compiled from.  `BundleBuild` is `tools/mmq_deployment_bundle.py`,
`build_ext` around it, and processes that import the package and load code
objects later.  Edits of the repository are steps of the environment at any
moment.  Staging directories have fresh names; the sources of the code objects
are in one directory that all builders write.

## The runs

| Run | Question | Bounds, and why they are enough |
| --- | --- | --- |
| `row_tasks` | does every interleaving of lanes build the bank in the space the caller sized, and are setup and multiply together a grouped operation | 4 entries over 3 lanes: two passes, the second partial, a scan with strides 1 and 2; offsets up to one beyond the rows, an expert id outside the bank, empty entries; a bank larger than the tasks, so that the slots behind the count are garbage |
| `routed_bodies` | do full tiles and tails of a serial body meet; do workgroups that share a route partition it | 6 rows in tiles of 3 with every choice of shorter tails; 7 ownership policies: splits and lanes of 1 and 2, both packings, all walks, two thresholds for the secondary tail |
| `smaller_bank` (violated) | does a bank with fewer experts get served | as above, with a bank smaller than the kernel's |
| `stage_pipeline` | is a tile never written while it may be read, and is the contraction complete | depths 1 to 4, 0 to 5 stages, hence shorter and longer than every pipeline, waves that only decode, repeated row tiles |
| `staged_m256` (violated) | does one barrier suffice for a staged serial body of three tiles | the shape of the catalog's control, shortened from 16 stages to 4 |
| `kernel_loader` | does the loader load once, leak nothing, launch live modules, return | 3 threads, 2 devices, 2 calls each: a third thread can meet the entry of a second after a failure of the first |
| `split_contraction` | is the gradient exact | every control over contractions of 2 to 6 columns with 1, 2 and 4 slices: rounding up, slices that end short, empty slices, partial row tiles, a grid of the reduction that strides |
| `operation_launch` | does any kernel use what another call left; does a call that returns deliver | two calls in one or two streams over four blocks: enough for both to be in flight, too few not to reuse; every kind of record but the serial forward pair and grouped serial backward with agreeing tables, which differ from others in the number or names of their tensors only; and eleven disagreements of tables and record (missing, spurious, another size with the same or with another capacity: five rows, sizes 2, 3 and 4) beside a call that uses the most buffers |
| `hip_controls_build` | is what is installed of one build, is what `--check` accepts current, what do concurrent, killed and failing builders leave | two builders, plain or verifying, two artifacts, one edit of the Python sources or of the headers at any moment; each builder may run again and again |
| `bundle_build` | the same for the bundle; which processes hold one build | two builders, with or without `build_ext` around them, one process, one assembled and one HIP artifact, one edit of the generators or of the headers |
| `assembly_bodies` | is every register an instruction reads what its emitter takes it for; does every product meet matching fragments; is the contraction complete when a tile is stored; do waves race in the LDS or miss a barrier | 95 backward and 41 forward specifications at their real register counts, tile widths, vector widths and wait counts; two waves; two iterations of the shortest loop, three and more where a pipeline needs them to reach its steady state; routes without a tile, with one, and with a full and a partial one |
| `pipelined_q6` (violated) | does the Q6_K body with a swizzled double-buffered tile keep its scale | the specification alone |

Deadlock is not checked in runs whose system stops: a kernel retires, calls
reach their bound, a build ends.  The assembly bodies end in a step of their own
(`Ended`), so that a workgroup stuck at a barrier is a deadlock.  Where stopping early would be an error a
liveness property (`Drains`, `CallsReturn`, `GradientCompletes`,
`CallsDeliver`, the liveness of `RoutedOutput`) says so.

`MCHipControlsBuild` and `MCBundleBuild` compare states (`VIEW`) without what
nobody reads again: the memory of builders that have ended and the staging
directory they may have left under a name of its own, what a live builder needs
no more where it is, and what a process holds that imported a disturbed tree.
Symmetry is used in these two only, and both check invariants only.
`MCAssemblyBodies` compares states without the text of the program, which the
specification it was made from (`spec`) stands for.

`WaveMachine` runs the waves one after the other between two barriers, in every
order (`Turn`).  Waves only meet in the LDS; as long as no wave stores to a cell
another one uses between the same barriers, finer interleavings reach no other
result, and that they do not is `NoLdsRace`, checked on the way, with the
operations a barrier did not wait for counted behind it, and proved of every
interleaving for the bodies with one LDS buffer (`RaceFreeInAnyOrder`).  A
workgroup has four or eight waves; two represent them because all waves run the
same text and `NoLdsRace` compares them in pairs.  Where only some waves decode,
both kinds are there.
Contractions have a whole number of stages, as validation demands.

## Fairness

- Kernels: weak fairness of the whole next-state relation.  All workgroups of
  these kernels are finite, the hardware schedules resident waves, and no wave
  waits for another one except at a barrier that all reach.
- `KernelLoader`: weak fairness of each thread's steps.  The mutex itself is
  not fair; as every thread makes a bounded number of calls, weak fairness of
  taking it suffices.  Calls themselves are not forced to happen.
- `OperationLaunch`: weak fairness per host thread and per stream: threads are
  scheduled and queued kernels run.
- `WaveMachine`: none; it has safety and deadlock only.  A loop ends because its
  counter grows; a wave waits for nothing but a barrier.
- Builders have no fairness: they may be killed anywhere, so only safety is
  stated about them.

## What is proved

The proof modules cover all values of the constants under the assumptions
named in the component's module; they are checked by TLAPS.

- `RoutedProofs`, first part, the setup: how many row tiles precede a route entry, and
  `CapacityBound`: any monotone routing fits into
  ceil(rows / tile) + entries slots.  A full tile owns a multiple of the tile
  height that no other one owns; an entry has one partial tile at most.  On top
  of it all five safety properties of the setup, for any number of lanes, not
  only powers of two.  The properties say nothing of the LDS array, so they are
  not inductive; `IInv` adds what each lane has summed: after a step of the
  scan a lane holds the tasks of the `stride` entries that end at its own, a
  difference of two prefix counts.
- `RoutedProofs`, second part, setup and multiply: `LaunchWritesOnce`, every step of
  the two kernels is a step of `RoutedOutput` or leaves its state, and
  `LaunchCompletes`.  `LaunchInv` says of each cell that it holds the expert of the
  task it lies in as soon as that task's workgroup has returned and what
  `torch.empty` left before.  What makes this inductive is that a task lies
  inside one valid entry (`TaskShape`), two tasks share no row
  (`RowsApart`), and the bank no longer changes when the first workgroup
  starts.  Completeness needs `CapacityBound` once more: the grid is sized
  without reading the count, and no slot lies outside of it.
- `RoutedProofs`, third part, the bodies that own whole entries:
  `BodiesWriteOnce` and `BodiesComplete`, the same two statements for the serial
  HIP walk and for the assembly kernels.  Both proofs share one invariant, `Delivered`: a cell
  some workgroup still owes is unwritten, a cell of a valid entry that nobody owes
  any more holds its expert, and nobody touches a cell outside the entries.  A
  workgroup owes the rows ahead of it in its own walk; `StoreDelivers` and
  `StoreMaps` turn "stores rows it owes" into both the invariant and the
  abstract step.  The rest is that the owed sets of two workgroups are disjoint
  and that together they start as all rows.  For the serial body this is by entry and
  column; for the assembly kernels it is the arithmetic of the grid: decoding
  is a bijection between the workgroups of a route and column and the residues of
  the stride (`FirstInjective`, `FirstSurjective`), packed into Y or on Z, and a walk
  from a residue in steps of the stride meets each tile of that residue once
  (`StrideWalk`).  The hypothesis `Generated` repeats the assumptions of
  `RoutedBodies` on tail tiles and policies.  Completeness of an assembly
  kernel holds for `Exact` launches, those with the expert count it was
  generated for and no more entries; for any other count it returns without
  storing, which is what `smaller_bank` shows.
- `KernelLoaderProofs`: the safety properties of the loader and the
  refinement of `KernelCache` for any number of threads, devices and calls.
  `IInv` says who owns each module: the entry of its key, or the one thread
  between load and insertion.
- `SplitContractionProofs`: for all problems and all controls that can be
  rendered (`Rendered`), the gradient is exact, partials are stored before they are
  read, stages are whole.  `ExactGradient` does not say what the reduction
  will read, so `IInv` adds that a stored partial is the sum of its own slice
  and that the reduction starts after all stores.  The arithmetic core: every
  column lies in exactly one slice and one stage of it.
- `StagePipelineProofs`: for every number of waves, LDS tiles and stages of the
  three schedules no wave decodes into a tile another one multiplies, and a
  tile that is stored has every stage once.  A barrier is all that relates two
  waves, so the invariant counts barriers: by its row tile, its stage and its
  place in the stage each wave has met a number of them, any two waves the same
  one or, where one waits and the other has gone on, neighbours.  From that
  follows how far apart two waves may be, and from that which stage each share
  of a tile holds.  The two theorems assume `SerialWalksFit`: in a staged serial
  walk the last stage of a row tile is not in the LDS tile of the first.  It is
  what the shape of `staged_m256` breaks, and the only shapes for which they
  fail; row-task bodies have one row tile and need no assumption.
- `OperationLaunchProofs`: for any number of calls, streams, blocks and any set
  of records and tabled sizes, agreeing or not, all four safety properties,
  from `LaunchAssumption` and `WorkloadsAssumption`.  What a block holds now says
  little of what a kernel will find in it, so the invariant is about queues:
  `Supplied` says that the last kernel in front that writes the block is of the
  same call and writes the right tensor, or that none does and the block holds
  it already.  Each queued read is supplied, and so is whatever the rest of a
  call relies on (`Suits`, a statement about the kernels it has yet to launch).
  That a dropped block may be handed out again at once is harmless because a
  block never leaves the pool of its stream (`OwnerInv`): whoever gets it
  launches behind the kernels that still use it.  Launching one kernel in
  another stream breaks `EntryInv`.  All this is claimed while every body had
  its own arguments (`AllFit`); after that only who owns which block remains.
  That tables and record still meet in one form is in the invariant of a call
  (`CallInv`): the forms launched are the record's, or the tables omit it.
- `HipControlsBuildProofs`: for any number of builders, artifacts and edits,
  whoever installs holds a complete, stamped directory (`ControlsTypeCorrect`),
  and until builders of different recipes have been at work at once (`mixed`)
  the target is the output of one build and `--check` is sound.  `CheckIsSound`
  is not inductive because it only speaks of moments when the stamp fits;
  `IInv` keeps a bracket: the header version in the digest is at most that of
  each compiled file, which is at most that on disk.  `Edit` only widens it,
  and an accepted stamp closes it.  For the recipes, `IInv` says that builders
  at work have all imported the same one until they mix, so that a wrapper
  somebody else has overwritten is still of it.  `VerifiedStaysUniform`: the
  second compilation can only agree with the first if no header was edited in
  between, and then all first images are of the version on disk.
  `QuietBuildsRepair`: from the moment a builder is alone the directories hold
  what it put there, whatever it found.
- `BundleBuildProofs`: type correctness, `QuietBundlesRepair` and
  `CleanProcessesAgree` of the bundle.  A process is clean as long as the tree
  it imported is the one a quiet build installed; the invariant says that table,
  records, extension and directory agree at all moments when an import would be
  clean, and that what a clean process has loaded agrees with them.
- `WaveProofs`: for any number of waves, stages and tiles of a route, and any
  program whose text is structured, waves meet at the same barriers
  (`WavesMeet`) and the workgroup is never stuck (`SomeWaveMoves`).
  `BarriersAgree` only speaks of waves that have arrived; the invariant
  `Together` says where each of them is going: `Meets` is the barrier, or the
  end, that a walk of the text comes to from a place with its stage and tile,
  and it is the same for all waves.  A wave that counts, begins a tile or
  branches on a counter moves along its walk, so `Meets` stays (`MeetsNext`).
  Where waves part, on decoding or on rows in the tile, both ways lead to the
  same barrier (`Rejoins`, by descent to a least counterexample).
  `IsStructured` in `WaveMachine` is the hypothesis, and each part of it is
  needed: targets lie in the text, all waves have the same number of tiles,
  and what a divergent branch may skip holds neither a barrier nor a count and
  is left at one end only.  It is a statement about text, without steps:
  `MCAssemblyBodies` has it as an assumption about every deployed program, so
  that for those the theorems stand without it at any number of waves and
  tiles; the run has two waves and two or three stages.  Nor does the number of
  stages matter, from two on: the text depends on it only in whether a double-buffered loop
  is there (`stages > 1` in `DecodedPipeline`), and the hypotheses on it only
  in whether one, two or more stages are left.

  `NoWavesRace` says the same of the LDS: no wave stores to a cell another one
  stores to or reads unless a barrier parts them, loads and stores included
  that a barrier did not wait for.  Its hypothesis `Zoned` is again about text
  (`IsZoning`): the points a wave may come to, with whether two stages or more,
  one or none are left, fall into zones that are left at barriers only; in no
  zone is a place one wave stores to read from another wave's share; and before
  each barrier a wait for all LDS operations follows the last of them.  A
  barrier in a loop parts the points of its last round from those of the others,
  which is why a point carries what is left.  The invariant `ZoneInv` has all
  waves in one zone, what each has touched since its last barrier inside of
  that zone and its own share, and nothing outstanding where the barrier needs
  it; `WavesMeet` puts the waves into one zone behind a barrier again.
  Nothing in the argument uses the order the waves take turns in, and
  `RaceFreeInAnyOrder` states it without.  `MCAssemblyBodies` computes zones of
  each deployed body and assumes that they are such: of 57 programs all but
  four, the double-buffered Q4_K and Q5_K bodies.  Those store into the buffer
  that the address registers select, not the text, so zones of text cannot tell
  its halves apart and their races stay with the run.

  `NoProductMissing` is about the sums: before a wave stores its tile, each
  fragment with a row of the route in it has taken as many products as the
  contraction has (`FragmentsMatch` says that the n-th is the n-th of its
  order).  Its hypothesis `Tallied` is text again.  `IsBeginning` says where in
  it a wave may be that has begun no tile, or has another one before it, so that
  nothing is stored before the first tile and none begun behind the last.
  `IsTallying` gives each point a tally: by how much the products taken on any
  walk to it, from where a tile was begun, exceed those of the stages counted.
  Branches keep it, a count takes a stage's products off, and at a store it
  makes up for the stages not counted; stages are counted in steps that divide
  their number, so a loop ends with the last one and not behind it.  Tallies are
  asked of the points a wave with rows may come to only, so a wave without rows
  may jump over the products (`suppress`).  The invariant `SumInv` says of each
  wave that its sums are what the stage it counts and the tally of its point
  say.  `MCAssemblyBodies` computes a tally of each of the 57 deployed programs
  and assumes that it is one.

Two changes to models came from proofs.  Two arms of `Plan` applied to a pair
record with row tasks, and TLA+ leaves open which one is taken (TLC takes the
first); the arms are disjoint now.  `IsPolicy` did not say that the tail
threshold and the tail height of a policy are natural numbers, as
`grouped_mmq_bwd_spec.py` demands of both.

Only model-checked: liveness under fairness and everything with ENABLED, which
TLAPS does not do, among it that the kernels of `RoutedOutput` end; of the
assembly bodies (`WaveMachine`) the properties about the contents of registers
(`OperandsReady`, `FragmentsMatch`), which hold because of the instructions of
each catalogued program, so that a proof for every specification would be a
proof about the generator's text; and `NoLdsRace` of the bodies with two LDS
buffers.
No module declares a recursive operator.

## Where code and documents disagree

Three violated runs show a disagreement; `PROJECT.json` quotes the lines.

- `docs/kernel_bundle.md` says a bank with fewer experts serves the same
  record; the emitted guard compares the count for equality and such a launch
  returns without storing (`smaller_bank`).
- The comment in `grouped_mmq_backward_pair_staged.cuh` that one barrier per
  stage separates decode and multiply fails for serial walks when the stage
  count is one more than a multiple of the tile count: the next row tile's
  first stage goes into the tile slower waves still multiply (`staged_m256`).

- `docs/experiment_ggtensile_mmq_bwd_q6_k.md:56` says of the corrected
  pipeline source that temporaries and address state were kept separate from
  the decoder payload registers, and does not name the scale.  With
  one packed row a lane and a swizzled double-buffered tile
  `_emit_pipeline_lds_read_addresses` still takes the register of the decoded
  scale (`pipelined_q6`).  Validation admits the specification, no catalog
  deploys it.

Others follow from the models without a run of their own.  The properties that
pass are stated so that they do not claim what these sentences do.

- `tools/mmq_bundle_wrapper_source.py:607` returns for pipelined split controls
  before the checks at 662 and 667 that are meant for them.  `Rendered` leaves
  out the controls those checks name; with exact bound 0 every slice is empty
  and the gradient is zero.  No control of the catalog is of this kind.
- `docs/kernel_bundle.md:74`, "Every failure occurs before quantization, task
  setup, or multiply launch": the second kernel's code object is loaded behind
  the launch of the first, so `LaunchFails` may raise with a kernel queued.
- `docs/kernel_bundle.md:61`, "C++ is authoritative for ... exact row-task
  ownership": `grouped_mmq_grad_input_launch_cuda` and the paired one launch
  whatever record they find with serial arguments; the choice rests on the
  table of the Python layer (`Plan`), and a table that omits such a record is
  the one disagreement `FormsMatch` has to except (`Omitted`).
- `docs/kernel_bundle.md:167`, `--check` "exits nonzero when the inventory,
  stamp, compiler, or source inputs are stale": not after an edit that is
  undone during a build (versions in the model only grow), nor after two
  builders of different recipes shared a wrapper (`mixed`).  The installation
  it calls atomic has no directory between its renames (`MoveAway`).
- `tools/mmq_deployment_spec.py:527`, "the generated module cannot drift from
  the C++ table": a standalone build renews the records under the compiled
  extension, hence `clean` in `CleanProcessAgrees`.
- `docs/kernel_bundle.md:126`, "Installs the complete set transactionally": a
  kill inside `_install` leaves table, records and directory of two builds.
- `docs/kernel_bundle.md:128`, "A failed build removes its staging directory":
  not when `_install` raises (`RenameRaises`, `WriteRaises`).
- Specifications that `validate` admits and whose rendered body reads or writes
  the wrong registers, none of them deployed.  `Valid...` in `BackwardPlan` is what the
  code validates, `DenseCatalog` and `RoutedCatalog` list specifications outside of these:
  a Q5_K tile of a width other than 8 with `LanePair` grouping
  (`_emit_q5_k_global_reads`); an unswizzled `Double` tile of more than two column
  fragments; `LanePair` with `Double`, where `_emit_decoded_b_pipeline` never
  emits the grouping; one packed row, depth 64 and prefetched activations
  together; more than four rows a lane; `Double` tiles swizzled by 4 or 16.
- The fixture `iq2_s_m128_n64_dual_lds_global_codebook`
  (`tests/ggtensile/test_grouped_mmq_bwd_pair.py:785`) writes two registers beyond
  its temporaries, v121 and v122 of an allocation of 121: the count in
  `mmq_bwd_spec.py:113` does not include the lookups of a global codebook in a
  dual LDS tile.  `RoutedTested` leaves it out.
- `q8_reopening_neighbors` proposes compact layouts with a padded B, which the
  validation of the layout rejects; `Q8Pads` leaves them out.
- `docs/kernel_bundle.md:70` says "exactly 256 physical experts and 1-256 route
  entries", `csrc/mmq_grouped_validation.cuh:14` admits more.

## What is not modelled

- Numbers: quantized decode, WMMA and rounding.  A multiplication is the set of
  terms it sums or the expert it used; the numeric tests compare values.
- Of the emitted bodies: encodings, dual issue, the arithmetic of addresses
  (that an address is of the row, stage and offset its role says), wave priorities,
  scalar registers beyond those named above, masks of partial columns.
- The grouped and paired forward bodies; their routes are in `AssemblyRoutes`.
- Padding of a decoded forward tile: its validation rejects it
  (`mmq_fwd_spec.py:1922`).  The staging policy `DoubleStage` likewise.
- Shapes, dtypes, alignment and strides of tensors; a check of them is one
  refusal.  32-bit products are not given a width.
- Autograd: saved tensors and missing cotangents.
- The choice of a record by catalogs, their JSON, identities and campaigns.
- Unpipelined backward tiles of the HIP controls (`csrc/ck/mmq_backward.cuh`,
  `grouped_mmq_backward_tiled_fixed.cuh`).
- The copy of artifacts into a wheel's build tree, artifact sets that change
  between builds, and the inspection of code objects.
- Vendored code, benches, development checkers, direct launchers of controls.

## Plan

Done: routed problems, setup, multiply, serial and assembly routes on one grid;
stage loops; loader; split contraction; calls; builds; eight proof modules; the
wave machine with all backward bodies and all dense forward bodies the catalogs
deploy.

Next, in this order:

1. The grouped and paired forward bodies (Q2_K, Q3_K, IQ2_S, IQ2_XXS, decoded
   LDS), as programs of `WaveMachine`.
2. `DeploymentResolution`: catalogs to kernels to records to the host lookup;
   one record per key, indices in range, both generated tables from one
   resolution.
3. Proofs: zones that know which LDS buffer is written, for `NoLdsRace` of the
   double-buffered bodies; a text-only condition for `FragmentsMatch`, from what
   registers hold on each walk as `IsTallying` does for the sums.
4. The remaining backward bodies as instances of the stage loop, with their
   own guards.
