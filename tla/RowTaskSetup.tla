----------------------------- MODULE RowTaskSetup -----------------------------
(***************************************************************************)
(* The device row-task setup kernel, grouped_mmq_build_row_tasks_body: one *)
(* workgroup of `Lanes` threads scans the route entries in chunks of Lanes.*)
(* Each thread counts the row tiles of its own entry, the workgroup runs a *)
(* doubling-stride inclusive scan over LDS, and each thread writes its     *)
(* tasks at the slots the scan assigns it.  Threads interleave freely      *)
(* between two barriers; a barrier opens when every lane has reached it.   *)
(***************************************************************************)
EXTENDS RoutedProblem

CONSTANT Lanes   \* threads of the setup workgroup, 256 in the launch

ASSUME LanesAssumption == Lanes \in Nat \ {0}

VARIABLES
    expert_indices,    \* device tensor, constant during the kernel
    expert_offsets,    \* device tensor, constant during the kernel
    phase,             \* the code segment between two barriers
    arrived,           \* lanes that wait at the segment's closing barrier
    chunk,             \* first route entry of this pass
    stride,            \* `offset` of the scan loop
    group_tasks,       \* per lane register
    cumulative_tasks,  \* LDS array of the scan
    add,               \* per lane register of the scan
    task_base,         \* per lane register, tasks of the finished passes
    stores,            \* every store to the task bank so far
    task_count         \* device word, -1 while it is uninitialized

tensors == <<expert_indices, expert_offsets>>
loop == <<chunk, stride>>
vars == <<tensors, phase, arrived, loop, group_tasks, cumulative_tasks, add,
          task_base, stores, task_count>>

LaneIds == 0 .. Lanes - 1

Segments == {"load", "gather", "accumulate", "emit", "count", "done"}

Tasks(g) == GroupTasks(expert_indices, expert_offsets, g)
Begin(g) == RowBegin(expert_offsets, g)

AllTasks == TaskSet(expert_indices, expert_offsets)

(* The bank entry of the t-th task of group g when it is stored at `slot`. *)
TaskEntry(slot, g, t) ==
    [slot |-> slot, expert |-> expert_indices[g],
     start |-> Begin(g) + t * RowTile,
     end |-> SmallerOf(Begin(g) + t * RowTile + RowTile, expert_offsets[g])]

Init ==
    /\ expert_indices \in ExpertBanks
    /\ expert_offsets \in OffsetBanks
    /\ phase = "load"
    /\ arrived = {}
    /\ chunk = 0
    /\ stride = 1
    /\ group_tasks = [s \in LaneIds |-> 0]
    /\ cumulative_tasks = [s \in LaneIds |-> 0]
    /\ add = [s \in LaneIds |-> 0]
    /\ task_base = [s \in LaneIds |-> 0]
    /\ stores = {}
    /\ task_count = -1

(* A lane runs its share of segment p and waits at the barrier behind it.  *)
Run(p, s) ==
    /\ phase = p
    /\ s \notin arrived
    /\ arrived' = arrived \cup {s}
    /\ UNCHANGED <<tensors, phase, loop>>

Load(s) ==
    /\ Run("load", s)
    /\ group_tasks' = [group_tasks EXCEPT ![s] = Tasks(chunk + s)]
    /\ cumulative_tasks' = [cumulative_tasks EXCEPT ![s] = Tasks(chunk + s)]
    /\ UNCHANGED <<add, task_base, stores, task_count>>

Gather(s) ==
    /\ Run("gather", s)
    /\ add' = [add EXCEPT ![s] =
                 IF s >= stride THEN cumulative_tasks[s - stride] ELSE 0]
    /\ UNCHANGED <<group_tasks, cumulative_tasks, task_base, stores, task_count>>

Accumulate(s) ==
    /\ Run("accumulate", s)
    /\ cumulative_tasks' = [cumulative_tasks EXCEPT ![s] = @ + add[s]]
    /\ UNCHANGED <<group_tasks, add, task_base, stores, task_count>>

(* Fault: a pass forgets the tasks of the passes before it. *)
TaskBeginOfPass(s) == IF s = 0 THEN 0 ELSE cumulative_tasks[s - 1]

TaskBegin(s) ==
    task_base[s] + IF s = 0 THEN 0 ELSE cumulative_tasks[s - 1]

Emit(s) ==
    /\ Run("emit", s)
    /\ stores' =
         IF chunk + s < Groups
         THEN stores \cup {TaskEntry(TaskBegin(s) + t, chunk + s, t) :
                             t \in 0 .. group_tasks[s] - 1}
         ELSE stores
    /\ task_base' = [task_base EXCEPT ![s] = @ + cumulative_tasks[Lanes - 1]]
    /\ UNCHANGED <<group_tasks, cumulative_tasks, add, task_count>>

(* Fault: only the last pass is counted. *)
CountLastPass(s) ==
    /\ Run("count", s)
    /\ task_count' = IF s = 0 THEN cumulative_tasks[Lanes - 1] ELSE task_count
    /\ UNCHANGED <<group_tasks, cumulative_tasks, add, task_base, stores>>

Count(s) ==
    /\ Run("count", s)
    /\ task_count' = IF s = 0 THEN task_base[0] ELSE task_count
    /\ UNCHANGED <<group_tasks, cumulative_tasks, add, task_base, stores>>

(* __syncthreads, or the end of the kernel: every lane has arrived.        *)
Cross(p, next) ==
    /\ phase = p
    /\ arrived = LaneIds
    /\ arrived' = {}
    /\ phase' = next
    /\ UNCHANGED <<tensors, group_tasks, cumulative_tasks, add, task_base,
                   stores, task_count>>

LoadBarrier ==
    /\ Cross("load", IF 1 < Lanes THEN "gather" ELSE "emit")
    /\ stride' = 1
    /\ UNCHANGED chunk

GatherBarrier ==
    /\ Cross("gather", "accumulate")
    /\ UNCHANGED loop

AccumulateBarrier ==
    /\ Cross("accumulate", IF 2 * stride < Lanes THEN "gather" ELSE "emit")
    /\ stride' = 2 * stride
    /\ UNCHANGED chunk

(* Fault: a pass of one route entry is dropped. *)
EmitBarrierOneShort ==
    /\ Cross("emit", IF chunk + Lanes < Groups - 1 THEN "load" ELSE "count")
    /\ chunk' = chunk + Lanes
    /\ UNCHANGED stride

EmitBarrier ==
    /\ Cross("emit", IF chunk + Lanes < Groups THEN "load" ELSE "count")
    /\ chunk' = chunk + Lanes
    /\ UNCHANGED stride

Retire ==
    /\ Cross("count", "done")
    /\ UNCHANGED loop

LaneStep(s) == Load(s) \/ Gather(s) \/ Accumulate(s) \/ Emit(s) \/ Count(s)

Barrier ==
    LoadBarrier \/ GatherBarrier \/ AccumulateBarrier \/ EmitBarrier \/ Retire

Next == Barrier \/ \E s \in LaneIds : LaneStep(s)

(* The hardware schedules every resident wave, and a full barrier opens.   *)
Spec == Init /\ [][Next]_vars /\ WF_vars(Next)

-----------------------------------------------------------------------------
(* Type invariant: every stored task names an expert of the bank and rows  *)
(* of the activation tensor.                                               *)
TypeOK ==
    /\ expert_indices \in ExpertBanks
    /\ expert_offsets \in OffsetBanks
    /\ phase \in Segments
    /\ arrived \in SUBSET LaneIds
    /\ chunk \in Nat
    /\ stride \in Nat \ {0}
    /\ group_tasks \in [LaneIds -> Nat]
    /\ cumulative_tasks \in [LaneIds -> Int]
    /\ add \in [LaneIds -> Int]
    /\ task_base \in [LaneIds -> Int]
    /\ stores \in SUBSET [slot : Nat, expert : 0 .. NumExperts - 1,
                          start : 0 .. Rows - 1, end : 1 .. Rows]
    /\ task_count \in Nat \cup {-1}

(* No store of the setup kernel lands outside the bank its caller sized    *)
(* with paired_row_task_capacity.                                          *)
WithinCapacity == \A e \in stores : e.slot < Capacity

(* Two lanes, or two passes of one lane, never store to the same slot.     *)
SlotsDisjoint == \A e, f \in stores : e.slot = f.slot => e = f

(* Once the count is published it covers exactly the slots that hold a     *)
(* task: the multiply reads no slot torch.empty left uninitialized, and no *)
(* stored task is beyond the count.                                        *)
CountCoversBank ==
    task_count # -1 => {e.slot : e \in stores} = 0 .. task_count - 1

(* When the kernel retires the bank holds each row tile of each valid      *)
(* route entry, and nothing else.                                          *)
BankComplete ==
    phase = "done" =>
        {[expert |-> e.expert, start |-> e.start, end |-> e.end] : e \in stores}
          = {[expert |-> TaskEntry(0, gt[1], gt[2]).expert,
              start |-> TaskEntry(0, gt[1], gt[2]).start,
              end |-> TaskEntry(0, gt[1], gt[2]).end] : gt \in AllTasks}
=============================================================================
