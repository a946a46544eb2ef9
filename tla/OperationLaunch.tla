---------------------------- MODULE OperationLaunch ----------------------------
(***************************************************************************)
(* The launches of one public call.  The Python layer allocates every      *)
(* buffer without initializing it and calls one or two private operations; *)
(* a private operation validates, then launches its kernels one by one,    *)
(* and each of those launches may still fail.  The launches of a call meet *)
(* those of other calls in a stream and in the blocks the caching          *)
(* allocator hands out again as soon as Python drops a tensor.             *)
(***************************************************************************)
EXTENDS Naturals, Sequences, FiniteSets

CONSTANTS
    Calls,        \* public calls, each of a host thread of its own
    Streams,      \* HIP streams
    Blocks,       \* memory blocks of the caching allocator
    Sizes,        \* rows of a row task, slices of a split contraction
    Rows,         \* rows of the batch
    RouteEntries, \* entries of its route bank
    Workloads,    \* what the calls ask for, and what either layer knows of it
    Free, Nobody, Garbage, Stale

(* The tensors a call may allocate. *)
TensorNames ==
    {"workspace", "tasks", "partials", "output", "first_output", "second_output"}

-----------------------------------------------------------------------------
(* The deployment records of the native layer, by what they make a call    *)
(* do.  The size is split_slices of an ordinary backward record and        *)
(* row_task_rows of a grouped one.                                         *)
Record(families, ownerships, sizes) ==
    [family : families, ownership : ownerships, size : sizes]

Records ==
    Record({"Forward", "GroupedForwardPair", "GroupedBackward"}, {"Serial"}, {0})
        \cup Record({"Backward"}, {"Serial"}, {0} \cup Sizes)
        \cup Record({"GroupedForwardPair", "GroupedBackward"}, {"DeviceRowTasks"}, Sizes)
        \cup Record({"GroupedForwardPair"}, {"PairSingle"}, {0})

(* The Python layer has tables of its own for these sizes, 0 where a key is *)
(* missing.                                                                *)
Deployments == [record : Records, tabled : {0} \cup Sizes, stream : Streams]

ASSUME LaunchAssumption ==
    /\ Calls # {} /\ Streams # {}
    /\ Sizes \subseteq Nat \ {0} /\ Rows \in Nat \ {0} /\ RouteEntries \in Nat \ {0}
    /\ Free \notin Calls \X TensorNames
    /\ Nobody \notin Streams
    /\ {Garbage, Stale} \cap (Calls \X TensorNames) = {} /\ Garbage # Stale

ASSUME WorkloadsAssumption == Workloads \subseteq [Calls -> Deployments]

HasRowTasks(r) == r.ownership = "DeviceRowTasks" /\ r.size # 0

(* How the body of the record wants to be launched.                        *)
FormOf(r) == IF r.family = "Backward" /\ r.size # 0 THEN "Split" ELSE r.ownership

(* What Python allocates, by the operation and the size in its tables.     *)
Outputs(k) ==
    IF k.family = "GroupedForwardPair" THEN {"first_output", "second_output"} ELSE {"output"}

Scratch(k) ==
    (IF k.family \in {"Forward", "GroupedForwardPair"} THEN {"workspace"} ELSE {})
        \cup (IF k.family \in {"GroupedForwardPair", "GroupedBackward"} /\ k.size # 0
              THEN {"tasks"} ELSE {})
        \cup (IF k.family = "Backward" /\ k.size # 0 THEN {"partials"} ELSE {})

(* Fault: the partials are never reduced. *)
PlanWithoutReduce(k) ==
    CASE k.family = "Forward" -> <<"forward">>
      [] k.family = "GroupedForwardPair" -> <<"pair_forward">>
      [] k.family = "Backward" /\ k.size # 0 -> <<"split">>
      [] k.family = "GroupedBackward" /\ k.size # 0 -> <<"row_task_backward">>
      [] OTHER -> <<"backward">>

(* Fault: the tables of the Python layer are not looked at. *)
PlanWithoutTables(k) ==
    CASE k.family = "Forward" -> <<"forward">>
      [] k.family = "GroupedForwardPair" -> <<"pair_forward">>
      [] OTHER -> <<"backward">>

(* The private operations a public one calls, by the Python tables.        *)
Plan(k) ==
    CASE k.family = "Forward" -> <<"forward">>
      [] k.family = "GroupedForwardPair" -> <<"pair_forward">>
      [] k.family = "Backward" /\ k.size # 0 -> <<"split", "split_reduce">>
      [] k.family = "GroupedBackward" /\ k.size # 0 -> <<"row_task_backward">>
      [] OTHER -> <<"backward">>

Kernel(name, reads, writes, form) ==
    [name |-> name, reads |-> reads, writes |-> writes, form |-> form]

Quantize == Kernel("quantize", {}, {"workspace"}, "None")
Setup == Kernel("setup", {}, {"tasks"}, "None")
Body(reads, writes, form) == Kernel("body", reads, writes, form)

PairBodies(r) ==
    CASE HasRowTasks(r) -> <<Setup, Body({"workspace", "tasks"}, Outputs(r), "DeviceRowTasks")>>
      [] r.ownership = "PairSingle" -> <<Body({"workspace"}, {"first_output"}, "PairSingle"),
                                         Body({"workspace"}, {"second_output"}, "PairSingle")>>
      [] OTHER -> <<Body({"workspace"}, Outputs(r), "Serial")>>

(* Fault: the task bank is built behind the kernel that reads it. *)
LaunchesSetupLast(op, r) ==
    CASE op = "forward" -> <<Quantize, Body({"workspace"}, {"output"}, "Serial")>>
      [] op = "pair_forward" -> <<Quantize>> \o PairBodies(r)
      [] op = "row_task_backward" -> <<Body({"tasks"}, {"output"}, "DeviceRowTasks"), Setup>>
      [] op = "split" -> <<Body({}, {"partials"}, "Split")>>
      [] op = "split_reduce" -> <<Kernel("reduce", {"partials"}, {"output"}, "None")>>
      [] OTHER -> <<Body({}, {"output"}, "Serial")>>

(* The kernels a private operation launches, in this order.                *)
Launches(op, r) ==
    CASE op = "forward" -> <<Quantize, Body({"workspace"}, {"output"}, "Serial")>>
      [] op = "pair_forward" -> <<Quantize>> \o PairBodies(r)
      [] op = "row_task_backward" -> <<Setup, Body({"tasks"}, {"output"}, "DeviceRowTasks")>>
      [] op = "split" -> <<Body({}, {"partials"}, "Split")>>
      [] op = "split_reduce" -> <<Kernel("reduce", {"partials"}, {"output"}, "None")>>
      [] OTHER -> <<Body({}, {"output"}, "Serial")>>

(* The slots of a task bank for row tasks of this size. *)
Capacity(size) == IF size = 0 THEN 0 ELSE (Rows + size - 1) \div size + RouteEntries

(* The checks a private operation makes of the record it finds, and of the *)
(* lengths of the buffers that were allocated for another size: partials,  *)
(* the task count and the task bank.                                       *)
Accepts(op, r, size) ==
    /\ op = "row_task_backward" => HasRowTasks(r) /\ Capacity(size) = Capacity(r.size)
    /\ op = "pair_forward" =>
         (size = 0 <=> r.size = 0) /\ Capacity(size) = Capacity(r.size)
    /\ op = "split" => r.size # 0 /\ size = r.size

-----------------------------------------------------------------------------
VARIABLES
    record,   \* the exact deployment of the call
    tabled,   \* the size the Python tables have for its key
    stream,   \* the current stream of the thread that makes it
    pc,       \* where the call is
    ops,      \* private operations the Python layer has yet to call
    pending,  \* kernels the private operation has yet to launch
    bodies,   \* forms in which bodies have been launched
    owner,    \* call and tensor a block belongs to, or Free
    pool,     \* stream whose pool a block is in, or Nobody
    content,  \* what was last written to a block
    queue     \* launched kernels of a stream

calls == <<record, tabled, stream>>
host == <<calls, pc, ops, pending, bodies>>
memory == <<owner, pool>>
vars == <<host, memory, content, queue>>

Init ==
    /\ \E load \in Workloads :
         /\ record = [c \in Calls |-> load[c].record]
         /\ tabled = [c \in Calls |-> load[c].tabled]
         /\ stream = [c \in Calls |-> load[c].stream]
    /\ pc = [c \in Calls |-> "called"]
    /\ ops = [c \in Calls |-> <<>>]
    /\ pending = [c \in Calls |-> <<>>]
    /\ bodies = [c \in Calls |-> {}]
    /\ owner = [b \in Blocks |-> Free]
    /\ pool = [b \in Blocks |-> Nobody]
    /\ content = [b \in Blocks |-> Garbage]
    /\ queue = [s \in Streams |-> <<>>]

(* The key of the call with the size the Python layer has for it.          *)
Lookup(c) == [family |-> record[c].family, size |-> tabled[c]]

Tensors(c) == Scratch(Lookup(c)) \cup Outputs(record[c])
Held(c) == {b \in Blocks : owner[b] # Free /\ owner[b][1] = c}
BlockOf(c, tensor) == CHOOSE b \in Blocks : owner[b] = <<c, tensor>>

Drop(blocks) == owner' = [b \in Blocks |-> IF b \in blocks THEN Free ELSE owner[b]]

(* An exception drops every tensor the call has allocated.                 *)
Raise(c) ==
    /\ pc' = [pc EXCEPT ![c] = "raised"]
    /\ Drop(Held(c))

(* torch.empty for the output and the scratch tensors: blocks of the       *)
(* current stream's pool, with what an earlier tensor left in them.        *)
Place(c) ==
    \E place \in [Tensors(c) -> {b \in Blocks : owner[b] = Free
                                                /\ pool[b] \in {Nobody, stream[c]}}] :
        /\ \A t, u \in Tensors(c) : place[t] = place[u] => t = u
        /\ owner' = [b \in Blocks |->
                        IF \E t \in Tensors(c) : place[t] = b
                        THEN <<c, CHOOSE t \in Tensors(c) : place[t] = b>> ELSE owner[b]]
        /\ pool' = [b \in Blocks |->
                        IF \E t \in Tensors(c) : place[t] = b THEN stream[c] ELSE pool[b]]

Allocate(c) ==
    /\ pc[c] = "called"
    /\ Place(c)
    /\ pc' = [pc EXCEPT ![c] = "python"]
    /\ ops' = [ops EXCEPT ![c] = Plan(Lookup(c))]
    /\ UNCHANGED <<calls, pending, bodies, content, queue>>

OutOfMemory(c) ==
    /\ pc[c] = "called"
    /\ Raise(c)
    /\ UNCHANGED <<calls, ops, pending, bodies, pool, content, queue>>

(* A private operation validates shapes, buffers and the record.           *)
Enter(c) ==
    /\ pc[c] = "python"
    /\ ops[c] # <<>>
    /\ Accepts(Head(ops[c]), record[c], tabled[c])
    /\ pending' = [pending EXCEPT ![c] = Launches(Head(ops[c]), record[c])]
    /\ ops' = [ops EXCEPT ![c] = Tail(ops[c])]
    /\ pc' = [pc EXCEPT ![c] = "native"]
    /\ UNCHANGED <<calls, bodies, memory, content, queue>>

(* It refuses what it finds invalid, a record of another kind among others. *)
Refuse(c) ==
    /\ pc[c] = "python"
    /\ ops[c] # <<>>
    /\ Raise(c)
    /\ UNCHANGED <<calls, ops, pending, bodies, pool, content, queue>>

(* A body gets the arguments its code object takes.                        *)
Fits(kernel, r) == kernel.name = "body" => kernel.form = FormOf(r)

Enqueued(c, kernel) ==
    [call |-> c, reads |-> kernel.reads, writes |-> kernel.writes, fits |-> Fits(kernel, record[c]),
     block |-> [t \in kernel.reads \cup kernel.writes |-> BlockOf(c, t)]]

(* Fault: the quantization is launched in the legacy stream. *)
LaunchQuantizeElsewhere(c) ==
    /\ pc[c] = "native"
    /\ pending[c] # <<>>
    /\ \E s \in IF Head(pending[c]).name = "quantize" THEN Streams ELSE {stream[c]} :
         queue' = [queue EXCEPT ![s] = Append(@, Enqueued(c, Head(pending[c])))]
    /\ bodies' = [bodies EXCEPT ![c] =
                     IF Head(pending[c]).name = "body" THEN @ \cup {Head(pending[c]).form} ELSE @]
    /\ pending' = [pending EXCEPT ![c] = Tail(@)]
    /\ UNCHANGED <<calls, pc, ops, memory, content>>

(* Each kernel is resolved and launched on its own.                        *)
Launch(c) ==
    /\ pc[c] = "native"
    /\ pending[c] # <<>>
    /\ queue' = [queue EXCEPT ![stream[c]] = Append(@, Enqueued(c, Head(pending[c])))]
    /\ bodies' = [bodies EXCEPT ![c] =
                     IF Head(pending[c]).name = "body" THEN @ \cup {Head(pending[c]).form} ELSE @]
    /\ pending' = [pending EXCEPT ![c] = Tail(@)]
    /\ UNCHANGED <<calls, pc, ops, memory, content>>

(* Fault: the tensors of a failed call stay allocated. *)
LaunchFailsHolding(c) ==
    /\ pc[c] = "native"
    /\ pending[c] # <<>>
    /\ pc' = [pc EXCEPT ![c] = "raised"]
    /\ UNCHANGED <<calls, ops, pending, bodies, memory, content, queue>>

(* A code object is missing, does not load, or the launch is refused.      *)
LaunchFails(c) ==
    /\ pc[c] = "native"
    /\ pending[c] # <<>>
    /\ Raise(c)
    /\ UNCHANGED <<calls, ops, pending, bodies, pool, content, queue>>

Leave(c) ==
    /\ pc[c] = "native"
    /\ pending[c] = <<>>
    /\ pc' = [pc EXCEPT ![c] = "python"]
    /\ UNCHANGED <<calls, ops, pending, bodies, memory, content, queue>>

(* The scratch tensors go out of scope, long before the kernels have run.  *)
Return(c) ==
    /\ pc[c] = "python"
    /\ ops[c] = <<>>
    /\ pc' = [pc EXCEPT ![c] = "returned"]
    /\ Drop({b \in Held(c) : owner[b][2] \in Scratch(Lookup(c))})
    /\ UNCHANGED <<calls, ops, pending, bodies, pool, content, queue>>

(* A stream runs its kernels in order.  What a kernel computes from a      *)
(* block that does not hold its own call's data is Stale.  A body that     *)
(* takes its arguments for others may leave anything anywhere.             *)
Run(s) ==
    /\ queue[s] # <<>>
    /\ LET k == Head(queue[s])
           sound == \A t \in k.reads : content[k.block[t]] = <<k.call, t>>
       IN
       \/ /\ k.fits
          /\ content' = [b \in Blocks |->
                            IF \E t \in k.writes : k.block[t] = b
                            THEN IF sound THEN <<k.call, CHOOSE t \in k.writes : k.block[t] = b>>
                                          ELSE Stale
                            ELSE content[b]]
       \/ /\ ~ k.fits
          /\ \E spoiled \in SUBSET Blocks :
               content' = [b \in Blocks |-> IF b \in spoiled THEN Stale ELSE content[b]]
    /\ queue' = [queue EXCEPT ![s] = Tail(queue[s])]
    /\ UNCHANGED <<host, memory>>

HostStep(c) ==
    \/ Allocate(c) \/ OutOfMemory(c) \/ Enter(c) \/ Refuse(c)
    \/ Launch(c) \/ LaunchFails(c) \/ Leave(c) \/ Return(c)

Next == (\E c \in Calls : HostStep(c)) \/ (\E s \in Streams : Run(s))

(* Host threads are scheduled and launched kernels run.                    *)
Spec ==
    /\ Init /\ [][Next]_vars
    /\ \A c \in Calls : WF_vars(HostStep(c))
    /\ \A s \in Streams : WF_vars(Run(s))

-----------------------------------------------------------------------------
(* Type invariant of a call: only a call under way holds scratch tensors,  *)
(* and one that raised holds nothing.                                      *)
TypeOK ==
    /\ record \in [Calls -> Records] /\ tabled \in [Calls -> {0} \cup Sizes]
    /\ stream \in [Calls -> Streams]
    /\ pc \in [Calls -> {"called", "python", "native", "returned", "raised"}]
    /\ pool \in [Blocks -> Streams \cup {Nobody}]
    /\ \A b \in Blocks : content[b] \in {Garbage, Stale} \cup (Calls \X TensorNames)
    /\ \A c \in Calls :
         {owner[b][2] : b \in Held(c)} =
             CASE pc[c] \in {"python", "native"} -> Tensors(c)
               [] pc[c] = "returned" -> Outputs(record[c])
               [] OTHER -> {}

(* A call has launched a body with arguments that are not those its record *)
(* was deployed with.                                                      *)
Misfit(c) == bodies[c] \ {FormOf(record[c])} # {}
AllFit == \A c \in Calls : ~ Misfit(c)

(* The tables have no entry for a backward record that has a size.         *)
Omitted(c) ==
    record[c].family \in {"Backward", "GroupedBackward"} /\ record[c].size # 0 /\ tabled[c] = 0

(* Whatever the two copies of the sizes say, every body is launched with   *)
(* the arguments its record was deployed with, or the call raises, but for *)
(* one disagreement that neither layer notices: tables that omit a backward *)
(* record.                                                                 *)
FormsMatch == \A c \in Calls : Misfit(c) => Omitted(c)

(* No kernel computes from a buffer nobody initialized, or from what       *)
(* another call left in it or wrote to it meanwhile: streams, allocator    *)
(* and launch order together keep scratch tensors apart although Python    *)
(* drops them before they are used, and although a call may fail with      *)
(* kernels in the queue, or be refused over buffers of another size.       *)
NothingStale == AllFit => \A b \in Blocks : content[b] # Stale

(* When the stream of a call that has returned is idle, all outputs of the *)
(* call hold its result, and nobody else has written there.                *)
ReturnedIsComplete ==
    AllFit =>
        \A c \in Calls :
            pc[c] = "returned" /\ queue[stream[c]] = <<>> =>
                \A t \in Outputs(record[c]) : content[BlockOf(c, t)] = <<c, t>>

(* Every call returns or raises, and a result that is returned is computed *)
(* and stays.                                                              *)
CallsDeliver ==
    <>[](AllFit =>
            \A c \in Calls :
               \/ pc[c] = "raised"
               \/ /\ pc[c] = "returned"
                  /\ \A t \in Outputs(record[c]) : content[BlockOf(c, t)] = <<c, t>>)
=============================================================================
