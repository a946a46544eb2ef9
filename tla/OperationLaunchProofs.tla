--------------------------- MODULE OperationLaunchProofs ---------------------------
(***************************************************************************)
(* As long as bodies get their own arguments, no kernel of a public call   *)
(* reads a buffer that does not hold data of the same call, for any number *)
(* of calls, streams and memory blocks.                                    *)
(* The invariant follows the blocks, not the tensors: what a block will    *)
(* hold when the stream has come to a kernel is decided by the kernels in  *)
(* front of it in that stream, because a block never changes its stream.   *)
(***************************************************************************)
EXTENDS OperationLaunch, TLAPS

Forms == {"None", "Serial", "DeviceRowTasks", "PairSingle", "Split"}
Kernels == [name : {"quantize", "setup", "body", "reduce"}, form : Forms,
            reads : SUBSET TensorNames, writes : SUBSET TensorNames]

(* The key of a call with the size the Python tables have for it, and       *)
(* tables that omit the record.                                            *)
Key(r, size) == [family |-> r.family, size |-> size]
Loose(key, r) ==
    key.family \in {"Backward", "GroupedBackward"} /\ r.size # 0 /\ key.size = 0
Formed(form, key, r) == form = FormOf(r) \/ Loose(key, r)

(* What a private operation launches: kernels on the tensors of the call,  *)
(* that read what is in `given` or a kernel before them has written, that  *)
(* write all of `results`, and whose bodies are of the deployed form.      *)
Suits(launches, key, r, given, results) ==
    /\ launches \in Seq(Kernels)
    /\ \A i \in 1 .. Len(launches) :
         /\ launches[i].reads \cup launches[i].writes \subseteq Scratch(key) \cup Outputs(key)
         /\ \A t \in launches[i].reads :
              t \in given \/ \E j \in 1 .. i - 1 : t \in launches[j].writes
         /\ launches[i].name = "body" => Formed(launches[i].form, key, r)
    /\ \A t \in results : \E i \in 1 .. Len(launches) : t \in launches[i].writes

LEMMA KernelType ==
    ASSUME NEW name \in {"quantize", "setup", "body", "reduce"}, NEW form \in Forms,
           NEW reads \in SUBSET TensorNames, NEW writes \in SUBSET TensorNames
    PROVE  /\ Kernel(name, reads, writes, form) \in Kernels
           /\ Kernel(name, reads, writes, form).name = name
           /\ Kernel(name, reads, writes, form).reads = reads
           /\ Kernel(name, reads, writes, form).writes = writes
           /\ Kernel(name, reads, writes, form).form = form
  BY DEF Kernel, Kernels

LEMMA TensorsNamed ==
    ASSUME NEW key PROVE Scratch(key) \subseteq TensorNames /\ Outputs(key) \subseteq TensorNames
  BY DEF Scratch, Outputs, TensorNames

(* One kernel alone. *)
LEMMA OneSuits ==
    ASSUME NEW key, NEW r, NEW k \in Kernels, NEW given, NEW results,
           k.reads \subseteq given, results \subseteq k.writes,
           k.reads \cup k.writes \subseteq Scratch(key) \cup Outputs(key),
           k.name = "body" => Formed(k.form, key, r)
    PROVE  Suits(<<k>>, key, r, given, results)
  BY DEF Suits

(* A kernel in front of others. *)
LEMMA MoreSuit ==
    ASSUME NEW key, NEW r, NEW k \in Kernels, NEW rest, NEW given, NEW results,
           Suits(rest, key, r, given \cup k.writes, results),
           NEW all \in Seq(Kernels), Len(all) = Len(rest) + 1, all[1] = k,
           \A i \in 1 .. Len(rest) : all[i + 1] = rest[i],
           k.reads \subseteq given,
           k.reads \cup k.writes \subseteq Scratch(key) \cup Outputs(key),
           k.name = "body" => Formed(k.form, key, r)
    PROVE  Suits(all, key, r, given, results)
  <1>1. rest \in Seq(Kernels) /\ Len(rest) \in Nat
    BY DEF Suits
  <1>2. /\ all \in Seq(Kernels) /\ Len(all) = Len(rest) + 1 /\ all[1] = k
        /\ \A i \in 1 .. Len(rest) : all[i + 1] = rest[i]
    OBVIOUS
  <1>3. ASSUME NEW i \in 1 .. Len(all)
        PROVE  /\ all[i].reads \cup all[i].writes \subseteq Scratch(key) \cup Outputs(key)
               /\ \A t \in all[i].reads :
                    t \in given \/ \E j \in 1 .. i - 1 : t \in all[j].writes
               /\ all[i].name = "body" => Formed(all[i].form, key, r)
    <2>1. CASE i = 1
      BY <1>2, <2>1
    <2>2. CASE i # 1
      <3>1. i - 1 \in 1 .. Len(rest) /\ all[i] = rest[i - 1]
        <4>1. i - 1 \in 1 .. Len(rest) /\ (i - 1) + 1 = i
          BY <1>1, <1>2, <2>2
        <4> QED
          BY <1>2, <4>1
      <3>2. ASSUME NEW t \in all[i].reads
            PROVE  t \in given \/ \E j \in 1 .. i - 1 : t \in all[j].writes
        <4>1. CASE t \in given
          BY <4>1
        <4>2. CASE t \in k.writes
          BY <1>1, <1>2, <3>1, <4>2
        <4>3. CASE \E j \in 1 .. (i - 1) - 1 : t \in rest[j].writes
          <5>1. PICK j \in 1 .. (i - 1) - 1 : t \in rest[j].writes
            BY <4>3
          <5>2. j + 1 \in 1 .. i - 1 /\ all[j + 1] = rest[j]
            BY <1>1, <1>2, <3>1, <5>1
          <5> QED
            BY <5>1, <5>2
        <4> QED
          BY <3>1, <3>2, <4>1, <4>2, <4>3 DEF Suits
      <3> QED
        BY <3>1, <3>2 DEF Suits
    <2> QED
      BY <2>1, <2>2
  <1>4. ASSUME NEW t \in results PROVE \E i \in 1 .. Len(all) : t \in all[i].writes
    <2>1. PICK i \in 1 .. Len(rest) : t \in rest[i].writes
      BY DEF Suits
    <2>2. i + 1 \in 1 .. Len(all) /\ all[i + 1] = rest[i]
      BY <1>1, <1>2
    <2> QED
      BY <2>1, <2>2
  <1> QED
    BY <1>2, <1>3, <1>4 DEF Suits

LEMMA TwoSuit ==
    ASSUME NEW key, NEW r, NEW k \in Kernels, NEW l \in Kernels, NEW given, NEW results,
           Suits(<<l>>, key, r, given \cup k.writes, results),
           k.reads \subseteq given,
           k.reads \cup k.writes \subseteq Scratch(key) \cup Outputs(key),
           k.name = "body" => Formed(k.form, key, r)
    PROVE  Suits(<<k, l>>, key, r, given, results)
  <1>1. /\ <<k, l>> \in Seq(Kernels) /\ Len(<<k, l>>) = Len(<<l>>) + 1 /\ <<k, l>>[1] = k
        /\ \A i \in 1 .. Len(<<l>>) : <<k, l>>[i + 1] = <<l>>[i]
    OBVIOUS
  <1> QED
    BY <1>1, MoreSuit

LEMMA ConsSuits ==
    ASSUME NEW key, NEW r, NEW k \in Kernels, NEW rest, NEW given, NEW results,
           Suits(rest, key, r, given \cup k.writes, results),
           k.reads \subseteq given,
           k.reads \cup k.writes \subseteq Scratch(key) \cup Outputs(key),
           k.name = "body" => Formed(k.form, key, r)
    PROVE  Suits(<<k>> \o rest, key, r, given, results)
  <1>1. rest \in Seq(Kernels) /\ Len(rest) \in Nat
    BY DEF Suits
  <1>2. /\ <<k>> \o rest \in Seq(Kernels) /\ Len(<<k>> \o rest) = Len(rest) + 1
        /\ (<<k>> \o rest)[1] = k
        /\ \A i \in 1 .. Len(rest) : (<<k>> \o rest)[i + 1] = rest[i]
    BY <1>1
  <1> QED
    BY <1>2, MoreSuit

(* The Python tables call one private operation, for a split record two.   *)
LEMMA KeyKinds ==
    ASSUME NEW key, key.family \in {"Forward", "Backward", "GroupedBackward", "GroupedForwardPair"}
    PROVE  \/ key.family = "Forward" /\ Plan(key) = <<"forward">>
           \/ key.family = "GroupedForwardPair" /\ Plan(key) = <<"pair_forward">>
           \/ key.family = "Backward" /\ key.size # 0 /\ Plan(key) = <<"split", "split_reduce">>
           \/ key.family = "GroupedBackward" /\ key.size # 0 /\ Plan(key) = <<"row_task_backward">>
           \/ /\ key.family \in {"Backward", "GroupedBackward"} /\ key.size = 0
              /\ Plan(key) = <<"backward">>
  <1>1. CASE key.family = "Forward"
    BY <1>1, Zenon DEF Plan
  <1>2. CASE key.family = "GroupedForwardPair"
    BY <1>2 DEF Plan
  <1>3. CASE key.family = "Backward" /\ key.size # 0
    BY <1>3 DEF Plan
  <1>4. CASE key.family = "GroupedBackward" /\ key.size # 0
    BY <1>4 DEF Plan
  <1>5. CASE key.family \in {"Backward", "GroupedBackward"} /\ key.size = 0
    BY <1>5 DEF Plan
  <1> QED
    BY <1>1, <1>2, <1>3, <1>4, <1>5

(* What the size of a record says of it. *)
LEMMA RecordKinds ==
    ASSUME NEW r \in Records
    PROVE  /\ r.family \in {"Forward", "Backward", "GroupedBackward", "GroupedForwardPair"}
           /\ r.family = "Forward" => FormOf(r) = "Serial"
           /\ r.family = "GroupedForwardPair" =>
                /\ FormOf(r) = r.ownership
                /\ \/ r.ownership = "DeviceRowTasks" /\ HasRowTasks(r)
                   \/ r.ownership \in {"Serial", "PairSingle"} /\ ~ HasRowTasks(r) /\ r.size = 0
           /\ r.family = "Backward" => FormOf(r) = IF r.size # 0 THEN "Split" ELSE "Serial"
           /\ r.family = "GroupedBackward" =>
                FormOf(r) = IF r.size # 0 THEN "DeviceRowTasks" ELSE "Serial"
           /\ HasRowTasks(r) => r.ownership = "DeviceRowTasks" /\ r.size # 0
  <1>1. \/ /\ r.family \in {"Forward", "GroupedForwardPair", "GroupedBackward"}
           /\ r.ownership = "Serial" /\ r.size = 0
        \/ r.family = "Backward" /\ r.ownership = "Serial"
        \/ /\ r.family \in {"GroupedForwardPair", "GroupedBackward"}
           /\ r.ownership = "DeviceRowTasks" /\ r.size \in Sizes
        \/ r.family = "GroupedForwardPair" /\ r.ownership = "PairSingle" /\ r.size = 0
    BY DEF Records, Record
  <1>2. 0 \notin Sizes
    BY LaunchAssumption
  <1> QED
    BY <1>1, <1>2 DEF FormOf, HasRowTasks

(* The bodies of the pair forward, behind the quantization: the task bank  *)
(* is there when the record has row tasks.                                 *)
LEMMA PairBodiesSuit ==
    ASSUME NEW r \in Records, NEW key, r.family = "GroupedForwardPair",
           key.family = "GroupedForwardPair", key.size = 0 <=> r.size = 0
    PROVE  Suits(PairBodies(r), key, r, {"workspace"}, Outputs(key))
  <1> DEFINE both == {"first_output", "second_output"}
  <1>1. Outputs(key) = both /\ Outputs(r) = both /\ "workspace" \in Scratch(key)
    BY DEF Outputs, Scratch
  <1>2. Outputs(key) \subseteq TensorNames
    BY TensorsNamed
  <1>3. CASE HasRowTasks(r)
    <2> DEFINE body == Body({"workspace", "tasks"}, Outputs(r), "DeviceRowTasks")
    <2>1. PairBodies(r) = <<Setup, body>>
      <3>1. HasRowTasks(r) /\ r.ownership # "PairSingle"
        BY <1>3, RecordKinds
      <3> QED
        BY <3>1, Zenon DEF PairBodies
    <2>2. /\ body \in Kernels /\ body.reads = {"workspace", "tasks"}
          /\ body.writes = Outputs(key) /\ body.form = "DeviceRowTasks"
      BY <1>1, <1>2, KernelType DEF Forms, TensorNames, Body
    <2>3. /\ Setup \in Kernels /\ Setup.reads = {} /\ Setup.writes = {"tasks"}
          /\ Setup.name = "setup"
      BY KernelType DEF Forms, TensorNames, Setup
    <2>4. "tasks" \in Scratch(key) /\ FormOf(r) = "DeviceRowTasks"
      BY <1>3, RecordKinds DEF Scratch
    <2> HIDE DEF body
    <2>5. Formed(body.form, key, r)
      BY <2>2, <2>4 DEF Formed
    <2>6. Suits(<<body>>, key, r, {"workspace"} \cup Setup.writes, Outputs(key))
      BY <1>1, <2>2, <2>3, <2>4, <2>5, OneSuits
    <2> QED
      BY <2>1, <2>2, <2>3, <2>4, <2>6, TwoSuit
  <1>4. CASE r.ownership = "PairSingle"
    <2> DEFINE one == Body({"workspace"}, {"first_output"}, "PairSingle")
               two == Body({"workspace"}, {"second_output"}, "PairSingle")
    <2>1. PairBodies(r) = <<one, two>> /\ FormOf(r) = "PairSingle"
      BY <1>4, RecordKinds DEF PairBodies, HasRowTasks
    <2>2. /\ one \in Kernels /\ one.reads = {"workspace"}
          /\ one.writes = {"first_output"} /\ one.form = "PairSingle"
          /\ two \in Kernels /\ two.reads = {"workspace"}
          /\ two.writes = {"second_output"} /\ two.form = "PairSingle"
      BY KernelType DEF Forms, TensorNames, Body
    <2> HIDE DEF one, two
    <2>3. <<one, two>> \in Seq(Kernels) /\ Len(<<one, two>>) = 2
      BY <2>2
    <2>4. ASSUME NEW i \in 1 .. 2
          PROVE  /\ <<one, two>>[i].reads = {"workspace"}
                 /\ <<one, two>>[i].writes \subseteq both
                 /\ Formed(<<one, two>>[i].form, key, r)
      BY <2>1, <2>2 DEF Formed
    <2>5. "first_output" \in <<one, two>>[1].writes /\ "second_output" \in <<one, two>>[2].writes
      BY <2>2
    <2> QED
      BY <1>1, <2>1, <2>3, <2>4, <2>5 DEF Suits
  <1>5. CASE r.ownership = "Serial"
    <2> DEFINE body == Body({"workspace"}, Outputs(r), "Serial")
    <2>1. PairBodies(r) = <<body>> /\ FormOf(r) = "Serial"
      BY <1>5, RecordKinds DEF PairBodies, HasRowTasks
    <2>2. /\ body \in Kernels /\ body.reads = {"workspace"}
          /\ body.writes = Outputs(key) /\ body.form = "Serial"
      BY <1>1, <1>2, KernelType DEF Forms, TensorNames, Body
    <2> HIDE DEF body
    <2>3. Formed(body.form, key, r)
      BY <2>1, <2>2 DEF Formed
    <2> QED
      BY <1>1, <2>1, <2>2, <2>3, OneSuits
  <1> QED
    BY <1>3, <1>4, <1>5, RecordKinds

(* Every private operation, with what it relies on and what it delivers.   *)
Given(op) == IF op = "split_reduce" THEN {"partials"} ELSE {}
Result(op, key) == IF op = "split" THEN {"partials"} ELSE Outputs(key)

(* What a private operation accepts it launches over buffers that are      *)
(* there, whatever sizes the two layers have for the key.                  *)
LEMMA LaunchesSuit ==
    ASSUME NEW r \in Records, NEW size, NEW key, key = Key(r, size),
           NEW op, NEW i \in 1 .. Len(Plan(key)), op = Plan(key)[i], Accepts(op, r, size)
    PROVE  Suits(Launches(op, r), key, r, Given(op), Result(op, key))
  <1> DEFINE out == {"output"}
  <1>1. key.family = r.family /\ key.size = size
    BY DEF Key
  <1> HIDE DEF Key
  <1>2. CASE key.family = "Forward"
    <2>1. op = "forward" /\ FormOf(r) = "Serial"
      <3>1. Plan(key) = <<"forward">>
        BY <1>2, KeyKinds
      <3>2. op = "forward"
        BY <3>1
      <3>3. FormOf(r) = "Serial"
        BY <1>1, <1>2, RecordKinds
      <3> QED
        BY <3>2, <3>3
    <2> DEFINE body == Body({"workspace"}, out, "Serial")
    <2>2. Launches(op, r) = <<Quantize, body>>
      BY <2>1 DEF Launches
    <2>3. /\ Outputs(key) = out /\ "workspace" \in Scratch(key)
          /\ Given(op) = {} /\ Result(op, key) = out
      BY <1>2, <2>1 DEF Outputs, Scratch, Given, Result
    <2>4. /\ body \in Kernels /\ body.reads = {"workspace"} /\ body.writes = out
          /\ body.form = "Serial"
          /\ Quantize \in Kernels /\ Quantize.reads = {} /\ Quantize.writes = {"workspace"}
          /\ Quantize.name = "quantize"
      BY KernelType DEF Forms, TensorNames, Body, Quantize
    <2> HIDE DEF body
    <2>5. Formed(body.form, key, r)
      BY <2>1, <2>4 DEF Formed
    <2>6. Suits(<<body>>, key, r, {} \cup Quantize.writes, out)
      BY <2>3, <2>4, <2>5, OneSuits
    <2> QED
      BY <2>2, <2>3, <2>4, <2>6, TwoSuit
  <1>3. CASE key.family = "GroupedForwardPair"
    <2>1. op = "pair_forward"
      <3>1. Plan(key) = <<"pair_forward">>
        BY <1>3, KeyKinds
      <3> QED
        BY <3>1
    <2>2. Launches(op, r) = <<Quantize>> \o PairBodies(r)
      BY <2>1 DEF Launches
    <2>3. /\ "workspace" \in Scratch(key) /\ Given(op) = {} /\ Result(op, key) = Outputs(key)
      BY <1>3, <2>1 DEF Scratch, Given, Result
    <2>4. /\ Quantize \in Kernels /\ Quantize.reads = {} /\ Quantize.writes = {"workspace"}
          /\ Quantize.name = "quantize"
      BY KernelType DEF Forms, TensorNames, Quantize
    <2>5. key.size = 0 <=> r.size = 0
      BY <1>1, <2>1 DEF Accepts
    <2>6. Suits(PairBodies(r), key, r, {} \cup Quantize.writes, Outputs(key))
      BY <1>1, <1>3, <2>4, <2>5, PairBodiesSuit
    <2>7. Suits(<<Quantize>> \o PairBodies(r), key, r, {}, Outputs(key))
      BY <2>3, <2>4, <2>6, ConsSuits
    <2> QED
      BY <2>2, <2>3, <2>7
  <1>4. CASE key.family = "Backward" /\ key.size # 0
    <2>1. Plan(key) = <<"split", "split_reduce">>
      BY <1>4, KeyKinds
    <2>2. Outputs(key) = out /\ "partials" \in Scratch(key)
      BY <1>4 DEF Outputs, Scratch
    <2>3. CASE op = "split"
      <3> DEFINE body == Body({}, {"partials"}, "Split")
      <3>1. Launches(op, r) = <<body>> /\ Given(op) = {} /\ Result(op, key) = {"partials"}
        BY <2>3 DEF Launches, Given, Result
      <3>2. /\ body \in Kernels /\ body.reads = {} /\ body.writes = {"partials"}
            /\ body.form = "Split"
        BY KernelType DEF Forms, TensorNames, Body
      <3>3. FormOf(r) = "Split"
        <4>1. r.size # 0
          BY <2>3 DEF Accepts
        <4> QED
          BY <1>1, <1>4, <4>1, RecordKinds
      <3> HIDE DEF body
      <3>4. Formed(body.form, key, r)
        BY <3>2, <3>3 DEF Formed
      <3> QED
        BY <2>2, <3>1, <3>2, <3>4, OneSuits
    <2>4. CASE op = "split_reduce"
      <3> DEFINE reduce == Kernel("reduce", {"partials"}, out, "None")
      <3>1. Launches(op, r) = <<reduce>> /\ Given(op) = {"partials"} /\ Result(op, key) = out
        BY <2>2, <2>4 DEF Launches, Given, Result
      <3>2. /\ reduce \in Kernels /\ reduce.reads = {"partials"} /\ reduce.writes = out
            /\ reduce.name = "reduce"
        BY KernelType DEF Forms, TensorNames
      <3> HIDE DEF reduce
      <3> QED
        BY <2>2, <3>1, <3>2, OneSuits
    <2> QED
      BY <2>1, <2>3, <2>4
  <1>5. CASE key.family = "GroupedBackward" /\ key.size # 0
    <2>1. op = "row_task_backward"
      <3>1. Plan(key) = <<"row_task_backward">>
        BY <1>5, KeyKinds
      <3> QED
        BY <3>1
    <2> DEFINE body == Body({"tasks"}, out, "DeviceRowTasks")
    <2>2. Launches(op, r) = <<Setup, body>>
      BY <2>1 DEF Launches
    <2>3. /\ Outputs(key) = out /\ "tasks" \in Scratch(key)
          /\ Given(op) = {} /\ Result(op, key) = out
      BY <1>5, <2>1 DEF Outputs, Scratch, Given, Result
    <2>4. /\ body \in Kernels /\ body.reads = {"tasks"} /\ body.writes = out
          /\ body.form = "DeviceRowTasks"
          /\ Setup \in Kernels /\ Setup.reads = {} /\ Setup.writes = {"tasks"}
          /\ Setup.name = "setup"
      BY KernelType DEF Forms, TensorNames, Body, Setup
    <2>5. FormOf(r) = "DeviceRowTasks"
      <3>1. HasRowTasks(r)
        BY <2>1 DEF Accepts
      <3> QED
        BY <1>1, <1>5, <3>1, RecordKinds
    <2> HIDE DEF body
    <2>6. Formed(body.form, key, r)
      BY <2>4, <2>5 DEF Formed
    <2>7. Suits(<<body>>, key, r, {} \cup Setup.writes, out)
      BY <2>3, <2>4, <2>6, OneSuits
    <2> QED
      BY <2>2, <2>3, <2>4, <2>7, TwoSuit
  <1>6. CASE key.family \in {"Backward", "GroupedBackward"} /\ key.size = 0
    <2>1. op = "backward"
      <3>1. Plan(key) = <<"backward">>
        BY <1>6, KeyKinds
      <3> QED
        BY <3>1
    <2> DEFINE body == Body({}, out, "Serial")
    <2>2. Launches(op, r) = <<body>>
      BY <2>1 DEF Launches
    <2>3. Outputs(key) = out /\ Given(op) = {} /\ Result(op, key) = out
      BY <1>6, <2>1 DEF Outputs, Given, Result
    <2>4. /\ body \in Kernels /\ body.reads = {} /\ body.writes = out
          /\ body.form = "Serial"
      BY KernelType DEF Forms, TensorNames, Body
    <2> HIDE DEF body
    <2>5. Formed(body.form, key, r)
      <3>1. r.size = 0 => FormOf(r) = "Serial"
        BY <1>1, <1>6, RecordKinds
      <3> QED
        BY <1>6, <2>4, <3>1 DEF Formed, Loose
    <2> QED
      BY <2>2, <2>3, <2>4, <2>5, OneSuits
  <1> QED
    BY <1>1, <1>2, <1>3, <1>4, <1>5, <1>6, RecordKinds

LEMMA SuitsMore ==
    ASSUME NEW launches, NEW key, NEW r, NEW given, NEW results, NEW more, NEW less,
           Suits(launches, key, r, given, results), given \subseteq more, less \subseteq results
    PROVE  Suits(launches, key, r, more, less)
  BY DEF Suits

LEMMA SuitsEmpty ==
    ASSUME NEW key, NEW r, NEW given
    PROVE  /\ Suits(<<>>, key, r, given, {})
           /\ \A results : Suits(<<>>, key, r, given, results) => results = {}
  BY DEF Suits

(* The first kernel is launched. *)
LEMMA SuitsTail ==
    ASSUME NEW launches, NEW key, NEW r, NEW given, NEW results,
           Suits(launches, key, r, given, results), launches # <<>>,
           NEW k, k = Head(launches)
    PROVE  /\ k \in Kernels /\ k.reads \subseteq given
           /\ k.reads \cup k.writes \subseteq Scratch(key) \cup Outputs(key)
           /\ k.name = "body" => Formed(k.form, key, r)
           /\ Suits(Tail(launches), key, r, given \cup k.writes, results \ k.writes)
  <1> DEFINE rest == Tail(launches)
  <1>1. /\ launches \in Seq(Kernels) /\ Len(launches) \in Nat \ {0}
        /\ k \in Kernels /\ launches[1] = k
        /\ rest \in Seq(Kernels) /\ Len(rest) = Len(launches) - 1
        /\ \A i \in 1 .. Len(rest) : rest[i] = launches[i + 1]
    BY DEF Suits
  <1> HIDE DEF rest
  <1>2. 1 \in 1 .. Len(launches)
    BY <1>1
  <1>3. k.reads \subseteq given
    BY <1>1, <1>2 DEF Suits
  <1>4. k.reads \cup k.writes \subseteq Scratch(key) \cup Outputs(key) /\ (k.name = "body" => Formed(k.form, key, r))
    BY <1>1, <1>2 DEF Suits
  <1>5. ASSUME NEW i \in 1 .. Len(rest)
        PROVE  /\ rest[i].reads \cup rest[i].writes \subseteq Scratch(key) \cup Outputs(key)
               /\ \A t \in rest[i].reads :
                    t \in given \cup k.writes \/ \E j \in 1 .. i - 1 : t \in rest[j].writes
               /\ rest[i].name = "body" => Formed(rest[i].form, key, r)
    <2>1. i + 1 \in 1 .. Len(launches) /\ rest[i] = launches[i + 1]
      BY <1>1
    <2>2. ASSUME NEW t \in rest[i].reads
          PROVE  t \in given \cup k.writes \/ \E j \in 1 .. i - 1 : t \in rest[j].writes
      <3>1. CASE t \in given
        BY <3>1
      <3>2. CASE t \notin given
        <4>1. PICK j \in 1 .. (i + 1) - 1 : t \in launches[j].writes
          BY <2>1, <2>2, <3>2 DEF Suits
        <4>2. CASE j = 1
          BY <1>1, <4>1, <4>2
        <4>3. CASE j # 1
          <5>1. /\ j - 1 \in 1 .. i - 1 /\ j - 1 \in 1 .. Len(rest)
                /\ (j - 1) + 1 = j
            BY <1>1, <4>1, <4>3
          <5>2. rest[j - 1] = launches[j]
            BY <1>1, <5>1
          <5> QED
            BY <4>1, <5>1, <5>2
        <4> QED
          BY <4>2, <4>3
      <3> QED
        BY <3>1, <3>2
    <2> QED
      BY <2>1, <2>2 DEF Suits
  <1>6. ASSUME NEW t \in results \ k.writes PROVE \E i \in 1 .. Len(rest) : t \in rest[i].writes
    <2>1. PICK j \in 1 .. Len(launches) : t \in launches[j].writes
      BY DEF Suits
    <2>2. j # 1
      BY <1>1, <1>6, <2>1
    <2>3. j - 1 \in 1 .. Len(rest) /\ (j - 1) + 1 = j
      BY <1>1, <2>1, <2>2
    <2>4. rest[j - 1] = launches[j]
      BY <1>1, <2>3
    <2> QED
      BY <2>1, <2>3, <2>4
  <1>7. Suits(rest, key, r, given \cup k.writes, results \ k.writes)
    BY <1>1, <1>5, <1>6 DEF Suits
  <1> QED
    BY <1>1, <1>3, <1>4, <1>7 DEF rest

-----------------------------------------------------------------------------
(* What a block holds when a stream comes to its i-th kernel: what the     *)
(* last kernel before it that writes the block has written.                *)
Touches(e, b) == \E t \in e.writes : e.block[t] = b
Delivers(e, b, v) == \E t \in e.writes : e.block[t] = b /\ v = <<e.call, t>>

Supplied(q, ct, i, b, v) ==
    \/ \E j \in 1 .. i - 1 :
         Delivers(q[j], b, v) /\ \A m \in j + 1 .. i - 1 : ~ Touches(q[m], b)
    \/ ct[b] = v /\ \A m \in 1 .. i - 1 : ~ Touches(q[m], b)

Entries ==
    [call : Calls, reads : SUBSET TensorNames, writes : SUBSET TensorNames, fits : BOOLEAN,
     block : UNION {[T -> Blocks] : T \in SUBSET TensorNames}]

(* A launched kernel has its arguments, uses blocks of its stream's pool,  *)
(* and each of its reads is supplied by its own call.                      *)
EntryInv(e, s, pl) ==
    /\ e.fits
    /\ \A t \in e.reads \cup e.writes : e.block[t] \in Blocks /\ pl[e.block[t]] = s
    /\ \A t, u \in e.writes : e.block[t] = e.block[u] => t = u

QueueInv(q, s, ct, pl) ==
    /\ q \in Seq(Entries)
    /\ \A i \in 1 .. Len(q) :
         /\ EntryInv(q[i], s, pl)
         /\ \A t \in q[i].reads : Supplied(q, ct, i, q[i].block[t], <<q[i].call, t>>)

(* Another kernel is launched. *)
LEMMA SuppliedAppend ==
    ASSUME NEW q \in Seq(Entries), NEW e \in Entries, NEW ct, NEW b, NEW v
    PROVE  /\ \A i \in 1 .. Len(q) + 1 :
                Supplied(q, ct, i, b, v) => Supplied(Append(q, e), ct, i, b, v)
           /\ Supplied(q, ct, Len(q) + 1, b, v) /\ ~ Touches(e, b)
                => Supplied(Append(q, e), ct, Len(q) + 2, b, v)
           /\ Delivers(e, b, v) => Supplied(Append(q, e), ct, Len(q) + 2, b, v)
  <1> DEFINE p == Append(q, e)
             n == Len(q)
  <1>1. n \in Nat /\ p[n + 1] = e /\ \A i \in 1 .. n : p[i] = q[i]
    OBVIOUS
  <1> HIDE DEF p, n
  <1>2. ASSUME NEW i \in 1 .. n + 1, Supplied(q, ct, i, b, v) PROVE Supplied(p, ct, i, b, v)
    <2>1. \A m \in 1 .. i - 1 : p[m] = q[m]
      BY <1>1
    <2>2. ASSUME NEW j \in 1 .. i - 1 PROVE \A m \in j + 1 .. i - 1 : p[m] = q[m]
      BY <2>1
    <2>3. CASE ct[b] = v /\ \A m \in 1 .. i - 1 : ~ Touches(q[m], b)
      BY <2>1, <2>3 DEF Supplied
    <2>4. CASE \E j \in 1 .. i - 1 :
                 Delivers(q[j], b, v) /\ \A m \in j + 1 .. i - 1 : ~ Touches(q[m], b)
      <3>1. PICK j \in 1 .. i - 1 :
                 Delivers(q[j], b, v) /\ \A m \in j + 1 .. i - 1 : ~ Touches(q[m], b)
        BY <2>4
      <3>2. Delivers(p[j], b, v) /\ \A m \in j + 1 .. i - 1 : ~ Touches(p[m], b)
        BY <2>1, <2>2, <3>1
      <3> QED
        BY <3>2 DEF Supplied
    <2> QED
      BY <1>2, <2>3, <2>4 DEF Supplied
  <1>3. ASSUME Supplied(q, ct, n + 1, b, v), ~ Touches(e, b) PROVE Supplied(p, ct, n + 2, b, v)
    <2>1. Supplied(p, ct, n + 1, b, v)
      BY <1>1, <1>2, <1>3
    <2>2. /\ (n + 1) - 1 = n /\ (n + 2) - 1 = n + 1
          /\ 1 .. n \subseteq 1 .. n + 1
          /\ \A m \in 1 .. n + 1 : m \in 1 .. n \/ m = n + 1
          /\ \A j \in 1 .. n : \A m \in j + 1 .. n + 1 : m \in j + 1 .. n \/ m = n + 1
      BY <1>1
    <2>3. ~ Touches(p[n + 1], b)
      BY <1>1, <1>3
    <2>4. CASE ct[b] = v /\ \A m \in 1 .. n : ~ Touches(p[m], b)
      <3>1. \A m \in 1 .. n + 1 : ~ Touches(p[m], b)
        BY <2>2, <2>3, <2>4
      <3> QED
        BY <2>2, <2>4, <3>1 DEF Supplied
    <2>5. CASE \E j \in 1 .. n :
                 Delivers(p[j], b, v) /\ \A m \in j + 1 .. n : ~ Touches(p[m], b)
      <3>1. PICK j \in 1 .. n :
                 Delivers(p[j], b, v) /\ \A m \in j + 1 .. n : ~ Touches(p[m], b)
        BY <2>5
      <3>2. j \in 1 .. n + 1 /\ \A m \in j + 1 .. n + 1 : ~ Touches(p[m], b)
        BY <2>2, <2>3, <3>1
      <3> QED
        BY <2>2, <3>1, <3>2 DEF Supplied
    <2> QED
      BY <2>1, <2>2, <2>4, <2>5 DEF Supplied
  <1>4. ASSUME Delivers(e, b, v) PROVE Supplied(p, ct, n + 2, b, v)
    <2>1. n + 1 \in 1 .. (n + 2) - 1 /\ \A m \in (n + 1) + 1 .. (n + 2) - 1 : FALSE
      BY <1>1
    <2>2. Delivers(p[n + 1], b, v)
      BY <1>1, <1>4
    <2> QED
      BY <2>1, <2>2 DEF Supplied
  <1> QED
    BY <1>2, <1>3, <1>4 DEF p, n

(* The first kernel has run. *)
LEMMA SuppliedTail ==
    ASSUME NEW q \in Seq(Entries), q # <<>>, NEW ct, NEW next, NEW b, NEW v,
           Delivers(Head(q), b, v) => next[b] = v,
           ~ Touches(Head(q), b) => next[b] = ct[b],
           NEW i \in 1 .. Len(q), Supplied(q, ct, i + 1, b, v)
    PROVE  Supplied(Tail(q), next, i, b, v)
  <1> DEFINE p == Tail(q)
             n == Len(q)
  <1>1. /\ n \in Nat \ {0} /\ q[1] = Head(q) /\ Len(p) = n - 1
        /\ \A m \in 1 .. n - 1 : p[m] = q[m + 1]
    OBVIOUS
  <1> HIDE DEF p
  <1>2. (i + 1) - 1 = i /\ 1 \in 1 .. i /\ \A m \in 1 .. i - 1 : m + 1 \in 1 .. i /\ p[m] = q[m + 1]
    BY <1>1
  <1>3. ASSUME ct[b] = v, \A m \in 1 .. i : ~ Touches(q[m], b) PROVE Supplied(p, next, i, b, v)
    <2>1. next[b] = v
      BY <1>1, <1>2, <1>3
    <2>2. \A m \in 1 .. i - 1 : ~ Touches(p[m], b)
      BY <1>2, <1>3
    <2> QED
      BY <2>1, <2>2 DEF Supplied
  <1>4. ASSUME \E j \in 1 .. i :
               Delivers(q[j], b, v) /\ \A m \in j + 1 .. i : ~ Touches(q[m], b)
        PROVE  Supplied(p, next, i, b, v)
    <2>1. PICK j \in 1 .. i :
               Delivers(q[j], b, v) /\ \A m \in j + 1 .. i : ~ Touches(q[m], b)
      BY <1>4
    <2>2. CASE j = 1
      <3>1. next[b] = v
        BY <1>1, <2>1, <2>2
      <3>2. \A m \in 1 .. i - 1 : m + 1 \in j + 1 .. i /\ p[m] = q[m + 1]
        BY <1>1, <2>2
      <3>3. \A m \in 1 .. i - 1 : ~ Touches(p[m], b)
        BY <2>1, <3>2
      <3> QED
        BY <3>1, <3>3 DEF Supplied
    <2>3. CASE j # 1
      <3>1. /\ j - 1 \in 1 .. i - 1 /\ (j - 1) + 1 = j
            /\ \A m \in j .. i - 1 : m + 1 \in j + 1 .. i /\ m \in 1 .. i - 1
        BY <2>1, <2>3
      <3>2. p[j - 1] = q[j]
        BY <1>2, <3>1
      <3>3. \A m \in j .. i - 1 : ~ Touches(p[m], b)
        BY <1>2, <2>1, <3>1
      <3> QED
        BY <2>1, <3>1, <3>2, <3>3 DEF Supplied
    <2> QED
      BY <2>2, <2>3
  <1>5. Supplied(p, next, i, b, v)
    BY <1>2, <1>3, <1>4 DEF Supplied
  <1> QED
    BY <1>5 DEF p

-----------------------------------------------------------------------------
(* What the rest of the call relies on when `o` are the private operations *)
(* still to be called.                                                     *)
Splits(key) == key.family = "Backward" /\ key.size # 0

Ops(key) == {Plan(key), <<>>} \cup (IF Splits(key) THEN {<<"split_reduce">>} ELSE {})

Due(o, key) ==
    IF o = <<>> THEN Outputs(key) ELSE IF o = Plan(key) THEN {} ELSE {"partials"}

LEMMA NextOperation ==
    ASSUME NEW r \in Records, NEW size, NEW key, key = Key(r, size),
           NEW o \in Ops(key), o # <<>>, Accepts(Head(o), r, size)
    PROVE  /\ Tail(o) \in Ops(key)
           /\ Suits(Launches(Head(o), r), key, r, Given(Head(o)), Result(Head(o), key))
           /\ Given(Head(o)) \subseteq Due(o, key)
           /\ Due(Tail(o), key) \subseteq Result(Head(o), key)
  <1>1. key.family \in {"Forward", "Backward", "GroupedBackward", "GroupedForwardPair"}
    BY RecordKinds DEF Key
  <1>2. CASE ~ Splits(key)
    <2>1. PICK op \in {"forward", "pair_forward", "row_task_backward", "backward"} :
             Plan(key) = <<op>>
      <3>1. \/ Plan(key) = <<"forward">> \/ Plan(key) = <<"pair_forward">>
            \/ Plan(key) = <<"row_task_backward">> \/ Plan(key) = <<"backward">>
        BY <1>1, <1>2, KeyKinds DEF Splits
      <3> QED
        BY <3>1, Zenon
    <2>2. o = <<op>> /\ Head(o) = op /\ Tail(o) = <<>>
      <3>1. o = Plan(key)
        BY <1>2 DEF Ops
      <3> QED
        BY <2>1, <3>1
    <2>3. Suits(Launches(op, r), key, r, Given(op), Result(op, key))
      <3>1. 1 \in 1 .. Len(Plan(key)) /\ op = Plan(key)[1]
        BY <2>1
      <3> QED
        BY <2>2, <3>1, LaunchesSuit
    <2> QED
      BY <2>1, <2>2, <2>3 DEF Ops, Given, Result, Due
  <1>3. CASE Splits(key)
    <2>1. Plan(key) = <<"split", "split_reduce">>
      BY <1>1, <1>3, KeyKinds DEF Splits
    <2>2. CASE o = Plan(key)
      <3>1. Head(o) = "split" /\ Tail(o) = <<"split_reduce">>
        BY <2>1, <2>2
      <3>2. Due(Tail(o), key) = {"partials"}
        <4>1. Plan(key) # <<"split_reduce">> /\ <<"split_reduce">> # <<>>
          BY <2>1
        <4> QED
          BY <3>1, <4>1 DEF Due
      <3>3. Suits(Launches("split", r), key, r, Given("split"), Result("split", key))
        <4>1. 1 \in 1 .. Len(Plan(key)) /\ "split" = Plan(key)[1]
          BY <2>1
        <4> QED
          BY <3>1, <4>1, LaunchesSuit
      <3> QED
        BY <1>3, <3>1, <3>2, <3>3 DEF Ops, Given, Result
    <2>3. CASE o = <<"split_reduce">>
      <3>1. Head(o) = "split_reduce" /\ Tail(o) = <<>>
        BY <2>3
      <3>2. Due(o, key) = {"partials"}
        BY <2>1, <2>3 DEF Due
      <3>3. Suits(Launches("split_reduce", r), key, r, Given("split_reduce"), Result("split_reduce", key))
        <4>1. 2 \in 1 .. Len(Plan(key)) /\ "split_reduce" = Plan(key)[2]
          BY <2>1
        <4> QED
          BY <3>1, <4>1, LaunchesSuit
      <3> QED
        BY <3>1, <3>2, <3>3 DEF Ops, Given, Result, Due
    <2> QED
      BY <1>3, <2>2, <2>3 DEF Ops
  <1> QED
    BY <1>2, <1>3

-----------------------------------------------------------------------------
(* The tensors a call holds.                                               *)
Keeps(p, key) ==
    IF p \in {"python", "native"} THEN Scratch(key) \cup Outputs(key)
    ELSE IF p = "returned" THEN Outputs(key) ELSE {}

OwnerInv(ow, pl) ==
    /\ ow \in [Blocks -> {Free} \cup (Calls \X TensorNames)]
    /\ pl \in [Blocks -> Streams \cup {Nobody}]
    /\ \A b \in Blocks, c \in Calls, t \in TensorNames : ow[b] = <<c, t>> => pl[b] = stream[c]
    /\ \A b, d \in Blocks : ow[b] = ow[d] /\ ow[b] # Free => b = d

HeldInv(ow, p) ==
    \A c \in Calls, t \in TensorNames :
        (\E b \in Blocks : ow[b] = <<c, t>>) <=> t \in Keeps(p[c], Lookup(c))

(* What the kernels launched after this moment find in a call's tensors.   *)
Ready(c) ==
    {t \in TensorNames : \A b \in Blocks :
        owner[b] = <<c, t>> =>
            Supplied(queue[stream[c]], content, Len(queue[stream[c]]) + 1, b, <<c, t>>)}

(* Once a body has run with the arguments of another nothing is promised   *)
(* of any block; what is launched still names tensors of its own call.     *)
Found(c) == IF AllFit THEN Ready(c) ELSE TensorNames

CallInv(p, o, l, bd, key, r, given) ==
    /\ p \in {"called", "python", "returned"} => l = <<>>
    /\ p = "returned" => o = <<>>
    /\ bd \subseteq {FormOf(r)} \/ Loose(key, r)
    /\ p \in {"python", "native", "returned"} =>
         o \in Ops(key) /\ Suits(l, key, r, given, Due(o, key) \ given)

Shape ==
    /\ record \in [Calls -> Records] /\ tabled \in [Calls -> {0} \cup Sizes]
    /\ stream \in [Calls -> Streams]
    /\ pc \in [Calls -> {"called", "python", "native", "returned", "raised"}]
    /\ ops = [c \in Calls |-> ops[c]]
    /\ pending = [c \in Calls |-> pending[c]]
    /\ bodies = [c \in Calls |-> bodies[c]]
    /\ content \in [Blocks -> {Garbage, Stale} \cup (Calls \X TensorNames)]
    /\ queue \in [Streams -> Seq(Entries)]

(* What is promised as long as every body had its own arguments. *)
SoundInv(ct, q, pl) ==
    /\ \A b \in Blocks : ct[b] # Stale
    /\ \A s \in Streams : QueueInv(q[s], s, ct, pl)

IInv ==
    /\ Shape
    /\ OwnerInv(owner, pool) /\ HeldInv(owner, pc)
    /\ AllFit => SoundInv(content, queue, pool)
    /\ \A c \in Calls : CallInv(pc[c], ops[c], pending[c], bodies[c], Lookup(c), record[c], Found(c))

LEMMA InitInv == Init => IInv
  <1> SUFFICES ASSUME Init PROVE IInv
    OBVIOUS
  <1>1. Shape
    <2>1. PICK load \in Workloads : /\ record = [c \in Calls |-> load[c].record]
                                   /\ tabled = [c \in Calls |-> load[c].tabled]
                                   /\ stream = [c \in Calls |-> load[c].stream]
      BY DEF Init
    <2>2. \A c \in Calls : load[c] \in Deployments
      BY <2>1, WorkloadsAssumption
    <2>3. \A c \in Calls : /\ load[c].record \in Records /\ load[c].tabled \in {0} \cup Sizes
                           /\ load[c].stream \in Streams
      BY <2>2 DEF Deployments
    <2>4. /\ record \in [Calls -> Records] /\ tabled \in [Calls -> {0} \cup Sizes]
          /\ stream \in [Calls -> Streams]
      BY <2>1, <2>3
    <2> QED
      BY <2>4 DEF Init, Shape
  <1>2. OwnerInv(owner, pool)
    BY LaunchAssumption DEF Init, OwnerInv
  <1>3. HeldInv(owner, pc)
    BY LaunchAssumption DEF Init, HeldInv, Keeps
  <1>4. SoundInv(content, queue, pool)
    BY LaunchAssumption DEF Init, SoundInv, QueueInv
  <1>5. \A c \in Calls : CallInv(pc[c], ops[c], pending[c], bodies[c], Lookup(c), record[c], Found(c))
    BY DEF Init, CallInv
  <1> QED
    BY <1>1, <1>2, <1>3, <1>4, <1>5 DEF IInv

(* A call that finds more supplied loses nothing. *)
LEMMA CallKept ==
    ASSUME NEW p, NEW o, NEW l, NEW bd, NEW key, NEW r, NEW given, NEW more,
           CallInv(p, o, l, bd, key, r, given), given \subseteq more
    PROVE  CallInv(p, o, l, bd, key, r, more)
  <1>1. Due(o, key) \ more \subseteq Due(o, key) \ given
    OBVIOUS
  <1> QED
    BY <1>1, SuitsMore DEF CallInv

(* Only a launch can add a body of another form. *)
LEMMA FitFrame ==
    ASSUME UNCHANGED <<record, bodies>> PROVE AllFit' <=> AllFit
  BY DEF AllFit, Misfit

LEMMA FoundKept ==
    ASSUME AllFit' => AllFit, NEW d, AllFit' => Ready(d) \subseteq Ready(d)'
    PROVE  Found(d) \subseteq Found(d)'
  <1>1. Ready(d) \subseteq TensorNames
    BY DEF Ready
  <1>2. Found(d) \subseteq TensorNames /\ (AllFit => Found(d) = Ready(d))
    BY <1>1 DEF Found
  <1>3. CASE AllFit'
    <2>1. Found(d)' = Ready(d)'
      BY <1>3 DEF Found
    <2> QED
      BY <1>2, <1>3, <2>1
  <1>4. CASE ~ AllFit'
    <2>1. Found(d)' = TensorNames
      BY <1>4 DEF Found
    <2> QED
      BY <1>2, <2>1
  <1> QED
    BY <1>3, <1>4

(* The two layers hold one key for the family. *)
LEMMA LookedUp ==
    ASSUME NEW c \in Calls
    PROVE  Lookup(c) = Key(record[c], tabled[c]) /\ Outputs(Lookup(c)) = Outputs(record[c])
  BY DEF Lookup, Key, Outputs

(* A step of one host thread. *)
LEMMA HostFrame ==
    ASSUME IInv, NEW c \in Calls, UNCHANGED <<record, tabled, stream>>,
           \A d \in Calls \ {c} : /\ pc'[d] = pc[d] /\ ops'[d] = ops[d]
                                  /\ pending'[d] = pending[d] /\ bodies'[d] = bodies[d],
           \A d \in Calls \ {c} : Found(d) \subseteq Found(d)',
           CallInv(pc'[c], ops'[c], pending'[c], bodies'[c], Lookup(c), record[c], Found(c)')
    PROVE  \A d \in Calls : CallInv(pc'[d], ops'[d], pending'[d], bodies'[d], Lookup(d)', record'[d], Found(d)')
  <1> SUFFICES ASSUME NEW d \in Calls
               PROVE  CallInv(pc'[d], ops'[d], pending'[d], bodies'[d], Lookup(d), record[d], Found(d)')
    BY DEF Lookup
  <1>1. CASE d = c
    BY <1>1
  <1>2. CASE d # c
    <2>1. CallInv(pc[d], ops[d], pending[d], bodies[d], Lookup(d), record[d], Found(d))
      BY DEF IInv
    <2>2. CallInv(pc[d], ops[d], pending[d], bodies[d], Lookup(d), record[d], Found(d)')
      BY <1>2, <2>1, CallKept
    <2> QED
      BY <1>2, <2>2
  <1> QED
    BY <1>1, <1>2

(* Blocks are dropped: nothing becomes less certain of those still held.   *)
LEMMA Dropped ==
    ASSUME IInv, NEW D \in SUBSET Blocks, Drop(D), UNCHANGED <<record, tabled, stream, pool, content, queue>>
    PROVE  /\ OwnerInv(owner', pool')
           /\ \A b \in Blocks, c \in Calls, t \in TensorNames :
                owner'[b] = <<c, t>> <=> owner[b] = <<c, t>> /\ b \notin D
           /\ \A c \in Calls : Ready(c) \subseteq Ready(c)'
           /\ AllFit => SoundInv(content', queue', pool')
  <1>1. owner' = [b \in Blocks |-> IF b \in D THEN Free ELSE owner[b]]
    BY DEF Drop
  <1>2. \A c \in Calls, t \in TensorNames : <<c, t>> # Free
    BY LaunchAssumption
  <1>3. \A b \in Blocks, c \in Calls, t \in TensorNames :
           owner'[b] = <<c, t>> <=> owner[b] = <<c, t>> /\ b \notin D
    BY <1>1, <1>2
  <1>4. OwnerInv(owner', pool')
    BY <1>1, <1>3 DEF IInv, OwnerInv
  <1>5. \A c \in Calls : Ready(c) \subseteq Ready(c)'
    BY <1>3 DEF Ready
  <1> QED
    BY <1>3, <1>4, <1>5 DEF IInv

LEMMA HeldBlocks ==
    ASSUME IInv, NEW c \in Calls, NEW b \in Blocks
    PROVE  /\ b \in Held(c) <=> \E t \in TensorNames : owner[b] = <<c, t>>
           /\ \A t \in TensorNames : owner[b] = <<c, t>> => owner[b][2] = t
  <1>1. owner[b] = Free \/ \E d \in Calls, t \in TensorNames : owner[b] = <<d, t>>
    BY DEF IInv, OwnerInv
  <1>2. \A d \in Calls, t \in TensorNames : <<d, t>> # Free
    BY LaunchAssumption
  <1> QED
    BY <1>1, <1>2 DEF Held

(* An exception. *)
LEMMA RaiseStep ==
    ASSUME IInv, NEW c \in Calls, Raise(c),
           UNCHANGED <<record, tabled, stream, ops, pending, bodies, pool, content, queue>>
    PROVE  IInv'
  <1>1. /\ pc' = [pc EXCEPT ![c] = "raised"] /\ Drop(Held(c)) /\ Held(c) \in SUBSET Blocks
        /\ pc'[c] = "raised" /\ \A d \in Calls \ {c} : pc'[d] = pc[d]
    BY DEF Raise, Held, IInv, Shape
  <1>2. Shape'
    BY <1>1 DEF IInv, Shape
  <1>3. /\ OwnerInv(owner', pool')
        /\ \A b \in Blocks, d \in Calls, t \in TensorNames :
             owner'[b] = <<d, t>> <=> owner[b] = <<d, t>> /\ b \notin Held(c)
        /\ \A d \in Calls : Ready(d) \subseteq Ready(d)'
        /\ AllFit => SoundInv(content', queue', pool')
    BY <1>1, Dropped
  <1>4. ASSUME NEW d \in Calls, NEW t \in TensorNames
        PROVE  (\E b \in Blocks : owner'[b] = <<d, t>>) <=> t \in Keeps(pc'[d], Lookup(d))
    <2>1. CASE d = c
      <3>1. \A b \in Blocks : owner[b] = <<c, t>> => b \in Held(c)
        BY HeldBlocks
      <3>2. \A b \in Blocks : owner'[b] # <<c, t>>
        BY <1>3, <3>1
      <3>3. Keeps(pc'[d], Lookup(d)) = {}
        BY <1>1, <2>1 DEF Keeps
      <3> QED
        BY <2>1, <3>2, <3>3
    <2>2. CASE d # c
      <3>1. \A b \in Blocks : owner[b] = <<d, t>> => b \notin Held(c)
        BY <2>2, HeldBlocks
      <3>2. \A b \in Blocks : owner'[b] = <<d, t>> <=> owner[b] = <<d, t>>
        BY <1>3, <3>1
      <3>3. (\E b \in Blocks : owner[b] = <<d, t>>) <=> t \in Keeps(pc[d], Lookup(d))
        BY DEF IInv, HeldInv
      <3> QED
        BY <1>1, <2>2, <3>2, <3>3
    <2> QED
      BY <2>1, <2>2
  <1>5. CallInv(pc'[c], ops'[c], pending'[c], bodies'[c], Lookup(c), record[c], Found(c)')
    BY <1>1 DEF IInv, CallInv
  <1>6. (AllFit' <=> AllFit) /\ \A d \in Calls : Found(d) \subseteq Found(d)'
    BY <1>3, FitFrame, FoundKept
  <1>7. \A d \in Calls : CallInv(pc'[d], ops'[d], pending'[d], bodies'[d], Lookup(d)', record'[d], Found(d)')
    BY <1>1, <1>5, <1>6, HostFrame
  <1>8. OwnerInv(owner, pool)' /\ (SoundInv(content, queue, pool)' <=> SoundInv(content', queue', pool'))
    BY <1>3 DEF OwnerInv, SoundInv
  <1>9. HeldInv(owner, pc)'
    BY <1>4 DEF HeldInv, Lookup
  <1> QED
    BY <1>2, <1>3, <1>6, <1>7, <1>8, <1>9 DEF IInv

(* The buffers of a call: blocks nobody holds, of its stream's pool from   *)
(* now on.                                                                 *)
LEMMA AllocateStep ==
    ASSUME IInv, NEW c \in Calls, Allocate(c)
    PROVE  IInv'
  <1> DEFINE T == Tensors(c)
  <1>1. /\ pc[c] = "called" /\ pc' = [pc EXCEPT ![c] = "python"]
        /\ ops' = [ops EXCEPT ![c] = Plan(Lookup(c))]
        /\ UNCHANGED <<record, tabled, stream, pending, bodies, content, queue>>
    BY DEF Allocate, calls
  <1>2. Shape'
    BY <1>1 DEF IInv, Shape
  <1>3. T \subseteq TensorNames /\ T = Scratch(Lookup(c)) \cup Outputs(Lookup(c))
    BY TensorsNamed, LookedUp DEF Tensors
  <1>4. PICK place \in [T -> {b \in Blocks : owner[b] = Free /\ pool[b] \in {Nobody, stream[c]}}] :
           /\ \A t, u \in T : place[t] = place[u] => t = u
           /\ owner' = [b \in Blocks |->
                           IF \E t \in T : place[t] = b
                           THEN <<c, CHOOSE t \in T : place[t] = b>> ELSE owner[b]]
           /\ pool' = [b \in Blocks |-> IF \E t \in T : place[t] = b THEN stream[c] ELSE pool[b]]
    BY DEF Allocate, Place
  <1> HIDE DEF T
  <1>5. ASSUME NEW t \in T PROVE owner'[place[t]] = <<c, t>> /\ place[t] \in Blocks
    <2>1. place[t] \in Blocks /\ (CHOOSE u \in T : place[u] = place[t]) = t
      BY <1>4
    <2> QED
      BY <1>4, <2>1
  <1>6. ASSUME NEW b \in Blocks, \A t \in T : place[t] # b
        PROVE  owner'[b] = owner[b] /\ pool'[b] = pool[b]
    BY <1>4, <1>6
  <1>7. \A t \in T : owner[place[t]] = Free /\ pool[place[t]] \in {Nobody, stream[c]}
                     /\ pool'[place[t]] = stream[c]
    BY <1>4
  <1>8. \A d \in Calls, t \in TensorNames : <<d, t>> # Free
    BY LaunchAssumption
  <1>9. ASSUME NEW b \in Blocks, NEW d \in Calls, NEW t \in TensorNames, d # c
        PROVE  owner'[b] = <<d, t>> <=> owner[b] = <<d, t>>
    <2>1. CASE \E u \in T : place[u] = b
      <3>1. PICK u \in T : place[u] = b
        BY <2>1
      <3>2. owner'[b] = <<c, u>> /\ owner[b] = Free
        BY <1>5, <1>7, <3>1
      <3> QED
        BY <1>8, <1>9, <3>2
    <2>2. CASE ~ \E u \in T : place[u] = b
      BY <1>6, <2>2
    <2> QED
      BY <2>1, <2>2
  <1>10. ASSUME NEW b \in Blocks, NEW t \in TensorNames
         PROVE  owner'[b] = <<c, t>> <=> t \in T /\ place[t] = b
    <2>1. owner[b] # <<c, t>>
      BY <1>1 DEF IInv, HeldInv, Keeps
    <2>2. CASE \E u \in T : place[u] = b
      BY <1>5, <2>2
    <2>3. CASE ~ \E u \in T : place[u] = b
      BY <1>6, <2>1, <2>3
    <2> QED
      BY <2>2, <2>3
  <1>11. OwnerInv(owner', pool')
    <2>1. owner' \in [Blocks -> {Free} \cup (Calls \X TensorNames)]
      <3>1. /\ owner' = [b \in Blocks |-> owner'[b]]
            /\ owner \in [Blocks -> {Free} \cup (Calls \X TensorNames)]
        BY <1>4 DEF IInv, OwnerInv
      <3>2. ASSUME NEW b \in Blocks PROVE owner'[b] \in {Free} \cup (Calls \X TensorNames)
        <4>1. CASE \E u \in T : place[u] = b
          <5>1. PICK u \in T : place[u] = b
            BY <4>1
          <5>2. owner'[b] = <<c, u>> /\ u \in TensorNames
            BY <1>3, <1>5, <5>1
          <5> QED
            BY <5>2
        <4>2. CASE ~ \E u \in T : place[u] = b
          BY <1>6, <3>1, <4>2
        <4> QED
          BY <4>1, <4>2
      <3> QED
        BY <3>1, <3>2
    <2>2. pool' \in [Blocks -> Streams \cup {Nobody}]
      BY <1>4 DEF IInv, OwnerInv, Shape
    <2>3. ASSUME NEW b \in Blocks, NEW d \in Calls, NEW t \in TensorNames, owner'[b] = <<d, t>>
          PROVE  pool'[b] = stream[d]
      <3>1. CASE d = c
        BY <1>7, <1>10, <2>3, <3>1
      <3>2. CASE d # c
        <4>1. owner[b] = <<d, t>> /\ pool[b] = stream[d]
          BY <1>9, <2>3, <3>2 DEF IInv, OwnerInv
        <4>2. \A u \in T : place[u] # b
          BY <1>7, <1>8, <4>1
        <4> QED
          BY <1>6, <4>1, <4>2
      <3> QED
        BY <3>1, <3>2
    <2>4. ASSUME NEW b \in Blocks, NEW d \in Blocks, owner'[b] = owner'[d], owner'[b] # Free
          PROVE  b = d
      <3>1. PICK e \in Calls, t \in TensorNames : owner'[b] = <<e, t>> /\ owner'[d] = <<e, t>>
        BY <2>1, <2>4
      <3>2. CASE e = c
        BY <1>10, <3>1, <3>2
      <3>3. CASE e # c
        <4>1. owner[b] = <<e, t>> /\ owner[d] = <<e, t>>
          BY <1>9, <3>1, <3>3
        <4>2. owner[b] = owner[d] /\ owner[b] # Free
          BY <1>8, <4>1
        <4>3. \A x, y \in Blocks : owner[x] = owner[y] /\ owner[x] # Free => x = y
          BY DEF IInv, OwnerInv
        <4> QED
          BY <4>2, <4>3
      <3> QED
        BY <3>2, <3>3
    <2> QED
      BY <1>1, <2>1, <2>2, <2>3, <2>4 DEF OwnerInv
  <1>12. ASSUME NEW d \in Calls, NEW t \in TensorNames
         PROVE  (\E b \in Blocks : owner'[b] = <<d, t>>) <=> t \in Keeps(pc'[d], Lookup(d))
    <2>1. CASE d = c
      <3>1. Keeps(pc'[c], Lookup(c)) = T
        BY <1>1, <1>3 DEF IInv, Shape, Keeps
      <3>2. (\E b \in Blocks : owner'[b] = <<c, t>>) <=> t \in T
        BY <1>5, <1>10
      <3> QED
        BY <2>1, <3>1, <3>2
    <2>2. CASE d # c
      <3>1. (\E b \in Blocks : owner'[b] = <<d, t>>) <=> (\E b \in Blocks : owner[b] = <<d, t>>)
        BY <1>9, <2>2
      <3>2. (\E b \in Blocks : owner[b] = <<d, t>>) <=> t \in Keeps(pc[d], Lookup(d))
        BY DEF IInv, HeldInv
      <3>3. pc'[d] = pc[d]
        BY <1>1, <2>2 DEF IInv, Shape
      <3> QED
        BY <3>1, <3>2, <3>3
    <2> QED
      BY <2>1, <2>2
  <1>13. ASSUME AllFit PROVE SoundInv(content', queue', pool')
    <2> SUFFICES ASSUME NEW s \in Streams PROVE QueueInv(queue[s], s, content, pool')
      BY <1>1, <1>13 DEF IInv, SoundInv
    <2>1. \A b \in Blocks : pool[b] = s => pool'[b] = s
      <3> SUFFICES ASSUME NEW b \in Blocks, pool[b] = s PROVE pool'[b] = s
        OBVIOUS
      <3>1. s # Nobody
        BY LaunchAssumption
      <3> QED
        BY <1>6, <1>7, <3>1
    <2>2. QueueInv(queue[s], s, content, pool)
      BY <1>13 DEF IInv, SoundInv
    <2> QED
      BY <2>1, <2>2 DEF QueueInv, EntryInv
  <1>14. (AllFit' <=> AllFit) /\ \A d \in Calls \ {c} : Found(d) \subseteq Found(d)'
    <2>1. \A d \in Calls \ {c} : Ready(d) \subseteq Ready(d)'
      BY <1>1, <1>9 DEF Ready
    <2> QED
      BY <1>1, <2>1, FitFrame, FoundKept
  <1>15. CallInv(pc'[c], ops'[c], pending'[c], bodies'[c], Lookup(c), record[c], Found(c)')
    <2>1. pending[c] = <<>>
          /\ (bodies[c] \subseteq {FormOf(record[c])} \/ Loose(Lookup(c), record[c]))
      BY <1>1 DEF IInv, CallInv
    <2>2. pc'[c] = "python" /\ ops'[c] = Plan(Lookup(c))
      BY <1>1 DEF IInv, Shape
    <2>3. Plan(Lookup(c)) \in Ops(Lookup(c)) /\ Due(Plan(Lookup(c)), Lookup(c)) = {}
      <3>1. Lookup(c).family \in {"Forward", "Backward", "GroupedBackward", "GroupedForwardPair"}
        BY RecordKinds DEF IInv, Shape, Lookup
      <3>2. Plan(Lookup(c)) # <<>>
        <4>1. <<"split", "split_reduce">> # <<>> /\ \A op : <<op>> # <<>>
          OBVIOUS
        <4>2. \/ Plan(Lookup(c)) = <<"split", "split_reduce">>
              \/ \E op : Plan(Lookup(c)) = <<op>>
          BY <3>1, KeyKinds
        <4> QED
          BY <4>1, <4>2, Zenon
      <3> QED
        BY <3>2 DEF Ops, Due
    <2>4. Suits(<<>>, Lookup(c), record[c], Found(c)', {})
      BY SuitsEmpty
    <2> QED
      BY <1>1, <2>1, <2>2, <2>3, <2>4 DEF CallInv
  <1>16. \A d \in Calls \ {c} : /\ pc'[d] = pc[d] /\ ops'[d] = ops[d]
                                /\ pending'[d] = pending[d] /\ bodies'[d] = bodies[d]
    BY <1>1 DEF IInv, Shape
  <1>17. \A d \in Calls : CallInv(pc'[d], ops'[d], pending'[d], bodies'[d], Lookup(d)', record'[d], Found(d)')
    BY <1>1, <1>14, <1>15, <1>16, HostFrame
  <1>18. OwnerInv(owner, pool)' /\ HeldInv(owner, pc)'
    BY <1>1, <1>11, <1>12 DEF OwnerInv, HeldInv, Lookup
  <1>19. SoundInv(content, queue, pool)' <=> SoundInv(content', queue', pool')
    BY DEF SoundInv
  <1> QED
    BY <1>2, <1>13, <1>14, <1>17, <1>18, <1>19 DEF IInv

(* A private operation starts, or has launched all it launches.            *)
LEMMA OperationStep ==
    ASSUME IInv, NEW c \in Calls, Enter(c) \/ Leave(c)
    PROVE  IInv'
  <1> DEFINE r == record[c]
             key == Lookup(c)
  <1>1. /\ UNCHANGED <<record, tabled, stream, bodies, owner, pool, content, queue>>
        /\ \E place \in {"python", "native"} :
             pc[c] \in {"python", "native"} /\ pc' = [pc EXCEPT ![c] = place]
        /\ ops' = [d \in Calls |-> ops'[d]] /\ pending' = [d \in Calls |-> pending'[d]]
    BY DEF Enter, Leave, calls, memory, IInv, Shape
  <1>2. /\ pc[c] \in {"python", "native"} /\ pc'[c] \in {"python", "native"}
        /\ \A d \in Calls \ {c} : pc'[d] = pc[d]
    BY <1>1 DEF IInv, Shape
  <1>3. Shape'
    <2>1. pc' \in [Calls -> {"called", "python", "native", "returned", "raised"}]
      BY <1>1 DEF IInv, Shape
    <2> QED
      BY <1>1, <2>1 DEF IInv, Shape
  <1>4. \A d \in Calls : Keeps(pc'[d], Lookup(d)) = Keeps(pc[d], Lookup(d))
    BY <1>2 DEF Keeps
  <1>5. (AllFit' <=> AllFit) /\ \A d \in Calls : Found(d)' = Found(d)
    <2>1. \A d \in Calls : Ready(d)' = Ready(d)
      BY <1>1 DEF Ready
    <2>2. AllFit' <=> AllFit
      BY <1>1, FitFrame
    <2> QED
      BY <2>1, <2>2 DEF Found
  <1>6. CallInv(pc[c], ops[c], pending[c], bodies[c], key, r, Found(c)) /\ r \in Records
    BY DEF IInv, Shape
  <1>7. (OwnerInv(owner, pool) /\ HeldInv(owner, pc))' /\ (AllFit => SoundInv(content, queue, pool)')
    BY <1>1, <1>4 DEF IInv, OwnerInv, HeldInv, SoundInv, Lookup
  <1>8. CASE Enter(c)
    <2>1. /\ pc[c] = "python" /\ pc'[c] = "native" /\ ops[c] # <<>>
          /\ Accepts(Head(ops[c]), r, tabled[c])
          /\ pending'[c] = Launches(Head(ops[c]), r) /\ ops'[c] = Tail(ops[c])
          /\ \A d \in Calls \ {c} : pending'[d] = pending[d] /\ ops'[d] = ops[d]
      BY <1>8 DEF Enter, IInv, Shape
    <2>2. ops[c] \in Ops(key) /\ Suits(<<>>, key, r, Found(c), Due(ops[c], key) \ Found(c))
      BY <1>6, <2>1 DEF CallInv
    <2>3. Due(ops[c], key) \subseteq Found(c)
      BY <2>2, SuitsEmpty
    <2> DEFINE op == Head(ops[c])
    <2>4. key = Key(r, tabled[c])
      BY LookedUp
    <2> HIDE DEF key
    <2>5. /\ Tail(ops[c]) \in Ops(key) /\ Suits(Launches(op, r), key, r, Given(op), Result(op, key))
          /\ Given(op) \subseteq Due(ops[c], key) /\ Due(Tail(ops[c]), key) \subseteq Result(op, key)
      BY <1>6, <2>1, <2>2, <2>4, NextOperation
    <2> HIDE DEF op
    <2>6. Suits(Launches(op, r), key, r, Found(c), Due(Tail(ops[c]), key) \ Found(c))
      BY <2>3, <2>5, SuitsMore
    <2>7. CallInv(pc'[c], ops'[c], pending'[c], bodies'[c], key, r, Found(c)')
      BY <1>1, <1>5, <1>6, <2>1, <2>5, <2>6 DEF CallInv, op
    <2>8. \A d \in Calls : CallInv(pc'[d], ops'[d], pending'[d], bodies'[d], Lookup(d)', record'[d], Found(d)')
      BY <1>1, <1>2, <1>5, <2>1, <2>7, HostFrame DEF key
    <2> QED
      BY <1>3, <1>5, <1>7, <2>8 DEF IInv
  <1>9. CASE Leave(c)
    <2>1. /\ pc[c] = "native" /\ pc'[c] = "python" /\ pending[c] = <<>>
          /\ UNCHANGED <<ops, pending>>
      BY <1>9 DEF Leave, IInv, Shape
    <2>2. CallInv(pc'[c], ops'[c], pending'[c], bodies'[c], key, r, Found(c)')
      BY <1>1, <1>5, <1>6, <2>1 DEF CallInv
    <2>3. \A d \in Calls : CallInv(pc'[d], ops'[d], pending'[d], bodies'[d], Lookup(d)', record'[d], Found(d)')
      BY <1>1, <1>2, <1>5, <2>1, <2>2, HostFrame
    <2> QED
      BY <1>3, <1>5, <1>7, <2>3 DEF IInv
  <1> QED
    BY <1>8, <1>9

(* The public operation returns its outputs and drops its scratch tensors. *)
LEMMA ReturnStep ==
    ASSUME IInv, NEW c \in Calls, Return(c)
    PROVE  IInv'
  <1> DEFINE D == {b \in Held(c) : owner[b][2] \in Scratch(Lookup(c))}
  <1>1. /\ pc[c] = "python" /\ ops[c] = <<>>
        /\ pc' = [pc EXCEPT ![c] = "returned"] /\ Drop(D) /\ D \in SUBSET Blocks
        /\ UNCHANGED <<record, tabled, stream, ops, pending, bodies, pool, content, queue>>
        /\ pc'[c] = "returned" /\ \A d \in Calls \ {c} : pc'[d] = pc[d]
    BY DEF Return, Held, calls, IInv, Shape
  <1>2. Shape'
    BY <1>1 DEF IInv, Shape
  <1>3. \A b \in Blocks, t \in TensorNames : owner[b] = <<c, t>> => (b \in D <=> t \in Scratch(Lookup(c)))
    BY HeldBlocks
  <1>4. \A b \in Blocks : b \in D => \E t \in TensorNames : owner[b] = <<c, t>>
    BY HeldBlocks
  <1> HIDE DEF D
  <1>5. /\ OwnerInv(owner', pool')
        /\ \A b \in Blocks, d \in Calls, t \in TensorNames :
             owner'[b] = <<d, t>> <=> owner[b] = <<d, t>> /\ b \notin D
        /\ \A d \in Calls : Ready(d) \subseteq Ready(d)'
        /\ AllFit => SoundInv(content', queue', pool')
    BY <1>1, Dropped
  <1>6. ASSUME NEW d \in Calls, NEW t \in TensorNames
        PROVE  (\E b \in Blocks : owner'[b] = <<d, t>>) <=> t \in Keeps(pc'[d], Lookup(d))
    <2>1. (\E b \in Blocks : owner[b] = <<d, t>>) <=> t \in Keeps(pc[d], Lookup(d))
      BY DEF IInv, HeldInv
    <2>2. CASE d = c
      <3>1. \A b \in Blocks : owner'[b] = <<c, t>> <=> owner[b] = <<c, t>> /\ t \notin Scratch(Lookup(c))
        BY <1>3, <1>5
      <3>2. /\ Keeps(pc[c], Lookup(c)) = Scratch(Lookup(c)) \cup Outputs(Lookup(c))
            /\ Keeps(pc'[c], Lookup(c)) = Outputs(Lookup(c))
        BY <1>1 DEF Keeps
      <3>3. Scratch(Lookup(c)) \cap Outputs(Lookup(c)) = {}
        BY DEF Scratch, Outputs
      <3> QED
        BY <2>1, <2>2, <3>1, <3>2, <3>3
    <2>3. CASE d # c
      <3>1. \A b \in Blocks : owner[b] = <<d, t>> => b \notin D
        BY <1>4, <2>3
      <3>2. \A b \in Blocks : owner'[b] = <<d, t>> <=> owner[b] = <<d, t>>
        BY <1>5, <3>1
      <3> QED
        BY <1>1, <2>1, <2>3, <3>2
    <2> QED
      BY <2>2, <2>3
  <1>7. CallInv(pc[c], ops[c], pending[c], bodies[c], Lookup(c), record[c], Found(c))
    BY DEF IInv
  <1>8. CallInv(pc'[c], ops'[c], pending'[c], bodies'[c], Lookup(c), record[c], Found(c))
    BY <1>1, <1>7 DEF CallInv
  <1>9. (AllFit' <=> AllFit) /\ \A d \in Calls : Found(d) \subseteq Found(d)'
    BY <1>1, <1>5, FitFrame, FoundKept
  <1>10. CallInv(pc'[c], ops'[c], pending'[c], bodies'[c], Lookup(c), record[c], Found(c)')
    BY <1>8, <1>9, CallKept
  <1>11. \A d \in Calls : CallInv(pc'[d], ops'[d], pending'[d], bodies'[d], Lookup(d)', record'[d], Found(d)')
    BY <1>1, <1>9, <1>10, HostFrame
  <1>12. OwnerInv(owner, pool)' /\ (SoundInv(content, queue, pool)' <=> SoundInv(content', queue', pool'))
    BY <1>1, <1>5 DEF OwnerInv, SoundInv
  <1>13. HeldInv(owner, pc)'
    BY <1>1, <1>6 DEF HeldInv, Lookup
  <1> QED
    BY <1>2, <1>5, <1>9, <1>11, <1>12, <1>13 DEF IInv

LEMMA BlockOfTensor ==
    ASSUME IInv, NEW c \in Calls, NEW t \in TensorNames, NEW b \in Blocks, owner[b] = <<c, t>>
    PROVE  BlockOf(c, t) = b
  <1>1. owner[b] # Free
    BY LaunchAssumption
  <1>2. \A d \in Blocks : owner[d] = <<c, t>> => d = b
    BY <1>1 DEF IInv, OwnerInv
  <1> QED
    BY <1>2 DEF BlockOf

(* A kernel is launched behind those that supply it. *)
LEMMA LaunchStep ==
    ASSUME IInv, NEW c \in Calls, Launch(c)
    PROVE  IInv'
  <1> DEFINE r == record[c]
             key == Lookup(c)
             k == Head(pending[c])
             e == Enqueued(c, k)
             s == stream[c]
  <1>1. /\ pc[c] = "native" /\ pending[c] # <<>>
        /\ queue' = [queue EXCEPT ![s] = Append(queue[s], e)]
        /\ bodies' = [bodies EXCEPT ![c] = IF k.name = "body" THEN bodies[c] \cup {k.form} ELSE bodies[c]]
        /\ pending' = [pending EXCEPT ![c] = Tail(pending[c])]
        /\ UNCHANGED <<record, tabled, stream, pc, ops, owner, pool, content>>
    BY DEF Launch, calls, memory, IInv, Shape
  <1>2. r \in Records /\ s \in Streams /\ queue[s] \in Seq(Entries) /\ Len(queue[s]) \in Nat
    BY DEF IInv, Shape
  <1>3. CallInv(pc[c], ops[c], pending[c], bodies[c], key, r, Found(c)) /\ ops[c] \in Ops(key)
        /\ Suits(pending[c], key, r, Found(c), Due(ops[c], key) \ Found(c))
    BY <1>1 DEF IInv, CallInv
  <1>4. /\ k \in Kernels /\ k.reads \subseteq Found(c)
        /\ k.reads \cup k.writes \subseteq Scratch(key) \cup Outputs(key)
        /\ k.name = "body" => Formed(k.form, key, r)
        /\ Suits(Tail(pending[c]), key, r, Found(c) \cup k.writes, (Due(ops[c], key) \ Found(c)) \ k.writes)
    <2> DEFINE l == pending[c]
               given == Found(c)
               results == Due(ops[c], key) \ Found(c)
    <2>1. l # <<>> /\ Suits(l, key, r, given, results) /\ k = Head(l)
      BY <1>1, <1>3
    <2> HIDE DEF l, given, results, k, key, r, e, s
    <2>2. /\ k \in Kernels /\ k.reads \subseteq given
          /\ k.reads \cup k.writes \subseteq Scratch(key) \cup Outputs(key)
          /\ k.name = "body" => Formed(k.form, key, r)
          /\ Suits(Tail(l), key, r, given \cup k.writes, results \ k.writes)
      BY <2>1, SuitsTail, Zenon
    <2> QED
      BY <2>2 DEF l, given, results
  <1> HIDE DEF k
  <1>5. ASSUME NEW t \in k.reads \cup k.writes
        PROVE  t \in TensorNames /\ BlockOf(c, t) \in Blocks /\ owner[BlockOf(c, t)] = <<c, t>>
               /\ e.block[t] = BlockOf(c, t) /\ pool[BlockOf(c, t)] = s
    <2>1. t \in TensorNames /\ t \in Keeps(pc[c], key)
      BY <1>1, <1>4, TensorsNamed DEF Keeps
    <2>2. PICK b \in Blocks : owner[b] = <<c, t>>
      BY <2>1 DEF IInv, HeldInv
    <2>3. BlockOf(c, t) = b
      BY <2>1, <2>2, BlockOfTensor
    <2> QED
      BY <2>1, <2>2, <2>3 DEF Enqueued, IInv, OwnerInv
  <1>6. /\ e.call = c /\ e.reads = k.reads /\ e.writes = k.writes /\ e.fits = Fits(k, r)
        /\ e.block = [t \in k.reads \cup k.writes |-> BlockOf(c, t)]
    BY DEF Enqueued
  <1>7. e \in Entries
    <2>1. k.reads \subseteq TensorNames /\ k.writes \subseteq TensorNames
          /\ k.reads \cup k.writes \in SUBSET TensorNames
      BY <1>5
    <2>2. e.block \in [k.reads \cup k.writes -> Blocks]
      BY <1>5, <1>6
    <2>3. e.block \in UNION {[T -> Blocks] : T \in SUBSET TensorNames}
      BY <2>1, <2>2
    <2>4. Fits(k, r) \in BOOLEAN
      BY DEF Fits
    <2> QED
      BY <1>6, <2>1, <2>3, <2>4 DEF Entries, Enqueued
  <1> HIDE DEF e
  <1>8. AllFit' => AllFit /\ EntryInv(e, s, pool)
    <2>1. \A d \in Calls : bodies[d] \subseteq bodies'[d]
      BY <1>1 DEF IInv, Shape
    <2>2. AllFit' => AllFit
      BY <1>1, <2>1 DEF AllFit, Misfit
    <2>3. k.name = "body" => k.form \in bodies'[c]
      BY <1>1 DEF IInv, Shape
    <2>4. AllFit' => bodies'[c] \subseteq {FormOf(r)}
      BY <1>1 DEF AllFit, Misfit
    <2>5. AllFit' => e.fits
      BY <1>6, <2>3, <2>4 DEF Fits
    <2>6. \A t \in e.reads \cup e.writes : e.block[t] \in Blocks /\ pool[e.block[t]] = s
      BY <1>5, <1>6
    <2>7. ASSUME NEW t \in e.writes, NEW u \in e.writes, e.block[t] = e.block[u] PROVE t = u
      <3>1. owner[e.block[t]] = <<c, t>> /\ owner[e.block[u]] = <<c, u>>
        BY <1>5, <1>6
      <3> QED
        BY <2>7, <3>1
    <2> QED
      BY <2>2, <2>5, <2>6, <2>7, Zenon DEF EntryInv
  <1>9. ASSUME NEW d \in Calls, NEW t \in TensorNames, NEW b \in Blocks, owner[b] = <<d, t>>, Touches(e, b)
        PROVE  d = c /\ t \in k.writes
    <2>1. PICK u \in k.writes : b = BlockOf(c, u)
      BY <1>5, <1>6, <1>9 DEF Touches
    <2>2. owner[b] = <<c, u>>
      BY <1>5, <2>1
    <2> QED
      BY <1>9, <2>2
  <1>10. Shape'
    <2>1. Append(queue[s], e) \in Seq(Entries)
      BY <1>2, <1>7
    <2> QED
      BY <1>1, <1>2, <2>1 DEF IInv, Shape
  <1>11. queue'[s] = Append(queue[s], e) /\ \A x \in Streams \ {s} : queue'[x] = queue[x]
    BY <1>1, <1>2 DEF IInv, Shape
  <1> DEFINE q == queue[s]
             n == Len(queue[s])
  <1>12. ASSUME AllFit' PROVE QueueInv(Append(q, e), s, content, pool)
    <2>1. /\ Append(q, e) \in Seq(Entries) /\ Len(Append(q, e)) = n + 1
          /\ Append(q, e)[n + 1] = e /\ \A i \in 1 .. n : Append(q, e)[i] = q[i]
      BY <1>2, <1>7
    <2>2. QueueInv(q, s, content, pool) /\ Found(c) = Ready(c)
      BY <1>2, <1>8, <1>12 DEF IInv, SoundInv, Found
    <2>3. ASSUME NEW i \in 1 .. n
          PROVE  /\ EntryInv(q[i], s, pool)
                 /\ \A t \in q[i].reads : Supplied(Append(q, e), content, i, q[i].block[t], <<q[i].call, t>>)
      <3>1. i \in 1 .. Len(q) /\ i \in 1 .. Len(q) + 1
        BY <1>2
      <3>2. /\ EntryInv(q[i], s, pool)
            /\ \A t \in q[i].reads : Supplied(q, content, i, q[i].block[t], <<q[i].call, t>>)
        BY <2>2, <3>1 DEF QueueInv
      <3> QED
        BY <1>2, <1>7, <3>1, <3>2, SuppliedAppend
    <2>4. ASSUME NEW t \in e.reads
          PROVE  Supplied(Append(q, e), content, n + 1, e.block[t], <<e.call, t>>)
      <3>1. t \in Ready(c) /\ e.block[t] \in Blocks /\ owner[e.block[t]] = <<c, t>>
        BY <1>4, <1>5, <1>6, <2>2
      <3>2. Supplied(q, content, n + 1, e.block[t], <<c, t>>)
        BY <3>1 DEF Ready
      <3>3. n + 1 \in 1 .. Len(q) + 1
        BY <1>2
      <3> QED
        BY <1>2, <1>6, <1>7, <3>2, <3>3, SuppliedAppend
    <2>5. \A i \in 1 .. n + 1 : i \in 1 .. n \/ i = n + 1
      BY <1>2
    <2> QED
      BY <1>8, <1>12, <2>1, <2>3, <2>4, <2>5 DEF QueueInv
  <1>13. ASSUME AllFit' PROVE SoundInv(content', queue', pool')
    <2>1. \A x \in Streams : QueueInv(queue'[x], x, content, pool)
      BY <1>8, <1>11, <1>12, <1>13 DEF IInv, SoundInv
    <2> QED
      BY <1>1, <1>8, <1>13, <2>1 DEF IInv, SoundInv
  <1>14. ASSUME NEW d \in Calls, NEW t \in Ready(d) PROVE t \in Ready(d)'
    <2> SUFFICES ASSUME NEW b \in Blocks, owner[b] = <<d, t>>
                 PROVE  Supplied(queue'[stream[d]], content, Len(queue'[stream[d]]) + 1, b, <<d, t>>)
      BY <1>1 DEF Ready
    <2>1. t \in TensorNames /\ Supplied(queue[stream[d]], content, Len(queue[stream[d]]) + 1, b, <<d, t>>)
      BY DEF Ready
    <2>2. CASE stream[d] # s
      <3>1. queue'[stream[d]] = queue[stream[d]]
        BY <1>11, <2>2 DEF IInv, Shape
      <3> QED
        BY <2>1, <3>1
    <2>3. CASE stream[d] = s
      <3>1. Len(Append(q, e)) + 1 = n + 2
        BY <1>2, <1>7
      <3>2. CASE ~ Touches(e, b)
        <4>1. Supplied(Append(q, e), content, n + 2, b, <<d, t>>)
          BY <1>2, <1>7, <2>1, <2>3, <3>2, SuppliedAppend
        <4> QED
          BY <1>11, <2>3, <3>1, <4>1
      <3>3. CASE Touches(e, b)
        <4>1. d = c /\ t \in k.writes
          BY <1>9, <2>1, <3>3
        <4>2. Delivers(e, b, <<d, t>>)
          BY <1>5, <1>6, <2>1, <4>1, BlockOfTensor DEF Delivers
        <4>3. Supplied(Append(q, e), content, n + 2, b, <<d, t>>)
          BY <1>2, <1>7, <4>2, SuppliedAppend
        <4> QED
          BY <1>11, <2>3, <3>1, <4>3
      <3> QED
        BY <3>2, <3>3
    <2> QED
      BY <2>2, <2>3
  <1>15. ASSUME NEW t \in k.writes PROVE t \in Ready(c)'
    <2> SUFFICES ASSUME NEW b \in Blocks, owner[b] = <<c, t>>
                 PROVE  Supplied(queue'[s], content, Len(queue'[s]) + 1, b, <<c, t>>)
      BY <1>1, <1>5 DEF Ready
    <2>1. Len(Append(q, e)) + 1 = n + 2
      BY <1>2, <1>7
    <2>2. Delivers(e, b, <<c, t>>)
      BY <1>5, <1>6, BlockOfTensor DEF Delivers
    <2>3. Supplied(Append(q, e), content, n + 2, b, <<c, t>>)
      BY <1>2, <1>7, <2>2, SuppliedAppend
    <2> QED
      BY <1>11, <2>1, <2>3
  <1>16. /\ \A d \in Calls : Found(d) \subseteq Found(d)'
         /\ Found(c) \cup k.writes \subseteq Found(c)'
    <2>1. \A d \in Calls : Found(d) \subseteq Found(d)'
      BY <1>8, <1>14, FoundKept
    <2>2. k.writes \subseteq Found(c)'
      <3>1. k.writes \subseteq TensorNames /\ k.writes \subseteq Ready(c)'
        BY <1>5, <1>15
      <3> QED
        BY <3>1 DEF Found
    <2> QED
      BY <2>1, <2>2
  <1>17. CallInv(pc'[c], ops'[c], pending'[c], bodies'[c], key, r, Found(c)')
    <2>1. Due(ops[c], key) \ Found(c)' \subseteq (Due(ops[c], key) \ Found(c)) \ k.writes
      BY <1>16
    <2>2. Suits(Tail(pending[c]), key, r, Found(c)', Due(ops[c], key) \ Found(c)')
      BY <1>4, <1>16, <2>1, SuitsMore
    <2>3. bodies'[c] \subseteq {FormOf(r)} \/ Loose(key, r)
      <3>1. bodies[c] \subseteq {FormOf(r)} \/ Loose(key, r)
        BY <1>3 DEF CallInv
      <3>2. bodies'[c] = IF k.name = "body" THEN bodies[c] \cup {k.form} ELSE bodies[c]
        BY <1>1 DEF IInv, Shape
      <3> QED
        BY <1>4, <3>1, <3>2 DEF Formed
    <2>4. pending'[c] = Tail(pending[c]) /\ pc'[c] = "native" /\ ops'[c] = ops[c]
      BY <1>1 DEF IInv, Shape
    <2> QED
      BY <1>3, <2>2, <2>3, <2>4 DEF CallInv
  <1>18. \A d \in Calls \ {c} : /\ pc'[d] = pc[d] /\ ops'[d] = ops[d]
                                /\ pending'[d] = pending[d] /\ bodies'[d] = bodies[d]
    BY <1>1 DEF IInv, Shape
  <1>19. \A d \in Calls : CallInv(pc'[d], ops'[d], pending'[d], bodies'[d], Lookup(d)', record'[d], Found(d)')
    BY <1>1, <1>16, <1>17, <1>18, HostFrame
  <1>20. (OwnerInv(owner, pool) /\ HeldInv(owner, pc))'
    BY <1>1 DEF IInv, OwnerInv, HeldInv, Lookup
  <1>21. SoundInv(content, queue, pool)' <=> SoundInv(content', queue', pool')
    BY DEF SoundInv
  <1> QED
    BY <1>10, <1>13, <1>19, <1>20, <1>21 DEF IInv

(* A stream runs its first kernel: what it reads is there, so what it      *)
(* writes is a result.                                                     *)
LEMMA SoundRun ==
    ASSUME IInv, AllFit, NEW s \in Streams, Run(s)
    PROVE  /\ SoundInv(content', queue', pool')
           /\ \A d \in Calls : Ready(d) \subseteq Ready(d)'
  <1> DEFINE q == queue[s]
             k == Head(q)
             n == Len(q)
  <1>1. /\ q # <<>> /\ queue' = [queue EXCEPT ![s] = Tail(q)]
        /\ UNCHANGED <<record, tabled, stream, pc, ops, pending, bodies, owner, pool>>
    BY DEF Run, calls, host, memory
  <1>2. QueueInv(q, s, content, pool) /\ queue'[s] = Tail(q) /\ \A x \in Streams \ {s} : queue'[x] = queue[x]
    BY <1>1 DEF IInv, Shape, SoundInv
  <1>3. /\ q \in Seq(Entries) /\ n \in Nat \ {0} /\ k \in Entries /\ q[1] = k
        /\ Tail(q) \in Seq(Entries) /\ Len(Tail(q)) = n - 1
        /\ \A i \in 1 .. n - 1 : Tail(q)[i] = q[i + 1]
    BY <1>1, <1>2 DEF QueueInv
  <1>4. EntryInv(k, s, pool) /\ k.fits /\ \A t \in k.reads : Supplied(q, content, 1, k.block[t], <<k.call, t>>)
    BY <1>2, <1>3 DEF QueueInv, EntryInv
  <1>5. \A t \in k.reads : content[k.block[t]] = <<k.call, t>>
    BY <1>4 DEF Supplied
  <1>6. content' = [b \in Blocks |-> IF \E t \in k.writes : k.block[t] = b
                                     THEN <<k.call, CHOOSE t \in k.writes : k.block[t] = b>>
                                     ELSE content[b]]
    BY <1>4, <1>5 DEF Run
  <1> HIDE DEF q, k, n
  <1>7. ASSUME NEW t \in k.writes
        PROVE  k.block[t] \in Blocks /\ content'[k.block[t]] = <<k.call, t>>
    <2>1. k.block[t] \in Blocks /\ \A u \in k.writes : k.block[u] = k.block[t] => u = t
      BY <1>4 DEF EntryInv
    <2>2. (CHOOSE u \in k.writes : k.block[u] = k.block[t]) = t
      BY <2>1
    <2> QED
      BY <1>6, <2>1, <2>2
  <1>8. \A b \in Blocks : ~ Touches(k, b) => content'[b] = content[b]
    BY <1>6 DEF Touches
  <1>9. \A b, v : Delivers(k, b, v) => content'[b] = v
    BY <1>7 DEF Delivers
  <1>10. \A b \in Blocks : pool[b] # s => content'[b] = content[b]
    <2> SUFFICES ASSUME NEW b \in Blocks, pool[b] # s PROVE ~ Touches(k, b)
      BY <1>8
    <2> QED
      BY <1>4 DEF Touches, EntryInv
  <1>11. \A b \in Blocks : content'[b] # Stale
    <2> SUFFICES ASSUME NEW b \in Blocks PROVE content'[b] # Stale
      OBVIOUS
    <2>1. CASE Touches(k, b)
      <3>1. PICK t \in k.writes : k.block[t] = b
        BY <2>1 DEF Touches
      <3>2. t \in TensorNames /\ k.call \in Calls
        BY <1>3 DEF Entries
      <3>3. content'[b] = <<k.call, t>>
        BY <1>7, <3>1
      <3> QED
        BY <3>2, <3>3, LaunchAssumption
    <2>2. CASE ~ Touches(k, b)
      BY <1>8, <2>2 DEF IInv, SoundInv
    <2> QED
      BY <2>1, <2>2
  <1>12. ASSUME NEW i \in 1 .. n, NEW b \in Blocks, NEW v, Supplied(q, content, i + 1, b, v)
         PROVE  Supplied(Tail(q), content', i, b, v)
    <2>1. /\ Delivers(Head(q), b, v) => content'[b] = v
          /\ ~ Touches(Head(q), b) => content'[b] = content[b]
      BY <1>8, <1>9 DEF k
    <2>2. i \in 1 .. Len(q) /\ q # <<>> /\ q \in Seq(Entries)
      BY <1>1, <1>3 DEF n
    <2> QED
      BY <1>12, <2>1, <2>2, SuppliedTail
  <1>13. QueueInv(Tail(q), s, content', pool)
    <2>1. ASSUME NEW i \in 1 .. n - 1
          PROVE  /\ EntryInv(Tail(q)[i], s, pool)
                 /\ \A t \in Tail(q)[i].reads :
                      Supplied(Tail(q), content', i, Tail(q)[i].block[t], <<Tail(q)[i].call, t>>)
      <3>1. i \in 1 .. n /\ i + 1 \in 1 .. n /\ Tail(q)[i] = q[i + 1]
        BY <1>3
      <3>2. /\ EntryInv(q[i + 1], s, pool)
            /\ \A t \in q[i + 1].reads :
                 Supplied(q, content, i + 1, q[i + 1].block[t], <<q[i + 1].call, t>>)
        BY <1>2, <3>1 DEF QueueInv, n
      <3>3. \A t \in q[i + 1].reads : q[i + 1].block[t] \in Blocks
        BY <3>2 DEF EntryInv
      <3> QED
        BY <1>12, <3>1, <3>2, <3>3
    <2> QED
      BY <1>3, <2>1 DEF QueueInv
  <1>14. ASSUME NEW x \in Streams \ {s} PROVE QueueInv(queue[x], x, content', pool)
    <2>1. QueueInv(queue[x], x, content, pool)
      BY DEF IInv, SoundInv
    <2>2. ASSUME NEW i \in 1 .. Len(queue[x]), NEW t \in queue[x][i].reads
          PROVE  Supplied(queue[x], content', i, queue[x][i].block[t], <<queue[x][i].call, t>>)
      <3>1. /\ queue[x][i].block[t] \in Blocks /\ pool[queue[x][i].block[t]] = x
            /\ Supplied(queue[x], content, i, queue[x][i].block[t], <<queue[x][i].call, t>>)
        BY <2>1 DEF QueueInv, EntryInv
      <3>2. content'[queue[x][i].block[t]] = content[queue[x][i].block[t]]
        BY <1>10, <3>1
      <3> QED
        BY <3>1, <3>2 DEF Supplied
    <2> QED
      BY <2>1, <2>2 DEF QueueInv
  <1>15. \A x \in Streams : QueueInv(queue'[x], x, content', pool')
    BY <1>1, <1>2, <1>13, <1>14 DEF q
  <1>16. ASSUME NEW d \in Calls, NEW t \in Ready(d) PROVE t \in Ready(d)'
    <2> SUFFICES ASSUME NEW b \in Blocks, owner[b] = <<d, t>>
                 PROVE  Supplied(queue'[stream[d]], content', Len(queue'[stream[d]]) + 1, b, <<d, t>>)
      BY <1>1 DEF Ready
    <2>1. /\ t \in TensorNames /\ stream[d] \in Streams /\ pool[b] = stream[d]
          /\ Supplied(queue[stream[d]], content, Len(queue[stream[d]]) + 1, b, <<d, t>>)
      BY DEF Ready, IInv, OwnerInv, Shape
    <2>2. CASE stream[d] = s
      <3>1. n \in 1 .. n /\ Len(Tail(q)) + 1 = n
        BY <1>3
      <3>2. Supplied(q, content, n + 1, b, <<d, t>>)
        BY <2>1, <2>2 DEF q, n
      <3> QED
        BY <1>2, <1>12, <2>2, <3>1, <3>2
    <2>3. CASE stream[d] # s
      <3>1. content'[b] = content[b] /\ queue'[stream[d]] = queue[stream[d]]
        BY <1>2, <1>10, <2>1, <2>3
      <3> QED
        BY <2>1, <3>1 DEF Supplied
    <2> QED
      BY <2>2, <2>3
  <1> QED
    BY <1>1, <1>11, <1>15, <1>16 DEF SoundInv

LEMMA RunStep ==
    ASSUME IInv, NEW s \in Streams, Run(s)
    PROVE  IInv'
  <1> DEFINE k == Head(queue[s])
  <1>1. /\ queue[s] # <<>> /\ queue' = [queue EXCEPT ![s] = Tail(queue[s])]
        /\ UNCHANGED <<record, tabled, stream, pc, ops, pending, bodies, owner, pool>>
    BY DEF Run, calls, host, memory
  <1>2. queue[s] \in Seq(Entries) /\ Tail(queue[s]) \in Seq(Entries) /\ k \in Entries
    BY <1>1 DEF IInv, Shape
  <1>3. content' \in [Blocks -> {Garbage, Stale} \cup (Calls \X TensorNames)]
    <2>1. content \in [Blocks -> {Garbage, Stale} \cup (Calls \X TensorNames)]
      BY DEF IInv, Shape
    <2>2. CASE \E spoiled \in SUBSET Blocks :
                 content' = [b \in Blocks |-> IF b \in spoiled THEN Stale ELSE content[b]]
      BY <2>1, <2>2
    <2>3. CASE \E sound \in BOOLEAN :
                 content' = [b \in Blocks |->
                     IF \E t \in k.writes : k.block[t] = b
                     THEN IF sound THEN <<k.call, CHOOSE t \in k.writes : k.block[t] = b>> ELSE Stale
                     ELSE content[b]]
      <3>1. k.call \in Calls /\ k.writes \subseteq TensorNames
        BY <1>2 DEF Entries
      <3>2. \A b \in Blocks : (\E t \in k.writes : k.block[t] = b) =>
               (CHOOSE t \in k.writes : k.block[t] = b) \in TensorNames
        BY <3>1
      <3> HIDE DEF k
      <3> QED
        BY <2>1, <2>3, <3>1, <3>2
    <2>4. (\A t \in k.reads : content[k.block[t]] = <<k.call, t>>) \in BOOLEAN
      OBVIOUS
    <2> QED
      BY <2>2, <2>3, <2>4 DEF Run
  <1>4. Shape'
    BY <1>1, <1>2, <1>3 DEF IInv, Shape
  <1>5. (AllFit' <=> AllFit) /\ \A d \in Calls : Found(d) \subseteq Found(d)'
    BY <1>1, FitFrame, FoundKept, SoundRun
  <1>6. AllFit => SoundInv(content, queue, pool)'
    BY SoundRun DEF SoundInv
  <1>7. ASSUME NEW d \in Calls
        PROVE  CallInv(pc'[d], ops'[d], pending'[d], bodies'[d], Lookup(d)', record'[d], Found(d)')
    <2>1. /\ CallInv(pc[d], ops[d], pending[d], bodies[d], Lookup(d), record[d], Found(d))
          /\ Found(d) \subseteq Found(d)'
      BY <1>5 DEF IInv
    <2>2. CallInv(pc[d], ops[d], pending[d], bodies[d], Lookup(d), record[d], Found(d)')
      BY <2>1, CallKept
    <2> QED
      BY <1>1, <2>2 DEF Lookup
  <1>8. (OwnerInv(owner, pool) /\ HeldInv(owner, pc))'
    BY <1>1 DEF IInv, OwnerInv, HeldInv, Lookup
  <1> QED
    BY <1>4, <1>5, <1>6, <1>7, <1>8 DEF IInv

LEMMA NextInv == IInv /\ [Next]_vars => IInv'
  <1> SUFFICES ASSUME IInv, [Next]_vars PROVE IInv'
    OBVIOUS
  <1>1. CASE UNCHANGED vars
    <2>1. UNCHANGED <<record, tabled, stream, pc, ops, pending, bodies, owner, pool, content, queue>>
      BY <1>1 DEF vars, host, calls, memory
    <2>2. (AllFit' <=> AllFit) /\ \A d : Found(d)' = Found(d)
      BY <2>1, FitFrame DEF Found, Ready
    <2>3. (Shape /\ OwnerInv(owner, pool) /\ HeldInv(owner, pc))'
      BY <2>1 DEF IInv, Shape, OwnerInv, HeldInv, Lookup
    <2>4. AllFit => SoundInv(content, queue, pool)'
      BY <2>1 DEF IInv, SoundInv
    <2>5. \A c \in Calls :
             CallInv(pc[c], ops[c], pending[c], bodies[c], Lookup(c), record[c], Found(c))'
      BY <2>1, <2>2 DEF IInv, Lookup
    <2> QED
      BY <2>2, <2>3, <2>4, <2>5 DEF IInv
  <1>2. ASSUME NEW c \in Calls, HostStep(c) PROVE IInv'
    <2>1. CASE Allocate(c)
      BY <2>1, AllocateStep
    <2>2. CASE OutOfMemory(c) \/ Refuse(c) \/ LaunchFails(c)
      BY <2>2, RaiseStep DEF OutOfMemory, Refuse, LaunchFails, calls
    <2>3. CASE Enter(c) \/ Leave(c)
      BY <2>3, OperationStep
    <2>4. CASE Launch(c)
      BY <2>4, LaunchStep
    <2>5. CASE Return(c)
      BY <2>5, ReturnStep
    <2> QED
      BY <1>2, <2>1, <2>2, <2>3, <2>4, <2>5 DEF HostStep
  <1>3. ASSUME NEW s \in Streams, Run(s) PROVE IInv'
    BY <1>3, RunStep
  <1> QED
    BY <1>1, <1>2, <1>3 DEF Next

(* The invariant holds in every reachable state, whatever the calls, the   *)
(* streams and the memory of the device.                                   *)
THEOREM LaunchInvariant == Spec => []IInv
  BY InitInv, NextInv, PTL DEF Spec

(* The scratch tensors of a call are its own exactly as long as it is      *)
(* under way: one that has returned holds its outputs, one that raised     *)
(* nothing (torch.empty and the scopes of the public operations).          *)
THEOREM LaunchTypeCorrect == Spec => []TypeOK
  <1> SUFFICES ASSUME IInv PROVE TypeOK
    BY LaunchInvariant, PTL
  <1>1. ASSUME NEW c \in Calls
        PROVE  {owner[b][2] : b \in Held(c)} =
                  CASE pc[c] \in {"python", "native"} -> Tensors(c)
                    [] pc[c] = "returned" -> Outputs(record[c])
                    [] OTHER -> {}
    <2>1. Keeps(pc[c], Lookup(c)) \subseteq TensorNames
      BY TensorsNamed DEF Keeps
    <2>2. {owner[b][2] : b \in Held(c)} = Keeps(pc[c], Lookup(c))
      <3>1. ASSUME NEW b \in Held(c) PROVE owner[b][2] \in Keeps(pc[c], Lookup(c))
        <4>1. b \in Blocks
          BY DEF Held
        <4>2. PICK t \in TensorNames : owner[b] = <<c, t>>
          BY <4>1, HeldBlocks
        <4> QED
          BY <4>1, <4>2 DEF IInv, HeldInv
      <3>2. ASSUME NEW t \in Keeps(pc[c], Lookup(c)) PROVE \E b \in Held(c) : owner[b][2] = t
        <4>1. PICK b \in Blocks : owner[b] = <<c, t>>
          BY <2>1 DEF IInv, HeldInv
        <4> QED
          BY <2>1, <4>1, HeldBlocks
      <3> QED
        BY <3>1, <3>2
    <2>3. CASE pc[c] \in {"python", "native"}
      BY <2>2, <2>3, LookedUp DEF Keeps, Tensors
    <2>4. CASE pc[c] = "returned"
      BY <2>2, <2>4, LookedUp DEF Keeps
    <2>5. CASE pc[c] \notin {"python", "native", "returned"}
      BY <2>2, <2>5 DEF Keeps
    <2> QED
      BY <2>3, <2>4, <2>5
  <1>2. \A b \in Blocks : content[b] \in {Garbage, Stale} \cup (Calls \X TensorNames)
    BY DEF IInv, Shape
  <1> QED
    BY <1>1, <1>2 DEF TypeOK, IInv, Shape, OwnerInv

(* As long as every body was launched with its own arguments, no kernel of *)
(* a call computes from what another call left in a block or wrote to it   *)
(* meanwhile, although the scratch tensors of a call go back to the caching *)
(* allocator before its kernels have run.                                  *)
THEOREM LaunchReadsItsOwn == Spec => []NothingStale
  <1>1. IInv => NothingStale
    BY DEF IInv, SoundInv, NothingStale
  <1> QED
    BY <1>1, LaunchInvariant, PTL

(* Whatever sizes the Python tables and the native records have for a key, *)
(* the bodies that are launched take their own arguments, unless the tables *)
(* have no size for a backward record that has one.                        *)
THEOREM LaunchFormsAgree == Spec => []FormsMatch
  <1> SUFFICES ASSUME IInv PROVE FormsMatch
    BY LaunchInvariant, PTL
  <1> SUFFICES ASSUME NEW c \in Calls, Misfit(c) PROVE Omitted(c)
    BY DEF FormsMatch
  <1>1. bodies[c] \subseteq {FormOf(record[c])} \/ Loose(Lookup(c), record[c])
    BY DEF IInv, CallInv
  <1> QED
    BY <1>1 DEF Misfit, Loose, Lookup, Omitted

(* The outputs of a call that has returned are its own results as soon as  *)
(* its stream is idle: nothing that was launched later wrote to them.      *)
THEOREM ReturnedOutputsHold == Spec => []ReturnedIsComplete
  <1> SUFFICES ASSUME IInv PROVE ReturnedIsComplete
    BY LaunchInvariant, PTL
  <1> SUFFICES ASSUME AllFit,
                      NEW c \in Calls, pc[c] = "returned", queue[stream[c]] = <<>>,
                      NEW t \in Outputs(record[c])
               PROVE  content[BlockOf(c, t)] = <<c, t>>
    BY DEF ReturnedIsComplete
  <1>1. /\ ops[c] = <<>> /\ pending[c] = <<>>
        /\ Suits(pending[c], Lookup(c), record[c], Ready(c), Due(ops[c], Lookup(c)) \ Ready(c))
    BY DEF IInv, CallInv, Found
  <1>2. Due(ops[c], Lookup(c)) = Outputs(record[c])
    BY <1>1, LookedUp DEF Due
  <1>3. t \in Ready(c) /\ t \in TensorNames
    BY <1>1, <1>2, SuitsEmpty, TensorsNamed
  <1>4. PICK b \in Blocks : owner[b] = <<c, t>>
    <2>1. t \in Keeps(pc[c], Lookup(c))
      BY LookedUp DEF Keeps
    <2> QED
      BY <1>3, <2>1 DEF IInv, HeldInv
  <1>5. Supplied(<<>>, content, Len(<<>>) + 1, b, <<c, t>>)
    BY <1>3, <1>4 DEF Ready
  <1>6. content[b] = <<c, t>>
    BY <1>5 DEF Supplied
  <1> QED
    BY <1>3, <1>4, <1>6, BlockOfTensor
=============================================================================
