---------------------------- MODULE RoutedProofs -----------------------------
(***************************************************************************)
(* The routed entries are correct for every routing, workgroup width and   *)
(* row tile: the device row-task setup, whose inductive invariant says     *)
(* what the doubling scan has summed at each barrier; the paired launch,   *)
(* whose multiply writes each covered output cell exactly once; and the    *)
(* two bodies that cover a routed problem alone, the serial kernel's and   *)
(* the generated assembly's, each of which implements RoutedOutput.        *)
(***************************************************************************)
EXTENDS RowTaskMultiply, FiniteSetTheorems, FunctionTheorems, WellFoundedInduction, TLAPS

CONSTANTS TileSets, PhysicalExperts, MaxRouteEntries, Policies
VARIABLES body, short_tiles, policy, pc, at

Bodies == INSTANCE RoutedBodies

(***************************************************************************)
(* The routed problem: how many row tiles precede a group, and why the     *)
(* capacity of paired_row_task_capacity bounds all of them.                *)
(***************************************************************************)
(* Multiplication by a positive number preserves the order of integers;    *)
(* the arithmetic of the row tiles below rests on it.                      *)
LEMMA TimesMonotone ==
    ASSUME NEW a \in Int, NEW b \in Int, NEW d \in Nat, a <= b
    PROVE  a * d <= b * d
  OBVIOUS

(* Rounding a division up, the (n + d - 1) / d of the kernels and of       *)
(* paired_row_task_capacity: the quotient covers n and the one below does  *)
(* not.                                                                    *)
LEMMA CeilDivFacts ==
    ASSUME NEW n \in Nat, NEW d \in Nat \ {0}
    PROVE  /\ CeilDiv(n, d) \in Nat
           /\ n <= CeilDiv(n, d) * d
           /\ CeilDiv(n, d) * d < n + d
           /\ CeilDiv(n, d) <= n
<1> DEFINE q == (n + d - 1) \div d
<1>1. q \in Int /\ q * d <= n + d - 1 /\ n + d - 1 < q * d + d
  OBVIOUS
<1>2. q >= 0
  BY <1>1
<1>3. q <= n
  BY <1>1
<1> QED
  BY <1>1, <1>2, <1>3 DEF CeilDiv

(* Two starts at least one row tile apart round up to different quotients. *)
LEMMA CeilDivSeparates ==
    ASSUME NEW a \in Nat, NEW b \in Nat, NEW d \in Nat \ {0}, a + d <= b
    PROVE  CeilDiv(a, d) < CeilDiv(b, d)
<1>1. CeilDiv(a, d) \in Nat /\ CeilDiv(b, d) \in Nat
  BY CeilDivFacts
<1>2. CeilDiv(a, d) * d < a + d /\ b <= CeilDiv(b, d) * d
  BY CeilDivFacts
<1>3. CASE CeilDiv(b, d) <= CeilDiv(a, d)
  <2>1. CeilDiv(b, d) * d <= CeilDiv(a, d) * d
    BY <1>1, <1>3, TimesMonotone
  <2>2. CeilDiv(b, d) * d \in Int /\ CeilDiv(a, d) * d \in Int
    BY <1>1
  <2> QED
    BY <1>2, <2>1, <2>2
<1> QED
  BY <1>1, <1>3

(* A valid entry names its rows inside the tensor, so its tiles number no  *)
(* more than the rows.                                                     *)
LEMMA ValidRange ==
    ASSUME NEW experts \in ExpertBanks, NEW offsets \in OffsetBanks,
           NEW g \in GroupIds, Valid(experts, offsets, g)
    PROVE  /\ RowBegin(offsets, g) \in Nat
           /\ offsets[g] \in Nat
           /\ RowBegin(offsets, g) < offsets[g]
           /\ offsets[g] <= Rows
           /\ experts[g] \in 0 .. NumExperts - 1
<1>1. offsets \in [GroupIds -> 0 .. MaxOffset]
  BY DEF OffsetBanks
<1>2. experts[g] \in Int
  BY ExpertIdsAssumption DEF ExpertBanks
<1>3. g # 0 => g - 1 \in GroupIds
  BY GroupsAssumption DEF GroupIds
<1>4. RowBegin(offsets, g) \in Nat /\ offsets[g] \in Nat
  BY <1>1, <1>3, MaxOffsetAssumption DEF RowBegin
<1> QED
  BY <1>2, <1>4, NumExpertsAssumption, RowsAssumption DEF Valid

(* The tasks of a route entry are a natural number.                        *)
LEMMA GroupTasksType ==
    ASSUME NEW experts \in ExpertBanks, NEW offsets \in OffsetBanks, NEW g
    PROVE  GroupTasks(experts, offsets, g) \in 0 .. Rows
<1>1. CASE g \in GroupIds /\ Valid(experts, offsets, g)
  <2> DEFINE n == offsets[g] - RowBegin(offsets, g)
  <2>1. n \in Nat /\ n <= Rows
    BY <1>1, ValidRange, RowsAssumption
  <2>2. CeilDiv(n, RowTile) \in Nat /\ CeilDiv(n, RowTile) <= n
    BY <2>1, CeilDivFacts, RowTileAssumption
  <2>3. GroupTasks(experts, offsets, g) = CeilDiv(n, RowTile)
    BY <1>1 DEF GroupTasks
  <2> QED
    BY <2>1, <2>2, <2>3, RowsAssumption
<1>2. CASE ~(g \in GroupIds /\ Valid(experts, offsets, g))
  BY <1>2, RowsAssumption DEF GroupTasks
<1> QED
  BY <1>1, <1>2

(* Every row tile starts before the end of its entry.                      *)
LEMMA TaskStartsInside ==
    ASSUME NEW experts \in ExpertBanks, NEW offsets \in OffsetBanks,
           NEW g \in GroupIds, NEW t \in Nat,
           t < GroupTasks(experts, offsets, g)
    PROVE  /\ Valid(experts, offsets, g)
           /\ t * RowTile \in Nat
           /\ RowBegin(offsets, g) + t * RowTile < offsets[g]
<1>1. Valid(experts, offsets, g)
  BY DEF GroupTasks
<1> DEFINE n == offsets[g] - RowBegin(offsets, g)
<1>2. n \in Nat \ {0}
  BY <1>1, ValidRange
<1>3. t < CeilDiv(n, RowTile)
  BY <1>1 DEF GroupTasks
<1>4. CeilDiv(n, RowTile) \in Nat /\ CeilDiv(n, RowTile) * RowTile < n + RowTile
  BY <1>2, CeilDivFacts, RowTileAssumption
<1>5. (t + 1) * RowTile <= CeilDiv(n, RowTile) * RowTile
  BY <1>3, <1>4, TimesMonotone, RowTileAssumption
<1>6. (t + 1) * RowTile = t * RowTile + RowTile /\ t * RowTile \in Nat
  BY RowTileAssumption
<1>7. t * RowTile < n
  BY <1>2, <1>4, <1>5, <1>6, RowTileAssumption
<1> HIDE DEF n
<1>8. RowBegin(offsets, g) + n = offsets[g]
  BY <1>1, ValidRange DEF n
<1> QED
  BY <1>1, <1>2, <1>6, <1>7, <1>8, ValidRange

(* A routing has finitely many row tiles.                                  *)
LEMMA TaskSetFinite ==
    ASSUME NEW experts, NEW offsets
    PROVE  IsFiniteSet(TaskSet(experts, offsets))
<1>1. IsFiniteSet(GroupIds) /\ IsFiniteSet(0 .. Rows)
  BY FS_Interval, GroupsAssumption, RowsAssumption DEF GroupIds
<1>2. IsFiniteSet(GroupIds \X (0 .. Rows))
  BY <1>1, FS_Product
<1>3. TaskSet(experts, offsets) \subseteq GroupIds \X (0 .. Rows)
  BY DEF TaskSet
<1> QED
  BY <1>2, <1>3, FS_Subset

(* The tasks of group g, as a set of pairs, number GroupTasks.             *)
LEMMA TasksOfGroup ==
    ASSUME NEW experts \in ExpertBanks, NEW offsets \in OffsetBanks,
           NEW g \in Nat
    PROVE  LET own == {gt \in TaskSet(experts, offsets) : gt[1] = g}
           IN  IsFiniteSet(own) /\ Cardinality(own) = GroupTasks(experts, offsets, g)
<1> DEFINE own == {gt \in TaskSet(experts, offsets) : gt[1] = g}
           n == GroupTasks(experts, offsets, g)
<1>1. n \in 0 .. Rows
  BY GroupTasksType
<1>2. own = {g} \X (0 .. n - 1)
  <2>1. CASE g \in GroupIds
    <3>1. ASSUME NEW gt \in own PROVE gt \in {g} \X (0 .. n - 1)
      BY <1>1, RowsAssumption DEF TaskSet
    <3>2. ASSUME NEW gt \in {g} \X (0 .. n - 1) PROVE gt \in own
      BY <1>1, <2>1, RowsAssumption DEF TaskSet
    <3> QED
      BY <3>1, <3>2
  <2>2. CASE g \notin GroupIds
    <3>1. n = 0
      BY <2>2 DEF GroupTasks
    <3>2. own = {}
      BY <2>2 DEF TaskSet
    <3>3. (0 .. n - 1) = {}
      BY <3>1
    <3> QED
      BY <3>2, <3>3
  <2> QED
    BY <2>1, <2>2
<1>3. IsFiniteSet({g}) /\ Cardinality({g}) = 1
  BY FS_Singleton
<1> HIDE DEF own, n
<1>4. n \in Nat
  BY <1>1, RowsAssumption
<1>5. IsFiniteSet(0 .. n - 1) /\ Cardinality(0 .. n - 1) = n
  BY <1>4, FS_Interval
<1>6. IsFiniteSet(own) /\ Cardinality(own) = 1 * n
  <2>1. /\ IsFiniteSet({g} \X (0 .. n - 1))
        /\ Cardinality({g} \X (0 .. n - 1)) = Cardinality({g}) * Cardinality(0 .. n - 1)
    BY <1>3, <1>5, FS_Product, Zenon
  <2> QED
    BY <1>2, <1>3, <1>5, <2>1, Zenon
<1>7. Cardinality(own) = n
  BY <1>4, <1>6
<1> QED
  BY <1>6, <1>7 DEF n, own

(* The prefix counts the device scan computes: zero before the first       *)
(* group, each group adds its own tasks, and nothing follows the last.     *)
LEMMA TasksBeforeFacts ==
    ASSUME NEW experts \in ExpertBanks, NEW offsets \in OffsetBanks
    PROVE  /\ \A g \in Nat : TasksBefore(experts, offsets, g) \in Nat
           /\ TasksBefore(experts, offsets, 0) = 0
           /\ \A g \in Nat : TasksBefore(experts, offsets, g + 1)
                 = TasksBefore(experts, offsets, g) + GroupTasks(experts, offsets, g)
           /\ \A g, h \in Nat : g <= h =>
                 TasksBefore(experts, offsets, g) <= TasksBefore(experts, offsets, h)
           /\ \A g \in Nat : g >= Groups =>
                 TasksBefore(experts, offsets, g) = Cardinality(TaskSet(experts, offsets))
<1> DEFINE all == TaskSet(experts, offsets)
           below(g) == {gt \in all : gt[1] < g}
           own(g) == {gt \in all : gt[1] = g}
<1>1. all \subseteq GroupIds \X (0 .. Rows)
  BY DEF TaskSet
<1>2. \A gt \in all : gt[1] \in Nat /\ gt[1] < Groups
  BY <1>1, GroupsAssumption DEF GroupIds
<1>3. IsFiniteSet(all)
  BY TaskSetFinite
<1>4. \A g \in Nat : GroupTasks(experts, offsets, g) \in Nat
  BY GroupTasksType, RowsAssumption
<1>5. \A g \in Nat : IsFiniteSet(own(g)) /\ Cardinality(own(g)) = GroupTasks(experts, offsets, g)
  BY TasksOfGroup
<1> HIDE DEF all
<1>6. \A g \in Nat : IsFiniteSet(below(g))
  <2> TAKE g \in Nat
  <2>1. below(g) \in SUBSET all
    OBVIOUS
  <2> QED
    BY <1>3, <2>1, FS_Subset
<1>7. \A g \in Nat : Cardinality(below(g)) \in Nat
  BY <1>6, FS_CardinalityType
<1>8. below(0) = {}
  BY <1>2
<1>9. ASSUME NEW g \in Nat
      PROVE  Cardinality(below(g + 1)) = Cardinality(below(g)) + GroupTasks(experts, offsets, g)
  <2>1. below(g + 1) = below(g) \cup own(g) /\ below(g) \cap own(g) = {}
    BY <1>2
  <2>2. Cardinality(below(g) \cap own(g)) = 0
    BY <2>1, FS_EmptySet
  <2> HIDE DEF below, own
  <2>3. Cardinality(below(g) \cup own(g))
          = Cardinality(below(g)) + Cardinality(own(g)) - Cardinality(below(g) \cap own(g))
    BY <1>5, <1>6, FS_Union
  <2>4. /\ Cardinality(own(g)) = GroupTasks(experts, offsets, g)
        /\ GroupTasks(experts, offsets, g) \in Nat
        /\ Cardinality(below(g)) \in Nat
    BY <1>4, <1>5, <1>7
  <2>5. Cardinality(below(g + 1)) = Cardinality(below(g) \cup own(g))
    BY <2>1
  <2> QED
    BY <2>2, <2>3, <2>4, <2>5
<1>10. ASSUME NEW g \in Nat, NEW h \in Nat, g <= h
       PROVE  Cardinality(below(g)) <= Cardinality(below(h))
  <2>1. below(g) \in SUBSET below(h)
    BY <1>2, <1>10
  <2> HIDE DEF below
  <2> QED
    BY <1>6, <2>1, FS_Subset
<1>11. ASSUME NEW g \in Nat, g >= Groups PROVE below(g) = all
  BY <1>2, <1>11, GroupsAssumption
<1>12. Cardinality(below(0)) = 0
  BY <1>8, FS_EmptySet
<1>13. \A g : TasksBefore(experts, offsets, g) = Cardinality(below(g))
  BY DEF TasksBefore, all
<1> QED
  BY <1>7, <1>9, <1>10, <1>11, <1>12, <1>13 DEF all

(* For every routing the tasks fit the bank of ceil(Rows / RowTile) +      *)
(* Groups slots that paired_row_task_capacity sizes: a full tile owns one  *)
(* multiple of RowTile below Rows that no other full tile owns, and a      *)
(* group has at most one tile that is not full.                            *)
THEOREM CapacityBound ==
    ASSUME NEW experts \in ExpertBanks, NEW offsets \in OffsetBanks
    PROVE  Cardinality(TaskSet(experts, offsets)) <= Capacity
<1> DEFINE all == TaskSet(experts, offsets)
           start(gt) == RowBegin(offsets, gt[1]) + gt[2] * RowTile
           full(gt) == start(gt) + RowTile <= offsets[gt[1]]
           aligned == 0 .. CeilDiv(Rows, RowTile) - 1
           owners == ({0} \X aligned) \cup ({1} \X GroupIds)
           owner == [gt \in all |-> IF full(gt) THEN <<0, CeilDiv(start(gt), RowTile)>>
                                    ELSE <<1, gt[1]>>]
<1>1. ASSUME NEW gt \in all
      PROVE  /\ gt[1] \in GroupIds /\ gt[2] \in Nat
             /\ gt = <<gt[1], gt[2]>>
             /\ start(gt) \in Nat
             /\ RowBegin(offsets, gt[1]) <= start(gt)
             /\ start(gt) < offsets[gt[1]]
             /\ offsets[gt[1]] \in Nat
             /\ offsets[gt[1]] <= Rows
  <2>1. gt[1] \in GroupIds /\ gt[2] \in Nat /\ gt = <<gt[1], gt[2]>>
        /\ gt[2] < GroupTasks(experts, offsets, gt[1])
    BY RowsAssumption DEF TaskSet
  <2>2. /\ Valid(experts, offsets, gt[1]) /\ gt[2] * RowTile \in Nat
        /\ RowBegin(offsets, gt[1]) + gt[2] * RowTile < offsets[gt[1]]
    BY <2>1, TaskStartsInside
  <2>3. /\ RowBegin(offsets, gt[1]) \in Nat /\ offsets[gt[1]] \in Nat
        /\ offsets[gt[1]] <= Rows
    BY <2>1, <2>2, ValidRange
  <2> QED
    BY <2>1, <2>2, <2>3
<1>2. ASSUME NEW gt \in all, NEW hu \in all, gt[1] < hu[1]
      PROVE  offsets[gt[1]] <= start(hu)
  <2>1. hu[1] - 1 \in GroupIds /\ gt[1] <= hu[1] - 1 /\ hu[1] # 0
    BY <1>1, <1>2, GroupsAssumption DEF GroupIds
  <2>2. offsets[gt[1]] <= offsets[hu[1] - 1]
    BY <1>1, <2>1 DEF OffsetBanks
  <2>3. RowBegin(offsets, hu[1]) = offsets[hu[1] - 1]
    BY <2>1 DEF RowBegin
  <2>4. offsets[hu[1] - 1] <= start(hu)
    BY <1>1, <2>3
  <2>5. offsets[hu[1] - 1] \in Int
    BY <2>1, MaxOffsetAssumption DEF OffsetBanks
  <2> QED
    BY <1>1, <2>2, <2>4, <2>5
<1>3. ASSUME NEW gt \in all, NEW hu \in all, gt[1] = hu[1], gt[2] < hu[2]
      PROVE  start(gt) + RowTile <= start(hu) /\ full(gt)
  <2>1. (gt[2] + 1) * RowTile <= hu[2] * RowTile
    <3>1. gt[2] + 1 \in Int /\ hu[2] \in Int /\ gt[2] + 1 <= hu[2] /\ RowTile \in Nat
      BY <1>1, <1>3, RowTileAssumption
    <3> QED
      BY <3>1, TimesMonotone
  <2>2. (gt[2] + 1) * RowTile = gt[2] * RowTile + RowTile
    BY <1>1, RowTileAssumption
  <2>3. RowBegin(offsets, gt[1]) \in Int
    BY <1>1, MaxOffsetAssumption, GroupsAssumption DEF RowBegin, OffsetBanks, GroupIds
  <2>4. gt[2] * RowTile \in Int /\ hu[2] * RowTile \in Int
    BY <1>1, RowTileAssumption
  <2>5. start(gt) + RowTile <= start(hu)
    BY <1>3, <2>1, <2>2, <2>3, <2>4, RowTileAssumption
  <2>6. start(hu) < offsets[gt[1]]
    BY <1>1, <1>3
  <2> QED
    BY <1>1, <2>5, <2>6, RowTileAssumption
<1> HIDE DEF start
<1>4. owner \in [all -> owners]
  <2> SUFFICES ASSUME NEW gt \in all
               PROVE  owner[gt] \in owners
    OBVIOUS
  <2>1. CASE full(gt)
    <3>1. CeilDiv(start(gt), RowTile) \in Nat /\ CeilDiv(Rows, RowTile) \in Nat
      BY <1>1, CeilDivFacts, RowTileAssumption, RowsAssumption
    <3>2. CeilDiv(start(gt), RowTile) < CeilDiv(Rows, RowTile)
      BY <1>1, <2>1, CeilDivSeparates, RowTileAssumption, RowsAssumption
    <3>3. CeilDiv(start(gt), RowTile) \in aligned
      BY <3>1, <3>2
    <3> QED
      BY <2>1, <3>3
  <2>2. CASE ~full(gt)
    BY <1>1, <2>2
  <2> QED
    BY <2>1, <2>2
<1>5. ASSUME NEW gt \in all, NEW hu \in all, owner[gt] = owner[hu], gt[1] < hu[1]
      PROVE  FALSE
  <2>1. gt[1] # hu[1]
    BY <1>1, <1>5, GroupsAssumption DEF GroupIds
  <2>2. owner[gt][1] = owner[hu][1] /\ owner[gt][2] = owner[hu][2]
    BY <1>5
  <2>3. full(gt) /\ full(hu) /\ CeilDiv(start(gt), RowTile) = CeilDiv(start(hu), RowTile)
    BY <2>1, <2>2
  <2>4. start(gt) + RowTile <= start(hu)
    BY <1>1, <1>2, <1>5, <2>3, RowTileAssumption
  <2>5. CeilDiv(start(gt), RowTile) < CeilDiv(start(hu), RowTile)
    BY <1>1, <2>4, CeilDivSeparates, RowTileAssumption
  <2>6. CeilDiv(start(gt), RowTile) \in Nat
    BY <1>1, CeilDivFacts, RowTileAssumption
  <2> QED
    BY <2>3, <2>5, <2>6
<1>6. ASSUME NEW gt \in all, NEW hu \in all, owner[gt] = owner[hu],
             gt[1] = hu[1], gt[2] < hu[2]
      PROVE  FALSE
  <2>1. full(gt) /\ start(gt) + RowTile <= start(hu)
    BY <1>3, <1>6
  <2>2. full(hu) /\ CeilDiv(start(gt), RowTile) = CeilDiv(start(hu), RowTile)
    BY <1>6, <2>1
  <2>3. CeilDiv(start(gt), RowTile) < CeilDiv(start(hu), RowTile)
    BY <1>1, <2>1, CeilDivSeparates, RowTileAssumption
  <2>4. CeilDiv(start(gt), RowTile) \in Nat
    BY <1>1, CeilDivFacts, RowTileAssumption
  <2> QED
    BY <2>2, <2>3, <2>4
<1>7. \A gt, hu \in all : owner[gt] = owner[hu] => gt = hu
  <2> TAKE gt, hu \in all
  <2> HAVE owner[gt] = owner[hu]
  <2> HIDE DEF owner, all
  <2>1. ~(gt[1] < hu[1]) /\ ~(hu[1] < gt[1])
    BY <1>5
  <2>2. gt[1] = hu[1]
    BY <1>1, <2>1, GroupsAssumption DEF GroupIds
  <2>3. ~(gt[2] < hu[2]) /\ ~(hu[2] < gt[2])
    BY <1>6, <2>2
  <2>4. gt[2] = hu[2]
    BY <1>1, <2>3
  <2> QED
    BY <1>1, <2>2, <2>4
<1>8. owner \in Injection(all, owners)
  <2> HIDE DEF owner, all, owners
  <2> QED
    BY <1>4, <1>7 DEF Injection, IsInjective
<1>9. IsFiniteSet(owners) /\ Cardinality(owners) <= Capacity
  <2> DEFINE C == CeilDiv(Rows, RowTile)
  <2>1. C \in Nat
    BY CeilDivFacts, RowsAssumption, RowTileAssumption
  <2> HIDE DEF C
  <2>2. /\ IsFiniteSet(0 .. C - 1) /\ Cardinality(0 .. C - 1) = C
    BY <2>1, FS_Interval
  <2>3. IsFiniteSet(GroupIds) /\ Cardinality(GroupIds) = Groups
    BY FS_Interval, GroupsAssumption DEF GroupIds
  <2>4. /\ IsFiniteSet({0}) /\ Cardinality({0}) = 1
        /\ IsFiniteSet({1}) /\ Cardinality({1}) = 1
    BY FS_Singleton
  <2> DEFINE A == {0} \X (0 .. C - 1)
             B == {1} \X GroupIds
  <2>5. IsFiniteSet(A) /\ Cardinality(A) = 1 * C
    <3>1. IsFiniteSet(A) /\ Cardinality(A) = Cardinality({0}) * Cardinality(0 .. C - 1)
      BY <2>2, <2>4, FS_Product, Zenon
    <3> QED
      BY <3>1, <2>2, <2>4, Zenon
  <2>6. IsFiniteSet(B) /\ Cardinality(B) = 1 * Groups
    <3>1. IsFiniteSet(B) /\ Cardinality(B) = Cardinality({1}) * Cardinality(GroupIds)
      BY <2>3, <2>4, FS_Product, Zenon
    <3> QED
      BY <3>1, <2>3, <2>4, Zenon
  <2>7. owners = A \cup B
    BY DEF C
  <2> HIDE DEF A, B, owners
  <2>8. /\ IsFiniteSet(A \cup B)
        /\ Cardinality(A \cup B) = Cardinality(A) + Cardinality(B) - Cardinality(A \cap B)
    BY <2>5, <2>6, FS_Union
  <2>9. Cardinality(A \cap B) \in Nat
    BY <2>5, FS_Intersection, FS_CardinalityType
  <2>10. Cardinality(A \cup B) <= C + Groups
    BY <2>1, <2>5, <2>6, <2>8, <2>9, GroupsAssumption
  <2> QED
    BY <2>7, <2>8, <2>10 DEF Capacity, C
<1>10. Cardinality(all) <= Cardinality(owners)
  <2> HIDE DEF owner, all, owners
  <2> QED
    BY <1>8, <1>9, FS_Injection
<1>11. Cardinality(all) \in Nat /\ Cardinality(owners) \in Nat
  BY <1>9, TaskSetFinite, FS_CardinalityType
<1>12. Capacity \in Nat
  BY CeilDivFacts, RowsAssumption, RowTileAssumption, GroupsAssumption DEF Capacity
<1> HIDE DEF owners
<1> QED
  BY <1>9, <1>10, <1>11, <1>12 DEF all

(***************************************************************************)
(* The inductive invariant of the setup.                                   *)
(***************************************************************************)
Before(g) == TasksBefore(expert_indices, expert_offsets, g)

(* What lane s holds when the scan has summed the w entries that end at s. *)
WindowSum(s, w) ==
    Before(chunk + s + 1) - Before(IF s + 1 >= w THEN chunk + s + 1 - w ELSE chunk)

(* What lane s fetches from `stride` lanes to the left.                    *)
Fetched(s) == IF s >= stride THEN WindowSum(s - stride, stride) ELSE 0

TypeInv ==
    /\ expert_indices \in ExpertBanks
    /\ expert_offsets \in OffsetBanks
    /\ phase \in Segments
    /\ arrived \in SUBSET LaneIds
    /\ chunk \in Nat
    /\ stride \in Nat \ {0}
    /\ group_tasks \in [LaneIds -> Nat]
    /\ cumulative_tasks \in [LaneIds -> Int]
    /\ add \in [LaneIds -> Int]
    /\ task_base \in [LaneIds -> Int]

LoadInv ==
    phase = "load" => \A s \in arrived :
        /\ group_tasks[s] = Tasks(chunk + s)
        /\ cumulative_tasks[s] = Tasks(chunk + s)

CountsInv ==
    phase \in {"gather", "accumulate", "emit"} =>
        \A s \in LaneIds : group_tasks[s] = Tasks(chunk + s)

GatherInv ==
    phase = "gather" =>
        /\ \A s \in LaneIds : cumulative_tasks[s] = WindowSum(s, stride)
        /\ \A s \in arrived : add[s] = Fetched(s)

AccumulateInv ==
    phase = "accumulate" => \A s \in LaneIds :
        /\ add[s] = Fetched(s)
        /\ s \notin arrived => cumulative_tasks[s] = WindowSum(s, stride)
        /\ s \in arrived => cumulative_tasks[s] = WindowSum(s, 2 * stride)

EmitInv ==
    phase = "emit" => \A s \in LaneIds :
        cumulative_tasks[s] = Before(chunk + s + 1) - Before(chunk)

BaseInv ==
    \A s \in LaneIds :
        task_base[s] = IF phase = "emit" /\ s \in arrived
                       THEN Before(chunk + Lanes) ELSE Before(chunk)

LoopInv ==
    /\ phase \in {"load", "gather", "accumulate", "emit"} => chunk < Groups
    /\ phase \in {"count", "done"} => chunk >= Groups

(* The groups whose tasks are in the bank.                                 *)
Emitted ==
    {g \in GroupIds : g < chunk \/ (phase = "emit" /\ g - chunk \in arrived)}

StoresInv ==
    stores = {TaskEntry(Before(gt[1]) + gt[2], gt[1], gt[2]) :
                gt \in {x \in AllTasks : x[1] \in Emitted}}

CountInv ==
    task_count = IF phase = "done" \/ (phase = "count" /\ 0 \in arrived)
                 THEN Before(Groups) ELSE -1

IInv ==
    /\ TypeInv /\ LoadInv /\ CountsInv /\ GatherInv /\ AccumulateInv
    /\ EmitInv /\ BaseInv /\ LoopInv /\ StoresInv /\ CountInv

-----------------------------------------------------------------------------
(* What the scan relies on about the prefix counts of the current routing. *)
LEMMA Prefix ==
    ASSUME TypeInv
    PROVE  /\ \A g \in Nat : Before(g) \in Nat
           /\ Before(0) = 0
           /\ \A g \in Nat : Before(g + 1) = Before(g) + Tasks(g)
           /\ \A g, h \in Nat : g <= h => Before(g) <= Before(h)
           /\ \A g \in Nat : g >= Groups => Before(g) = Before(Groups)
           /\ Before(Groups) = Cardinality(AllTasks)
           /\ \A g \in Nat : Tasks(g) \in Nat
<1>1. expert_indices \in ExpertBanks /\ expert_offsets \in OffsetBanks
  BY DEF TypeInv
<1>2. Groups \in Nat
  BY GroupsAssumption
<1>3. \A g \in Nat : Tasks(g) \in Nat
  BY <1>1, GroupTasksType, RowsAssumption DEF Tasks
<1>4. /\ \A g \in Nat : Before(g) \in Nat
      /\ Before(0) = 0
      /\ \A g \in Nat : Before(g + 1) = Before(g) + Tasks(g)
      /\ \A g, h \in Nat : g <= h => Before(g) <= Before(h)
      /\ \A g \in Nat : g >= Groups => Before(g) = Cardinality(AllTasks)
  BY ONLY <1>1, TasksBeforeFacts DEF Before, Tasks, AllTasks
<1>5. Before(Groups) = Cardinality(AllTasks)
  BY <1>2, <1>4
<1> QED
  BY <1>3, <1>4, <1>5

(* The route tensors never change, so neither does what they determine.    *)
LEMMA Frame ==
    ASSUME UNCHANGED tensors
    PROVE  /\ \A g : Before(g)' = Before(g)
           /\ \A g : Tasks(g)' = Tasks(g)
           /\ AllTasks' = AllTasks
           /\ \A slot, g, t : TaskEntry(slot, g, t)' = TaskEntry(slot, g, t)
  BY DEF tensors, Before, Tasks, AllTasks, TaskEntry, Begin

(* The first and the last lane exist, and lanes are natural numbers.       *)
LEMMA LaneFacts ==
    /\ 0 \in LaneIds /\ Lanes - 1 \in LaneIds /\ LaneIds \subseteq Nat
    /\ \A s \in LaneIds : s < Lanes
    /\ \A s \in LaneIds : s # 0 => s - 1 \in LaneIds
  BY LanesAssumption DEF LaneIds

(* A window as wide as a single entry is that entry's own count.           *)
LEMMA WindowOne ==
    ASSUME TypeInv, NEW s \in LaneIds
    PROVE  WindowSum(s, 1) = Tasks(chunk + s)
<1>1. chunk + s \in Nat /\ chunk \in Nat /\ s \in Nat
  BY LaneFacts DEF TypeInv
<1>2. Before(chunk + s + 1) = Before(chunk + s) + Tasks(chunk + s)
  BY <1>1, Prefix
<1>3. Before(chunk + s) \in Nat /\ Tasks(chunk + s) \in Nat
  BY <1>1, Prefix
<1>4. WindowSum(s, 1) = Before(chunk + s + 1) - Before(chunk + s)
  <2>1. s + 1 >= 1 /\ chunk + s + 1 - 1 = chunk + s
    BY <1>1
  <2> QED
    BY <2>1 DEF WindowSum
<1> QED
  BY <1>2, <1>3, <1>4

(* Adding the window `stride` lanes to the left doubles the window.        *)
LEMMA WindowDoubles ==
    ASSUME TypeInv, NEW s \in LaneIds
    PROVE  /\ WindowSum(s, stride) + Fetched(s) = WindowSum(s, 2 * stride)
           /\ WindowSum(s, stride) \in Int
           /\ Fetched(s) \in Int
<1>1. chunk \in Nat /\ s \in Nat /\ stride \in Nat \ {0}
  BY LaneFacts DEF TypeInv
<1>2. \A g \in Nat : Before(g) \in Int
  BY Prefix
<1>3. WindowSum(s, stride) \in Int
  BY <1>1, <1>2 DEF WindowSum
<1>4. CASE s >= stride
  <2>1. Fetched(s) = WindowSum(s - stride, stride)
    BY <1>4 DEF Fetched
  <2>2. WindowSum(s - stride, stride) = Before(chunk + s - stride + 1)
          - Before(IF s + 1 >= 2 * stride THEN chunk + s + 1 - 2 * stride ELSE chunk)
    <3>1. chunk + (s - stride) + 1 = chunk + s - stride + 1
      BY <1>1
    <3>2. (s - stride) + 1 >= stride <=> s + 1 >= 2 * stride
      BY <1>1
    <3>3. chunk + (s - stride) + 1 - stride = chunk + s + 1 - 2 * stride
      BY <1>1
    <3> QED
      BY <3>1, <3>2, <3>3 DEF WindowSum
  <2>3. WindowSum(s, stride) = Before(chunk + s + 1) - Before(chunk + s - stride + 1)
    <3>1. chunk + s + 1 - stride = chunk + s - stride + 1
      BY <1>1
    <3> QED
      BY <1>1, <1>4, <3>1 DEF WindowSum
  <2>4. /\ Before(chunk + s + 1) \in Int
        /\ Before(chunk + s - stride + 1) \in Int
        /\ Before(IF s + 1 >= 2 * stride THEN chunk + s + 1 - 2 * stride ELSE chunk) \in Int
    BY <1>1, <1>2, <1>4
  <2> QED
    BY <1>3, <2>1, <2>2, <2>3, <2>4 DEF WindowSum
<1>5. CASE s < stride
  <2>1. Fetched(s) = 0
    BY <1>1, <1>5 DEF Fetched
  <2>2. WindowSum(s, 2 * stride) = Before(chunk + s + 1) - Before(chunk)
    BY <1>1, <1>5 DEF WindowSum
  <2>3. WindowSum(s, stride) = Before(chunk + s + 1) - Before(chunk)
    <3>1. CASE s + 1 >= stride
      <4>1. chunk + s + 1 - stride = chunk
        BY <1>1, <1>5, <3>1
      <4> QED
        BY <3>1, <4>1 DEF WindowSum
    <3>2. CASE ~(s + 1 >= stride)
      BY <3>2 DEF WindowSum
    <3> QED
      BY <3>1, <3>2
  <2> QED
    BY <1>3, <2>1, <2>2, <2>3
<1> QED
  BY <1>1, <1>4, <1>5

(* A window as wide as the workgroup reaches back to the chunk's start.    *)
LEMMA WindowFull ==
    ASSUME TypeInv, NEW s \in LaneIds, NEW w \in Nat, w >= Lanes
    PROVE  WindowSum(s, w) = Before(chunk + s + 1) - Before(chunk)
<1>1. chunk \in Nat /\ s \in Nat /\ s + 1 <= w
  BY LaneFacts, LanesAssumption DEF TypeInv
<1>2. s + 1 >= w => chunk + s + 1 - w = chunk
  BY <1>1
<1> QED
  BY <1>2 DEF WindowSum

-----------------------------------------------------------------------------
(* The invariant holds when the kernel starts.                             *)
LEMMA InitInv == ASSUME Init PROVE IInv
<1>1. TypeInv
  BY LaneFacts DEF Init, TypeInv, Segments
<1>2. Before(0) = 0
  BY <1>1, Prefix
<1>3. BaseInv
  BY <1>2 DEF Init, BaseInv
<1>4. StoresInv
  <2>1. Emitted = {}
    BY GroupsAssumption DEF Init, Emitted, GroupIds
  <2> QED
    BY <2>1 DEF Init, StoresInv
<1>5. LoadInv /\ CountsInv /\ GatherInv /\ AccumulateInv /\ EmitInv
  BY DEF Init, LoadInv, CountsInv, GatherInv, AccumulateInv, EmitInv
<1>6. LoopInv /\ CountInv
  BY GroupsAssumption DEF Init, LoopInv, CountInv
<1> QED
  BY <1>1, <1>3, <1>4, <1>5, <1>6 DEF IInv

(* A lane that counts the tasks of its route entry keeps the invariant.    *)
LEMMA LoadStep ==
    ASSUME IInv, NEW s \in LaneIds, Load(s) PROVE IInv'
<1> USE DEF IInv, Load, Run
<1>1. /\ \A g : Before(g)' = Before(g)
      /\ \A g : Tasks(g)' = Tasks(g)
  BY Frame
<1>2. Tasks(chunk + s) \in Nat
  BY Prefix, LaneFacts DEF TypeInv
<1>3. TypeInv'
  BY <1>2 DEF TypeInv, tensors, loop
<1>4. LoadInv'
  BY <1>1 DEF LoadInv, TypeInv, loop
<1>5. CountsInv' /\ GatherInv' /\ AccumulateInv' /\ EmitInv'
  BY DEF CountsInv, GatherInv, AccumulateInv, EmitInv
<1>6. BaseInv'
  BY <1>1 DEF BaseInv, loop
<1>7. StoresInv'
  BY Frame DEF StoresInv, Emitted, loop
<1>8. LoopInv' /\ CountInv'
  BY <1>1 DEF LoopInv, CountInv, loop
<1> QED
  BY <1>3, <1>4, <1>5, <1>6, <1>7, <1>8

(* A lane that reads its neighbour `stride` below keeps the invariant: no  *)
(* lane adds before the barrier behind the reads.                          *)
LEMMA GatherStep ==
    ASSUME IInv, NEW s \in LaneIds, Gather(s) PROVE IInv'
<1> USE DEF IInv, Gather, Run
<1>1. /\ \A g : Before(g)' = Before(g)
      /\ \A g : Tasks(g)' = Tasks(g)
  BY Frame
<1>2. \A r \in LaneIds : WindowSum(r, stride)' = WindowSum(r, stride) /\ Fetched(r)' = Fetched(r)
  BY <1>1 DEF WindowSum, Fetched, loop
<1>3. (IF s >= stride THEN cumulative_tasks[s - stride] ELSE 0) = Fetched(s)
  <2>1. s >= stride => s - stride \in LaneIds
    BY LanesAssumption DEF TypeInv, LaneIds
  <2> QED
    BY <2>1 DEF GatherInv, Fetched
<1>4. Fetched(s) \in Int
  BY WindowDoubles
<1>5. TypeInv'
  BY <1>3, <1>4 DEF TypeInv, tensors, loop
<1>6. GatherInv'
  BY <1>2, <1>3 DEF GatherInv, TypeInv
<1>7. LoadInv' /\ CountsInv' /\ AccumulateInv' /\ EmitInv'
  BY <1>1 DEF LoadInv, CountsInv, AccumulateInv, EmitInv, loop
<1>8. BaseInv'
  BY <1>1 DEF BaseInv, loop
<1>9. StoresInv'
  BY Frame DEF StoresInv, Emitted, loop
<1>10. LoopInv' /\ CountInv'
  BY <1>1 DEF LoopInv, CountInv, loop
<1> QED
  BY <1>5, <1>6, <1>7, <1>8, <1>9, <1>10

(* A lane that adds what it read keeps the invariant: its window of the    *)
(* scan doubles.                                                           *)
LEMMA AccumulateStep ==
    ASSUME IInv, NEW s \in LaneIds, Accumulate(s) PROVE IInv'
<1> USE DEF IInv, Accumulate, Run
<1>1. /\ \A g : Before(g)' = Before(g)
      /\ \A g : Tasks(g)' = Tasks(g)
  BY Frame
<1>2. \A r \in LaneIds : /\ WindowSum(r, stride)' = WindowSum(r, stride)
                         /\ WindowSum(r, 2 * stride)' = WindowSum(r, 2 * stride)
                         /\ Fetched(r)' = Fetched(r)
  BY <1>1 DEF WindowSum, Fetched, loop
<1>3. /\ cumulative_tasks[s] + add[s] = WindowSum(s, 2 * stride)
      /\ cumulative_tasks[s] + add[s] \in Int
  BY WindowDoubles DEF AccumulateInv
<1>4. TypeInv'
  BY <1>3 DEF TypeInv, tensors, loop
<1>5. AccumulateInv'
  BY <1>2, <1>3 DEF AccumulateInv, TypeInv
<1>6. LoadInv' /\ CountsInv' /\ GatherInv' /\ EmitInv'
  BY <1>1 DEF LoadInv, CountsInv, GatherInv, EmitInv, loop
<1>7. BaseInv'
  BY <1>1 DEF BaseInv, loop
<1>8. StoresInv'
  BY Frame DEF StoresInv, Emitted, loop
<1>9. LoopInv' /\ CountInv'
  BY <1>1 DEF LoopInv, CountInv, loop
<1> QED
  BY <1>4, <1>5, <1>6, <1>7, <1>8, <1>9

(* A lane that emits stores its entry's tasks right behind those of every  *)
(* earlier entry, and takes the whole chunk's total into its base.         *)
LEMMA EmitStep ==
    ASSUME IInv, NEW s \in LaneIds, Emit(s) PROVE IInv'
<1> USE DEF IInv, Emit, Run
<1>1. /\ \A g : Before(g)' = Before(g)
      /\ \A g : Tasks(g)' = Tasks(g)
  BY Frame
<1>2. chunk \in Nat /\ s \in Nat /\ Lanes \in Nat /\ chunk + s \in Nat /\ chunk + Lanes \in Nat
  BY LaneFacts, LanesAssumption DEF TypeInv
<1>3. \A g \in Nat : Before(g) \in Int
  BY Prefix
<1>4. task_base[s] + cumulative_tasks[Lanes - 1] = Before(chunk + Lanes)
  <2>1. task_base[s] = Before(chunk)
    BY DEF BaseInv
  <2>2. cumulative_tasks[Lanes - 1] = Before(chunk + (Lanes - 1) + 1) - Before(chunk)
    BY LaneFacts DEF EmitInv
  <2>3. chunk + (Lanes - 1) + 1 = chunk + Lanes
    BY <1>2
  <2> QED
    BY <1>2, <1>3, <2>1, <2>2, <2>3
<1>5. TaskBegin(s) = Before(chunk + s)
  <2>1. task_base[s] = Before(chunk)
    BY DEF BaseInv
  <2>2. CASE s = 0
    BY <1>2, <1>3, <2>1, <2>2 DEF TaskBegin
  <2>3. CASE s # 0
    <3>1. cumulative_tasks[s - 1] = Before(chunk + (s - 1) + 1) - Before(chunk)
      BY <2>3, LaneFacts DEF EmitInv
    <3>2. chunk + (s - 1) + 1 = chunk + s
      BY <1>2
    <3> QED
      BY <1>2, <1>3, <2>1, <2>3, <3>1, <3>2 DEF TaskBegin
  <2> QED
    BY <2>2, <2>3
<1>6. TypeInv'
  BY <1>2, <1>3, <1>4 DEF TypeInv, tensors, loop
<1>7. EmitInv' /\ CountsInv'
  BY <1>1 DEF EmitInv, CountsInv, loop
<1>8. LoadInv' /\ GatherInv' /\ AccumulateInv'
  BY DEF LoadInv, GatherInv, AccumulateInv
<1>9. BaseInv'
  BY <1>1, <1>4 DEF BaseInv, TypeInv, loop
<1>10. StoresInv'
  <2>1. group_tasks[s] = Tasks(chunk + s) /\ Tasks(chunk + s) \in Nat
    BY <1>2, Prefix DEF CountsInv
  <2>2. Emitted' = Emitted \cup ({chunk + s} \cap GroupIds)
    BY <1>2, GroupsAssumption DEF Emitted, TypeInv, loop, GroupIds, LaneIds
  <2> DEFINE entry(gt) == TaskEntry(Before(gt[1]) + gt[2], gt[1], gt[2])
             own == {x \in AllTasks : x[1] = chunk + s}
  <2>3. CASE chunk + s < Groups
    <3>1. chunk + s \in GroupIds
      BY <1>2, <2>3, GroupsAssumption DEF GroupIds
    <3>2. {x \in AllTasks : x[1] \in Emitted'} = {x \in AllTasks : x[1] \in Emitted} \cup own
      BY <2>2, <3>1
    <3>3. {TaskEntry(TaskBegin(s) + t, chunk + s, t) : t \in 0 .. group_tasks[s] - 1}
            = {entry(gt) : gt \in own}
      <4>1. ASSUME NEW t \in 0 .. group_tasks[s] - 1
            PROVE  <<chunk + s, t>> \in own
        <5>1. t \in Nat /\ t < Tasks(chunk + s) /\ Tasks(chunk + s) <= Rows
          BY <2>1, GroupTasksType, RowsAssumption DEF TypeInv, Tasks
        <5>2. t \in 0 .. Rows
          BY <2>1, <5>1, RowsAssumption
        <5> QED
          BY <3>1, <5>1, <5>2 DEF AllTasks, TaskSet, Tasks
      <4>2. ASSUME NEW gt \in own
            PROVE  gt[1] = chunk + s /\ gt[2] \in 0 .. group_tasks[s] - 1
        <5>1. gt[1] = chunk + s /\ gt[2] \in 0 .. Rows /\ gt[2] < Tasks(chunk + s)
          BY DEF AllTasks, TaskSet, Tasks
        <5> QED
          BY <2>1, <5>1, RowsAssumption
      <4>3. ASSUME NEW t \in 0 .. group_tasks[s] - 1
            PROVE  TaskEntry(TaskBegin(s) + t, chunk + s, t) = entry(<<chunk + s, t>>)
        BY <1>5
      <4>4. ASSUME NEW gt \in own
            PROVE  entry(gt) = TaskEntry(TaskBegin(s) + gt[2], chunk + s, gt[2])
        BY <1>5, <4>2
      <4> DEFINE fresh == {TaskEntry(TaskBegin(s) + t, chunk + s, t) :
                             t \in 0 .. group_tasks[s] - 1}
                 due == {entry(gt) : gt \in own}
      <4>5. ASSUME NEW e \in fresh PROVE e \in due
        <5>1. PICK t \in 0 .. group_tasks[s] - 1 :
                     e = TaskEntry(TaskBegin(s) + t, chunk + s, t)
          OBVIOUS
        <5>2. e = entry(<<chunk + s, t>>) /\ <<chunk + s, t>> \in own
          BY <4>1, <4>3, <5>1
        <5> HIDE DEF entry, own
        <5> QED
          BY <5>2
      <4>6. ASSUME NEW e \in due PROVE e \in fresh
        <5>1. PICK gt \in own : e = entry(gt)
          OBVIOUS
        <5>2. e = TaskEntry(TaskBegin(s) + gt[2], chunk + s, gt[2])
          BY <4>4, <5>1
        <5>3. gt[2] \in 0 .. group_tasks[s] - 1
          BY <4>2
        <5> QED
          BY <5>2, <5>3
      <4> QED
        BY <4>5, <4>6
    <3>4. stores' = {entry(gt) : gt \in {x \in AllTasks : x[1] \in Emitted} \cup own}
      BY <2>3, <3>3 DEF StoresInv
    <3> QED
      BY <3>2, <3>4, Frame DEF StoresInv
  <2>4. CASE ~(chunk + s < Groups)
    <3>1. Emitted' = Emitted
      BY <1>2, <2>2, <2>4, GroupsAssumption DEF GroupIds
    <3> QED
      BY <2>4, <3>1, Frame DEF StoresInv
  <2> QED
    BY <2>3, <2>4
<1>11. LoopInv' /\ CountInv'
  BY <1>1 DEF LoopInv, CountInv, loop
<1> QED
  BY <1>6, <1>7, <1>8, <1>9, <1>10, <1>11

(* The lane that publishes the count keeps the invariant.                  *)
LEMMA CountStep ==
    ASSUME IInv, NEW s \in LaneIds, Count(s) PROVE IInv'
<1> USE DEF IInv, Count, Run
<1>1. /\ \A g : Before(g)' = Before(g)
      /\ \A g : Tasks(g)' = Tasks(g)
  BY Frame
<1>2. TypeInv'
  BY DEF TypeInv, tensors, loop
<1>3. LoadInv' /\ CountsInv' /\ GatherInv' /\ AccumulateInv' /\ EmitInv'
  BY DEF LoadInv, CountsInv, GatherInv, AccumulateInv, EmitInv
<1>4. BaseInv'
  BY <1>1 DEF BaseInv, loop
<1>5. StoresInv'
  BY Frame DEF StoresInv, Emitted, loop
<1>6. task_base[0] = Before(Groups)
  <2>1. task_base[0] = Before(chunk) /\ chunk >= Groups /\ chunk \in Nat
    BY LaneFacts DEF BaseInv, LoopInv, TypeInv
  <2> QED
    BY <2>1, Prefix
<1>7. CountInv'
  BY <1>1, <1>6 DEF CountInv
<1>8. LoopInv'
  BY DEF LoopInv, loop
<1> QED
  BY <1>2, <1>3, <1>4, <1>5, <1>7, <1>8

(* A barrier opens with every lane arrived, so what held lane by lane in   *)
(* the closed segment holds of all lanes when the next one starts.         *)
LEMMA BarrierStep == ASSUME IInv, Barrier PROVE IInv'
<1> USE DEF IInv, Cross
<1>1. UNCHANGED tensors /\ arrived = LaneIds /\ arrived' = {}
  BY DEF Barrier, LoadBarrier, GatherBarrier, AccumulateBarrier, EmitBarrier, Retire
<1>2. /\ \A g : Before(g)' = Before(g)
      /\ \A g : Tasks(g)' = Tasks(g)
  BY <1>1, Frame
<1>3. CASE LoadBarrier
  <2> USE <1>3 DEF LoadBarrier
  <2>1. TypeInv'
    BY DEF TypeInv, tensors, Segments
  <2>2. CountsInv'
    BY <1>1, <1>2 DEF CountsInv, LoadInv
  <2>3. \A s \in LaneIds : WindowSum(s, 1) = Tasks(chunk + s)
    BY WindowOne
  <2>4. \A s \in LaneIds : WindowSum(s, stride)' = WindowSum(s, 1)
    BY <1>2 DEF WindowSum
  <2>5. GatherInv'
    BY <1>1, <2>3, <2>4 DEF GatherInv, LoadInv
  <2>6. EmitInv'
    <3>1. CASE 1 < Lanes
      BY <3>1 DEF EmitInv
    <3>2. CASE ~(1 < Lanes)
      <4>1. 1 \in Nat /\ 1 >= Lanes
        BY <3>2, LanesAssumption
      <4>2. \A s \in LaneIds : WindowSum(s, 1) = Before(chunk + s + 1) - Before(chunk)
        BY <4>1, WindowFull
      <4>3. \A s \in LaneIds : cumulative_tasks[s] = WindowSum(s, 1)
        BY <1>1, <2>3 DEF LoadInv
      <4> QED
        BY <1>2, <4>2, <4>3 DEF EmitInv
    <3> QED
      BY <3>1, <3>2
  <2>7. LoadInv' /\ AccumulateInv'
    BY DEF LoadInv, AccumulateInv
  <2>8. BaseInv'
    BY <1>1, <1>2 DEF BaseInv
  <2>9. StoresInv'
    BY <1>1, Frame DEF StoresInv, Emitted
  <2>10. LoopInv' /\ CountInv'
    BY <1>2 DEF LoopInv, CountInv
  <2> QED
    BY <2>1, <2>2, <2>5, <2>6, <2>7, <2>8, <2>9, <2>10
<1>4. CASE GatherBarrier
  <2> USE <1>4 DEF GatherBarrier, loop
  <2>1. TypeInv'
    BY DEF TypeInv, tensors, Segments
  <2>2. \A s \in LaneIds : WindowSum(s, stride)' = WindowSum(s, stride) /\ Fetched(s)' = Fetched(s)
    BY <1>2 DEF WindowSum, Fetched
  <2>3. AccumulateInv'
    BY <1>1, <2>2 DEF AccumulateInv, GatherInv
  <2>4. CountsInv'
    BY <1>2 DEF CountsInv
  <2>5. LoadInv' /\ GatherInv' /\ EmitInv'
    BY DEF LoadInv, GatherInv, EmitInv
  <2>6. BaseInv'
    BY <1>1, <1>2 DEF BaseInv
  <2>7. StoresInv'
    BY <1>1, Frame DEF StoresInv, Emitted
  <2>8. LoopInv' /\ CountInv'
    BY <1>2 DEF LoopInv, CountInv
  <2> QED
    BY <2>1, <2>3, <2>4, <2>5, <2>6, <2>7, <2>8
<1>5. CASE AccumulateBarrier
  <2> USE <1>5 DEF AccumulateBarrier
  <2>1. 2 * stride \in Nat \ {0}
    BY DEF TypeInv
  <2>2. TypeInv'
    BY <2>1 DEF TypeInv, tensors, Segments
  <2>3. \A s \in LaneIds : WindowSum(s, stride)' = WindowSum(s, 2 * stride)
    BY <1>2 DEF WindowSum
  <2>4. \A s \in LaneIds : cumulative_tasks[s] = WindowSum(s, 2 * stride)
    BY <1>1 DEF AccumulateInv
  <2>5. GatherInv'
    BY <1>1, <2>3, <2>4 DEF GatherInv
  <2>6. EmitInv'
    <3>1. CASE 2 * stride < Lanes
      BY <3>1 DEF EmitInv
    <3>2. CASE ~(2 * stride < Lanes)
      <4>1. 2 * stride >= Lanes
        BY <2>1, <3>2, LanesAssumption
      <4>2. \A s \in LaneIds :
              WindowSum(s, 2 * stride) = Before(chunk + s + 1) - Before(chunk)
        BY <2>1, <4>1, WindowFull
      <4> QED
        BY <1>2, <2>4, <4>2 DEF EmitInv
    <3> QED
      BY <3>1, <3>2
  <2>7. CountsInv'
    BY <1>2 DEF CountsInv
  <2>8. LoadInv' /\ AccumulateInv'
    BY DEF LoadInv, AccumulateInv
  <2>9. BaseInv'
    BY <1>1, <1>2 DEF BaseInv
  <2>10. StoresInv'
    BY <1>1, Frame DEF StoresInv, Emitted
  <2>11. LoopInv' /\ CountInv'
    BY <1>2 DEF LoopInv, CountInv
  <2> QED
    BY <2>2, <2>5, <2>6, <2>7, <2>8, <2>9, <2>10, <2>11
<1>6. CASE EmitBarrier
  <2> USE <1>6 DEF EmitBarrier
  <2>1. chunk + Lanes \in Nat /\ chunk \in Nat /\ Lanes \in Nat \ {0}
    BY LanesAssumption DEF TypeInv
  <2>2. TypeInv'
    BY <2>1 DEF TypeInv, tensors, Segments
  <2>3. BaseInv'
    BY <1>1, <1>2 DEF BaseInv
  <2>4. Emitted' = Emitted
    BY <1>1, <2>1, GroupsAssumption DEF Emitted, GroupIds, LaneIds
  <2>5. StoresInv'
    BY <1>1, <2>4, Frame DEF StoresInv
  <2>6. LoadInv' /\ CountsInv' /\ GatherInv' /\ AccumulateInv' /\ EmitInv'
    BY <1>1 DEF LoadInv, CountsInv, GatherInv, AccumulateInv, EmitInv
  <2>7. LoopInv'
    BY <2>1, GroupsAssumption DEF LoopInv
  <2>8. CountInv'
    BY <1>1, <1>2 DEF CountInv
  <2> QED
    BY <2>2, <2>3, <2>5, <2>6, <2>7, <2>8
<1>7. CASE Retire
  <2> USE <1>7 DEF Retire, loop
  <2>1. TypeInv'
    BY DEF TypeInv, tensors, Segments
  <2>2. LoadInv' /\ CountsInv' /\ GatherInv' /\ AccumulateInv' /\ EmitInv'
    BY DEF LoadInv, CountsInv, GatherInv, AccumulateInv, EmitInv
  <2>3. BaseInv'
    BY <1>1, <1>2 DEF BaseInv
  <2>4. StoresInv'
    BY <1>1, Frame DEF StoresInv, Emitted
  <2>5. LoopInv' /\ CountInv'
    BY <1>1, <1>2, LaneFacts DEF LoopInv, CountInv
  <2> QED
    BY <2>1, <2>2, <2>3, <2>4, <2>5
<1> QED
  BY <1>3, <1>4, <1>5, <1>6, <1>7 DEF Barrier

(* A stuttering step keeps the invariant.                                  *)
LEMMA StutterStep == ASSUME IInv, UNCHANGED vars PROVE IInv'
<1>1. UNCHANGED tensors
  BY DEF vars
<1>2. /\ \A g : Before(g)' = Before(g)
      /\ \A g : Tasks(g)' = Tasks(g)
  BY <1>1, Frame
<1>3. \A s \in LaneIds : /\ WindowSum(s, stride)' = WindowSum(s, stride)
                         /\ WindowSum(s, 2 * stride)' = WindowSum(s, 2 * stride)
                         /\ Fetched(s)' = Fetched(s)
  BY <1>2 DEF vars, loop, WindowSum, Fetched
<1> USE DEF IInv, vars, loop
<1>4. TypeInv' /\ LoopInv'
  BY DEF TypeInv, LoopInv, tensors
<1>5. LoadInv' /\ CountsInv' /\ EmitInv'
  BY <1>2 DEF LoadInv, CountsInv, EmitInv
<1>6. GatherInv' /\ AccumulateInv'
  BY <1>3 DEF GatherInv, AccumulateInv, TypeInv
<1>7. BaseInv' /\ CountInv'
  BY <1>2 DEF BaseInv, CountInv
<1>8. StoresInv'
  BY <1>1, Frame DEF StoresInv, Emitted
<1> QED
  BY <1>4, <1>5, <1>6, <1>7, <1>8

LEMMA NextInv == IInv /\ [Next]_vars => IInv'
<1> SUFFICES ASSUME IInv, [Next]_vars PROVE IInv'
  OBVIOUS
<1>1. CASE Barrier
  BY <1>1, BarrierStep
<1>2. ASSUME NEW s \in LaneIds, LaneStep(s) PROVE IInv'
  BY <1>2, LoadStep, GatherStep, AccumulateStep, EmitStep, CountStep DEF LaneStep
<1>3. CASE UNCHANGED vars
  BY <1>3, StutterStep
<1> QED
  BY <1>1, <1>2, <1>3 DEF Next

(* The inductive invariant holds in every reachable state of the setup.    *)
THEOREM SetupInductive == Spec => []IInv
<1>1. Init => IInv
  BY InitInv
<1> QED
  BY <1>1, NextInv, PTL DEF Spec

-----------------------------------------------------------------------------
(* The slots of a stored task, between its group's first and the next's.   *)
LEMMA StoredTask ==
    ASSUME IInv, NEW e \in stores
    PROVE  \E gt \in AllTasks :
             /\ gt[1] \in GroupIds /\ gt[2] \in Nat /\ gt = <<gt[1], gt[2]>>
             /\ gt[2] < Tasks(gt[1])
             /\ e = TaskEntry(Before(gt[1]) + gt[2], gt[1], gt[2])
             /\ e.slot = Before(gt[1]) + gt[2]
             /\ Before(gt[1]) \in Nat
             /\ e.slot < Before(gt[1] + 1)
<1>1. PICK gt \in AllTasks : e = TaskEntry(Before(gt[1]) + gt[2], gt[1], gt[2])
  BY DEF IInv, StoresInv
<1>2. gt[1] \in GroupIds /\ gt[2] \in Nat /\ gt = <<gt[1], gt[2]>> /\ gt[2] < Tasks(gt[1])
  BY RowsAssumption DEF AllTasks, TaskSet, Tasks
<1>3. gt[1] \in Nat
  BY <1>2, GroupsAssumption DEF GroupIds
<1>4. /\ Before(gt[1]) \in Nat /\ Tasks(gt[1]) \in Nat
      /\ Before(gt[1] + 1) = Before(gt[1]) + Tasks(gt[1])
  BY <1>3, Prefix DEF IInv
<1>5. e.slot = Before(gt[1]) + gt[2]
  BY <1>1 DEF TaskEntry
<1>6. e.slot < Before(gt[1] + 1)
  BY <1>2, <1>4, <1>5
<1> QED
  BY <1>1, <1>2, <1>4, <1>5, <1>6

(* Every store has the type of a task of a valid entry.                    *)
LEMMA StoreType ==
    ASSUME IInv, NEW e \in stores
    PROVE  e \in [slot : Nat, expert : 0 .. NumExperts - 1,
                  start : 0 .. Rows - 1, end : 1 .. Rows]
<1>1. PICK gt \in AllTasks :
             /\ gt[1] \in GroupIds /\ gt[2] \in Nat
             /\ gt[2] < Tasks(gt[1])
             /\ e = TaskEntry(Before(gt[1]) + gt[2], gt[1], gt[2])
             /\ Before(gt[1]) \in Nat
  BY StoredTask
<1>2. expert_indices \in ExpertBanks /\ expert_offsets \in OffsetBanks
  BY DEF IInv, TypeInv
<1>3. /\ Valid(expert_indices, expert_offsets, gt[1])
      /\ gt[2] * RowTile \in Nat
      /\ Begin(gt[1]) + gt[2] * RowTile < expert_offsets[gt[1]]
  BY <1>1, <1>2, TaskStartsInside DEF Tasks, Begin
<1>4. /\ Begin(gt[1]) \in Nat /\ expert_offsets[gt[1]] \in Nat
      /\ expert_offsets[gt[1]] <= Rows
      /\ expert_indices[gt[1]] \in 0 .. NumExperts - 1
  BY <1>1, <1>2, <1>3, ValidRange DEF Begin
<1> DEFINE first == Begin(gt[1]) + gt[2] * RowTile
           last == SmallerOf(first + RowTile, expert_offsets[gt[1]])
<1>5. first \in 0 .. Rows - 1
  BY <1>3, <1>4, RowsAssumption
<1>6. last \in 1 .. Rows
  BY <1>3, <1>4, <1>5, RowsAssumption, RowTileAssumption DEF SmallerOf
<1>7. Before(gt[1]) + gt[2] \in Nat
  BY <1>1
<1>8. e = [slot |-> Before(gt[1]) + gt[2], expert |-> expert_indices[gt[1]],
           start |-> first, end |-> last]
  BY <1>1 DEF TaskEntry
<1> HIDE DEF first, last
<1> QED
  BY <1>4, <1>5, <1>6, <1>7, <1>8

(* Type correctness of the setup kernel: in particular every stored task   *)
(* names an expert of the bank and rows of the activation tensor.          *)
THEOREM SetupTypeOK == Spec => []TypeOK
<1>1. IInv => TypeOK
  <2> SUFFICES ASSUME IInv PROVE TypeOK
    OBVIOUS
  <2>1. stores \in SUBSET [slot : Nat, expert : 0 .. NumExperts - 1,
                           start : 0 .. Rows - 1, end : 1 .. Rows]
    BY StoreType
  <2>2. Groups \in Nat /\ TypeInv
    BY GroupsAssumption DEF IInv
  <2>3. Before(Groups) \in Nat
    BY <2>2, Prefix
  <2>4. task_count \in Nat \cup {-1}
    BY <2>3 DEF IInv, CountInv
  <2> QED
    BY <2>1, <2>4 DEF IInv, TypeInv, TypeOK
<1> QED
  BY <1>1, SetupInductive, PTL

LEMMA SlotsInside == IInv => WithinCapacity
<1> SUFFICES ASSUME IInv, NEW e \in stores PROVE e.slot < Capacity
  BY DEF WithinCapacity
<1>1. PICK gt \in AllTasks : /\ gt[1] \in GroupIds
                              /\ e.slot < Before(gt[1] + 1) /\ e.slot = Before(gt[1]) + gt[2]
                              /\ Before(gt[1]) \in Nat /\ gt[2] \in Nat
  BY StoredTask
<1>2. gt[1] + 1 \in Nat /\ gt[1] + 1 <= Groups /\ Groups \in Nat
  BY <1>1, GroupsAssumption DEF GroupIds
<1>3. /\ Before(gt[1] + 1) <= Before(Groups) /\ Before(Groups) = Cardinality(AllTasks)
      /\ Before(gt[1] + 1) \in Nat /\ Before(Groups) \in Nat
  BY <1>2, Prefix DEF IInv
<1>4. Cardinality(AllTasks) <= Capacity
  BY CapacityBound DEF IInv, TypeInv, AllTasks
<1>5. Capacity \in Nat
  BY CeilDivFacts, RowsAssumption, RowTileAssumption, GroupsAssumption DEF Capacity
<1> QED
  BY <1>1, <1>3, <1>4, <1>5

(* The setup never stores outside the bank its caller sized, for any       *)
(* routing, row count, tile and workgroup width.                           *)
THEOREM SetupWithinCapacity == Spec => []WithinCapacity
  BY SlotsInside, SetupInductive, PTL

(* No slot of the bank is stored twice with different contents.            *)
LEMMA SlotsApart == IInv => SlotsDisjoint
<1> SUFFICES ASSUME IInv, NEW e \in stores, NEW f \in stores, e.slot = f.slot
             PROVE  e = f
  BY DEF SlotsDisjoint
<1>1. PICK gt \in AllTasks :
           /\ gt[1] \in GroupIds /\ gt[2] \in Nat
           /\ e = TaskEntry(Before(gt[1]) + gt[2], gt[1], gt[2])
           /\ e.slot = Before(gt[1]) + gt[2] /\ Before(gt[1]) \in Nat
           /\ e.slot < Before(gt[1] + 1)
  BY StoredTask
<1>2. PICK hu \in AllTasks :
           /\ hu[1] \in GroupIds /\ hu[2] \in Nat
           /\ f = TaskEntry(Before(hu[1]) + hu[2], hu[1], hu[2])
           /\ f.slot = Before(hu[1]) + hu[2] /\ Before(hu[1]) \in Nat
           /\ f.slot < Before(hu[1] + 1)
  BY StoredTask
<1>3. gt[1] \in Nat /\ hu[1] \in Nat
  BY <1>1, <1>2, GroupsAssumption DEF GroupIds
<1>4. /\ \A g, h \in Nat : g < h => Before(g + 1) <= Before(h)
      /\ \A g \in Nat : Before(g) \in Nat
  <2>1. /\ \A g, h \in Nat : g <= h => Before(g) <= Before(h)
        /\ \A g \in Nat : Before(g) \in Nat
    BY Prefix DEF IInv
  <2>2. \A g, h \in Nat : g < h => g + 1 \in Nat /\ g + 1 <= h
    OBVIOUS
  <2> QED
    BY <2>1, <2>2
<1>5. gt[1] = hu[1]
  <2>1. ~(gt[1] < hu[1])
    <3>1. SUFFICES ASSUME gt[1] < hu[1] PROVE FALSE
      OBVIOUS
    <3>2. Before(gt[1] + 1) <= Before(hu[1])
      BY <1>3, <1>4, <3>1
    <3>3. Before(gt[1] + 1) \in Nat
      BY <1>3, <1>4
    <3> QED
      BY <1>1, <1>2, <3>2, <3>3
  <2>2. ~(hu[1] < gt[1])
    <3>1. SUFFICES ASSUME hu[1] < gt[1] PROVE FALSE
      OBVIOUS
    <3>2. Before(hu[1] + 1) <= Before(gt[1])
      BY <1>3, <1>4, <3>1
    <3>3. Before(hu[1] + 1) \in Nat
      BY <1>3, <1>4
    <3> QED
      BY <1>1, <1>2, <3>2, <3>3
  <2> QED
    BY <1>3, <2>1, <2>2
<1>6. gt[2] = hu[2]
  BY <1>1, <1>2, <1>5
<1> QED
  BY <1>1, <1>2, <1>5, <1>6

(* Two lanes, or two passes of one lane, never store to the same slot,     *)
(* however the lanes interleave.                                           *)
THEOREM SetupSlotsDisjoint == Spec => []SlotsDisjoint
  BY SlotsApart, SetupInductive, PTL

(* Two tasks that share a slot are the same task.                          *)
LEMMA SlotInjective ==
    ASSUME TypeInv, NEW gt \in AllTasks, NEW hu \in AllTasks,
           Before(gt[1]) + gt[2] = Before(hu[1]) + hu[2]
    PROVE  gt = hu
<1>1. /\ gt = <<gt[1], gt[2]>> /\ gt[1] \in GroupIds /\ gt[2] \in Nat
      /\ gt[2] < Tasks(gt[1])
      /\ hu = <<hu[1], hu[2]>> /\ hu[1] \in GroupIds /\ hu[2] \in Nat
      /\ hu[2] < Tasks(hu[1])
  BY RowsAssumption DEF AllTasks, TaskSet, Tasks
<1>2. gt[1] \in Nat /\ hu[1] \in Nat
  BY <1>1, GroupsAssumption DEF GroupIds
<1>3. ASSUME NEW g \in Nat, NEW h \in Nat, NEW t \in Nat, NEW u \in Nat,
             g < h, t < Tasks(g)
      PROVE  Before(g) + t # Before(h) + u
  <2>1. g + 1 \in Nat /\ g + 1 <= h
    BY <1>3
  <2>2. Before(g + 1) <= Before(h) /\ Before(g + 1) = Before(g) + Tasks(g)
    BY <2>1, Prefix
  <2>3. Before(g) \in Nat /\ Before(h) \in Nat /\ Tasks(g) \in Nat
    BY Prefix
  <2> QED
    BY <1>3, <2>2, <2>3
<1>4. ~(gt[1] < hu[1])
  BY <1>1, <1>2, <1>3
<1>5. ~(hu[1] < gt[1])
  BY <1>1, <1>2, <1>3
<1>6. gt[1] = hu[1]
  BY <1>2, <1>4, <1>5
<1>7. Before(gt[1]) \in Nat
  BY <1>2, Prefix
<1>8. gt[2] = hu[2]
  BY <1>1, <1>6, <1>7
<1> QED
  BY <1>1, <1>6, <1>8

(* The slots the scan assigns are exactly the first Before(Groups) ones: an *)
(* injection of the tasks into as many slots leaves none of them out.       *)
LEMMA SlotsFill ==
    ASSUME TypeInv
    PROVE  {Before(gt[1]) + gt[2] : gt \in AllTasks} = 0 .. Before(Groups) - 1
<1> DEFINE N == Before(Groups)
           slot == [gt \in AllTasks |-> Before(gt[1]) + gt[2]]
<1>1. N \in Nat /\ N = Cardinality(AllTasks)
  BY Prefix, GroupsAssumption
<1>2. ASSUME NEW gt \in AllTasks PROVE Before(gt[1]) + gt[2] \in 0 .. N - 1
  <2>1. gt[1] \in GroupIds /\ gt[2] \in Nat /\ gt[2] < Tasks(gt[1])
    BY RowsAssumption DEF AllTasks, TaskSet, Tasks
  <2>2. gt[1] \in Nat /\ gt[1] + 1 \in Nat /\ Groups \in Nat /\ gt[1] + 1 <= Groups
    BY <2>1, GroupsAssumption DEF GroupIds
  <2>3. Before(gt[1] + 1) <= N /\ Before(gt[1] + 1) = Before(gt[1]) + Tasks(gt[1])
    BY <2>2, Prefix
  <2>4. Before(gt[1]) \in Nat /\ Tasks(gt[1]) \in Nat
    BY <2>2, Prefix
  <2> QED
    BY <1>1, <2>1, <2>3, <2>4
<1>3. slot \in Injection(AllTasks, 0 .. N - 1)
  <2>1. slot \in [AllTasks -> 0 .. N - 1]
    BY <1>2
  <2>2. \A gt, hu \in AllTasks : slot[gt] = slot[hu] => gt = hu
    BY SlotInjective
  <2> QED
    BY <2>1, <2>2 DEF Injection, IsInjective
<1>4. IsFiniteSet(0 .. N - 1) /\ Cardinality(0 .. N - 1) = N
  <2> HIDE DEF N
  <2>1. N - 1 \in Int /\ 0 \in Int
    BY <1>1
  <2>2. /\ IsFiniteSet(0 .. N - 1)
        /\ Cardinality(0 .. N - 1) = IF 0 > N - 1 THEN 0 ELSE N - 1 - 0 + 1
    BY ONLY <2>1, FS_Interval, Zenon
  <2> QED
    BY <1>1, <2>2
<1>5. slot \in Surjection(AllTasks, 0 .. N - 1)
  <2> HIDE DEF slot, N
  <2> QED
    BY <1>1, <1>3, <1>4, FS_Injection
<1>6. ASSUME NEW k \in 0 .. N - 1 PROVE \E gt \in AllTasks : slot[gt] = k
  BY <1>5 DEF Surjection
<1>7. ASSUME NEW k \in 0 .. N - 1
      PROVE  k \in {Before(gt[1]) + gt[2] : gt \in AllTasks}
  BY <1>6, <1>7
<1>8. ASSUME NEW k \in {Before(gt[1]) + gt[2] : gt \in AllTasks}
      PROVE  k \in 0 .. N - 1
  <2>1. PICK gt \in AllTasks : k = Before(gt[1]) + gt[2]
    BY <1>8
  <2> QED
    BY <1>2, <2>1
<1> HIDE DEF N, slot
<1>9. {Before(gt[1]) + gt[2] : gt \in AllTasks} = 0 .. N - 1
  BY <1>7, <1>8
<1> QED
  BY <1>9 DEF N

(* Once the count is published the bank holds a task at each slot below it. *)
LEMMA BankCovered == IInv => CountCoversBank
<1> SUFFICES ASSUME IInv, task_count # -1
             PROVE  {e.slot : e \in stores} = 0 .. task_count - 1
  BY DEF CountCoversBank
<1>1. task_count = Before(Groups) /\ phase \in {"count", "done"}
  BY DEF IInv, CountInv
<1>2. chunk >= Groups /\ chunk \in Nat
  BY <1>1 DEF IInv, LoopInv, TypeInv
<1>3. Emitted = GroupIds
  BY <1>2, GroupsAssumption DEF Emitted, GroupIds
<1>4. \A gt \in AllTasks : gt[1] \in Emitted
  BY <1>3 DEF AllTasks, TaskSet
<1>5. stores = {TaskEntry(Before(gt[1]) + gt[2], gt[1], gt[2]) : gt \in AllTasks}
  BY <1>4 DEF IInv, StoresInv
<1>6. {e.slot : e \in stores} = {Before(gt[1]) + gt[2] : gt \in AllTasks}
  <2>1. \A gt \in AllTasks :
          TaskEntry(Before(gt[1]) + gt[2], gt[1], gt[2]).slot = Before(gt[1]) + gt[2]
    BY DEF TaskEntry
  <2>2. ASSUME NEW k \in {e.slot : e \in stores}
        PROVE  k \in {Before(gt[1]) + gt[2] : gt \in AllTasks}
    <3>1. PICK e \in stores : k = e.slot
      BY <2>2
    <3> QED
      BY <1>5, <2>1, <3>1
  <2>3. ASSUME NEW k \in {Before(gt[1]) + gt[2] : gt \in AllTasks}
        PROVE  k \in {e.slot : e \in stores}
    <3>1. PICK gt \in AllTasks : k = Before(gt[1]) + gt[2]
      BY <2>3
    <3>2. TaskEntry(Before(gt[1]) + gt[2], gt[1], gt[2]) \in stores
      BY <1>5
    <3> QED
      BY <2>1, <3>1, <3>2
  <2> QED
    BY <2>2, <2>3
<1> QED
  BY <1>1, <1>6, SlotsFill DEF IInv

(* The published count is the number of stored tasks: no reader that stays *)
(* below it meets an uninitialized slot.                                   *)
THEOREM SetupCountCoversBank == Spec => []CountCoversBank
  BY BankCovered, SetupInductive, PTL

(* A retired setup kernel leaves every row tile of every valid entry in    *)
(* the bank, and nothing else.                                             *)
THEOREM SetupBankComplete == Spec => []BankComplete
<1>1. IInv => BankComplete
  <2> SUFFICES ASSUME IInv, phase = "done"
               PROVE  {[expert |-> e.expert, start |-> e.start, end |-> e.end] : e \in stores}
          = {[expert |-> TaskEntry(0, gt[1], gt[2]).expert,
              start |-> TaskEntry(0, gt[1], gt[2]).start,
              end |-> TaskEntry(0, gt[1], gt[2]).end] : gt \in AllTasks}
    BY DEF BankComplete
  <2>1. chunk >= Groups /\ chunk \in Nat
    BY DEF IInv, LoopInv, TypeInv
  <2>2. Emitted = GroupIds
    BY <2>1, GroupsAssumption DEF Emitted, GroupIds
  <2>3. \A gt \in AllTasks : gt[1] \in Emitted
    BY <2>2 DEF AllTasks, TaskSet
  <2>4. stores = {TaskEntry(Before(gt[1]) + gt[2], gt[1], gt[2]) : gt \in AllTasks}
    BY <2>3 DEF IInv, StoresInv
  <2> DEFINE rows(e) == [expert |-> e.expert, start |-> e.start, end |-> e.end]
             stored(gt) == TaskEntry(Before(gt[1]) + gt[2], gt[1], gt[2])
             plain(gt) == TaskEntry(0, gt[1], gt[2])
  <2>5. \A gt \in AllTasks : rows(stored(gt)) = rows(plain(gt))
    BY DEF TaskEntry
  <2>6. stores = {stored(gt) : gt \in AllTasks}
    BY <2>4
  <2> HIDE DEF rows, stored, plain
  <2>7. {rows(e) : e \in stores} = {rows(plain(gt)) : gt \in AllTasks}
    <3>1. ASSUME NEW r \in {rows(e) : e \in stores}
          PROVE  r \in {rows(plain(gt)) : gt \in AllTasks}
      <4>1. PICK e \in stores : r = rows(e)
        BY <3>1
      <4>2. PICK gt \in AllTasks : e = stored(gt)
        BY <2>6
      <4> QED
        BY <2>5, <4>1, <4>2
    <3>2. ASSUME NEW r \in {rows(plain(gt)) : gt \in AllTasks}
          PROVE  r \in {rows(e) : e \in stores}
      <4>1. PICK gt \in AllTasks : r = rows(plain(gt))
        BY <3>2
      <4>2. stored(gt) \in stores
        BY <2>6
      <4> QED
        BY <2>5, <4>1, <4>2
    <3> QED
      BY <3>1, <3>2
  <2> QED
    BY <2>7 DEF rows, plain
<1> QED
  BY <1>1, SetupInductive, PTL

(***************************************************************************)
(* Setup and multiply together.  A workgroup that takes a task stores the  *)
(* rows of one row tile, and no two tasks share a row, so what it needs of *)
(* the output depends on its own workgroup only.                           *)
(***************************************************************************)
RowsOf(e) == e.start .. e.end - 1

(* What a stored task says. *)
LEMMA TaskShape ==
    ASSUME IInv, NEW e \in stores
    PROVE  \E g \in GroupIds, t \in Nat :
             /\ Valid(expert_indices, expert_offsets, g)
             /\ e = TaskEntry(Before(g) + t, g, t)
             /\ e.expert = expert_indices[g]
             /\ e.start = Begin(g) + t * RowTile
             /\ Begin(g) \in Nat /\ t * RowTile \in Nat /\ e.end \in Nat
             /\ expert_offsets[g] \in Nat /\ expert_offsets[g] <= Rows
             /\ e.start < e.end /\ e.end <= expert_offsets[g]
             /\ e.end <= e.start + RowTile
<1>1. PICK gt \in AllTasks :
             /\ gt[1] \in GroupIds /\ gt[2] \in Nat /\ gt[2] < Tasks(gt[1])
             /\ e = TaskEntry(Before(gt[1]) + gt[2], gt[1], gt[2])
  BY StoredTask
<1> DEFINE g == gt[1]
           t == gt[2]
<1>2. expert_indices \in ExpertBanks /\ expert_offsets \in OffsetBanks
  BY DEF IInv, TypeInv
<1>3. /\ Valid(expert_indices, expert_offsets, g)
      /\ t * RowTile \in Nat
      /\ Begin(g) + t * RowTile < expert_offsets[g]
  BY <1>1, <1>2, TaskStartsInside DEF Tasks, Begin
<1>4. /\ Begin(g) \in Nat /\ expert_offsets[g] \in Nat /\ expert_offsets[g] <= Rows
  BY <1>1, <1>2, <1>3, ValidRange DEF Begin
<1>5. /\ e.expert = expert_indices[g] /\ e.start = Begin(g) + t * RowTile
      /\ e.end = SmallerOf(e.start + RowTile, expert_offsets[g])
  BY <1>1 DEF TaskEntry
<1> HIDE DEF g, t
<1>6. /\ e.end \in Nat /\ e.start < e.end /\ e.end <= expert_offsets[g]
      /\ e.end <= e.start + RowTile
  BY <1>3, <1>4, <1>5, RowTileAssumption DEF SmallerOf
<1> QED
  BY <1>1, <1>3, <1>4, <1>5, <1>6 DEF g, t

(* The rows of a route entry end where those of a later one may begin.     *)
LEMMA EntriesApart ==
    ASSUME NEW offsets \in OffsetBanks, NEW g \in GroupIds, NEW h \in GroupIds, g < h
    PROVE  offsets[g] <= RowBegin(offsets, h)
<1>1. h - 1 \in GroupIds /\ g <= h - 1 /\ h # 0
  BY GroupsAssumption DEF GroupIds
<1> QED
  BY <1>1 DEF OffsetBanks, RowBegin

(* No two tasks share a row. *)
LEMMA RowsApart ==
    ASSUME IInv, NEW e \in stores, NEW f \in stores, NEW row \in Int,
           row \in RowsOf(e), row \in RowsOf(f)
    PROVE  e = f
<1>1. PICK g \in GroupIds, t \in Nat :
             /\ e = TaskEntry(Before(g) + t, g, t)
             /\ e.start = Begin(g) + t * RowTile
             /\ Begin(g) \in Nat /\ t * RowTile \in Nat /\ e.end \in Nat
             /\ expert_offsets[g] \in Nat
             /\ e.end <= expert_offsets[g] /\ e.end <= e.start + RowTile
  BY TaskShape
<1>2. PICK h \in GroupIds, u \in Nat :
             /\ f = TaskEntry(Before(h) + u, h, u)
             /\ f.start = Begin(h) + u * RowTile
             /\ Begin(h) \in Nat /\ u * RowTile \in Nat /\ f.end \in Nat
             /\ expert_offsets[h] \in Nat
             /\ f.end <= expert_offsets[h] /\ f.end <= f.start + RowTile
  BY TaskShape
<1>3. e.start <= row /\ row < e.end /\ f.start <= row /\ row < f.end
  BY <1>1, <1>2 DEF RowsOf
<1>4. expert_offsets \in OffsetBanks
  BY DEF IInv, TypeInv
<1>5. ~ (g < h)
  <2>1. g < h => expert_offsets[g] <= Begin(h)
    BY <1>4, EntriesApart DEF Begin
  <2> QED
    BY <1>1, <1>2, <1>3, <2>1
<1>6. ~ (h < g)
  <2>1. h < g => expert_offsets[h] <= Begin(g)
    BY <1>4, EntriesApart DEF Begin
  <2> QED
    BY <1>1, <1>2, <1>3, <2>1
<1>7. g = h
  BY <1>5, <1>6, GroupsAssumption DEF GroupIds
<1>8. ASSUME NEW a \in Nat, NEW b \in Nat, a < b
      PROVE  a * RowTile + RowTile <= b * RowTile
  <2>1. (a + 1) * RowTile <= b * RowTile
    BY <1>8, TimesMonotone, RowTileAssumption
  <2>2. (a + 1) * RowTile = a * RowTile + RowTile
    BY RowTileAssumption
  <2> QED
    BY <2>1, <2>2
<1>9. ~ (t < u)
  <2>1. t < u => t * RowTile + RowTile <= u * RowTile
    BY <1>8
  <2> QED
    BY <1>1, <1>2, <1>3, <1>7, <2>1, RowTileAssumption
<1>10. ~ (u < t)
  <2>1. u < t => u * RowTile + RowTile <= t * RowTile
    BY <1>8
  <2> QED
    BY <1>1, <1>2, <1>3, <1>7, <2>1, RowTileAssumption
<1>11. t = u
  BY <1>9, <1>10
<1> QED
  BY <1>1, <1>2, <1>7, <1>11

(* Once all tasks are in the bank they cover the rows of each valid entry. *)
LEMMA RowsCovered ==
    ASSUME IInv, phase = "done", NEW g \in GroupIds,
           Valid(expert_indices, expert_offsets, g),
           NEW row \in Begin(g) .. expert_offsets[g] - 1
    PROVE  \E e \in stores : row \in RowsOf(e) /\ e.expert = expert_indices[g]
<1> DEFINE n == expert_offsets[g] - Begin(g)
           i == row - Begin(g)
           t == i \div RowTile
<1>1. expert_indices \in ExpertBanks /\ expert_offsets \in OffsetBanks
  BY DEF IInv, TypeInv
<1>2. Begin(g) \in Nat /\ expert_offsets[g] \in Nat /\ expert_offsets[g] <= Rows
  BY <1>1, ValidRange DEF Begin
<1>3. i \in Nat /\ n \in Nat /\ i < n
  BY <1>2
<1>4. Tasks(g) = CeilDiv(n, RowTile)
  BY DEF Tasks, GroupTasks, Begin
<1>5. CeilDiv(n, RowTile) \in Nat /\ n <= CeilDiv(n, RowTile) * RowTile /\ CeilDiv(n, RowTile) <= n
  BY <1>3, CeilDivFacts, RowTileAssumption
<1> HIDE DEF n, i
<1>6. t \in Nat /\ t * RowTile <= i /\ i < t * RowTile + RowTile /\ t * RowTile \in Nat
  BY <1>3, RowTileAssumption
<1> HIDE DEF t
<1>7. t < CeilDiv(n, RowTile)
  <2>1. CASE CeilDiv(n, RowTile) <= t
    <3>1. CeilDiv(n, RowTile) * RowTile <= t * RowTile
      BY <1>5, <1>6, <2>1, TimesMonotone, RowTileAssumption
    <3>2. CeilDiv(n, RowTile) * RowTile \in Int
      BY <1>5, RowTileAssumption
    <3> QED
      BY <1>3, <1>5, <1>6, <3>1, <3>2
  <2> QED
    BY <1>5, <1>6, <2>1
<1>8. <<g, t>> \in AllTasks
  <2>1. t \in 0 .. Rows
    BY <1>2, <1>3, <1>5, <1>6, <1>7, RowsAssumption DEF n
  <2> QED
    BY <1>4, <1>7, <2>1 DEF AllTasks, TaskSet, Tasks
<1>9. TaskEntry(Before(g) + t, g, t) \in stores
  <2>1. chunk >= Groups /\ chunk \in Nat
    BY DEF IInv, LoopInv, TypeInv
  <2>2. g \in Emitted
    BY <2>1, GroupsAssumption DEF Emitted, GroupIds
  <2>3. <<g, t>> \in {x \in AllTasks : x[1] \in Emitted}
    BY <1>8, <2>2
  <2> QED
    BY <2>3 DEF IInv, StoresInv
<1> DEFINE e == TaskEntry(Before(g) + t, g, t)
<1>10. /\ e.expert = expert_indices[g] /\ e.start = Begin(g) + t * RowTile
       /\ e.end = SmallerOf(e.start + RowTile, expert_offsets[g])
  BY DEF TaskEntry
<1>11. row \in RowsOf(e)
  <2> HIDE DEF e
  <2>1. row \in Int /\ row = Begin(g) + i /\ row < expert_offsets[g]
    BY <1>2 DEF i
  <2> QED
    BY <1>2, <1>3, <1>6, <1>10, <2>1, RowTileAssumption DEF RowsOf, SmallerOf
<1> QED
  BY <1>9, <1>10, <1>11

(* The cells of a task hold its expert as soon as its workgroup has        *)
(* retired, all others what torch.empty left.                              *)
CellInv(cell) ==
    /\ \A e \in stores :
         cell[1] \in RowsOf(e) /\ <<e.slot, cell[2]>> \in retired => output[cell] = e.expert
    /\ (\A e \in stores : ~ (cell[1] \in RowsOf(e) /\ <<e.slot, cell[2]>> \in retired))
         => output[cell] = Unwritten

LaunchInv ==
    /\ IInv
    /\ phase # "done" => retired = {}
    /\ output = [cell \in Cells |-> output[cell]]
    /\ \A cell \in Cells : CellInv(cell)

LEMMA LaunchInitInv == LaunchInit => LaunchInv
  BY InitInv DEF LaunchInit, LaunchInv, CellInv, Blank

(* The setup leaves the output alone, and stores to the bank before any    *)
(* workgroup of the multiply has started.                                  *)
LEMMA SetupKeeps ==
    ASSUME LaunchInv, SetupStep PROVE LaunchInv'
<1>1. UNCHANGED <<retired, output>> /\ Next
  BY DEF SetupStep, multiply
<1>2. phase # "done"
  BY <1>1 DEF Next, Barrier, LoadBarrier, GatherBarrier, AccumulateBarrier, EmitBarrier, Retire, Cross,
             LaneStep, Load, Gather, Accumulate, Emit, Count, Run
<1>3. IInv'
  BY <1>1, NextInv DEF LaunchInv
<1>4. retired = {}
  BY <1>2 DEF LaunchInv
<1> QED
  BY <1>1, <1>3, <1>4 DEF LaunchInv, CellInv

(* A workgroup below the count finds the one task stored at its slot.      *)
LEMMA OneTask ==
    ASSUME IInv, Launched, NEW slot \in Nat, slot < task_count
    PROVE  \E e \in stores : e.slot = slot /\ BankSlot(slot) = {e}
<1>1. task_count = Before(Groups) /\ Before(Groups) \in Nat
  BY Prefix, GroupsAssumption DEF IInv, CountInv, Launched
<1>2. {e.slot : e \in stores} = 0 .. task_count - 1
  BY <1>1, BankCovered DEF CountCoversBank
<1>3. PICK e \in stores : e.slot = slot
  <2>1. slot \in 0 .. task_count - 1
    BY <1>1
  <2>2. slot \in {e.slot : e \in stores}
    BY <1>2, <2>1, Zenon
  <2> QED
    BY <2>2, Zenon
<1>4. \A f \in stores : f.slot = slot => f = e
  BY <1>3, SlotsApart DEF SlotsDisjoint
<1> QED
  BY <1>3, <1>4 DEF BankSlot

(* It accepts it, and stores its rows: the tile holds them all.            *)
LEMMA TaskTaken ==
    ASSUME IInv, NEW e \in stores
    PROVE  Accepts(e) /\ TaskRows(e) = RowsOf(e)
<1>1. PICK g \in GroupIds, t \in Nat :
             /\ e.start = Begin(g) + t * RowTile
             /\ Begin(g) \in Nat /\ t * RowTile \in Nat /\ e.end \in Nat
             /\ expert_offsets[g] \in Nat /\ expert_offsets[g] <= Rows
             /\ e.start < e.end /\ e.end <= expert_offsets[g]
             /\ e.end <= e.start + RowTile
  BY TaskShape
<1>2. e.expert \in 0 .. NumExperts - 1
  BY StoreType
<1>3. e.start \in Nat /\ e.end <= Rows
  BY <1>1, RowsAssumption
<1>4. Accepts(e)
  BY <1>1, <1>2, <1>3 DEF Accepts
<1>5. SmallerOf(e.start + TileHeight, e.end) = e.end
  BY <1>1, <1>3, TileHeightAssumption, RowTileAssumption DEF SmallerOf
<1> QED
  BY <1>4, <1>5 DEF TaskRows, RowsOf

(* A row of a stored task is a row of the tensor.                          *)
LEMMA TaskRowsInside ==
    ASSUME IInv, NEW e \in stores, NEW row \in RowsOf(e)
    PROVE  row \in 0 .. Rows - 1
<1>1. /\ e.start \in Nat /\ e.end \in Nat /\ e.end <= Rows
  <2>1. e \in [slot : Nat, expert : 0 .. NumExperts - 1,
               start : 0 .. Rows - 1, end : 1 .. Rows]
    BY StoreType
  <2> QED
    BY <2>1, RowsAssumption
<1> QED
  BY <1>1, RowsAssumption DEF RowsOf

(* What a workgroup that takes a task does: it finds the one task of its   *)
(* slot, no cell of which has been written, and stores its rows.           *)
LEMMA MultiplyWrites ==
    ASSUME LaunchInv, NEW slot \in 0 .. Capacity - 1, NEW column \in Columns,
           MultiplyTask(slot, column)
    PROVE  \E e \in stores :
             /\ e.slot = slot
             /\ output' = Stored(output, RowsOf(e), column, e.expert)
             /\ \A row \in RowsOf(e) : output[<<row, column>>] = Unwritten
<1>1. /\ IInv /\ Launched /\ <<slot, column>> \notin retired /\ slot < task_count
      /\ \E task \in BankSlot(slot) :
           output' = IF Accepts(task)
                     THEN Stored(output, TaskRows(task), column, task.expert) ELSE output
  BY DEF MultiplyTask, LaunchInv
<1>2. slot \in Nat
  OBVIOUS
<1>3. PICK e \in stores : e.slot = slot /\ BankSlot(slot) = {e}
  BY <1>1, <1>2, OneTask
<1>4. Accepts(e) /\ TaskRows(e) = RowsOf(e)
  BY <1>1, TaskTaken
<1>5. output' = Stored(output, RowsOf(e), column, e.expert)
  BY <1>1, <1>3, <1>4
<1>6. ASSUME NEW row \in RowsOf(e) PROVE output[<<row, column>>] = Unwritten
  <2>1. row \in 0 .. Rows - 1
    BY <1>1, TaskRowsInside
  <2> DEFINE cell == <<row, column>>
  <2>2. cell \in Cells /\ cell[1] = row /\ cell[2] = column
    BY <2>1 DEF Cells
  <2>3. CellInv(cell)
    BY <2>2 DEF LaunchInv
  <2> HIDE DEF cell
  <2>4. ASSUME NEW f \in stores, cell[1] \in RowsOf(f), <<f.slot, cell[2]>> \in retired
        PROVE  FALSE
    <3>1. f = e
      BY <1>1, <1>6, <2>1, <2>2, <2>4, RowsApart
    <3> QED
      BY <1>1, <1>3, <2>2, <2>4, <3>1
  <2>5. output[cell] = Unwritten
    BY <2>3, <2>4 DEF CellInv
  <2> QED
    BY <2>5 DEF cell
<1> QED
  BY <1>3, <1>5, <1>6

LEMMA MultiplyKeeps ==
    ASSUME LaunchInv, NEW slot \in 0 .. Capacity - 1, NEW column \in Columns,
           MultiplyTask(slot, column)
    PROVE  LaunchInv'
<1>1. PICK e \in stores :
             /\ e.slot = slot
             /\ output' = Stored(output, RowsOf(e), column, e.expert)
             /\ \A row \in RowsOf(e) : output[<<row, column>>] = Unwritten
  BY MultiplyWrites
<1>2. /\ IInv /\ phase = "done" /\ retired' = retired \cup {<<slot, column>>}
      /\ UNCHANGED vars
  BY DEF MultiplyTask, LaunchInv, Launched
<1>3. IInv'
  BY <1>2, NextInv
<1>4. stores' = stores /\ phase' = phase
  BY <1>2 DEF vars
<1>5. e.expert # Unwritten
  <2>1. e.expert \in 0 .. NumExperts - 1
    BY <1>2, StoreType
  <2> QED
    BY <2>1, NumExpertsAssumption DEF Unwritten
<1>6. output' = [cell \in Cells |-> output'[cell]]
  BY <1>1 DEF Stored
<1>7. ASSUME NEW cell \in Cells PROVE CellInv(cell)'
  <2>0. cell[1] \in Int /\ cell[2] \in Columns /\ cell = <<cell[1], cell[2]>>
    BY DEF Cells
  <2>1. CellInv(cell)
    BY DEF LaunchInv
  <2>2. CASE cell[1] \in RowsOf(e) /\ cell[2] = column
    <3>1. output'[cell] = e.expert
      <4>1. output[cell] = Unwritten
        BY <1>1, <2>0, <2>2
      <4> QED
        BY <1>1, <2>2, <4>1 DEF Stored
    <3>2. \A f \in stores : cell[1] \in RowsOf(f) => f = e
      BY <1>2, <2>0, <2>2, RowsApart
    <3>3. <<e.slot, cell[2]>> \in retired'
      BY <1>1, <1>2, <2>2
    <3> QED
      BY <1>4, <2>2, <3>1, <3>2, <3>3 DEF CellInv
  <2>3. CASE ~ (cell[1] \in RowsOf(e) /\ cell[2] = column)
    <3>1. output'[cell] = output[cell]
      BY <1>1, <2>3 DEF Stored
    <3>2. \A f \in stores : cell[1] \in RowsOf(f) =>
            (<<f.slot, cell[2]>> \in retired' <=> <<f.slot, cell[2]>> \in retired)
      <4> SUFFICES ASSUME NEW f \in stores, cell[1] \in RowsOf(f)
                   PROVE  <<f.slot, cell[2]>> # <<slot, column>>
        BY <1>2
      <4>1. f.slot = slot => f = e
        BY <1>1, <1>2, SlotsApart DEF SlotsDisjoint
      <4> QED
        BY <2>3, <4>1
    <3> QED
      BY <1>4, <2>1, <3>1, <3>2 DEF CellInv
  <2> QED
    BY <2>2, <2>3
<1>8. phase' # "done" => retired' = {}
  BY <1>2, <1>4
<1> QED
  BY <1>3, <1>6, <1>7, <1>8 DEF LaunchInv

(* A workgroup beyond the count finds nothing: no task has its slot.       *)
LEMMA SkipKeeps ==
    ASSUME LaunchInv, NEW slot \in 0 .. Capacity - 1, NEW column \in Columns,
           SkipTask(slot, column)
    PROVE  LaunchInv'
<1>1. /\ IInv /\ phase = "done" /\ retired' = retired \cup {<<slot, column>>}
      /\ slot >= task_count /\ output' = output /\ UNCHANGED vars
  BY DEF SkipTask, LaunchInv, Launched
<1>2. IInv'
  BY <1>1, NextInv
<1>3. stores' = stores /\ phase' = phase
  BY <1>1 DEF vars
<1>4. \A f \in stores : f.slot # slot
  <2>1. task_count = Before(Groups) /\ Before(Groups) \in Nat
    BY <1>1, Prefix, GroupsAssumption DEF IInv, CountInv
  <2>2. {f.slot : f \in stores} = 0 .. task_count - 1
    BY <1>1, <2>1, BankCovered DEF CountCoversBank
  <2>3. slot \notin 0 .. task_count - 1
    BY <1>1, <2>1
  <2> QED
    BY <2>2, <2>3
<1>5. \A f \in stores, k \in Columns :
        <<f.slot, k>> \in retired' <=> <<f.slot, k>> \in retired
  BY <1>1, <1>4
<1>6. ASSUME NEW cell \in Cells PROVE CellInv(cell)'
  <2>1. CellInv(cell) /\ cell[2] \in Columns
    BY DEF LaunchInv, Cells
  <2> QED
    BY <1>1, <1>3, <1>5, <2>1 DEF CellInv
<1> QED
  BY <1>1, <1>2, <1>3, <1>6 DEF LaunchInv

LEMMA LaunchNextInv == LaunchInv /\ [LaunchNext]_launch => LaunchInv'
<1> SUFFICES ASSUME LaunchInv, [LaunchNext]_launch PROVE LaunchInv'
  OBVIOUS
<1>1. CASE SetupStep
  BY <1>1, SetupKeeps
<1>2. ASSUME NEW slot \in 0 .. Capacity - 1, NEW column \in Columns,
             SkipTask(slot, column) \/ MultiplyTask(slot, column)
      PROVE  LaunchInv'
  BY <1>2, SkipKeeps, MultiplyKeeps
<1>3. CASE UNCHANGED launch
  <2>1. UNCHANGED <<vars, retired, output>>
    BY <1>3 DEF launch, multiply
  <2>2. IInv'
    BY <2>1, NextInv DEF LaunchInv
  <2>3. stores' = stores /\ phase' = phase
    BY <2>1 DEF vars
  <2> QED
    BY <2>1, <2>2, <2>3 DEF LaunchInv, CellInv
<1> QED
  BY <1>1, <1>2, <1>3 DEF LaunchNext, WorkGroupStep

(***************************************************************************)
(* Setup and multiply against what every grouped operation promises.       *)
(***************************************************************************)
LEMMA LaunchInitMaps == LaunchInit => Output!Init
  BY DEF LaunchInit, Init, Output!Init, ExpertBanks, OffsetBanks, Blank, Cells, Columns, GroupIds,
         Unwritten, Output!ExpertBanks, Output!OffsetBanks, Output!Blank, Output!Cells,
         Output!Columns, Output!GroupIds, Output!Unwritten

(* A workgroup that stores a task writes rows of one valid entry.          *)
LEMMA MultiplyMaps ==
    ASSUME LaunchInv, NEW slot \in 0 .. Capacity - 1, NEW column \in Columns,
           MultiplyTask(slot, column)
    PROVE  Output!Next
<1>1. PICK e \in stores :
             /\ e.slot = slot
             /\ output' = Stored(output, RowsOf(e), column, e.expert)
             /\ \A row \in RowsOf(e) : output[<<row, column>>] = Unwritten
  BY MultiplyWrites
<1>2. IInv
  BY DEF LaunchInv
<1>3. PICK g \in GroupIds, t \in Nat :
             /\ Valid(expert_indices, expert_offsets, g)
             /\ e.expert = expert_indices[g]
             /\ e.start = Begin(g) + t * RowTile
             /\ Begin(g) \in Nat /\ t * RowTile \in Nat /\ e.end \in Nat
             /\ expert_offsets[g] \in Nat
             /\ e.start < e.end /\ e.end <= expert_offsets[g]
  BY <1>2, TaskShape
<1>4. RowsOf(e) # {} /\ RowsOf(e) \subseteq Begin(g) .. expert_offsets[g] - 1
  <2>1. e.start \in RowsOf(e)
    BY <1>3 DEF RowsOf
  <2> QED
    BY <1>3, <2>1 DEF RowsOf
<1>5. Output!EntryRows(g) = Begin(g) .. expert_offsets[g] - 1
  BY DEF Output!EntryRows, Output!RowBegin, Begin, RowBegin
<1>6. Output!IsValid(g)
  BY <1>3 DEF Output!IsValid, Output!Valid, Output!RowBegin, Valid, RowBegin
<1>7. output' = Output!Stored(output, RowsOf(e), column, expert_indices[g])
  BY <1>1, <1>3 DEF Stored, Output!Stored, Cells, Output!Cells, Columns, Output!Columns,
         Unwritten, Output!Unwritten, Overwritten, Output!Overwritten
<1>8. \A row \in RowsOf(e) : output[<<row, column>>] = Output!Unwritten
  BY <1>1 DEF Unwritten, Output!Unwritten
<1>9. UNCHANGED <<expert_indices, expert_offsets>>
  BY DEF MultiplyTask, vars, tensors
<1>10. Output!WriteRows(g, column, RowsOf(e))
  BY <1>4, <1>5, <1>6, <1>7, <1>8, <1>9 DEF Output!WriteRows
<1>11. g \in Output!GroupIds /\ column \in Output!Columns
  BY <1>3 DEF GroupIds, Output!GroupIds, Columns, Output!Columns
<1> QED
  BY <1>4, <1>5, <1>10, <1>11 DEF Output!Next

(* The setup kernel and the workgroups beyond the count leave the output.  *)
LEMMA LaunchStepMaps ==
    LaunchInv /\ [LaunchNext]_launch => [Output!Next]_(Output!vars)
<1> SUFFICES ASSUME LaunchInv, [LaunchNext]_launch PROVE [Output!Next]_(Output!vars)
  OBVIOUS
<1>1. CASE SetupStep
  <2>1. Next /\ output' = output
    BY <1>1 DEF SetupStep, multiply
  <2>2. UNCHANGED tensors
    BY <2>1 DEF Next, Barrier, LoadBarrier, GatherBarrier, AccumulateBarrier, EmitBarrier, Retire, Cross,
             LaneStep, Load, Gather, Accumulate, Emit, Count, Run
  <2> QED
    BY <2>1, <2>2 DEF tensors, Output!vars
<1>2. ASSUME NEW slot \in 0 .. Capacity - 1, NEW column \in Columns,
             SkipTask(slot, column)
      PROVE  UNCHANGED Output!vars
  BY <1>2 DEF SkipTask, vars, tensors, Output!vars
<1>3. ASSUME NEW slot \in 0 .. Capacity - 1, NEW column \in Columns,
             MultiplyTask(slot, column)
      PROVE  Output!Next
  BY <1>3, MultiplyMaps
<1>4. CASE UNCHANGED launch
  BY <1>4 DEF launch, vars, tensors, multiply, Output!vars
<1> QED
  BY <1>1, <1>2, <1>3, <1>4 DEF LaunchNext, WorkGroupStep

(* A grouped operation with device row tasks only ever writes rows of a    *)
(* valid route entry, with that entry's own expert, and no cell a second   *)
(* time: every step of the two kernels is a step of RoutedOutput, for any  *)
(* routing, shape, tile, workgroup width and interleaving.                 *)
THEOREM LaunchWritesOnce == LaunchSpec => Output!Safety
<1>1. LaunchSpec => []LaunchInv
  BY LaunchInitInv, LaunchNextInv, PTL DEF LaunchSpec
<1> QED
  BY <1>1, LaunchInitMaps, LaunchStepMaps, PTL DEF LaunchSpec, Output!Safety

(* Once every workgroup of the grid has returned, each row of a valid      *)
(* entry holds its expert in every column tile and every other cell is     *)
(* what torch.empty left: the capacity grid, sized without reading the     *)
(* count, misses no task.                                                  *)
THEOREM LaunchCompletes == LaunchSpec => [](retired = WorkGroups => Output!Complete)
<1>1. LaunchSpec => []LaunchInv
  BY LaunchInitInv, LaunchNextInv, PTL DEF LaunchSpec
<1>2. LaunchInv => (retired = WorkGroups => Output!Complete)
  <2> SUFFICES ASSUME LaunchInv, retired = WorkGroups PROVE Output!Complete
    OBVIOUS
  <2>1. IInv
    BY DEF LaunchInv
  <2>2. Capacity \in Nat \ {0}
    <3>1. CeilDiv(Rows, RowTile) \in Nat
      BY CeilDivFacts, RowsAssumption, RowTileAssumption
    <3> QED
      BY <3>1, GroupsAssumption DEF Capacity
  <2>3. phase = "done"
    <3>1. <<0, 0>> \in WorkGroups
      BY <2>2, ColumnTilesAssumption DEF WorkGroups, Columns
    <3> QED
      BY <3>1 DEF LaunchInv
  <2>4. ASSUME NEW row \in 0 .. Rows - 1, NEW column \in Columns
        PROVE  \A e \in stores : <<e.slot, column>> \in retired
    <3> SUFFICES ASSUME NEW e \in stores PROVE e.slot \in 0 .. Capacity - 1
      BY DEF WorkGroups
    <3>1. e.slot \in Nat /\ e.slot < Capacity
      BY <2>1, StoreType, SlotsInside DEF WithinCapacity
    <3> QED
      BY <2>2, <3>1
  <2>5. ASSUME NEW row \in 0 .. Rows - 1, NEW column \in Columns, NEW g \in GroupIds,
               Output!IsValid(g), row \in Output!EntryRows(g)
        PROVE  output[<<row, column>>] = expert_indices[g]
    <3>1. Valid(expert_indices, expert_offsets, g) /\ row \in Begin(g) .. expert_offsets[g] - 1
      BY <2>5 DEF Output!IsValid, Output!EntryRows, Output!Valid, Output!RowBegin, Valid, RowBegin, Begin
    <3>2. PICK e \in stores : row \in RowsOf(e) /\ e.expert = expert_indices[g]
      BY <2>1, <2>3, <3>1, RowsCovered
    <3>3. <<row, column>> \in Cells
      BY DEF Cells
    <3>4. <<e.slot, column>> \in retired
      BY <2>4
    <3> QED
      BY <3>2, <3>3, <3>4 DEF LaunchInv, CellInv
  <2>6. ASSUME NEW row \in 0 .. Rows - 1, NEW column \in Columns,
               \A g \in GroupIds : ~ (Output!IsValid(g) /\ row \in Output!EntryRows(g))
        PROVE  output[<<row, column>>] = Unwritten
    <3>1. ASSUME NEW e \in stores, row \in RowsOf(e) PROVE FALSE
      <4>1. PICK g \in GroupIds, t \in Nat :
               /\ Valid(expert_indices, expert_offsets, g)
               /\ e.start = Begin(g) + t * RowTile
               /\ Begin(g) \in Nat /\ t * RowTile \in Nat /\ e.end \in Nat
               /\ expert_offsets[g] \in Nat /\ e.end <= expert_offsets[g]
        BY <2>1, TaskShape
      <4>2. row \in Begin(g) .. expert_offsets[g] - 1
        BY <3>1, <4>1 DEF RowsOf
      <4>3. Output!IsValid(g) /\ row \in Output!EntryRows(g)
        BY <4>1, <4>2 DEF Output!IsValid, Output!EntryRows, Output!Valid, Output!RowBegin, Valid, RowBegin, Begin
      <4> QED
        BY <2>6, <4>3
    <3>2. <<row, column>> \in Cells
      BY DEF Cells
    <3> QED
      BY <3>1, <3>2 DEF LaunchInv, CellInv
  <2>7. Output!Columns = Columns /\ Output!GroupIds = GroupIds /\ Output!Unwritten = Unwritten
    BY DEF Columns, Output!Columns, GroupIds, Output!GroupIds, Unwritten, Output!Unwritten
  <2>8. \A row \in 0 .. Rows - 1, column \in Columns :
          /\ \A g \in GroupIds :
               Output!IsValid(g) /\ row \in Output!EntryRows(g)
                 => output[<<row, column>>] = expert_indices[g]
          /\ (\A g \in GroupIds : ~ (Output!IsValid(g) /\ row \in Output!EntryRows(g)))
                 => output[<<row, column>>] = Unwritten
    BY <2>5, <2>6
  <2> HIDE DEF Columns, GroupIds, Unwritten
  <2> QED
    BY <2>7, <2>8, Zenon DEF Output!Complete
<1> QED
  BY <1>1, <1>2, PTL

(***************************************************************************)
(* The bodies that own whole route entries.  Arithmetic of the grids and   *)
(* of the walks first.                                                     *)
(***************************************************************************)
(* Every non-empty set of natural numbers has a least element.             *)
LEMMA NatOrder ==
    \E R : IsWellFoundedOn(R, Nat) /\ \A a, b \in Nat : a < b => <<a, b>> \in R
<1>1. \A a, b \in Nat : a < b => <<a, b>> \in OpToRel(<, Nat)
  BY Zenon DEF OpToRel
<1>2. IsWellFoundedOn(OpToRel(<, Nat), Nat)
  BY NatLessThanWellFounded, Zenon
<1> QED
  BY <1>1, <1>2, Zenon

LEMMA LeastNatural ==
    ASSUME NEW S, S \subseteq Nat, S # {}
    PROVE  \E n \in S : \A k \in S : n <= k
<1>1. PICK R : IsWellFoundedOn(R, Nat) /\ \A a, b \in Nat : a < b => <<a, b>> \in R
  BY NatOrder
<1>2. PICK n \in S : \A k \in S : ~ (<<k, n>> \in R)
  <2>1. \A U, V, T : IsWellFoundedOn(U, V) /\ T \subseteq V /\ T # {}
          => \E x \in T : \A y \in T : ~ (<<y, x>> \in U)
    BY WFMin
  <2>2. IsWellFoundedOn(R, Nat)
    BY <1>1
  <2> QED
    BY <2>1, <2>2, Zenon
<1>3. ASSUME NEW k \in S PROVE n <= k
  <2>1. n \in Nat /\ k \in Nat
    OBVIOUS
  <2>2. ~ (k < n)
    BY <1>1, <1>2, <2>1
  <2> QED
    BY <2>1, <2>2
<1> QED
  BY <1>3

(* Division with remainder, as the grid coordinates and the walks use it.  *)
LEMMA DivMod ==
    ASSUME NEW a \in Nat, NEW d \in Nat \ {0}
    PROVE  /\ a \div d \in Nat /\ a % d \in 0 .. d - 1
           /\ (a \div d) * d \in Nat
           /\ a = (a \div d) * d + (a % d)
<1>1. a \div d \in Nat /\ a % d \in 0 .. d - 1
  OBVIOUS
<1>2. a = (a \div d) * d + (a % d)
  OBVIOUS
<1>3. (a \div d) * d \in Nat
  BY <1>1
<1> QED
  BY <1>1, <1>2, <1>3

LEMMA DivModUnique ==
    ASSUME NEW p \in Nat, NEW q \in Nat, NEW d \in Nat \ {0},
           NEW r \in 0 .. d - 1, NEW s \in 0 .. d - 1, p * d + r = q * d + s
    PROVE  p = q /\ r = s
<1>1. ASSUME NEW a \in Nat, NEW b \in Nat, NEW x \in 0 .. d - 1, NEW y \in 0 .. d - 1, a < b
      PROVE  a * d + x < b * d + y
  <2>1. (a + 1) * d <= b * d
    BY <1>1, TimesMonotone
  <2>2. (a + 1) * d = a * d + d /\ a * d \in Nat /\ b * d \in Nat
    OBVIOUS
  <2> QED
    BY <2>1, <2>2
<1>2. p * d \in Nat /\ q * d \in Nat
  OBVIOUS
<1>3. ~ (p < q) /\ ~ (q < p)
  BY <1>1, <1>2
<1>4. p = q
  BY <1>3
<1> QED
  BY <1>2, <1>4

LEMMA DivModOf ==
    ASSUME NEW q \in Nat, NEW d \in Nat \ {0}, NEW r \in 0 .. d - 1
    PROVE  (q * d + r) \div d = q /\ (q * d + r) % d = r
<1> DEFINE a == q * d + r
<1>1. a \in Nat
  OBVIOUS
<1> HIDE DEF a
<1>2. a \div d \in Nat /\ a % d \in 0 .. d - 1 /\ a = (a \div d) * d + (a % d)
  BY <1>1, DivMod
<1>3. a = q * d + r
  BY DEF a
<1>4. a \div d = q /\ a % d = r
  BY <1>2, <1>3, DivModUnique
<1> QED
  BY <1>4 DEF a

(* A row is in row tile t when it lies between its start and the next.     *)
LEMMA TileOf ==
    ASSUME NEW i \in Nat, NEW d \in Nat \ {0}, NEW t \in Nat
    PROVE  /\ t * d \in Nat
           /\ i \div d \in Nat
           /\ i \div d = t <=> t * d <= i /\ i < t * d + d
           /\ t <= i \div d <=> t * d <= i
<1> DEFINE q == i \div d
<1>1. q \in Nat /\ q * d \in Nat /\ q * d <= i /\ i < q * d + d
  BY DivMod
<1> HIDE DEF q
<1>2. t * d \in Nat
  OBVIOUS
<1>3. ASSUME NEW a \in Nat, NEW b \in Nat, a < b
      PROVE  a * d + d <= b * d
  <2>1. (a + 1) * d <= b * d
    BY <1>3, TimesMonotone
  <2> QED
    BY <2>1
<1>4. t < q => t * d + d <= q * d
  BY <1>1, <1>3
<1>5. q < t => q * d + d <= t * d
  BY <1>1, <1>3
<1>6. t = q => t * d = q * d
  OBVIOUS
<1>7. q = t <=> t * d <= i /\ i < t * d + d
  BY <1>1, <1>2, <1>4, <1>5, <1>6
<1>8. t <= q <=> t * d <= i
  BY <1>1, <1>2, <1>4, <1>5, <1>6
<1> QED
  BY <1>1, <1>2, <1>7, <1>8 DEF q

(* The walk of a workgroup by `s` tiles misses none of those it owns.      *)
LEMMA StrideWalk ==
    ASSUME NEW t \in Nat, NEW k \in Nat, NEW s \in Nat \ {0}, t % s = k % s
    PROVE  /\ (t + s) % s = t % s
           /\ t + s <= k <=> t <= k /\ t # k
<1>1. /\ t \div s \in Nat /\ t % s \in 0 .. s - 1 /\ t = (t \div s) * s + (t % s)
      /\ k \div s \in Nat /\ k % s \in 0 .. s - 1 /\ k = (k \div s) * s + (k % s)
  BY DivMod
<1> DEFINE a == t \div s
           b == k \div s
           r == t % s
<1>2. a \in Nat /\ b \in Nat /\ r \in 0 .. s - 1 /\ t = a * s + r /\ k = b * s + r
  BY <1>1
<1> HIDE DEF a, b, r
<1>3. (t + s) % s = r
  <2>1. a + 1 \in Nat /\ (a + 1) * s + r = t + s
    BY <1>2
  <2>2. ((a + 1) * s + r) % s = r
    BY <1>2, <2>1, DivModOf
  <2> QED
    BY <2>1, <2>2
<1>4. a * s \in Nat /\ b * s \in Nat
  BY <1>2
<1>5. a < b => a * s + s <= b * s
  <2>1. a < b => (a + 1) * s <= b * s
    BY <1>2, TimesMonotone
  <2> QED
    BY <1>2, <2>1
<1>6. b < a => b * s + s <= a * s
  <2>1. b < a => (b + 1) * s <= a * s
    BY <1>2, TimesMonotone
  <2> QED
    BY <1>2, <2>1
<1>7. t + s <= k <=> t <= k /\ t # k
  BY <1>2, <1>4, <1>5, <1>6
<1> QED
  BY <1>3, <1>7 DEF r

(***************************************************************************)
(* What is still owed of an output: the cells the running workgroups have  *)
(* yet to write.  `whole` says that the launch serves every valid entry.   *)
(***************************************************************************)
Carries(experts, offsets, g, cell) ==
    /\ Valid(experts, offsets, g)
    /\ cell[1] \in RowBegin(offsets, g) .. offsets[g] - 1

Block(rows, column) == {cell \in Cells : cell[1] \in rows /\ cell[2] = column}

Delivered(experts, offsets, whole, owed, out) ==
    /\ out = [cell \in Cells |-> out[cell]]
    /\ \A cell \in Cells :
         /\ cell \in owed => out[cell] = Unwritten
         /\ \A g \in GroupIds :
              whole /\ Carries(experts, offsets, g, cell) /\ cell \notin owed
                => out[cell] = experts[g]
         /\ (\A g \in GroupIds : ~ Carries(experts, offsets, g, cell))
              => out[cell] = Unwritten

(* A cell belongs to the rows of one route entry. *)
LEMMA OneCarrier ==
    ASSUME NEW experts \in ExpertBanks, NEW offsets \in OffsetBanks,
           NEW g \in GroupIds, NEW h \in GroupIds, NEW cell \in Cells,
           Carries(experts, offsets, g, cell), Carries(experts, offsets, h, cell)
    PROVE  g = h
<1>1. /\ RowBegin(offsets, g) \in Nat /\ offsets[g] \in Nat
      /\ RowBegin(offsets, h) \in Nat /\ offsets[h] \in Nat
  BY ValidRange DEF Carries
<1>2. cell[1] \in Int
  BY DEF Cells
<1>3. /\ RowBegin(offsets, g) <= cell[1] /\ cell[1] < offsets[g]
      /\ RowBegin(offsets, h) <= cell[1] /\ cell[1] < offsets[h]
  BY <1>1, <1>2 DEF Carries
<1>4. g < h => offsets[g] <= RowBegin(offsets, h)
  BY EntriesApart
<1>5. h < g => offsets[h] <= RowBegin(offsets, g)
  BY EntriesApart
<1>6. g \in Int /\ h \in Int
  BY DEF GroupIds
<1> QED
  BY <1>1, <1>2, <1>3, <1>4, <1>5, <1>6

(* A workgroup that stores rows of its entry owes them no longer. *)
LEMMA StoreDelivers ==
    ASSUME NEW experts \in ExpertBanks, NEW offsets \in OffsetBanks,
           NEW whole \in BOOLEAN, NEW owed, NEW out, NEW g \in GroupIds,
           NEW rows, NEW column \in Columns,
           Delivered(experts, offsets, whole, owed, out),
           \A cell \in Block(rows, column) :
             cell \in owed /\ Carries(experts, offsets, g, cell)
    PROVE  Delivered(experts, offsets, whole, owed \ Block(rows, column),
                     Stored(out, rows, column, experts[g]))
<1> DEFINE after == Stored(out, rows, column, experts[g])
           left == owed \ Block(rows, column)
<1>1. after = [cell \in Cells |-> after[cell]]
  BY DEF Stored
<1>2. ASSUME NEW cell \in Cells
      PROVE  /\ cell \in left => after[cell] = Unwritten
             /\ \A h \in GroupIds :
                  whole /\ Carries(experts, offsets, h, cell) /\ cell \notin left
                    => after[cell] = experts[h]
             /\ (\A h \in GroupIds : ~ Carries(experts, offsets, h, cell))
                  => after[cell] = Unwritten
  <2>1. /\ cell \in owed => out[cell] = Unwritten
        /\ \A h \in GroupIds :
             whole /\ Carries(experts, offsets, h, cell) /\ cell \notin owed
               => out[cell] = experts[h]
        /\ (\A h \in GroupIds : ~ Carries(experts, offsets, h, cell))
             => out[cell] = Unwritten
    BY DEF Delivered
  <2>2. CASE cell \in Block(rows, column)
    <3>1. cell \in owed /\ Carries(experts, offsets, g, cell) /\ cell \notin left
      BY <2>2
    <3>2. after[cell] = experts[g]
      BY <2>1, <2>2, <3>1 DEF Stored, Block
    <3>3. \A h \in GroupIds : Carries(experts, offsets, h, cell) => h = g
      BY <3>1, OneCarrier
    <3> HIDE DEF after, left
    <3> QED
      BY <3>1, <3>2, <3>3
  <2>3. CASE cell \notin Block(rows, column)
    <3>1. after[cell] = out[cell]
      BY <2>3 DEF Stored, Block
    <3>2. cell \in left <=> cell \in owed
      BY <2>3
    <3> HIDE DEF after, left
    <3> QED
      BY <2>1, <3>1, <3>2
  <2> QED
    BY <2>2, <2>3
<1> HIDE DEF after, left
<1>3. Delivered(experts, offsets, whole, left, after)
  BY <1>1, <1>2 DEF Delivered
<1> QED
  BY <1>3 DEF after, left

(* Other workgroups owe other cells, so what one stores is no one else's.  *)
LEMMA OwedLeft ==
    ASSUME NEW W, NEW before, NEW after, NEW w \in W, NEW stored,
           \A v \in W \ {w} : after[v] = before[v] /\ before[v] \cap before[w] = {},
           stored \subseteq before[w], after[w] = before[w] \ stored
    PROVE  (UNION {after[v] : v \in W}) = (UNION {before[v] : v \in W}) \ stored
<1>1. \A v \in W : after[v] = before[v] \ stored
  OBVIOUS
<1> QED
  BY <1>1

(* Such a store is a step of RoutedOutput. *)
LEMMA StoreMaps ==
    ASSUME expert_indices \in ExpertBanks, expert_offsets \in OffsetBanks,
           NEW whole, NEW owed, NEW g \in GroupIds, NEW rows, NEW column \in Columns,
           Delivered(expert_indices, expert_offsets, whole, owed, output),
           Valid(expert_indices, expert_offsets, g),
           rows \subseteq RowBegin(expert_offsets, g) .. expert_offsets[g] - 1,
           Block(rows, column) \subseteq owed,
           output' = Stored(output, rows, column, expert_indices[g]),
           UNCHANGED <<expert_indices, expert_offsets>>
    PROVE  [Output!Next]_(Output!vars)
<1>1. /\ RowBegin(expert_offsets, g) \in Nat /\ expert_offsets[g] \in Nat
      /\ expert_offsets[g] <= Rows
  BY ValidRange
<1>2. CASE rows = {}
  <2>1. output' = [cell \in Cells |-> output[cell]]
    BY <1>2 DEF Stored
  <2>2. output' = output
    BY <2>1 DEF Delivered
  <2> QED
    BY <2>2 DEF Output!vars
<1>3. CASE rows # {}
  <2>1. \A row \in rows : output[<<row, column>>] = Unwritten
    <3> SUFFICES ASSUME NEW row \in rows PROVE output[<<row, column>>] = Unwritten
      OBVIOUS
    <3>1. row \in 0 .. Rows - 1
      BY <1>1, RowsAssumption
    <3>2. <<row, column>> \in Cells
      BY <3>1 DEF Cells
    <3>3. <<row, column>> \in Block(rows, column)
      BY <3>2 DEF Block
    <3> QED
      BY <3>2, <3>3 DEF Delivered
  <2>2. Output!EntryRows(g) = RowBegin(expert_offsets, g) .. expert_offsets[g] - 1
    BY DEF Output!EntryRows, Output!RowBegin, RowBegin
  <2>3. Output!IsValid(g)
    BY DEF Output!IsValid, Output!Valid, Output!RowBegin, Valid, RowBegin
  <2>4. output' = Output!Stored(output, rows, column, expert_indices[g])
    BY DEF Stored, Output!Stored, Cells, Output!Cells, Columns, Output!Columns,
           Unwritten, Output!Unwritten, Overwritten, Output!Overwritten
  <2>5. \A row \in rows : output[<<row, column>>] = Output!Unwritten
    BY <2>1 DEF Unwritten, Output!Unwritten
  <2>6. Output!WriteRows(g, column, rows)
    BY <1>3, <2>2, <2>3, <2>4, <2>5 DEF Output!WriteRows
  <2>7. g \in Output!GroupIds /\ column \in Output!Columns
    BY DEF GroupIds, Output!GroupIds, Columns, Output!Columns
  <2> QED
    BY <2>2, <2>6, <2>7 DEF Output!Next
<1> QED
  BY <1>2, <1>3

(* When nothing is owed any more the output is complete. *)
LEMMA DeliveredComplete ==
    ASSUME expert_indices \in ExpertBanks, expert_offsets \in OffsetBanks,
           Delivered(expert_indices, expert_offsets, TRUE, {}, output)
    PROVE  Output!Complete
<1>1. Output!Columns = Columns /\ Output!GroupIds = GroupIds /\ Output!Unwritten = Unwritten
  BY DEF Columns, Output!Columns, GroupIds, Output!GroupIds, Unwritten, Output!Unwritten
<1>2. \A g, row, column :
        Output!IsValid(g) /\ row \in Output!EntryRows(g)
          <=> Carries(expert_indices, expert_offsets, g, <<row, column>>)
  BY DEF Output!IsValid, Output!EntryRows, Output!Valid, Output!RowBegin, Valid, RowBegin, Carries
<1>3. ASSUME NEW row \in 0 .. Rows - 1, NEW column \in Columns
      PROVE  /\ \A g \in GroupIds :
                  Output!IsValid(g) /\ row \in Output!EntryRows(g)
                    => output[<<row, column>>] = expert_indices[g]
             /\ (\A g \in GroupIds : ~ (Output!IsValid(g) /\ row \in Output!EntryRows(g)))
                    => output[<<row, column>>] = Unwritten
  <2>1. <<row, column>> \in Cells
    BY DEF Cells
  <2> QED
    BY <1>2, <2>1 DEF Delivered
<1> HIDE DEF Columns, GroupIds, Unwritten
<1> QED
  BY <1>1, <1>3, Zenon DEF Output!Complete

(***************************************************************************)
(* The serial HIP body.                                                    *)
(***************************************************************************)
(* What RoutedBodies assumes of the kernels that exist. *)
Generated ==
    /\ TileSets \subseteq SUBSET (1 .. RowTile)
    /\ \A p \in Policies : Bodies!Assembly!IsPolicy(p)
    /\ PhysicalExperts \in Nat \ {0} /\ MaxRouteEntries \in Nat \ {0}

LEMMA SerialNames ==
    /\ Bodies!Serial!WorkGroups = GroupIds \X Columns
    /\ Bodies!Serial!ExpertBanks = ExpertBanks
    /\ Bodies!Serial!OffsetBanks = OffsetBanks
    /\ Bodies!Serial!Blank = Blank
    /\ \A g : Bodies!Serial!IsValid(g) = Valid(expert_indices, expert_offsets, g)
    /\ \A g : Bodies!Serial!Begin(g) = RowBegin(expert_offsets, g)
    /\ \A out, rows, column, expert :
         Bodies!Serial!Stored(out, rows, column, expert) = Stored(out, rows, column, expert)
    /\ \A a, b : Bodies!Serial!SmallerOf(a, b) = SmallerOf(a, b)
<1>1. /\ Bodies!Serial!GroupIds = GroupIds /\ Bodies!Serial!Columns = Columns
      /\ Bodies!Serial!Cells = Cells
  BY DEF Bodies!Serial!GroupIds, GroupIds, Bodies!Serial!Columns, Columns, Bodies!Serial!Cells, Cells
<1>2. Bodies!Serial!Unwritten = Unwritten /\ Bodies!Serial!Overwritten = Overwritten
  BY DEF Bodies!Serial!Unwritten, Unwritten, Bodies!Serial!Overwritten, Overwritten
<1>3. /\ Bodies!Serial!WorkGroups = GroupIds \X Columns
      /\ Bodies!Serial!ExpertBanks = ExpertBanks
      /\ Bodies!Serial!OffsetBanks = OffsetBanks
      /\ Bodies!Serial!Blank = Blank
  BY <1>1, <1>2 DEF Bodies!Serial!WorkGroups, Bodies!Serial!ExpertBanks, ExpertBanks,
         Bodies!Serial!OffsetBanks, OffsetBanks, Bodies!Serial!Blank, Blank
<1>4. \A g : /\ Bodies!Serial!IsValid(g) = Valid(expert_indices, expert_offsets, g)
             /\ Bodies!Serial!Begin(g) = RowBegin(expert_offsets, g)
  BY DEF Bodies!Serial!IsValid, Bodies!Serial!Begin, Bodies!Serial!Valid, Valid,
         Bodies!Serial!RowBegin, RowBegin
<1>5. \A out, rows, column, expert :
        Bodies!Serial!Stored(out, rows, column, expert) = Stored(out, rows, column, expert)
  BY <1>1, <1>2, Zenon DEF Bodies!Serial!Stored, Stored
<1>6. \A a, b : Bodies!Serial!SmallerOf(a, b) = SmallerOf(a, b)
  BY DEF Bodies!Serial!SmallerOf, SmallerOf
<1> QED
  BY <1>3, <1>4, <1>5, <1>6

SerialWork == GroupIds \X Columns

(* The first row a workgroup has yet to write. *)
SerialFrom(wg) ==
    IF pc[wg] = "enter" THEN RowBegin(expert_offsets, wg[1])
    ELSE IF pc[wg] = "rows" THEN at[wg] ELSE expert_offsets[wg[1]]

SerialOwes(wg) ==
    {cell \in Cells : /\ Carries(expert_indices, expert_offsets, wg[1], cell)
                      /\ cell[2] = wg[2] /\ SerialFrom(wg) <= cell[1]}

SerialOwed == UNION {SerialOwes(wg) : wg \in SerialWork}

SerialType ==
    /\ expert_indices \in ExpertBanks
    /\ expert_offsets \in OffsetBanks
    /\ short_tiles \subseteq 1 .. RowTile
    /\ pc \in [SerialWork -> {"enter", "rows", "retired"}]
    /\ at \in [SerialWork -> Nat]

SerialWalk ==
    \A wg \in SerialWork : pc[wg] = "rows" =>
        /\ Valid(expert_indices, expert_offsets, wg[1])
        /\ RowBegin(expert_offsets, wg[1]) <= at[wg]
        /\ at[wg] <= expert_offsets[wg[1]]

SerialInv ==
    /\ SerialType /\ SerialWalk
    /\ Delivered(expert_indices, expert_offsets, TRUE, SerialOwed, output)

(* Two workgroups owe different cells. *)
LEMMA SerialApart ==
    ASSUME SerialType, NEW wg \in SerialWork, NEW v \in SerialWork, wg # v
    PROVE  SerialOwes(wg) \cap SerialOwes(v) = {}
<1> SUFFICES ASSUME NEW cell \in SerialOwes(wg), cell \in SerialOwes(v) PROVE FALSE
  OBVIOUS
<1>1. /\ cell \in Cells /\ Carries(expert_indices, expert_offsets, wg[1], cell)
      /\ Carries(expert_indices, expert_offsets, v[1], cell)
      /\ cell[2] = wg[2] /\ cell[2] = v[2]
  BY DEF SerialOwes
<1>2. /\ wg[1] \in GroupIds /\ v[1] \in GroupIds
      /\ wg = <<wg[1], wg[2]>> /\ v = <<v[1], v[2]>>
  BY DEF SerialWork
<1>3. wg[1] = v[1]
  BY <1>1, <1>2, OneCarrier DEF SerialType
<1> QED
  BY <1>1, <1>2, <1>3

LEMMA SerialInitInv ==
    ASSUME Generated, Bodies!Serial!Init
    PROVE  SerialInv
<1>1. /\ expert_indices \in ExpertBanks /\ expert_offsets \in OffsetBanks
      /\ short_tiles \in TileSets /\ output = Blank
      /\ pc = [wg \in SerialWork |-> "enter"] /\ at = [wg \in SerialWork |-> 0]
  BY SerialNames DEF Bodies!Serial!Init, SerialWork
<1>2. SerialType /\ SerialWalk
  BY <1>1 DEF SerialType, SerialWalk, Generated
<1>3. \A cell \in Cells, g \in GroupIds :
        Carries(expert_indices, expert_offsets, g, cell) => cell \in SerialOwed
  <2> SUFFICES ASSUME NEW cell \in Cells, NEW g \in GroupIds,
                      Carries(expert_indices, expert_offsets, g, cell)
               PROVE  cell \in SerialOwed
    OBVIOUS
  <2> DEFINE wg == <<g, cell[2]>>
  <2>1. wg \in SerialWork /\ wg[1] = g /\ wg[2] = cell[2]
    BY DEF SerialWork, Cells
  <2>2. cell[1] \in RowBegin(expert_offsets, g) .. expert_offsets[g] - 1
    BY DEF Carries
  <2>3. RowBegin(expert_offsets, g) <= cell[1]
    BY <1>1, <2>2, ValidRange DEF Carries
  <2> HIDE DEF wg
  <2>4. SerialFrom(wg) = RowBegin(expert_offsets, g)
    BY <1>1, <2>1 DEF SerialFrom
  <2>5. cell \in SerialOwes(wg)
    BY <2>1, <2>3, <2>4 DEF SerialOwes
  <2> QED
    BY <2>1, <2>5 DEF SerialOwed
<1>4. \A cell \in Cells : output[cell] = Unwritten
  BY <1>1 DEF Blank
<1>5. output = [cell \in Cells |-> output[cell]]
  BY <1>1 DEF Blank
<1>6. Delivered(expert_indices, expert_offsets, TRUE, SerialOwed, output)
  BY <1>3, <1>4, <1>5 DEF Delivered
<1> QED
  BY <1>2, <1>6 DEF SerialInv

(* What every step of a workgroup comes to: it stores rows it owes.        *)
SerialStores(wg, rows) ==
    /\ wg \in SerialWork
    /\ Block(rows, wg[2]) \subseteq SerialOwes(wg)
    /\ output' = Stored(output, rows, wg[2], expert_indices[wg[1]])
    /\ SerialOwes(wg)' = SerialOwes(wg) \ Block(rows, wg[2])
    /\ \A v \in SerialWork \ {wg} : SerialFrom(v)' = SerialFrom(v)
    /\ UNCHANGED <<expert_indices, expert_offsets>>

LEMMA SerialStoreKeeps ==
    ASSUME SerialInv, NEW wg, NEW rows, SerialStores(wg, rows)
    PROVE  Delivered(expert_indices, expert_offsets, TRUE, SerialOwed, output)'
<1> DEFINE before == [v \in SerialWork |-> SerialOwes(v)]
           after == [v \in SerialWork |-> SerialOwes(v)']
           stored == Block(rows, wg[2])
<1>1. wg \in SerialWork /\ wg[1] \in GroupIds /\ wg[2] \in Columns
  BY DEF SerialStores, SerialWork
<1>2. \A v \in SerialWork \ {wg} : after[v] = before[v] /\ before[v] \cap before[wg] = {}
  <2> SUFFICES ASSUME NEW v \in SerialWork \ {wg}
               PROVE  after[v] = before[v] /\ before[v] \cap before[wg] = {}
    OBVIOUS
  <2>1. SerialOwes(v)' = SerialOwes(v)
    BY DEF SerialStores, SerialOwes, Carries
  <2>2. SerialOwes(v) \cap SerialOwes(wg) = {}
    BY <1>1, SerialApart DEF SerialInv
  <2> QED
    BY <1>1, <2>1, <2>2
<1>3. stored \subseteq before[wg] /\ after[wg] = before[wg] \ stored
  BY <1>1 DEF SerialStores
<1> HIDE DEF before, after, stored
<1>4. (UNION {after[v] : v \in SerialWork}) = (UNION {before[v] : v \in SerialWork}) \ stored
  BY <1>1, <1>2, <1>3, OwedLeft
<1>5. /\ (UNION {before[v] : v \in SerialWork}) = SerialOwed
      /\ (UNION {after[v] : v \in SerialWork}) = SerialOwed'
  BY DEF before, after, SerialOwed
<1>6. SerialOwed' = SerialOwed \ stored
  BY <1>4, <1>5
<1>7. \A cell \in Block(rows, wg[2]) :
        cell \in SerialOwed /\ Carries(expert_indices, expert_offsets, wg[1], cell)
  BY <1>1 DEF SerialStores, SerialOwed, SerialOwes
<1>8. Delivered(expert_indices, expert_offsets, TRUE, SerialOwed \ Block(rows, wg[2]),
                Stored(output, rows, wg[2], expert_indices[wg[1]]))
  BY <1>1, <1>7, StoreDelivers DEF SerialInv, SerialType
<1> QED
  BY <1>6, <1>8 DEF SerialStores, stored

LEMMA SerialStoreMaps ==
    ASSUME SerialInv, NEW wg, NEW rows, SerialStores(wg, rows),
           Valid(expert_indices, expert_offsets, wg[1]),
           rows \subseteq RowBegin(expert_offsets, wg[1]) .. expert_offsets[wg[1]] - 1
    PROVE  [Output!Next]_(Output!vars)
<1>1. wg \in SerialWork /\ wg[1] \in GroupIds /\ wg[2] \in Columns
  BY DEF SerialStores, SerialWork
<1>2. Block(rows, wg[2]) \subseteq SerialOwed
  BY <1>1 DEF SerialStores, SerialOwed
<1> QED
  BY <1>1, <1>2, StoreMaps DEF SerialStores, SerialInv, SerialType

(* Each action, in the words of the refined module. *)
LEMMA SerialEnters ==
    ASSUME SerialInv, NEW wg \in SerialWork, Bodies!Serial!Enter(wg)
    PROVE  SerialInv' /\ UNCHANGED Output!vars
<1>1. /\ pc[wg] = "enter" /\ output' = output
      /\ pc' = [pc EXCEPT ![wg] = IF Valid(expert_indices, expert_offsets, wg[1])
                                  THEN "rows" ELSE "retired"]
      /\ at' = [at EXCEPT ![wg] = RowBegin(expert_offsets, wg[1])]
      /\ UNCHANGED <<expert_indices, expert_offsets, short_tiles>>
  BY SerialNames DEF Bodies!Serial!Enter, Bodies!Serial!Goto
<1>2. /\ expert_indices \in ExpertBanks /\ expert_offsets \in OffsetBanks
      /\ pc \in [SerialWork -> {"enter", "rows", "retired"}]
      /\ at \in [SerialWork -> Nat] /\ wg[1] \in GroupIds
  BY DEF SerialInv, SerialType, SerialWork
<1>3. /\ RowBegin(expert_offsets, wg[1]) \in Nat
      /\ Valid(expert_indices, expert_offsets, wg[1])
           => RowBegin(expert_offsets, wg[1]) <= expert_offsets[wg[1]]
  <2>1. expert_offsets \in [GroupIds -> 0 .. MaxOffset]
    BY <1>2 DEF OffsetBanks
  <2>2. wg[1] # 0 => wg[1] - 1 \in GroupIds
    BY <1>2, GroupsAssumption DEF GroupIds
  <2>3. RowBegin(expert_offsets, wg[1]) \in Nat
    BY <1>2, <2>1, <2>2, MaxOffsetAssumption DEF RowBegin
  <2>4. Valid(expert_indices, expert_offsets, wg[1])
           => RowBegin(expert_offsets, wg[1]) < expert_offsets[wg[1]] /\ expert_offsets[wg[1]] \in Nat
    BY <1>2, ValidRange
  <2> QED
    BY <2>3, <2>4
<1>4. SerialType'
  BY <1>1, <1>2, <1>3 DEF SerialInv, SerialType
<1>5. SerialWalk'
  <2> SUFFICES ASSUME NEW v \in SerialWork, pc'[v] = "rows"
               PROVE  /\ Valid(expert_indices, expert_offsets, v[1])
                      /\ RowBegin(expert_offsets, v[1]) <= at'[v]
                      /\ at'[v] <= expert_offsets[v[1]]
    BY <1>1 DEF SerialWalk
  <2>1. CASE v = wg
    BY <1>1, <1>2, <1>3, <2>1
  <2>2. CASE v # wg
    <3>1. pc'[v] = pc[v] /\ at'[v] = at[v]
      BY <1>1, <1>2, <2>2
    <3> QED
      BY <3>1 DEF SerialInv, SerialWalk
  <2> QED
    BY <2>1, <2>2
<1>6. \A v \in SerialWork : SerialOwes(v)' = SerialOwes(v)
  <2> SUFFICES ASSUME NEW v \in SerialWork PROVE SerialOwes(v)' = SerialOwes(v)
    OBVIOUS
  <2>1. CASE v = wg
    <3>1. CASE Valid(expert_indices, expert_offsets, wg[1])
      <4>1. pc'[wg] = "rows" /\ at'[wg] = RowBegin(expert_offsets, wg[1])
        BY <1>1, <1>2, <3>1
      <4>2. SerialFrom(wg)' = SerialFrom(wg)
        BY <1>1, <4>1 DEF SerialFrom
      <4> QED
        BY <1>1, <2>1, <4>2 DEF SerialOwes, Carries
    <3>2. CASE ~ Valid(expert_indices, expert_offsets, wg[1])
      BY <1>1, <2>1, <3>2 DEF SerialOwes, Carries
    <3> QED
      BY <3>1, <3>2
  <2>2. CASE v # wg
    <3>1. pc'[v] = pc[v] /\ at'[v] = at[v]
      BY <1>1, <1>2, <2>2
    <3>2. SerialFrom(v)' = SerialFrom(v)
      BY <1>1, <3>1 DEF SerialFrom
    <3> QED
      BY <1>1, <3>2 DEF SerialOwes, Carries
  <2> QED
    BY <2>1, <2>2
<1>7. SerialOwed' = SerialOwed
  BY <1>6 DEF SerialOwed
<1> QED
  BY <1>1, <1>4, <1>5, <1>7 DEF SerialInv, Output!vars

(* The rows [at, end) of the entry, when the walk goes on from `to`.       *)
LEMMA SerialAdvances ==
    ASSUME SerialInv, NEW wg \in SerialWork, pc[wg] = "rows",
           NEW end \in Nat, at[wg] <= end, end <= expert_offsets[wg[1]],
           output' = Stored(output, at[wg] .. end - 1, wg[2], expert_indices[wg[1]]),
           UNCHANGED <<expert_indices, expert_offsets, short_tiles>>,
           \/ /\ pc' = [pc EXCEPT ![wg] = "rows"]
              /\ at' = [at EXCEPT ![wg] = end]
           \/ /\ pc' = [pc EXCEPT ![wg] = "retired"]
              /\ at' = at /\ end = expert_offsets[wg[1]]
    PROVE  SerialInv' /\ [Output!Next]_(Output!vars)
<1> DEFINE g == wg[1]
           column == wg[2]
           rows == at[wg] .. end - 1
<1>1. /\ expert_indices \in ExpertBanks /\ expert_offsets \in OffsetBanks
      /\ pc \in [SerialWork -> {"enter", "rows", "retired"}]
      /\ at \in [SerialWork -> Nat] /\ g \in GroupIds /\ column \in Columns
  BY DEF SerialInv, SerialType, SerialWork
<1>2. /\ Valid(expert_indices, expert_offsets, g)
      /\ RowBegin(expert_offsets, g) <= at[wg] /\ at[wg] \in Nat
      /\ RowBegin(expert_offsets, g) \in Nat
      /\ expert_offsets[g] \in Nat /\ expert_offsets[g] <= Rows
  <2>1. /\ Valid(expert_indices, expert_offsets, g)
        /\ RowBegin(expert_offsets, g) <= at[wg]
    BY DEF SerialInv, SerialWalk
  <2> QED
    BY <1>1, <2>1, ValidRange
<1> HIDE DEF g
<1>3. SerialFrom(wg) = at[wg] /\ SerialFrom(wg)' = end
  <2>1. SerialFrom(wg) = at[wg]
    BY DEF SerialFrom
  <2>2. CASE pc' = [pc EXCEPT ![wg] = "rows"] /\ at' = [at EXCEPT ![wg] = end]
    <3>1. pc'[wg] = "rows" /\ at'[wg] = end
      BY <1>1, <2>2
    <3> QED
      BY <2>1, <3>1 DEF SerialFrom
  <2>3. CASE /\ pc' = [pc EXCEPT ![wg] = "retired"]
             /\ at' = at /\ end = expert_offsets[wg[1]]
    <3>1. pc'[wg] = "retired"
      BY <1>1, <2>3
    <3> QED
      BY <2>1, <2>3, <3>1 DEF SerialFrom
  <2> QED
    BY <2>2, <2>3
<1>4. \A v \in SerialWork \ {wg} : pc'[v] = pc[v] /\ at'[v] = at[v]
  BY <1>1
<1>5. \A v \in SerialWork \ {wg} : SerialFrom(v)' = SerialFrom(v)
  BY <1>4 DEF SerialFrom
<1>6. \A row \in rows : row \in RowBegin(expert_offsets, g) .. expert_offsets[g] - 1
  BY <1>2 DEF g
<1>7. Block(rows, column) \subseteq SerialOwes(wg)
  <2> SUFFICES ASSUME NEW cell \in Block(rows, column) PROVE cell \in SerialOwes(wg)
    OBVIOUS
  <2>1. cell \in Cells /\ cell[1] \in rows /\ cell[2] = column
    BY DEF Block
  <2>2. Carries(expert_indices, expert_offsets, g, cell)
    BY <1>2, <1>6, <2>1 DEF Carries
  <2>3. at[wg] <= cell[1]
    BY <2>1
  <2> QED
    BY <1>3, <2>1, <2>2, <2>3 DEF SerialOwes, g
<1>8. SerialOwes(wg)' = SerialOwes(wg) \ Block(rows, column)
  <2>1. ASSUME NEW cell \in Cells, Carries(expert_indices, expert_offsets, g, cell), cell[2] = column
        PROVE  end <= cell[1] <=> (at[wg] <= cell[1] /\ cell \notin Block(rows, column))
    <3>1. cell[1] \in Int
      BY DEF Cells
    <3>2. cell \in Block(rows, column) <=> at[wg] <= cell[1] /\ cell[1] < end
      BY <1>2, <2>1, <3>1 DEF Block
    <3> QED
      BY <1>2, <3>1, <3>2
  <2>2. SerialOwes(wg)' = {cell \in Cells : /\ Carries(expert_indices, expert_offsets, g, cell)
                                             /\ cell[2] = column /\ end <= cell[1]}
    BY <1>3 DEF SerialOwes, Carries, g
  <2>3. SerialOwes(wg) = {cell \in Cells : /\ Carries(expert_indices, expert_offsets, g, cell)
                                             /\ cell[2] = column /\ at[wg] <= cell[1]}
    BY <1>3 DEF SerialOwes, g
  <2> HIDE DEF rows, column
  <2> QED
    BY <2>1, <2>2, <2>3
<1>9. SerialStores(wg, rows)
  BY <1>5, <1>7, <1>8 DEF SerialStores
<1>10. Delivered(expert_indices, expert_offsets, TRUE, SerialOwed, output)'
  BY <1>9, SerialStoreKeeps
<1>11. [Output!Next]_(Output!vars)
  BY <1>2, <1>6, <1>9, SerialStoreMaps DEF g
<1>12. SerialType'
  BY <1>1 DEF SerialInv, SerialType
<1>13. SerialWalk'
  <2> SUFFICES ASSUME NEW v \in SerialWork, pc'[v] = "rows"
               PROVE  /\ Valid(expert_indices, expert_offsets, v[1])
                      /\ RowBegin(expert_offsets, v[1]) <= at'[v]
                      /\ at'[v] <= expert_offsets[v[1]]
    BY DEF SerialWalk
  <2>1. CASE v = wg
    <3>1. at'[wg] = end
      BY <1>1, <2>1
    <3> QED
      BY <1>2, <2>1, <3>1 DEF g
  <2>2. CASE v # wg
    BY <1>4, <2>2 DEF SerialInv, SerialWalk
  <2> QED
    BY <2>1, <2>2
<1> QED
  BY <1>10, <1>11, <1>12, <1>13 DEF SerialInv

LEMMA SerialFullTile ==
    ASSUME SerialInv, NEW wg \in SerialWork, Bodies!Serial!FullTile(wg)
    PROVE  SerialInv' /\ [Output!Next]_(Output!vars)
<1> DEFINE end == at[wg] + RowTile
<1>1. /\ pc[wg] = "rows" /\ end <= expert_offsets[wg[1]]
      /\ output' = Stored(output, at[wg] .. end - 1, wg[2], expert_indices[wg[1]])
      /\ pc' = [pc EXCEPT ![wg] = "rows"] /\ at' = [at EXCEPT ![wg] = end]
      /\ UNCHANGED <<expert_indices, expert_offsets, short_tiles>>
  <2>1. /\ pc[wg] = "rows" /\ pc' = [pc EXCEPT ![wg] = "rows"]
        /\ UNCHANGED <<expert_indices, expert_offsets, short_tiles>>
    BY DEF Bodies!Serial!FullTile, Bodies!Serial!Goto
  <2>2. end <= expert_offsets[wg[1]] /\ at' = [at EXCEPT ![wg] = end]
    BY DEF Bodies!Serial!FullTile
  <2>3. output' = Bodies!Serial!Stored(output, at[wg] .. at[wg] + RowTile - 1,
                                       wg[2], expert_indices[wg[1]])
    BY DEF Bodies!Serial!FullTile
  <2>4. output' = Stored(output, at[wg] .. end - 1, wg[2], expert_indices[wg[1]])
    <3>1. \A out, rows, column, expert :
           Bodies!Serial!Stored(out, rows, column, expert) = Stored(out, rows, column, expert)
      BY SerialNames
    <3>2. output' = Stored(output, at[wg] .. at[wg] + RowTile - 1, wg[2], expert_indices[wg[1]])
      BY <2>3, <3>1, Zenon
    <3>3. at[wg] + RowTile - 1 = end - 1
      BY RowTileAssumption DEF SerialInv, SerialType
    <3> QED
      BY <3>2, <3>3
  <2> QED
    BY <2>1, <2>2, <2>4
<1>2. at[wg] \in Nat
  BY DEF SerialInv, SerialType
<1>3. end \in Nat /\ at[wg] <= end
  BY <1>2, RowTileAssumption
<1> HIDE DEF end
<1> QED
  BY <1>1, <1>3, SerialAdvances

(* The tail tile that is chosen holds the rows that are left. *)
LEMMA TailTileHolds ==
    ASSUME short_tiles \subseteq 1 .. RowTile, NEW rows \in Nat, rows < RowTile
    PROVE  Bodies!Serial!TailTile(rows) \in Nat /\ rows <= Bodies!Serial!TailTile(rows)
<1> DEFINE holding == {t \in short_tiles : rows <= t}
<1>1. CASE holding = {}
  BY <1>1, RowTileAssumption DEF Bodies!Serial!TailTile
<1>2. CASE holding # {}
  <2>1. holding \subseteq Nat
    <3>1. \A t \in 1 .. RowTile : t \in Nat
      BY RowTileAssumption
    <3> QED
      BY <3>1
  <2>2. PICK least \in holding : \A u \in holding : least <= u
    BY <1>2, <2>1, LeastNatural
  <2>3. (CHOOSE t \in holding : \A u \in holding : t <= u) \in holding
    BY <2>2
  <2>4. Bodies!Serial!TailTile(rows) = CHOOSE t \in holding : \A u \in holding : t <= u
    BY <1>2 DEF Bodies!Serial!TailTile
  <2>5. Bodies!Serial!TailTile(rows) \in holding
    BY <2>3, <2>4
  <2> QED
    BY <2>1, <2>5
<1> QED
  BY <1>1, <1>2

LEMMA SerialTail ==
    ASSUME SerialInv, NEW wg \in SerialWork, Bodies!Serial!Tail(wg)
    PROVE  SerialInv' /\ [Output!Next]_(Output!vars)
<1> DEFINE end == expert_offsets[wg[1]]
           rows == end - at[wg]
           Rest == at[wg] .. at[wg] + SmallerOf(Bodies!Serial!TailTile(rows), rows) - 1
<1>1. /\ pc[wg] = "rows" /\ rows < RowTile
      /\ output' = IF rows > 0
                   THEN Stored(output, Rest, wg[2], expert_indices[wg[1]]) ELSE output
      /\ pc' = [pc EXCEPT ![wg] = "retired"] /\ at' = at
      /\ UNCHANGED <<expert_indices, expert_offsets, short_tiles>>
  BY SerialNames DEF Bodies!Serial!Tail, Bodies!Serial!Goto
<1>2. at[wg] \in Nat /\ end \in Nat /\ at[wg] <= end
  <2>1. /\ at[wg] \in Nat /\ wg[1] \in GroupIds /\ expert_offsets \in OffsetBanks
        /\ expert_indices \in ExpertBanks
    BY DEF SerialInv, SerialType, SerialWork
  <2>2. Valid(expert_indices, expert_offsets, wg[1]) /\ at[wg] <= expert_offsets[wg[1]]
    BY <1>1 DEF SerialInv, SerialWalk
  <2> QED
    BY <2>1, <2>2, ValidRange
<1>3. rows \in Nat
  BY <1>2
<1> HIDE DEF end
<1>4. output' = Stored(output, at[wg] .. end - 1, wg[2], expert_indices[wg[1]])
  <2>1. CASE rows > 0
    <3>1. /\ Bodies!Serial!TailTile(rows) \in Nat
          /\ rows <= Bodies!Serial!TailTile(rows)
      BY <1>1, <1>3, TailTileHolds DEF SerialInv, SerialType
    <3>2. SmallerOf(Bodies!Serial!TailTile(rows), rows) = rows
      BY <1>3, <3>1 DEF SmallerOf
    <3>3. Rest = at[wg] .. end - 1
      BY <1>2, <3>2
    <3> QED
      BY <1>1, <2>1, <3>3
  <2>2. CASE ~ (rows > 0)
    <3>1. at[wg] .. end - 1 = {}
      BY <1>2, <2>2
    <3>2. output = [cell \in Cells |-> output[cell]]
      BY DEF SerialInv, Delivered
    <3>3. Stored(output, {}, wg[2], expert_indices[wg[1]]) = [cell \in Cells |-> output[cell]]
      BY DEF Stored
    <3> QED
      BY <1>1, <2>2, <3>1, <3>2, <3>3
  <2> QED
    BY <2>1, <2>2
<1>5. end <= expert_offsets[wg[1]] /\ end = expert_offsets[wg[1]]
  BY <1>2 DEF end
<1> HIDE DEF rows, Rest
<1> QED
  BY <1>1, <1>2, <1>4, <1>5, SerialAdvances

LEMMA SerialNextInv ==
    ASSUME SerialInv, Bodies!Serial!Next
    PROVE  SerialInv' /\ [Output!Next]_(Output!vars)
<1>1. PICK wg \in SerialWork :
        Bodies!Serial!Enter(wg) \/ Bodies!Serial!FullTile(wg) \/ Bodies!Serial!Tail(wg)
  BY SerialNames DEF Bodies!Serial!Next, SerialWork
<1> QED
  BY <1>1, SerialEnters, SerialFullTile, SerialTail

(***************************************************************************)
(* The routed assembly kernels: every row tile of an entry has one         *)
(* workgroup of its route, whatever the split and the packing of the grid. *)
(***************************************************************************)
Work == Bodies!Assembly!WorkGroups
Column(wg) == Bodies!Assembly!Column(wg)
Route(wg) == Bodies!Assembly!Route(wg)
First(wg) == Bodies!Assembly!FirstTile(wg)
Split(wg) == Bodies!Assembly!SplitIndex(wg)
Lane(wg) == Bodies!Assembly!Lane(wg)
Stride == Bodies!Assembly!Stride

LEMMA PolicyFacts ==
    ASSUME Bodies!Assembly!IsPolicy(policy)
    PROVE  /\ policy.split \in Nat \ {0} /\ policy.mapping \in Nat \ {0}
           /\ policy.packed \in BOOLEAN
           /\ policy.threshold \in Nat /\ policy.tail_rows \in Nat
           /\ policy.threshold <= policy.tail_rows
           /\ Stride = policy.split * policy.mapping
           /\ Stride \in Nat \ {0}
<1>1. /\ policy.split \in Nat \ {0} /\ policy.mapping \in Nat \ {0}
      /\ policy.packed \in BOOLEAN
      /\ policy.threshold \in Nat /\ policy.tail_rows \in Nat
      /\ policy.threshold <= policy.tail_rows
  BY DEF Bodies!Assembly!IsPolicy, Bodies!Assembly!Powers
<1>2. Stride = policy.split * policy.mapping
  BY DEF Stride, Bodies!Assembly!Stride
<1>3. ASSUME NEW a \in Nat \ {0}, NEW b \in Nat \ {0} PROVE a * b \in Nat \ {0}
  BY <1>3
<1> QED
  BY <1>1, <1>2, <1>3

(* The coordinates of a workgroup and what it decodes from them.           *)
LEMMA Decoding ==
    ASSUME Bodies!Assembly!IsPolicy(policy), NEW wg \in Work
    PROVE  /\ wg = <<wg[1], wg[2], wg[3]>>
           /\ Column(wg) \in Columns /\ Lane(wg) \in 0 .. policy.mapping - 1
           /\ wg[1] = Column(wg) * policy.mapping + Lane(wg)
           /\ Route(wg) \in GroupIds /\ Split(wg) \in 0 .. policy.split - 1
           /\ policy.packed => wg[2] = Route(wg) * policy.split + Split(wg) /\ wg[3] = 0
           /\ ~ policy.packed => wg[2] = Route(wg) /\ wg[3] = Split(wg)
<1> DEFINE m == policy.mapping
           s == policy.split
<1>1. m \in Nat \ {0} /\ s \in Nat \ {0} /\ policy.packed \in BOOLEAN
  BY PolicyFacts
<1>2. wg \in (0 .. ColumnTiles * m - 1)
               \X (0 .. Groups * (IF policy.packed THEN s ELSE 1) - 1)
               \X (0 .. (IF policy.packed THEN 1 ELSE s) - 1)
  BY DEF Work, Bodies!Assembly!WorkGroups, Bodies!Assembly!Grid
<1>3. /\ Column(wg) = wg[1] \div m /\ Lane(wg) = wg[1] % m
      /\ Route(wg) = IF policy.packed THEN wg[2] \div s ELSE wg[2]
      /\ Split(wg) = IF policy.packed THEN wg[2] % s ELSE wg[3]
  BY DEF Column, Lane, Route, Split, Bodies!Assembly!Column, Bodies!Assembly!Lane,
         Bodies!Assembly!Route, Bodies!Assembly!SplitIndex
<1> HIDE DEF m, s
<1>4. wg = <<wg[1], wg[2], wg[3]>> /\ wg[1] \in 0 .. ColumnTiles * m - 1
  BY <1>2
<1>5. /\ Column(wg) \in Columns /\ Lane(wg) \in 0 .. m - 1
      /\ wg[1] = Column(wg) * m + Lane(wg)
  <2>1. ColumnTiles \in Nat /\ ColumnTiles * m \in Nat /\ wg[1] \in Nat /\ wg[1] < ColumnTiles * m
    BY <1>1, <1>4, ColumnTilesAssumption
  <2>2. /\ wg[1] \div m \in Nat /\ wg[1] % m \in 0 .. m - 1
        /\ wg[1] = (wg[1] \div m) * m + (wg[1] % m)
    BY <1>1, <2>1, DivMod
  <2>3. ~ (ColumnTiles <= wg[1] \div m)
    BY <1>1, <2>1, TileOf
  <2> QED
    BY <1>3, <2>1, <2>2, <2>3 DEF Columns
<1>6. CASE policy.packed
  <2>1. wg[2] \in 0 .. Groups * s - 1 /\ wg[3] \in 0 .. 0
    BY <1>2, <1>6
  <2>2. Groups \in Nat /\ Groups * s \in Nat /\ wg[2] \in Nat /\ wg[2] < Groups * s /\ wg[3] = 0
    BY <1>1, <2>1, GroupsAssumption
  <2>3. /\ wg[2] \div s \in Nat /\ wg[2] % s \in 0 .. s - 1
        /\ wg[2] = (wg[2] \div s) * s + (wg[2] % s)
    BY <1>1, <2>2, DivMod
  <2>4. ~ (Groups <= wg[2] \div s)
    BY <1>1, <2>2, TileOf
  <2>5. Route(wg) \in GroupIds /\ Split(wg) \in 0 .. s - 1 /\ wg[2] = Route(wg) * s + Split(wg)
    BY <1>3, <1>6, <2>2, <2>3, <2>4 DEF GroupIds
  <2> QED
    BY <1>4, <1>5, <1>6, <2>2, <2>5 DEF m, s
<1>7. CASE ~ policy.packed
  <2>1. wg[2] \in 0 .. Groups * 1 - 1 /\ wg[3] \in 0 .. s - 1
    BY <1>2, <1>7
  <2>2. Route(wg) \in GroupIds /\ Split(wg) \in 0 .. s - 1 /\ wg[2] = Route(wg) /\ wg[3] = Split(wg)
    BY <1>3, <1>7, <2>1, GroupsAssumption DEF GroupIds
  <2> QED
    BY <1>4, <1>5, <1>7, <2>2 DEF m, s
<1> QED
  BY <1>1, <1>6, <1>7

LEMMA FirstInStride ==
    ASSUME Bodies!Assembly!IsPolicy(policy), NEW wg \in Work
    PROVE  /\ First(wg) = Split(wg) * policy.mapping + Lane(wg)
           /\ First(wg) \in 0 .. Stride - 1
<1> DEFINE m == policy.mapping
           s == policy.split
<1>1. /\ m \in Nat \ {0} /\ s \in Nat \ {0} /\ Stride = s * m
      /\ Split(wg) \in 0 .. s - 1 /\ Lane(wg) \in 0 .. m - 1
  BY PolicyFacts, Decoding
<1>2. First(wg) = Split(wg) * m + Lane(wg)
  BY DEF First, Split, Lane, Bodies!Assembly!FirstTile
<1> HIDE DEF m, s
<1>3. (Split(wg) + 1) * m <= s * m
  BY <1>1, TimesMonotone
<1>4. (Split(wg) + 1) * m = Split(wg) * m + m /\ Split(wg) * m \in Nat /\ s * m \in Nat
  BY <1>1
<1> QED
  BY <1>1, <1>2, <1>3, <1>4 DEF m

(* Two workgroups of a route and column start at different tiles. *)
LEMMA FirstInjective ==
    ASSUME Bodies!Assembly!IsPolicy(policy), NEW wg \in Work, NEW v \in Work,
           Column(wg) = Column(v), Route(wg) = Route(v), First(wg) = First(v)
    PROVE  wg = v
<1> DEFINE m == policy.mapping
           s == policy.split
<1>1. /\ m \in Nat \ {0} /\ s \in Nat \ {0} /\ policy.packed \in BOOLEAN
  BY PolicyFacts
<1>2. /\ wg = <<wg[1], wg[2], wg[3]>>
      /\ Lane(wg) \in 0 .. m - 1 /\ Split(wg) \in 0 .. s - 1
      /\ wg[1] = Column(wg) * m + Lane(wg)
      /\ policy.packed => wg[2] = Route(wg) * s + Split(wg) /\ wg[3] = 0
      /\ ~ policy.packed => wg[2] = Route(wg) /\ wg[3] = Split(wg)
  BY Decoding
<1>3. /\ v = <<v[1], v[2], v[3]>>
      /\ Lane(v) \in 0 .. m - 1 /\ Split(v) \in 0 .. s - 1
      /\ v[1] = Column(v) * m + Lane(v)
      /\ policy.packed => v[2] = Route(v) * s + Split(v) /\ v[3] = 0
      /\ ~ policy.packed => v[2] = Route(v) /\ v[3] = Split(v)
  BY Decoding
<1>4. Split(wg) * m + Lane(wg) = Split(v) * m + Lane(v)
  BY FirstInStride
<1> HIDE DEF m, s
<1>5. Split(wg) \in Nat /\ Split(v) \in Nat
  BY <1>1, <1>2, <1>3
<1>6. Split(wg) = Split(v) /\ Lane(wg) = Lane(v)
  BY <1>1, <1>2, <1>3, <1>4, <1>5, DivModUnique
<1>7. wg[1] = v[1] /\ wg[2] = v[2] /\ wg[3] = v[3]
  BY <1>1, <1>2, <1>3, <1>6
<1> QED
  BY <1>2, <1>3, <1>7

(* And there is one for every first tile below the stride. *)
LEMMA FirstSurjective ==
    ASSUME Bodies!Assembly!IsPolicy(policy), NEW c \in Columns, NEW g \in GroupIds,
           NEW f \in 0 .. Stride - 1
    PROVE  \E wg \in Work : Column(wg) = c /\ Route(wg) = g /\ First(wg) = f
<1> DEFINE m == policy.mapping
           s == policy.split
           l == f % m
           i == f \div m
           x == c * m + l
           y == IF policy.packed THEN g * s + i ELSE g
           z == IF policy.packed THEN 0 ELSE i
           wg == <<x, y, z>>
<1>1. /\ m \in Nat \ {0} /\ s \in Nat \ {0} /\ policy.packed \in BOOLEAN
      /\ Stride = s * m
  BY PolicyFacts
<1>2. f \in Nat /\ f < s * m /\ s * m \in Nat /\ c \in Nat /\ g \in Nat
  BY <1>1, ColumnTilesAssumption, GroupsAssumption DEF Columns, GroupIds
<1> HIDE DEF m, s
<1>3. l \in 0 .. m - 1 /\ i \in Nat /\ f = i * m + l
  BY <1>1, <1>2, DivMod
<1>4. i \in 0 .. s - 1
  <2>1. ~ (s <= f \div m)
    BY <1>1, <1>2, TileOf
  <2> QED
    BY <1>1, <1>3, <2>1
<1> HIDE DEF l, i
<1>5. x \in 0 .. ColumnTiles * m - 1
  <2>1. c + 1 <= ColumnTiles /\ ColumnTiles \in Nat
    BY ColumnTilesAssumption DEF Columns
  <2>2. (c + 1) * m <= ColumnTiles * m
    BY <1>1, <1>2, <2>1, TimesMonotone
  <2>3. (c + 1) * m = c * m + m /\ c * m \in Nat /\ ColumnTiles * m \in Nat
    BY <1>1, <1>2, <2>1
  <2> QED
    BY <1>1, <1>3, <2>2, <2>3
<1>6. g * s + i \in 0 .. Groups * s - 1
  <2>1. g + 1 <= Groups /\ Groups \in Nat
    BY GroupsAssumption DEF GroupIds
  <2>2. (g + 1) * s <= Groups * s
    BY <1>1, <1>2, <2>1, TimesMonotone
  <2>3. (g + 1) * s = g * s + s /\ g * s \in Nat /\ Groups * s \in Nat
    BY <1>1, <1>2, <2>1
  <2> QED
    BY <1>1, <1>4, <2>2, <2>3
<1>7. g \in 0 .. Groups * 1 - 1
  BY GroupsAssumption DEF GroupIds
<1>8. x \div m = c /\ x % m = l
  BY <1>1, <1>2, <1>3, DivModOf
<1>9. (g * s + i) \div s = g /\ (g * s + i) % s = i
  BY <1>1, <1>2, <1>4, DivModOf
<1> HIDE DEF x
<1>10. wg \in Work
  <2>1. y \in 0 .. Groups * (IF policy.packed THEN s ELSE 1) - 1
    BY <1>6, <1>7
  <2>2. z \in 0 .. (IF policy.packed THEN 1 ELSE s) - 1
    BY <1>4
  <2>3. <<x, y, z>> \in (0 .. ColumnTiles * m - 1)
               \X (0 .. Groups * (IF policy.packed THEN s ELSE 1) - 1)
               \X (0 .. (IF policy.packed THEN 1 ELSE s) - 1)
    BY <1>5, <2>1, <2>2
  <2> QED
    BY <2>3 DEF Work, Bodies!Assembly!WorkGroups, Bodies!Assembly!Grid, m, s
<1>11. wg[1] = x /\ wg[2] = y /\ wg[3] = z
  OBVIOUS
<1> HIDE DEF wg
<1>12. Column(wg) = c /\ Lane(wg) = l
  BY <1>8, <1>11 DEF Column, Lane, Bodies!Assembly!Column, Bodies!Assembly!Lane, m
<1>13. Route(wg) = g /\ Split(wg) = i
  BY <1>1, <1>9, <1>11 DEF Route, Split, Bodies!Assembly!Route, Bodies!Assembly!SplitIndex, s
<1>14. First(wg) = f
  BY <1>3, <1>10, <1>12, <1>13, FirstInStride DEF m
<1> QED
  BY <1>10, <1>12, <1>13, <1>14

LEMMA AssemblyNames ==
    /\ Bodies!Assembly!ExpertBanks = ExpertBanks
    /\ Bodies!Assembly!OffsetBanks = OffsetBanks
    /\ Bodies!Assembly!Blank = Blank
    /\ \A wg : Bodies!Assembly!RouteGuard(wg) = Valid(expert_indices, expert_offsets, Route(wg))
    /\ \A wg : Bodies!Assembly!RouteBegin(wg) = RowBegin(expert_offsets, Route(wg))
    /\ \A wg : Bodies!Assembly!RouteRows(wg)
                 = expert_offsets[Route(wg)] - RowBegin(expert_offsets, Route(wg))
    /\ \A out, rows, column, expert :
         Bodies!Assembly!Stored(out, rows, column, expert) = Stored(out, rows, column, expert)
    /\ \A a, b : Bodies!Assembly!SmallerOf(a, b) = SmallerOf(a, b)
<1>1. /\ Bodies!Assembly!GroupIds = GroupIds /\ Bodies!Assembly!Columns = Columns
      /\ Bodies!Assembly!Cells = Cells
  BY DEF Bodies!Assembly!GroupIds, GroupIds, Bodies!Assembly!Columns, Columns,
         Bodies!Assembly!Cells, Cells
<1>2. Bodies!Assembly!Unwritten = Unwritten /\ Bodies!Assembly!Overwritten = Overwritten
  BY DEF Bodies!Assembly!Unwritten, Unwritten, Bodies!Assembly!Overwritten, Overwritten
<1>3. /\ Bodies!Assembly!ExpertBanks = ExpertBanks
      /\ Bodies!Assembly!OffsetBanks = OffsetBanks
      /\ Bodies!Assembly!Blank = Blank
  BY <1>1, <1>2 DEF Bodies!Assembly!ExpertBanks, ExpertBanks,
         Bodies!Assembly!OffsetBanks, OffsetBanks, Bodies!Assembly!Blank, Blank
<1>4. \A wg : Bodies!Assembly!RouteGuard(wg) = Valid(expert_indices, expert_offsets, Route(wg))
  BY DEF Bodies!Assembly!RouteGuard, Bodies!Assembly!Valid, Valid,
         Bodies!Assembly!RowBegin, RowBegin, Route
<1>5. \A wg : Bodies!Assembly!RouteBegin(wg) = RowBegin(expert_offsets, Route(wg))
  BY DEF Bodies!Assembly!RouteBegin, Bodies!Assembly!RowBegin, RowBegin, Route
<1>6. \A wg : Bodies!Assembly!RouteRows(wg)
                = expert_offsets[Route(wg)] - RowBegin(expert_offsets, Route(wg))
  BY <1>5, Zenon DEF Bodies!Assembly!RouteRows, Route
<1>7. \A out, rows, column, expert :
        Bodies!Assembly!Stored(out, rows, column, expert) = Stored(out, rows, column, expert)
  BY <1>1, <1>2, Zenon DEF Bodies!Assembly!Stored, Stored
<1>8. \A a, b : Bodies!Assembly!SmallerOf(a, b) = SmallerOf(a, b)
  BY DEF Bodies!Assembly!SmallerOf, SmallerOf
<1> QED
  BY <1>3, <1>4, <1>5, <1>6, <1>7, <1>8

RouteBegin(wg) == RowBegin(expert_offsets, Route(wg))
RouteRows(wg) == expert_offsets[Route(wg)] - RouteBegin(wg)
Short(wg) == policy.threshold > 0 /\ RouteRows(wg) <= policy.threshold
Walking == {"rolled", "full", "tail"}

(* The rows of its route, counted from its begin, that are a workgroup's.  *)
Owns(wg, i) ==
    IF Short(wg) THEN First(wg) = 0 ELSE (i \div RowTile) % Stride = First(wg)

(* Those it has yet to write when it is at `label` with row tile `next`.   *)
Ahead(wg, label, next, i) ==
    /\ Bodies!Assembly!ExactShape(wg) /\ Owns(wg, i)
    /\ label # "exit"
    /\ label \in Walking => next <= i \div RowTile

AssemblyOwes(wg) ==
    {cell \in Cells : /\ Carries(expert_indices, expert_offsets, Route(wg), cell)
                      /\ cell[2] = Column(wg) /\ Ahead(wg, pc[wg], at[wg], cell[1] - RouteBegin(wg))}

AssemblyOwed == UNION {AssemblyOwes(wg) : wg \in Work}

Exact == NumExperts = PhysicalExperts /\ Groups <= MaxRouteEntries

AssemblyType ==
    /\ expert_indices \in ExpertBanks
    /\ expert_offsets \in OffsetBanks
    /\ Bodies!Assembly!IsPolicy(policy)
    /\ pc \in [Work -> {"enter", "rolled", "full", "tail", "secondary", "exit"}]
    /\ at \in [Work -> Nat]

(* Where a workgroup may be at `label`. *)
Whereabouts(wg, label, next) ==
    /\ label \notin {"enter", "exit"} =>
         /\ Valid(expert_indices, expert_offsets, Route(wg))
         /\ Bodies!Assembly!ExactShape(wg)
    /\ label = "secondary" => Short(wg) /\ next = First(wg)
    /\ label \in Walking =>
         ~ Short(wg) /\ next % Stride = First(wg) /\ next * RowTile < RouteRows(wg)
    /\ label = "full" => next * RowTile + RowTile <= RouteRows(wg)
    /\ label = "tail" => RouteRows(wg) < next * RowTile + RowTile

AssemblyWalk == \A wg \in Work : Whereabouts(wg, pc[wg], at[wg])

AssemblyInv ==
    /\ AssemblyType /\ AssemblyWalk
    /\ Delivered(expert_indices, expert_offsets, Exact, AssemblyOwed, output)

(* The route of a workgroup behind the route guard. *)
LEMMA RouteFacts ==
    ASSUME AssemblyType, NEW wg \in Work
    PROVE  /\ Route(wg) \in GroupIds /\ Column(wg) \in Columns
           /\ First(wg) \in 0 .. Stride - 1 /\ Stride \in Nat \ {0}
           /\ Valid(expert_indices, expert_offsets, Route(wg)) =>
                /\ RouteBegin(wg) \in Nat /\ RouteRows(wg) \in Nat \ {0}
                /\ expert_offsets[Route(wg)] = RouteBegin(wg) + RouteRows(wg)
                /\ expert_offsets[Route(wg)] <= Rows
<1>1. /\ Route(wg) \in GroupIds /\ Column(wg) \in Columns
      /\ First(wg) \in 0 .. Stride - 1 /\ Stride \in Nat \ {0}
  BY Decoding, FirstInStride, PolicyFacts DEF AssemblyType
<1>2. Valid(expert_indices, expert_offsets, Route(wg)) =>
        /\ RowBegin(expert_offsets, Route(wg)) \in Nat /\ expert_offsets[Route(wg)] \in Nat
        /\ RowBegin(expert_offsets, Route(wg)) < expert_offsets[Route(wg)]
        /\ expert_offsets[Route(wg)] <= Rows
  BY <1>1, ValidRange DEF AssemblyType
<1> QED
  BY <1>1, <1>2 DEF RouteBegin, RouteRows

(* A row of the route, counted from its begin. *)
LEMMA CarriedRow ==
    ASSUME AssemblyType, NEW wg \in Work, NEW cell \in Cells,
           Carries(expert_indices, expert_offsets, Route(wg), cell)
    PROVE  /\ Valid(expert_indices, expert_offsets, Route(wg))
           /\ cell[1] - RouteBegin(wg) \in Nat
           /\ cell[1] - RouteBegin(wg) < RouteRows(wg)
<1>1. /\ Valid(expert_indices, expert_offsets, Route(wg))
      /\ cell[1] \in RowBegin(expert_offsets, Route(wg)) .. expert_offsets[Route(wg)] - 1
  BY DEF Carries
<1>2. /\ RouteBegin(wg) \in Nat /\ RouteRows(wg) \in Nat
      /\ expert_offsets[Route(wg)] = RouteBegin(wg) + RouteRows(wg)
  BY <1>1, RouteFacts
<1> QED
  BY <1>1, <1>2 DEF RouteBegin

LEMMA AssemblyApart ==
    ASSUME AssemblyType, NEW wg \in Work, NEW v \in Work, wg # v
    PROVE  AssemblyOwes(wg) \cap AssemblyOwes(v) = {}
<1> SUFFICES ASSUME NEW cell \in AssemblyOwes(wg), cell \in AssemblyOwes(v) PROVE FALSE
  OBVIOUS
<1>1. /\ cell \in Cells /\ Carries(expert_indices, expert_offsets, Route(wg), cell)
      /\ Carries(expert_indices, expert_offsets, Route(v), cell)
      /\ cell[2] = Column(wg) /\ cell[2] = Column(v)
      /\ Owns(wg, cell[1] - RouteBegin(wg)) /\ Owns(v, cell[1] - RouteBegin(v))
  BY DEF AssemblyOwes, Ahead
<1>2. Route(wg) \in GroupIds /\ Route(v) \in GroupIds
  BY RouteFacts
<1>3. Route(wg) = Route(v)
  BY <1>1, <1>2, OneCarrier DEF AssemblyType
<1>4. RouteBegin(wg) = RouteBegin(v) /\ (Short(wg) <=> Short(v))
  BY <1>3 DEF RouteBegin, RouteRows, Short
<1>5. First(wg) = First(v)
  BY <1>1, <1>4 DEF Owns
<1> QED
  BY <1>1, <1>3, <1>5, FirstInjective DEF AssemblyType

LEMMA AssemblyInitInv ==
    ASSUME Generated, Bodies!Assembly!Init
    PROVE  AssemblyInv
<1>1. /\ expert_indices \in ExpertBanks /\ expert_offsets \in OffsetBanks
      /\ policy \in Policies /\ output = Blank
      /\ pc = [wg \in Work |-> "enter"] /\ at = [wg \in Work |-> 0]
  BY AssemblyNames DEF Bodies!Assembly!Init, Work
<1>2. AssemblyType
  BY <1>1 DEF AssemblyType, Generated
<1>3. AssemblyWalk
  BY <1>1 DEF AssemblyWalk, Whereabouts, Walking
<1>4. ASSUME Exact, NEW cell \in Cells, NEW g \in GroupIds,
             Carries(expert_indices, expert_offsets, g, cell)
      PROVE  cell \in AssemblyOwed
  <2> DEFINE i == cell[1] - RowBegin(expert_offsets, g)
             n == expert_offsets[g] - RowBegin(expert_offsets, g)
             f == IF policy.threshold > 0 /\ n <= policy.threshold THEN 0
                  ELSE (i \div RowTile) % Stride
  <2>1. i \in Nat
    <3>1. RowBegin(expert_offsets, g) \in Nat /\ expert_offsets[g] \in Nat
      BY <1>1, <1>4, ValidRange DEF Carries
    <3> QED
      BY <1>4, <3>1 DEF Carries
  <2>2. Stride \in Nat \ {0}
    BY <1>2, PolicyFacts DEF AssemblyType
  <2>3. f \in 0 .. Stride - 1
    <3>1. i \div RowTile \in Nat
      BY <2>1, DivMod, RowTileAssumption
    <3>2. (i \div RowTile) % Stride \in 0 .. Stride - 1
      BY <2>2, <3>1, DivMod
    <3>3. 0 \in 0 .. Stride - 1
      BY <2>2
    <3> QED
      BY <3>2, <3>3
  <2> HIDE DEF f
  <2>4. cell[2] \in Columns
    BY DEF Cells
  <2>5. PICK wg \in Work : Column(wg) = cell[2] /\ Route(wg) = g /\ First(wg) = f
    BY <1>2, <2>3, <2>4, FirstSurjective DEF AssemblyType
  <2>6. Owns(wg, cell[1] - RouteBegin(wg))
    BY <2>5 DEF Owns, Short, RouteRows, RouteBegin, f
  <2>7. Bodies!Assembly!ExactShape(wg)
    <3>1. Bodies!Assembly!Route(wg) < MaxRouteEntries /\ NumExperts = PhysicalExperts
      <4>1. g < Groups /\ Groups <= MaxRouteEntries /\ g \in Int /\ Groups \in Int
        BY <1>4, GroupsAssumption DEF GroupIds, Exact
      <4>2. Bodies!Assembly!Route(wg) = g
        BY <2>5 DEF Route
      <4> QED
        BY <1>4, <4>1, <4>2 DEF Exact, Generated
    <3> QED
      BY <3>1 DEF Bodies!Assembly!ExactShape
  <2>8. Ahead(wg, pc[wg], at[wg], cell[1] - RouteBegin(wg))
    BY <1>1, <2>5, <2>6, <2>7 DEF Ahead, Walking
  <2>9. cell \in AssemblyOwes(wg)
    BY <1>4, <2>5, <2>8 DEF AssemblyOwes
  <2> QED
    BY <2>9 DEF AssemblyOwed
<1>5. \A cell \in Cells : output[cell] = Unwritten
  BY <1>1 DEF Blank
<1>6. output = [cell \in Cells |-> output[cell]]
  BY <1>1 DEF Blank
<1>7. Delivered(expert_indices, expert_offsets, Exact, AssemblyOwed, output)
  BY <1>4, <1>5, <1>6 DEF Delivered
<1> QED
  BY <1>2, <1>3, <1>7 DEF AssemblyInv

(* What every step of a workgroup comes to: it stores rows it owes.        *)
AssemblyStores(wg, rows) ==
    /\ wg \in Work
    /\ Block(rows, Column(wg)) \subseteq AssemblyOwes(wg)
    /\ output' = Stored(output, rows, Column(wg), expert_indices[Route(wg)])
    /\ AssemblyOwes(wg)' = AssemblyOwes(wg) \ Block(rows, Column(wg))
    /\ \A v \in Work \ {wg} : pc'[v] = pc[v] /\ at'[v] = at[v]
    /\ UNCHANGED <<expert_indices, expert_offsets, policy>>

(* The grid does not change. *)
LEMMA GridStays ==
    ASSUME UNCHANGED <<expert_indices, expert_offsets, policy>>
    PROVE  /\ Work' = Work /\ Stride' = Stride
           /\ \A wg : /\ Route(wg)' = Route(wg) /\ Column(wg)' = Column(wg)
                      /\ First(wg)' = First(wg) /\ RouteBegin(wg)' = RouteBegin(wg)
                      /\ RouteRows(wg)' = RouteRows(wg) /\ (Short(wg)' <=> Short(wg))
                      /\ (Bodies!Assembly!ExactShape(wg)' <=> Bodies!Assembly!ExactShape(wg))
           /\ \A wg, i : Owns(wg, i)' <=> Owns(wg, i)
           /\ Bodies!Assembly!IsPolicy(policy)' <=> Bodies!Assembly!IsPolicy(policy)
<1>1. Work' = Work /\ Stride' = Stride
  BY DEF Work, Bodies!Assembly!WorkGroups, Bodies!Assembly!Grid, Stride, Bodies!Assembly!Stride
<1>2. \A wg : /\ Route(wg)' = Route(wg) /\ Column(wg)' = Column(wg) /\ First(wg)' = First(wg)
  BY DEF Route, Bodies!Assembly!Route, Column, Bodies!Assembly!Column, First,
         Bodies!Assembly!FirstTile, Bodies!Assembly!SplitIndex, Bodies!Assembly!Lane
<1>3. \A wg : RouteBegin(wg)' = RouteBegin(wg)
  BY <1>2 DEF RouteBegin, RowBegin
<1>4. \A wg : RouteRows(wg)' = RouteRows(wg)
  BY <1>2, <1>3 DEF RouteRows
<1>5. \A wg : Short(wg)' <=> Short(wg)
  BY <1>4 DEF Short
<1>6. \A wg : Bodies!Assembly!ExactShape(wg)' <=> Bodies!Assembly!ExactShape(wg)
  BY <1>2 DEF Bodies!Assembly!ExactShape, Route
<1>7. \A wg, i : Owns(wg, i)' <=> Owns(wg, i)
  BY <1>1, <1>2, <1>5 DEF Owns
<1>8. Bodies!Assembly!IsPolicy(policy)' <=> Bodies!Assembly!IsPolicy(policy)
  BY DEF Bodies!Assembly!IsPolicy
<1> QED
  BY <1>1, <1>2, <1>3, <1>4, <1>5, <1>6, <1>7, <1>8

LEMMA AssemblyStoreKeeps ==
    ASSUME AssemblyInv, NEW wg, NEW rows, AssemblyStores(wg, rows)
    PROVE  Delivered(expert_indices, expert_offsets, Exact, AssemblyOwed, output)'
<1> DEFINE before == [v \in Work |-> AssemblyOwes(v)]
           after == [v \in Work |-> AssemblyOwes(v)']
           stored == Block(rows, Column(wg))
<1>1. wg \in Work /\ Route(wg) \in GroupIds /\ Column(wg) \in Columns
  BY RouteFacts DEF AssemblyStores, AssemblyInv
<1>2. \A v \in Work \ {wg} : after[v] = before[v] /\ before[v] \cap before[wg] = {}
  <2> SUFFICES ASSUME NEW v \in Work \ {wg}
               PROVE  after[v] = before[v] /\ before[v] \cap before[wg] = {}
    OBVIOUS
  <2>1. AssemblyOwes(v)' = AssemblyOwes(v)
    <3>1. pc'[v] = pc[v] /\ at'[v] = at[v] /\ UNCHANGED <<expert_indices, expert_offsets, policy>>
      BY DEF AssemblyStores
    <3>2. \A i : Ahead(v, pc[v], at[v], i)' <=> Ahead(v, pc[v], at[v], i)
      BY <3>1, GridStays DEF Ahead
    <3>3. Route(v)' = Route(v) /\ Column(v)' = Column(v) /\ RouteBegin(v)' = RouteBegin(v)
      BY <3>1, GridStays
    <3> QED
      BY <3>1, <3>2, <3>3 DEF AssemblyOwes, Carries
  <2>2. AssemblyOwes(v) \cap AssemblyOwes(wg) = {}
    BY <1>1, AssemblyApart DEF AssemblyInv
  <2> QED
    BY <1>1, <2>1, <2>2
<1>3. stored \subseteq before[wg] /\ after[wg] = before[wg] \ stored
  BY <1>1 DEF AssemblyStores
<1> HIDE DEF before, after, stored
<1>4. (UNION {after[v] : v \in Work}) = (UNION {before[v] : v \in Work}) \ stored
  BY <1>1, <1>2, <1>3, OwedLeft
<1>5. Work' = Work
  BY GridStays DEF AssemblyStores
<1>6. /\ (UNION {before[v] : v \in Work}) = AssemblyOwed
      /\ (UNION {after[v] : v \in Work}) = AssemblyOwed'
  BY <1>5 DEF before, after, AssemblyOwed
<1>7. AssemblyOwed' = AssemblyOwed \ stored
  BY <1>4, <1>6
<1>8. \A cell \in Block(rows, Column(wg)) :
        cell \in AssemblyOwed /\ Carries(expert_indices, expert_offsets, Route(wg), cell)
  BY <1>1 DEF AssemblyStores, AssemblyOwed, AssemblyOwes
<1>9. Exact \in BOOLEAN
  BY DEF Exact
<1>10. Delivered(expert_indices, expert_offsets, Exact, AssemblyOwed \ Block(rows, Column(wg)),
                Stored(output, rows, Column(wg), expert_indices[Route(wg)]))
  BY <1>1, <1>8, <1>9, StoreDelivers DEF AssemblyInv, AssemblyType
<1>11. Exact' = Exact
  BY DEF Exact
<1> QED
  BY <1>7, <1>10, <1>11 DEF AssemblyStores, stored

LEMMA AssemblyStoreMaps ==
    ASSUME AssemblyInv, NEW wg, NEW rows, AssemblyStores(wg, rows),
           Valid(expert_indices, expert_offsets, Route(wg)),
           rows \subseteq RouteBegin(wg) .. expert_offsets[Route(wg)] - 1
    PROVE  [Output!Next]_(Output!vars)
<1>1. wg \in Work /\ Route(wg) \in GroupIds /\ Column(wg) \in Columns
  BY RouteFacts DEF AssemblyStores, AssemblyInv
<1>2. Block(rows, Column(wg)) \subseteq AssemblyOwed
  BY <1>1 DEF AssemblyStores, AssemblyOwed
<1> QED
  BY <1>1, <1>2, StoreMaps DEF AssemblyStores, AssemblyInv, AssemblyType, RouteBegin

(* A step of a workgroup to `label` and row tile `next` that stores the    *)
(* rows it owes no longer.                                                 *)
LEMMA AssemblyAdvances ==
    ASSUME AssemblyInv, NEW wg \in Work, NEW rows,
           NEW label \in {"rolled", "full", "tail", "secondary", "exit"}, NEW next \in Nat,
           pc' = [pc EXCEPT ![wg] = label], at' = [at EXCEPT ![wg] = next],
           output' = Stored(output, rows, Column(wg), expert_indices[Route(wg)]),
           UNCHANGED <<expert_indices, expert_offsets, policy>>,
           Whereabouts(wg, label, next),
           \A row \in rows :
             /\ Valid(expert_indices, expert_offsets, Route(wg))
             /\ row \in RouteBegin(wg) .. expert_offsets[Route(wg)] - 1
             /\ Ahead(wg, pc[wg], at[wg], row - RouteBegin(wg)),
           Valid(expert_indices, expert_offsets, Route(wg)) =>
             \A i \in 0 .. RouteRows(wg) - 1 :
               Ahead(wg, label, next, i)
                 <=> Ahead(wg, pc[wg], at[wg], i) /\ RouteBegin(wg) + i \notin rows
    PROVE  AssemblyInv' /\ [Output!Next]_(Output!vars)
<1>1. /\ pc \in [Work -> {"enter", "rolled", "full", "tail", "secondary", "exit"}]
      /\ at \in [Work -> Nat] /\ AssemblyType /\ AssemblyWalk
      /\ Route(wg) \in GroupIds /\ Column(wg) \in Columns
  BY RouteFacts DEF AssemblyInv, AssemblyType
<1>2. /\ pc'[wg] = label /\ at'[wg] = next
      /\ \A v \in Work \ {wg} : pc'[v] = pc[v] /\ at'[v] = at[v]
  BY <1>1
<1>3. /\ Work' = Work /\ Stride' = Stride
      /\ \A v : /\ Route(v)' = Route(v) /\ Column(v)' = Column(v)
                /\ First(v)' = First(v) /\ RouteBegin(v)' = RouteBegin(v)
                /\ RouteRows(v)' = RouteRows(v) /\ (Short(v)' <=> Short(v))
                /\ (Bodies!Assembly!ExactShape(v)' <=> Bodies!Assembly!ExactShape(v))
      /\ \A v, i : Owns(v, i)' <=> Owns(v, i)
      /\ Bodies!Assembly!IsPolicy(policy)' <=> Bodies!Assembly!IsPolicy(policy)
  BY GridStays
<1>4. Block(rows, Column(wg)) \subseteq AssemblyOwes(wg)
  <2> SUFFICES ASSUME NEW cell \in Block(rows, Column(wg)) PROVE cell \in AssemblyOwes(wg)
    OBVIOUS
  <2>1. cell \in Cells /\ cell[1] \in rows /\ cell[2] = Column(wg)
    BY DEF Block
  <2>2. Carries(expert_indices, expert_offsets, Route(wg), cell)
    BY <2>1 DEF Carries, RouteBegin
  <2> QED
    BY <2>1, <2>2 DEF AssemblyOwes
<1>5. AssemblyOwes(wg)' = AssemblyOwes(wg) \ Block(rows, Column(wg))
  <2>1. AssemblyOwes(wg)' =
          {cell \in Cells : /\ Carries(expert_indices, expert_offsets, Route(wg), cell)
                            /\ cell[2] = Column(wg)
                            /\ Ahead(wg, label, next, cell[1] - RouteBegin(wg))}
    <3>1. \A i : Ahead(wg, pc[wg], at[wg], i)' <=> Ahead(wg, label, next, i)
      BY <1>2, <1>3 DEF Ahead
    <3>2. Route(wg)' = Route(wg) /\ Column(wg)' = Column(wg) /\ RouteBegin(wg)' = RouteBegin(wg)
      BY <1>3
    <3> QED
      BY <3>1, <3>2 DEF AssemblyOwes, Carries
  <2>2. ASSUME NEW cell \in Cells, Carries(expert_indices, expert_offsets, Route(wg), cell),
               cell[2] = Column(wg)
        PROVE  Ahead(wg, label, next, cell[1] - RouteBegin(wg))
                 <=> /\ Ahead(wg, pc[wg], at[wg], cell[1] - RouteBegin(wg))
                     /\ cell \notin Block(rows, Column(wg))
    <3> DEFINE i == cell[1] - RouteBegin(wg)
    <3>1. /\ Valid(expert_indices, expert_offsets, Route(wg)) /\ i \in Nat /\ i < RouteRows(wg)
          /\ RouteBegin(wg) \in Nat /\ RouteRows(wg) \in Nat
      BY <1>1, <2>2, CarriedRow, RouteFacts
    <3>2. cell[1] \in Int
      BY DEF Cells
    <3>3. i \in 0 .. RouteRows(wg) - 1 /\ RouteBegin(wg) + i = cell[1]
      BY <3>1, <3>2
    <3> HIDE DEF i
    <3>4. Ahead(wg, label, next, i) <=> Ahead(wg, pc[wg], at[wg], i) /\ cell[1] \notin rows
      BY <3>1, <3>3
    <3>5. cell \in Block(rows, Column(wg)) <=> cell[1] \in rows
      BY <2>2 DEF Block
    <3> QED
      BY <3>4, <3>5 DEF i
  <2> QED
    BY <2>1, <2>2 DEF AssemblyOwes
<1>6. AssemblyStores(wg, rows)
  BY <1>2, <1>4, <1>5 DEF AssemblyStores
<1>7. Delivered(expert_indices, expert_offsets, Exact, AssemblyOwed, output)'
  BY <1>6, AssemblyStoreKeeps
<1>8. [Output!Next]_(Output!vars)
  <2>1. CASE Valid(expert_indices, expert_offsets, Route(wg))
    BY <1>6, <2>1, AssemblyStoreMaps
  <2>2. CASE ~ Valid(expert_indices, expert_offsets, Route(wg))
    <3>1. rows = {}
      BY <2>2
    <3>2. output' = [cell \in Cells |-> output[cell]]
      BY <3>1 DEF Stored
    <3>3. output' = output
      BY <3>2 DEF AssemblyInv, Delivered
    <3> QED
      BY <3>3 DEF Output!vars
  <2> QED
    BY <2>1, <2>2
<1>9. AssemblyType'
  <2>1. pc' \in [Work -> {"enter", "rolled", "full", "tail", "secondary", "exit"}]
    BY <1>1
  <2>2. at' \in [Work -> Nat]
    BY <1>1
  <2> QED
    BY <1>1, <1>3, <2>1, <2>2 DEF AssemblyType
<1>10. AssemblyWalk'
  <2>1. \A v, l, n : Whereabouts(v, l, n)' <=> Whereabouts(v, l, n)
    <3> TAKE v, l, n
    <3> QED
      BY <1>3 DEF Whereabouts, Valid, RowBegin
  <2> SUFFICES ASSUME NEW v \in Work PROVE Whereabouts(v, pc'[v], at'[v])
    BY <1>3, <2>1 DEF AssemblyWalk
  <2>2. CASE v = wg
    BY <1>2, <2>2
  <2>3. CASE v # wg
    BY <1>1, <1>2, <2>3 DEF AssemblyWalk
  <2> QED
    BY <2>2, <2>3
<1> QED
  BY <1>7, <1>8, <1>9, <1>10 DEF AssemblyInv

(* The rows of a row tile of the route. *)
TileRows(wg, t) ==
    {row \in RouteBegin(wg) .. expert_offsets[Route(wg)] - 1 :
       (row - RouteBegin(wg)) \div RowTile = t}

LEMMA TileRowsAre ==
    ASSUME AssemblyType, NEW wg \in Work, Valid(expert_indices, expert_offsets, Route(wg)),
           NEW t \in Nat, t * RowTile < RouteRows(wg),
           NEW n \in Nat, n = SmallerOf(RowTile, RouteRows(wg) - t * RowTile)
    PROVE  RouteBegin(wg) + t * RowTile .. RouteBegin(wg) + t * RowTile + n - 1 = TileRows(wg, t)
<1> DEFINE rb == RouteBegin(wg)
           m == RouteRows(wg)
           first == t * RowTile
           rows == rb + first .. rb + first + n - 1
<1>1. /\ rb \in Nat /\ m \in Nat /\ expert_offsets[Route(wg)] = rb + m
  BY RouteFacts
<1>2. first \in Nat /\ RowTile \in Nat \ {0}
  BY RowTileAssumption
<1> HIDE DEF rb, m, first
<1>3. n = SmallerOf(RowTile, m - first) /\ first < m
  BY DEF m, first
<1>4. n <= RowTile /\ n <= m - first /\ (n = RowTile \/ n = m - first)
  BY <1>1, <1>2, <1>3 DEF SmallerOf
<1>5. \A row \in rb .. rb + m - 1 :
        row \in rows <=> (row - rb) \div RowTile = t
  <2> SUFFICES ASSUME NEW row \in rb .. rb + m - 1
               PROVE  row \in rows <=> (row - rb) \div RowTile = t
    OBVIOUS
  <2> DEFINE i == row - rb
  <2>1. i \in Nat /\ i < m /\ row = rb + i
    BY <1>1
  <2> HIDE DEF i
  <2>2. i \div RowTile = t <=> first <= i /\ i < first + RowTile
    BY <1>2, <2>1, TileOf DEF first
  <2>3. row \in rows <=> first <= i /\ i < first + n
    BY <1>1, <1>2, <2>1
  <2>4. first <= i /\ i < first + n <=> first <= i /\ i < first + RowTile
    BY <1>1, <1>2, <1>4, <2>1
  <2> QED
    BY <2>2, <2>3, <2>4 DEF i
<1>6. rows \subseteq rb .. rb + m - 1
  BY <1>1, <1>2, <1>4
<1>7. rb .. rb + m - 1 = rb .. expert_offsets[Route(wg)] - 1
  BY <1>1
<1>8. TileRows(wg, t) = {row \in rb .. rb + m - 1 : (row - rb) \div RowTile = t}
  BY <1>7 DEF TileRows, rb
<1>9. rows = TileRows(wg, t)
  <2> HIDE DEF rows
  <2> QED
    BY <1>5, <1>6, <1>8
<1> QED
  BY <1>9 DEF rows, rb, first

(* The walk: a workgroup stores its row tile and goes on by the stride, or *)
(* ends behind the last one.                                               *)
LEMMA WalkingStep ==
    ASSUME AssemblyInv, NEW wg \in Work, pc[wg] \in Walking,
           NEW label \in Walking \cup {"exit"}, NEW next \in Nat,
           pc' = [pc EXCEPT ![wg] = label], at' = [at EXCEPT ![wg] = next],
           output' = Stored(output, TileRows(wg, at[wg]), Column(wg), expert_indices[Route(wg)]),
           UNCHANGED <<expert_indices, expert_offsets, policy>>,
           \/ /\ next = at[wg] + Stride
              /\ label = "exit" => RouteRows(wg) <= next * RowTile
              /\ label \in Walking => next * RowTile < RouteRows(wg)
              /\ label = "full" => next * RowTile + RowTile <= RouteRows(wg)
              /\ label = "tail" => RouteRows(wg) < next * RowTile + RowTile
           \/ pc[wg] = "tail" /\ label = "exit"
    PROVE  AssemblyInv' /\ [Output!Next]_(Output!vars)
<1> DEFINE t == at[wg]
           rows == TileRows(wg, t)
           m == RouteRows(wg)
<1>1. AssemblyType /\ t \in Nat
  BY DEF AssemblyInv, AssemblyType
<1>2. /\ Valid(expert_indices, expert_offsets, Route(wg))
      /\ Bodies!Assembly!ExactShape(wg) /\ ~ Short(wg)
      /\ t % Stride = First(wg) /\ t * RowTile < m
      /\ pc[wg] = "tail" => m < t * RowTile + RowTile
  BY DEF AssemblyInv, AssemblyWalk, Whereabouts, Walking
<1>3. /\ RouteBegin(wg) \in Nat /\ m \in Nat
      /\ expert_offsets[Route(wg)] = RouteBegin(wg) + m
      /\ Stride \in Nat \ {0} /\ RowTile \in Nat \ {0}
  BY <1>1, <1>2, RouteFacts, RowTileAssumption
<1> HIDE DEF t, m
<1>4. \A i \in 0 .. m - 1 :
        /\ i \in Nat /\ i < m /\ i \div RowTile \in Nat
        /\ Owns(wg, i) <=> (i \div RowTile) % Stride = t % Stride
        /\ RouteBegin(wg) + i \in rows <=> i \div RowTile = t
  <2> SUFFICES ASSUME NEW i \in 0 .. m - 1
               PROVE  /\ i \in Nat /\ i < m /\ i \div RowTile \in Nat
                      /\ Owns(wg, i) <=> (i \div RowTile) % Stride = t % Stride
                      /\ RouteBegin(wg) + i \in rows <=> i \div RowTile = t
    OBVIOUS
  <2>1. i \in Nat /\ i < m
    BY <1>3
  <2>2. i \div RowTile \in Nat
    BY <1>3, <2>1, DivMod
  <2>3. Owns(wg, i) <=> (i \div RowTile) % Stride = t % Stride
    BY <1>2 DEF Owns
  <2>4. /\ RouteBegin(wg) + i \in RouteBegin(wg) .. expert_offsets[Route(wg)] - 1
        /\ (RouteBegin(wg) + i) - RouteBegin(wg) = i
    BY <1>3, <2>1
  <2>5. RouteBegin(wg) + i \in rows <=> i \div RowTile = t
    BY <2>4 DEF TileRows
  <2> QED
    BY <2>1, <2>2, <2>3, <2>5
<1>5. \A row \in rows :
        /\ row \in RouteBegin(wg) .. expert_offsets[Route(wg)] - 1
        /\ Ahead(wg, pc[wg], t, row - RouteBegin(wg))
  <2> SUFFICES ASSUME NEW row \in rows
               PROVE  /\ row \in RouteBegin(wg) .. expert_offsets[Route(wg)] - 1
                      /\ Ahead(wg, pc[wg], t, row - RouteBegin(wg))
    OBVIOUS
  <2> DEFINE i == row - RouteBegin(wg)
  <2>1. row \in RouteBegin(wg) .. expert_offsets[Route(wg)] - 1 /\ i \div RowTile = t
    BY DEF TileRows
  <2>2. i \in 0 .. m - 1
    BY <1>3, <2>1
  <2> HIDE DEF i
  <2>3. Owns(wg, i)
    BY <1>4, <2>1, <2>2
  <2>4. pc[wg] # "exit" /\ t <= i \div RowTile
    BY <1>1, <2>1 DEF Walking
  <2>5. Ahead(wg, pc[wg], t, i)
    BY <1>2, <2>3, <2>4 DEF Ahead
  <2> QED
    BY <2>1, <2>5 DEF i
<1>6. \A i \in 0 .. m - 1 :
        Ahead(wg, label, next, i)
          <=> Ahead(wg, pc[wg], t, i) /\ RouteBegin(wg) + i \notin rows
  <2> SUFFICES ASSUME NEW i \in 0 .. m - 1
               PROVE  Ahead(wg, label, next, i)
                        <=> Ahead(wg, pc[wg], t, i) /\ RouteBegin(wg) + i \notin rows
    OBVIOUS
  <2> DEFINE k == i \div RowTile
  <2>1. /\ i \in Nat /\ i < m /\ k \in Nat
        /\ Owns(wg, i) <=> k % Stride = t % Stride
        /\ RouteBegin(wg) + i \in rows <=> k = t
    BY <1>4
  <2>2. /\ next <= k <=> next * RowTile <= i
        /\ t <= k <=> t * RowTile <= i
        /\ k = t <=> t * RowTile <= i /\ i < t * RowTile + RowTile
        /\ next * RowTile \in Nat /\ t * RowTile \in Nat
    BY <1>1, <1>3, <2>1, TileOf
  <2>3. ASSUME Owns(wg, i) PROVE t + Stride <= k <=> t <= k /\ t # k
    BY <1>1, <1>3, <2>1, <2>3, StrideWalk
  <2> HIDE DEF k, rows
  <2>4. Ahead(wg, pc[wg], t, i) <=> Owns(wg, i) /\ t <= k
    BY <1>2 DEF Ahead, Walking, k
  <2>5. Ahead(wg, label, next, i) <=> Owns(wg, i) /\ label # "exit" /\ next <= k
    BY <1>2 DEF Ahead, Walking, k
  <2>6. CASE pc[wg] = "tail" /\ label = "exit"
    <3>1. m < t * RowTile + RowTile
      BY <1>2, <2>6
    <3>2. t <= k => k = t
      BY <1>3, <2>1, <2>2, <3>1
    <3> QED
      BY <2>1, <2>4, <2>5, <2>6, <3>2
  <2>7. CASE next = t + Stride /\ (label = "exit" => m <= next * RowTile)
    <3>1. label = "exit" => ~ (next <= k)
      BY <1>3, <2>1, <2>2, <2>7
    <3> QED
      BY <2>1, <2>3, <2>4, <2>5, <2>7, <3>1
  <2> QED
    BY <2>6, <2>7 DEF t, m
<1>7. Whereabouts(wg, label, next)
  <2>1. CASE label = "exit"
    BY <2>1 DEF Whereabouts, Walking
  <2>2. CASE label \in Walking
    <3>1. next = t + Stride
      BY <2>2 DEF Walking, t
    <3>2. next % Stride = First(wg)
      <4>1. (t + Stride) % Stride = t % Stride
        BY <1>1, <1>3, StrideWalk
      <4> QED
        BY <1>2, <3>1, <4>1
    <3>3. /\ next * RowTile < RouteRows(wg)
          /\ label = "full" => next * RowTile + RowTile <= RouteRows(wg)
          /\ label = "tail" => RouteRows(wg) < next * RowTile + RowTile
      BY <2>2 DEF Walking
    <3> QED
      BY <1>2, <2>2, <3>2, <3>3 DEF Whereabouts, Walking
  <2> QED
    BY <2>1, <2>2
<1>8. label \in {"rolled", "full", "tail", "secondary", "exit"}
  BY DEF Walking
<1> HIDE DEF rows
<1>9. /\ output' = Stored(output, rows, Column(wg), expert_indices[Route(wg)])
      /\ \A row \in rows :
           /\ Valid(expert_indices, expert_offsets, Route(wg))
           /\ row \in RouteBegin(wg) .. expert_offsets[Route(wg)] - 1
           /\ Ahead(wg, pc[wg], at[wg], row - RouteBegin(wg))
      /\ \A i \in 0 .. RouteRows(wg) - 1 :
           Ahead(wg, label, next, i)
             <=> Ahead(wg, pc[wg], at[wg], i) /\ RouteBegin(wg) + i \notin rows
  BY <1>2, <1>5, <1>6 DEF t, m, rows
<1> QED
  BY <1>7, <1>8, <1>9, AssemblyAdvances

(* What the three labels of the walk store is the row tile they are at: a  *)
(* bounded tile is cut at the end of the route, a full one ends before it. *)
LEMMA TileStore ==
    ASSUME AssemblyInv, NEW wg \in Work, pc[wg] \in Walking, NEW bounded \in BOOLEAN,
           ~ bounded => pc[wg] = "full"
    PROVE  Bodies!Assembly!Store(wg, RowTile, bounded)
             = Stored(output, TileRows(wg, at[wg]), Column(wg), expert_indices[Route(wg)])
<1> DEFINE first == at[wg] * RowTile
           n == IF bounded THEN SmallerOf(RowTile, RouteRows(wg) - first) ELSE RowTile
<1>1. AssemblyType /\ at[wg] \in Nat
  BY DEF AssemblyInv, AssemblyType
<1>2. /\ Valid(expert_indices, expert_offsets, Route(wg)) /\ first < RouteRows(wg)
      /\ pc[wg] = "full" => first + RowTile <= RouteRows(wg)
  BY DEF AssemblyInv, AssemblyWalk, Whereabouts, Walking
<1>3. /\ RouteRows(wg) \in Nat /\ RouteBegin(wg) \in Nat /\ first \in Nat /\ RowTile \in Nat \ {0}
  BY <1>1, <1>2, RouteFacts, RowTileAssumption
<1>4. /\ Bodies!Assembly!RouteBegin(wg) = RouteBegin(wg)
      /\ Bodies!Assembly!RouteRows(wg) = RouteRows(wg)
      /\ Bodies!Assembly!SmallerOf(RowTile, RouteRows(wg) - first)
           = SmallerOf(RowTile, RouteRows(wg) - first)
      /\ Bodies!Assembly!Column(wg) = Column(wg) /\ Bodies!Assembly!Route(wg) = Route(wg)
  BY AssemblyNames DEF RouteBegin, RouteRows, Column, Route
<1>5. \A out, rows, column, expert :
        Bodies!Assembly!Stored(out, rows, column, expert) = Stored(out, rows, column, expert)
  BY AssemblyNames
<1>6. Bodies!Assembly!Store(wg, RowTile, bounded)
        = Bodies!Assembly!Stored(output, RouteBegin(wg) + first .. RouteBegin(wg) + first + n - 1,
                                 Column(wg), expert_indices[Route(wg)])
  BY <1>4 DEF Bodies!Assembly!Store
<1> HIDE DEF n
<1>7. Bodies!Assembly!Store(wg, RowTile, bounded)
        = Stored(output, RouteBegin(wg) + first .. RouteBegin(wg) + first + n - 1,
                 Column(wg), expert_indices[Route(wg)])
  BY <1>5, <1>6, Zenon
<1>8. n \in Nat /\ n = SmallerOf(RowTile, RouteRows(wg) - first)
  BY <1>2, <1>3 DEF n, SmallerOf
<1>9. RouteBegin(wg) + first .. RouteBegin(wg) + first + n - 1 = TileRows(wg, at[wg])
  BY <1>1, <1>2, <1>8, TileRowsAre
<1> QED
  BY <1>7, <1>9

LEMMA AssemblyRolled ==
    ASSUME AssemblyInv, NEW wg \in Work, Bodies!Assembly!Rolled(wg)
    PROVE  AssemblyInv' /\ [Output!Next]_(Output!vars)
<1> DEFINE next == at[wg] + Stride
           label == IF next * RowTile < RouteRows(wg) THEN "rolled" ELSE "exit"
<1>1. Bodies!Assembly!RouteRows(wg) = RouteRows(wg)
  BY AssemblyNames DEF RouteRows, RouteBegin
<1>2. /\ pc[wg] = "rolled" /\ pc' = [pc EXCEPT ![wg] = label] /\ at' = [at EXCEPT ![wg] = next]
      /\ output' = Bodies!Assembly!Store(wg, RowTile, TRUE)
      /\ UNCHANGED <<expert_indices, expert_offsets, policy>>
  BY <1>1 DEF Bodies!Assembly!Rolled, Bodies!Assembly!Goto, Bodies!Assembly!NextBegin,
         Bodies!Assembly!Advance, Stride
<1>3. at[wg] \in Nat /\ Stride \in Nat /\ AssemblyType
  BY RouteFacts DEF AssemblyInv, AssemblyType
<1>4. pc[wg] \in Walking
  BY <1>2 DEF Walking
<1>5. Valid(expert_indices, expert_offsets, Route(wg))
  BY <1>2 DEF AssemblyInv, AssemblyWalk, Whereabouts
<1>6. next \in Nat /\ next * RowTile \in Nat /\ RouteRows(wg) \in Nat
  BY <1>3, <1>5, RouteFacts, RowTileAssumption
<1>7. output' = Stored(output, TileRows(wg, at[wg]), Column(wg), expert_indices[Route(wg)])
  BY <1>2, <1>4, TileStore
<1>8. /\ label \in {"rolled", "exit"} /\ next = at[wg] + Stride
      /\ label = "exit" => RouteRows(wg) <= next * RowTile
      /\ label = "rolled" => next * RowTile < RouteRows(wg)
  BY <1>6
<1> HIDE DEF label, next
<1>9. label \in Walking \cup {"exit"} /\ (label \in Walking => label = "rolled")
  BY <1>8 DEF Walking
<1> QED
  BY <1>2, <1>4, <1>6, <1>7, <1>8, <1>9, WalkingStep

LEMMA AssemblyFull ==
    ASSUME AssemblyInv, NEW wg \in Work, Bodies!Assembly!Full(wg)
    PROVE  AssemblyInv' /\ [Output!Next]_(Output!vars)
<1> DEFINE next == at[wg] + Stride
           label == IF next * RowTile + RowTile <= RouteRows(wg) THEN "full"
                    ELSE IF next * RowTile >= RouteRows(wg) THEN "exit" ELSE "tail"
<1>1. Bodies!Assembly!RouteRows(wg) = RouteRows(wg)
  BY AssemblyNames DEF RouteRows, RouteBegin
<1>2. /\ pc[wg] = "full" /\ pc' = [pc EXCEPT ![wg] = label] /\ at' = [at EXCEPT ![wg] = next]
      /\ output' = Bodies!Assembly!Store(wg, RowTile, FALSE)
      /\ UNCHANGED <<expert_indices, expert_offsets, policy>>
  BY <1>1 DEF Bodies!Assembly!Full, Bodies!Assembly!Goto, Bodies!Assembly!NextBegin,
         Bodies!Assembly!Advance, Stride
<1>3. at[wg] \in Nat /\ Stride \in Nat /\ AssemblyType
  BY RouteFacts DEF AssemblyInv, AssemblyType
<1>4. pc[wg] \in Walking
  BY <1>2 DEF Walking
<1>5. Valid(expert_indices, expert_offsets, Route(wg))
  BY <1>2 DEF AssemblyInv, AssemblyWalk, Whereabouts
<1>6. next \in Nat /\ next * RowTile \in Nat /\ RouteRows(wg) \in Nat
  BY <1>3, <1>5, RouteFacts, RowTileAssumption
<1>7. output' = Stored(output, TileRows(wg, at[wg]), Column(wg), expert_indices[Route(wg)])
  BY <1>2, <1>4, TileStore
<1>8. /\ label \in {"full", "tail", "exit"} /\ next = at[wg] + Stride
      /\ label = "exit" => RouteRows(wg) <= next * RowTile
      /\ label # "exit" => next * RowTile < RouteRows(wg)
      /\ label = "full" => next * RowTile + RowTile <= RouteRows(wg)
      /\ label = "tail" => RouteRows(wg) < next * RowTile + RowTile
  BY <1>6, RowTileAssumption
<1> HIDE DEF label, next
<1>9. label \in Walking \cup {"exit"} /\ (label \in Walking => label # "exit")
  BY <1>8 DEF Walking
<1> QED
  BY <1>2, <1>4, <1>6, <1>7, <1>8, <1>9, WalkingStep

LEMMA AssemblyTail ==
    ASSUME AssemblyInv, NEW wg \in Work, Bodies!Assembly!Tail(wg)
    PROVE  AssemblyInv' /\ [Output!Next]_(Output!vars)
<1>1. /\ pc[wg] = "tail" /\ pc' = [pc EXCEPT ![wg] = "exit"] /\ at' = at
      /\ output' = Bodies!Assembly!Store(wg, RowTile, TRUE)
      /\ UNCHANGED <<expert_indices, expert_offsets, policy>>
  BY DEF Bodies!Assembly!Tail, Bodies!Assembly!Goto
<1>2. at[wg] \in Nat /\ at' = [at EXCEPT ![wg] = at[wg]]
  BY <1>1 DEF AssemblyInv, AssemblyType
<1>3. pc[wg] \in Walking
  BY <1>1 DEF Walking
<1>4. output' = Stored(output, TileRows(wg, at[wg]), Column(wg), expert_indices[Route(wg)])
  BY <1>1, <1>3, TileStore
<1> QED
  BY <1>1, <1>2, <1>3, <1>4, WalkingStep

(* A short route: the first workgroup stores all of it, the others, which  *)
(* begin behind its end, nothing.                                          *)
LEMMA AssemblySecondary ==
    ASSUME AssemblyInv, NEW wg \in Work, Bodies!Assembly!Secondary(wg)
    PROVE  AssemblyInv' /\ [Output!Next]_(Output!vars)
<1> DEFINE h == policy.tail_rows
           m == RouteRows(wg)
           rb == RouteBegin(wg)
           first == at[wg] * h
           n == SmallerOf(h, m - first)
           rows == rb + first .. rb + first + n - 1
<1>1. /\ pc[wg] = "secondary" /\ pc' = [pc EXCEPT ![wg] = "exit"] /\ at' = at
      /\ output' = Bodies!Assembly!Store(wg, policy.tail_rows, TRUE)
      /\ UNCHANGED <<expert_indices, expert_offsets, policy>>
  BY DEF Bodies!Assembly!Secondary, Bodies!Assembly!Goto
<1>2. AssemblyType /\ at[wg] \in Nat /\ at' = [at EXCEPT ![wg] = at[wg]]
  BY <1>1 DEF AssemblyInv, AssemblyType
<1>3. /\ Valid(expert_indices, expert_offsets, Route(wg))
      /\ Bodies!Assembly!ExactShape(wg) /\ Short(wg) /\ at[wg] = First(wg)
  BY <1>1 DEF AssemblyInv, AssemblyWalk, Whereabouts
<1>4. /\ rb \in Nat /\ m \in Nat \ {0} /\ expert_offsets[Route(wg)] = rb + m
  BY <1>2, <1>3, RouteFacts
<1>5. h \in Nat /\ m <= h
  BY <1>2, <1>3, <1>4, PolicyFacts DEF AssemblyType, Short
<1>6. output' = Stored(output, rows, Column(wg), expert_indices[Route(wg)])
  <2>1. /\ Bodies!Assembly!RouteBegin(wg) = rb
        /\ Bodies!Assembly!RouteRows(wg) = m
        /\ Bodies!Assembly!SmallerOf(h, m - first) = n
        /\ Bodies!Assembly!Column(wg) = Column(wg) /\ Bodies!Assembly!Route(wg) = Route(wg)
    BY AssemblyNames DEF RouteBegin, RouteRows, Column, Route
  <2>2. \A out, rs, column, expert :
          Bodies!Assembly!Stored(out, rs, column, expert) = Stored(out, rs, column, expert)
    BY AssemblyNames
  <2>3. output' = Bodies!Assembly!Stored(output, rows, Column(wg), expert_indices[Route(wg)])
    BY <1>1, <2>1 DEF Bodies!Assembly!Store
  <2> QED
    BY <2>2, <2>3, Zenon
<1> HIDE DEF h, m, rb
<1>7. CASE at[wg] = 0
  <2>1. first = 0 /\ n = m
    BY <1>4, <1>5, <1>7 DEF SmallerOf
  <2>2. rows = rb .. rb + m - 1
    BY <1>4, <2>1
  <2> HIDE DEF rows
  <2>3. \A i \in 0 .. m - 1 : Ahead(wg, pc[wg], at[wg], i) /\ rb + i \in rows
    <3>1. \A i : Owns(wg, i)
      BY <1>3, <1>7 DEF Owns
    <3> QED
      BY <1>1, <1>3, <1>4, <2>2, <3>1 DEF Ahead, Walking
  <2>4. \A row \in rows :
          /\ row \in rb .. expert_offsets[Route(wg)] - 1
          /\ Ahead(wg, pc[wg], at[wg], row - rb)
    <3> SUFFICES ASSUME NEW row \in rows
                 PROVE  /\ row \in rb .. expert_offsets[Route(wg)] - 1
                        /\ Ahead(wg, pc[wg], at[wg], row - rb)
      OBVIOUS
    <3>1. row - rb \in 0 .. m - 1
      BY <1>4, <2>2
    <3> QED
      BY <1>4, <2>2, <2>3, <3>1
  <2>5. \A i : ~ Ahead(wg, "exit", at[wg], i)
    BY DEF Ahead
  <2>6. Whereabouts(wg, "exit", at[wg])
    BY DEF Whereabouts, Walking
  <2>7. /\ \A row \in rows :
             /\ Valid(expert_indices, expert_offsets, Route(wg))
             /\ row \in RouteBegin(wg) .. expert_offsets[Route(wg)] - 1
             /\ Ahead(wg, pc[wg], at[wg], row - RouteBegin(wg))
        /\ \A i \in 0 .. RouteRows(wg) - 1 :
             Ahead(wg, "exit", at[wg], i)
               <=> Ahead(wg, pc[wg], at[wg], i) /\ RouteBegin(wg) + i \notin rows
    BY <1>3, <2>3, <2>4, <2>5 DEF m, rb
  <2> QED
    BY <1>1, <1>2, <1>6, <2>6, <2>7, AssemblyAdvances
<1>8. CASE at[wg] # 0
  <2>1. first \in Nat /\ h <= first
    <3>1. 1 * h <= at[wg] * h
      BY <1>2, <1>5, <1>8, TimesMonotone
    <3> QED
      BY <1>2, <1>5, <3>1
  <2> HIDE DEF first
  <2>2. n = m - first /\ m - first <= 0
    BY <1>4, <1>5, <2>1 DEF SmallerOf
  <2>3. rows = {}
    BY <1>4, <2>1, <2>2
  <2>4. \A i : ~ Ahead(wg, pc[wg], at[wg], i) /\ ~ Ahead(wg, "exit", at[wg], i)
    BY <1>3, <1>8 DEF Ahead, Owns
  <2>5. Whereabouts(wg, "exit", at[wg])
    BY DEF Whereabouts, Walking
  <2> HIDE DEF rows
  <2>6. /\ \A row \in rows :
             /\ Valid(expert_indices, expert_offsets, Route(wg))
             /\ row \in RouteBegin(wg) .. expert_offsets[Route(wg)] - 1
             /\ Ahead(wg, pc[wg], at[wg], row - RouteBegin(wg))
        /\ \A i \in 0 .. RouteRows(wg) - 1 :
             Ahead(wg, "exit", at[wg], i)
               <=> Ahead(wg, pc[wg], at[wg], i) /\ RouteBegin(wg) + i \notin rows
    BY <2>3, <2>4
  <2> QED
    BY <1>1, <1>2, <1>6, <2>5, <2>6, AssemblyAdvances
<1> QED
  BY <1>7, <1>8

(* A workgroup passes the guards with all of its tiles, or has none.       *)
LEMMA AssemblyEnters ==
    ASSUME AssemblyInv, NEW wg \in Work, Bodies!Assembly!Enter(wg)
    PROVE  AssemblyInv' /\ [Output!Next]_(Output!vars)
<1> DEFINE f == First(wg)
           m == RouteRows(wg)
           enters == /\ Bodies!Assembly!ExactShape(wg)
                     /\ Valid(expert_indices, expert_offsets, Route(wg))
                     /\ Column(wg) < ColumnTiles
                     /\ Stride > 1 => f * RowTile < m
           label == IF ~ enters THEN "exit"
                    ELSE IF Short(wg) THEN "secondary"
                    ELSE IF policy.walk = "rolled" THEN "rolled"
                    ELSE IF (f + 1) * RowTile <= m THEN "full" ELSE "tail"
<1>1. /\ Bodies!Assembly!RouteRows(wg) = m
      /\ Bodies!Assembly!RouteGuard(wg) = Valid(expert_indices, expert_offsets, Route(wg))
      /\ Bodies!Assembly!FirstTile(wg) = f /\ Bodies!Assembly!Column(wg) = Column(wg)
      /\ Bodies!Assembly!Stride = Stride
  BY AssemblyNames DEF RouteRows, RouteBegin, First, Column, Stride
<1>2. Bodies!Assembly!FirstLabel(wg) =
        IF Short(wg) THEN "secondary"
        ELSE IF policy.walk = "rolled" THEN "rolled"
        ELSE IF (f + 1) * RowTile <= m THEN "full" ELSE "tail"
  BY <1>1, Zenon DEF Bodies!Assembly!FirstLabel, Short
<1>3. /\ pc[wg] = "enter" /\ output' = output /\ at' = [at EXCEPT ![wg] = f]
      /\ pc' = [pc EXCEPT ![wg] = IF enters THEN Bodies!Assembly!FirstLabel(wg) ELSE "exit"]
      /\ UNCHANGED <<expert_indices, expert_offsets, policy>>
  BY <1>1 DEF Bodies!Assembly!Enter, Bodies!Assembly!Goto
<1>4. pc' = [pc EXCEPT ![wg] = label]
  BY <1>2, <1>3
<1>5. /\ AssemblyType /\ f \in 0 .. Stride - 1 /\ Stride \in Nat \ {0} /\ f \in Nat
      /\ Column(wg) \in Columns /\ RowTile \in Nat \ {0} /\ f * RowTile \in Nat
  <2>1. AssemblyType
    BY DEF AssemblyInv
  <2>2. /\ f \in 0 .. Stride - 1 /\ Stride \in Nat \ {0} /\ Column(wg) \in Columns
    BY <2>1, RouteFacts
  <2> HIDE DEF f
  <2> QED
    BY <2>1, <2>2, RowTileAssumption
<1>6. Column(wg) < ColumnTiles
  BY <1>5, ColumnTilesAssumption DEF Columns
<1>7. Valid(expert_indices, expert_offsets, Route(wg)) => m \in Nat \ {0}
  BY <1>5, RouteFacts
<1> HIDE DEF f, m
<1>8. (f + 1) * RowTile = f * RowTile + RowTile
  BY <1>5
<1>9. f % Stride = f
  <2>1. (0 * Stride + f) \div Stride = 0 /\ (0 * Stride + f) % Stride = f
    BY <1>5, DivModOf
  <2> QED
    BY <1>5, <2>1
(* A workgroup owns rows from its first tile on only. *)
<1>10. ASSUME Valid(expert_indices, expert_offsets, Route(wg)),
              NEW i \in 0 .. m - 1, Owns(wg, i)
       PROVE  /\ ~ Short(wg) => f <= i \div RowTile
              /\ f * RowTile < m
  <2>1. i \in Nat /\ m \in Nat /\ i < m
    BY <1>7, <1>10
  <2>2. CASE Short(wg)
    <3>1. f = 0
      BY <1>10, <2>2 DEF Owns, f
    <3> QED
      BY <1>5, <2>1, <2>2, <3>1
  <2>3. CASE ~ Short(wg)
    <3> DEFINE k == i \div RowTile
    <3>1. k \in Nat /\ (f <= k <=> f * RowTile <= i)
      BY <1>5, <2>1, TileOf
    <3>2. k % Stride = f
      BY <1>10, <2>3 DEF Owns, f
    <3> HIDE DEF k
    <3>3. k \div Stride \in Nat /\ (k \div Stride) * Stride \in Nat
          /\ k = (k \div Stride) * Stride + (k % Stride)
      BY <1>5, <3>1, DivMod
    <3>4. f <= k
      BY <1>5, <3>1, <3>2, <3>3
    <3> QED
      BY <1>5, <2>1, <3>1, <3>4 DEF k
  <2> QED
    BY <2>2, <2>3
<1>11. \A i \in 0 .. m - 1 : Valid(expert_indices, expert_offsets, Route(wg)) =>
         (Ahead(wg, label, f, i) <=> Ahead(wg, pc[wg], at[wg], i))
  <2> SUFFICES ASSUME NEW i \in 0 .. m - 1, Valid(expert_indices, expert_offsets, Route(wg))
               PROVE  Ahead(wg, label, f, i) <=> Ahead(wg, pc[wg], at[wg], i)
    OBVIOUS
  <2>1. Ahead(wg, pc[wg], at[wg], i) <=> Bodies!Assembly!ExactShape(wg) /\ Owns(wg, i)
    BY <1>3 DEF Ahead, Walking
  <2>2. CASE Bodies!Assembly!ExactShape(wg) /\ Owns(wg, i)
    <3>1. enters
      BY <1>6, <1>10, <2>2
    <3>2. label # "exit" /\ (label \in Walking => ~ Short(wg))
      BY <3>1 DEF Walking
    <3> HIDE DEF label
    <3>3. label \in Walking => f <= i \div RowTile
      BY <1>10, <2>2, <3>2
    <3> QED
      BY <2>1, <2>2, <3>2, <3>3 DEF Ahead
  <2>3. CASE ~ (Bodies!Assembly!ExactShape(wg) /\ Owns(wg, i))
    BY <2>1, <2>3 DEF Ahead
  <2> QED
    BY <2>2, <2>3
<1>12. Whereabouts(wg, label, f)
  <2>1. CASE ~ enters
    <3>1. label = "exit"
      BY <2>1
    <3> QED
      BY <3>1 DEF Whereabouts, Walking
  <2>2. CASE enters
    <3>1. /\ m \in Nat \ {0} /\ Valid(expert_indices, expert_offsets, Route(wg))
          /\ Bodies!Assembly!ExactShape(wg)
      BY <1>7, <2>2
    <3>2. f * RowTile < m
      <4>1. CASE Stride > 1
        BY <2>2, <4>1
      <4>2. CASE ~ (Stride > 1)
        <5>1. f = 0
          BY <1>5, <4>2
        <5> QED
          BY <1>5, <3>1, <5>1
      <4> QED
        BY <4>1, <4>2
    <3>3. /\ label \in {"secondary", "rolled", "full", "tail"}
          /\ label = "secondary" <=> Short(wg)
          /\ label = "full" => f * RowTile + RowTile <= m
          /\ label = "tail" => m < f * RowTile + RowTile
      BY <1>5, <1>8, <2>2, <3>1
    <3> HIDE DEF label, enters
    <3> QED
      BY <1>9, <3>1, <3>2, <3>3 DEF Whereabouts, Walking, f, m
  <2> QED
    BY <2>1, <2>2
<1>13. label \in {"rolled", "full", "tail", "secondary", "exit"}
  OBVIOUS
<1>14. output' = Stored(output, {}, Column(wg), expert_indices[Route(wg)])
  <2>1. output = [cell \in Cells |-> output[cell]]
    BY DEF AssemblyInv, Delivered
  <2>2. Stored(output, {}, Column(wg), expert_indices[Route(wg)]) = [cell \in Cells |-> output[cell]]
    BY DEF Stored
  <2> QED
    BY <1>3, <2>1, <2>2
<1> HIDE DEF label
<1>15. Valid(expert_indices, expert_offsets, Route(wg)) =>
         \A i \in 0 .. RouteRows(wg) - 1 :
           Ahead(wg, label, f, i)
             <=> Ahead(wg, pc[wg], at[wg], i) /\ RouteBegin(wg) + i \notin {}
  BY <1>11 DEF m
<1> DEFINE none == {}
<1>16. f \in Nat /\ at' = [at EXCEPT ![wg] = f]
  BY <1>3, <1>5
<1>17. \A row \in none :
         /\ Valid(expert_indices, expert_offsets, Route(wg))
         /\ row \in RouteBegin(wg) .. expert_offsets[Route(wg)] - 1
         /\ Ahead(wg, pc[wg], at[wg], row - RouteBegin(wg))
  OBVIOUS
<1>18. UNCHANGED <<expert_indices, expert_offsets, policy>>
  BY <1>3
<1>19. /\ output' = Stored(output, none, Column(wg), expert_indices[Route(wg)])
       /\ Valid(expert_indices, expert_offsets, Route(wg)) =>
            \A i \in 0 .. RouteRows(wg) - 1 :
              Ahead(wg, label, f, i)
                <=> Ahead(wg, pc[wg], at[wg], i) /\ RouteBegin(wg) + i \notin none
  BY <1>14, <1>15
<1> HIDE DEF none
<1> QED
  BY <1>4, <1>12, <1>13, <1>16, <1>17, <1>18, <1>19, AssemblyAdvances

LEMMA AssemblyNextInv ==
    ASSUME AssemblyInv, Bodies!Assembly!Next
    PROVE  AssemblyInv' /\ [Output!Next]_(Output!vars)
<1>1. PICK wg \in Work :
        \/ Bodies!Assembly!Enter(wg) \/ Bodies!Assembly!Rolled(wg) \/ Bodies!Assembly!Full(wg)
        \/ Bodies!Assembly!Tail(wg) \/ Bodies!Assembly!Secondary(wg)
  BY DEF Bodies!Assembly!Next, Work
<1> QED
  BY <1>1, AssemblyEnters, AssemblyRolled, AssemblyFull, AssemblyTail, AssemblySecondary

(***************************************************************************)
(* Both bodies against what every grouped operation promises.              *)
(***************************************************************************)
BodiesInv ==
    \/ body = "hip" /\ SerialInv
    \/ body = "assembly" /\ AssemblyInv

LEMMA BodiesInitInv == Generated /\ Bodies!Init => BodiesInv
  BY SerialInitInv, AssemblyInitInv DEF Bodies!Init, BodiesInv

LEMMA BodiesInitMaps == Bodies!Init => Output!Init
<1> SUFFICES ASSUME Bodies!Init PROVE Output!Init
  OBVIOUS
<1>1. expert_indices \in ExpertBanks /\ expert_offsets \in OffsetBanks /\ output = Blank
  BY SerialNames, AssemblyNames DEF Bodies!Init, Bodies!Serial!Init, Bodies!Assembly!Init
<1> QED
  BY <1>1 DEF Output!Init, ExpertBanks, OffsetBanks, Blank, Cells, Columns, GroupIds,
         Unwritten, Output!ExpertBanks, Output!OffsetBanks, Output!Blank, Output!Cells,
         Output!Columns, Output!GroupIds, Output!Unwritten

LEMMA SerialStutter ==
    ASSUME SerialInv,
           UNCHANGED <<expert_indices, expert_offsets, short_tiles, pc, at, output>>
    PROVE  SerialInv'
<1>1. SerialType' /\ SerialWalk'
  BY DEF SerialInv, SerialType, SerialWalk
<1>2. \A wg : SerialOwes(wg)' = SerialOwes(wg)
  BY DEF SerialOwes, SerialFrom, Carries
<1>3. SerialOwed' = SerialOwed
  BY <1>2 DEF SerialOwed
<1> QED
  BY <1>1, <1>3 DEF SerialInv

LEMMA AssemblyStutter ==
    ASSUME AssemblyInv,
           UNCHANGED <<expert_indices, expert_offsets, policy, pc, at, output>>
    PROVE  AssemblyInv'
<1>1. /\ Work' = Work /\ Stride' = Stride
      /\ \A v : /\ Route(v)' = Route(v) /\ Column(v)' = Column(v)
                /\ First(v)' = First(v) /\ RouteBegin(v)' = RouteBegin(v)
                /\ RouteRows(v)' = RouteRows(v) /\ (Short(v)' <=> Short(v))
                /\ (Bodies!Assembly!ExactShape(v)' <=> Bodies!Assembly!ExactShape(v))
      /\ \A v, i : Owns(v, i)' <=> Owns(v, i)
      /\ Bodies!Assembly!IsPolicy(policy)' <=> Bodies!Assembly!IsPolicy(policy)
  BY GridStays
<1>2. AssemblyType'
  BY <1>1 DEF AssemblyInv, AssemblyType
<1>3. AssemblyWalk'
  <2>1. \A v : Whereabouts(v, pc[v], at[v])' <=> Whereabouts(v, pc[v], at[v])
    BY <1>1 DEF Whereabouts, Valid, RowBegin
  <2> QED
    BY <1>1, <2>1 DEF AssemblyInv, AssemblyWalk
<1>4. \A v : AssemblyOwes(v)' = AssemblyOwes(v)
  <2> SUFFICES ASSUME NEW v PROVE AssemblyOwes(v)' = AssemblyOwes(v)
    OBVIOUS
  <2>1. \A i : Ahead(v, pc[v], at[v], i)' <=> Ahead(v, pc[v], at[v], i)
    BY <1>1 DEF Ahead
  <2>2. Route(v)' = Route(v) /\ Column(v)' = Column(v) /\ RouteBegin(v)' = RouteBegin(v)
    BY <1>1
  <2> QED
    BY <2>1, <2>2 DEF AssemblyOwes, Carries
<1>5. AssemblyOwed' = AssemblyOwed
  BY <1>1, <1>4 DEF AssemblyOwed
<1>6. Exact' = Exact
  BY DEF Exact
<1> QED
  BY <1>2, <1>3, <1>5, <1>6 DEF AssemblyInv

LEMMA BodiesNextInv ==
    BodiesInv /\ [Bodies!Next]_(Bodies!vars) => BodiesInv' /\ [Output!Next]_(Output!vars)
<1> SUFFICES ASSUME BodiesInv, [Bodies!Next]_(Bodies!vars)
             PROVE  BodiesInv' /\ [Output!Next]_(Output!vars)
  OBVIOUS
<1>1. CASE body = "hip" /\ Bodies!Serial!Next /\ UNCHANGED <<body, policy>>
  <2>1. SerialInv
    BY <1>1 DEF BodiesInv
  <2> QED
    BY <1>1, <2>1, SerialNextInv DEF BodiesInv
<1>2. CASE body = "assembly" /\ Bodies!Assembly!Next /\ UNCHANGED <<body, short_tiles>>
  <2>1. AssemblyInv
    BY <1>2 DEF BodiesInv
  <2> QED
    BY <1>2, <2>1, AssemblyNextInv DEF BodiesInv
<1>3. CASE UNCHANGED Bodies!vars
  <2>1. /\ body' = body
        /\ UNCHANGED <<expert_indices, expert_offsets, short_tiles, policy, pc, at, output>>
    BY <1>3 DEF Bodies!vars
  <2>2. [Output!Next]_(Output!vars)
    BY <2>1 DEF Output!vars
  <2> QED
    BY <2>1, <2>2, SerialStutter, AssemblyStutter DEF BodiesInv
<1> QED
  BY <1>1, <1>2, <1>3 DEF Bodies!Next

(* The serial walk with any choice of tail tiles, and the workgroups of an *)
(* assembly kernel with any split, mapping lanes, packing and walk, only   *)
(* ever write rows of a valid route entry, with that entry's own expert,   *)
(* and no cell a second time: every step of either body is a step of       *)
(* RoutedOutput, for any routing, shape and interleaving.                  *)
THEOREM BodiesWriteOnce == Generated => (Bodies!Spec => Output!Safety)
<1>1. BodiesInv /\ [Bodies!Next]_(Bodies!vars) => BodiesInv'
  BY BodiesNextInv
<1>2. BodiesInv /\ [Bodies!Next]_(Bodies!vars) => [Output!Next]_(Output!vars)
  BY BodiesNextInv
<1> QED
  BY <1>1, <1>2, BodiesInitInv, BodiesInitMaps, PTL DEF Bodies!Spec, Output!Safety

(* Every workgroup has ended; of an assembly kernel, one that was          *)
(* generated for the shape it is launched on.                              *)
Returned ==
    \/ body = "hip" /\ \A wg \in SerialWork : pc[wg] = "retired"
    \/ body = "assembly" /\ Exact /\ Bodies!Assembly!Retired

(* Once every workgroup has ended, each row of a valid entry holds its     *)
(* expert in every column tile, and every other cell is what torch.empty   *)
(* left: the walks leave no gap at any stride, tile height or tail.  An    *)
(* assembly kernel has to have been generated for the expert count and the *)
(* number of route entries; smaller_bank shows what it does otherwise.     *)
THEOREM BodiesComplete == Generated => (Bodies!Spec => [](Returned => Output!Complete))
<1>1. BodiesInv /\ [Bodies!Next]_(Bodies!vars) => BodiesInv'
  BY BodiesNextInv
<1>2. BodiesInv /\ Returned => Output!Complete
  <2> SUFFICES ASSUME BodiesInv, Returned PROVE Output!Complete
    OBVIOUS
  <2>1. CASE body = "hip"
    <3>1. SerialInv /\ \A wg \in SerialWork : pc[wg] = "retired"
      BY <2>1 DEF BodiesInv, Returned
    <3>2. ASSUME NEW wg \in SerialWork PROVE SerialOwes(wg) = {}
      <4> SUFFICES ASSUME NEW cell \in SerialOwes(wg) PROVE FALSE
        OBVIOUS
      <4>1. /\ cell \in Cells /\ Carries(expert_indices, expert_offsets, wg[1], cell)
            /\ expert_offsets[wg[1]] <= cell[1]
        BY <3>1 DEF SerialOwes, SerialFrom
      <4>2. wg[1] \in GroupIds /\ cell[1] \in Int
        BY <4>1 DEF SerialWork, Cells
      <4>3. expert_offsets[wg[1]] \in Nat /\ RowBegin(expert_offsets, wg[1]) \in Nat
        BY <3>1, <4>1, <4>2, ValidRange DEF SerialInv, SerialType, Carries
      <4> QED
        BY <4>1, <4>2, <4>3 DEF Carries
    <3>3. SerialOwed = {}
      BY <3>2 DEF SerialOwed
    <3> QED
      BY <3>1, <3>3, DeliveredComplete DEF SerialInv, SerialType
  <2>2. CASE body = "assembly"
    <3>1. AssemblyInv /\ Exact = TRUE /\ \A wg \in Work : pc[wg] = "exit"
      BY <2>2 DEF BodiesInv, Returned, Bodies!Assembly!Retired, Work, Exact
    <3>2. ASSUME NEW wg \in Work PROVE AssemblyOwes(wg) = {}
      BY <3>1 DEF AssemblyOwes, Ahead
    <3>3. AssemblyOwed = {}
      BY <3>2 DEF AssemblyOwed
    <3> QED
      BY <3>1, <3>3, DeliveredComplete DEF AssemblyInv, AssemblyType
  <2> QED
    BY <2>1, <2>2 DEF BodiesInv
<1> QED
  BY <1>1, <1>2, BodiesInitInv, PTL DEF Bodies!Spec
=============================================================================
