--------------------------- MODULE MCOperationLaunch ---------------------------
(***************************************************************************)
(* Two calls of OperationLaunch.  Calls and streams are alike, so that a   *)
(* pair of records is taken in one order and the first call in the first   *)
(* stream.  The serial pair body differs from the forward one in its       *)
(* number of outputs only and is left out.  The tables of the Python layer *)
(* agree with the records, or differ for the first of two calls, the other *)
(* of which holds and launches the most.                                   *)
(***************************************************************************)
EXTENDS OperationLaunch, TLC

CONSTANTS c1, c2, s1, s2

MCSizes == {2, 3, 4}

R(family, ownership, size) == [family |-> family, ownership |-> ownership, size |-> size]
Agreeing == <<
    R("Forward", "Serial", 0), R("Backward", "Serial", 0), R("Backward", "Serial", 3),
    R("GroupedBackward", "DeviceRowTasks", 3), R("GroupedForwardPair", "PairSingle", 0),
    R("GroupedForwardPair", "DeviceRowTasks", 3)>>

(* Of five rows, tasks of three or four fill as many slots, those of two more. *)
Disagreeing == {
    <<R("Backward", "Serial", 0), 3>>, <<R("Backward", "Serial", 3), 0>>,
    <<R("Backward", "Serial", 3), 4>>, <<R("GroupedBackward", "Serial", 0), 3>>,
    <<R("GroupedBackward", "DeviceRowTasks", 3), 0>>,
    <<R("GroupedBackward", "DeviceRowTasks", 3), 2>>,
    <<R("GroupedBackward", "DeviceRowTasks", 3), 4>>,
    <<R("GroupedForwardPair", "PairSingle", 0), 3>>,
    <<R("GroupedForwardPair", "DeviceRowTasks", 3), 0>>,
    <<R("GroupedForwardPair", "DeviceRowTasks", 3), 2>>,
    <<R("GroupedForwardPair", "DeviceRowTasks", 3), 4>>}

Load(r, size, other, s) ==
    (c1 :> [record |-> r, tabled |-> size, stream |-> s1])
        @@ (c2 :> [record |-> other, tabled |-> other.size, stream |-> s])

MCWorkloads ==
    {Load(Agreeing[o[1]], Agreeing[o[1]].size, Agreeing[o[2]], s) :
            o \in {o \in (1 .. 6) \X (1 .. 6) : o[1] <= o[2]}, s \in Streams}
        \cup {Load(d[1], d[2], Agreeing[j], s) : d \in Disagreeing, j \in {3, 6}, s \in Streams}
=============================================================================
