------------------------------- MODULE Slices -------------------------------
(***************************************************************************)
(* How a batch is split over the devices: _split_input_slice, which Module *)
(* uses, one device per step, and split_data of gluon.utils.               *)
(***************************************************************************)
EXTENDS Integers, Sequences, FiniteSetsExt, Functions

CONSTANTS MaxBatch, MaxLoad, MaxDevices   \* bounds of the inputs

VARIABLES
    split,      \* the call: [by, size, loads, py]; py is the version of Python
    slices,     \* list of [start, stop]
    end,        \* local variable of the loop
    split_pc    \* "loop", "done" or "raised"

sliceVars == <<split, slices, end, split_pc>>

Loads == UNION {[1 .. n -> 1 .. MaxLoad] : n \in 1 .. MaxDevices}
SlicesInit ==
    /\ split \in [by : {"workload", "even", "uneven"}, size : 1 .. MaxBatch,
                  loads : Loads, py : {2, 3}]
    /\ split.by = "workload" \/ (split.py = 3 /\ Range(split.loads) = {1})
    /\ slices = <<>> /\ end = 0 /\ split_pc = "loop"

Devices == DOMAIN split.loads

\* round(a / b) of two integers: Python 2 has divided them as integers before,
\* Python 3 rounds a half to the even neighbour.
Round(a, b) ==
    LET q == a \div b
        r == 2 * (a % b)
    IN IF split.py = 2 \/ r < b THEN q
       ELSE IF r > b THEN q + 1 ELSE q + (q % 2)

Shares == [i \in Devices |-> Round(split.loads[i] * split.size, SumFunctionOnSet(split.loads, Devices))]

NoRemainder == Shares
\* What the shares leave of the batch goes to the last device.
BatchNumList ==
    LET left == split.size - SumFunctionOnSet(Shares, Devices)
    IN IF left > 0 THEN [Shares EXCEPT ![Len(split.loads)] = @ + left] ELSE Shares

\* One round of the loop of _split_input_slice.
SplitInputSlice ==
    /\ split_pc = "loop" /\ split.by = "workload"
    /\ LET begin == Min({end, split.size})
           stop == Min({begin + BatchNumList[Len(slices) + 1], split.size})
       IN IF begin >= stop
          THEN split_pc' = "raised" /\ UNCHANGED <<slices, end>>
          ELSE /\ slices' = Append(slices, [start |-> begin, stop |-> stop])
               /\ end' = stop
               /\ split_pc' = IF Len(slices') = Len(split.loads) THEN "done" ELSE "loop"
    /\ UNCHANGED split

\* split_data over as many slices as there are devices; the last takes the rest.
SplitData ==
    LET n == Len(split.loads)
        step == split.size \div n
    IN /\ split_pc = "loop" /\ split.by # "workload"
       /\ IF split.size < n \/ (split.by = "even" /\ split.size % n # 0)
          THEN split_pc' = "raised" /\ UNCHANGED slices
          ELSE /\ slices' = [i \in 1 .. n |->
                      [start |-> (i - 1) * step,
                       stop |-> IF i < n THEN i * step ELSE split.size]]
               /\ split_pc' = "done"
       /\ UNCHANGED <<split, end>>

SlicesNext == SplitInputSlice \/ SplitData

-----------------------------------------------------------------------------
\* However shares are rounded, a split that does not raise gives every row of
\* the batch to exactly one device, and every device at least one row.
SlicesPartition ==
    split_pc = "done" =>
        /\ Len(slices) = Len(split.loads)
        /\ \A i \in DOMAIN slices : slices[i].start < slices[i].stop
        /\ \A row \in 0 .. split.size - 1 :
             \E i \in DOMAIN slices : /\ slices[i].start <= row /\ row < slices[i].stop
                                      /\ \A j \in DOMAIN slices \ {i} :
                                           ~(slices[j].start <= row /\ row < slices[j].stop)
=============================================================================
