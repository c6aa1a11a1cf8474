---------------------------- MODULE MCIterators -----------------------------
(***************************************************************************)
(* The iterators of mx.io and gluon's DataLoader side by side: a behaviour *)
(* exercises one of them, which its initial state chooses, while the       *)
(* others stay as they were constructed.                                   *)
(***************************************************************************)
EXTENDS PrefetchingIter, NDArrayIter, ResizeIter, DataLoader

CONSTANTS w1, w2

VARIABLE active

TwoWorkers == {w1, w2}
TwoThree == <<3, 2>>
NoPad == [i \in It |-> 0]

SmallConfs ==
    {[num_data |-> c[1], batch_size |-> c[2], last_batch_handle |-> c[3],
      shuffle |-> TRUE, calls |-> c[4], max_resets |-> c[5]] :
        c \in {<<4, 3, "roll_over", "once", 2>>, <<2, 5, "roll_over", "once", 6>>,
               <<3, 2, "roll_over", "any", 2>>, <<4, 3, "pad", "once", 2>>,
               <<2, 3, "pad", "once", 2>>, <<4, 3, "discard", "once", 1>>}}

SmallResizeConfs ==
    {[rows |-> c[1], batch_size |-> c[2], round_batch |-> c[3], capacity |-> c[4],
      size |-> 4, reset_internal |-> r, max_resets |-> 3] :
        c \in {<<5, 2, TRUE, 2>>, <<5, 2, FALSE, 2>>, <<4, 2, TRUE, 3>>, <<2, 3, FALSE, 1>>},
        r \in BOOLEAN}

FirstOf(S) == CHOOSE c \in S : TRUE

ItersInit ==
    /\ Init /\ NDInit /\ ResizeInit /\ LoaderInit
    /\ active \in {"PrefetchingIter", "NDArrayIter", "ResizeIter", "DataLoader"}
    /\ active # "NDArrayIter" => conf = FirstOf(Confs) /\ data = Identity
    /\ active # "ResizeIter" => rconf = FirstOf(ResizeConfs)
    /\ active # "DataLoader" => last_batch = FirstOf(LastBatches) /\ bad = {}

ItersNext ==
    /\ \/ active = "PrefetchingIter" /\ Next /\ UNCHANGED <<ndVars, resizeVars, loaderVars>>
       \/ active = "NDArrayIter" /\ NDNext /\ UNCHANGED <<vars, resizeVars, loaderVars>>
       \/ active = "ResizeIter" /\ ResizeNext /\ UNCHANGED <<vars, ndVars, loaderVars>>
       \/ active = "DataLoader" /\ LoaderNext /\ UNCHANGED <<vars, ndVars, resizeVars>>
    /\ UNCHANGED active

\* The fairness of PrefetchingIter and of DataLoader, in the behaviours that
\* exercise them.
ItersFairness ==
    /\ WF_vars(active = "PrefetchingIter" /\ InCall)
    /\ \A i \in It : WF_vars(active = "PrefetchingIter" /\ Thread(i))
    /\ \A w \in Worker : /\ WF_loaderVars(active = "DataLoader" /\ Take(w))
                          /\ WF_loaderVars(active = "DataLoader" /\ Finish(w))
    /\ WF_loaderVars(active = "DataLoader" /\ Next_Return)

ItersSpec ==
    /\ ItersInit
    /\ [][ItersNext]_<<active, vars, ndVars, resizeVars, loaderVars>>
    /\ ItersFairness
=============================================================================
