-------------------------- MODULE PrefetchingIter ---------------------------
(***************************************************************************)
(* mx.io.PrefetchingIter: one thread per wrapped iterator fetches the next *)
(* batch while the user consumes the current one.  Two events per iterator *)
(* hand the batch over: data_ready (thread to user) and data_taken (user   *)
(* to thread).                                                             *)
(*                                                                         *)
(* Only the user's thread clears data_ready and only the prefetch thread   *)
(* clears data_taken, so waiting for all the events of a list in turn is   *)
(* one guard.  The loops that reset the iterators and set data_taken go    *)
(* one iterator at a time, because threads run in between.                 *)
(***************************************************************************)
EXTENDS Naturals

CONSTANTS
    N,             \* n_iter
    Size,          \* Size[i]: batches per epoch of the i-th iterator
    Pad,           \* Pad[i]: pad of its last batch
    Faulty,        \* iterators whose next() may raise other than StopIteration
    MaxResets      \* bound: calls of reset()

It == 1 .. N

ASSUME PrefetchingIterAssumption ==
    /\ N \in Nat \ {0}
    /\ Size \in [It -> Nat]
    /\ Pad \in [It -> Nat]
    /\ Faulty \subseteq It
    /\ MaxResets \in Nat

VARIABLES
    data_ready, data_taken,   \* the events
    next_batch,    \* <<epoch, number>>, or None
    current_batch, \* what the last next() returned: the batch of each iterator
    started,
    epoch, pos,    \* of each wrapped iterator: resets so far, batches fetched
    tpc,           \* where each prefetch thread is
    upc, k,        \* where the user's thread is; the index of its loop
    turn           \* history: number of the batch the threads are to fetch

vars == <<data_ready, data_taken, next_batch, current_batch, started, epoch,
          pos, tpc, upc, k, turn>>
threadVars == <<next_batch, pos, tpc>>
userVars == <<current_batch, started, epoch, upc, k, turn>>

None == <<0, 0>>

\* The thread's way round its loop: next_batch is stored, then data_taken is
\* cleared, then data_ready is set.
FollowsSwapped == [next |-> "ready", clear |-> "wait", ready |-> "clear"]
Follows == [next |-> "clear", clear |-> "ready", ready |-> "wait"]

Init ==
    /\ data_ready = [i \in It |-> FALSE]
    /\ data_taken = [i \in It |-> TRUE]
    /\ next_batch = [i \in It |-> None]
    /\ current_batch = [i \in It |-> None]
    /\ started = TRUE
    /\ epoch = [i \in It |-> 1]
    /\ pos = [i \in It |-> 0]
    /\ tpc = [i \in It |-> "wait"]
    /\ upc = "idle"
    /\ k = 1
    /\ turn = 1

-----------------------------------------------------------------------------
(* prefetch_func.                                                          *)

\* data_taken[i].wait(), and the test of started.
Wake(i) ==
    /\ tpc[i] = "wait" /\ data_taken[i]
    /\ tpc' = [tpc EXCEPT ![i] = IF started THEN "next" ELSE "end"]
    /\ UNCHANGED <<data_ready, data_taken, next_batch, pos>>
    /\ UNCHANGED userVars

\* iters[i].next() returns, or raises StopIteration at the end of the epoch.
Fetch(i) ==
    /\ tpc[i] = "next"
    /\ IF pos[i] < Size[i]
       THEN /\ pos' = [pos EXCEPT ![i] = @ + 1]
            /\ next_batch' = [next_batch EXCEPT ![i] = <<epoch[i], pos[i] + 1>>]
       ELSE /\ next_batch' = [next_batch EXCEPT ![i] = None]
            /\ UNCHANGED pos
    /\ tpc' = [tpc EXCEPT ![i] = Follows["next"]]
    /\ UNCHANGED <<data_ready, data_taken>>
    /\ UNCHANGED userVars

\* iters[i].next() raises anything else: the thread ends.
Fail(i) ==
    /\ i \in Faulty
    /\ tpc[i] = "next"
    /\ tpc' = [tpc EXCEPT ![i] = "end"]
    /\ UNCHANGED <<data_ready, data_taken, next_batch, pos>>
    /\ UNCHANGED userVars

ClearTaken(i) ==
    /\ tpc[i] = "clear"
    /\ data_taken' = [data_taken EXCEPT ![i] = FALSE]
    /\ tpc' = [tpc EXCEPT ![i] = Follows["clear"]]
    /\ UNCHANGED <<data_ready, next_batch, pos>>
    /\ UNCHANGED userVars

SetReady(i) ==
    /\ tpc[i] = "ready"
    /\ data_ready' = [data_ready EXCEPT ![i] = TRUE]
    /\ tpc' = [tpc EXCEPT ![i] = Follows["ready"]]
    /\ UNCHANGED <<data_taken, next_batch, pos>>
    /\ UNCHANGED userVars

-----------------------------------------------------------------------------
(* The user's thread.                                                      *)

\* for i in self.data_ready: i.wait(), in iter_next and in reset.
AllReady == \A i \in It : data_ready[i]
NextReady == AllReady
ResetAtOnce == TRUE
ResetReady == AllReady

PadOf(i) == IF next_batch[i][2] = Size[i] THEN Pad[i] ELSE 0

MismatchFirstOnly == next_batch[1] = None /\ \E i \in It : next_batch[i] # None
Mismatch ==
    IF next_batch[1] = None THEN \E i \in It : next_batch[i] # None
    ELSE \E i \in It : next_batch[i] = None \/ PadOf(i) # PadOf(1)

Call(op) ==
    /\ upc = "idle"
    /\ op = "reset" => \A i \in It : epoch[i] <= MaxResets
    /\ upc' = op
    /\ UNCHANGED <<data_ready, data_taken, current_batch, started, epoch, k, turn>>
    /\ UNCHANGED threadVars

\* iter_next returns False, or raises: "Number of entry mismatches between
\* iterators", or an AttributeError for the pad of None.
NextStops ==
    /\ upc = "next" /\ NextReady
    /\ next_batch[1] = None \/ Mismatch
    /\ upc' = "idle"
    /\ UNCHANGED <<data_ready, data_taken, current_batch, started, epoch, k, turn>>
    /\ UNCHANGED threadVars

\* iter_next joins the batches and clears data_ready; SetTaken follows.
NextTakes ==
    /\ upc = "next" /\ NextReady
    /\ next_batch[1] # None /\ ~Mismatch
    /\ current_batch' = next_batch
    /\ data_ready' = [i \in It |-> FALSE]
    /\ upc' = "set" /\ k' = 1
    /\ turn' = turn + 1
    /\ UNCHANGED <<data_taken, started, epoch>>
    /\ UNCHANGED threadVars

\* for i in self.data_taken: i.set(), the end of iter_next and of reset.
SetTaken ==
    /\ upc = "set"
    /\ data_taken' = [data_taken EXCEPT ![k] = TRUE]
    /\ IF k < N THEN k' = k + 1 /\ UNCHANGED upc
                ELSE k' = 1 /\ upc' = "idle"
    /\ UNCHANGED <<data_ready, current_batch, started, epoch, turn>>
    /\ UNCHANGED threadVars

ResetWaits ==
    /\ upc = "reset" /\ ResetReady
    /\ upc' = "resetting" /\ k' = 1
    /\ UNCHANGED <<data_ready, data_taken, current_batch, started, epoch, turn>>
    /\ UNCHANGED threadVars

\* for i in self.iters: i.reset(); after the last one data_ready is cleared.
ResetKeepsReady ==
    /\ upc = "resetting"
    /\ epoch' = [epoch EXCEPT ![k] = @ + 1]
    /\ pos' = [pos EXCEPT ![k] = 0]
    /\ IF k < N THEN k' = k + 1 /\ UNCHANGED <<upc, turn>>
                ELSE k' = 1 /\ upc' = "set" /\ turn' = 1
    /\ UNCHANGED <<data_ready, data_taken, next_batch, current_batch, started, tpc>>

ResetOne ==
    /\ upc = "resetting"
    /\ epoch' = [epoch EXCEPT ![k] = @ + 1]
    /\ pos' = [pos EXCEPT ![k] = 0]
    /\ IF k < N
       THEN /\ k' = k + 1
            /\ UNCHANGED <<upc, data_ready, turn>>
       ELSE /\ k' = 1 /\ upc' = "set"
            /\ data_ready' = [i \in It |-> FALSE]
            /\ turn' = 1
    /\ UNCHANGED <<data_taken, next_batch, current_batch, started, tpc>>

\* __del__: started is cleared, data_taken set for every thread, then join.
Del ==
    /\ upc = "idle"
    /\ started' = FALSE
    /\ upc' = "del" /\ k' = 1
    /\ UNCHANGED <<data_ready, data_taken, current_batch, epoch, turn>>
    /\ UNCHANGED threadVars

Released(j) == [data_taken EXCEPT ![j] = TRUE]

DelSet ==
    /\ upc = "del"
    /\ data_taken' = Released(k)
    /\ IF k < N THEN k' = k + 1 /\ UNCHANGED upc
                ELSE k' = 1 /\ upc' = "join"
    /\ UNCHANGED <<data_ready, current_batch, started, epoch, turn>>
    /\ UNCHANGED threadVars

Join ==
    /\ upc = "join"
    /\ \A i \in It : tpc[i] = "end"
    /\ upc' = "gone"
    /\ UNCHANGED <<data_ready, data_taken, current_batch, started, epoch, k, turn>>
    /\ UNCHANGED threadVars

Thread(i) == Wake(i) \/ Fetch(i) \/ ClearTaken(i) \/ SetReady(i)

InCall == NextStops \/ NextTakes \/ SetTaken \/ ResetWaits \/ ResetOne \/ DelSet \/ Join

Next ==
    \/ \E i \in It : Thread(i) \/ Fail(i)
    \/ InCall
    \/ \E op \in {"next", "reset"} : Call(op)
    \/ Del

(* Prefetch threads and the user's thread are operating-system threads: a  *)
(* thread that can go on does.  Calling is the user's choice.              *)
Fairness == WF_vars(InCall) /\ \A i \in It : WF_vars(Thread(i))

Spec == Init /\ [][Next]_vars /\ Fairness

-----------------------------------------------------------------------------
Batch == (Nat \X Nat)

\* Every variable has its type.
TypeOK ==
    /\ data_ready \in [It -> BOOLEAN]
    /\ data_taken \in [It -> BOOLEAN]
    /\ next_batch \in [It -> Batch]
    /\ current_batch \in [It -> Batch]
    /\ started \in BOOLEAN
    /\ epoch \in [It -> Nat]
    /\ pos \in [It -> Nat]
    /\ tpc \in [It -> {"wait", "next", "clear", "ready", "end"}]
    /\ upc \in {"idle", "next", "set", "reset", "resetting", "del", "join", "gone"}
    /\ k \in It
    /\ turn \in Nat

\* reset() never touches the wrapped iterators while a prefetch thread is in
\* next() of one of them.
NoOverlap ==
    upc = "resetting" => \A i \in It : tpc[i] # "next"

\* A batch joined from several iterators takes the same batch number of the
\* same epoch from each, whatever the speeds of their threads.
Aligned == \A i, j \in It : current_batch[i] = current_batch[j]

\* next() returns the batches of an epoch one by one from the first: none is
\* skipped, repeated or left over from before a reset.
InSequence ==
    [][current_batch' # current_batch =>
         \A i \in It : current_batch'[i] =
            <<epoch[i], IF current_batch[i][1] = epoch[i] THEN current_batch[i][2] + 1 ELSE 1>>]_vars

\* next() and reset() return unless a prefetch thread has died of an exception:
\* no event is lost between the two threads.  __del__ returns if it is called
\* while every thread has its batch ready.
CallReturns ==
    /\ (upc \in {"next", "reset", "resetting", "set"})
         ~> (upc = "idle" \/ \E i \in It : tpc[i] = "end")
    /\ (upc = "del" /\ k = 1 /\ AllReady) ~> (upc = "gone")
=============================================================================
