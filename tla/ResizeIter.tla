----------------------------- MODULE ResizeIter -----------------------------
(***************************************************************************)
(* mx.io.ResizeIter around mx.io.MXDataIter, the wrapper of the native     *)
(* iterators, around one of these: a PrefetcherIter whose thread reads     *)
(* batches ahead from a BatchLoader, which reads rows (CSVIter and the     *)
(* image iterators are built so).                                          *)
(*                                                                         *)
(* A batch is its first row and its number of rows, after the last row     *)
(* comes the first one.  The thread and the queue are dmlc::ThreadedIter's *)
(* and external.                                                           *)
(***************************************************************************)
EXTENDS Naturals, Sequences

CONSTANT ResizeConfs     \* the arguments and the bounds to choose from

\* With round_batch the loader demands as many rows as a batch has.
ASSUME ResizeIterAssumption ==
    \A c \in ResizeConfs :
      /\ c.rows \in Nat \ {0} /\ c.batch_size \in Nat \ {0}
      /\ c.round_batch \in BOOLEAN /\ (c.round_batch => c.batch_size <= c.rows)
      /\ c.capacity \in Nat \ {0}
      /\ c.size \in Nat
      /\ c.reset_internal \in BOOLEAN
      /\ c.max_resets \in Nat

VARIABLES
    rconf,               \* the arguments of the constructors, and the bounds:
                         \*   capacity: batches read ahead (kMaxPrefetchBuffer)
                         \*   max_resets: calls of ResizeIter.reset
    loader,              \* BatchLoader: rows read of its base, num_overflow_
    ahead, ended,        \* ThreadedIter: the batches read ahead, produce_end_
    first_batch,         \* MXDataIter.first_batch, or NoBatch
    cur,
    refilling,           \* iter_next has caught StopIteration and called reset
    epochs               \* history: the batches of each ResizeIter epoch

nativeVars == <<loader, ahead, ended>>
resizeVars == <<rconf, nativeVars, first_batch, cur, refilling, epochs>>

Rows == rconf.rows
LoadSize == rconf.batch_size
round_batch == rconf.round_batch
reset_internal == rconf.reset_internal

NoBatch == [row |-> 0, n |-> 0]

-----------------------------------------------------------------------------
(* BatchLoader.                                                            *)

Left(x) == Rows - x.at
LoaderHas(x) == x.overflow = 0 /\ Left(x) > 0
\* A batch that the rows do not fill is filled up with the first ones, or padded.
LoaderBatch(x) ==
    [row |-> x.at + 1, n |-> IF LoadSize <= Left(x) \/ round_batch THEN LoadSize ELSE Left(x)]
LoaderMoved(x) ==
    IF LoadSize <= Left(x) THEN [x EXCEPT !.at = x.at + LoadSize]
    ELSE IF round_batch THEN [at |-> LoadSize - Left(x), overflow |-> LoadSize - Left(x)]
    ELSE [x EXCEPT !.at = Rows]

\* BeforeFirst: when a batch has been filled up the base is rewound already.
LoaderBeforeFirst(x) ==
    IF ~round_batch \/ x.overflow = 0 THEN [x EXCEPT !.at = 0] ELSE [x EXCEPT !.overflow = 0]

-----------------------------------------------------------------------------
(* PrefetcherIter and MXDataIter.                                          *)

\* The thread reads the next batch, or finds that there is none.
Produce ==
    /\ ~ended /\ Len(ahead) < rconf.capacity
    /\ IF LoaderHas(loader)
       THEN /\ ahead' = Append(ahead, LoaderBatch(loader))
            /\ loader' = LoaderMoved(loader) /\ UNCHANGED ended
       ELSE ended' = TRUE /\ UNCHANGED <<ahead, loader>>
    /\ UNCHANGED <<first_batch, cur, refilling, epochs>>

\* BeforeFirst drops what has been read ahead.
BeforeFirst ==
    /\ loader' = LoaderBeforeFirst(loader)
    /\ ahead' = <<>> /\ ended' = FALSE

\* MXDataIter.next waits for a batch (MXHas) or for the end (MXStops), and gives
\* the batch kept from the constructor first.
MXHas == first_batch # NoBatch \/ ahead # <<>>
MXStops == first_batch = NoBatch /\ ahead = <<>> /\ ended
MXBatch == IF first_batch # NoBatch THEN first_batch ELSE Head(ahead)
MXNext ==
    /\ first_batch' = NoBatch
    /\ ahead' = IF first_batch # NoBatch THEN ahead ELSE Tail(ahead)
    /\ UNCHANGED <<loader, ended>>

MXResetKeepsFirst == BeforeFirst /\ UNCHANGED first_batch
MXReset == BeforeFirst /\ first_batch' = NoBatch

\* The constructor reads the first batch for its shape and keeps it.
MXInit ==
    LET x == [at |-> 0, overflow |-> 0] IN
    /\ loader = LoaderMoved(x) /\ first_batch = LoaderBatch(x)
    /\ ahead = <<>> /\ ended = FALSE

-----------------------------------------------------------------------------
(* ResizeIter.                                                             *)

ResizeInit ==
    /\ rconf \in ResizeConfs
    /\ MXInit
    /\ cur = 0 /\ refilling = FALSE
    /\ epochs = <<<<>>>>

\* iter_next: next(), and after StopIteration reset() and next().
IterNext ==
    /\ cur # rconf.size
    /\ MXHas /\ MXNext
    /\ epochs' = [epochs EXCEPT ![Len(epochs)] = Append(@, MXBatch)]
    /\ cur' = cur + 1
    /\ refilling' = FALSE

Refill ==
    /\ cur # rconf.size
    /\ ~refilling /\ MXStops
    /\ MXReset
    /\ refilling' = TRUE
    /\ UNCHANGED <<cur, epochs>>

ResizeReset ==
    /\ ~refilling
    /\ Len(epochs) <= rconf.max_resets
    /\ cur' = 0
    /\ IF reset_internal THEN MXReset ELSE UNCHANGED <<nativeVars, first_batch>>
    /\ epochs' = Append(epochs, <<>>)
    /\ UNCHANGED refilling

ResizeNext ==
    /\ Produce \/ IterNext \/ Refill \/ ResizeReset
    /\ UNCHANGED rconf

ResizeSpec == ResizeInit /\ [][ResizeNext]_resizeVars

-----------------------------------------------------------------------------
\* The row after a batch, and whether the batch was filled up with first rows.
RowAfter(b) == IF b.row + b.n > Rows THEN (b.row + b.n) - Rows ELSE b.row + b.n
FilledUp(b) == b.row + b.n > Rows + 1
LastOf(s) == s[Len(s)]

\* An epoch of the resized iterator walks round the rows in order without a gap
\* or a repetition: over the end of the data, with batches filled up or padded,
\* and with the batch that MXDataIter's constructor read.  Without reset_internal
\* it starts where the last epoch stopped.  With reset_internal it starts at the
\* first row; with round_batch perhaps later, but within the rows of one batch,
\* because the loader does not rewind once it has filled up a batch, given or
\* only read ahead, and right after the rows that filled up the last batch given.
Cyclic ==
    \A e \in DOMAIN epochs :
      /\ \A j \in 2 .. Len(epochs[e]) : epochs[e][j].row = RowAfter(epochs[e][j - 1])
      /\ epochs[e] # <<>> /\ reset_internal =>
           epochs[e][1].row = 1 \/ (round_batch /\ epochs[e][1].row <= LoadSize)
      /\ e > 1 /\ epochs[e] # <<>> /\ epochs[e - 1] # <<>>
           /\ (~reset_internal \/ FilledUp(LastOf(epochs[e - 1]))) =>
             epochs[e][1].row = RowAfter(LastOf(epochs[e - 1]))
=============================================================================
