---------------------------- MODULE NDArrayIter -----------------------------
(***************************************************************************)
(* mx.io.NDArrayIter: batches cut from arrays by a cursor, with the three  *)
(* ways of handling an incomplete last batch, one of which carries it over *)
(* to the next epoch through _cache_data and _cache_label.                 *)
(*                                                                         *)
(* A row is the number of the sample it belongs to; data and label are the *)
(* sequences of their rows.  A batch is what next() returns.               *)
(***************************************************************************)
EXTENDS Integers, Sequences

\* The arguments of the constructor and the ways of use to choose from: records
\* of num_data, batch_size, last_batch_handle ("pad", "discard" or "roll_over"),
\* shuffle, calls ("once" or "any") and max_resets.
CONSTANT Confs

\* With 'pad' the data must fill half a batch: the code pads a batch by the rows
\* of the data once, and a batch that is still short ends the epoch.
ASSUME NDArrayIterAssumption ==
    \A c \in Confs :
      /\ c.num_data \in Nat \ {0}
      /\ c.batch_size \in Nat \ {0}
      /\ c.last_batch_handle \in {"pad", "discard", "roll_over"}
      /\ c.shuffle \in BOOLEAN
      /\ c.calls \in {"once", "any"}
      /\ c.max_resets \in Nat
      /\ c.last_batch_handle = "pad" => c.batch_size <= 2 * c.num_data

VARIABLES
    conf,                \* the attributes the constructor sets, and the bounds
    data, label,         \* self.data, self.label
    cursor,
    cache_data,          \* self._cache_data, or NoCache
    cache_label,         \* self._cache_label, or NoCache
    stopped,             \* history: the last next() raised StopIteration
    resets,              \* history: calls of reset and hard_reset
    out,                 \* history: the batches of this epoch
    read,                \* history: the rows of these batches without their pad
    drawn,               \* history: the rows of every epoch read from, in order
    given                \* history: the rows of all batches returned, in order

ndVars == <<conf, data, label, cursor, cache_data, cache_label, stopped, resets, out,
            read, drawn, given>>

num_data == conf.num_data
batch_size == conf.batch_size
last_batch_handle == conf.last_batch_handle
shuffle == conf.shuffle
\* "once": one reset after every epoch and no other call in between; "any":
\* next, reset and hard_reset at any time.
Calls == conf.calls
RestartBound == conf.max_resets    \* bound: calls of reset and hard_reset

NoCache == <<-1>>
Identity == [k \in 1 .. num_data |-> k]

\* Python's s[a:b] for 0 <= a.
Slice(s, a, b) == SubSeq(s, a + 1, IF b < Len(s) THEN b ELSE Len(s))

\* _shuffle_data permutes data and label by the same index.
Permutation ==
    IF shuffle
    THEN {f \in [1 .. num_data -> 1 .. num_data] :
            \A i, j \in 1 .. num_data : f[i] = f[j] => i = j}
    ELSE {Identity}
LabelUnshuffled(idx) == Identity
LabelIndex(idx) == idx
Permute(s, idx) == [k \in DOMAIN s |-> s[idx[k]]]

NDInit ==
    /\ conf \in Confs
    /\ \E idx \in Permutation : data = idx /\ label = idx /\ drawn = idx
    /\ cursor = -batch_size
    /\ cache_data = NoCache
    /\ cache_label = NoCache
    /\ stopped = FALSE
    /\ resets = 0
    /\ out = <<>>
    /\ read = <<>>
    /\ given = <<>>

-----------------------------------------------------------------------------
(* _batchify and getpad at a cursor c.                                     *)

\* 'roll_over': the cursor of an epoch that starts with rows of the last one.
RollsIn(c) == last_batch_handle = "roll_over" /\ -batch_size < c /\ c < 0

\* 'pad': the batch runs over the end of the data.
Pads(c) == last_batch_handle = "pad" /\ c + batch_size > num_data

Batchify(source, c, cache) ==
    IF RollsIn(c) THEN cache \o Slice(source, 0, c + batch_size)
    ELSE IF Pads(c)
         THEN Slice(source, c, num_data) \o Slice(source, 0, batch_size - num_data + c)
    ELSE Slice(source, c, c + batch_size)

GetPadNever(c) == 0
GetPad(c) ==
    IF Pads(c) THEN c + batch_size - num_data
    ELSE IF RollsIn(c) THEN -c
    ELSE 0

-----------------------------------------------------------------------------
Unpadded(b) == SubSeq(b.data, 1, Len(b.data) - b.pad)

\* next(): an incomplete batch ends the epoch and is kept for the next one.
NextBatch ==
    LET c == cursor + batch_size
        d == Batchify(data, c, cache_data)
        l == Batchify(label, c, cache_label)
        complete == Len(d) = batch_size
        batch == [data |-> d, label |-> l, pad |-> GetPad(c)]
    IN  /\ ~stopped \/ (Calls = "any" /\ cursor < num_data)
        /\ cursor' = c
        /\ stopped' = ~(c < num_data /\ complete)
        /\ IF c < num_data
           THEN /\ cache_data' = IF ~complete THEN d
                                 ELSE IF RollsIn(c) THEN NoCache ELSE cache_data
                /\ cache_label' = IF ~complete THEN l
                                  ELSE IF RollsIn(c) THEN NoCache ELSE cache_label
           ELSE UNCHANGED <<cache_data, cache_label>>
        /\ IF c < num_data /\ complete
           THEN /\ out' = Append(out, batch)
                /\ read' = read \o Unpadded(batch)
                /\ given' = given \o d
           ELSE UNCHANGED <<out, read, given>>
        /\ UNCHANGED <<conf, data, label, resets, drawn>>

\* Nothing was read since the last reset.
Unread == cursor <= -batch_size

\* What reset and hard_reset have in common.
Restart ==
    /\ resets < RestartBound
    /\ stopped \/ Calls = "any"
    /\ resets' = resets + 1
    /\ stopped' = FALSE
    /\ out' = <<>>
    /\ read' = <<>>
    /\ \E idx \in Permutation :
         /\ data' = Permute(data, idx)
         /\ label' = Permute(label, LabelIndex(idx))
         /\ drawn' = (IF Unread THEN SubSeq(drawn, 1, Len(drawn) - num_data) ELSE drawn)
                       \o Permute(data, idx)
    /\ UNCHANGED <<conf, given>>

\* The cursor after reset(): 'roll_over' keeps what the last batch lacked.
ResetCursor ==
    IF /\ last_batch_handle = "roll_over"
       /\ num_data - batch_size < cursor /\ cursor < num_data
    THEN cursor - num_data - batch_size
    ELSE -batch_size

NDReset ==
    /\ Restart
    /\ cursor' = ResetCursor
    /\ UNCHANGED <<cache_data, cache_label>>

HardReset ==
    /\ Calls = "any"
    /\ Restart
    /\ cursor' = -batch_size
    /\ cache_data' = NoCache
    /\ cache_label' = NoCache

NDNext == NextBatch \/ NDReset \/ HardReset

NDSpec == NDInit /\ [][NDNext]_ndVars

-----------------------------------------------------------------------------
\* Data and label of a batch are rows of the same samples, also when the batch
\* is joined from the cached rows of an epoch that was shuffled differently.
LabelsMatch == \A k \in DOMAIN out : out[k].data = out[k].label

\* At the end of an epoch 'pad' has returned every sample once, the last pad
\* rows of a batch not counted; 'discard' all but an incomplete batch; and
\* 'roll_over' has, over all epochs, returned every row of the data once in
\* order or holds it for the next epoch.  Two resets in a row are not covered:
\* the second one starts at row 0 and forgets the rows held.  In any order of
\* calls the assertion 'next epoch should have cached data' of _batchify holds,
\* and what is cached is exactly what the cursor says the batch lacks.
NothingLost ==
    /\ RollsIn(cursor + batch_size) /\ ~stopped =>
        /\ cache_data # NoCache /\ cache_label # NoCache
        /\ Len(cache_data) = -(cursor + batch_size)
    /\ stopped /\ Calls = "once" =>
        CASE last_batch_handle = "pad" ->
               read = data
          [] last_batch_handle = "discard" ->
               /\ read = SubSeq(data, 1, Len(read))
               /\ num_data - Len(read) < batch_size
          [] last_batch_handle = "roll_over" ->
               drawn = given \o (IF cursor < num_data THEN cache_data ELSE <<>>)
=============================================================================
