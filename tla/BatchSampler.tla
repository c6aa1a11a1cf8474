---------------------------- MODULE BatchSampler ----------------------------
(***************************************************************************)
(* The samplers of gluon.data: SequentialSampler, RandomSampler and the    *)
(* generator BatchSampler.__iter__, whose leftover _prev outlives one      *)
(* iteration when last_batch is 'rollover'.                                *)
(*                                                                         *)
(* A generator is a record: st is "new" until its first next, which is     *)
(* when the code moves _prev into the batch; rest is that batch and what   *)
(* the sampler has not yielded yet.  A step of it is a record with the     *)
(* generator and _prev after the step and the batch it yields, <<>> for    *)
(* None.                                                                   *)
(***************************************************************************)
EXTENDS Integers, Sequences

CONSTANTS
    Length,        \* len(sampler): the number of samples
    BatchSize,
    LastBatches,   \* the values of last_batch to choose from
    Shuffle        \* RandomSampler rather than SequentialSampler

ASSUME SamplerAssumption ==
    /\ Length \in Nat
    /\ BatchSize \in Nat \ {0}
    /\ LastBatches \subseteq {"keep", "discard", "rollover"}
    /\ Shuffle \in BOOLEAN

VARIABLE last_batch    \* self._last_batch

Sample == 0 .. Length - 1

\* The orders in which one iteration of the sampler may yield its samples.
Orders ==
    IF Shuffle
    THEN {f \in [1 .. Length -> Sample] : \A i, j \in 1 .. Length : f[i] = f[j] => i = j}
    ELSE {[i \in 1 .. Length |-> i - 1]}

NewGen == [st |-> "new", rest |-> <<>>]

\* The first next: batch, self._prev = self._prev, [] and iter(self._sampler).
Start(prev, order) == [st |-> "run", rest |-> prev \o order]

\* After the loop 'rollover' keeps the incomplete batch for the next iteration.
PrevDropped(prev, batch) == prev
Prev(prev, batch) ==
    IF last_batch = "rollover" /\ batch # <<>> THEN batch ELSE prev

\* After the loop 'keep' yields the incomplete batch.
LastYield(batch) == IF last_batch = "keep" THEN batch ELSE <<>>

\* len(batch) reaches batch_size before the sampler is exhausted.
Fits(gen) == BatchSize <= Len(gen.rest)

\* One next on a generator that has started.
GenStep(gen, prev) ==
    IF gen.st = "end" THEN
        [gen |-> gen, prev |-> prev, yield |-> <<>>]
    ELSE IF Fits(gen) THEN
        [gen |-> [st |-> "run", rest |-> SubSeq(gen.rest, BatchSize + 1, Len(gen.rest))],
         prev |-> prev,
         yield |-> SubSeq(gen.rest, 1, BatchSize)]
    ELSE
        [gen |-> [st |-> "end", rest |-> <<>>],
         prev |-> Prev(prev, gen.rest),
         yield |-> LastYield(gen.rest)]

\* next(generator, None), the sampler's order being chosen at the first call.
GenNext(gen, prev, order) ==
    IF gen.st = "new" THEN GenStep(Start(prev, order), <<>>)
    ELSE GenStep(gen, prev)

\* BatchSampler.__len__.
SamplerLen(prev) ==
    CASE last_batch = "keep" -> (Length + BatchSize - 1) \div BatchSize
      [] last_batch = "discard" -> Length \div BatchSize
      [] last_batch = "rollover" -> (Len(prev) + Length) \div BatchSize
=============================================================================
