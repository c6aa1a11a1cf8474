----------------------------- MODULE DataLoader -----------------------------
(***************************************************************************)
(* gluon.data.DataLoader with num_workers > 0: the iterators               *)
(* (_MultiWorkerIter) of one loader, the worker pool they share and the    *)
(* batch sampler they share.  One user thread calls __iter__ and __next__; *)
(* the workers of the pool run tasks at any speed.                         *)
(*                                                                         *)
(* A batch is the sequence of its sample indices.  What the user receives  *)
(* is such a sequence with axis = FALSE when __next__ returned batch[0],   *)
(* the one element of the batch, in place of the batch.                    *)
(***************************************************************************)
EXTENDS BatchSampler

CONSTANTS
    Worker,        \* the processes or threads of the pool
    Prefetch,      \* self._prefetch
    Fields,        \* 0: a sample is one array; n > 0: a tuple of n arrays
    Bad,           \* the samples whose dataset[i] may raise
    MaxIters       \* bound: how often the user calls iter(loader)

ASSUME LoaderAssumption ==
    /\ Prefetch \in Nat
    /\ Fields \in Nat
    /\ Bad \subseteq Sample
    /\ MaxIters \in Nat

VARIABLES
    bad,           \* the samples whose dataset[i] raises
    prev,          \* BatchSampler._prev
    it,            \* the iterators created so far
    opening,       \* turns left of the pre-fetch loop of the newest one's __init__
    done,          \* the AsyncResults that are ready: [task, ok]
    queue,         \* the pool's task queue: <<iterator, index, samples>>
    running,       \* [Worker -> task or Idle]
    pool,          \* "run", or "terminated" by DataLoader.__del__
    caller,        \* Idle, or <<iterator, index>> while __next__ is in ret.get()
    overlap,       \* history: an iterator was opened before another had stopped
    failed,        \* history: an assertion of __next__ has failed
    order,         \* history: the sampler order each iterator drew
    took,          \* history: the _prev each iterator started from
    promised,      \* history: len(loader) when the iterator was created
    delivered      \* history: what __next__ returned, per iterator

loaderVars == <<last_batch, bad, prev, it, opening, done, queue, running, pool, caller,
                overlap, failed, order, took, promised, delivered>>

Idle == <<>>

Iterators == 1 .. Len(it)

\* The user's thread is in no call.
Free == caller = Idle /\ opening = 0

-----------------------------------------------------------------------------
(* _push_next, g being the step of the generator it makes.  On a pool that *)
(* was terminated apply_async raises, after the generator has moved.       *)

\* The key under which the result is kept: sent_idx before it is incremented.
Key(x) == x.sent

Sends(g) == g.yield # <<>> /\ pool = "run"
Raises(g) == g.yield # <<>> /\ pool = "terminated"

\* The iterator after the call.
Pushed(x, g) ==
    [x EXCEPT !.gen = g.gen,
              !.sent = IF Sends(g) THEN @ + 1 ELSE @,
              !.buffer = IF Sends(g) THEN @ \union {Key(x)} ELSE @]

\* What the call changes besides the iterator.  The sampler's order is drawn in
\* the generator's first step.
PushNext(i, g, ord) ==
    LET fresh == it[i].gen.st = "new"
    IN  /\ prev' = g.prev
        /\ order' = IF fresh THEN [order EXCEPT ![i] = ord] ELSE order
        /\ took' = IF fresh THEN [took EXCEPT ![i] = prev] ELSE took
        /\ queue' = IF Sends(g) THEN Append(queue, <<i, Key(it[i]), g.yield>>) ELSE queue

-----------------------------------------------------------------------------
LoaderInit ==
    /\ last_batch \in LastBatches
    /\ bad \in {{}, Bad}
    /\ overlap = FALSE
    /\ prev = <<>>
    /\ it = <<>>
    /\ opening = 0
    /\ done = {}
    /\ queue = <<>>
    /\ running = [w \in Worker |-> Idle]
    /\ pool = "run"
    /\ caller = Idle
    /\ failed = FALSE
    /\ order = <<>>
    /\ took = <<>>
    /\ promised = <<>>
    /\ delivered = <<>>

\* DataLoader.__iter__ and _MultiWorkerIter.__init__ up to its loop.
Iter ==
    /\ Free
    /\ pool = "run"
    /\ Len(it) < MaxIters
    /\ overlap' = (overlap \/ \E i \in Iterators : ~it[i].stopped)
    /\ it' = Append(it, [gen |-> NewGen, sent |-> 0, rcvd |-> 0, buffer |-> {},
                         stopped |-> FALSE])
    /\ opening' = Prefetch
    /\ order' = Append(order, <<>>)
    /\ took' = Append(took, <<>>)
    /\ promised' = Append(promised, SamplerLen(prev))
    /\ delivered' = Append(delivered, <<>>)
    /\ UNCHANGED <<last_batch, bad, prev, done, queue, running, pool, caller, failed>>

\* One turn of the pre-fetch loop of __init__: the workers run meanwhile.
PreFetch ==
    /\ opening > 0
    /\ opening' = opening - 1
    /\ \E ord \in Orders :
         LET i == Len(it)
             g == GenNext(it[i].gen, prev, ord)
         IN  PushNext(i, g, ord) /\ it' = [it EXCEPT ![i] = Pushed(it[i], g)]
    /\ UNCHANGED <<last_batch, bad, done, running, pool, caller, overlap, failed, promised,
                   delivered>>

\* The len(batch) that __next__ looks at: default_mp_batchify_fn stacks bare
\* samples into one array and makes a list of arrays out of tuples.
BatchLen(samples) == IF Fields = 0 THEN Len(samples) ELSE Fields

\* batch = batch[0] if len(batch) == 1 else batch.  Out of a list of one array
\* this takes the array; out of an array of one sample it takes the sample.
Unwrap(samples) ==
    [samples |-> samples, axis |-> ~(Fields = 0 /\ BatchLen(samples) = 1)]

\* The key __next__ pops: batches are handed out in the order they were sent.
PopNewest(x) == CHOOSE n \in x.buffer : \A m \in x.buffer : m <= n
PopKey(x) == x.rcvd

\* __next__ up to ret.get().
Next_Call(i) ==
    /\ Free
    /\ \E ord \in Orders :
         LET g == GenNext(it[i].gen, prev, ord)
             x == Pushed(it[i], g)
         IN  /\ PushNext(i, g, ord)
             /\ \/ /\ Raises(g)
                   /\ it' = [it EXCEPT ![i] = x]
                   /\ UNCHANGED <<caller, failed>>
                \/ /\ ~Raises(g) /\ x.rcvd = x.sent
                   /\ it' = [it EXCEPT ![i] = [x EXCEPT !.stopped = (x.buffer = {})]]
                   /\ failed' = (failed \/ x.buffer # {})
                   /\ UNCHANGED caller
                \/ /\ ~Raises(g) /\ x.rcvd # x.sent /\ PopKey(x) \notin x.buffer
                   /\ it' = [it EXCEPT ![i] = x]
                   /\ failed' = TRUE
                   /\ UNCHANGED caller
                \/ /\ ~Raises(g) /\ x.rcvd # x.sent /\ PopKey(x) \in x.buffer
                   /\ it' = [it EXCEPT ![i] = [x EXCEPT !.buffer = @ \ {PopKey(x)}]]
                   /\ caller' = <<i, PopKey(x)>>
                   /\ UNCHANGED failed
    /\ UNCHANGED <<last_batch, bad, opening, done, running, pool, overlap, promised, delivered>>

\* ret.get() re-raises what the worker function raised: rcvd_idx stays.
Advance(ok) == IF ok THEN 1 ELSE 0

Next_Return ==
    /\ caller # Idle
    /\ \E r \in done :
         /\ <<r.task[1], r.task[2]>> = caller
         /\ done' = done \ {r}
         /\ it' = [it EXCEPT ![caller[1]].rcvd = @ + Advance(r.ok)]
         /\ delivered' = IF r.ok THEN [delivered EXCEPT ![caller[1]] = Append(@, Unwrap(r.task[3]))]
                         ELSE delivered
    /\ caller' = Idle
    /\ UNCHANGED <<last_batch, bad, prev, opening, queue, running, pool, overlap, failed, order,
                   took, promised>>

\* A worker of the pool takes the oldest task.
Take(w) ==
    /\ pool = "run"
    /\ running[w] = Idle
    /\ queue # <<>>
    /\ running' = [running EXCEPT ![w] = Head(queue)]
    /\ queue' = Tail(queue)
    /\ UNCHANGED <<last_batch, bad, prev, it, opening, done, pool, caller, overlap, failed,
                   order, took, promised, delivered>>

\* _worker_fn or _thread_worker_fn returns, or dataset[i] raised in it.
Outcome(task) ==
    [task |-> task, ok |-> \A k \in DOMAIN task[3] : task[3][k] \notin bad]
PostIfOk(task) == {r \in {Outcome(task)} : r.ok}
Post(task) == {Outcome(task)}

Finish(w) ==
    /\ running[w] # Idle
    /\ done' = done \union Post(running[w])
    /\ running' = [running EXCEPT ![w] = Idle]
    /\ UNCHANGED <<last_batch, bad, prev, it, opening, queue, pool, caller, overlap, failed,
                   order, took, promised, delivered>>

\* DataLoader.__del__: iterators refer to the pool, not to the loader, so the
\* user can drop the loader while an iterator is in use.
LoaderDel ==
    /\ Free
    /\ pool = "run"
    /\ pool' = "terminated"
    /\ queue' = <<>>
    /\ running' = [w \in Worker |-> Idle]
    /\ UNCHANGED <<last_batch, bad, prev, it, opening, done, caller, overlap, failed, order,
                   took, promised, delivered>>

User == Iter \/ PreFetch \/ (\E i \in Iterators : Next_Call(i)) \/ Next_Return \/ LoaderDel

LoaderNext == User \/ \E w \in Worker : Take(w) \/ Finish(w)

(* The pool's workers are processes (or threads) of their own: a free one  *)
(* takes a queued task, and a task that is being run ends.  ret.get()      *)
(* returns when its result is there.                                       *)
LoaderFairness ==
    /\ \A w \in Worker : WF_loaderVars(Take(w)) /\ WF_loaderVars(Finish(w))
    /\ WF_loaderVars(Next_Return)

LoaderSpec == LoaderInit /\ [][LoaderNext]_loaderVars /\ LoaderFairness

-----------------------------------------------------------------------------
Drawn(i) == took[i] \o order[i]

\* The n-th batch_size samples of what the iterator drew.
Portion(i, n) ==
    LET end == IF n * BatchSize <= Len(Drawn(i)) THEN n * BatchSize ELSE Len(Drawn(i))
    IN  SubSeq(Drawn(i), (n - 1) * BatchSize + 1, end)

\* However the workers overtake each other, __next__ hands out the samples in
\* the order the sampler drew them, none skipped and none twice: the n-th batch
\* of an iterator holds its n-th batch_size samples, and only the last one of
\* 'keep' may be shorter.  StopIteration ends an epoch only when everything was
\* handed out: 'keep' leaves nothing over, 'discard' and 'rollover' less than one
\* batch.  While every dataset[i] returns no assertion of __next__ fails; after
\* an exception "fatal error with _push_next, rcvd_idx missing" does, because the
\* result was popped and rcvd_idx not moved.
DeliversInOrder ==
    /\ failed => bad # {}
    /\ \A i \in Iterators :
        /\ \A n \in DOMAIN delivered[i] :
             /\ delivered[i][n].samples = Portion(i, n)
             /\ \/ n * BatchSize <= Len(Drawn(i))
                \/ last_batch = "keep" /\ (n - 1) * BatchSize < Len(Drawn(i))
        /\ it[i].stopped /\ pool = "run" =>
             /\ Len(Drawn(i)) < (Len(delivered[i]) + 1) * BatchSize
             /\ last_batch = "keep" => Len(Drawn(i)) <= Len(delivered[i]) * BatchSize

\* What an iterator drew and did not hand out.
Leftover(i) == SubSeq(Drawn(i), Len(delivered[i]) * BatchSize + 1, Len(Drawn(i)))

\* One iterator at a time: between epochs of 'rollover' every sample drawn so
\* far was handed out exactly once or waits in _prev for the next epoch, since
\* each epoch starts from what the one before it left over.  And len(loader),
\* read when an epoch starts, is the number of batches it yields, the samples
\* rolled over into it included.
EpochsAddUp ==
    ~overlap /\ pool = "run" /\ (\A i \in Iterators : it[i].stopped) =>
        /\ \A i \in Iterators : Len(delivered[i]) = promised[i]
        /\ last_batch = "rollover" =>
             \A i \in Iterators :
               /\ i = 1 => took[i] = <<>>
               /\ Leftover(i) = IF i < Len(it) THEN took[i + 1] ELSE prev

\* A __next__ that waits for its batch returns, unless the pool is terminated
\* by the loader's __del__ under the iterator's feet.
NextReturns == caller # Idle ~> (caller = Idle \/ pool = "terminated")
=============================================================================
