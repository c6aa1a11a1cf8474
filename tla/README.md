# Verification of the MXNet runtime

TLA+ specifications of the runtime of Apache MXNet (the tree under `src/`), the
TLC instances that check them and TLAPS proofs about them. `PROJECT.json` maps
every definition to the lines it models and lists the components, runs,
findings, hazards and theorems.

The subject is the code that *orders* things: the dependency engine, the
distributed key-value store, the data iterators and the training front ends.
The bulk of the tree is numeric kernels, bindings and examples, which have no
control state to explore; the mapped lines are about 2 % of the whole, in 26
files. Section 6 says what is left out and why.

## 1. The system

MXNet runs array computations asynchronously. A client pushes functions to the
*engine*, each with the *variables* it reads and writes, and the engine runs a
function on some worker thread as soon as nothing it depends on is outstanding.
Everything else is built on that: a *key-value store* merges gradients, on one
machine or over servers; *iterators* feed batches, with threads or processes of
their own; *Trainer* and *Module* keep copies of the parameters (on the host,
on devices, in a store) and decide which one is newer.

| Part | Modules |
|---|---|
| Dependency tracking of the engine | `ThreadedEngine`, its promise `DependencyEngine`, its proofs `ThreadedEngineProofs` |
| Client interface of the engine | `EngineClient`, its proofs `EngineClientProofs`, `EngineClientTheorems` |
| Distributed key-value store | `KVStoreDist`, its proofs `KVStoreDistProofs`, `KVStoreDistTheorems` |
| Iterators of `mx.io`, and the native ones below | `PrefetchingIter`, `NDArrayIter`, `ResizeIter`, their proofs `IteratorProofs` |
| gluon data loader | `DataLoader`, `BatchSampler`, their proofs `DataLoaderProofs` |
| gluon trainer, parameters, updaters | `Trainer` (proofs in `TrainingProofs`) |
| Module, BucketingModule, `fit` | `ModuleAPI` (proofs in `TrainingProofs`) |
| Splitting a batch over devices | `Slices` |
| Instances for TLC | `MCThreadedEngine`, `MCEngineClient`, `MCKVStoreDist`, `MCIterators`, `MCTraining` |

`EngineClient` is composed with `DependencyEngine`: it takes its actions and
adds what the code does around them. `ThreadedEngine` is proved to implement
`DependencyEngine`, so what `EngineClient` assumes of scheduling is what the code
provides. `DataLoader` is composed with `BatchSampler`, whose state its
iterators share. `MCIterators` and `MCTraining` put components that do not
interact side by side; the initial state chooses the one a behaviour exercises.

Small operators such as `ReadyToWriteAnyRead`, `MergeKeepsOld` or
`MismatchFirstOnly`, which stand right before the definition they vary and are
used nowhere else, are plausible mistakes; putting one in place of its
neighbour makes the property named in `PROJECT.json` fail.

## 2. The modules and the code

### ThreadedEngine

One action per lock scope and one per `decr_wait` outside a lock.

| Action | Code | Step |
|---|---|---|
| `Push` | `ThreadedEngine::Push`, up to the loops | a fresh block, `wait` = dependencies + 1, `++pending_` |
| `AppendReadDependency` | same name | under the variable's lock: count the read and `decr_wait`, or queue it |
| `AppendWriteDependency` | same name | queue the write; if nothing is before it, mark it triggered and `decr_wait` |
| `PushEnd` | end of `Push` | the pusher's own `decr_wait` |
| `ExecuteOprBlock(b, run)` | same name | start; `run` says whether the function is run or skipped |
| `OnComplete`, `CompleteReadDependency`, `CompleteWriteDependency` | same names | give variables up, reads first; detach the chain of reads and perhaps the next write |
| `Trigger` | the loop after the lock scope | one `decr_wait` of the detached chain, outside the lock |
| `OnCompleteEnd` | end of `OnComplete`, `OnCompleteStatic` | `--pending_`, the block is freed |

The linked list from `pending_write_` to `head_` is the sequence `queue[v]`;
`pending_write_` is `nullptr` exactly when it is empty. `granted` and `prior`
are history: which variables have let a block through and whom it found on
each. Abstracted: the functions themselves, contexts, priorities, the object
pools (an object is alive or not), profiling.

### EngineClient

Clients call `PushSync` (into a bulk), `PushAsync`, `DeleteVariable`,
`set_bulk_size`, `WaitForVar`, `WaitForAll`, and `NotifyShutdown` may come. An
exception is a cell named after the block whose function threw it; operators
and variables point to cells, and clearing a cell clears it for all of them, as
the shared `exception_ptr` does. Reading a cell, clearing it, choosing the
function, and copying the cell to an output are steps of their own because
nothing in the code makes them one. `taint`, `sees` and `thrown` are history:
the failures behind a value, behind a function's inputs, and how often each was
rethrown.

### KVStoreDist

Workers run a script: create the store, `set_optimizer`, `init`, rounds of push
and pull of every key, exit. `step[w]` is the call a worker is in and `at[w][k]`
the pushes and pulls of a key that have returned. A request travels on a channel
`link[w][s][c]`, one per worker, server and key (push and pull of a key share
`comm_buf_[key]`, so the engine orders them) and one for commands, whose sender
waits; requests of different channels overtake each other.

| Actions | Code |
|---|---|
| `SendCommand`, `CommandReturns` | `SendCommandToServers`, `_send_command_to_servers`, `set_optimizer`, `KVStore::Create` |
| `InitPush`, `InitReturns`, `Barrier` | `InitImpl`, `Barrier` |
| `Push`, `Pull`, `OperationReturns` | `Push_`, `PushDefault`, `PushRowSparse`, `PullImpl` and the completion callbacks |
| `HandleSyncMode`, `HandleController`, `HandleSetMultiPrecision`, `HandleStop` | `CommandHandle`, `CreateMultiPrecisionCopies`, `Executor` |
| `HandleInit`, `HandlePushWaits`, `HandlePushApplies` | `DataHandleDefault`, `DataHandleRowSparse`, `InitRowSparseStored`, `ApplyUpdates` |
| `HandlePull`, `EngineCopies` | `DefaultStorageResponse`, `RowSparsePullResponse`, the queued copy to the 16-bit weight |

A gradient is the pair of its worker and the number of the push; a stored value
is the sequence of updates applied to it, each the set of gradients merged into
it. `multi_precision_` has no initialiser in the class, so in `Init` it is
either value on the servers that `conf.garbage` names.

### Iterators and data loader

`PrefetchingIter` has a step for every event its two kinds of threads set, clear
or wait for; the loops over the wrapped iterators go one at a time. An iterator
may raise, which ends its thread. `NDArrayIter` follows the cursor through
`pad`, `discard` and `roll_over` with the cached rows. `ResizeIter` wraps
`MXDataIter`, with the batch its constructor reads and keeps, which wraps a
native iterator as `iter_csv.cc` builds it: a `BatchLoader` that forms batches of
rows (`LoaderHas`, `LoaderBatch`, `LoaderMoved`, `LoaderBeforeFirst`; with
`round_batch` a short one is filled up with first rows, else padded), and the
thread of a `PrefetcherIter` that reads them ahead (`Produce`), at any moment
relative to the user's calls. Only the queue between the two, `dmlc::ThreadedIter`,
is not in the tree. A batch is its first row and its number of rows. `DataLoader` has iterators
of one loader, a pool whose workers take and finish tasks in any order, a
dataset that may raise, and the sampler generator whose `_prev` outlives an
epoch. The loop in which the constructor of an iterator fills the pool is a step
per task (`PreFetch`), so that workers run while it goes on; no other call of
the user's thread comes in between.

### Trainer, ModuleAPI, Slices

One action per call of a script. In `Trainer` a gradient is a bag of
contributions, a weight the value it was set to with the updates since, so that
a lost, doubled or misplaced update shows. `summed` and `resummed` are history:
which gradient arrays hold a sum over the contexts already, and which backward
passes were in such arrays when they were summed again, after a step that raised
or after `allreduce_grads`. Covered: deferred initialisation,
`set_data`, `load`, `grad_req`, `zero_grad`, `step`, `allreduce_grads`,
`update`, `save_states`, `load_states`, with `ignore_stale_grad` and with the
three uses of a store. `ModuleAPI` is `BaseModule.fit` step by step (bind,
parameters, optimizer, batches with `prepare`, end of epoch, checkpoint, score)
over a Module or a BucketingModule with its flags per bucket; the process may
crash between any two steps and restart from a checkpoint, and `fit` may be
left by an exception. A checkpoint is two files written one after the other: the
second may be missing, in which case `init_optimizer` raises when it is to be
loaded and leaves an optimizer without states, or be that of an earlier writing
of the same epoch (`torn`). `bind(force_rebind=True)` and
`init_optimizer(force_init=True)` may come between any two fits. `truth` is what
training should have produced. Three things the code does to it are part of
`truth` or of the history, so that the properties say how far they go: a Module
bound anew takes the host's arrays even if `_params_dirty` says that they are old
(`truth` goes back to them, or, when the store has the weights, the executors are
`behind` until the next update); `init_optimizer(force_init=True)` fills the
store from the host when the current bucket's own flag is clean; and a
BucketingModule bound anew has Modules without an optimizer (`orphaned`), whose
`update` raises. `Slices`
computes `_split_input_slice` and `split_data`, with the rounding of Python 2
and Python 3, against the definition of a partition.

## 3. Runs

| Run | Instance | States | Checks |
|---|---|---|---|
| `engine_safety` | 2 variables, 3 blocks, 2 threads, every operator and deletion | 276 200 | `Exclusion`, `PushOrder`, `ChecksHold`, `NoDangling`, `IInv`, `KeepsPromise` |
| `engine_liveness` | 2 variables, 3 blocks, 1 thread | 124 849 | `EveryPushCompletes` |
| `engine_two_pushers` | 2 blocks, 2 threads, crossed operators | | `EveryPushCompletes` is violated |
| `client_exceptions` | 2 variables, 3 blocks, 1 client, functions may throw | 980 274 | `NothingSwallowed`, `NoRunOnPoison`, `ThrownOnce` |
| `client_bulk` | 1 variable, 3 blocks, 2 clients, bulking on and off | 467 428 | `TypeOK`, `WaitSeesOwnWrites` |
| `client_waits` | 1 variable, 2 blocks, 2 clients, `NotifyShutdown` | 36 754 | `WaitReturns` |
| `deletion_skipped` | functions may throw, variables may be deleted | | `DeletionRuns` is violated |
| `iterators` | see below | 208 334 | `NoOverlap`, `Aligned`, `InSequence`, `CallReturns`, `LabelsMatch`, `NothingLost`, `Cyclic`, `DeliversInOrder`, `EpochsAddUp`, `NextReturns` |
| `kvstore` | 2 workers, 2 servers, a key on both, 2 rounds, 8 configurations | 65 586 | `IInv`, `RoundsExact`, `PullSeesRound`, `AnsweredIsApplied`, `ChecksHold`, `StopsLast`, `OptimizerKept`, `AllEnd` |
| `training` | see below | 1 314 070 | `ReplicasAgree`, `StoreInSync`, `AppliedOnce`, `OptimizerInUse`, `DevicesCurrent`, `HostCurrent`, `StatesCurrent`, `CallbackSeesBatch`, `SlicesPartition` |
| `replicas_diverge` | update counts, two contexts, local updates | | `ReplicasAgree` is violated |
| `set_params_lost` | parameters set with `update_on_kvstore` | | `DevicesCurrent` is violated |

**Bounds.** In the engine `Blk` bounds the pushes. Three blocks on one variable
give a write, a chain of reads or writes behind it and a push that arrives
meanwhile; two variables give a block that is through on one and queued on the
other, and operators that cross. For exceptions three blocks give two failures
and an operator that uses both, or a failure, something computed from it and a
wait. A client only makes a call for which blocks are left, so that no thread is
stuck because of the bound. In `kvstore` two rounds let a fast worker be a round
ahead of a slow one on one server and not on the other; the proofs remove the
bounds. In `iterators`: two prefetched iterators of 3 and 2 batches, the first
of which may raise, and two resets; `NDArrayIter` in six configurations, among
them fewer samples than a batch; a `ResizeIter` of 4 batches over 2 to 5 rows in
batches of 2 or 3 that do and do not divide them, with and without `round_batch`
and `reset_internal`, up to 3 batches read ahead and three resets; two workers,
3 samples in batches of 2, and two iterators of one loader. In `training`: two
parameters, two contexts, two backward passes and four calls; epochs of two
batches, two of them and in one configuration three (`num_epoch`), two buckets,
three calls outside of `fit` and two crashes; every split of up to 8 rows over up
to 4 devices with workloads up to 3. Two parameters are enough for one to be stale
or deferred and the other not. Three epochs and two crashes are what it takes to
write a checkpoint, to restart before it, to crash between its two files when it
is written again, and to load the torn one.

**Symmetry.** Blocks, threads and variables are symmetric in the safety runs of
the engine; runs with liveness use no symmetry.

**Fairness.** In `ThreadedEngine` a thread inside `Push` goes on and a worker
takes up and finishes a dispatched block: weak fairness of both, none for
starting a push. In `EngineClient` the steps of a call under way and of a
block's worker are strongly fair, because they compete for `finished_m_`, a
mutex released after a few instructions. In `KVStoreDist` worker scripts,
handler threads and the servers' engines are weakly fair, which includes that
ps-lite delivers every request. In `PrefetchingIter` and `DataLoader` threads,
pool workers and the inside of a call are weakly fair. Making a call, throwing,
waking up spuriously and shutting down are never required.

**Deadlock** is off where a script, a user or two pushing threads may really stop
(`engine_safety`, `engine_two_pushers`, `client_waits`, `iterators`, `kvstore`,
and the training runs).

## 4. What disagrees with the documentation

- *Two pushing threads can deadlock* (`engine_two_pushers`).
  `threaded_engine.h` calls the class a thread safe version of the engine;
  `overview.md` says `Push` is not thread-safe, and the code does the latter.
- *`delete_fn` can be skipped* (`deletion_skipped`). Deleting a variable that
  carries an exception nobody waited for is itself treated as poisoned.
- *Replicas diverge* (`replicas_diverge`). The updaters of a trainer share one
  optimizer, whose update count advances once per context: with Adam and
  `update_on_kvstore=False` two replicas differ after one step.
- *Parameters that are set are lost* (`set_params_lost`). Module does not tell
  the store of parameters set after `init_optimizer`, and the next update pulls
  the old ones back.

The passing runs leave out the uses that these four runs are about, and the
following ones, in which the code is known not to keep the property:

- exception properties with two clients: both can read a cell before either
  clears it, and the exception is rethrown twice; a `WaitForVar` under way at
  `NotifyShutdown`, whose function is skipped, does not return;
- two resets in a row of an `NDArrayIter` with `roll_over` forget the rows held;
- `PrefetchingIter.__del__` while a thread is in `next()`, and a `next()` that
  needs a thread that has died, wait for ever;
- `Parameter.initialize(force_reinit=True)` once a store has the weights;
- `ignore_stale_grad` with `update_on_kvstore`, which is not looked at there;
- a trainer of several contexts without a store, which sums no gradients, and a
  batch that leaves out a context while the trainer updates the replicas itself
  and ignores stale gradients;
- `NDArrayIter` with `pad` and fewer samples than half a batch.

Other weaknesses are part of the models, and the properties say how much they
cost (section 2 names the history that records it):

- `DataIter.reset` is documented to go to the beginning of the data; with
  `round_batch` a native iterator that has filled up a batch, given to the user
  or only read ahead, does not rewind. Which of the two happens is a race between
  the user's `reset` and the reading thread. `Cyclic`: the next epoch starts in
  the first batch's rows, and right behind the filled up batch if it was given;
- a gradient summed in place by the store is summed again when the step raises
  and is repeated, or after `allreduce_grads`: `AppliedOnce` says that nothing
  else counts a contribution twice, and that it stays in one update;
- `Module.bind(force_rebind=True)` with `_params_dirty` set, and
  `init_optimizer(force_init=True)` in a bucket whose own flag is clean, lose
  updates: `DevicesCurrent` and `HostCurrent` say that only they do;
- a BucketingModule bound anew has no optimizer while `optimizer_initialized`
  stays set, and a checkpoint can pair parameters with older states or none:
  `StatesCurrent` says that the buckets then agree, and that no batch trained
  since is missing from the states.

## 5. Proofs

The facts about the sizes of finite sets that `ThreadedEngineProofs`,
`EngineClientTheorems` and `KVStoreDistTheorems` use are collected in a
definition `Counting`, which their lemmas name as an assumption. Each of the
three modules proves it near its end (`Counted`, from the library's
`FiniteSetTheorems`), and the theorems after it cite `Counted`: none of them
assumes anything of that kind.

### The engine

For any sets `Var`, `Blk`, `Opr` and `Thread` with: an operator names finitely
many variables, none both as read and as written (`CheckDuplicate`), a deletion
writes exactly its variable, and `None` is neither a block nor an operator.

| Theorem | Statement |
|---|---|
| `Invariance`, `TypeCorrect` | `Spec => []IInv`, `Spec => []TypeOK` |
| `MutualExclusion`, `SerialOrder` | `Spec => []Exclusion`, `Spec => []PushOrder` |
| `AssertionsHold`, `NoDanglingPointer` | `Spec => []ChecksHold`, `Spec => []NoDangling` |
| `Dispatch` | `Spec => DispatchedOnce` |
| `Refinement` | `Spec => KeepsPromise` |

`IInv` adds what the code relies on without saying it: `wait` is the number of
variables that have not let the block through or still owe it a trigger, plus
one while it is being pushed (`WaitInv`); a queue holds exactly the accesses
that arrived and were not let through, and at its head the write that was
(`QueueInv`); `num_pending_reads_` counts the reads let through, or marks a
triggered write (`CountInv`); a trigger is owed by one completing block only
(`TrigInv`); the deletion is the last on its variable (`DeleteInv`); queues are
in order of arrival and whoever is through has no conflicting predecessor left
(`OrderInv`). Two frame lemmas carry the conjuncts about other blocks and
variables; `Arriving` treats the two appends and `LetThrough` the completions
together. For the refinement each action is shown to be a step of
`DependencyEngine` or to leave its variables unchanged.

### The engine's clients

For any sets `Var`, `Blk` and operators over `Var`, any bulk sizes and any number
of calls; whether a variable with a write due is waited for, a bulk is flushed
early or late, and which block overtakes which is left open as in the model.

| Theorem | Clients | Statement |
|---|---|---|
| `ClientInvariance`, `TypeCorrect` | any number | `Spec => []ClientInv`, `Spec => []TypeOK` |
| `WaitsSeeOwnWrites` | any number | `Spec => WaitSeesOwnWrites` |
| `ExceptionInvariance` | one, no shutdown | `Spec => []FailInv` |
| `NothingIsSwallowed` | one, no shutdown | `Spec => []NothingSwallowed` |
| `NoFunctionRunsOnPoison` | one, no shutdown | `Spec => []NoRunOnPoison` |
| `RethrownOnce` | one, no shutdown | `Spec => []ThrownOnce` |

`ClientInv` says that conflicting blocks that hold a variable at once do not
exist, because the later one has the earlier one in `ahead` (`ScheduleInv`); how
far a block's code is with what it holds (`ExecInv`); what a call still has to
push (`CallInv`, `PushInv`); that `pending_` counts the blocks that have not
finished (`PendingInv`); and, for a client in `WaitForVar`, that every write it
pushed before is ahead of the block it waits for, or done when `done` is set
(`WaitInv`). The last one needs the bulk to be empty during a wait, which is what
`BulkFlush` at the head of `WaitForVar` provides.

`FailInv` follows the cells: a live cell on a variable is one of the failures
behind its value, and without a live one some failure behind it has been
rethrown, if there is any (`VarFails`); the same for a started block and what it
saw, and a live cell on a variable that it holds is among those (`BlkFails`); a
client that has read a cell and not emptied it still finds it there
(`Clearing`). The last conjunct is false with two clients, who may both read a
cell before either empties it, and `BlkFails` is false after `NotifyShutdown`,
when `ExecuteOprBlock` leaves out `OnStart`: hence the two hypotheses. They are
those of `client_exceptions`.

### The distributed store

For any finite set of workers, any servers and keys, any assignment of a
nonempty set of servers to each key, any number of rounds, and any
configuration in which an asynchronous store has an updater.

| Theorem | Statement |
|---|---|
| `Invariance` | `Spec => []IInv` |
| `RoundsAreExact` | `Spec => []RoundsExact` |
| `PullsSeeRounds` | `Spec => []PullSeesRound` |
| `AnsweredPushesAreApplied` | `Spec => []AnsweredIsApplied` |
| `ChecksNeverFail` | `Spec => []ChecksHold` |
| `StopComesLast` | `Spec => []StopsLast` |
| `OptimizersAreKept` | `Spec => OptimizerKept` |

The server counts requests and never looks at their senders; that a round is
complete exactly when everybody is in it needs all of `IInv`: barriers separate
`init`, training and exit (`BarrierInv`); a command under way is its worker's
current call (`CommandInv`), so the servers have their modes before training
(`ModeInv`); a request goes to all shards of its key, and pushes and pulls take
turns (`LinkInv`, `CountInv`); `update_buf_` lists each waiting worker once with
their gradients merged (`MergeInv`); the 16-bit copy lags only behind a
32-bit one (`StoreInv`); and on every shard all workers have the same number of
pushes answered, which is the number of rounds applied (`RoundInv`), or, in
asynchronous mode, an answered push is in exactly one update (`AsyncInv`).

`KVStoreDistProofs` has the frame lemmas, the workers' steps and the servers'
other than a push during training; `KVStoreDistTheorems` has that push and the
theorems. Its central step is `Queue`: a list of distinct workers as long as the
set of workers contains all of them, by counting an injection. `RoundMerged`
then shows that what was merged is the round, and `RoundApplied` that the stored
value has it at its place.

### PrefetchingIter

For any number of iterators, any lengths and pads, any faulty ones and any
number of resets: `PrefetchingIterTyped`, `ResetSafe` (`NoOverlap`),
`JoinsAligned` (`Aligned`), `ReturnsInSequence` (`InSequence`), all from
`PrefetchingIterInvariance`. The invariant ties each thread's place to its two events (`Handshake`), the user's
place to those of all threads (`Phases`), and the batches fetched to the turn
(`Contents`, `Current`).

### NDArrayIter, ResizeIter

For any number of samples and batch size, every shuffle and any number of calls;
with `pad` a batch is at most twice the data, because `_batchify` pads only once.

| Theorem | Statement |
|---|---|
| `NDArrayIterInvariance` | `NDSpec => []NDInv` |
| `BatchesMatchLabels` | `NDSpec => []LabelsMatch` |
| `NoRowLost` | `NDSpec => []NothingLost` |
| `ResizeIterInvariance` | `ResizeSpec => []ResizeInv` |
| `WalksRound` | `ResizeSpec => []Cyclic` |

`reset` decides from the cursor alone whether rows are held. `NDCursor` says
where the cursor can be and `NDHeld` that it then tells how many rows the cache
has, in any order of calls: a negative cursor beyond one batch after `reset`, a
cursor within the last batch before it. `NDOnce` adds, for one reset per epoch,
what has been read in the middle of an epoch: a prefix of the data (`pad`,
`discard`), or everything drawn over all epochs up to the cursor (`roll_over`).
`NothingLost` speaks of the ends of epochs only and is not inductive without it.
The lemmas before it say how the parts of a sequence join.

For `ResizeIter`: any number of rows, batch size, length of the queue, size and
number of resets, with and without `round_batch` and `reset_internal`; with
`round_batch` a batch has at most as many rows as there are, which `BatchLoader`
demands with a `CHECK`. `ResizeInv` adds to `Cyclic` that the batches read ahead
follow each other and end where the loader stands (`Chained`), and where the batch
to come is (`Standing`): after the batch given last, whether it is the one kept
from the constructor, the oldest one read ahead or one not read yet; and when the
batch given last was filled up, that nothing was read behind it and the loader
will not rewind.

### DataLoader

For any number of samples, batch size, workers, iterators of one loader and
pre-fetch depth, each `last_batch` mode, shuffled or not, and any samples that
raise.

| Theorem | Statement |
|---|---|
| `DataLoaderInvariance` | `LoaderSpec => []LoaderInv` |
| `HandsOutInOrder` | `LoaderSpec => []DeliversInOrder` |
| `EpochsAreComplete` | `LoaderSpec => []EpochsAddUp` |

The batches of an iterator are the cuts, `BatchSize` long, of what its generator
drew: the samples taken from `_prev` and then the sampler's. `Generators` says
that a generator that has yielded n batches holds what comes after n cuts, and
that one that has ended has yielded all of them; `TasksHold` that a task in the
queue, with a worker or done holds the cut that its number names; `HandedOut` that
the results in the buffer are sent and not received, that a waiting `__next__`
waits for the oldest of these, and that the batches delivered are the first cuts;
`RollsOver` that what an iterator leaves over is in `_prev` until the next one
takes it. Multiples of `BatchSize`
are kept behind the operator `At`, whose two laws are proved once, because the
provers are weak in products.

### Trainer and Module

For any parameters, contexts, buckets, epochs, batches, calls and crashes.
`Supported` is all that is asked of the use of a module: no parameters are set
while the store has the weights (run `set_params_lost`). Rebinding, forced
optimizers, interruptions and torn checkpoints are all allowed. `TrainerSupported`
asks of a trainer that several contexts have a store, that replicas the trainer
updates itself all see every batch and have no optimizer with update counts (run
`replicas_diverge`), and that no parameter is initialised anew while the store has
the weights. The actions of `Trainer` leave out what section 4 lists for it.

| Theorem | Statement |
|---|---|
| `ModuleInvariant` | `ModuleSpec /\ Supported => []ModuleIInv` |
| `ExecutorsHoldTheTruth` | `... => []DevicesCurrent` |
| `CleanFlagMeansCurrent` | `... => []HostCurrent` |
| `BucketsShareTheOptimizer` | `... => []StatesCurrent` |
| `CallbacksSeeTheirBatch` | `... => []CallbackSeesBatch` |
| `TrainerInvariant` | `TrainerSpec /\ TrainerSupported => []TrainerIInv` |
| `ReplicasNeverDiverge` | `... => []ReplicasAgree` |
| `StoreHoldsTheWeights` | `... => []StoreInSync` |
| `UpdatersUseTheOptimizer` | `... => []OptimizerInUse` |

`ModuleIInv` adds to `DevicesCurrent` and `HostCurrent` how far a module is made
ready at each place of `fit`, and that the executors are not behind the store from
an update to the checkpoint (`FitInv`); that a checkpoint's parameter file holds
what training had when it was written and its states file too unless it is torn
(`FilesInv`); and that all bound buckets use one optimizer, whose store has the
weight training should have even while the executors are behind, or, orphaned,
none (`StoresInv`). `TrainerIInv` adds that the marks of fresh
gradients are the same on all contexts, and the gradients too once they are
summed (`GradsInv`), that the store is filled for all parameters at once
(`KVStoreInv`), and which optimizer object each updater has (`UpdatersInv`).

### Only model-checked

- Liveness (`EveryPushCompletes`, `WaitReturns`, `CallReturns`, `NextReturns`,
  `AllEnd`), which is out of the prover's reach.
- `AppliedOnce` of `Trainer`: it says what a sum over contexts is, a fold, and
  needs an induction over it.
- `SlicesPartition`: a partition by workloads is a running sum, again an
  induction. `Slices` is a pure function, checked on every input of its bound.

## 6. Not modelled

- *Engine*: persistent operators, the destructor's `kill_`, the queues between
  dispatch and execution (any order is allowed), `Start` and `Stop` around a
  fork, the naive engine, which has no interleaving.
- *Distributed store*: the rows of a row-sparse value one by one, compressed
  pushes beyond their initialisation, profiler commands. Recovery of a node is
  decided inside ps-lite, which is not in the tree, as are lost and repeated
  messages, which ps-lite hides.
- *Local store*: the reduction over devices (staging buffers, trees, NCCL) is
  arithmetic and copies ordered by the engine; gradient compression is a kernel.
- *Iterators*: inside the native iterators `dmlc::ThreadedIter`, which is not in
  the tree, the recycling of buffers, `test_skipread`, decoding and augmentation;
  of `MXDataIter`, `debug_skip_load` and direct calls of `iter_next`.
- *Data loader*: conversion to shared memory, pinning, `num_workers = 0`.
- *Front ends*: `reset_ctx`, `cast`, row-sparse parameters, `SequentialModule`,
  `PythonModule`, monitors, the old FeedForward.
- *Storage managers, resources, object pools*: free lists behind one mutex, most
  of which need a GPU.
- *Executor, autograd, cached operators*: passes over graphs of NNVM, which is
  not in the tree.
- *Operators, bindings, profiler, examples*: kernels, conversions and output.
