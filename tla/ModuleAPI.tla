------------------------------ MODULE ModuleAPI -----------------------------
(***************************************************************************)
(* Module and BucketingModule: the copies of the parameters they keep (on  *)
(* the devices, on the host, in the kvstore), the flags that say which is  *)
(* newer, the optimizer the buckets share, and the client that drives them *)
(* through all this, BaseModule.fit, with its checkpoints.                 *)
(*                                                                         *)
(* A weight is the value it was set to with the batches applied since; the *)
(* states of an updater are the batches it has seen.  The buckets of a     *)
(* BucketingModule are bound with shared arrays: there is one copy on the  *)
(* devices and one on the host, but a Module, with its flags, per bucket.  *)
(***************************************************************************)
EXTENDS Naturals, Sequences

CONSTANTS
    Bucket, Default,   \* bucket keys; a Module is its Default bucket alone
    ModuleConfs,       \* see mconf
    Epochs, Batches,   \* bounds: epochs, and batches in one
    MaxUserCalls,      \* bound: calls outside of fit, fit itself included
    MaxCrashes,        \* bound: crashes of the process
    None

ASSUME ModuleAssumption ==
    Default \in Bucket /\ "top" \notin Bucket /\ None \notin Bucket

VARIABLES
    mconf,          \* how the module is used, one of ModuleConfs:
                    \*   bucketing: a BucketingModule; kv: as in Trainer's tconf
                    \*   sets: parameters are set when there is an optimizer
                    \*   rebinds: bind(force_rebind=True) is called
                    \*   reinits: init_optimizer(force_init=True) is called
                    \*   interrupts: fit may be left by an exception
                    \*   num_epoch: bound: the largest num_epoch of a fit
    binded, params_initialized, optimizer_initialized,
    buckets, curr_bucket,
    params_dirty,   \* _params_dirty of the BucketingModule ("top") and its Modules
    arg_params,     \* on the host
    dev_params,     \* in the executor group
    grad_array,     \* the batch whose gradient the executors hold
    opt_of,         \* the optimizer, kvstore and updater each Module refers to
    kv_params, upd_states,   \* of each of those: weights in the store, states
    preload,        \* _preload_opt_states
    resumed,        \* the checkpoint whose parameters the script passes to fit
    disk,           \* checkpoint files by epoch
                    \*   torn: history: the states file is older than the other one
    pc, epoch, nbatch, next_bucket, last_bucket,   \* fit
    given,          \* number of the last batch given to forward_backward
    values, userCalls, crashes,
    truth,          \* history: the weight and states training should have
    behind,         \* history: new executors lack what the kvstore has
    orphaned        \* history: new Modules lack the optimizer

memVars == <<binded, params_initialized, optimizer_initialized, buckets, curr_bucket,
             params_dirty, arg_params, dev_params, grad_array, opt_of, preload, resumed>>
kvsVars == <<kv_params, upd_states>>
fitVars == <<pc, epoch, nbatch, next_bucket, last_bucket, given>>
histVars == <<truth, behind, orphaned>>
moduleVars == <<mconf, memVars, kvsVars, disk, fitVars, values, userCalls, crashes, histVars>>

Top == IF mconf.bucketing THEN "top" ELSE Default
Keys == IF mconf.bucketing THEN Bucket ELSE {Default}
Value(n) == [base |-> n, ups |-> <<>>]
NoFile == [params |-> None, states |-> None, torn |-> FALSE, truth |-> None]

\* A new Module or BucketingModule object.
NewModule ==
    /\ binded = FALSE /\ params_initialized = FALSE /\ optimizer_initialized = FALSE
    /\ buckets = {} /\ curr_bucket = None
    /\ params_dirty = [b \in Bucket \union {"top"} |-> FALSE]
    /\ arg_params = None /\ dev_params = None /\ grad_array = 0
    /\ opt_of = [b \in Bucket |-> 0]
    /\ preload = None /\ resumed = None

ModuleInit ==
    /\ mconf \in ModuleConfs
    /\ NewModule
    /\ kv_params = <<>> /\ upd_states = <<>>
    /\ disk = [e \in 1 .. Epochs |-> NoFile]
    /\ pc = "idle" /\ epoch = 0 /\ nbatch = 0 /\ given = 0
    /\ next_bucket = None /\ last_bucket = None
    /\ values = 0 /\ userCalls = 0 /\ crashes = 0
    /\ truth = [weight |-> None, states |-> <<>>] /\ behind = FALSE /\ orphaned = FALSE

-----------------------------------------------------------------------------
(* Parameters.  get_params copies the devices to the host when the flag    *)
(* says they are newer; a BucketingModule lends its flag to the Module.    *)

HostParams == IF params_dirty[Top] THEN dev_params ELSE arg_params
Cleaned == [params_dirty EXCEPT ![Top] = FALSE, ![curr_bucket] = FALSE]
ModuleDirtied == [params_dirty EXCEPT ![curr_bucket] = TRUE]
Dirtied == [params_dirty EXCEPT ![Top] = TRUE, ![curr_bucket] = TRUE]

GetParams ==
    /\ arg_params' = HostParams
    /\ params_dirty' = Cleaned

\* init_params, which set_params calls unless it allows missing parameters.
InitParams(force, v, expected) ==
    IF params_initialized /\ ~force
    THEN UNCHANGED <<arg_params, dev_params, params_dirty, params_initialized, truth>>
    ELSE /\ arg_params' = v /\ dev_params' = v
         /\ params_dirty' = Cleaned
         /\ params_initialized' = TRUE
         /\ truth' = [truth EXCEPT !.weight = expected]

\* set_params(allow_missing=True) leaves the host copy alone.
SetDeviceParams(v) ==
    /\ dev_params' = v
    /\ params_dirty' = Dirtied
    /\ truth' = [truth EXCEPT !.weight = v]
    /\ UNCHANGED <<arg_params, params_initialized>>

\* What new executors hold.
BoundEmpty == None
BoundParams == IF ~params_initialized THEN None
               ELSE IF mconf.bucketing THEN HostParams ELSE arg_params

\* bind.  BucketingModule.bind gets the parameters first, even when it then has
\* nothing to do, and makes a Module that has no optimizer.  Module.bind copies
\* the host's arrays whatever the flag says: what only the old executors had is
\* lost, but for what the kvstore has too and the next update brings back.
Bind(force) ==
    LET rebind == force \/ ~binded
        lost == rebind /\ ~mconf.bucketing /\ params_initialized /\ params_dirty[Top]
        stored == mconf.kv = "weights" /\ optimizer_initialized
    IN
    /\ binded' = TRUE
    /\ buckets' = IF rebind THEN {Default} ELSE buckets
    /\ curr_bucket' = IF rebind THEN Default ELSE curr_bucket
    /\ dev_params' = IF rebind THEN BoundParams ELSE dev_params
    /\ grad_array' = IF rebind THEN 0 ELSE grad_array
    /\ IF mconf.bucketing
       THEN /\ arg_params' = IF params_initialized THEN HostParams ELSE arg_params
            /\ params_dirty' = IF rebind THEN [b \in DOMAIN params_dirty |-> FALSE]
                               ELSE IF params_initialized THEN Cleaned ELSE params_dirty
            /\ opt_of' = IF rebind THEN [b \in Bucket |-> 0] ELSE opt_of
       ELSE UNCHANGED <<arg_params, params_dirty, opt_of>>
    /\ truth' = IF lost /\ ~stored THEN [truth EXCEPT !.weight = arg_params] ELSE truth
    /\ behind' = (behind \/ (lost /\ stored))
    /\ orphaned' = (orphaned \/ (rebind /\ mconf.bucketing /\ optimizer_initialized))
    /\ UNCHANGED <<params_initialized, optimizer_initialized, preload, resumed, kvsVars>>

\* switch_bucket: a new bucket is bound with the arrays and the optimizer of
\* the default one.
NotBorrowed(b) == 0
Borrowed(b) == opt_of[Default]
Opened(b) ==
    /\ buckets' = buckets \union {b}
    /\ opt_of' = IF b \in buckets THEN opt_of ELSE [opt_of EXCEPT ![b] = Borrowed(b)]
    /\ UNCHANGED <<binded, params_initialized, optimizer_initialized, params_dirty,
                   arg_params, dev_params, preload, resumed, kvsVars>>

-----------------------------------------------------------------------------
(* The optimizer.                                                          *)

\* The states file that init_optimizer is to load is not there.
NoStates == preload # None /\ disk[preload].states = None
Raises(force) == (force \/ ~optimizer_initialized) /\ NoStates

\* init_optimizer of the current Module, whose own flag decides whether the
\* host copy is fetched before it fills the kvstore, though the BucketingModule's
\* may say that it is old; the others borrow.  Everything is done when the states
\* are loaded: if that raises, an optimizer without states stays.
InitOptimizer(force) ==
    IF optimizer_initialized /\ ~force
    THEN UNCHANGED <<optimizer_initialized, arg_params, dev_params, params_dirty, opt_of,
                     preload, kvsVars, histVars>>
    ELSE LET arg == IF params_dirty[curr_bucket] THEN dev_params ELSE arg_params
             lost == /\ mconf.kv = "weights"
                     /\ behind \/ (params_dirty[Top] /\ ~params_dirty[curr_bucket])
             none == preload = None \/ NoStates
         IN /\ optimizer_initialized' = TRUE
            /\ arg_params' = arg
            /\ params_dirty' = [params_dirty EXCEPT ![curr_bucket] = FALSE]
            /\ dev_params' = IF mconf.kv = "weights" THEN arg ELSE dev_params
            /\ kv_params' = Append(kv_params, IF mconf.kv = "weights" THEN arg ELSE None)
            /\ upd_states' = Append(upd_states, IF none THEN <<>> ELSE disk[preload].states)
            /\ opt_of' = [b \in Bucket |-> IF b \in buckets THEN Len(kv_params') ELSE opt_of[b]]
            /\ preload' = IF NoStates THEN preload ELSE None
            /\ truth' = [weight |-> IF lost THEN arg ELSE truth.weight,
                         states |-> IF none THEN <<>>
                                    ELSE IF disk[preload].torn THEN disk[preload].states
                                    ELSE disk[preload].truth.states]
            /\ behind' = FALSE /\ orphaned' = FALSE

With(v, g) == [v EXCEPT !.ups = Append(@, g)]

\* update: on the kvstore the stored weight is updated and pulled.
UpdateParams ==
    LET o == opt_of[curr_bucket]
        new == With(IF mconf.kv = "weights" THEN kv_params[o] ELSE dev_params, grad_array)
    IN /\ params_dirty' = Dirtied
       /\ dev_params' = new
       /\ kv_params' = IF mconf.kv = "weights" THEN [kv_params EXCEPT ![o] = new] ELSE kv_params
       /\ upd_states' = [upd_states EXCEPT ![o] = Append(@, grad_array)]
       /\ truth' = [weight |-> With(truth.weight, given), states |-> Append(truth.states, given)]
       /\ behind' = FALSE /\ UNCHANGED orphaned

-----------------------------------------------------------------------------
(* BaseModule.fit: bind, init_params, init_optimizer, and for every batch  *)
(* forward_backward, update and the preparation of the next one.           *)

UserCall == pc = "idle" /\ userCalls < MaxUserCalls /\ userCalls' = userCalls + 1

FitBind(force) ==
    /\ UserCall
    /\ force => binded /\ mconf.rebinds
    /\ Bind(force)
    /\ pc' = "init_params"
    /\ UNCHANGED <<mconf, disk, epoch, nbatch, next_bucket, last_bucket, given, values, crashes>>

\* The caller passes parameters, and force_init to have them replace others.
FitInitParams(force) ==
    /\ pc = "init_params"
    /\ force => mconf.sets \/ ~optimizer_initialized
    /\ IF resumed = None
       THEN values' = values + 1 /\ InitParams(force, Value(values'), Value(values'))
       ELSE /\ InitParams(force, disk[resumed].params, disk[resumed].truth.weight)
            /\ UNCHANGED values
    /\ resumed' = None
    /\ pc' = "init_optimizer"
    /\ UNCHANGED <<mconf, binded, optimizer_initialized, buckets, curr_bucket, grad_array, opt_of,
                   preload, kvsVars, disk, epoch, nbatch, next_bucket, last_bucket, given,
                   userCalls, crashes, behind, orphaned>>

FitInitOptimizer(b) ==
    /\ pc = "init_optimizer"
    /\ InitOptimizer(FALSE)
    /\ \/ /\ ~Raises(FALSE) /\ epoch < mconf.num_epoch
          /\ pc' = "forward" /\ next_bucket' = b
       \/ /\ Raises(FALSE) \/ epoch >= mconf.num_epoch
          /\ pc' = "idle" /\ next_bucket' = None
    /\ nbatch' = 0
    /\ UNCHANGED <<mconf, binded, params_initialized, buckets, curr_bucket, grad_array, resumed, disk,
                   epoch, last_bucket, given, values, userCalls, crashes>>

ForwardBackward ==
    /\ pc = "forward"
    /\ Opened(next_bucket)
    /\ curr_bucket' = next_bucket /\ last_bucket' = next_bucket
    /\ given' = given + 1 /\ grad_array' = given'
    /\ nbatch' = nbatch + 1
    /\ pc' = "update"
    /\ UNCHANGED <<mconf, disk, epoch, next_bucket, values, userCalls, crashes, histVars>>

\* The Module asserts that it has an optimizer.
FitUpdate ==
    /\ pc = "update"
    /\ opt_of[curr_bucket] # 0
    /\ UpdateParams
    /\ pc' = IF nbatch = Batches THEN "epoch_end" ELSE "prepare"
    /\ UNCHANGED <<mconf, binded, params_initialized, optimizer_initialized, buckets, curr_bucket,
                   arg_params, grad_array, opt_of, preload, resumed, disk, epoch, nbatch, next_bucket,
                   last_bucket, given, values, userCalls, crashes>>

\* It has none: BucketingModule.update has set its own flag already.
UpdateRaises ==
    /\ pc = "update"
    /\ opt_of[curr_bucket] = 0
    /\ params_dirty' = [params_dirty EXCEPT ![Top] = TRUE]
    /\ pc' = "idle" /\ nbatch' = 0 /\ next_bucket' = None /\ last_bucket' = None
    /\ UNCHANGED <<mconf, binded, params_initialized, optimizer_initialized, buckets, curr_bucket,
                   arg_params, dev_params, grad_array, opt_of, preload, resumed, kvsVars, disk, epoch,
                   given, values, userCalls, crashes, histVars>>

\* prepare switches to the bucket of the next batch and back.
StaysThere(b) ==
    /\ pc = "prepare"
    /\ Opened(b)
    /\ curr_bucket' = b
    /\ next_bucket' = b /\ pc' = "forward"
    /\ UNCHANGED <<mconf, grad_array, disk, epoch, nbatch, last_bucket, given,
                   values, userCalls, crashes, histVars>>
Prepare(b) ==
    /\ pc = "prepare"
    /\ Opened(b)
    /\ next_bucket' = b /\ pc' = "forward"
    /\ UNCHANGED <<mconf, curr_bucket, grad_array, disk, epoch, nbatch, last_bucket, given,
                   values, userCalls, crashes, histVars>>

\* get_params, and set_params with what it returned, the host's own arrays.
EpochEnd ==
    /\ pc = "epoch_end"
    /\ arg_params' = HostParams /\ dev_params' = HostParams
    /\ params_dirty' = Cleaned
    /\ epoch' = epoch + 1
    /\ pc' = "callback"
    /\ UNCHANGED <<mconf, binded, params_initialized, optimizer_initialized, buckets, curr_bucket,
                   grad_array, opt_of, preload, resumed, kvsVars, disk, nbatch, next_bucket, last_bucket,
                   given, values, userCalls, crashes, histVars>>

\* epoch_end_callback: the parameter file, then that of the optimizer states
\* (module_checkpoint; do_checkpoint writes only the first).  A states file that
\* is there stays until it is overwritten.
SavedStates == upd_states[opt_of[curr_bucket]]
SaveParams ==
    /\ pc = "callback"
    /\ GetParams
    /\ disk' = [disk EXCEPT ![epoch] =
          [params |-> HostParams, states |-> disk[epoch].states,
           torn |-> disk[epoch].states # None, truth |-> truth]]
    /\ pc' \in IF mconf.bucketing THEN {"score"} ELSE {"states", "score"}
    /\ UNCHANGED <<mconf, binded, params_initialized, optimizer_initialized, buckets, curr_bucket,
                   dev_params, grad_array, opt_of, preload, resumed, kvsVars, epoch, nbatch, next_bucket,
                   last_bucket, given, values, userCalls, crashes, histVars>>

SaveOptimizerStates ==
    /\ pc = "states"
    /\ disk' = [disk EXCEPT ![epoch].states = SavedStates, ![epoch].torn = FALSE]
    /\ pc' = "score"
    /\ UNCHANGED <<mconf, memVars, kvsVars, epoch, nbatch, next_bucket, last_bucket, given,
                   values, userCalls, crashes, histVars>>

\* score runs the buckets of the evaluation data; then the next epoch begins, or
\* this fit's num_epoch is reached.
Score(b, first, more) ==
    /\ pc \in {"callback", "score"}
    /\ Opened(b)
    /\ curr_bucket' = b
    /\ nbatch' = 0
    /\ more => epoch < mconf.num_epoch
    /\ pc' = IF more THEN "forward" ELSE "idle"
    /\ next_bucket' = IF more THEN first ELSE None
    /\ last_bucket' = None
    /\ UNCHANGED <<mconf, grad_array, disk, epoch, given, values, userCalls, crashes, histVars>>

Interrupt ==
    /\ mconf.interrupts
    /\ pc # "idle"
    /\ pc' = "idle" /\ nbatch' = 0 /\ next_bucket' = None /\ last_bucket' = None
    /\ UNCHANGED <<mconf, memVars, kvsVars, disk, epoch, given, values, userCalls, crashes, histVars>>

-----------------------------------------------------------------------------
(* Calls between two fits.                                                 *)

UserGetParams ==
    /\ UserCall
    /\ binded /\ params_initialized
    /\ GetParams
    /\ UNCHANGED <<mconf, binded, params_initialized, optimizer_initialized, buckets, curr_bucket,
                   dev_params, grad_array, opt_of, preload, resumed, kvsVars, disk, fitVars, values,
                   crashes, histVars>>

UserSetParams(missing) ==
    /\ UserCall
    /\ binded /\ params_initialized
    /\ mconf.sets \/ ~optimizer_initialized
    /\ values' = values + 1
    /\ IF missing THEN SetDeviceParams(Value(values')) ELSE InitParams(TRUE, Value(values'), Value(values'))
    /\ UNCHANGED <<mconf, binded, optimizer_initialized, buckets, curr_bucket, grad_array, opt_of,
                   preload, resumed, kvsVars, disk, fitVars, crashes, behind, orphaned>>

UserInitOptimizer ==
    /\ mconf.reinits
    /\ UserCall
    /\ binded /\ params_initialized
    /\ InitOptimizer(TRUE)
    /\ UNCHANGED <<mconf, binded, params_initialized, buckets, curr_bucket, grad_array, resumed, disk,
                   fitVars, values, crashes>>

\* The process ends and another one loads a checkpoint: Module.load, with the
\* name of the states file if asked to; a new BucketingModule is given the
\* parameters by fit.
Load(e, states) ==
    /\ crashes < MaxCrashes /\ crashes' = crashes + 1
    /\ disk[e].params # None
    /\ states => ~mconf.bucketing
    /\ binded' = FALSE /\ optimizer_initialized' = FALSE
    /\ params_initialized' = ~mconf.bucketing
    /\ buckets' = {} /\ curr_bucket' = None
    /\ params_dirty' = [b \in DOMAIN params_dirty |-> FALSE]
    /\ arg_params' = IF mconf.bucketing THEN None ELSE disk[e].params
    /\ dev_params' = None /\ grad_array' = 0
    /\ opt_of' = [b \in Bucket |-> 0]
    /\ preload' = IF states THEN e ELSE None
    /\ resumed' = IF mconf.bucketing THEN e ELSE None
    /\ epoch' = e /\ nbatch' = 0 /\ pc' = "idle" /\ next_bucket' = None /\ last_bucket' = None
    /\ truth' = [weight |-> disk[e].truth.weight, states |-> <<>>]
    /\ behind' = FALSE /\ orphaned' = FALSE
    /\ UNCHANGED <<mconf, kvsVars, disk, given, values, userCalls>>

ModuleNext ==
    \/ \E force \in BOOLEAN : FitBind(force) \/ FitInitParams(force)
    \/ \E b \in Keys : FitInitOptimizer(b) \/ Prepare(b)
    \/ ForwardBackward \/ FitUpdate \/ UpdateRaises \/ EpochEnd \/ SaveParams \/ SaveOptimizerStates
    \/ \E b, first \in Keys, more \in BOOLEAN : Score(b, first, more)
    \/ Interrupt
    \/ UserGetParams \/ UserInitOptimizer
    \/ \E missing \in BOOLEAN : UserSetParams(missing)
    \/ \E e \in 1 .. Epochs, states \in BOOLEAN : Load(e, states)

ModuleSpec == ModuleInit /\ [][ModuleNext]_moduleVars

-----------------------------------------------------------------------------
\* No update and no set_params is lost: the executors hold the value last set
\* with every batch trained since, once and in order, whatever buckets they came
\* from, after rebinding, a new optimizer, an interrupted fit or a restart from
\* a checkpoint.  The code loses changes in two places, and then no more than the
\* host's arrays lack: a Module bound anew while its flag is set takes the host's
\* arrays (until the next update, if the kvstore has the weights), and
\* init_optimizer(force_init=True) gives the kvstore those of a bucket whose own
\* flag is clean though the BucketingModule's is set.
DevicesCurrent == binded /\ params_initialized /\ ~behind => dev_params = truth.weight

\* When get_params would return the host's arrays as they are, they are up to
\* date: no change of the devices goes unmarked, in whichever bucket it is made.
HostCurrent == params_initialized /\ ~params_dirty[Top] /\ ~behind => arg_params = truth.weight

\* Every bound bucket updates with the optimizer that has seen every batch since
\* init_optimizer, or since the checkpoint whose states were loaded, unless those
\* were of an earlier writing of the checkpoint (torn).  Only the buckets of a
\* BucketingModule bound anew have no optimizer.
StatesCurrent ==
    optimizer_initialized => \A b \in buckets :
        IF orphaned THEN opt_of[b] = 0
        ELSE opt_of[b] # 0 /\ upd_states[opt_of[b]] = truth.states

\* While the callbacks of a batch run the module's current bucket, whose outputs
\* they read, is the one the batch was trained in, though the next is prepared.
CallbackSeesBatch ==
    pc = "forward" /\ last_bucket # None => curr_bucket = last_bucket
=============================================================================
