---------------------------- MODULE TrainingProofs --------------------------
(***************************************************************************)
(* Proofs about ModuleAPI and Trainer, for any buckets, contexts and       *)
(* parameters, any number of epochs, batches, calls and crashes.           *)
(***************************************************************************)
EXTENDS ModuleAPI, Trainer, TLAPS

-----------------------------------------------------------------------------
(* Module and BucketingModule.                                             *)

\* No parameters are set behind a kvstore that has the weights: Module.set_params
\* and init_params do not tell it.  The way a module is used is otherwise free.
Supported == mconf.kv = "weights" => ~mconf.sets

Weight == [base : Nat, ups : Seq(Nat)]
Truths == [weight : Weight \union {None}, states : Seq(Nat)]
File == [params : Weight \union {None}, states : Seq(Nat) \union {None}, torn : BOOLEAN,
         truth : Truths \union {None}]
Outside == {"idle", "init_params", "init_optimizer"}

ModuleTypeOK ==
    /\ binded \in BOOLEAN /\ params_initialized \in BOOLEAN /\ optimizer_initialized \in BOOLEAN
    /\ buckets \subseteq Keys
    /\ params_dirty \in [Bucket \union {"top"} -> BOOLEAN]
    /\ opt_of \in [Bucket -> Nat]
    /\ arg_params \in Weight \union {None} /\ dev_params \in Weight \union {None}
    /\ kv_params \in Seq(Weight \union {None}) /\ upd_states \in Seq(Seq(Nat))
    /\ Len(kv_params) = Len(upd_states)
    /\ grad_array \in Nat /\ given \in Nat /\ values \in Nat
    /\ disk \in [1 .. Epochs -> File]
    /\ truth \in Truths /\ behind \in BOOLEAN /\ orphaned \in BOOLEAN

\* How far a module is made ready at each place of fit.
FitInv ==
    /\ pc # "idle" => binded
    /\ pc \notin {"idle", "init_params"} => params_initialized /\ resumed = None
    /\ pc \notin Outside => optimizer_initialized
    /\ optimizer_initialized => binded /\ params_initialized
    /\ params_initialized => truth.weight \in Weight /\ arg_params \in Weight
    /\ binded /\ params_initialized => dev_params \in Weight
    /\ binded => curr_bucket \in buckets /\ Default \in buckets
    /\ pc = "forward" => next_bucket \in Keys
    /\ pc = "update" => grad_array = given
    /\ pc \in {"epoch_end", "callback", "states"} => ~behind
    /\ pc = "states" => ~mconf.bucketing
    /\ pc \in Outside => last_bucket = None
    /\ pc \in {"forward", "update", "prepare"} /\ last_bucket # None => curr_bucket = last_bucket
    /\ ~binded => ~params_dirty[Top]

\* A checkpoint holds the parameters that training had when they were written,
\* and the states it had then unless these are of an earlier writing (torn).
FileInv(f) ==
    /\ f.params # None => f.truth \in Truths /\ f.params = f.truth.weight /\ f.params \in Weight
    /\ f.states # None /\ ~f.torn => f.truth \in Truths /\ f.states = f.truth.states

FilesInv ==
    /\ \A e \in 1 .. Epochs :
         FileInv(disk[e]) /\ (pc = "states" /\ e = epoch => disk[e].truth = truth)
    /\ preload # None => preload \in 1 .. Epochs
    /\ resumed # None => resumed \in 1 .. Epochs /\ disk[resumed].params # None

\* The buckets share one optimizer, whose store and states are up to date even
\* when the executors are behind; or none of them has one.
StoresInv ==
    /\ optimizer_initialized /\ ~orphaned =>
        \A b \in buckets :
            /\ opt_of[b] = opt_of[Default] /\ opt_of[b] \in 1 .. Len(upd_states)
            /\ upd_states[opt_of[b]] = truth.states
            /\ mconf.kv = "weights" => kv_params[opt_of[b]] = truth.weight
    /\ orphaned => mconf.bucketing /\ \A b \in buckets : opt_of[b] = 0
    /\ behind => mconf.kv = "weights" /\ optimizer_initialized /\ ~mconf.bucketing

ModuleIInv ==
    /\ Supported /\ ModuleTypeOK /\ FitInv /\ FilesInv /\ StoresInv
    /\ DevicesCurrent /\ HostCurrent

\* The keys of the flags, and the current bucket.
LEMMA FlagKeys ==
    ASSUME ModuleIInv
    PROVE  /\ Top \in Bucket \union {"top"} /\ Keys \subseteq Bucket /\ Default \in Keys
           /\ binded => curr_bucket \in Bucket /\ curr_bucket \in Keys
           /\ ~mconf.bucketing /\ binded => curr_bucket = Top
           /\ mconf.bucketing => Top \notin Bucket
BY Zenon, ModuleAssumption DEF ModuleIInv, FitInv, ModuleTypeOK, Top, Keys

\* What Cleaned and Dirtied do to the flags.
LEMMA Flags ==
    ASSUME ModuleIInv, binded
    PROVE  /\ Cleaned \in [Bucket \union {"top"} -> BOOLEAN] /\ ~Cleaned[Top] /\ ~Cleaned[curr_bucket]
           /\ Dirtied \in [Bucket \union {"top"} -> BOOLEAN] /\ Dirtied[Top] /\ Dirtied[curr_bucket]
<1>1. /\ params_dirty \in [Bucket \union {"top"} -> BOOLEAN]
      /\ Top \in Bucket \union {"top"} /\ curr_bucket \in Bucket \union {"top"}
  BY Zenon, FlagKeys DEF ModuleIInv, ModuleTypeOK
<1> QED
  BY ZenonT(20), <1>1 DEF Cleaned, Dirtied

\* get_params returns the parameters that training should have, unless the
\* executors lack what the kvstore has.
LEMMA HostIsCurrent ==
    ASSUME ModuleIInv, params_initialized
    PROVE  HostParams \in Weight /\ (~behind => HostParams = truth.weight)
BY Zenon DEF ModuleIInv, DevicesCurrent, HostCurrent, HostParams, FitInv

\* Switching to a bucket keeps the optimizers.
LEMMA Opening ==
    ASSUME ModuleIInv, NEW b \in Keys, Opened(b), UNCHANGED <<mconf, truth, behind, orphaned>>, binded
    PROVE  /\ buckets' \subseteq Keys /\ b \in buckets' /\ buckets \subseteq buckets'
           /\ opt_of' \in [Bucket -> Nat] /\ StoresInv'
<1>1. b \in Bucket /\ Default \in buckets /\ Default \in Bucket /\ buckets \subseteq Bucket
  BY Zenon, FlagKeys DEF ModuleIInv, FitInv, ModuleTypeOK
<1>2. buckets' = buckets \union {b} /\ buckets \subseteq Keys
  BY Zenon DEF Opened, ModuleIInv, ModuleTypeOK
<1>3. opt_of \in [Bucket -> Nat] /\ opt_of[Default] \in Nat
  BY Zenon, <1>1 DEF ModuleIInv, ModuleTypeOK
<1>4. opt_of' \in [Bucket -> Nat]
  BY Zenon, <1>3 DEF Opened, Borrowed
<1>5. \A c \in Bucket : opt_of'[c] = IF c = b /\ b \notin buckets THEN opt_of[Default] ELSE opt_of[c]
  BY Zenon, <1>1, <1>3 DEF Opened, Borrowed
<1>6. opt_of'[Default] = opt_of[Default]
  BY Zenon, <1>1, <1>5
<1>7. ASSUME NEW c \in buckets'
      PROVE  opt_of'[c] = opt_of[Default] \/ (c \in buckets /\ opt_of'[c] = opt_of[c])
  BY Zenon, <1>1, <1>2, <1>5
<1>8. /\ UNCHANGED <<optimizer_initialized, kv_params, upd_states>> /\ StoresInv
  BY Zenon DEF Opened, kvsVars, ModuleIInv
<1>9. ASSUME optimizer_initialized, ~orphaned, NEW c \in buckets'
      PROVE  /\ opt_of'[c] = opt_of'[Default] /\ opt_of'[c] \in 1 .. Len(upd_states)
             /\ upd_states[opt_of'[c]] = truth.states
             /\ mconf.kv = "weights" => kv_params[opt_of'[c]] = truth.weight
  BY Zenon, <1>1, <1>6, <1>7, <1>8, <1>9 DEF StoresInv
<1>10. ASSUME orphaned, NEW c \in buckets' PROVE opt_of'[c] = 0
  BY Zenon, <1>1, <1>7, <1>8, <1>10 DEF StoresInv
<1>11. StoresInv'
  BY Zenon, <1>8, <1>9, <1>10 DEF StoresInv
<1> QED
  BY Zenon, <1>2, <1>4, <1>11

\* fit binds the module, which may have been bound before.
LEMMA FitBindInv ==
    ASSUME ModuleIInv, NEW force \in BOOLEAN, FitBind(force)
    PROVE  ModuleIInv'
<1>1. /\ pc = "idle" /\ pc' = "init_params" /\ binded' = TRUE
      /\ UNCHANGED <<mconf, disk, epoch, next_bucket, last_bucket, given, values,
                     params_initialized, optimizer_initialized, preload, resumed,
                     kv_params, upd_states>>
      /\ Top' = Top /\ Keys' = Keys
  BY Zenon DEF FitBind, UserCall, Bind, Top, Keys, kvsVars
<1>2. ModuleTypeOK /\ FitInv /\ FilesInv /\ StoresInv /\ Supported
      /\ DevicesCurrent /\ HostCurrent
  BY Zenon DEF ModuleIInv
<1>3. Default \in Bucket /\ Default \in Keys /\ Keys \subseteq Bucket /\ Top \in Bucket \union {"top"}
  BY Zenon, FlagKeys, ModuleAssumption
<1>4. params_initialized => HostParams \in Weight /\ (~behind => HostParams = truth.weight)
  BY Zenon, HostIsCurrent
<1>5. CASE ~(force \/ ~binded)
  <2>1. /\ binded /\ binded = TRUE
        /\ UNCHANGED <<buckets, curr_bucket, dev_params, grad_array, opt_of, truth>>
        /\ behind' = behind /\ orphaned' = orphaned
        /\ mconf.bucketing /\ params_initialized => arg_params' = HostParams /\ params_dirty' = Cleaned
        /\ ~(mconf.bucketing /\ params_initialized) => UNCHANGED <<arg_params, params_dirty>>
    BY Zenon, <1>2, <1>5 DEF FitBind, Bind, ModuleTypeOK
  <2>2. params_dirty' \in [Bucket \union {"top"} -> BOOLEAN] /\ arg_params' \in Weight \union {None}
    BY Zenon, <1>2, <1>4, <2>1, Flags DEF ModuleTypeOK
  <2>3. ModuleTypeOK'
    BY Zenon, <1>1, <1>2, <2>1, <2>2 DEF ModuleTypeOK
  <2>4. FitInv' /\ FilesInv'
    BY Zenon, <1>1, <1>2, <1>4, <2>1 DEF FitInv, FilesInv, FileInv, Outside
  <2>5. HostCurrent' /\ DevicesCurrent'
    BY Zenon, <1>1, <1>2, <1>4, <2>1 DEF HostCurrent, DevicesCurrent
  <2>6. StoresInv' /\ Supported'
    BY Zenon, <1>1, <1>2, <2>1 DEF StoresInv, Supported
  <2> QED
    BY Zenon, <2>3, <2>4, <2>5, <2>6 DEF ModuleIInv
<1>6. CASE (force \/ ~binded) /\ mconf.bucketing
  <2>1. /\ buckets' = {Default} /\ curr_bucket' = Default /\ dev_params' = BoundParams /\ grad_array' = 0
        /\ arg_params' = IF params_initialized THEN HostParams ELSE arg_params
        /\ params_dirty' = [b \in DOMAIN params_dirty |-> FALSE]
        /\ opt_of' = [b \in Bucket |-> 0]
        /\ truth' = truth /\ behind' = behind
        /\ orphaned' = (orphaned \/ optimizer_initialized) /\ orphaned' \in BOOLEAN
    BY Zenon, <1>2, <1>6 DEF FitBind, Bind, ModuleTypeOK
  <2>2. ~behind
    BY Zenon, <1>2, <1>6 DEF StoresInv
  <2>3. /\ params_initialized => /\ dev_params' = truth.weight /\ dev_params' \in Weight
                                 /\ arg_params' = truth.weight /\ arg_params' \in Weight
        /\ dev_params' \in Weight \union {None} /\ arg_params' \in Weight \union {None}
    BY Zenon, <1>2, <1>4, <1>6, <2>1, <2>2 DEF BoundParams, ModuleTypeOK
  <2>4. /\ params_dirty' \in [Bucket \union {"top"} -> BOOLEAN] /\ opt_of' \in [Bucket -> Nat]
        /\ ~params_dirty'[Top] /\ opt_of'[Default] = 0
    <3>1. params_dirty \in [Bucket \union {"top"} -> BOOLEAN] /\ 0 \in Nat
      BY <1>2 DEF ModuleTypeOK
    <3> QED
      BY Zenon, <1>3, <2>1, <3>1
  <2>5. ModuleTypeOK'
    <3>1. 0 \in Nat
      OBVIOUS
    <3> QED
      BY Zenon, <1>1, <1>2, <1>3, <2>1, <2>3, <2>4, <3>1 DEF ModuleTypeOK
  <2>6. FitInv' /\ FilesInv'
    BY Zenon, <1>1, <1>2, <2>1, <2>3 DEF FitInv, FilesInv, FileInv, Outside
  <2>7. HostCurrent' /\ DevicesCurrent' /\ Supported'
    BY Zenon, <1>1, <1>2, <2>1, <2>3, <2>4 DEF HostCurrent, DevicesCurrent, Supported
  <2>8. StoresInv'
    BY Zenon, <1>1, <1>2, <1>6, <2>1, <2>2, <2>4 DEF StoresInv
  <2> QED
    BY Zenon, <2>5, <2>6, <2>7, <2>8 DEF ModuleIInv
<1>7. CASE (force \/ ~binded) /\ ~mconf.bucketing
  <2> DEFINE lost == params_initialized /\ params_dirty[Top]
             stored == mconf.kv = "weights" /\ optimizer_initialized
  <2>1. /\ buckets' = {Default} /\ curr_bucket' = Default /\ grad_array' = 0
        /\ dev_params' = IF params_initialized THEN arg_params ELSE None
        /\ UNCHANGED <<arg_params, params_dirty, opt_of>>
        /\ truth' = IF lost /\ ~stored THEN [truth EXCEPT !.weight = arg_params] ELSE truth
        /\ behind' = (behind \/ (lost /\ stored)) /\ behind' \in BOOLEAN
        /\ orphaned' = orphaned
    BY Zenon, <1>2, <1>7 DEF FitBind, Bind, BoundParams, ModuleTypeOK
  <2>2. /\ truth' \in Truths /\ truth'.states = truth.states
        /\ params_initialized => truth'.weight \in Weight
        /\ lost /\ ~stored => truth'.weight = arg_params
    <3>1. truth \in Truths /\ (params_initialized => arg_params \in Weight /\ truth.weight \in Weight)
      BY Zenon, <1>2 DEF ModuleTypeOK, FitInv
    <3>2. CASE lost /\ ~stored
      <4>1. truth' = [truth EXCEPT !.weight = arg_params] /\ arg_params \in Weight
        BY Zenon, <2>1, <3>1, <3>2
      <4> QED
        BY ZenonT(20), <3>1, <4>1 DEF Truths
    <3>3. CASE ~(lost /\ ~stored)
      BY Zenon, <2>1, <3>1, <3>3
    <3> QED
      BY Zenon, <3>2, <3>3
  <2>3. /\ params_initialized => dev_params' = arg_params /\ arg_params \in Weight
        /\ dev_params' \in Weight \union {None} /\ buckets' \subseteq Keys
    BY Zenon, <1>2, <1>3, <2>1 DEF FitInv
  <2>4. ModuleTypeOK'
    <3>1. 0 \in Nat
      OBVIOUS
    <3> QED
      BY Zenon, <1>1, <1>2, <2>1, <2>2, <2>3, <3>1 DEF ModuleTypeOK
  <2>5. FitInv' /\ FilesInv' /\ Supported'
    BY Zenon, <1>1, <1>2, <2>1, <2>2, <2>3 DEF FitInv, FilesInv, FileInv, Outside, Supported
  <2>6. params_initialized /\ ~behind' => arg_params = truth'.weight
    <3>1. CASE lost
      BY Zenon, <2>1, <2>2, <3>1
    <3>2. CASE ~lost
      BY Zenon, <1>2, <2>1, <3>2 DEF HostCurrent
    <3> QED
      BY Zenon, <3>1, <3>2
  <2>7. HostCurrent' /\ DevicesCurrent'
    BY Zenon, <1>1, <2>1, <2>3, <2>6 DEF HostCurrent, DevicesCurrent
  <2>8. StoresInv'
    <3>1. optimizer_initialized => Default \in buckets /\ ~orphaned
      BY Zenon, <1>2, <1>7 DEF FitInv, StoresInv
    <3>2. mconf.kv = "weights" /\ optimizer_initialized => truth'.weight = truth.weight
      BY Zenon, <2>1
    <3>3. ~orphaned
      BY Zenon, <1>2, <1>7 DEF StoresInv
    <3>4. behind' => mconf.kv = "weights" /\ optimizer_initialized
      BY Zenon, <1>2, <2>1 DEF StoresInv
    <3> QED
      BY Zenon, <1>1, <1>2, <1>7, <2>1, <2>2, <3>1, <3>2, <3>3, <3>4 DEF StoresInv
  <2> QED
    BY Zenon, <2>4, <2>5, <2>7, <2>8 DEF ModuleIInv
<1> QED
  BY Zenon, <1>5, <1>6, <1>7

\* init_params gives the host and the devices the same parameters, or leaves
\* both alone.
LEMMA InitParamsStep ==
    ASSUME ModuleIInv, binded, NEW force, NEW v \in Weight, InitParams(force, v, v),
           force => mconf.sets \/ ~optimizer_initialized,
           UNCHANGED <<mconf, binded, optimizer_initialized, buckets, curr_bucket, opt_of,
                       kv_params, upd_states, behind, orphaned>>
    PROVE  /\ params_initialized' = TRUE /\ truth' \in Truths /\ truth'.weight \in Weight
           /\ arg_params' \in Weight /\ dev_params' \in Weight
           /\ params_dirty' \in [Bucket \union {"top"} -> BOOLEAN]
           /\ DevicesCurrent' /\ HostCurrent' /\ StoresInv'
<1>1. ModuleTypeOK /\ FitInv /\ StoresInv /\ Supported /\ DevicesCurrent /\ HostCurrent
  BY Zenon DEF ModuleIInv
<1>2. Top' = Top
  BY Zenon DEF Top
<1>3. CASE params_initialized /\ ~force
  <2>1. UNCHANGED <<arg_params, dev_params, params_dirty, params_initialized, truth>>
    BY Zenon, <1>3 DEF InitParams
  <2>2. DevicesCurrent' /\ HostCurrent' /\ StoresInv'
    BY Zenon, <1>1, <1>2, <2>1 DEF DevicesCurrent, HostCurrent, StoresInv
  <2>3. /\ params_initialized = TRUE /\ truth.weight \in Weight
        /\ arg_params \in Weight /\ dev_params \in Weight
    BY Zenon, <1>1, <1>3 DEF ModuleTypeOK, FitInv
  <2> QED
    BY Zenon, <1>1, <2>1, <2>2, <2>3 DEF ModuleTypeOK
<1>4. CASE ~(params_initialized /\ ~force)
  <2>1. /\ arg_params' = v /\ dev_params' = v /\ params_dirty' = Cleaned /\ params_initialized' = TRUE
        /\ truth' = [truth EXCEPT !.weight = v]
    BY Zenon, <1>4 DEF InitParams
  <2>2. truth' \in Truths /\ truth'.weight = v /\ truth'.states = truth.states
    BY ZenonT(20), <1>1, <2>1 DEF ModuleTypeOK, Truths
  <2>3. mconf.kv = "weights" => ~optimizer_initialized
    BY Zenon, <1>1, <1>4 DEF Supported, FitInv
  <2>4. StoresInv'
    BY Zenon, <1>1, <2>2, <2>3 DEF StoresInv
  <2>5. DevicesCurrent' /\ HostCurrent'
    BY Zenon, <2>1, <2>2 DEF DevicesCurrent, HostCurrent
  <2> QED
    BY Zenon, <2>1, <2>2, <2>4, <2>5, Flags
<1> QED
  BY Zenon, <1>3, <1>4

\* fit initialises the parameters, with those of a checkpoint if there is one.
LEMMA FitInitParamsInv ==
    ASSUME ModuleIInv, NEW force \in BOOLEAN, FitInitParams(force)
    PROVE  ModuleIInv'
<1>1. /\ pc = "init_params" /\ pc' = "init_optimizer" /\ resumed' = None
      /\ force => mconf.sets \/ ~optimizer_initialized
      /\ UNCHANGED <<mconf, binded, optimizer_initialized, buckets, curr_bucket, grad_array, opt_of,
                     preload, kv_params, upd_states, disk, epoch, next_bucket, last_bucket, given,
                     behind, orphaned>>
      /\ Top' = Top /\ Keys' = Keys
  BY Zenon DEF FitInitParams, kvsVars, Top, Keys
<1>2. ModuleTypeOK /\ FitInv /\ FilesInv /\ Supported
  BY Zenon DEF ModuleIInv
<1>3. binded /\ values' \in Nat /\ \E v \in Weight : InitParams(force, v, v)
  <2>1. binded
    BY Zenon, <1>1, <1>2 DEF FitInv
  <2>2. CASE resumed = None
    <3>1. values' = values + 1 /\ InitParams(force, Value(values'), Value(values'))
      BY Zenon, <2>2 DEF FitInitParams
    <3>2. values' \in Nat
      BY <1>2, <3>1 DEF ModuleTypeOK
    <3>3. Value(values') \in Weight
      BY <3>2 DEF Value, Weight
    <3> QED
      BY Zenon, <2>1, <3>1, <3>2, <3>3
  <2>3. CASE resumed # None
    <3>1. InitParams(force, disk[resumed].params, disk[resumed].truth.weight) /\ values' = values
      BY Zenon, <2>3 DEF FitInitParams
    <3>2. disk[resumed].params \in Weight /\ disk[resumed].params = disk[resumed].truth.weight
      BY Zenon, <1>2, <2>3 DEF FilesInv, FileInv
    <3> QED
      BY Zenon, <1>2, <2>1, <3>1, <3>2 DEF ModuleTypeOK
  <2> QED
    BY Zenon, <2>2, <2>3
<1>4. PICK v \in Weight : InitParams(force, v, v)
  BY Zenon, <1>3
<1>5. /\ params_initialized' = TRUE /\ truth' \in Truths /\ truth'.weight \in Weight
      /\ arg_params' \in Weight /\ dev_params' \in Weight
      /\ params_dirty' \in [Bucket \union {"top"} -> BOOLEAN]
      /\ DevicesCurrent' /\ HostCurrent' /\ StoresInv'
  BY Zenon, <1>1, <1>3, <1>4, InitParamsStep
<1>6. ModuleTypeOK'
  BY Zenon, <1>1, <1>2, <1>3, <1>5 DEF ModuleTypeOK
<1>7. FitInv' /\ FilesInv' /\ Supported'
  BY Zenon, <1>1, <1>2, <1>3, <1>5 DEF FitInv, FilesInv, FileInv, Outside, Supported
<1> QED
  BY Zenon, <1>5, <1>6, <1>7 DEF ModuleIInv

\* The states that init_optimizer starts from are those that training should
\* have: none, or those of the file it loads.
LEMMA StatesLoaded ==
    ASSUME ModuleIInv, ~(preload = None \/ NoStates)
    PROVE  /\ disk[preload].states \in Seq(Nat)
           /\ ~disk[preload].torn => disk[preload].truth.states = disk[preload].states
<1>1. preload \in 1 .. Epochs /\ disk[preload].states # None
  BY Zenon DEF NoStates, ModuleIInv, FilesInv
<1>2. disk[preload] \in File /\ FileInv(disk[preload])
  BY Zenon, <1>1 DEF ModuleIInv, ModuleTypeOK, FilesInv
<1> QED
  BY Zenon, <1>1, <1>2 DEF File, FileInv

\* init_optimizer fills the store with the current parameters, and the states
\* with those of the checkpoint that was loaded with them.
LEMMA InitOptimizerStep ==
    ASSUME ModuleIInv, binded, params_initialized, NEW force, InitOptimizer(force),
           UNCHANGED <<mconf, binded, params_initialized, buckets, curr_bucket, disk>>
    PROVE  /\ optimizer_initialized' = TRUE /\ (preload' = preload \/ preload' = None)
           /\ truth' \in Truths /\ truth'.weight \in Weight
           /\ arg_params' \in Weight /\ dev_params' \in Weight
           /\ params_dirty' \in [Bucket \union {"top"} -> BOOLEAN]
           /\ kv_params' \in Seq(Weight \union {None}) /\ upd_states' \in Seq(Seq(Nat))
           /\ Len(kv_params') = Len(upd_states') /\ opt_of' \in [Bucket -> Nat]
           /\ behind' \in BOOLEAN /\ orphaned' \in BOOLEAN
           /\ DevicesCurrent' /\ HostCurrent' /\ StoresInv'
<1>1. ModuleTypeOK /\ FitInv /\ FilesInv /\ StoresInv /\ Supported /\ DevicesCurrent /\ HostCurrent
  BY Zenon DEF ModuleIInv
<1>2. /\ Top' = Top /\ Top \in Bucket \union {"top"} /\ curr_bucket \in Bucket
      /\ ~mconf.bucketing => curr_bucket = Top
      /\ mconf.bucketing => curr_bucket # Top
      /\ buckets \subseteq Bucket /\ Default \in buckets
  BY Zenon, <1>1, FlagKeys DEF Top, FitInv, ModuleTypeOK
<1>3. /\ dev_params \in Weight /\ arg_params \in Weight /\ truth.weight \in Weight
      /\ ~behind => dev_params = truth.weight
      /\ ~behind /\ ~params_dirty[Top] => arg_params = truth.weight
      /\ behind => mconf.kv = "weights"
  BY Zenon, <1>1 DEF DevicesCurrent, HostCurrent, FitInv, StoresInv
<1>4. CASE optimizer_initialized /\ ~force
  <2>1. /\ UNCHANGED <<optimizer_initialized, arg_params, dev_params, params_dirty, opt_of,
                       preload, kv_params, upd_states, truth, behind, orphaned>>
        /\ optimizer_initialized = TRUE
    BY Zenon, <1>1, <1>4 DEF InitOptimizer, kvsVars, histVars, ModuleTypeOK
  <2>2. DevicesCurrent' /\ HostCurrent' /\ StoresInv'
    BY Zenon, <1>1, <1>2, <2>1 DEF DevicesCurrent, HostCurrent, StoresInv
  <2> QED
    BY Zenon, <1>1, <1>3, <2>1, <2>2 DEF ModuleTypeOK
<1>5. CASE ~(optimizer_initialized /\ ~force)
  <2> DEFINE arg == IF params_dirty[curr_bucket] THEN dev_params ELSE arg_params
             lost == /\ mconf.kv = "weights"
                     /\ behind \/ (params_dirty[Top] /\ ~params_dirty[curr_bucket])
             none == preload = None \/ NoStates
             loaded == IF none THEN <<>> ELSE disk[preload].states
             stored == IF mconf.kv = "weights" THEN arg ELSE None
             weight == IF lost THEN arg ELSE truth.weight
             seen == IF none THEN <<>>
                     ELSE IF disk[preload].torn THEN disk[preload].states
                     ELSE disk[preload].truth.states
  <2>1. /\ optimizer_initialized' = TRUE /\ arg_params' = arg
        /\ preload' = IF NoStates THEN preload ELSE None
        /\ params_dirty' = [params_dirty EXCEPT ![curr_bucket] = FALSE]
        /\ dev_params' = IF mconf.kv = "weights" THEN arg ELSE dev_params
        /\ kv_params' = Append(kv_params, stored)
        /\ upd_states' = Append(upd_states, loaded)
        /\ opt_of' = [b \in Bucket |-> IF b \in buckets THEN Len(kv_params') ELSE opt_of[b]]
        /\ truth' = [weight |-> weight, states |-> seen]
        /\ behind' = FALSE /\ orphaned' = FALSE
    BY Zenon, <1>5 DEF InitOptimizer
  <2>2. loaded \in Seq(Nat) /\ seen = loaded
    <3>1. CASE none
      BY <3>1
    <3>2. CASE ~none
      BY Zenon, <3>2, StatesLoaded
    <3> QED
      BY Zenon, <3>1, <3>2
  <2>3. /\ arg \in Weight /\ stored \in Weight \union {None} /\ weight \in Weight
        /\ mconf.kv = "weights" => arg = weight
        /\ mconf.kv # "weights" => ~behind /\ weight = truth.weight
        /\ ~behind /\ ~params_dirty[Top] => arg = weight
        /\ ~behind /\ curr_bucket = Top => arg = weight
    <3>1. CASE params_dirty[curr_bucket]
      BY Zenon, <1>3, <3>1
    <3>2. CASE ~params_dirty[curr_bucket]
      BY Zenon, <1>3, <3>2
    <3> QED
      BY Zenon, <3>1, <3>2
  <2> HIDE DEF arg, loaded, stored, weight, seen, none, lost
  <2>4. truth' \in Truths /\ truth'.weight = weight /\ truth'.states = loaded
    <3>1. truth' = [weight |-> weight, states |-> loaded]
      BY Zenon, <2>1, <2>2
    <3> QED
      BY <2>2, <2>3, <3>1 DEF Truths
  <2>5. /\ kv_params' \in Seq(Weight \union {None}) /\ upd_states' \in Seq(Seq(Nat))
        /\ Len(kv_params') = Len(upd_states') /\ Len(kv_params') \in Nat
        /\ Len(kv_params') \in 1 .. Len(upd_states')
        /\ kv_params'[Len(kv_params')] = stored /\ upd_states'[Len(kv_params')] = loaded
    <3>1. /\ kv_params \in Seq(Weight \union {None}) /\ upd_states \in Seq(Seq(Nat))
          /\ Len(kv_params) = Len(upd_states)
      BY Zenon, <1>1 DEF ModuleTypeOK
    <3> QED
      BY <2>1, <2>2, <2>3, <3>1
  <2>6. opt_of' \in [Bucket -> Nat] /\ \A b \in buckets : opt_of'[b] = Len(kv_params')
    BY Zenon, <1>1, <1>2, <2>1, <2>5 DEF ModuleTypeOK
  <2>7. /\ params_dirty' \in [Bucket \union {"top"} -> BOOLEAN]
        /\ mconf.bucketing => params_dirty'[Top] = params_dirty[Top]
    <3>1. params_dirty \in [Bucket \union {"top"} -> BOOLEAN]
      BY Zenon, <1>1 DEF ModuleTypeOK
    <3> QED
      BY Zenon, <1>2, <2>1, <3>1
  <2>8. StoresInv'
    BY Zenon, <1>2, <2>1, <2>3, <2>4, <2>5, <2>6 DEF StoresInv, stored
  <2>9. DevicesCurrent' /\ HostCurrent'
    <3>1. CASE mconf.kv = "weights"
      BY Zenon, <2>1, <2>3, <2>4, <3>1 DEF DevicesCurrent, HostCurrent
    <3>2. CASE mconf.kv # "weights"
      <4>1. dev_params' = weight
        BY Zenon, <1>3, <2>1, <2>3, <3>2
      <4>2. ~params_dirty'[Top] => arg = weight
        BY Zenon, <1>2, <2>3, <2>7, <3>2
      <4> QED
        BY Zenon, <1>2, <2>1, <2>4, <4>1, <4>2 DEF DevicesCurrent, HostCurrent
    <3> QED
      BY Zenon, <3>1, <3>2
  <2>10. arg_params' \in Weight /\ dev_params' \in Weight
    BY Zenon, <1>3, <2>1, <2>3
  <2> QED
    BY Zenon, <2>1, <2>3, <2>4, <2>5, <2>6, <2>7, <2>8, <2>9, <2>10
<1> QED
  BY Zenon, <1>4, <1>5

\* fit makes the optimizer when there is none.
LEMMA FitInitOptimizerInv ==
    ASSUME ModuleIInv, NEW b \in Keys, FitInitOptimizer(b)
    PROVE  ModuleIInv'
<1>1. /\ pc = "init_optimizer" /\ InitOptimizer(FALSE)
      /\ (pc' = "forward" /\ next_bucket' = b) \/ pc' = "idle"
      /\ UNCHANGED <<mconf, binded, params_initialized, buckets, curr_bucket, grad_array, resumed,
                     disk, epoch, last_bucket, given, values>>
      /\ Top' = Top /\ Keys' = Keys
  BY Zenon DEF FitInitOptimizer, Top, Keys
<1>2. ModuleTypeOK /\ FitInv /\ FilesInv /\ Supported
  BY Zenon DEF ModuleIInv
<1>3. binded /\ params_initialized /\ resumed = None /\ last_bucket = None
  BY Zenon, <1>1, <1>2 DEF FitInv, Outside
<1>4. /\ optimizer_initialized' = TRUE /\ (preload' = preload \/ preload' = None)
      /\ truth' \in Truths /\ truth'.weight \in Weight
      /\ arg_params' \in Weight /\ dev_params' \in Weight
      /\ params_dirty' \in [Bucket \union {"top"} -> BOOLEAN]
      /\ kv_params' \in Seq(Weight \union {None}) /\ upd_states' \in Seq(Seq(Nat))
      /\ Len(kv_params') = Len(upd_states') /\ opt_of' \in [Bucket -> Nat]
      /\ behind' \in BOOLEAN /\ orphaned' \in BOOLEAN
      /\ DevicesCurrent' /\ HostCurrent' /\ StoresInv'
  BY Zenon, <1>1, <1>3, InitOptimizerStep
<1>5. ModuleTypeOK'
  BY Zenon, <1>1, <1>2, <1>4 DEF ModuleTypeOK
<1>6. FitInv'
  BY Zenon, <1>1, <1>2, <1>3, <1>4 DEF FitInv, Outside
<1>7. FilesInv' /\ Supported'
  BY Zenon, <1>1, <1>2, <1>4 DEF FilesInv, FileInv, Supported
<1> QED
  BY Zenon, <1>4, <1>5, <1>6, <1>7 DEF ModuleIInv

\* The user makes it anew.
LEMMA UserInitOptimizerInv ==
    ASSUME ModuleIInv, UserInitOptimizer
    PROVE  ModuleIInv'
<1>1. /\ pc = "idle" /\ pc' = "idle" /\ InitOptimizer(TRUE) /\ binded /\ params_initialized
      /\ UNCHANGED <<mconf, binded, params_initialized, buckets, curr_bucket, grad_array, resumed,
                     disk, epoch, next_bucket, last_bucket, given, values>>
      /\ Top' = Top /\ Keys' = Keys
  BY Zenon DEF UserInitOptimizer, UserCall, Top, Keys, fitVars
<1>2. ModuleTypeOK /\ FitInv /\ FilesInv /\ Supported
  BY Zenon DEF ModuleIInv
<1>3. /\ optimizer_initialized' = TRUE /\ (preload' = preload \/ preload' = None)
      /\ truth' \in Truths /\ truth'.weight \in Weight
      /\ arg_params' \in Weight /\ dev_params' \in Weight
      /\ params_dirty' \in [Bucket \union {"top"} -> BOOLEAN]
      /\ kv_params' \in Seq(Weight \union {None}) /\ upd_states' \in Seq(Seq(Nat))
      /\ Len(kv_params') = Len(upd_states') /\ opt_of' \in [Bucket -> Nat]
      /\ behind' \in BOOLEAN /\ orphaned' \in BOOLEAN
      /\ DevicesCurrent' /\ HostCurrent' /\ StoresInv'
  BY Zenon, <1>1, InitOptimizerStep
<1>4. ModuleTypeOK'
  BY Zenon, <1>1, <1>2, <1>3 DEF ModuleTypeOK
<1>5. FitInv'
  BY Zenon, <1>1, <1>2, <1>3 DEF FitInv, Outside
<1>6. FilesInv' /\ Supported'
  BY Zenon, <1>1, <1>2, <1>3 DEF FilesInv, FileInv, Supported
<1> QED
  BY Zenon, <1>3, <1>4, <1>5, <1>6 DEF ModuleIInv

\* A batch is given to the executors of its bucket.
LEMMA ForwardBackwardInv ==
    ASSUME ModuleIInv, ForwardBackward
    PROVE  ModuleIInv'
<1>1. /\ pc = "forward" /\ pc' = "update" /\ Opened(next_bucket)
      /\ curr_bucket' = next_bucket /\ last_bucket' = next_bucket
      /\ given' = given + 1 /\ grad_array' = given'
      /\ UNCHANGED <<binded, params_initialized, optimizer_initialized, params_dirty, arg_params,
                     dev_params, preload, resumed, kv_params, upd_states>>
      /\ UNCHANGED <<mconf, disk, epoch, next_bucket, values, truth, behind, orphaned>>
      /\ Top' = Top /\ Keys' = Keys
  BY Zenon DEF ForwardBackward, Opened, kvsVars, histVars, Top, Keys
<1>2. ModuleTypeOK /\ FitInv /\ FilesInv /\ Supported /\ DevicesCurrent /\ HostCurrent
  BY Zenon DEF ModuleIInv
<1>3. binded /\ params_initialized /\ optimizer_initialized /\ resumed = None /\ next_bucket \in Keys
  BY Zenon, <1>1, <1>2 DEF FitInv, Outside
<1>4. /\ buckets' \subseteq Keys /\ next_bucket \in buckets' /\ buckets \subseteq buckets'
      /\ opt_of' \in [Bucket -> Nat] /\ StoresInv'
  BY Zenon, <1>1, <1>3, Opening
<1>5. given' \in Nat
  BY <1>1, <1>2 DEF ModuleTypeOK
<1>6. ModuleTypeOK'
  BY Zenon, <1>1, <1>2, <1>4, <1>5 DEF ModuleTypeOK
<1>7. FitInv'
  BY Zenon, <1>1, <1>2, <1>3, <1>4 DEF FitInv, Outside
<1>8. FilesInv' /\ Supported' /\ DevicesCurrent' /\ HostCurrent'
  BY Zenon, <1>1, <1>2, <1>3 DEF FilesInv, FileInv, Outside, Supported, DevicesCurrent, HostCurrent
<1> QED
  BY Zenon, <1>4, <1>6, <1>7, <1>8 DEF ModuleIInv

\* The next batch's bucket is opened; the current one stays.
LEMMA PrepareInv ==
    ASSUME ModuleIInv, NEW b \in Keys, Prepare(b)
    PROVE  ModuleIInv'
<1>1. /\ pc = "prepare" /\ pc' = "forward" /\ Opened(b) /\ next_bucket' = b
      /\ UNCHANGED <<binded, params_initialized, optimizer_initialized, params_dirty, arg_params,
                     dev_params, preload, resumed, kv_params, upd_states>>
      /\ UNCHANGED <<mconf, curr_bucket, grad_array, disk, epoch, last_bucket, given, values, truth,
                     behind, orphaned>>
      /\ Top' = Top /\ Keys' = Keys
  BY Zenon DEF Prepare, Opened, kvsVars, histVars, Top, Keys
<1>2. ModuleTypeOK /\ FitInv /\ FilesInv /\ Supported /\ DevicesCurrent /\ HostCurrent
  BY Zenon DEF ModuleIInv
<1>3. binded /\ params_initialized /\ optimizer_initialized /\ resumed = None
  BY Zenon, <1>1, <1>2 DEF FitInv, Outside
<1>4. /\ buckets' \subseteq Keys /\ b \in buckets' /\ buckets \subseteq buckets'
      /\ opt_of' \in [Bucket -> Nat] /\ StoresInv'
  BY Zenon, <1>1, <1>3, Opening
<1>5. ModuleTypeOK'
  BY Zenon, <1>1, <1>2, <1>4 DEF ModuleTypeOK
<1>6. FitInv'
  BY Zenon, <1>1, <1>2, <1>3, <1>4 DEF FitInv, Outside
<1>7. FilesInv' /\ Supported' /\ DevicesCurrent' /\ HostCurrent'
  BY Zenon, <1>1, <1>2, <1>3 DEF FilesInv, FileInv, Outside, Supported, DevicesCurrent, HostCurrent
<1> QED
  BY Zenon, <1>4, <1>5, <1>6, <1>7 DEF ModuleIInv

\* update adds the batch to every copy that training reads, and marks the host's
\* as old.
LEMMA FitUpdateInv ==
    ASSUME ModuleIInv, FitUpdate
    PROVE  ModuleIInv'
<1> DEFINE o == opt_of[curr_bucket]
<1>1. /\ pc = "update" /\ pc' \in {"epoch_end", "prepare"} /\ UpdateParams
      /\ params_dirty' = Dirtied
      /\ UNCHANGED <<mconf, binded, params_initialized, optimizer_initialized, buckets, curr_bucket,
                     arg_params, grad_array, opt_of, preload, resumed, disk, epoch, next_bucket,
                     last_bucket, given, values, orphaned>>
      /\ behind' = FALSE /\ opt_of[curr_bucket] # 0
      /\ Top' = Top /\ Keys' = Keys
  BY Zenon DEF FitUpdate, UpdateParams, Top, Keys
<1>2. /\ ModuleTypeOK /\ FitInv /\ FilesInv /\ Supported
      /\ DevicesCurrent /\ HostCurrent /\ StoresInv
  BY Zenon DEF ModuleIInv
<1>3. binded /\ params_initialized /\ optimizer_initialized /\ resumed = None
  BY Zenon, <1>1, <1>2 DEF FitInv, Outside
<1>4. /\ grad_array = given /\ given \in Nat /\ truth.weight \in Weight
      /\ ~orphaned /\ (mconf.kv # "weights" => dev_params = truth.weight)
      /\ truth \in Truths /\ curr_bucket \in buckets /\ Default \in buckets
      /\ kv_params \in Seq(Weight \union {None}) /\ upd_states \in Seq(Seq(Nat))
      /\ Len(kv_params) = Len(upd_states)
  BY Zenon, <1>1, <1>2, <1>3 DEF FitInv, DevicesCurrent, ModuleTypeOK, StoresInv
<1>5. /\ o \in 1 .. Len(upd_states) /\ upd_states[o] = truth.states
      /\ mconf.kv = "weights" => kv_params[o] = truth.weight
      /\ \A b \in buckets : opt_of[b] = o
  BY Zenon, <1>2, <1>3, <1>4 DEF StoresInv
<1> DEFINE new == With(truth.weight, given)
           applied == Append(truth.states, given)
<1>6. /\ dev_params' = new /\ truth' = [weight |-> new, states |-> applied]
      /\ kv_params' = IF mconf.kv = "weights" THEN [kv_params EXCEPT ![o] = new] ELSE kv_params
      /\ upd_states' = [upd_states EXCEPT ![o] = Append(@, given)]
  BY Zenon, <1>1, <1>4, <1>5 DEF UpdateParams
<1>7. new \in Weight /\ applied \in Seq(Nat)
  <2>1. truth.states \in Seq(Nat) /\ truth.weight \in Weight /\ given \in Nat
    BY Zenon, <1>4 DEF Truths
  <2>2. Append(truth.states, given) \in Seq(Nat)
    BY <2>1
  <2>3. /\ truth.weight.ups \in Seq(Nat)
        /\ new = [truth.weight EXCEPT !.ups = Append(truth.weight.ups, given)]
    BY <2>1 DEF With, Weight
  <2>4. Append(truth.weight.ups, given) \in Seq(Nat)
    BY <2>1, <2>3
  <2> HIDE DEF new
  <2> QED
    BY Zenon, <2>1, <2>2, <2>3, <2>4 DEF Weight
<1> HIDE DEF new, applied
<1>8. truth' \in Truths /\ truth'.weight = new /\ truth'.states = applied
  BY <1>6, <1>7 DEF Truths
<1>9. /\ upd_states' \in Seq(Seq(Nat)) /\ Len(upd_states') = Len(upd_states)
      /\ upd_states'[o] = applied
  <2>1. upd_states' = [upd_states EXCEPT ![o] = applied]
    BY Zenon, <1>5, <1>6 DEF applied
  <2> QED
    BY SMTT(40), <1>4, <1>5, <1>7, <2>1
<1>10. /\ kv_params' \in Seq(Weight \union {None}) /\ Len(kv_params') = Len(kv_params)
       /\ mconf.kv = "weights" => kv_params'[o] = new
  <2>1. CASE mconf.kv = "weights"
    <3>1. /\ kv_params' = [kv_params EXCEPT ![o] = new] /\ new \in Weight \union {None}
          /\ kv_params \in Seq(Weight \union {None}) /\ o \in 1 .. Len(kv_params)
      BY Zenon, <1>4, <1>5, <1>6, <1>7, <2>1
    <3> QED
      BY <3>1
  <2>2. CASE mconf.kv # "weights"
    BY Zenon, <1>4, <1>6, <2>2
  <2> QED
    BY Zenon, <2>1, <2>2
<1>11. StoresInv'
  BY Zenon, <1>1, <1>4, <1>5, <1>8, <1>9, <1>10 DEF StoresInv
<1>12. params_dirty' \in [Bucket \union {"top"} -> BOOLEAN] /\ params_dirty'[Top]
  BY Zenon, <1>1, <1>3, Flags
<1>13. DevicesCurrent' /\ HostCurrent'
  BY Zenon, <1>1, <1>6, <1>8, <1>12 DEF DevicesCurrent, HostCurrent
<1>14. ModuleTypeOK'
  BY Zenon, <1>1, <1>2, <1>4, <1>6, <1>7, <1>8, <1>9, <1>10, <1>12 DEF ModuleTypeOK
<1>15. FitInv'
  BY Zenon, <1>1, <1>2, <1>3, <1>6, <1>7, <1>8 DEF FitInv, Outside
<1>16. FilesInv' /\ Supported'
  BY Zenon, <1>1, <1>2, <1>3 DEF FilesInv, FileInv, Outside, Supported
<1> QED
  BY Zenon, <1>11, <1>13, <1>14, <1>15, <1>16 DEF ModuleIInv

\* At the end of an epoch host and devices are made the same.
LEMMA EpochEndInv ==
    ASSUME ModuleIInv, EpochEnd
    PROVE  ModuleIInv'
<1>1. /\ pc = "epoch_end" /\ pc' = "callback"
      /\ arg_params' = HostParams /\ dev_params' = HostParams /\ params_dirty' = Cleaned
      /\ UNCHANGED <<mconf, binded, params_initialized, optimizer_initialized, buckets, curr_bucket,
                     grad_array, opt_of, preload, resumed, kv_params, upd_states, disk, next_bucket,
                     last_bucket, given, values, truth, behind, orphaned>>
      /\ Top' = Top /\ Keys' = Keys
  BY Zenon DEF EpochEnd, kvsVars, histVars, Top, Keys
<1>2. ModuleTypeOK /\ FitInv /\ FilesInv /\ Supported /\ StoresInv
  BY Zenon DEF ModuleIInv
<1>3. binded /\ params_initialized /\ optimizer_initialized /\ resumed = None /\ ~behind
  BY Zenon, <1>1, <1>2 DEF FitInv, Outside
<1>4. /\ HostParams = truth.weight /\ HostParams \in Weight
      /\ params_dirty' \in [Bucket \union {"top"} -> BOOLEAN] /\ ~params_dirty'[Top]
  BY Zenon, <1>1, <1>3, Flags, HostIsCurrent
<1>5. ModuleTypeOK'
  BY Zenon, <1>1, <1>2, <1>4 DEF ModuleTypeOK
<1>6. FitInv' /\ FilesInv' /\ StoresInv' /\ Supported'
  BY Zenon, <1>1, <1>2, <1>3, <1>4 DEF FitInv, Outside, FilesInv, FileInv, StoresInv, Supported
<1>7. DevicesCurrent' /\ HostCurrent'
  BY Zenon, <1>1, <1>3, <1>4 DEF Outside, DevicesCurrent, HostCurrent
<1> QED
  BY Zenon, <1>5, <1>6, <1>7 DEF ModuleIInv

\* The parameter file is written from the host's copy, brought up to date.
LEMMA SaveParamsInv ==
    ASSUME ModuleIInv, SaveParams
    PROVE  ModuleIInv'
<1> DEFINE file == [params |-> HostParams, states |-> disk[epoch].states,
                   torn |-> disk[epoch].states # None, truth |-> truth]
<1>1. /\ pc = "callback" /\ pc' \in {"score", "states"}
      /\ arg_params' = HostParams /\ params_dirty' = Cleaned
      /\ disk' = [disk EXCEPT ![epoch] = file]
      /\ UNCHANGED <<mconf, binded, params_initialized, optimizer_initialized, buckets, curr_bucket,
                     dev_params, grad_array, opt_of, preload, resumed, kv_params, upd_states, epoch,
                     next_bucket, last_bucket, given, values, truth, behind, orphaned>>
      /\ pc' = "states" => ~mconf.bucketing
      /\ Top' = Top /\ Keys' = Keys
  BY Zenon DEF SaveParams, GetParams, kvsVars, histVars, Top, Keys
<1>2. /\ ModuleTypeOK /\ FitInv /\ FilesInv /\ Supported /\ StoresInv
      /\ DevicesCurrent /\ HostCurrent
  BY Zenon DEF ModuleIInv
<1>3. binded /\ params_initialized /\ optimizer_initialized /\ resumed = None /\ ~behind
  BY Zenon, <1>1, <1>2 DEF FitInv, Outside
<1>4. /\ HostParams = truth.weight /\ HostParams \in Weight /\ truth \in Truths
      /\ params_dirty' \in [Bucket \union {"top"} -> BOOLEAN] /\ ~params_dirty'[Top]
  BY Zenon, <1>1, <1>2, <1>3, Flags, HostIsCurrent DEF ModuleTypeOK
<1>5. /\ disk' \in [1 .. Epochs -> File]
      /\ \A e \in 1 .. Epochs :
           /\ e # epoch => disk'[e] = disk[e]
           /\ e = epoch => FileInv(disk'[e]) /\ disk'[e].truth = truth
  <2>1. ASSUME epoch \in 1 .. Epochs PROVE file \in File /\ FileInv(file) /\ file.truth = truth
    <3>1. disk[epoch].states \in Seq(Nat) \union {None}
      BY Zenon, <1>2, <2>1 DEF ModuleTypeOK, File
    <3>2. /\ file \in File /\ file.params = HostParams /\ file.truth = truth
          /\ file.states # None => file.torn
      BY Zenon, <1>4, <3>1 DEF File
    <3> QED
      BY Zenon, <1>4, <3>2 DEF FileInv
  <2> HIDE DEF file
  <2>2. disk \in [1 .. Epochs -> File]
    BY Zenon, <1>2 DEF ModuleTypeOK
  <2>3. CASE epoch \in 1 .. Epochs
    BY Zenon, <1>1, <2>1, <2>2, <2>3
  <2>4. CASE epoch \notin 1 .. Epochs
    BY Zenon, <1>1, <2>2, <2>4
  <2> QED
    BY Zenon, <2>3, <2>4
<1>6. FilesInv'
  <2>1. ASSUME NEW e \in 1 .. Epochs PROVE FileInv(disk'[e]) /\ (e = epoch => disk'[e].truth = truth)
    BY Zenon, <1>2, <1>5 DEF FilesInv
  <2> QED
    BY Zenon, <1>1, <1>2, <1>3, <2>1 DEF FilesInv, FileInv
<1>7. ModuleTypeOK'
  BY Zenon, <1>1, <1>2, <1>4, <1>5 DEF ModuleTypeOK
<1>8. FitInv' /\ StoresInv' /\ Supported'
  BY Zenon, <1>1, <1>2, <1>3, <1>4 DEF FitInv, Outside, StoresInv, Supported
<1>9. DevicesCurrent' /\ HostCurrent'
  BY Zenon, <1>1, <1>2, <1>3, <1>4 DEF Outside, DevicesCurrent, HostCurrent
<1> QED
  BY Zenon, <1>6, <1>7, <1>8, <1>9 DEF ModuleIInv

\* The states are those of the updater that the current bucket uses.
LEMMA SaveOptimizerStatesInv ==
    ASSUME ModuleIInv, SaveOptimizerStates
    PROVE  ModuleIInv'
<1>1. /\ pc = "states" /\ pc' = "score"
      /\ disk' = [disk EXCEPT ![epoch].states = SavedStates, ![epoch].torn = FALSE]
      /\ UNCHANGED <<mconf, binded, params_initialized, optimizer_initialized, buckets, curr_bucket,
                     params_dirty, arg_params, dev_params, grad_array, opt_of, preload, resumed,
                     kv_params, upd_states, epoch, next_bucket, last_bucket, given, values, truth, behind, orphaned>>
      /\ Top' = Top /\ Keys' = Keys
  BY Zenon DEF SaveOptimizerStates, memVars, kvsVars, histVars, Top, Keys
<1>2. /\ ModuleTypeOK /\ FitInv /\ FilesInv /\ Supported /\ StoresInv
      /\ DevicesCurrent /\ HostCurrent
  BY Zenon DEF ModuleIInv
<1>3. /\ binded /\ params_initialized /\ optimizer_initialized /\ resumed = None
      /\ curr_bucket \in buckets /\ ~orphaned
  BY Zenon, <1>1, <1>2 DEF FitInv, Outside, StoresInv
<1>4. SavedStates = truth.states /\ truth \in Truths /\ truth.states \in Seq(Nat)
  BY Zenon, <1>2, <1>3 DEF StoresInv, SavedStates, ModuleTypeOK, Truths
<1>5. /\ disk' \in [1 .. Epochs -> File]
      /\ \A e \in 1 .. Epochs :
           /\ e # epoch => disk'[e] = disk[e]
           /\ disk'[e].params = disk[e].params /\ disk'[e].truth = disk[e].truth
           /\ e = epoch => disk'[e].states = truth.states
  <2>1. /\ disk \in [1 .. Epochs -> File]
        /\ disk' = [disk EXCEPT ![epoch] = [disk[epoch] EXCEPT !.states = truth.states, !.torn = FALSE]]
    BY Zenon, <1>1, <1>2, <1>4 DEF ModuleTypeOK
  <2> DEFINE file == [disk[epoch] EXCEPT !.states = truth.states, !.torn = FALSE]
  <2>2. ASSUME epoch \in 1 .. Epochs
        PROVE  /\ file \in File /\ file.params = disk[epoch].params
               /\ file.truth = disk[epoch].truth /\ file.states = truth.states
    <3>1. disk[epoch] \in File
      BY Zenon, <2>1, <2>2
    <3> QED
      BY <1>4, <3>1 DEF File
  <2> HIDE DEF file
  <2>3. disk' = [disk EXCEPT ![epoch] = file]
    BY Zenon, <2>1 DEF file
  <2>4. CASE epoch \in 1 .. Epochs
    BY Zenon, <2>1, <2>2, <2>3, <2>4
  <2>5. CASE epoch \notin 1 .. Epochs
    BY Zenon, <2>1, <2>3, <2>5
  <2> QED
    BY Zenon, <2>4, <2>5
<1>6. FilesInv'
  <2>1. ASSUME NEW e \in 1 .. Epochs PROVE FileInv(disk'[e])
    <3>1. e = epoch => disk[e].truth = truth
      BY Zenon, <1>1, <1>2 DEF FilesInv
    <3>2. FileInv(disk[e])
      BY Zenon, <1>2 DEF FilesInv
    <3>3. CASE e = epoch
      BY Zenon, <1>4, <1>5, <3>1, <3>2, <3>3 DEF FileInv
    <3>4. CASE e # epoch
      BY Zenon, <1>5, <3>2, <3>4
    <3> QED
      BY Zenon, <3>3, <3>4
  <2> QED
    BY Zenon, <1>1, <1>2, <1>3, <2>1 DEF FilesInv, FileInv
<1>7. ModuleTypeOK'
  BY Zenon, <1>1, <1>2, <1>5 DEF ModuleTypeOK
<1>8. FitInv' /\ StoresInv' /\ Supported'
  BY Zenon, <1>1, <1>2, <1>3 DEF FitInv, Outside, StoresInv, Supported
<1>9. DevicesCurrent' /\ HostCurrent'
  BY Zenon, <1>1, <1>2, <1>3 DEF Outside, DevicesCurrent, HostCurrent
<1> QED
  BY Zenon, <1>6, <1>7, <1>8, <1>9 DEF ModuleIInv

\* The evaluation opens buckets and leaves the last one current.
LEMMA ScoreInv ==
    ASSUME ModuleIInv, NEW b \in Keys, NEW first \in Keys, NEW more \in BOOLEAN, Score(b, first, more)
    PROVE  ModuleIInv'
<1>1. /\ pc \in {"callback", "score"} /\ Opened(b) /\ curr_bucket' = b
      /\ pc' = (IF more THEN "forward" ELSE "idle")
      /\ next_bucket' = (IF more THEN first ELSE None) /\ last_bucket' = None
      /\ UNCHANGED <<binded, params_initialized, optimizer_initialized, params_dirty, arg_params,
                     dev_params, preload, resumed, kv_params, upd_states>>
      /\ UNCHANGED <<mconf, grad_array, disk, epoch, given, values, truth, behind, orphaned>>
      /\ Top' = Top /\ Keys' = Keys
  BY Zenon DEF Score, Opened, kvsVars, histVars, Top, Keys
<1>2. ModuleTypeOK /\ FitInv /\ FilesInv /\ Supported /\ DevicesCurrent /\ HostCurrent
  BY Zenon DEF ModuleIInv
<1>3. /\ binded /\ params_initialized /\ optimizer_initialized /\ resumed = None
      /\ pc' \in {"forward", "idle"} /\ (pc' = "forward" => next_bucket' = first)
  BY Zenon, <1>1, <1>2 DEF FitInv, Outside
<1>4. /\ buckets' \subseteq Keys /\ b \in buckets' /\ buckets \subseteq buckets'
      /\ opt_of' \in [Bucket -> Nat] /\ StoresInv'
  BY Zenon, <1>1, <1>3, Opening
<1>5. ModuleTypeOK'
  BY Zenon, <1>1, <1>2, <1>4 DEF ModuleTypeOK
<1>6. FitInv'
  BY Zenon, <1>1, <1>2, <1>3, <1>4 DEF FitInv, Outside
<1>7. FilesInv' /\ Supported' /\ DevicesCurrent' /\ HostCurrent'
  BY Zenon, <1>1, <1>2, <1>3 DEF FilesInv, FileInv, Supported, DevicesCurrent, HostCurrent
<1> QED
  BY Zenon, <1>4, <1>5, <1>6, <1>7 DEF ModuleIInv

\* An exception leaves the module as it is.
LEMMA InterruptInv ==
    ASSUME ModuleIInv, Interrupt
    PROVE  ModuleIInv'
<1>1. /\ pc' = "idle" /\ next_bucket' = None /\ last_bucket' = None
      /\ UNCHANGED <<mconf, binded, params_initialized, optimizer_initialized, buckets, curr_bucket,
                     params_dirty, arg_params, dev_params, grad_array, opt_of, preload, resumed,
                     kv_params, upd_states, disk, epoch, given, values, truth, behind, orphaned>>
      /\ Top' = Top /\ Keys' = Keys
  BY Zenon DEF Interrupt, memVars, kvsVars, histVars, Top, Keys
<1>2. /\ ModuleTypeOK /\ FitInv /\ FilesInv /\ Supported /\ StoresInv
      /\ DevicesCurrent /\ HostCurrent
  BY Zenon DEF ModuleIInv
<1>3. ModuleTypeOK'
  BY Zenon, <1>1, <1>2 DEF ModuleTypeOK
<1>4. FitInv' /\ FilesInv' /\ StoresInv' /\ Supported' /\ DevicesCurrent' /\ HostCurrent'
  BY Zenon, <1>1, <1>2 DEF FitInv, Outside, FilesInv, FileInv, StoresInv, Supported, DevicesCurrent,
     HostCurrent
<1> QED
  BY Zenon, <1>3, <1>4 DEF ModuleIInv

\* So does the one of an update without an optimizer, but for the flag.
LEMMA UpdateRaisesInv ==
    ASSUME ModuleIInv, UpdateRaises
    PROVE  ModuleIInv'
<1>1. /\ pc = "update" /\ pc' = "idle" /\ next_bucket' = None /\ last_bucket' = None
      /\ params_dirty' = [params_dirty EXCEPT ![Top] = TRUE]
      /\ UNCHANGED <<mconf, binded, params_initialized, optimizer_initialized, buckets, curr_bucket,
                     arg_params, dev_params, grad_array, opt_of, preload, resumed,
                     kv_params, upd_states, disk, epoch, given, values, truth, behind, orphaned>>
      /\ Top' = Top /\ Keys' = Keys
  BY Zenon DEF UpdateRaises, kvsVars, histVars, Top, Keys
<1>2. /\ ModuleTypeOK /\ FitInv /\ FilesInv /\ Supported /\ StoresInv /\ DevicesCurrent
  BY Zenon DEF ModuleIInv
<1>3. binded /\ Top \in Bucket \union {"top"}
  BY Zenon, <1>1, <1>2, FlagKeys DEF FitInv
<1>4. params_dirty' \in [Bucket \union {"top"} -> BOOLEAN] /\ params_dirty'[Top]
  BY Zenon, <1>1, <1>2, <1>3 DEF ModuleTypeOK
<1>5. ModuleTypeOK'
  BY Zenon, <1>1, <1>2, <1>4 DEF ModuleTypeOK
<1>6. FitInv' /\ FilesInv' /\ StoresInv' /\ Supported'
  BY Zenon, <1>1, <1>2, <1>3 DEF FitInv, Outside, FilesInv, FileInv, StoresInv, Supported
<1>7. DevicesCurrent' /\ HostCurrent'
  BY Zenon, <1>1, <1>2, <1>4 DEF DevicesCurrent, HostCurrent
<1> QED
  BY Zenon, <1>5, <1>6, <1>7 DEF ModuleIInv

\* The user asks for the parameters.
LEMMA UserGetParamsInv ==
    ASSUME ModuleIInv, UserGetParams
    PROVE  ModuleIInv'
<1>1. /\ pc = "idle" /\ binded /\ params_initialized
      /\ arg_params' = HostParams /\ params_dirty' = Cleaned
      /\ UNCHANGED <<mconf, binded, params_initialized, optimizer_initialized, buckets, curr_bucket,
                     dev_params, grad_array, opt_of, preload, resumed, kv_params, upd_states, disk,
                     pc, epoch, next_bucket, last_bucket, given, values, truth, behind, orphaned>>
      /\ Top' = Top /\ Keys' = Keys
  BY Zenon DEF UserGetParams, UserCall, GetParams, kvsVars, histVars, fitVars, Top, Keys
<1>2. /\ ModuleTypeOK /\ FitInv /\ FilesInv /\ Supported /\ StoresInv /\ DevicesCurrent
  BY Zenon DEF ModuleIInv
<1>3. /\ HostParams \in Weight /\ (~behind => HostParams = truth.weight)
      /\ params_dirty' \in [Bucket \union {"top"} -> BOOLEAN] /\ ~params_dirty'[Top]
  BY Zenon, <1>1, Flags, HostIsCurrent
<1>4. ModuleTypeOK'
  BY Zenon, <1>1, <1>2, <1>3 DEF ModuleTypeOK
<1>5. FitInv' /\ FilesInv' /\ StoresInv' /\ Supported' /\ DevicesCurrent'
  BY Zenon, <1>1, <1>2, <1>3 DEF FitInv, Outside, FilesInv, FileInv, StoresInv, Supported, DevicesCurrent
<1>6. HostCurrent'
  BY Zenon, <1>1, <1>3 DEF HostCurrent
<1> QED
  BY Zenon, <1>4, <1>5, <1>6 DEF ModuleIInv

\* The user sets them, on the devices alone or everywhere.
LEMMA UserSetParamsInv ==
    ASSUME ModuleIInv, NEW missing \in BOOLEAN, UserSetParams(missing)
    PROVE  ModuleIInv'
<1> DEFINE v == Value(values')
<1>1. /\ pc = "idle" /\ binded /\ params_initialized
      /\ mconf.sets \/ ~optimizer_initialized
      /\ values' = values + 1
      /\ IF missing THEN SetDeviceParams(v) ELSE InitParams(TRUE, v, v)
      /\ UNCHANGED <<mconf, binded, optimizer_initialized, buckets, curr_bucket, grad_array, opt_of,
                     preload, resumed, kv_params, upd_states, disk, pc, epoch, next_bucket,
                     last_bucket, given, behind, orphaned>>
      /\ Top' = Top /\ Keys' = Keys
  BY Zenon DEF UserSetParams, UserCall, kvsVars, histVars, fitVars, Top, Keys
<1>2. /\ ModuleTypeOK /\ FitInv /\ FilesInv /\ Supported /\ StoresInv
  BY Zenon DEF ModuleIInv
<1>3. values' \in Nat /\ v \in Weight
  <2>1. values' \in Nat
    BY <1>1, <1>2 DEF ModuleTypeOK
  <2> QED
    BY SMTT(40), <2>1 DEF Value, Weight
<1> HIDE DEF v
<1>4. /\ params_initialized' = TRUE /\ truth' \in Truths /\ truth'.weight \in Weight
      /\ arg_params' \in Weight /\ dev_params' \in Weight
      /\ params_dirty' \in [Bucket \union {"top"} -> BOOLEAN]
      /\ DevicesCurrent' /\ HostCurrent' /\ StoresInv'
  <2>1. CASE ~missing
    <3>1. InitParams(TRUE, v, v)
      BY Zenon, <1>1, <2>1
    <3> QED
      BY Zenon, <1>1, <1>3, <3>1, InitParamsStep
  <2>2. CASE missing
    <3>1. /\ dev_params' = v /\ params_dirty' = Dirtied
          /\ truth' = [truth EXCEPT !.weight = v]
          /\ UNCHANGED <<arg_params, params_initialized>>
      BY Zenon, <1>1, <2>2 DEF SetDeviceParams
    <3>2. truth' \in Truths /\ truth'.weight = v /\ truth'.states = truth.states
      BY ZenonT(20), <1>2, <1>3, <3>1 DEF ModuleTypeOK, Truths
    <3>3. /\ params_dirty' \in [Bucket \union {"top"} -> BOOLEAN]
          /\ params_dirty'[Top] /\ params_dirty'[curr_bucket]
      BY Zenon, <1>1, <3>1, Flags
    <3>4. StoresInv'
      BY Zenon, <1>1, <1>2, <3>2 DEF StoresInv, Supported
    <3>5. DevicesCurrent' /\ HostCurrent'
      BY Zenon, <1>1, <3>1, <3>2, <3>3 DEF DevicesCurrent, HostCurrent
    <3>6. params_initialized = TRUE /\ arg_params \in Weight
      BY Zenon, <1>1, <1>2 DEF ModuleTypeOK, FitInv
    <3> QED
      BY Zenon, <1>1, <1>3, <2>2, <3>1, <3>2, <3>3, <3>4, <3>5, <3>6
  <2> QED
    BY Zenon, <2>1, <2>2
<1>5. ModuleTypeOK'
  BY Zenon, <1>1, <1>2, <1>3, <1>4 DEF ModuleTypeOK
<1>6. FitInv' /\ FilesInv' /\ Supported'
  BY Zenon, <1>1, <1>2, <1>4 DEF FitInv, Outside, FilesInv, FileInv, Supported
<1> QED
  BY Zenon, <1>4, <1>5, <1>6 DEF ModuleIInv

\* A new process starts from a checkpoint.
LEMMA LoadInv ==
    ASSUME ModuleIInv, NEW e \in 1 .. Epochs, NEW withStates \in BOOLEAN, Load(e, withStates)
    PROVE  ModuleIInv'
<1>1. /\ disk[e].params # None
      /\ binded' = FALSE /\ optimizer_initialized' = FALSE /\ params_initialized' = ~mconf.bucketing
      /\ buckets' = {}
      /\ params_dirty' = [b \in DOMAIN params_dirty |-> FALSE]
      /\ arg_params' = (IF mconf.bucketing THEN None ELSE disk[e].params)
      /\ dev_params' = None /\ grad_array' = 0
      /\ opt_of' = [b \in Bucket |-> 0]
      /\ preload' = (IF withStates THEN e ELSE None)
      /\ resumed' = (IF mconf.bucketing THEN e ELSE None)
      /\ pc' = "idle" /\ last_bucket' = None
      /\ truth' = [weight |-> disk[e].truth.weight, states |-> <<>>]
      /\ behind' = FALSE /\ orphaned' = FALSE
      /\ UNCHANGED <<mconf, kv_params, upd_states, disk, given, values>>
      /\ Top' = Top /\ Keys' = Keys
  BY Zenon DEF Load, kvsVars, Top, Keys
<1>2. ModuleTypeOK /\ FilesInv /\ Supported
  BY Zenon DEF ModuleIInv
<1>3. /\ disk[e].params \in Weight /\ disk[e].params = disk[e].truth.weight
  BY Zenon, <1>1, <1>2 DEF FilesInv, FileInv
<1>4. truth' \in Truths /\ truth'.weight = disk[e].params
  BY <1>1, <1>3 DEF Truths
<1>5. /\ params_dirty' \in [Bucket \union {"top"} -> BOOLEAN] /\ ~params_dirty'[Top]
      /\ opt_of' \in [Bucket -> Nat]
  <2>1. DOMAIN params_dirty = Bucket \union {"top"} /\ Top \in Bucket \union {"top"} /\ 0 \in Nat
    BY <1>2, FlagKeys DEF ModuleTypeOK
  <2> QED
    BY Zenon, <1>1, <2>1
<1>6. ModuleTypeOK'
  <2>1. /\ arg_params' \in Weight \union {None} /\ dev_params' \in Weight \union {None}
        /\ params_initialized' \in BOOLEAN /\ grad_array' \in Nat /\ buckets' \subseteq Keys
    BY <1>1, <1>3
  <2> QED
    BY Zenon, <1>1, <1>2, <1>4, <1>5, <2>1 DEF ModuleTypeOK
<1>7. FitInv'
  BY Zenon, <1>1, <1>3, <1>4, <1>5 DEF FitInv, Outside
<1>8. FilesInv'
  BY Zenon, <1>1, <1>2 DEF FilesInv, FileInv
<1>9. StoresInv' /\ Supported' /\ DevicesCurrent'
  BY Zenon, <1>1, <1>2, <1>5 DEF StoresInv, Supported, DevicesCurrent
<1>10. HostCurrent'
  BY Zenon, <1>1, <1>4 DEF HostCurrent
<1> QED
  BY Zenon, <1>6, <1>7, <1>8, <1>9, <1>10 DEF ModuleIInv

\* A new object satisfies the invariant.
LEMMA ModuleInitInv ==
    ASSUME ModuleInit, Supported
    PROVE  ModuleIInv
<1>1. /\ binded = FALSE /\ params_initialized = FALSE /\ optimizer_initialized = FALSE
      /\ buckets = {} /\ params_dirty = [b \in Bucket \union {"top"} |-> FALSE]
      /\ arg_params = None /\ dev_params = None /\ grad_array = 0 /\ opt_of = [b \in Bucket |-> 0]
      /\ preload = None /\ resumed = None /\ kv_params = <<>> /\ upd_states = <<>>
      /\ disk = [e \in 1 .. Epochs |-> NoFile] /\ pc = "idle" /\ given = 0 /\ values = 0
      /\ last_bucket = None /\ truth = [weight |-> None, states |-> <<>>]
      /\ behind = FALSE /\ orphaned = FALSE
  BY Zenon DEF ModuleInit, NewModule
<1>2. NoFile \in File /\ NoFile.params = None /\ NoFile.states = None /\ truth \in Truths
  BY <1>1 DEF NoFile, File, Truths
<1>3. disk \in [1 .. Epochs -> File] /\ \A e \in 1 .. Epochs : disk[e] = NoFile
  BY Zenon, <1>1, <1>2
<1>4. ModuleTypeOK
  <2>1. /\ kv_params \in Seq(Weight \union {None}) /\ upd_states \in Seq(Seq(Nat))
        /\ Len(kv_params) = Len(upd_states) /\ 0 \in Nat
    BY <1>1
  <2> QED
    BY Zenon, <1>1, <1>2, <1>3, <2>1 DEF ModuleTypeOK
<1>5. ~params_dirty[Top]
  BY Zenon, <1>1, ModuleAssumption DEF Top
<1>6. FitInv /\ FilesInv
  BY Zenon, <1>1, <1>2, <1>3, <1>5 DEF FitInv, Outside, FilesInv, FileInv
<1>7. StoresInv /\ DevicesCurrent /\ HostCurrent
  BY Zenon, <1>1, <1>5 DEF StoresInv, DevicesCurrent, HostCurrent
<1> QED
  BY Zenon, <1>4, <1>6, <1>7 DEF ModuleIInv

\* Every step of fit, of the user and of a restart keeps it.
LEMMA ModuleNextInv ==
    ASSUME ModuleIInv, [ModuleNext]_moduleVars
    PROVE  ModuleIInv'
<1>1. ASSUME NEW force \in BOOLEAN, FitBind(force) PROVE ModuleIInv'
  BY Zenon, <1>1, FitBindInv
<1>2. ASSUME NEW force \in BOOLEAN, FitInitParams(force) PROVE ModuleIInv'
  BY Zenon, <1>2, FitInitParamsInv
<1>3. ASSUME NEW b \in Keys, FitInitOptimizer(b) PROVE ModuleIInv'
  BY Zenon, <1>3, FitInitOptimizerInv
<1>4. ASSUME NEW b \in Keys, Prepare(b) PROVE ModuleIInv'
  BY Zenon, <1>4, PrepareInv
<1>5. CASE ForwardBackward
  BY Zenon, <1>5, ForwardBackwardInv
<1>6. CASE FitUpdate
  BY Zenon, <1>6, FitUpdateInv
<1>7. CASE EpochEnd
  BY Zenon, <1>7, EpochEndInv
<1>8. CASE SaveParams
  BY Zenon, <1>8, SaveParamsInv
<1>9. CASE SaveOptimizerStates
  BY Zenon, <1>9, SaveOptimizerStatesInv
<1>10. ASSUME NEW b \in Keys, NEW first \in Keys, NEW more \in BOOLEAN, Score(b, first, more)
       PROVE  ModuleIInv'
  BY Zenon, <1>10, ScoreInv
<1>11. CASE Interrupt
  BY Zenon, <1>11, InterruptInv
<1>12. CASE UserGetParams
  BY Zenon, <1>12, UserGetParamsInv
<1>13. CASE UserInitOptimizer
  BY Zenon, <1>13, UserInitOptimizerInv
<1>14. ASSUME NEW missing \in BOOLEAN, UserSetParams(missing) PROVE ModuleIInv'
  BY Zenon, <1>14, UserSetParamsInv
<1>15. ASSUME NEW e \in 1 .. Epochs, NEW withStates \in BOOLEAN, Load(e, withStates) PROVE ModuleIInv'
  BY Zenon, <1>15, LoadInv
<1>16. CASE UpdateRaises
  BY Zenon, <1>16, UpdateRaisesInv
<1>17. CASE UNCHANGED moduleVars
  <2>1. /\ UNCHANGED <<mconf, binded, params_initialized, optimizer_initialized, buckets, curr_bucket,
                       params_dirty, arg_params, dev_params, grad_array, opt_of, preload, resumed>>
        /\ UNCHANGED <<kv_params, upd_states, disk, pc, epoch, nbatch, next_bucket, last_bucket, given,
                       values, truth, behind, orphaned>>
        /\ Top' = Top /\ Keys' = Keys
    BY Zenon, <1>17 DEF moduleVars, memVars, kvsVars, histVars, fitVars, Top, Keys
  <2>2. ModuleTypeOK' /\ FitInv'
    BY Zenon, <2>1 DEF ModuleIInv, ModuleTypeOK, FitInv
  <2>3. FilesInv'
    BY Zenon, <2>1 DEF ModuleIInv, FilesInv, FileInv
  <2>4. StoresInv' /\ Supported' /\ DevicesCurrent' /\ HostCurrent'
    BY Zenon, <2>1 DEF ModuleIInv, StoresInv, Supported, DevicesCurrent, HostCurrent
  <2> QED
    BY Zenon, <2>2, <2>3, <2>4 DEF ModuleIInv
<1> QED
  BY Zenon, <1>1, <1>2, <1>3, <1>4, <1>5, <1>6, <1>7, <1>8, <1>9, <1>10, <1>11, <1>12, <1>13,
     <1>14, <1>15, <1>16, <1>17 DEF ModuleNext

\* The invariant holds in every state of a module, however it is rebound,
\* interrupted, given new optimizers and restarted.
THEOREM ModuleInvariant ==
    ModuleSpec /\ Supported => []ModuleIInv
<1>1. ModuleInit /\ Supported => ModuleIInv
  BY Zenon, ModuleInitInv
<1>2. ModuleIInv /\ [ModuleNext]_moduleVars => ModuleIInv'
  BY Zenon, ModuleNextInv
<1> QED
  BY <1>1, <1>2, PTL DEF ModuleSpec

\* No update and no set_params is lost to the executors: they hold the value last
\* set with every batch trained since, in any number of buckets, over rebinding,
\* new optimizers, interrupted fits and restarts.  What a Module bound anew with
\* its flag set loses is just what the host's arrays lack, and with the weights
\* on the kvstore the next update makes up for it.
THEOREM ExecutorsHoldTheTruth ==
    ModuleSpec /\ Supported => []DevicesCurrent
<1>1. ModuleIInv => DevicesCurrent
  BY Zenon DEF ModuleIInv
<1> QED
  BY <1>1, ModuleInvariant, PTL

\* get_params never returns stale arrays of the host: no change of the devices
\* goes unmarked, in whichever bucket it is made.
THEOREM CleanFlagMeansCurrent ==
    ModuleSpec /\ Supported => []HostCurrent
<1>1. ModuleIInv => HostCurrent
  BY Zenon DEF ModuleIInv
<1> QED
  BY <1>1, ModuleInvariant, PTL

\* Every bound bucket has the one optimizer, and its states have seen every batch
\* since init_optimizer or since the states that were loaded, also from a
\* checkpoint of which only one file was written; all buckets lose it together,
\* when a BucketingModule is bound anew.
THEOREM BucketsShareTheOptimizer ==
    ModuleSpec /\ Supported => []StatesCurrent
<1>1. ModuleIInv => StatesCurrent
  <2>1. \A n \in 1 .. Len(upd_states) : n # 0
    BY SMTT(40)
  <2> QED
    BY Zenon, <2>1 DEF ModuleIInv, StoresInv, StatesCurrent
<1> QED
  BY <1>1, ModuleInvariant, PTL

\* A callback reads the outputs of the bucket that its batch was trained in.
THEOREM CallbacksSeeTheirBatch ==
    ModuleSpec /\ Supported => []CallbackSeesBatch
<1>1. ModuleIInv => CallbackSeesBatch
  BY Zenon DEF ModuleIInv, FitInv, CallbackSeesBatch
<1> QED
  BY <1>1, ModuleInvariant, PTL

-----------------------------------------------------------------------------
(* gluon.Trainer.                                                          *)

\* The uses of a trainer in which the replicas and the store are kept in step:
\* several contexts have a kvstore; replicas that the trainer updates itself all
\* see every batch, and their optimizer does not use its update count, which
\* they share; no parameter whose weight is in the store is initialised anew
\* (force_reinit does not tell the trainer).
TrainerSupported ==
    /\ tconf.kv = "none" => \A c, d \in Ctx : c = d
    /\ tconf.kv = "grads" => ~tconf.partial /\ (tconf.timed => \A c, d \in Ctx : c = d)
    /\ tconf.kv = "weights" => ~tconf.reinit

\* Every context has the same.
Alike(f) == \A c, d \in Ctx : f[c] = f[d]

ReplicasInv == DOMAIN data = Param /\ ReplicasAgree

\* What makes updates on the contexts alike: the marks of the gradients, and the
\* gradients once they are summed.
GradsInv ==
    /\ DOMAIN grad = Param /\ DOMAIN fresh = Param /\ DOMAIN grad_req = Param
    /\ ~tconf.partial => \A p \in Param : Alike(fresh[p])
    /\ tconf.kv = "grads" /\ reduced => \A p \in Trained : Alike(grad[p])

\* The store is filled at once, when every parameter has data.
KVStoreInv ==
    /\ kv_initialized \in BOOLEAN /\ raised \in BOOLEAN
    /\ params_to_init = IF kv_initialized THEN {} ELSE Param
    /\ kv_initialized => CanInit
    /\ StoreInSync

UpdatersInv ==
    /\ DOMAIN used = Ctx \union {"kv"}
    /\ tconf.kv # "weights" => \A c \in Ctx : used[c] = optimizer
    /\ OptimizerInUse

TrainerIInv ==
    /\ tconf \in TrainerConfs /\ TrainerSupported
    /\ ReplicasInv /\ GradsInv /\ KVStoreInv /\ UpdatersInv

\* There is a first context, and the store is none of them.
LEMMA Contexts ==
    ASSUME tconf \in TrainerConfs
    PROVE  /\ First \in Ctx /\ "kv" \notin Ctx /\ tconf.kv \in {"none", "grads", "weights"}
BY Zenon, TrainerAssumption DEF Ctx, First, Range

\* Arrays on the contexts are data.
LEMMA ArraysAreData ==
    ASSUME tconf \in TrainerConfs, NEW f, DOMAIN f = Ctx
    PROVE  f # NoData
<1>1. DOMAIN NoData = {}
  BY DEF NoData
<1> QED
  BY Zenon, <1>1, Contexts

\* A value for all contexts.
LEMMA SameValue ==
    ASSUME tconf \in TrainerConfs, NEW v
    PROVE  Same(v) # NoData /\ Alike(Same(v)) /\ \A c \in Ctx : Same(v)[c] = v
<1>1. DOMAIN Same(v) = Ctx
  BY Zenon DEF Same
<1>2. Same(v) # NoData
  BY Zenon, <1>1, ArraysAreData
<1> QED
  BY Zenon, <1>2 DEF Same, Alike

\* What _init_params leaves on the contexts and in the store.
LEMMA Spreading ==
    ASSUME TrainerIInv, CanInit
    PROVE  /\ DOMAIN Spread = Param
           /\ \A p \in Param : Spread[p] # NoData /\ Alike(Spread[p])
           /\ tconf.kv = "weights" /\ ~raised =>
                \A p \in Param : \A c \in Ctx : Stored[p] = Spread[p][c]
<1>1. tconf \in TrainerConfs /\ ReplicasInv /\ KVStoreInv
  BY Zenon DEF TrainerIInv
<1>2. DOMAIN Spread = Param
  BY Zenon DEF Spread
<1>3. ASSUME NEW p \in Param
      PROVE  /\ Spread[p] # NoData /\ Alike(Spread[p])
             /\ tconf.kv = "weights" /\ ~raised => \A c \in Ctx : Stored[p] = Spread[p][c]
  <2>1. CASE p \in params_to_init /\ tconf.kv # "none"
    <3>1. Spread[p] = Same(data[p][First])
      BY Zenon, <2>1 DEF Spread
    <3>2. tconf.kv = "weights" => Stored[p] = data[p][First]
      BY Zenon, <2>1 DEF Stored
    <3>3. /\ Same(data[p][First]) # NoData /\ Alike(Same(data[p][First]))
          /\ \A c \in Ctx : Same(data[p][First])[c] = data[p][First]
      BY Zenon, <1>1, SameValue
    <3> QED
      BY Zenon, <3>1, <3>2, <3>3
  <2>2. CASE ~(p \in params_to_init /\ tconf.kv # "none")
    <3>1. Spread[p] = data[p] /\ data[p] # NoData
      BY Zenon, <2>2 DEF Spread, CanInit
    <3>2. Alike(data[p])
      BY Zenon, <1>1, <3>1 DEF ReplicasInv, ReplicasAgree, Alike
    <3>3. ASSUME tconf.kv = "weights", ~raised PROVE \A c \in Ctx : Stored[p] = data[p][c]
      <4>1. p \notin params_to_init /\ kv_initialized
        BY Zenon, <1>1, <2>2, <3>3 DEF KVStoreInv
      <4> QED
        BY Zenon, <1>1, <3>3, <4>1 DEF KVStoreInv, StoreInSync, Stored
    <3> QED
      BY Zenon, <3>1, <3>2, <3>3
  <2> QED
    BY Zenon, <2>1, <2>2
<1> QED
  BY Zenon, <1>2, <1>3

\* The arrays of a next state.
LEMMA NewReplicas ==
    ASSUME tconf' = tconf, DOMAIN data' = Param,
           \A p \in Param : data'[p] # NoData => Alike(data'[p])
    PROVE  ReplicasInv'
<1>1. Ctx' = Ctx
  BY Zenon DEF Ctx
<1> QED
  BY Zenon, <1>1 DEF ReplicasInv, ReplicasAgree, Alike

\* A call that does no more to the weights than fill the store.
LEMMA Filling ==
    ASSUME TrainerIInv, CanInit, data' = Spread, kv_weight' = Stored, kv_initialized' = TRUE,
           params_to_init' = {}, UNCHANGED <<tconf, raised>>
    PROVE  ReplicasInv' /\ KVStoreInv'
<1>1. Ctx' = Ctx
  BY Zenon DEF Ctx
<1>2. /\ DOMAIN Spread = Param
      /\ \A p \in Param : Spread[p] # NoData /\ Alike(Spread[p])
      /\ tconf.kv = "weights" /\ ~raised =>
           \A p \in Param : \A c \in Ctx : Stored[p] = Spread[p][c]
  BY Zenon, Spreading
<1>3. ReplicasInv'
  BY Zenon, <1>2, NewReplicas
<1>4. CanInit' /\ StoreInSync'
  BY Zenon, <1>1, <1>2 DEF CanInit, StoreInSync
<1>5. raised' \in BOOLEAN
  BY Zenon DEF TrainerIInv, KVStoreInv
<1> QED
  BY Zenon, <1>3, <1>4, <1>5 DEF KVStoreInv

\* _init_kvstore sets the updater of the store.
LEMMA Starting ==
    ASSUME TrainerIInv, Initialised, UNCHANGED <<tconf, optimizer>>
    PROVE  kv_initialized' = TRUE /\ params_to_init' = {} /\ UpdatersInv'
<1>1. /\ kv_initialized' = TRUE /\ params_to_init' = {} /\ Ctx' = Ctx
      /\ used' = IF kv_initialized THEN used ELSE [used EXCEPT !["kv"] = optimizer]
  BY Zenon DEF Initialised, Ctx
<1>2. UpdatersInv /\ "kv" \notin Ctx
  BY Zenon, Contexts DEF TrainerIInv
<1>3. CASE kv_initialized
  BY Zenon, <1>1, <1>2, <1>3 DEF UpdatersInv, OptimizerInUse
<1>4. CASE ~kv_initialized
  <2>1. /\ DOMAIN used' = DOMAIN used /\ used'["kv"] = optimizer
        /\ \A c \in Ctx : used'[c] = used[c]
    BY Zenon, <1>1, <1>2, <1>4 DEF UpdatersInv
  <2> QED
    BY Zenon, <1>1, <1>2, <2>1 DEF UpdatersInv, OptimizerInUse
<1> QED
  BY Zenon, <1>1, <1>3, <1>4

\* The trainer goes on being used as it was.
LEMMA UseKept ==
    ASSUME TrainerIInv, tconf' = tconf
    PROVE  tconf' \in TrainerConfs /\ TrainerSupported'
<1>1. Ctx' = Ctx
  BY Zenon DEF Ctx
<1> QED
  BY Zenon, <1>1 DEF TrainerIInv, TrainerSupported

\* The replicas of one parameter.
LEMMA OneAlike ==
    ASSUME TrainerIInv, NEW p \in Param, data[p] # NoData
    PROVE  Alike(data[p])
BY Zenon DEF TrainerIInv, ReplicasInv, ReplicasAgree, Alike

\* Calls that do not touch the weights.
LEMMA ReplicasKept ==
    ASSUME TrainerIInv, UNCHANGED <<tconf, data>>
    PROVE  ReplicasInv'
<1>1. DOMAIN data' = Param
  BY Zenon DEF TrainerIInv, ReplicasInv
<1>2. ASSUME NEW p \in Param, data'[p] # NoData PROVE Alike(data'[p])
  <2>1. data[p] # NoData /\ data'[p] = data[p]
    BY Zenon, <1>2
  <2>2. Alike(data[p])
    BY <2>1, OneAlike
  <2> QED
    BY Zenon, <2>1, <2>2
<1> QED
  BY Zenon, <1>1, <1>2, NewReplicas

\* Calls that do not touch the store, nor a weight that is in it.
LEMMA StoreKept ==
    ASSUME TrainerIInv,
           UNCHANGED <<tconf, kv_initialized, params_to_init, kv_weight, raised>>,
           kv_initialized =>
               \A p \in Param : \/ data'[p] = data[p]
                                \/ tconf.kv # "weights" /\ data'[p] # NoData
    PROVE  KVStoreInv'
<1>1. KVStoreInv /\ Ctx' = Ctx
  BY Zenon DEF TrainerIInv, Ctx
<1>2. kv_initialized => CanInit'
  BY Zenon, <1>1 DEF KVStoreInv, CanInit
<1>3. StoreInSync'
  <2> SUFFICES ASSUME tconf.kv = "weights", kv_initialized, ~raised,
                      NEW p \in Param \ params_to_init, NEW c \in Ctx
               PROVE  kv_weight[p] = data'[p][c]
    BY Zenon, <1>1 DEF StoreInSync
  <2>1. data'[p] = data[p]
    BY Zenon
  <2>2. kv_weight[p] = data[p][c]
    BY Zenon, <1>1 DEF KVStoreInv, StoreInSync
  <2> QED
    BY Zenon, <2>1, <2>2
<1> QED
  BY Zenon, <1>1, <1>2, <1>3 DEF KVStoreInv

\* Calls that do not touch the updaters.
LEMMA UpdatersKept ==
    ASSUME TrainerIInv, UNCHANGED <<tconf, used, optimizer>>, kv_initialized' => kv_initialized
    PROVE  UpdatersInv'
<1>1. UpdatersInv /\ Ctx' = Ctx
  BY Zenon DEF TrainerIInv, Ctx
<1> QED
  BY Zenon, <1>1 DEF UpdatersInv, OptimizerInUse

\* One parameter is set, on every context.
LEMMA SettingOne ==
    ASSUME TrainerIInv, NEW p \in Param, NEW v, data' = [data EXCEPT ![p] = Same(v)],
           tconf' = tconf
    PROVE  /\ ReplicasInv' /\ data'[p] # NoData
           /\ \A q \in Param : q # p => data'[q] = data[q]
<1>1. tconf \in TrainerConfs /\ DOMAIN data = Param
  BY Zenon DEF TrainerIInv, ReplicasInv
<1>2. Same(v) # NoData /\ Alike(Same(v))
  BY Zenon, <1>1, SameValue
<1>3. /\ DOMAIN data' = Param /\ data'[p] = Same(v)
      /\ \A q \in Param : q # p => data'[q] = data[q]
  BY Zenon, <1>1
<1>4. ASSUME NEW q \in Param, data'[q] # NoData PROVE Alike(data'[q])
  <2>1. CASE q = p
    BY Zenon, <1>2, <1>3, <2>1
  <2>2. CASE q # p
    <3>1. data'[q] = data[q]
      BY Zenon, <1>3, <2>2
    <3> QED
      BY Zenon, <1>4, <3>1, OneAlike
  <2> QED
    BY Zenon, <2>1, <2>2
<1>5. ReplicasInv'
  BY Zenon, <1>3, <1>4, NewReplicas
<1> QED
  BY Zenon, <1>2, <1>3, <1>5

\* The gradients of a next state.
LEMMA NewGrads ==
    ASSUME tconf' = tconf, DOMAIN grad' = Param, DOMAIN fresh' = Param, DOMAIN grad_req' = Param,
           ~tconf.partial => \A p \in Param : Alike(fresh'[p]),
           tconf.kv = "grads" /\ reduced' => \A p \in Trained' : Alike(grad'[p])
    PROVE  GradsInv'
<1>1. Ctx' = Ctx
  BY Zenon DEF Ctx
<1> QED
  BY Zenon, <1>1 DEF GradsInv, Alike

\* New gradient arrays for one parameter, which may change its grad_req.
LEMMA InitGradStep ==
    ASSUME TrainerIInv, NEW p \in Param, InitGrad(p), UNCHANGED <<tconf, reduced>>,
           DOMAIN grad_req' = Param, \A q \in Param : q # p => grad_req'[q] = grad_req[q]
    PROVE  GradsInv'
<1>1. GradsInv /\ tconf \in TrainerConfs
  BY Zenon DEF TrainerIInv
<1>2. Alike(Same(Zero)) /\ Alike(Same(FALSE))
  BY Zenon, <1>1, SameValue
<1>3. /\ DOMAIN grad' = Param /\ DOMAIN fresh' = Param
      /\ grad'[p] = Same(Zero) /\ fresh'[p] = Same(FALSE)
      /\ \A q \in Param : q # p => grad'[q] = grad[q] /\ fresh'[q] = fresh[q]
  BY Zenon, <1>1 DEF InitGrad, GradsInv
<1>4. ASSUME ~tconf.partial, NEW q \in Param PROVE Alike(fresh'[q])
  <2>1. CASE q = p
    BY Zenon, <1>2, <1>3, <2>1
  <2>2. CASE q # p
    BY Zenon, <1>1, <1>3, <1>4, <2>2 DEF GradsInv
  <2> QED
    BY Zenon, <2>1, <2>2
<1>5. ASSUME tconf.kv = "grads", reduced', NEW q \in Trained' PROVE Alike(grad'[q])
  <2>1. q \in Param /\ grad_req'[q] # "null"
    BY Zenon DEF Trained
  <2>2. CASE q = p
    BY Zenon, <1>2, <1>3, <2>2
  <2>3. CASE q # p
    <3>1. q \in Trained /\ grad'[q] = grad[q]
      BY Zenon, <1>3, <2>1, <2>3 DEF Trained
    <3> QED
      BY Zenon, <1>1, <1>5, <3>1 DEF GradsInv
  <2> QED
    BY Zenon, <2>2, <2>3
<1> QED
  BY Zenon, <1>3, <1>4, <1>5, NewGrads

\* Calls that leave the gradients alone, or give every context the same ones.
LEMMA GradsKept ==
    ASSUME TrainerIInv, UNCHANGED <<tconf, fresh, grad_req, reduced>>, DOMAIN grad' = Param,
           \A p \in Param : grad'[p] = grad[p] \/ Alike(grad'[p])
    PROVE  GradsInv'
<1>1. GradsInv /\ Trained' = Trained
  BY Zenon DEF TrainerIInv, Trained
<1>2. ASSUME tconf.kv = "grads", reduced, NEW p \in Trained PROVE Alike(grad'[p])
  <2>1. Alike(grad[p]) /\ p \in Param
    BY Zenon, <1>1, <1>2 DEF GradsInv, Trained
  <2> QED
    BY Zenon, <2>1
<1>3. ASSUME ~tconf.partial, NEW p \in Param PROVE Alike(fresh'[p])
  BY Zenon, <1>1, <1>3 DEF GradsInv
<1>4. DOMAIN fresh' = Param /\ DOMAIN grad_req' = Param
  BY Zenon, <1>1 DEF GradsInv
<1> QED
  BY Zenon, <1>1, <1>2, <1>3, <1>4, NewGrads

\* A pass over a batch, on every context unless the script leaves some out.
LEMMA BackwardInv ==
    ASSUME TrainerIInv, NEW S \in SUBSET Param, NEW C \in SUBSET Ctx, tconf.partial \/ C = Ctx,
           Backward(S, C)
    PROVE  TrainerIInv'
<1>1. /\ data' = [p \in Param |-> IF p \in S /\ data[p] = NoData THEN Same(deferred[p]) ELSE data[p]]
      /\ DOMAIN grad' = Param /\ reduced' = FALSE
      /\ fresh' = [p \in Param |-> [c \in Ctx |->
             fresh[p][c] \/ (p \in S /\ c \in C /\ grad_req[p] # "null")]]
      /\ UNCHANGED <<tconf, grad_req, kv_initialized, params_to_init, kv_weight, used, optimizer, raised>>
      /\ Ctx' = Ctx
  BY Zenon DEF Backward, FinishDeferredInit, kvVars, optVars, Ctx
<1>2. tconf \in TrainerConfs /\ TrainerSupported /\ GradsInv /\ KVStoreInv
  BY Zenon DEF TrainerIInv
<1>3. ASSUME NEW p \in Param
      PROVE  /\ data[p] # NoData => data'[p] = data[p]
             /\ data'[p] # NoData => Alike(data'[p])
  <2>1. CASE p \in S /\ data[p] = NoData
    <3>1. data'[p] = Same(deferred[p])
      BY Zenon, <1>1, <2>1
    <3> QED
      BY Zenon, <1>2, <2>1, <3>1, SameValue
  <2>2. CASE ~(p \in S /\ data[p] = NoData)
    <3>1. data'[p] = data[p]
      BY Zenon, <1>1, <2>2
    <3> QED
      BY Zenon, <3>1, OneAlike
  <2> QED
    BY Zenon, <2>1, <2>2
<1>4. ReplicasInv'
  <2>1. DOMAIN data' = Param
    BY Zenon, <1>1
  <2> QED
    BY Zenon, <1>1, <1>3, <2>1, NewReplicas
<1>5. KVStoreInv'
  <2>1. kv_initialized => \A p \in Param : data'[p] = data[p]
    BY Zenon, <1>2, <1>3 DEF KVStoreInv, CanInit
  <2> QED
    BY Zenon, <1>1, <2>1, StoreKept
<1>6. UpdatersInv'
  BY Zenon, <1>1, UpdatersKept
<1>7. GradsInv'
  <2>1. ASSUME ~tconf.partial, NEW p \in Param PROVE Alike(fresh'[p])
    <3> SUFFICES ASSUME NEW c \in Ctx, NEW d \in Ctx PROVE fresh'[p][c] = fresh'[p][d]
      BY Zenon DEF Alike
    <3>1. fresh[p][c] = fresh[p][d] /\ c \in C /\ d \in C
      BY Zenon, <1>2, <2>1 DEF GradsInv, Alike
    <3>2. /\ fresh'[p][c] = (fresh[p][c] \/ (p \in S /\ c \in C /\ grad_req[p] # "null"))
          /\ fresh'[p][d] = (fresh[p][d] \/ (p \in S /\ d \in C /\ grad_req[p] # "null"))
      BY Zenon, <1>1
    <3> QED
      BY Zenon, <3>1, <3>2
  <2>2. DOMAIN fresh' = Param /\ DOMAIN grad_req' = Param
    BY Zenon, <1>1, <1>2 DEF GradsInv
  <2> QED
    BY Zenon, <1>1, <2>1, <2>2, NewGrads
<1>8. TrainerSupported' /\ tconf' \in TrainerConfs
  BY Zenon, <1>1, UseKept
<1> QED
  BY Zenon, <1>1, <1>2, <1>4, <1>5, <1>6, <1>7, <1>8 DEF TrainerIInv

\* grad_req is set, which makes new gradient arrays.
LEMMA SetGradReqInv ==
    ASSUME TrainerIInv, NEW p \in Param, NEW req, SetGradReq(p, req)
    PROVE  TrainerIInv'
<1>1. /\ grad_req' = [grad_req EXCEPT ![p] = req] /\ InitGrad(p)
      /\ UNCHANGED <<tconf, data, kv_initialized, params_to_init, kv_weight, used, optimizer,
                     reduced, raised>>
      /\ Ctx' = Ctx
  BY Zenon DEF SetGradReq, kvVars, optVars, Ctx
<1>2. DOMAIN grad_req' = Param /\ \A q \in Param : q # p => grad_req'[q] = grad_req[q]
  BY Zenon, <1>1 DEF TrainerIInv, GradsInv
<1>3. GradsInv'
  BY Zenon, <1>1, <1>2, InitGradStep
<1>4. KVStoreInv' /\ UpdatersInv'
  BY Zenon, <1>1, StoreKept, UpdatersKept
<1>5. ReplicasInv' /\ TrainerSupported' /\ tconf' \in TrainerConfs
  BY Zenon, <1>1, UseKept, ReplicasKept
<1> QED
  BY Zenon, <1>1, <1>3, <1>4, <1>5 DEF TrainerIInv

\* zero_grad.
LEMMA ZeroGradInv ==
    ASSUME TrainerIInv, ZeroGrad
    PROVE  TrainerIInv'
<1>1. /\ grad' = [p \in Param |-> Same(Zero)]
      /\ UNCHANGED <<tconf, data, fresh, grad_req, kv_initialized, params_to_init, kv_weight, used,
                     optimizer, reduced, raised>>
      /\ Ctx' = Ctx
  BY Zenon DEF ZeroGrad, kvVars, optVars, Ctx
<1>2. tconf \in TrainerConfs
  BY Zenon DEF TrainerIInv
<1>3. Alike(Same(Zero))
  BY Zenon, <1>2, SameValue
<1>4. DOMAIN grad' = Param /\ \A p \in Param : Alike(grad'[p])
  BY Zenon, <1>1, <1>3
<1>5. GradsInv'
  BY Zenon, <1>1, <1>4, GradsKept
<1>6. KVStoreInv' /\ UpdatersInv'
  BY Zenon, <1>1, StoreKept, UpdatersKept
<1>7. ReplicasInv' /\ TrainerSupported' /\ tconf' \in TrainerConfs
  BY Zenon, <1>1, UseKept, ReplicasKept
<1> QED
  BY Zenon, <1>1, <1>2, <1>5, <1>6, <1>7 DEF TrainerIInv

\* set_data: a weight that is in the store has the store filled again.
LEMMA SetDataInv ==
    ASSUME TrainerIInv, NEW p \in Param, SetData(p)
    PROVE  TrainerIInv'
<1>1. /\ UNCHANGED <<tconf, grad, fresh, grad_req, kv_weight, used, optimizer, reduced, raised>>
      /\ Ctx' = Ctx
  BY Zenon DEF SetData, optVars, Ctx
<1>2. TrainerSupported' /\ tconf' \in TrainerConfs
  BY Zenon, <1>1, UseKept
<1>3. GradsInv'
  <2>1. DOMAIN grad' = Param
    BY Zenon, <1>1 DEF TrainerIInv, GradsInv
  <2> QED
    BY Zenon, <1>1, <2>1, GradsKept
<1>4. CASE data[p] = NoData
  <2>1. UNCHANGED <<data, kv_initialized, params_to_init>>
    BY Zenon, <1>4 DEF SetData
  <2>2. ReplicasInv' /\ KVStoreInv' /\ UpdatersInv'
    BY Zenon, <1>1, <2>1, ReplicasKept, StoreKept, UpdatersKept
  <2> QED
    BY Zenon, <1>2, <1>3, <2>2 DEF TrainerIInv
<1>5. CASE data[p] # NoData
  <2>1. /\ data' = [data EXCEPT ![p] = Same(Fresh(sets'))]
        /\ kv_initialized' = (kv_initialized /\ ~Resets(p))
        /\ params_to_init' = IF Resets(p) THEN Param ELSE params_to_init
    BY Zenon, <1>5 DEF SetData
  <2>2. /\ ReplicasInv' /\ data'[p] # NoData
        /\ \A q \in Param : q # p => data'[q] = data[q]
    BY Zenon, <1>1, <2>1, SettingOne
  <2>3. UpdatersInv'
    BY Zenon, <1>1, <2>1, UpdatersKept
  <2>4. KVStoreInv /\ kv_initialized \in BOOLEAN /\ raised \in BOOLEAN
    BY Zenon DEF TrainerIInv, KVStoreInv
  <2>5. KVStoreInv'
    <3>1. CASE Resets(p)
      <4>1. kv_initialized' = FALSE /\ params_to_init' = Param
        BY Zenon, <2>1, <3>1
      <4> QED
        BY Zenon, <1>1, <2>4, <4>1 DEF KVStoreInv, StoreInSync
    <3>2. CASE ~Resets(p)
      <4>1. kv_initialized' = kv_initialized /\ params_to_init' = params_to_init
        BY Zenon, <2>1, <2>4, <3>2
      <4>2. kv_initialized => tconf.kv # "weights"
        BY Zenon, <2>4, <3>2 DEF KVStoreInv, Resets
      <4>3. kv_initialized =>
              \A q \in Param : \/ data'[q] = data[q]
                               \/ tconf.kv # "weights" /\ data'[q] # NoData
        BY Zenon, <2>2, <4>2
      <4> QED
        BY Zenon, <1>1, <4>1, <4>3, StoreKept
    <3> QED
      BY Zenon, <3>1, <3>2
  <2> QED
    BY Zenon, <1>2, <1>3, <2>2, <2>3, <2>5 DEF TrainerIInv
<1> QED
  BY Zenon, <1>4, <1>5

\* load of a parameter that had no shape; the store cannot have it yet.
LEMMA LoadInitInv ==
    ASSUME TrainerIInv, NEW p \in Param, LoadInit(p)
    PROVE  TrainerIInv'
<1>1. /\ data[p] = NoData /\ data' = [data EXCEPT ![p] = Same(Fresh(sets'))] /\ InitGrad(p)
      /\ UNCHANGED <<tconf, grad_req, kv_initialized, params_to_init, kv_weight, used, optimizer,
                     reduced, raised>>
  BY Zenon DEF LoadInit, kvVars, optVars
<1>2. ReplicasInv'
  BY Zenon, <1>1, SettingOne
<1>3. ~kv_initialized
  BY Zenon, <1>1 DEF TrainerIInv, KVStoreInv, CanInit
<1>4. DOMAIN grad_req' = Param
  BY Zenon, <1>1 DEF TrainerIInv, GradsInv
<1>5. GradsInv' /\ KVStoreInv' /\ UpdatersInv'
  BY Zenon, <1>1, <1>3, <1>4, InitGradStep, StoreKept, UpdatersKept
<1>6. TrainerSupported' /\ tconf' \in TrainerConfs
  BY Zenon, <1>1, UseKept
<1> QED
  BY Zenon, <1>2, <1>5, <1>6 DEF TrainerIInv

\* initialize(force_reinit=True), where the store has no weights.
LEMMA InitializeInv ==
    ASSUME TrainerIInv, NEW p \in Param, Initialize(p)
    PROVE  TrainerIInv'
<1>1. /\ tconf.reinit /\ InitGrad(p)
      /\ UNCHANGED <<tconf, grad_req, kv_initialized, params_to_init, kv_weight, used, optimizer,
                     reduced, raised>>
  BY Zenon DEF Initialize, kvVars, optVars
<1>2. tconf.kv # "weights"
  BY Zenon, <1>1 DEF TrainerIInv, TrainerSupported
<1>3. DOMAIN grad_req' = Param
  BY Zenon, <1>1 DEF TrainerIInv, GradsInv
<1>4. GradsInv' /\ UpdatersInv' /\ TrainerSupported' /\ tconf' \in TrainerConfs
  BY Zenon, <1>1, <1>3, InitGradStep, UpdatersKept, UseKept
<1>5. CASE data[p] = NoData /\ p \notin shaped
  <2>1. data' = data
    BY Zenon, <1>5 DEF Initialize
  <2>2. ReplicasInv' /\ KVStoreInv'
    BY Zenon, <1>1, <2>1, ReplicasKept, StoreKept
  <2> QED
    BY Zenon, <1>4, <2>2 DEF TrainerIInv
<1>6. CASE ~(data[p] = NoData /\ p \notin shaped)
  <2>1. data' = [data EXCEPT ![p] = Same(Fresh(sets'))]
    BY Zenon, <1>6 DEF Initialize
  <2>2. /\ ReplicasInv' /\ data'[p] # NoData
        /\ \A q \in Param : q # p => data'[q] = data[q]
    BY Zenon, <1>1, <2>1, SettingOne
  <2>3. \A q \in Param : data'[q] = data[q] \/ (tconf.kv # "weights" /\ data'[q] # NoData)
    BY Zenon, <1>2, <2>2
  <2>4. KVStoreInv'
    BY Zenon, <1>1, <2>3, StoreKept
  <2> QED
    BY Zenon, <1>4, <2>2, <2>4 DEF TrainerIInv
<1> QED
  BY Zenon, <1>5, <1>6

\* _update by the trainer's updaters consumes the gradients of the contexts alike.
LEMMA LocalMarks ==
    ASSUME TrainerIInv, NEW ignore, NEW gs, UpdateLocally(ignore, gs), ~tconf.partial,
           NEW p \in Param
    PROVE  Alike(fresh'[p])
<1> SUFFICES ASSUME NEW c \in Ctx, NEW d \in Ctx PROVE fresh'[p][c] = fresh'[p][d]
  BY Zenon DEF Alike
<1>1. fresh[p][c] = fresh[p][d]
  BY Zenon DEF TrainerIInv, GradsInv, Alike
<1>2. Consumed(p, c, ignore) = Consumed(p, d, ignore)
  BY Zenon, <1>1 DEF Consumed, Takes
<1>3. /\ fresh'[p][c] = (fresh[p][c] /\ ~Consumed(p, c, ignore))
      /\ fresh'[p][d] = (fresh[p][d] /\ ~Consumed(p, d, ignore))
  BY Zenon DEF UpdateLocally
<1> QED
  BY Zenon, <1>1, <1>2, <1>3

\* And updates the weights alike, when it has summed gradients.
LEMMA LocalWeights ==
    ASSUME TrainerIInv, CanInit, NEW ignore, NEW gs, UpdateLocally(ignore, gs),
           tconf.kv # "weights", tconf.kv = "grads" => \A p \in Trained : Alike(gs[p])
    PROVE  /\ DOMAIN data' = Param
           /\ \A p \in Param : data'[p] # NoData /\ Alike(data'[p])
<1> DEFINE done == ~Stale(ignore)
<1>1. data' = [p \in Param |-> [c \in Ctx |->
          IF done /\ Takes(p, c, ignore)
          THEN Updated(Spread[p][c], gs[p][c], Count(p, c, ignore)) ELSE Spread[p][c]]]
  BY Zenon DEF UpdateLocally
<1> HIDE DEF done
<1>2. DOMAIN data' = Param
  BY Zenon, <1>1
<1>3. ASSUME NEW p \in Param PROVE data'[p] # NoData /\ Alike(data'[p])
  <2>1. /\ DOMAIN data'[p] = Ctx
        /\ \A c \in Ctx : data'[p][c] =
               IF done /\ Takes(p, c, ignore)
               THEN Updated(Spread[p][c], gs[p][c], Count(p, c, ignore)) ELSE Spread[p][c]
    BY Zenon, <1>1
  <2>2. data'[p] # NoData
    BY Zenon, <2>1, ArraysAreData DEF TrainerIInv
  <2>3. ASSUME NEW c \in Ctx, NEW d \in Ctx PROVE data'[p][c] = data'[p][d]
    <3>1. CASE c = d
      BY Zenon, <3>1
    <3>2. CASE c # d
      <4>1. tconf.kv = "grads" /\ ~tconf.partial /\ ~tconf.timed
        BY Zenon, <3>2, Contexts DEF TrainerIInv, TrainerSupported
      <4>2. Spread[p][c] = Spread[p][d]
        BY Zenon, Spreading DEF Alike
      <4>3. Takes(p, c, ignore) = Takes(p, d, ignore)
        BY Zenon, <4>1 DEF TrainerIInv, GradsInv, Alike, Takes
      <4>4. Takes(p, c, ignore) => gs[p][c] = gs[p][d]
        BY Zenon, <4>1 DEF Takes, Alike
      <4>5. CASE done /\ Takes(p, c, ignore)
        <5>1. /\ data'[p][c] = Updated(Spread[p][c], gs[p][c], Count(p, c, ignore))
              /\ data'[p][d] = Updated(Spread[p][d], gs[p][d], Count(p, d, ignore))
          BY Zenon, <2>1, <4>3, <4>5
        <5>2. Updated(Spread[p][c], gs[p][c], Count(p, c, ignore))
                = Updated(Spread[p][c], gs[p][c], Count(p, d, ignore))
          BY <4>1 DEF Updated
        <5>3. data'[p][d] = Updated(Spread[p][c], gs[p][c], Count(p, d, ignore))
          BY Zenon, <4>2, <4>4, <4>5, <5>1
        <5> QED
          BY Zenon, <5>1, <5>2, <5>3
      <4>6. CASE ~(done /\ Takes(p, c, ignore))
        BY Zenon, <2>1, <4>2, <4>3, <4>6
      <4> QED
        BY Zenon, <4>5, <4>6
    <3> QED
      BY Zenon, <3>1, <3>2
  <2> QED
    BY Zenon, <2>2, <2>3 DEF Alike
<1> QED
  BY Zenon, <1>2, <1>3

\* A step, or update, of the trainer's own updaters.
LEMMA LocallyInv ==
    ASSUME TrainerIInv, CanInit, NEW ignore, NEW gs, UpdateLocally(ignore, gs), Initialised,
           tconf.kv # "weights", tconf.kv = "grads" => \A p \in Trained : Alike(gs[p]),
           grad' = gs, DOMAIN gs = Param, raised' = (raised \/ Stale(ignore)),
           UNCHANGED <<tconf, grad_req, optimizer>>
    PROVE  TrainerIInv'
<1>1. /\ DOMAIN data' = Param
      /\ \A p \in Param : data'[p] # NoData /\ Alike(data'[p])
  BY Zenon, LocalWeights
<1>2. ReplicasInv'
  BY Zenon, <1>1, NewReplicas
<1>3. kv_initialized' = TRUE /\ params_to_init' = {} /\ UpdatersInv'
  BY Zenon, Starting
<1>4. KVStoreInv'
  <2>1. CanInit'
    BY Zenon, <1>1 DEF CanInit
  <2>2. raised' \in BOOLEAN
    BY Zenon
  <2> QED
    BY Zenon, <1>3, <2>1, <2>2 DEF KVStoreInv, StoreInSync
<1>5. GradsInv'
  <2>1. DOMAIN fresh' = Param
    BY Zenon DEF UpdateLocally
  <2>2. DOMAIN grad_req' = Param
    BY Zenon DEF TrainerIInv, GradsInv
  <2>3. Trained' = Trained
    BY Zenon DEF Trained
  <2>4. tconf.kv = "grads" => \A p \in Trained' : Alike(grad'[p])
    BY Zenon, <2>3
  <2>5. ~tconf.partial => \A p \in Param : Alike(fresh'[p])
    BY Zenon, LocalMarks
  <2> QED
    BY Zenon, <2>1, <2>2, <2>4, <2>5, NewGrads
<1> QED
  BY Zenon, <1>2, <1>3, <1>4, <1>5, UseKept DEF TrainerIInv

\* A step on the store.
LEMMA OnKVStoreInv ==
    ASSUME TrainerIInv, CanInit, NEW ignore, UpdateOnKVStore(ignore), Initialised,
           tconf.kv = "weights", DOMAIN grad' = Param, raised' = (raised \/ Stale(ignore)),
           UNCHANGED <<tconf, grad_req, optimizer>>
    PROVE  TrainerIInv'
<1>1. /\ data' = [p \in Param |-> IF p \in Checked(ignore) \intersect Trained
                                  THEN Same(Pushed[p]) ELSE Spread[p]]
      /\ kv_weight' = Pushed /\ fresh' = fresh
  BY Zenon DEF UpdateOnKVStore
<1>2. /\ \A p \in Param : Spread[p] # NoData /\ Alike(Spread[p])
      /\ ~raised => \A p \in Param : \A c \in Ctx : Stored[p] = Spread[p][c]
  BY Zenon, Spreading
<1>3. tconf \in TrainerConfs /\ Ctx' = Ctx /\ GradsInv
  BY Zenon DEF TrainerIInv, Ctx
<1>4. ASSUME NEW p \in Param
      PROVE  /\ data'[p] # NoData /\ Alike(data'[p])
             /\ ~raised' => \A c \in Ctx : Pushed[p] = data'[p][c]
  <2>1. CASE p \in Checked(ignore) \intersect Trained
    <3>1. data'[p] = Same(Pushed[p])
      BY Zenon, <1>1, <2>1
    <3>2. /\ Same(Pushed[p]) # NoData /\ Alike(Same(Pushed[p]))
          /\ \A c \in Ctx : Same(Pushed[p])[c] = Pushed[p]
      BY Zenon, <1>3, SameValue
    <3> QED
      BY Zenon, <3>1, <3>2
  <2>2. CASE p \notin Checked(ignore) \intersect Trained
    <3>1. data'[p] = Spread[p]
      BY Zenon, <1>1, <2>2
    <3>2. ASSUME ~raised' PROVE \A c \in Ctx : Pushed[p] = data'[p][c]
      <4>1. p \notin Trained /\ ~raised
        BY Zenon, <2>2, <3>2 DEF Stale
      <4>2. Pushed[p] = Stored[p]
        BY Zenon, <4>1 DEF Pushed
      <4> QED
        BY Zenon, <1>2, <3>1, <4>1, <4>2
    <3> QED
      BY Zenon, <1>2, <3>1, <3>2
  <2> QED
    BY Zenon, <2>1, <2>2
<1>5. ReplicasInv'
  <2>1. DOMAIN data' = Param
    BY Zenon, <1>1
  <2> QED
    BY Zenon, <1>4, <2>1, NewReplicas
<1>6. kv_initialized' = TRUE /\ params_to_init' = {} /\ UpdatersInv'
  BY Zenon, Starting
<1>7. KVStoreInv'
  <2>1. CanInit' /\ raised' \in BOOLEAN
    BY Zenon, <1>4 DEF CanInit
  <2>2. StoreInSync'
    BY Zenon, <1>1, <1>3, <1>4 DEF StoreInSync
  <2> QED
    BY Zenon, <1>6, <2>1, <2>2 DEF KVStoreInv
<1>8. GradsInv'
  <2>1. DOMAIN fresh' = Param /\ DOMAIN grad_req' = Param
    BY Zenon, <1>1, <1>3 DEF GradsInv
  <2>2. ~tconf.partial => \A p \in Param : Alike(fresh'[p])
    BY Zenon, <1>1, <1>3 DEF GradsInv
  <2> QED
    BY Zenon, <2>1, <2>2, NewGrads
<1> QED
  BY Zenon, <1>5, <1>6, <1>7, <1>8, UseKept DEF TrainerIInv

\* allreduce_grads leaves every context the sum.
LEMMA SumsAlike ==
    ASSUME TrainerIInv, tconf.kv = "grads", NEW p \in Trained
    PROVE  Alike(Reduced[p])
<1>1. tconf \in TrainerConfs /\ p \in Param
  BY Zenon DEF TrainerIInv, Trained
<1>2. Reduced[p] = Same(Sum(grad[p]))
  BY Zenon, <1>1 DEF Reduced
<1> QED
  BY Zenon, <1>1, <1>2, SameValue

\* step.
LEMMA StepInv ==
    ASSUME TrainerIInv, NEW ignore \in BOOLEAN, Step(ignore)
    PROVE  TrainerIInv'
<1>1. /\ CanInit /\ Initialised /\ grad' = Reduced /\ raised' = (raised \/ Stale(ignore))
      /\ UNCHANGED <<tconf, grad_req, optimizer>>
      /\ tconf.kv = "weights" => UpdateOnKVStore(ignore)
      /\ tconf.kv # "weights" => UpdateLocally(ignore, Reduced)
  BY Zenon DEF Step
<1>2. DOMAIN Reduced = Param
  BY Zenon DEF Reduced
<1>3. CASE tconf.kv = "weights"
  BY Zenon, <1>1, <1>2, <1>3, OnKVStoreInv
<1>4. CASE tconf.kv # "weights"
  <2>1. tconf.kv = "grads" => \A p \in Trained : Alike(Reduced[p])
    BY Zenon, SumsAlike
  <2> QED
    BY Zenon, <1>1, <1>2, <1>4, <2>1, LocallyInv
<1> QED
  BY Zenon, <1>3, <1>4

\* allreduce_grads.
LEMMA AllreduceGradsInv ==
    ASSUME TrainerIInv, AllreduceGrads
    PROVE  TrainerIInv'
<1>1. /\ CanInit /\ Initialised /\ grad' = Reduced /\ data' = Spread /\ kv_weight' = Stored
      /\ UNCHANGED <<tconf, fresh, grad_req, optimizer, raised>>
  BY Zenon DEF AllreduceGrads
<1>2. kv_initialized' = TRUE /\ params_to_init' = {} /\ UpdatersInv'
  BY Zenon, <1>1, Starting
<1>3. ReplicasInv' /\ KVStoreInv'
  BY Zenon, <1>1, <1>2, Filling
<1>4. GradsInv'
  <2>1. DOMAIN grad' = Param /\ DOMAIN fresh' = Param /\ DOMAIN grad_req' = Param
    BY Zenon, <1>1 DEF Reduced, TrainerIInv, GradsInv
  <2>2. ~tconf.partial => \A p \in Param : Alike(fresh'[p])
    BY Zenon, <1>1 DEF TrainerIInv, GradsInv
  <2>3. Trained' = Trained
    BY Zenon, <1>1 DEF Trained
  <2>4. tconf.kv = "grads" => \A p \in Trained' : Alike(grad'[p])
    BY Zenon, <1>1, <2>3, SumsAlike
  <2> QED
    BY Zenon, <1>1, <2>1, <2>2, <2>4, NewGrads
<1> QED
  BY Zenon, <1>1, <1>2, <1>3, <1>4, UseKept DEF TrainerIInv

\* update, of gradients that were summed before.
LEMMA UpdateInv ==
    ASSUME TrainerIInv, NEW ignore \in BOOLEAN, Update(ignore)
    PROVE  TrainerIInv'
<1>1. /\ CanInit /\ Initialised /\ tconf.kv # "weights" /\ reduced /\ UpdateLocally(ignore, grad)
      /\ grad' = grad /\ raised' = (raised \/ Stale(ignore))
      /\ UNCHANGED <<tconf, grad_req, optimizer>>
  BY Zenon DEF Update
<1>2. DOMAIN grad = Param /\ (tconf.kv = "grads" => \A p \in Trained : Alike(grad[p]))
  BY Zenon, <1>1 DEF TrainerIInv, GradsInv
<1> QED
  BY Zenon, <1>1, <1>2, LocallyInv

\* save_states.
LEMMA SaveStatesInv ==
    ASSUME TrainerIInv, SaveStates
    PROVE  TrainerIInv'
<1>1. /\ CanInit /\ Initialised /\ data' = Spread /\ kv_weight' = Stored
      /\ UNCHANGED <<tconf, grad, fresh, grad_req, optimizer, reduced, raised>>
  BY Zenon DEF SaveStates
<1>2. kv_initialized' = TRUE /\ params_to_init' = {} /\ UpdatersInv'
  BY Zenon, <1>1, Starting
<1>3. ReplicasInv' /\ KVStoreInv'
  BY Zenon, <1>1, <1>2, Filling
<1>4. DOMAIN grad' = Param
  BY Zenon, <1>1 DEF TrainerIInv, GradsInv
<1>5. GradsInv'
  BY Zenon, <1>1, <1>4, GradsKept
<1> QED
  BY Zenon, <1>1, <1>2, <1>3, <1>5, UseKept DEF TrainerIInv

\* load_states gives every updater in use the new optimizer.
LEMMA LoadStatesInv ==
    ASSUME TrainerIInv, LoadStates
    PROVE  TrainerIInv'
<1>1. /\ CanInit /\ data' = Spread /\ kv_weight' = Stored
      /\ kv_initialized' = TRUE /\ params_to_init' = {} /\ optimizer' = calls'
      /\ used' = [u \in DOMAIN used |-> LoadedOptimizer(u, calls')]
      /\ UNCHANGED <<tconf, grad, fresh, grad_req, reduced, raised>>
      /\ Ctx' = Ctx
  BY Zenon DEF LoadStates, Ctx
<1>2. ReplicasInv' /\ KVStoreInv'
  BY Zenon, <1>1, Filling
<1>3. DOMAIN grad' = Param
  BY Zenon, <1>1 DEF TrainerIInv, GradsInv
<1>4. GradsInv'
  BY Zenon, <1>1, <1>3, GradsKept
<1>5. UpdatersInv'
  <2>1. DOMAIN used = Ctx \union {"kv"} /\ "kv" \notin Ctx
    BY Zenon, Contexts DEF TrainerIInv, UpdatersInv
  <2>2. /\ DOMAIN used' = Ctx \union {"kv"}
        /\ tconf.kv = "weights" => used'["kv"] = calls'
        /\ tconf.kv # "weights" => \A c \in Ctx : used'[c] = calls'
    BY Zenon, <1>1, <2>1 DEF LoadedOptimizer
  <2> QED
    BY Zenon, <1>1, <2>2 DEF UpdatersInv, OptimizerInUse
<1> QED
  BY Zenon, <1>1, <1>2, <1>4, <1>5, UseKept DEF TrainerIInv

\* A new trainer satisfies the invariant.
LEMMA TrainerInitInv ==
    ASSUME TrainerInit, TrainerSupported
    PROVE  TrainerIInv
<1>1. /\ tconf \in TrainerConfs
      /\ data = [p \in Param |-> IF p \in tconf.deferred THEN NoData ELSE Same(Fresh(0))]
      /\ grad = [p \in Param |-> Same(Zero)] /\ fresh = [p \in Param |-> Same(FALSE)]
      /\ grad_req = [p \in Param |-> "write"]
      /\ kv_initialized = FALSE /\ params_to_init = Param /\ optimizer = 0
      /\ used = [u \in Ctx \union {"kv"} |-> 0] /\ reduced = FALSE /\ raised = FALSE
  BY Zenon DEF TrainerInit
<1>2. Alike(Same(FALSE)) /\ Alike(Same(Fresh(0)))
  BY Zenon, <1>1, SameValue
<1>3. ReplicasInv
  <2>1. DOMAIN data = Param
    BY Zenon, <1>1
  <2>2. ASSUME NEW p \in Param, data[p] # NoData PROVE Alike(data[p])
    <3>1. data[p] = Same(Fresh(0))
      BY Zenon, <1>1, <2>2
    <3> QED
      BY Zenon, <1>2, <3>1
  <2> QED
    BY Zenon, <2>1, <2>2 DEF ReplicasInv, ReplicasAgree, Alike
<1>4. GradsInv
  <2>1. \A p \in Param : Alike(fresh[p])
    BY Zenon, <1>1, <1>2
  <2> QED
    BY Zenon, <1>1, <2>1 DEF GradsInv
<1>5. KVStoreInv
  BY Zenon, <1>1 DEF KVStoreInv, StoreInSync
<1>6. UpdatersInv
  BY Zenon, <1>1 DEF UpdatersInv, OptimizerInUse
<1> QED
  BY Zenon, <1>1, <1>3, <1>4, <1>5, <1>6 DEF TrainerIInv

\* Every call keeps it.
LEMMA TrainerNextInv ==
    ASSUME TrainerIInv, [TrainerNext]_trainerVars
    PROVE  TrainerIInv'
<1>1. ASSUME NEW S \in SUBSET Param \ {{}}, NEW C \in SUBSET Ctx \ {{}},
             tconf.partial \/ C = Ctx, Backward(S, C)
      PROVE  TrainerIInv'
  BY Zenon, <1>1, BackwardInv
<1>2. ASSUME NEW p \in Param, NEW req \in tconf.reqs, SetGradReq(p, req) PROVE TrainerIInv'
  BY Zenon, <1>2, SetGradReqInv
<1>3. ASSUME NEW p \in Param, SetData(p) PROVE TrainerIInv'
  BY Zenon, <1>3, SetDataInv
<1>4. ASSUME NEW p \in Param, LoadInit(p) PROVE TrainerIInv'
  BY Zenon, <1>4, LoadInitInv
<1>5. ASSUME NEW p \in Param, Initialize(p) PROVE TrainerIInv'
  BY Zenon, <1>5, InitializeInv
<1>6. CASE ZeroGrad
  BY Zenon, <1>6, ZeroGradInv
<1>7. ASSUME NEW ignore \in BOOLEAN, Step(ignore) PROVE TrainerIInv'
  BY Zenon, <1>7, StepInv
<1>8. ASSUME NEW ignore \in BOOLEAN, Update(ignore) PROVE TrainerIInv'
  BY Zenon, <1>8, UpdateInv
<1>9. CASE AllreduceGrads
  BY Zenon, <1>9, AllreduceGradsInv
<1>10. CASE SaveStates
  BY Zenon, <1>10, SaveStatesInv
<1>11. CASE LoadStates
  BY Zenon, <1>11, LoadStatesInv
<1>12. CASE UNCHANGED trainerVars
  <2>1. UNCHANGED <<tconf, data, grad, fresh, grad_req, kv_initialized, params_to_init, kv_weight,
                    used, optimizer, reduced, raised>>
    BY Zenon, <1>12 DEF trainerVars, paramVars, kvVars, optVars, countVars
  <2>2. DOMAIN grad' = Param
    BY Zenon, <2>1 DEF TrainerIInv, GradsInv
  <2>3. ReplicasInv' /\ GradsInv' /\ KVStoreInv' /\ UpdatersInv'
    BY Zenon, <2>1, <2>2, ReplicasKept, GradsKept, StoreKept, UpdatersKept
  <2> QED
    BY Zenon, <2>1, <2>3, UseKept DEF TrainerIInv
<1> QED
  BY Zenon, <1>1, <1>2, <1>3, <1>4, <1>5, <1>6, <1>7, <1>8, <1>9, <1>10, <1>11, <1>12 DEF TrainerNext

\* The invariant holds in every state of a trainer used in a supported way.
THEOREM TrainerInvariant ==
    TrainerSpec /\ TrainerSupported => []TrainerIInv
<1>1. TrainerInit /\ TrainerSupported => TrainerIInv
  BY Zenon, TrainerInitInv
<1>2. TrainerIInv /\ [TrainerNext]_trainerVars => TrainerIInv'
  BY Zenon, TrainerNextInv
<1> QED
  BY <1>1, <1>2, PTL DEF TrainerSpec

\* The contexts' replicas of a parameter stay equal over any calls, also over
\* steps that raise because of a stale gradient, and that ignore them.
THEOREM ReplicasNeverDiverge ==
    TrainerSpec /\ TrainerSupported => []ReplicasAgree
<1>1. TrainerIInv => ReplicasAgree
  BY Zenon DEF TrainerIInv, ReplicasInv
<1> QED
  BY <1>1, TrainerInvariant, PTL

\* The weight in the store is the one on the devices, also after set_data, which
\* resets the store, as long as no step has raised between push and pull.
THEOREM StoreHoldsTheWeights ==
    TrainerSpec /\ TrainerSupported => []StoreInSync
<1>1. TrainerIInv => StoreInSync
  BY Zenon DEF TrainerIInv, KVStoreInv
<1> QED
  BY <1>1, TrainerInvariant, PTL

\* The optimizer whose learning rate the user sets is the one the updaters use,
\* after any saving, loading and resetting.
THEOREM UpdatersUseTheOptimizer ==
    TrainerSpec /\ TrainerSupported => []OptimizerInUse
<1>1. TrainerIInv => OptimizerInUse
  BY Zenon DEF TrainerIInv, UpdatersInv
<1> QED
  BY <1>1, TrainerInvariant, PTL
=============================================================================
