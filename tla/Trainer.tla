------------------------------- MODULE Trainer ------------------------------
(***************************************************************************)
(* gluon.Trainer with its Parameters, kvstore and optimizer, as a training *)
(* script drives them: one action per call.                                *)
(*                                                                         *)
(* A gradient array is a bag of contributions <<backward pass, context>>.  *)
(* A weight is the value it was last set to with the updates since: for    *)
(* each the gradient, and the update count when the optimizer uses it.     *)
(***************************************************************************)
EXTENDS Naturals, Sequences, FiniteSets, Functions

CONSTANTS
    N,            \* number of parameters, 1 .. N in the order of the trainer
    TrainerConfs, \* see tconf
    MaxBackward,  \* bound: backward passes
    MaxCalls      \* bound: calls other than backward passes

VARIABLES
    tconf,        \* how the trainer is used, one of TrainerConfs:
                  \*   kv: "none" without a kvstore, "grads" when it only sums
                  \*       gradients, "weights" for update_on_kvstore
                  \*   ctx: the contexts; deferred: parameters without a shape
                  \*   reqs: the values of grad_req it sets
                  \*   timed: the optimizer uses its update count (Adam)
                  \*   partial: a batch may leave out contexts
                  \*   reinit: initialize(force_reinit=True) may be called
    data,         \* Parameter._data: for each context a weight, or NoData
    deferred,     \* Parameter._deferred_init: what it will be set to, or NoData
    shaped,       \* the parameters without data that have a shape
    grad,         \* Parameter._grad (empty bags when there is none)
    fresh,        \* NDArray._fresh_grad of each weight
    grad_req,
    kv_initialized, params_to_init,
    kv_weight,    \* what the kvstore holds, when it holds weights
    kv_states,    \* states of the kvstore's updater: updates made, 0 for none
    states,       \* states of the trainer's updaters, by context
    index_update_count,
    optimizer,    \* identity of Trainer._optimizer
    used,         \* identity of the optimizer of each updater, by context or "kv"
    saved,        \* what save_states has written
    backs, calls, sets,   \* passes, calls and values so far
    reduced,              \* allreduce_grads was called after the last backward
    raised,               \* history: a step has raised
    summed,               \* history: parameters whose gradient arrays hold sums
    resummed              \* history: <<p, pass>> whose sums were summed again

paramVars == <<data, deferred, shaped, grad, fresh, grad_req>>
kvVars == <<kv_initialized, params_to_init, kv_weight, kv_states>>
optVars == <<states, index_update_count, optimizer, used, saved>>
sumVars == <<summed, resummed>>
countVars == <<backs, calls, sets, reduced, raised, sumVars>>
trainerVars == <<tconf, paramVars, kvVars, optVars, countVars>>

\* _data = None and _deferred_init = (): no value for any context.
NoData == <<>>

ASSUME TrainerAssumption ==
    \A t \in TrainerConfs : /\ t.kv \in {"none", "grads", "weights"}
                           /\ 1 \in DOMAIN t.ctx /\ "kv" \notin Range(t.ctx)

Param == 1 .. N
Ctx == Range(tconf.ctx)
Contribution == (1 .. MaxBackward) \X Ctx
Zero == [x \in Contribution |-> 0]
Plus(g, h) == [x \in Contribution |-> g[x] + h[x]]
Sum(gs) == FoldFunction(Plus, Zero, gs)

Fresh(n) == [base |-> n, ups |-> <<>>]
Same(v) == [c \in Ctx |-> v]
\* One call of the optimizer on a weight; t is its update count.
Updated(v, g, t) ==
    [v EXCEPT !.ups = Append(@, [g |-> g, t |-> IF tconf.timed THEN t ELSE 0])]

TrainerInit ==
    /\ tconf \in TrainerConfs
    /\ data = [p \in Param |-> IF p \in tconf.deferred THEN NoData ELSE Same(Fresh(0))]
    /\ deferred = [p \in Param |-> IF p \in tconf.deferred THEN Fresh(0) ELSE NoData]
    /\ shaped = {}
    /\ grad = [p \in Param |-> Same(Zero)]
    /\ fresh = [p \in Param |-> Same(FALSE)]
    /\ grad_req = [p \in Param |-> "write"]
    /\ kv_initialized = FALSE /\ params_to_init = Param
    /\ kv_weight = [p \in Param |-> NoData]
    /\ kv_states = [p \in Param |-> 0]
    /\ states = Same([p \in Param |-> 0])
    /\ index_update_count = [p \in Param |-> 0]
    /\ optimizer = 0
    /\ used = [u \in Ctx \union {"kv"} |-> 0]
    /\ saved = NoData
    /\ backs = 0 /\ calls = 0 /\ sets = 0
    /\ reduced = FALSE /\ raised = FALSE
    /\ summed = {} /\ resummed = {}

Calls == calls < MaxCalls /\ calls' = calls + 1

-----------------------------------------------------------------------------
(* Parameters.                                                             *)

FinishDeferredInit(S) ==
    /\ data' = [p \in Param |-> IF p \in S /\ data[p] = NoData THEN Same(deferred[p]) ELSE data[p]]
    /\ deferred' = [p \in Param |-> IF p \in S THEN NoData ELSE deferred[p]]

\* Forward with the parameters in S, which finishes deferred initialisation,
\* and backward on the contexts in C.
Backward(S, C) ==
    /\ backs < MaxBackward
    /\ backs' = backs + 1
    /\ FinishDeferredInit(S)
    /\ LET on(p, c) == p \in S /\ c \in C /\ grad_req[p] # "null"
           new(c) == [Zero EXCEPT ![<<backs', c>>] = 1]
       IN /\ grad' = [p \in Param |-> [c \in Ctx |->
                 IF ~on(p, c) THEN grad[p][c]
                 ELSE IF grad_req[p] = "add" THEN Plus(grad[p][c], new(c)) ELSE new(c)]]
          /\ fresh' = [p \in Param |-> [c \in Ctx |-> fresh[p][c] \/ on(p, c)]]
    /\ reduced' = FALSE
    /\ summed' = IF C = Ctx THEN summed \ S ELSE summed
    /\ UNCHANGED <<tconf, shaped, grad_req, kvVars, optVars, calls, sets, raised, resummed>>

\* New gradient arrays, marked anew (detach, for "null").
InitGrad(p) ==
    /\ grad' = [grad EXCEPT ![p] = Same(Zero)]
    /\ fresh' = [fresh EXCEPT ![p] = Same(FALSE)]
    /\ summed' = summed \ {p}

SetGradReq(p, req) ==
    /\ Calls
    /\ req # grad_req[p]
    /\ grad_req' = [grad_req EXCEPT ![p] = req]
    /\ InitGrad(p)
    /\ UNCHANGED <<tconf, data, deferred, shaped, kvVars, optVars, backs, sets, reduced, raised,
                   resummed>>

ZeroGrad ==
    /\ Calls
    /\ grad' = [p \in Param |-> Same(Zero)]
    /\ summed' = {}
    /\ UNCHANGED <<tconf, data, deferred, shaped, fresh, grad_req, kvVars, optVars,
                   backs, sets, reduced, raised, resummed>>

\* Trainer._reset_kvstore.
NoReset(p) == FALSE
Resets(p) ==
    kv_initialized /\ tconf.kv = "weights" /\ p \notin params_to_init

\* Parameter.set_data, also from load when there are data.
SetData(p) ==
    /\ Calls
    /\ sets' = sets + 1
    /\ IF data[p] = NoData
       THEN /\ deferred' = [deferred EXCEPT ![p] = Fresh(sets')]
            /\ shaped' = shaped \union {p}
            /\ UNCHANGED <<data, kv_initialized, params_to_init>>
       ELSE /\ data' = [data EXCEPT ![p] = Same(Fresh(sets'))]
            /\ kv_initialized' = (kv_initialized /\ ~Resets(p))
            /\ params_to_init' = IF Resets(p) THEN Param ELSE params_to_init
            /\ UNCHANGED <<deferred, shaped>>
    /\ UNCHANGED <<tconf, grad, fresh, grad_req, kv_weight, kv_states, optVars,
                   backs, reduced, raised, sumVars>>

\* ParameterDict.load of a parameter that has no data: the file gives its shape.
LoadInit(p) ==
    /\ Calls
    /\ data[p] = NoData
    /\ sets' = sets + 1
    /\ data' = [data EXCEPT ![p] = Same(Fresh(sets'))]
    /\ deferred' = [deferred EXCEPT ![p] = NoData]
    /\ InitGrad(p)
    /\ UNCHANGED <<tconf, shaped, grad_req, kvVars, optVars, backs, reduced, raised, resummed>>

\* Parameter.initialize(force_reinit=True); it waits for a missing shape.
Initialize(p) ==
    /\ tconf.reinit
    /\ Calls
    /\ sets' = sets + 1
    /\ IF data[p] = NoData /\ p \notin shaped
       THEN deferred' = [deferred EXCEPT ![p] = Fresh(sets')] /\ UNCHANGED data
       ELSE /\ data' = [data EXCEPT ![p] = Same(Fresh(sets'))]
            /\ deferred' = [deferred EXCEPT ![p] = NoData]
    /\ InitGrad(p)
    /\ UNCHANGED <<tconf, shaped, grad_req, kvVars, optVars, backs, reduced, raised, resummed>>

-----------------------------------------------------------------------------
(* The trainer.  _init_kvstore reads every parameter, and raises when one  *)
(* is deferred; it sets a new updater, and _init_params gives the store    *)
(* the first replica of each parameter and copies it to the others.        *)

CanInit == \A p \in Param : data[p] # NoData
First == tconf.ctx[1]

Stored == [p \in Param |->
    IF p \in params_to_init /\ tconf.kv = "weights" THEN data[p][First] ELSE kv_weight[p]]
Spread == [p \in Param |->
    IF p \in params_to_init /\ tconf.kv # "none" THEN Same(data[p][First]) ELSE data[p]]
Initialised ==
    /\ kv_initialized' = TRUE
    /\ params_to_init' = {}
    /\ used' = IF kv_initialized THEN used ELSE [used EXCEPT !["kv"] = optimizer]

Trained == {p \in Param : grad_req[p] # "null"}

ReducedNot == grad
\* _allreduce_grads: every gradient is pushed, and the sum of the contexts
\* updates the stored weight or comes back into the gradient arrays.
Reduced == [p \in Param |->
    IF tconf.kv = "grads" /\ p \in Trained THEN Same(Sum(grad[p])) ELSE grad[p]]
Pushed == [p \in Param |->
    IF tconf.kv = "weights" /\ p \in Trained
    THEN Updated(Stored[p], Sum(grad[p]), index_update_count[p] + 1) ELSE Stored[p]]
PushCount == [p \in Param |->
    index_update_count[p] + IF tconf.kv = "weights" /\ p \in Trained THEN 1 ELSE 0]
PushStates == [p \in Param |->
    (IF kv_initialized THEN kv_states[p] ELSE 0)
        + IF tconf.kv = "weights" /\ p \in Trained THEN 1 ELSE 0]

Again == IF Len(tconf.ctx) > 1 THEN Trained \intersect summed ELSE {}
Summed ==
    /\ summed' = IF tconf.kv = "grads" THEN summed \union Trained ELSE summed
    /\ resummed' = resummed \union {r \in Again \X (1 .. MaxBackward) :
                      \E c, d \in Ctx : grad[r[1]][c][<<r[2], d>>] > 0}

\* The parameters that _update handles before it meets a stale gradient.
Checked(ignore) ==
    {p \in Param : ignore \/ \A q \in Trained : q <= p => \A c \in Ctx : fresh[q][c]}
Stale(ignore) == Trained \ Checked(ignore) # {}

\* The weights that an updater updates.
AnyReplica(p, c, ignore) == p \in Trained
Takes(p, c, ignore) == p \in Trained /\ (ignore => fresh[p][c])
Before(c) == {d \in Ctx : \E i, j \in 1 .. Len(tconf.ctx) :
                 i < j /\ tconf.ctx[i] = d /\ tconf.ctx[j] = c}
\* The updaters share one optimizer, which counts the updates of all of them.
Count(p, c, ignore) ==
    index_update_count[p] + Cardinality({d \in Before(c) \union {c} : Takes(p, d, ignore)})

\* _update on the kvstore: weights are pulled up to the first stale gradient.
UpdateOnKVStore(ignore) ==
    /\ data' = [p \in Param |-> IF p \in Checked(ignore) \intersect Trained
                                THEN Same(Pushed[p]) ELSE Spread[p]]
    /\ kv_weight' = Pushed /\ kv_states' = PushStates
    /\ index_update_count' = PushCount
    /\ UNCHANGED <<fresh, states>>

\* _update by the trainer's updaters, after the last gradient is checked.
Consumed(p, c, ignore) == p \in Checked(ignore) /\ Takes(p, c, ignore)
UpdateLocally(ignore, gs) ==
    LET done == ~Stale(ignore) IN
    /\ fresh' = [p \in Param |-> [c \in Ctx |-> fresh[p][c] /\ ~Consumed(p, c, ignore)]]
    /\ data' = [p \in Param |-> [c \in Ctx |->
          IF done /\ Takes(p, c, ignore)
          THEN Updated(Spread[p][c], gs[p][c], Count(p, c, ignore)) ELSE Spread[p][c]]]
    /\ states' = [c \in Ctx |-> [p \in Param |->
          states[c][p] + IF done /\ Takes(p, c, ignore) THEN 1 ELSE 0]]
    /\ index_update_count' = [p \in Param |->
          index_update_count[p] +
              Cardinality({c \in Ctx : done /\ Takes(p, c, ignore)})]
    /\ kv_weight' = Stored
    /\ UNCHANGED kv_states

Step(ignore) ==
    /\ Calls
    /\ CanInit
    /\ Initialised
    /\ grad' = Reduced /\ Summed
    /\ IF tconf.kv = "weights" THEN UpdateOnKVStore(ignore) ELSE UpdateLocally(ignore, Reduced)
    /\ raised' = (raised \/ Stale(ignore))
    /\ UNCHANGED <<tconf, deferred, shaped, grad_req, optimizer, saved, backs, sets, reduced>>

\* allreduce_grads and update, which the user may call instead of step.
AllreduceGrads ==
    /\ Calls
    /\ CanInit /\ tconf.kv # "weights"
    /\ Initialised
    /\ grad' = Reduced /\ Summed /\ reduced' = TRUE
    /\ data' = Spread /\ kv_weight' = Stored
    /\ UNCHANGED <<tconf, deferred, shaped, fresh, grad_req, kv_states, states, index_update_count,
                   optimizer, saved, backs, sets, raised>>

Update(ignore) ==
    /\ Calls
    /\ CanInit /\ tconf.kv # "weights" /\ reduced
    /\ Initialised
    /\ UpdateLocally(ignore, grad)
    /\ raised' = (raised \/ Stale(ignore))
    /\ UNCHANGED <<tconf, deferred, shaped, grad, grad_req, optimizer, saved, backs, sets, reduced,
                   sumVars>>

\* Trainer.save_states.
SaveStates ==
    /\ Calls
    /\ CanInit
    /\ Initialised
    /\ data' = Spread /\ kv_weight' = Stored
    /\ kv_states' = IF kv_initialized THEN kv_states ELSE [p \in Param |-> 0]
    /\ saved' = [states |-> IF tconf.kv = "weights" THEN kv_states' ELSE states[First],
                 count |-> index_update_count]
    /\ UNCHANGED <<tconf, deferred, shaped, grad, fresh, grad_req, states, index_update_count,
                   optimizer, backs, sets, reduced, raised, sumVars>>

\* The optimizer each updater has after load_states has unpickled new ones.
FirstOnly(u, new) == IF u = (IF tconf.kv = "weights" THEN "kv" ELSE First) THEN new ELSE used[u]
LoadedOptimizer(u, new) ==
    IF (u = "kv") = (tconf.kv = "weights") THEN new ELSE used[u]

LoadStates ==
    /\ Calls
    /\ CanInit /\ saved # NoData
    /\ kv_initialized' = TRUE /\ params_to_init' = {}
    /\ data' = Spread /\ kv_weight' = Stored
    /\ kv_states' = IF tconf.kv = "weights" THEN saved.states ELSE kv_states
    /\ states' = IF tconf.kv = "weights" THEN states ELSE [c \in Ctx |-> saved.states]
    /\ index_update_count' = saved.count
    /\ optimizer' = calls'
    /\ used' = [u \in DOMAIN used |-> LoadedOptimizer(u, calls')]
    /\ UNCHANGED <<tconf, deferred, shaped, grad, fresh, grad_req, saved, backs, sets, reduced,
                   raised, sumVars>>

TrainerNext ==
    \/ \E S \in SUBSET Param \ {{}} :
         \E C \in SUBSET Ctx \ {{}} : (tconf.partial \/ C = Ctx) /\ Backward(S, C)
    \/ \E p \in Param : \/ \E req \in tconf.reqs : SetGradReq(p, req)
                        \/ SetData(p) \/ LoadInit(p) \/ Initialize(p)
    \/ ZeroGrad
    \/ \E ignore \in BOOLEAN : Step(ignore) \/ Update(ignore)
    \/ AllreduceGrads
    \/ SaveStates \/ LoadStates

TrainerSpec == TrainerInit /\ [][TrainerNext]_trainerVars

-----------------------------------------------------------------------------
\* "Copies are independent arrays ... gluon.Trainer does this for you": the
\* replicas of a parameter hold the same value after every call.
ReplicasAgree ==
    \A p \in Param : data[p] # NoData => \A c, d \in Ctx : data[p][c] = data[p][d]

\* update_on_kvstore: between calls the weight in the store is the weight on
\* the devices, also after set_data: what a step pulls is the value the user
\* has seen with one more update.
StoreInSync ==
    tconf.kv = "weights" /\ kv_initialized /\ ~raised =>
        \A p \in Param \ params_to_init : \A c \in Ctx : kv_weight[p] = data[p][c]

\* Without update_on_kvstore.  Unless a step has raised, a gradient that is no
\* longer fresh is the last one applied: marking it and updating the weight go
\* together.  What a context contributed to a backward pass enters at most one
\* update of a replica, whatever steps raise and are called again, and enters it
\* once: only when arrays that hold sums are summed again, because the step that
\* summed them raised or allreduce_grads was called before, does it count more
\* (grad_req "add" means to).
AppliedOnce ==
    tconf.kv # "weights" => \A p \in Param : data[p] # NoData => \A c \in Ctx :
        LET ups == data[p][c].ups IN
        /\ ~raised /\ ~fresh[p][c] /\ grad[p][c] # Zero /\ ups # <<>> =>
             \A x \in Contribution : (grad[p][c][x] > 0) = (ups[Len(ups)].g[x] > 0)
        /\ "add" \notin tconf.reqs => \A x \in Contribution, i \in DOMAIN ups :
             /\ \A j \in DOMAIN ups : i # j => ups[i].g[x] = 0 \/ ups[j].g[x] = 0
             /\ <<p, x[1]>> \notin resummed => ups[i].g[x] <= 1

\* The optimizer that the trainer gives its learning rate and gradient scale is
\* the one that updates the weights, after any save, load and reset.
OptimizerInUse ==
    kv_initialized => IF tconf.kv = "weights" THEN used["kv"] = optimizer
                      ELSE \A c \in Ctx : used[c] = optimizer
=============================================================================
