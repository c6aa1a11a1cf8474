---------------------------- MODULE EngineClient ----------------------------
(***************************************************************************)
(* What the engine's clients see: pushes gathered into bulks, WaitForVar   *)
(* and WaitForAll on the condition variable finished_cv_, and the          *)
(* exceptions that operators leave on variables.  Scheduling is the        *)
(* abstract DependencyEngine, which ThreadedEngine implements: the actions *)
(* below are its Issue, Reach, Start, GiveUp and Finish together with what *)
(* the code does around them.                                              *)
(*                                                                         *)
(* An exception cell is a shared std::exception_ptr.  A block's function   *)
(* throws at most once, so the cell it makes carries the block's name.     *)
(***************************************************************************)
EXTENDS DependencyEngine, Naturals, Sequences, FiniteSets, Functions

CONSTANTS
    Client,      \* the threads that call the engine
    SyncOpr,     \* the operators they give to PushSync,
    AsyncOpr,    \* and to PushAsync
    BulkSizes,   \* the arguments of set_bulk_size
    Deletable,   \* the variables they may delete
    MayThrow,    \* whether a function may throw
    MayShutDown  \* whether NotifyShutdown may be called

ASSUME ClientAssumption ==
    /\ BulkSizes \subseteq Nat
    /\ Deletable \subseteq Var
    /\ {MayThrow, MayShutDown} \subseteq BOOLEAN
    /\ None \notin Blk \cup Client
    /\ SyncOpr \cup AsyncOpr \subseteq
         [const_vars : SUBSET Var, mutable_vars : SUBSET Var, prop : {"kNormal"}, wait : {FALSE}]

VARIABLES
    exec,           \* how far ExecuteOprBlock is with a started block
    cell,           \* the exception_ptr a block's function made
    opr_exception,  \* the cell of a block's operator
    marked,         \* the mutable variable OnComplete is about to hand the cell
    var_exception,  \* the cell of a variable
    pending,        \* pending_
    mutex,          \* who holds finished_m_ between testing and sleeping
    asleep,         \* the clients that sleep on finished_cv_
    done,           \* the done flag of a client's WaitForVar
    pc,             \* what a client is doing
    arg,            \* the variable a client waits for
    out,            \* the operators a client's call still has to push
    blk,            \* the block a client is pushing
    caller,         \* the client that pushed a block
    bulk,           \* a client's BulkStatus
    tmp,            \* the exception ThrowException has read
    shutdown,       \* shutdown_phase_
    sees,           \* history: the failures behind what a block reads
    taint,          \* history: the failures behind a variable's value
    thrown          \* history: how often an exception was rethrown

xvars == <<cell, opr_exception, marked, var_exception, sees, taint>>
evars == <<exec, xvars>>
wvars == <<mutex, asleep, done, pending>>
cvars == <<pc, arg, out, blk, caller, bulk, tmp, thrown>>
vars == <<avars, evars, wvars, cvars, shutdown>>

(* BulkStatus right after a flush *)
EmptyBulk(n) == [bulk_size |-> n, count |-> 0, const_vars |-> {}, mutable_vars |-> {}]

Init ==
    /\ AInit
    /\ exec = [b \in Blk |-> "none"]
    /\ cell = [b \in Blk |-> "none"]
    /\ opr_exception = [b \in Blk |-> None]
    /\ marked = [b \in Blk |-> {}]
    /\ var_exception = [v \in Var |-> None]
    /\ sees = [b \in Blk |-> {}]
    /\ taint = [v \in Var |-> {}]
    /\ mutex = None
    /\ asleep = {}
    /\ done = [t \in Client |-> FALSE]
    /\ pending = 0
    /\ pc = [t \in Client |-> "idle"]
    /\ arg = [t \in Client |-> None]
    /\ out = [t \in Client |-> <<>>]
    /\ blk = [t \in Client |-> None]
    /\ caller = [b \in Blk |-> None]
    /\ bulk = [t \in Client |-> EmptyBulk(0)]
    /\ tmp = [t \in Client |-> None]
    /\ thrown = [b \in Blk |-> 0]
    /\ shutdown = FALSE

(***************************************************************************)
(* Calls.                                                                  *)
(***************************************************************************)
(* The operators pushed for WaitForVar, DeleteVariable and a bulk; the last  *)
(* one uses every variable of its parts once (DeduplicateVarHandle).         *)
WaitOpr(v) ==
    [const_vars |-> {v}, mutable_vars |-> {}, prop |-> "kNormal", wait |-> TRUE]
DeleteOpr(v) ==
    [const_vars |-> {}, mutable_vars |-> {v}, prop |-> "kDeleteVar", wait |-> FALSE]
BulkOpr(k) ==
    [const_vars |-> k.const_vars \ k.mutable_vars, mutable_vars |-> k.mutable_vars,
     prop |-> "kNormal", wait |-> FALSE]

(* Bound: a client makes a call only while there is a block for everything   *)
(* that the calls under way and the open bulks still have to push.           *)
Owed(t) == Len(out[t]) + (IF pc[t] = "test" THEN 1 ELSE 0)
                       + (IF bulk[t].count > 0 THEN 1 ELSE 0)
CanPush(n) ==
    SumFunction([t \in Client |-> Owed(t)]) + n
        <= Cardinality({b \in Blk : stage[b] = "new"})

Pushed(t) == out[t] = <<>> /\ blk[t] = None
Idle(t) == pc[t] = "idle" /\ Pushed(t)

(* A variable is deleted by whoever uses it last. *)
Deleted(v) ==
    \/ \E b \in Blk : stage[b] # "new" /\ opr[b] = DeleteOpr(v)
    \/ \E t \in Client : DeleteOpr(v) \in Range(out[t])
Usable(V) == \A v \in V : ~Deleted(v)

(* BulkFlush, and then the operators in rest. *)
BulkFlushForgotten(t, rest) ==
    /\ out' = [out EXCEPT ![t] = rest]
    /\ UNCHANGED bulk
BulkFlush(t, rest) ==
    LET k == bulk[t] IN
    /\ out' = [out EXCEPT ![t] = (IF k.count = 0 THEN <<>> ELSE <<BulkOpr(k)>>) \o rest]
    /\ bulk' = [bulk EXCEPT ![t] = EmptyBulk(k.bulk_size)]

(* BulkAppend: the bulk k with o, flushed when it is full. *)
FullTooLate(k) == k.count > k.bulk_size
Full(k) == k.count >= k.bulk_size

BulkAppend(t, k, o, before) ==
    LET j == [bulk_size |-> k.bulk_size, count |-> k.count + 1,
              const_vars |-> k.const_vars \cup o.const_vars,
              mutable_vars |-> k.mutable_vars \cup o.mutable_vars] IN
    /\ out' = [out EXCEPT ![t] = before \o IF Full(j) THEN <<BulkOpr(j)>> ELSE <<>>]
    /\ bulk' = [bulk EXCEPT ![t] = IF Full(j) THEN EmptyBulk(j.bulk_size) ELSE j]

(* PushSync: an operator of another context than the bulk's flushes it.      *)
PushSync(t, o, sameCtx) ==
    LET k == bulk[t] IN
    /\ Idle(t)
    /\ k.bulk_size > 0
    /\ Usable(o.const_vars \cup o.mutable_vars)
    /\ IF k.count = 0 \/ sameCtx
       THEN CanPush(IF k.count = 0 THEN 1 ELSE 0) /\ BulkAppend(t, k, o, <<>>)
       ELSE CanPush(1) /\ BulkAppend(t, EmptyBulk(k.bulk_size), o, <<BulkOpr(k)>>)
    /\ UNCHANGED <<avars, evars, wvars, pc, arg, blk, caller, tmp, thrown, shutdown>>

set_bulk_size(t, n) ==
    LET k == bulk[t] IN
    /\ Idle(t)
    /\ n # k.bulk_size
    /\ IF k.count >= n /\ k.count > 0
       THEN /\ out' = [out EXCEPT ![t] = <<BulkOpr(k)>>]
            /\ bulk' = [bulk EXCEPT ![t] = EmptyBulk(n)]
       ELSE /\ bulk' = [bulk EXCEPT ![t].bulk_size = n]
            /\ UNCHANGED out
    /\ UNCHANGED <<avars, evars, wvars, pc, arg, blk, caller, tmp, thrown, shutdown>>

(* PushAsync, PushSync without bulking, DeleteVariable: Push flushes first.  *)
PushAsync(t, o) ==
    /\ Idle(t)
    /\ CanPush(1)
    /\ Usable(o.const_vars \cup o.mutable_vars)
    /\ BulkFlush(t, <<o>>)
    /\ UNCHANGED <<avars, evars, wvars, pc, arg, blk, caller, tmp, thrown, shutdown>>

(* Nobody may still mean to use the variable, in a bulk or in a wait. *)
DeleteVariable(t, v) ==
    /\ \A s \in Client : /\ s # t => v \notin bulk[s].const_vars \cup bulk[s].mutable_vars
                         /\ pc[s] # "idle" => arg[s] # v
    /\ \A s \in Client : \A o \in Range(out[s]) : v \notin o.const_vars \cup o.mutable_vars
    /\ PushAsync(t, DeleteOpr(v))

(* is_ready_to_read: pending_write_ is nullptr *)
ReadyToRead(v) == ~ \E b \in Blk : On(b, v) /\ v \in opr[b].mutable_vars

WaitForVar(t, v) ==
    /\ Idle(t)
    /\ \/ CanPush(1)
       \/ ReadyToRead(v) /\ \A s \in Client : Pushed(s) /\ Owed(s) = 0
    /\ Usable({v})
    /\ BulkFlush(t, <<>>)
    /\ pc' = [pc EXCEPT ![t] = "test"]
    /\ arg' = [arg EXCEPT ![t] = v]
    /\ UNCHANGED <<avars, evars, wvars, blk, caller, tmp, thrown, shutdown>>

WaitForAll(t) ==
    /\ Idle(t)
    /\ BulkFlush(t, <<>>)
    /\ pc' = [pc EXCEPT ![t] = "all"]
    /\ UNCHANGED <<avars, evars, wvars, arg, blk, caller, tmp, thrown, shutdown>>

(* The walk of Push through the variables: reads, then writes.  Only one    *)
(* thread pushes at a time ("Push APIs are not thread-safe", overview.md).  *)
IssueNext(t, b) ==
    /\ out[t] # <<>>
    /\ \A s \in Client : blk[s] = None
    /\ Issue(b, Head(out[t]))
    /\ pending' = pending + 1
    /\ out' = [out EXCEPT ![t] = Tail(@)]
    /\ blk' = [blk EXCEPT ![t] = IF Uses(b)' = {} THEN None ELSE b]
    /\ caller' = [caller EXCEPT ![b] = t]
    /\ UNCHANGED <<evars, mutex, asleep, done, pc, arg, bulk, tmp, thrown, shutdown>>

ReachNext(t, v) ==
    LET b == blk[t] IN
    /\ b # None
    /\ opr[b].const_vars \subseteq reached[b] \cup {v}
    /\ Reach(b, v)
    /\ blk' = [blk EXCEPT ![t] = IF reached'[b] = Uses(b) THEN None ELSE b]
    /\ UNCHANGED <<evars, wvars, pc, arg, out, caller, bulk, tmp, thrown, shutdown>>

(***************************************************************************)
(* Waiting.                                                                *)
(***************************************************************************)
(* WaitForVar looks at the variable, and pushes a read when a write is due. *)
TestReady(t) ==
    LET ready == ReadyToRead(arg[t]) IN
    /\ pc[t] = "test"
    /\ Pushed(t)
    /\ pc' = [pc EXCEPT ![t] = IF ready THEN "throw" ELSE "wait"]
    /\ out' = [out EXCEPT ![t] = IF ready THEN <<>> ELSE <<WaitOpr(arg[t])>>]
    /\ UNCHANGED <<avars, evars, wvars, arg, blk, caller, bulk, tmp, thrown, shutdown>>

(* The predicate of finished_cv_.wait, tested under finished_m_. *)
Predicate(t) == IF pc[t] = "wait" THEN done[t] ELSE pending = 0

CheckPredicate(t) ==
    /\ pc[t] \in {"wait", "all"}
    /\ Pushed(t)
    /\ t \notin asleep
    /\ mutex = None
    /\ IF Predicate(t)
       THEN /\ pc' = [pc EXCEPT ![t] = IF @ = "wait" THEN "throw" ELSE "idle"]
            /\ done' = [done EXCEPT ![t] = FALSE]
            /\ UNCHANGED mutex
       ELSE mutex' = t /\ UNCHANGED <<pc, done>>
    /\ UNCHANGED <<avars, evars, asleep, pending, arg, out, blk, caller, bulk, tmp, thrown,
                   shutdown>>

(* finished_cv_.wait gives up the mutex and sleeps in one step. *)
Sleep(t) ==
    /\ mutex = t
    /\ mutex' = None
    /\ asleep' = asleep \cup {t}
    /\ UNCHANGED <<avars, evars, done, pending, cvars, shutdown>>

SpuriousWakeup(t) ==
    /\ t \in asleep
    /\ asleep' = asleep \ {t}
    /\ UNCHANGED <<avars, evars, mutex, done, pending, cvars, shutdown>>

(***************************************************************************)
(* Rethrowing.                                                             *)
(***************************************************************************)
Live(c) == c # None /\ cell[c] = "live"

(* ThrowException reads the cell... *)
ReadException(t) ==
    LET c == var_exception[arg[t]] IN
    /\ pc[t] = "throw"
    /\ IF Live(c)
       THEN /\ tmp' = [tmp EXCEPT ![t] = c]
            /\ pc' = [pc EXCEPT ![t] = "clear"]
            /\ UNCHANGED arg
       ELSE /\ pc' = [pc EXCEPT ![t] = "idle"]
            /\ arg' = [arg EXCEPT ![t] = None]
            /\ UNCHANGED tmp
    /\ UNCHANGED <<avars, evars, wvars, out, blk, caller, bulk, thrown, shutdown>>

(* ... and empties it before it rethrows what it read. *)
ClearedNever(c) == cell
Cleared(c) == [cell EXCEPT ![c] = "empty"]

ThrowException(t) ==
    /\ pc[t] = "clear"
    /\ cell' = Cleared(var_exception[arg[t]])
    /\ thrown' = [thrown EXCEPT ![tmp[t]] = @ + 1]
    /\ pc' = [pc EXCEPT ![t] = "idle"]
    /\ arg' = [arg EXCEPT ![t] = None]
    /\ tmp' = [tmp EXCEPT ![t] = None]
    /\ UNCHANGED <<avars, exec, opr_exception, marked, var_exception, sees, taint, wvars,
                   out, blk, caller, bulk, shutdown>>

(***************************************************************************)
(* Workers.                                                                *)
(***************************************************************************)
LiveCells(V) == {var_exception[v] : v \in {u \in V : Live(var_exception[u])}}

(* The first cell OnStart meets, reads before writes. *)
FoundSkipsWrites(b) == LiveCells(opr[b].const_vars)
Found(b) == LET r == LiveCells(opr[b].const_vars) IN
            IF r # {} THEN r ELSE LiveCells(opr[b].mutable_vars)

Inputs(b) == UNION {taint[v] : v \in Uses(b)}

(* ExecuteOprBlock before shutdown: OnStart marks the operator. *)
OnStart(b) ==
    /\ ~shutdown
    /\ Start(b)
    /\ \/ Found(b) = {} /\ UNCHANGED opr_exception
       \/ \E c \in Found(b) : opr_exception' = [opr_exception EXCEPT ![b] = c]
    /\ exec' = [exec EXCEPT ![b] = "marked"]
    /\ sees' = [sees EXCEPT ![b] = Inputs(b)]
    /\ UNCHANGED <<cell, marked, var_exception, taint, wvars, cvars, shutdown>>

(* ExecuteOprBlock after NotifyShutdown: only the callback. *)
SkipAtShutdown(b) ==
    /\ shutdown
    /\ Start(b)
    /\ exec' = [exec EXCEPT ![b] = "complete"]
    /\ sees' = [sees EXCEPT ![b] = Inputs(b)]
    /\ UNCHANGED <<cell, opr_exception, marked, var_exception, taint, wvars, cvars,
                   shutdown>>

(* The function of a poisoned operator is skipped, except that of a wait. *)
Runs(b) == ~Live(opr_exception[b]) \/ opr[b].wait

ExecuteFn(b) ==
    /\ exec[b] = "marked"
    /\ exec' = [exec EXCEPT ![b] = IF Runs(b) THEN "running" ELSE "complete"]
    /\ UNCHANGED <<avars, xvars, wvars, cvars, shutdown>>

(* The function returns, or throws a dmlc::Error that becomes a new cell. *)
FnReturns(b) ==
    /\ exec[b] = "running"
    /\ ~opr[b].wait
    /\ exec' = [exec EXCEPT ![b] = "complete"]
    /\ UNCHANGED <<avars, xvars, wvars, cvars, shutdown>>

FnThrows(b) ==
    /\ MayThrow
    /\ exec[b] = "running"
    /\ opr[b].prop = "kNormal" /\ ~opr[b].wait
    /\ cell' = [cell EXCEPT ![b] = "live"]
    /\ opr_exception' = [opr_exception EXCEPT ![b] = b]
    /\ exec' = [exec EXCEPT ![b] = "complete"]
    /\ UNCHANGED <<avars, marked, var_exception, sees, taint, wvars, cvars, shutdown>>

(* The function that WaitForVar pushed: done under the mutex, then notify. *)
LockFreeIgnored == TRUE
LockFree == mutex = None

WaitFnStore(b) ==
    /\ exec[b] = "running"
    /\ opr[b].wait
    /\ LockFree
    /\ done' = [done EXCEPT ![caller[b]] = TRUE]
    /\ exec' = [exec EXCEPT ![b] = "stored"]
    /\ UNCHANGED <<avars, xvars, mutex, asleep, pending, cvars, shutdown>>

WaitFnNotify(b) ==
    /\ exec[b] = "stored"
    /\ asleep' = {}
    /\ exec' = [exec EXCEPT ![b] = "complete"]
    /\ UNCHANGED <<avars, xvars, mutex, done, pending, cvars, shutdown>>

(* OnComplete, variable by variable: first the reads... *)
CompleteRead(b, v) ==
    /\ exec[b] = "complete"
    /\ v \in opr[b].const_vars
    /\ GiveUp(b, v)
    /\ UNCHANGED <<evars, wvars, cvars, shutdown>>

(* ... then each write, which takes over the cell if it is still full. *)
MarkWrite(b, v) ==
    /\ exec[b] = "complete"
    /\ held[b] \cap opr[b].const_vars = {}
    /\ v \in held[b]
    /\ Live(opr_exception[b])
    /\ marked[b] = {}
    /\ marked' = [marked EXCEPT ![b] = {v}]
    /\ UNCHANGED <<avars, exec, cell, opr_exception, var_exception, sees, taint, wvars, cvars,
                   shutdown>>

HandedOnlyOwn(b, v) ==
    IF v \in marked[b] /\ cell[b] # "none" THEN opr_exception[b] ELSE var_exception[v]
Handed(b, v) == IF v \in marked[b] THEN opr_exception[b] ELSE var_exception[v]

CompleteWrite(b, v) ==
    /\ exec[b] = "complete"
    /\ held[b] \cap opr[b].const_vars = {}
    /\ v \in opr[b].mutable_vars
    /\ marked[b] = {v} \/ (marked[b] = {} /\ ~Live(opr_exception[b]))
    /\ GiveUp(b, v)
    /\ var_exception' = [var_exception EXCEPT ![v] = Handed(b, v)]
    /\ taint' = [taint EXCEPT ![v] = sees[b] \cup {c \in {b} : cell[c] # "none"}]
    /\ marked' = [marked EXCEPT ![b] = {}]
    /\ UNCHANGED <<exec, cell, opr_exception, sees, wvars, cvars, shutdown>>

(* The end of OnComplete: pending_ under the mutex, and a notify at zero. *)
CompleteEnd(b) ==
    /\ exec[b] = "complete"
    /\ Finish(b)
    /\ LockFree
    /\ pending' = pending - 1
    /\ exec' = [exec EXCEPT ![b] = IF pending' = 0 THEN "notify" ELSE "none"]
    /\ UNCHANGED <<xvars, mutex, asleep, done, cvars, shutdown>>

NotifyAll(b) ==
    /\ exec[b] = "notify"
    /\ asleep' = {}
    /\ exec' = [exec EXCEPT ![b] = "none"]
    /\ UNCHANGED <<avars, xvars, mutex, done, pending, cvars, shutdown>>

NotifyShutdown ==
    /\ MayShutDown
    /\ ~shutdown
    /\ shutdown' = TRUE
    /\ UNCHANGED <<avars, evars, wvars, cvars>>

(***************************************************************************)
(* The system.                                                             *)
(***************************************************************************)
ClientStep(t) ==
    \/ \E o \in SyncOpr, same \in BOOLEAN : PushSync(t, o, same)
    \/ \E n \in BulkSizes : set_bulk_size(t, n)
    \/ \E o \in AsyncOpr : PushAsync(t, o)
    \/ \E v \in Deletable : DeleteVariable(t, v)
    \/ \E v \in Var : WaitForVar(t, v)
    \/ WaitForAll(t)

(* The rest of a call under way. *)
CallStep(t) ==
    \/ \E b \in Blk : IssueNext(t, b)
    \/ \E v \in Var : ReachNext(t, v)
    \/ TestReady(t) \/ CheckPredicate(t) \/ Sleep(t)
    \/ ReadException(t) \/ ThrowException(t)

WorkerStep(b) ==
    \/ OnStart(b) \/ SkipAtShutdown(b) \/ ExecuteFn(b) \/ FnReturns(b) \/ FnThrows(b)
    \/ WaitFnStore(b) \/ WaitFnNotify(b)
    \/ \E v \in Var : CompleteRead(b, v) \/ MarkWrite(b, v) \/ CompleteWrite(b, v)
    \/ CompleteEnd(b) \/ NotifyAll(b)

Next ==
    \/ \E t \in Client : ClientStep(t) \/ CallStep(t) \/ SpuriousWakeup(t)
    \/ \E b \in Blk : WorkerStep(b)
    \/ NotifyShutdown

(* A thread inside a call goes on, and so does the worker of a ready block;  *)
(* nobody has to make another call, and nobody has to wake up spuriously.    *)
Fairness ==
    /\ \A t \in Client : SF_vars(CallStep(t))
    /\ \A b \in Blk : SF_vars(WorkerStep(b))

Spec == Init /\ [][Next]_vars
FairSpec == Spec /\ Fairness

(***************************************************************************)
(* Properties.                                                             *)
(***************************************************************************)
TypeOK ==
    /\ exec \in [Blk -> {"none", "marked", "running", "stored", "complete", "notify"}]
    /\ cell \in [Blk -> {"none", "live", "empty"}]
    /\ opr_exception \in [Blk -> Blk \cup {None}]
    /\ \A b \in Blk : marked[b] \subseteq held[b] /\ Cardinality(marked[b]) <= 1
    /\ var_exception \in [Var -> Blk \cup {None}]
    /\ sees \in [Blk -> SUBSET Blk] /\ taint \in [Var -> SUBSET Blk]
    /\ pending = Cardinality({b \in Blk : stage[b] \in {"pushed", "started"}})
    /\ mutex \in Client \cup {None}
    /\ asleep \subseteq {t \in Client : pc[t] \in {"wait", "all"}}
    /\ done \in [Client -> BOOLEAN]
    /\ pc \in [Client -> {"idle", "test", "wait", "all", "throw", "clear"}]
    /\ arg \in [Client -> Var \cup {None}]
    /\ \A t \in Client : Len(out[t]) <= 2
    /\ blk \in [Client -> Blk \cup {None}]
    /\ \A b \in Blk : stage[b] # "new" => caller[b] \in Client
    /\ \A t \in Client : bulk[t].count > 0 => bulk[t].count < bulk[t].bulk_size
    /\ tmp \in [Client -> Blk \cup {None}]
    /\ shutdown \in BOOLEAN

Rethrown(S) == S = {} \/ \E c \in S : thrown[c] > 0

(* exception_handling.md: "Once there is a synchronizing call ... for a      *)
(* variable in the dependency chain, the propagated exception is rethrown":  *)
(* when WaitForVar returns without an exception, no failure is behind the    *)
(* variable's value, or one of those has already been rethrown.              *)
NothingSwallowed ==
    \A t \in Client :
       pc[t] = "throw" /\ ~Live(var_exception[arg[t]]) => Rethrown(taint[arg[t]])

(* ExecuteOprBlock skips a function whose inputs come out of a failure,      *)
(* unless a client has already been told of one.                             *)
NoRunOnPoison ==
    \A b \in Blk : exec[b] = "running" /\ ~opr[b].wait => Rethrown(sees[b])

(* exception_handling.md: "any particular exception will not be thrown more  *)
(* than once", however many variables and operators share its cell.          *)
ThrownOnce == \A b \in Blk : thrown[b] <= 1

(* When WaitForVar is through waiting, every write of the variable that its  *)
(* client pushed before, in a bulk or not, has been completed; and when      *)
(* WaitForAll returns, everything its client pushed before.                  *)
WaitSeesOwnWrites ==
    [][\A t \in Client :
         /\ pc[t] # "throw" /\ pc'[t] = "throw" =>
              /\ arg[t] \notin bulk[t].mutable_vars
              /\ \A b \in Blk : caller[b] = t /\ arg[t] \in opr[b].mutable_vars
                                  => stage[b] # "pushed" /\ ~On(b, arg[t])
         /\ pc[t] = "all" /\ pc'[t] = "idle" =>
              /\ bulk[t].count = 0
              /\ \A b \in Blk : caller[b] = t => stage[b] = "finished"]_vars

(* engine.h, of WaitForVar: "This function returns when the variable is      *)
(* ready"; of WaitForAll: "Wait until all the activity of engine finishes".  *)
(* After NotifyShutdown a skipped block's function no longer sets done, and  *)
(* a WaitForVar under way may stay for good; WaitForAll returns even then,   *)
(* because a skipped block counts down pending_ all the same.                *)
WaitReturns ==
    \A t \in Client : /\ (pc[t] # "idle") ~> (pc[t] = "idle" \/ shutdown)
                      /\ (pc[t] = "all") ~> (pc[t] = "idle")

(* engine.h, of DeleteVariable: delete_fn is "A function that will be called *)
(* after the variable is deleted".                                           *)
DeletionRuns ==
    [][\A b \in Blk : exec[b] = "marked" /\ opr[b].prop = "kDeleteVar"
                         => exec'[b] # "complete"]_vars
=============================================================================
