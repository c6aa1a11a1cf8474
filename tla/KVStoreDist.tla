---------------------------- MODULE KVStoreDist -----------------------------
(***************************************************************************)
(* The distributed key-value store: workers that push gradients and pull   *)
(* weights (kvstore_dist.h), and servers that merge the gradients of a     *)
(* round and apply them (kvstore_dist_server.h).                           *)
(*                                                                         *)
(* A worker has at most one request per key and server under way: push and *)
(* pull of a key share comm_buf_[key], and the engine orders them.  A      *)
(* channel is such a pair, or the one for commands, whose sender waits.    *)
(* Requests of different channels overtake each other.                     *)
(*                                                                         *)
(* A gradient is <<worker, number of the push>>.  A stored value is the    *)
(* sequence of the updates applied to it, each the set of the gradients    *)
(* merged into it; NoValue before the key is initialised.                  *)
(***************************************************************************)
EXTENDS Naturals, Sequences, FiniteSets

CONSTANTS
    Worker, Server, Key,
    Rank0,         \* the worker of rank 0
    Shards,        \* Shards[k]: the servers that hold a part of key k
    Rounds,        \* bound: pushes and pulls of each key by each worker
    Confs,         \* the ways to use the store, see conf
    Cmd,           \* the channel for commands
    NoValue

ASSUME KVStoreAssumption ==
    /\ IsFiniteSet(Worker) /\ Rank0 \in Worker
    /\ Shards \in [Key -> (SUBSET Server) \ {{}}]
    /\ Rounds \in Nat
    /\ Cmd \notin Key
    /\ NoValue \notin Seq(SUBSET (Worker \X Nat))
    /\ \A c \in Confs : c.sync \/ c.opt   \* "Updater needs to be set for async mode"
    /\ Confs \subseteq [sync : BOOLEAN,   \* not "_async"
                        opt : BOOLEAN,    \* set_optimizer is called
                        half : BOOLEAN,   \* 16-bit values, optimizer.multi_precision
                        sparse : SUBSET Server,  \* row_sparse: a push may have no rows for these
                        garbage : SUBSET Server] \* multi_precision_ is never initialised

VARIABLES
    conf,
    step,             \* how far each worker's program is
    at,               \* at[w][k]: pushes and pulls of k that have returned
    rows,             \* rows[w][k][i]: the servers that w's i-th push has rows for
    link,             \* link[w][s][c]: the request or response on a channel
    sync_mode, multi_precision, updater,
    store, store_realt,
    lag,              \* the engine still has to copy store_realt_ to store_
    request, merged,  \* update_buf_
    exec,             \* the server's main thread executes functions
    failed            \* history: a CHECK of the server has failed

workerVars == <<step, at, rows>>
modeVars == <<sync_mode, multi_precision, updater, exec>>
dataVars == <<store, store_realt, lag, request, merged>>
vars == <<conf, workerVars, link, modeVars, dataVars, failed>>

Chan == Key \union {Cmd}
Idle == [st |-> "idle", op |-> "none", grad |-> {}, val |-> NoValue]

InitFirst ==
    <<"start", "kSyncMode", "init", "barrier", "kController", "kSetMultiPrecision",
      "train", "exit", "kStopServer", "end">>
StopAtOnce ==
    <<"start", "kSyncMode", "kController", "kSetMultiPrecision", "init", "barrier",
      "train", "kStopServer", "end">>
(* A worker's script: kv.create, set_optimizer, init, training, exit.      *)
Program ==
    <<"start", "kSyncMode", "kController", "kSetMultiPrecision", "init", "barrier",
      "train", "exit", "kStopServer", "end">>
Call(w) == Program[step[w]]
End == Len(Program)

Init ==
    /\ conf \in Confs
    /\ step = [w \in Worker |-> 1]
    /\ at = [w \in Worker |-> [k \in Key |-> 0]]
    /\ rows = [w \in Worker |-> [k \in Key |-> <<>>]]
    /\ link = [w \in Worker |-> [s \in Server |-> [c \in Chan |-> Idle]]]
    /\ sync_mode = [s \in Server |-> FALSE]
    /\ multi_precision = [s \in Server |-> s \in conf.garbage]
    /\ updater = [s \in Server |-> FALSE]
    /\ exec = [s \in Server |-> TRUE]
    /\ store = [s \in Server |-> [k \in Key |-> NoValue]]
    /\ store_realt = [s \in Server |-> [k \in Key |-> NoValue]]
    /\ lag = [s \in Server |-> [k \in Key |-> FALSE]]
    /\ request = [s \in Server |-> [k \in Key |-> <<>>]]
    /\ merged = [s \in Server |-> [k \in Key |-> {}]]
    /\ failed = FALSE

-----------------------------------------------------------------------------
(* Workers.                                                                *)

SentTo(c) == IF c = Cmd THEN Server ELSE Shards[c]
Quiet(w, c) == \A s \in SentTo(c) : link[w][s][c].st = "idle"
Answered(w, c) == \A s \in SentTo(c) : link[w][s][c].st = "resp"

\* A request op on channel c, with a gradient for the servers in S.
Send(w, c, op, S, grad) ==
    link' = [link EXCEPT ![w] = [s \in Server |->
                IF s \notin SentTo(c) THEN link[w][s]
                ELSE [link[w][s] EXCEPT ![c] =
                        [st |-> "req", op |-> op, grad |-> IF s \in S THEN grad ELSE {},
                         val |-> NoValue]]]]

NotTaken(w, C) == link' = link
Taken(w, C) ==
    link' = [link EXCEPT ![w] = [s \in Server |-> [c \in Chan |->
                IF c \in C THEN Idle ELSE link[w][s][c]]]]

SyncOptimizerOnly(w) ==
    CASE Call(w) = "kSyncMode" -> w = Rank0 /\ conf.sync
      [] Call(w) = "kController" -> conf.opt /\ conf.sync
      [] Call(w) \in {"init", "kStopServer"} -> w = Rank0
      [] OTHER -> FALSE
\* The commands this worker sends: see KVStore::Create, set_optimizer and
\* ~KVStoreDist.  set_optimizer sends its commands from every worker.
Sends(w) ==
    CASE Call(w) = "kSyncMode" -> w = Rank0 /\ conf.sync
      [] Call(w) = "kController" -> conf.opt
      [] Call(w) = "kSetMultiPrecision" -> conf.opt /\ conf.half
      [] Call(w) = "init" -> w = Rank0
      [] Call(w) = "kStopServer" -> w = Rank0
      [] OTHER -> FALSE

Commands == {"kSyncMode", "kController", "kSetMultiPrecision", "kStopServer"}

SendCommand(w) ==
    /\ Call(w) \in Commands /\ Sends(w)
    /\ Quiet(w, Cmd)
    /\ Send(w, Cmd, Call(w), {}, {})
    /\ UNCHANGED <<conf, workerVars, modeVars, dataVars, failed>>

\* SendCommandToServers returns when every server has answered.
CommandReturns(w) ==
    /\ Call(w) \in Commands /\ Answered(w, Cmd)
    /\ Taken(w, {Cmd})
    /\ step' = [step EXCEPT ![w] = @ + 1]
    /\ UNCHANGED <<conf, at, rows, modeVars, dataVars, failed>>

\* InitImpl on rank 0 pushes the initial values...
InitPush(w, k) ==
    /\ Call(w) = "init" /\ Sends(w)
    /\ Quiet(w, k)
    /\ Send(w, k, "push", Shards[k], {<<w, 0>>})
    /\ UNCHANGED <<conf, workerVars, modeVars, dataVars, failed>>

\* ... and waits for all of them.
InitReturns(w) ==
    /\ Call(w) = "init" /\ Sends(w)
    /\ \A k \in Key : Answered(w, k)
    /\ Taken(w, Key)
    /\ step' = [step EXCEPT ![w] = @ + 1]
    /\ UNCHANGED <<conf, at, rows, modeVars, dataVars, failed>>

\* A call that does nothing on this worker.
Skip(w) ==
    /\ Call(w) \in Commands \union {"init"} /\ ~Sends(w)
    /\ step' = [step EXCEPT ![w] = @ + 1]
    /\ UNCHANGED <<conf, at, rows, link, modeVars, dataVars, failed>>

\* ps::Postoffice::Barrier: at start-up, at the end of InitImpl, before exit.
Reached(w) == \A v \in Worker : step[v] >= step[w]
Barrier(w) ==
    /\ Call(w) \in {"start", "barrier", "exit"}
    /\ Reached(w)
    /\ step' = [step EXCEPT ![w] = @ + 1]
    /\ UNCHANGED <<conf, at, rows, link, modeVars, dataVars, failed>>

\* The number of the push of k that w is at: pushes and pulls take turns.
PushNumber(w, k) == at[w][k] \div 2 + 1

Push(w, k) ==
    /\ Call(w) = "train"
    /\ at[w][k] < 2 * Rounds /\ at[w][k] % 2 = 0
    /\ Quiet(w, k)
    /\ \E S \in SUBSET Shards[k] :
         /\ Shards[k] \ S \subseteq conf.sparse
         /\ rows' = [rows EXCEPT ![w][k] = Append(@, S)]
         /\ Send(w, k, "push", S, {<<w, PushNumber(w, k)>>})
    /\ UNCHANGED <<conf, step, at, modeVars, dataVars, failed>>

Pull(w, k) ==
    /\ Call(w) = "train"
    /\ at[w][k] % 2 = 1
    /\ Quiet(w, k)
    /\ Send(w, k, "pull", {}, {})
    /\ UNCHANGED <<conf, workerVars, modeVars, dataVars, failed>>

\* The completion callback of ZPush or ZPull.
OperationReturns(w, k) ==
    /\ Call(w) = "train" /\ Answered(w, k)
    /\ Taken(w, {k})
    /\ at' = [at EXCEPT ![w][k] = @ + 1]
    /\ UNCHANGED <<conf, step, rows, modeVars, dataVars, failed>>

\* ~KVStoreDist starts with Engine::WaitForAll.
TrainingEnds(w) ==
    /\ Call(w) = "train"
    /\ \A k \in Key : at[w][k] = 2 * Rounds
    /\ step' = [step EXCEPT ![w] = @ + 1]
    /\ UNCHANGED <<conf, at, rows, link, modeVars, dataVars, failed>>

-----------------------------------------------------------------------------
(* Servers.  One thread handles the requests one by one; what it gives to  *)
(* exec_ runs on the main thread while it waits.                           *)

Has(w, s, c, op) == link[w][s][c].st = "req" /\ link[w][s][c].op = op

Response(w, s, c, val) ==
    link' = [link EXCEPT ![w][s][c] = [link[w][s][c] EXCEPT !.st = "resp", !.val = val]]

HandleSyncMode(s, w) ==
    /\ Has(w, s, Cmd, "kSyncMode")
    /\ sync_mode' = [sync_mode EXCEPT ![s] = TRUE]
    /\ Response(w, s, Cmd, NoValue)
    /\ UNCHANGED <<conf, workerVars, multi_precision, updater, exec, dataVars, failed>>

\* The controller unpickles the optimizer and sets a new updater.
HandleController(s, w) ==
    /\ Has(w, s, Cmd, "kController")
    /\ exec[s]
    /\ updater' = [updater EXCEPT ![s] = TRUE]
    /\ Response(w, s, Cmd, NoValue)
    /\ UNCHANGED <<conf, workerVars, sync_mode, multi_precision, exec, dataVars, failed>>

\* CreateMultiPrecisionCopies.
HandleSetMultiPrecision(s, w) ==
    /\ Has(w, s, Cmd, "kSetMultiPrecision")
    /\ multi_precision' = [multi_precision EXCEPT ![s] = TRUE]
    /\ IF multi_precision[s] \/ ~conf.half
       THEN UNCHANGED <<store_realt, failed>>
       ELSE /\ store_realt' = [store_realt EXCEPT ![s] = [k \in Key |->
                    IF store[s][k] # NoValue THEN store[s][k] ELSE store_realt[s][k]]]
            /\ failed' = (failed \/ \E k \in Key : store[s][k] # NoValue /\ request[s][k] # <<>>)
    /\ Response(w, s, Cmd, NoValue)
    /\ UNCHANGED <<conf, workerVars, sync_mode, updater, exec, store, lag, request, merged>>

\* Executor::Stop: the main thread leaves RunServer.
HandleStop(s, w) ==
    /\ Has(w, s, Cmd, "kStopServer")
    /\ exec[s]
    /\ exec' = [exec EXCEPT ![s] = FALSE]
    /\ Response(w, s, Cmd, NoValue)
    /\ UNCHANGED <<conf, workerVars, sync_mode, multi_precision, updater, dataVars, failed>>

has_multi_precision_copy(s) == multi_precision[s] /\ conf.half
Stored(s, k) == IF has_multi_precision_copy(s) THEN store_realt[s][k] ELSE store[s][k]

\* DataHandleDefault, -Compressed and InitRowSparseStored: the first push.
HandleInit(s, w, k) ==
    /\ Has(w, s, k, "push")
    /\ Stored(s, k) = NoValue
    /\ store' = [store EXCEPT ![s][k] = <<>>]
    /\ store_realt' = [store_realt EXCEPT ![s][k] =
                          IF has_multi_precision_copy(s) THEN <<>> ELSE @]
    /\ Response(w, s, k, NoValue)
    /\ UNCHANGED <<conf, workerVars, modeVars, lag, request, merged, failed>>

\* The merge buffer with the gradient of one more push: the first of a round
\* overwrites what the last round left, also when it has no rows.
MergeKeepsOld(s, k, grad) == IF grad = {} THEN merged[s][k]
                             ELSE IF request[s][k] = <<>> THEN grad ELSE merged[s][k] \union grad
Merge(s, k, grad) == IF request[s][k] = <<>> THEN grad ELSE merged[s][k] \union grad

\* ApplyUpdates waits until it holds a request of each worker.
Complete(q) == Len(q) = Cardinality(Worker)

HandlePushWaits(s, w, k) ==
    LET q == Append(request[s][k], w) IN
    /\ Has(w, s, k, "push")
    /\ Stored(s, k) # NoValue
    /\ sync_mode[s] /\ ~Complete(q)
    /\ request' = [request EXCEPT ![s][k] = q]
    /\ merged' = [merged EXCEPT ![s][k] = Merge(s, k, link[w][s][k].grad)]
    /\ link' = [link EXCEPT ![w][s][k].st = "held"]
    /\ UNCHANGED <<conf, workerVars, modeVars, store, store_realt, lag, failed>>

\* Without an updater the merged gradient replaces the stored value.
AppliedAlone(s, k, update) == <<update>>
Applied(s, k, update) ==
    IF updater[s] THEN Append(Stored(s, k), update) ELSE <<update>>

\* The workers whose requests are answered when w's push completes q.
RespondsToLast(q) == {q[Len(q)]}
Responds(q) == {q[i] : i \in 1 .. Len(q)}

\* An asynchronous push without rows is answered and nothing else.
HandlePushApplies(s, w, k) ==
    LET q == Append(request[s][k], w)
        grad == link[w][s][k].grad
        update == IF sync_mode[s] THEN Merge(s, k, grad) ELSE grad
        empty == ~sync_mode[s] /\ grad = {}
        mp == has_multi_precision_copy(s)
    IN
    /\ Has(w, s, k, "push")
    /\ Stored(s, k) # NoValue
    /\ ~sync_mode[s] \/ Complete(q)
    /\ ~empty /\ updater[s] => exec[s]      \* exec_.Exec returns
    /\ empty \/ ~lag[s][k]                  \* stored.WaitToRead
    /\ request' = [request EXCEPT ![s][k] = <<>>]
    /\ merged' = [merged EXCEPT ![s][k] = IF sync_mode[s] THEN update ELSE @]
    /\ store_realt' = [store_realt EXCEPT ![s][k] =
                          IF mp /\ ~empty THEN Applied(s, k, update) ELSE @]
    /\ store' = [store EXCEPT ![s][k] = IF ~mp /\ ~empty THEN Applied(s, k, update) ELSE @]
    /\ lag' = [lag EXCEPT ![s][k] = IF empty THEN @ ELSE mp]
    /\ link' = [v \in Worker |-> IF v \notin Responds(q) THEN link[v]
                                 ELSE [link[v] EXCEPT ![s][k].st = "resp"]]
    /\ failed' = (failed \/ (request[s][k] # <<>> /\ ~sync_mode[s])
                         \/ (~updater[s] /\ ~sync_mode[s] /\ ~empty))
    /\ UNCHANGED <<conf, workerVars, modeVars>>

\* DefaultStorageResponse, RowSparsePullResponse: the copy that the last update
\* has queued is waited for.
UpToDateAlways(s, k) == TRUE
UpToDate(s, k) == has_multi_precision_copy(s) => ~lag[s][k]

HandlePull(s, w, k) ==
    /\ Has(w, s, k, "pull")
    /\ UpToDate(s, k)
    /\ Response(w, s, k, store[s][k])
    /\ failed' = (failed \/ store[s][k] = NoValue)
    /\ UNCHANGED <<conf, workerVars, modeVars, dataVars>>

\* The engine runs CopyFromTo(stored, store_[key]).
EngineCopies(s, k) ==
    /\ lag[s][k]
    /\ store' = [store EXCEPT ![s][k] = store_realt[s][k]]
    /\ lag' = [lag EXCEPT ![s][k] = FALSE]
    /\ UNCHANGED <<conf, workerVars, link, modeVars, store_realt, request, merged, failed>>

-----------------------------------------------------------------------------
WorkerStep(w) ==
    \/ SendCommand(w) \/ CommandReturns(w) \/ InitReturns(w) \/ Skip(w) \/ Barrier(w)
    \/ TrainingEnds(w)
    \/ \E k \in Key : InitPush(w, k) \/ Push(w, k) \/ Pull(w, k) \/ OperationReturns(w, k)

Handle(s, w) ==
    \/ HandleSyncMode(s, w) \/ HandleController(s, w) \/ HandleSetMultiPrecision(s, w)
    \/ HandleStop(s, w)
    \/ \E k \in Key : \/ HandleInit(s, w, k) \/ HandlePushWaits(s, w, k)
                      \/ HandlePushApplies(s, w, k) \/ HandlePull(s, w, k)

Next ==
    \/ \E w \in Worker : WorkerStep(w)
    \/ \E s \in Server, w \in Worker : Handle(s, w)
    \/ \E s \in Server, k \in Key : EngineCopies(s, k)

(* Worker threads, the servers' handler threads and their engines go on    *)
(* when they can, and ps-lite delivers every request and response.         *)
Fairness ==
    /\ \A w \in Worker : WF_vars(WorkerStep(w))
    /\ \A s \in Server, w \in Worker : WF_vars(Handle(s, w))
    /\ \A s \in Server, k \in Key : WF_vars(EngineCopies(s, k))

Spec == Init /\ [][Next]_vars
FairSpec == Spec /\ Fairness

-----------------------------------------------------------------------------
Grads == SUBSET (Worker \X Nat)
Value == Seq(Grads) \union {NoValue}
Link == [st : {"idle", "req", "held", "resp"}, op : {"none", "push", "pull"} \union Commands,
         grad : Grads, val : Value]

\* Every variable has its type.
TypeOK ==
    /\ conf \in Confs
    /\ step \in [Worker -> 1 .. End]
    /\ at \in [Worker -> [Key -> 0 .. 2 * Rounds]]
    /\ rows \in [Worker -> [Key -> Seq(SUBSET Server)]]
    /\ link \in [Worker -> [Server -> [Chan -> Link]]]
    /\ store \in [Server -> [Key -> Value]] /\ store_realt \in [Server -> [Key -> Value]]
    /\ request \in [Server -> [Key -> Seq(Worker)]] /\ merged \in [Server -> [Key -> Grads]]
    /\ lag \in [Server -> [Key -> BOOLEAN]]
    /\ {sync_mode, multi_precision, updater, exec} \subseteq [Server -> BOOLEAN]
    /\ failed \in BOOLEAN

\* What the i-th round of key k has to merge on server s.
Round(s, k, i) ==
    {<<w, i>> : w \in {v \in Worker : i \in DOMAIN rows[v][k] /\ s \in rows[v][k][i]}}

\* dist_sync: the i-th update of a shard merges the i-th push of every worker,
\* each once and no other, on every server alike, although the server only
\* counts requests and never looks at who sent them.
RoundsExact ==
    conf.sync /\ conf.opt =>
        \A s \in Server, k \in Key : Stored(s, k) # NoValue =>
            \A i \in DOMAIN Stored(s, k) : Stored(s, k)[i] = Round(s, k, i)

\* dist_sync: a pull that follows a worker's i-th push returns the outcome of
\* exactly i rounds from every server, so that all workers go on with the same
\* weights; with multi-precision, too, where the answer to the push goes out
\* before the 16-bit copy is made.
PullSeesRound ==
    conf.sync => \A w \in Worker, k \in Key : \A s \in Shards[k] :
        LET l == link[w][s][k] IN
        l.op = "pull" /\ l.st = "resp" =>
            IF conf.opt THEN Len(l.val) = PushNumber(w, k)
            ELSE l.val = <<Round(s, k, PushNumber(w, k))>>

\* The number of pushes of k by w that s has answered, 7 being "train".
Done(w, s, k) ==
    IF \/ at[w][k] % 2 = 1
       \/ step[w] = 7 /\ link[w][s][k].st = "resp" /\ link[w][s][k].op = "push"
    THEN PushNumber(w, k) ELSE PushNumber(w, k) - 1

\* A push that has been answered is in the stored value, and nothing is in it
\* twice: dist_async applies every gradient exactly once.
AnsweredIsApplied ==
    conf.opt => \A s \in Server, k \in Key :
        LET v == Stored(s, k)
            Holds(g) == {i \in DOMAIN v : g \in v[i]}
        IN  \A w \in Worker : \A n \in DOMAIN rows[w][k] :
              s \in rows[w][k][n] =>
                /\ Cardinality(Holds(<<w, n>>)) <= 1
                /\ n <= Done(w, s, k) => Holds(<<w, n>>) # {}

\* No CHECK of the server fails: "init ... first", "Updater needs to be set for
\* async mode", CHECK(sync_mode_), "Multiprecision mode can not be set while
\* pushes are underway".
ChecksHold == ~failed

\* set_optimizer before init: although every worker sends its optimizer and a
\* server takes each as a new updater with fresh state, no update is lost,
\* because the barrier of init comes after all of them.
OptimizerKept ==
    [][\A s \in Server, w \in Worker :
         Has(w, s, Cmd, "kController") /\ link'[w][s][Cmd].st = "resp" =>
             \A k \in Key : Stored(s, k) = NoValue \/ Stored(s, k) = <<>>]_vars

\* kStopServer comes last: a server whose main thread has left has no push or
\* pull to serve any more, for which it would wait for ever.
StopsLast ==
    \A s \in Server : ~exec[s] =>
        \A k \in Key : request[s][k] = <<>> /\ \A w \in Worker : link[w][s][k].st = "idle"

\* Every worker comes to the end of its script: no barrier, round or command
\* waits for ever.
AllEnd == <>(\A w \in Worker : Call(w) = "end")

-----------------------------------------------------------------------------
(* The inductive invariant behind the properties.  The numbers are the     *)
(* places in Program: 5 is init, 6 its barrier, 7 training, 8 the barrier  *)
(* before exit.                                                            *)

\* Nobody is past a barrier before everybody has come to it.
BarrierInv ==
    \A v, w \in Worker : /\ step[w] > 6 => step[v] >= 6
                         /\ step[w] > 8 => step[v] >= 8

\* A command under way is the one its worker is waiting for.
CommandInv ==
    \A w \in Worker, s \in Server :
        link[w][s][Cmd].st # "idle" =>
            link[w][s][Cmd].op = Call(w) /\ Call(w) \in Commands /\ Sends(w)

\* Server s has handled the n-th call of rank 0.
Past(s, n) ==
    step[Rank0] > n \/ (step[Rank0] = n /\ link[Rank0][s][Cmd].st = "resp")

ModeInv ==
    \A s \in Server :
        /\ sync_mode[s] => conf.sync
        /\ conf.sync /\ Past(s, 2) => sync_mode[s]
        /\ updater[s] => conf.opt
        /\ conf.opt /\ Past(s, 3) => updater[s]
        /\ conf.opt /\ conf.half /\ Past(s, 4) => multi_precision[s]
        /\ ~exec[s] => step[Rank0] >= 9

\* The request of w for k on s: to all shards at once, by rank 0 in init, by
\* everybody in training, where pushes and pulls take turns.
RequestOf(w, s, k) ==
    LET l == link[w][s][k] IN
    /\ s \notin Shards[k] => l.st = "idle"
    /\ l.st # "idle" =>
         /\ step[w] \in {5, 7}
         /\ \A t \in Shards[k] : link[w][t][k].st # "idle"
         /\ step[w] = 5 => w = Rank0 /\ l.op = "push" /\ l.st # "held"
         /\ step[w] = 7 =>
              /\ at[w][k] < 2 * Rounds
              /\ at[w][k] % 2 = 1 => l.op = "pull" /\ l.st # "held"
              /\ at[w][k] % 2 = 0 =>
                   /\ l.op = "push"
                   /\ l.grad = IF s \in rows[w][k][PushNumber(w, k)]
                               THEN {<<w, PushNumber(w, k)>>} ELSE {}
LinkInv == \A w \in Worker, s \in Server, k \in Key : RequestOf(w, s, k)

\* The number of pushes of k that w has issued.
Issued(w, k) ==
    IF at[w][k] % 2 = 1 \/ (step[w] = 7 /\ \E s \in Shards[k] : link[w][s][k].st # "idle")
    THEN PushNumber(w, k) ELSE PushNumber(w, k) - 1

CountInv ==
    \A w \in Worker, k \in Key :
        /\ step[w] < 7 => at[w][k] = 0
        /\ step[w] > 7 => at[w][k] = 2 * Rounds
        /\ Len(rows[w][k]) = Issued(w, k)
        /\ \A i \in DOMAIN rows[w][k] : rows[w][k][i] \subseteq Shards[k]

\* A round under way: who waits in it, each once, and what has been merged.
Held(s, k) == {w \in Worker : link[w][s][k].st = "held"}
MergeInv ==
    \A s \in Server, k \in Key :
        /\ \A i, j \in DOMAIN request[s][k] : request[s][k][i] = request[s][k][j] => i = j
        /\ Held(s, k) = {request[s][k][i] : i \in DOMAIN request[s][k]}
        /\ request[s][k] # <<>> =>
             conf.sync /\ merged[s][k] = UNION {link[w][s][k].grad : w \in Held(s, k)}

\* When keys come to exist, and the two copies of a 16-bit weight.
Initialised(s, k) ==
    s \in Shards[k] /\ (step[Rank0] > 5 \/ (step[Rank0] = 5 /\ link[Rank0][s][k].st = "resp"))
StoreInv ==
    \A s \in Server, k \in Key :
        /\ Initialised(s, k) => store[s][k] # NoValue /\ Stored(s, k) # NoValue
        /\ ~Initialised(s, k) =>
             store[s][k] = NoValue /\ store_realt[s][k] = NoValue /\ ~lag[s][k]
        /\ lag[s][k] => has_multi_precision_copy(s)
        /\ has_multi_precision_copy(s) /\ ~lag[s][k] => store[s][k] = store_realt[s][k]
        /\ (\E w \in Worker : step[w] < 6) => Stored(s, k) \in {NoValue, <<>>}

\* dist_sync: the workers are in the same round, and the stored value is made of
\* the rounds before.
RoundOf(s, k) ==
    /\ \A v, w \in Worker : Done(v, s, k) = Done(w, s, k)
    /\ Stored(s, k) # NoValue =>
         IF conf.opt
         THEN /\ Len(Stored(s, k)) = Done(Rank0, s, k)
              /\ \A i \in DOMAIN Stored(s, k) : Stored(s, k)[i] = Round(s, k, i)
         ELSE Stored(s, k) = IF Done(Rank0, s, k) = 0 THEN <<>>
                             ELSE <<Round(s, k, Done(Rank0, s, k))>>
RoundInv == conf.sync => \A k \in Key : \A s \in Shards[k] : RoundOf(s, k)

\* dist_async: a push with rows for s is in exactly one update of the stored
\* value from when it is answered.
AsyncOf(s, k) ==
    Stored(s, k) # NoValue =>
        \A w \in Worker, n \in 1 .. Rounds :
            /\ \A i \in DOMAIN Stored(s, k) :
                 <<w, n>> \in Stored(s, k)[i] =>
                    /\ n <= Done(w, s, k)
                    /\ \A j \in DOMAIN Stored(s, k) : <<w, n>> \in Stored(s, k)[j] => j = i
            /\ n \in DOMAIN rows[w][k] /\ n <= Done(w, s, k) /\ s \in rows[w][k][n] =>
                 \E i \in DOMAIN Stored(s, k) : <<w, n>> \in Stored(s, k)[i]
AsyncInv == ~conf.sync => \A k \in Key : \A s \in Shards[k] : AsyncOf(s, k)

\* All of it.
IInv ==
    /\ TypeOK /\ BarrierInv /\ CommandInv /\ ModeInv /\ LinkInv /\ CountInv /\ MergeInv
    /\ StoreInv /\ RoundInv /\ AsyncInv /\ PullSeesRound /\ ChecksHold
=============================================================================
