-------------------------- MODULE KVStoreDistProofs -------------------------
(***************************************************************************)
(* Proofs about KVStoreDist for any sets of workers, servers and keys, any *)
(* sharding and any number of rounds: facts about programs, numbers and    *)
(* channels, all steps of a worker, and those of a server but for a push   *)
(* during training.                                                        *)
(***************************************************************************)
EXTENDS KVStoreDist, TLAPS

\* The fields of a configuration.
LEMMA ConfType ==
    ASSUME conf \in Confs
    PROVE  /\ conf.sync \in BOOLEAN /\ conf.opt \in BOOLEAN /\ conf.half \in BOOLEAN
           /\ conf.sync \/ conf.opt
BY Zenon, KVStoreAssumption

\* Where a worker's program stands, by number.
LEMMA Places ==
    ASSUME step \in [Worker -> 1 .. End], NEW w \in Worker
    PROVE  /\ End = 10
           /\ step[w] \in 1 .. 10
           /\ Call(w) = "start" <=> step[w] = 1
           /\ Call(w) = "kSyncMode" <=> step[w] = 2
           /\ Call(w) = "kController" <=> step[w] = 3
           /\ Call(w) = "kSetMultiPrecision" <=> step[w] = 4
           /\ Call(w) = "init" <=> step[w] = 5
           /\ Call(w) = "barrier" <=> step[w] = 6
           /\ Call(w) = "train" <=> step[w] = 7
           /\ Call(w) = "exit" <=> step[w] = 8
           /\ Call(w) = "kStopServer" <=> step[w] = 9
           /\ Call(w) \in Commands <=> step[w] \in {2, 3, 4, 9}
<1>1. End = 10
  BY Zenon DEF End, Program
<1>2. step[w] \in 1 .. 10
  BY Zenon, <1>1
<1> QED
  BY <1>1, <1>2 DEF Call, Program, Commands

\* The calls that a worker sends something for.
LEMMA Sending ==
    ASSUME step \in [Worker -> 1 .. End], conf \in Confs, NEW w \in Worker
    PROVE  /\ step[w] = 2 => (Sends(w) <=> w = Rank0 /\ conf.sync)
           /\ step[w] = 3 => (Sends(w) <=> conf.opt)
           /\ step[w] = 4 => (Sends(w) <=> conf.opt /\ conf.half)
           /\ step[w] \in {5, 9} => (Sends(w) <=> w = Rank0)
<1>1. step[w] = 2 => Call(w) = "kSyncMode"
  BY Zenon, Places
<1>2. step[w] = 3 => Call(w) = "kController"
  BY Zenon, Places
<1>3. step[w] = 4 => Call(w) = "kSetMultiPrecision"
  BY Zenon, Places
<1>4. step[w] = 5 => Call(w) = "init"
  BY Zenon, Places
<1>5. step[w] = 9 => Call(w) = "kStopServer"
  BY Zenon, Places
<1> QED
  BY Zenon, <1>1, <1>2, <1>3, <1>4, <1>5, ConfType DEF Sends

\* Halving: what PushNumber needs.
LEMMA Parity ==
    ASSUME NEW a \in Nat
    PROVE  /\ a % 2 \in {0, 1} /\ a \div 2 \in Nat
           /\ a % 2 = 0 => (a + 1) % 2 = 1 /\ (a + 1) \div 2 = a \div 2
           /\ a % 2 = 1 => (a + 1) % 2 = 0 /\ (a + 1) \div 2 = a \div 2 + 1
           /\ \A b \in Nat : a < 2 * b => a \div 2 + 1 <= b
           /\ \A b \in Nat : a = 2 * b => a % 2 = 0 /\ a \div 2 = b
BY SMT

\* The counters are numbers.
LEMMA Numbers ==
    ASSUME TypeOK, NEW w \in Worker, NEW k \in Key
    PROVE  /\ at[w][k] \in Nat /\ at[w][k] <= 2 * Rounds /\ Rounds \in Nat
           /\ at[w][k] % 2 \in {0, 1}
           /\ PushNumber(w, k) \in Nat \ {0}
           /\ \A s : Done(w, s, k) \in {PushNumber(w, k), PushNumber(w, k) - 1}
           /\ \A s : Done(w, s, k) \in Nat
<1>1. Rounds \in Nat /\ at[w][k] \in 0 .. 2 * Rounds
  BY KVStoreAssumption DEF TypeOK
<1>2. at[w][k] \in Nat /\ at[w][k] <= 2 * Rounds
  BY <1>1
<1>3. at[w][k] % 2 \in {0, 1} /\ PushNumber(w, k) \in Nat \ {0}
  BY <1>2, Parity DEF PushNumber
<1> QED
  BY <1>1, <1>2, <1>3 DEF Done

\* A request goes to all servers of its channel at once.
LEMMA SendStep ==
    ASSUME TypeOK, NEW w \in Worker, NEW c \in Chan, NEW op \in {"push", "pull"} \union Commands,
           NEW S, NEW grad \in Grads, Send(w, c, op, S, grad)
    PROVE  /\ \A v \in Worker, t \in Server, d \in Chan :
                IF v = w /\ d = c /\ t \in SentTo(c)
                THEN /\ link'[v][t][d].st = "req" /\ link'[v][t][d].op = op
                     /\ link'[v][t][d].grad = IF t \in S THEN grad ELSE {}
                ELSE link'[v][t][d] = link[v][t][d]
           /\ link' \in [Worker -> [Server -> [Chan -> Link]]]
<1> DEFINE m(t) == [st |-> "req", op |-> op, grad |-> IF t \in S THEN grad ELSE {}, val |-> NoValue]
<1>1. \A t \in Server : m(t) \in Link /\ m(t).st = "req" /\ m(t).op = op
                         /\ m(t).grad = IF t \in S THEN grad ELSE {}
  BY Zenon DEF Link, Grads, Value
<1>2. link' = [link EXCEPT ![w] = [s \in Server |->
                IF s \notin SentTo(c) THEN link[w][s] ELSE [link[w][s] EXCEPT ![c] = m(s)]]]
  BY Zenon DEF Send
<1> HIDE DEF m
<1>3. \A v \in Worker, t \in Server, d \in Chan :
        link'[v][t][d] = IF v = w /\ d = c /\ t \in SentTo(c) THEN m(t) ELSE link[v][t][d]
  BY <1>2 DEF TypeOK
<1>4. link' \in [Worker -> [Server -> [Chan -> Link]]]
  BY <1>1, <1>2 DEF TypeOK
<1> QED
  BY <1>1, <1>3, <1>4

\* A worker takes the answers on the channels in C.
LEMMA TakenStep ==
    ASSUME TypeOK, NEW w \in Worker, NEW C \in SUBSET Chan, Taken(w, C)
    PROVE  \A v \in Worker, t \in Server, d \in Chan :
             link'[v][t][d] = IF v = w /\ d \in C THEN Idle ELSE link[v][t][d]
BY Zenon DEF TypeOK, Taken

\* A server changes the state of one channel.
LEMMA ChannelStep ==
    ASSUME TypeOK, NEW w \in Worker, NEW s \in Server, NEW c \in Chan, NEW l \in Link,
           link' = [link EXCEPT ![w][s][c] = l]
    PROVE  /\ \A v \in Worker, t \in Server, d \in Chan :
                link'[v][t][d] = IF v = w /\ t = s /\ d = c THEN l ELSE link[v][t][d]
           /\ link' \in [Worker -> [Server -> [Chan -> Link]]]
BY DEF TypeOK

\* A server answers one request.
LEMMA ResponseStep ==
    ASSUME TypeOK, NEW w \in Worker, NEW s \in Server, NEW c \in Chan, NEW val \in Value,
           Response(w, s, c, val)
    PROVE  /\ \A v \in Worker, t \in Server, d \in Chan :
                ~(v = w /\ t = s /\ d = c) => link'[v][t][d] = link[v][t][d]
           /\ link'[w][s][c].st = "resp" /\ link'[w][s][c].val = val
           /\ link'[w][s][c].op = link[w][s][c].op
           /\ link'[w][s][c].grad = link[w][s][c].grad
           /\ link' \in [Worker -> [Server -> [Chan -> Link]]]
<1> DEFINE l == [link[w][s][c] EXCEPT !.st = "resp", !.val = val]
<1>1. link[w][s][c] \in Link
  BY DEF TypeOK
<1>2. /\ l \in Link
      /\ l.st = "resp" /\ l.val = val /\ l.op = link[w][s][c].op /\ l.grad = link[w][s][c].grad
  BY Zenon, <1>1 DEF Link
<1>3. link' = [link EXCEPT ![w][s][c] = l]
  BY Zenon DEF Response
<1> HIDE DEF l
<1>4. /\ \A v \in Worker, t \in Server, d \in Chan :
            link'[v][t][d] = IF v = w /\ t = s /\ d = c THEN l ELSE link[v][t][d]
      /\ link' \in [Worker -> [Server -> [Chan -> Link]]]
  BY Zenon, <1>2, <1>3, ChannelStep
<1>5. link'[w][s][c] = l
  BY Zenon, <1>4
<1> QED
  BY Zenon, <1>2, <1>4, <1>5

-----------------------------------------------------------------------------
(* Frames: what keeps a part of the invariant.                             *)

\* A step that leaves the programs, the modes and the command channels alone.
LEMMA CommandFrame ==
    ASSUME IInv, UNCHANGED <<conf, step, modeVars>>,
           \A w \in Worker, s \in Server : link'[w][s][Cmd] = link[w][s][Cmd]
    PROVE  BarrierInv' /\ CommandInv' /\ ModeInv'
<1>1. Rank0 \in Worker
  BY Zenon, KVStoreAssumption
<1>2. BarrierInv'
  BY Zenon DEF IInv, BarrierInv
<1>3. CommandInv'
  BY DEF IInv, CommandInv, Call, Sends
<1>4. ModeInv'
  BY Zenon, <1>1 DEF IInv, ModeInv, Past, modeVars
<1> QED
  BY Zenon, <1>2, <1>3, <1>4

\* A step that leaves the programs and the modes alone.
LEMMA TypeFrame ==
    ASSUME TypeOK, UNCHANGED <<conf, step, at, rows, modeVars>>,
           link' \in [Worker -> [Server -> [Chan -> Link]]],
           store' \in [Server -> [Key -> Value]], store_realt' \in [Server -> [Key -> Value]],
           request' \in [Server -> [Key -> Seq(Worker)]], merged' \in [Server -> [Key -> Grads]],
           lag' \in [Server -> [Key -> BOOLEAN]], failed' \in BOOLEAN
    PROVE  TypeOK'
<1>1. /\ conf' = conf /\ step' = step /\ at' = at /\ rows' = rows
      /\ sync_mode' = sync_mode /\ multi_precision' = multi_precision
      /\ updater' = updater /\ exec' = exec
  BY Zenon DEF modeVars
<1> QED
  BY Zenon, <1>1 DEF TypeOK

\* A step that applies no push of a shard and counts none as applied.
LEMMA RoundFrame ==
    ASSUME IInv, UNCHANGED <<conf, rows>>, NEW k \in Key, NEW s \in Shards[k],
           \A w \in Worker : Done(w, s, k)' = Done(w, s, k),
           Stored(s, k)' = Stored(s, k)
    PROVE  (conf.sync => RoundOf(s, k)') /\ (~conf.sync => AsyncOf(s, k)')
<1>1. Rank0 \in Worker
  BY Zenon, KVStoreAssumption
<1>2. conf.sync => RoundOf(s, k)'
  BY SMTT(40), SMTT(40), <1>1 DEF IInv, RoundInv, RoundOf, Round
<1>3. ~conf.sync => AsyncOf(s, k)'
  BY DEF IInv, AsyncInv, AsyncOf
<1> QED
  BY Zenon, <1>2, <1>3

\* The same for all shards.
LEMMA RoundsFrame ==
    ASSUME IInv, UNCHANGED <<conf, rows>>,
           \A w \in Worker, k \in Key : \A s \in Shards[k] : Done(w, s, k)' = Done(w, s, k),
           \A s \in Server, k \in Key : Stored(s, k)' = Stored(s, k)
    PROVE  RoundInv' /\ AsyncInv'
<1>1. \A k \in Key : Shards[k] \subseteq Server
  BY Zenon, KVStoreAssumption
<1>2. ASSUME NEW k \in Key, NEW s \in Shards[k]
      PROVE  (conf.sync => RoundOf(s, k)') /\ (~conf.sync => AsyncOf(s, k)')
  BY Zenon, <1>1, RoundFrame
<1> QED
  BY Zenon, <1>2 DEF RoundInv, AsyncInv

\* A step after which the same requests are held.
LEMMA MergeFrame ==
    ASSUME IInv, UNCHANGED <<conf, request, merged>>,
           \A w \in Worker, s \in Server, k \in Key :
             /\ link'[w][s][k].st = "held" <=> link[w][s][k].st = "held"
             /\ link[w][s][k].st = "held" => link'[w][s][k].grad = link[w][s][k].grad
    PROVE  MergeInv'
<1> SUFFICES ASSUME NEW s \in Server, NEW k \in Key
             PROVE  /\ \A i, j \in DOMAIN request[s][k] : request[s][k][i] = request[s][k][j] => i = j
                    /\ Held(s, k)' = {request[s][k][i] : i \in DOMAIN request[s][k]}
                    /\ request[s][k] # <<>> =>
                         conf.sync /\ merged[s][k] = UNION {link'[w][s][k].grad : w \in Held(s, k)'}
  BY DEF MergeInv
<1>1. Held(s, k)' = Held(s, k)
  BY Zenon DEF Held
<1>2. {link'[w][s][k].grad : w \in Held(s, k)} = {link[w][s][k].grad : w \in Held(s, k)}
  BY Zenon DEF Held
<1> QED
  BY Zenon, <1>1, <1>2 DEF IInv, MergeInv

\* A step that leaves the stored values alone, and initialises nothing.
LEMMA StoreFrame ==
    ASSUME IInv, UNCHANGED <<conf, store, store_realt, lag, multi_precision>>,
           \A s \in Server, k \in Key : Initialised(s, k)' <=> Initialised(s, k),
           \A w \in Worker : step'[w] < 6 => step[w] < 6
    PROVE  StoreInv' /\ \A s \in Server, k \in Key : Stored(s, k)' = Stored(s, k)
<1>1. \A s \in Server, k \in Key : Stored(s, k)' = Stored(s, k)
  BY Zenon DEF Stored, has_multi_precision_copy
<1>2. \A s \in Server : has_multi_precision_copy(s)' <=> has_multi_precision_copy(s)
  BY Zenon DEF has_multi_precision_copy
<1>3. StoreInv'
  BY <1>1, <1>2 DEF IInv, StoreInv
<1> QED
  BY Zenon, <1>1, <1>3

\* A step that leaves a worker's requests for a key alone.
LEMMA RequestFrame ==
    ASSUME IInv, NEW w \in Worker, NEW k \in Key,
           step'[w] = step[w], at'[w][k] = at[w][k], rows'[w][k] = rows[w][k],
           \A s \in Server : link'[w][s][k] = link[w][s][k]
    PROVE  /\ PushNumber(w, k)' = PushNumber(w, k) /\ Issued(w, k)' = Issued(w, k)
           /\ \A s \in Server : RequestOf(w, s, k)' /\ Done(w, s, k)' = Done(w, s, k)
<1>1. Shards[k] \subseteq Server
  BY Zenon, KVStoreAssumption
<1>2. \A s \in Shards[k] : link'[w][s][k] = link[w][s][k]
  BY Zenon, <1>1
<1>3. PushNumber(w, k)' = PushNumber(w, k)
  BY Zenon DEF PushNumber
<1>4. Issued(w, k)' = Issued(w, k)
  BY Zenon, <1>2, <1>3 DEF Issued
<1>5. ASSUME NEW s \in Server
      PROVE  RequestOf(w, s, k)' /\ Done(w, s, k)' = Done(w, s, k)
  <2>1. RequestOf(w, s, k) /\ link'[w][s][k] = link[w][s][k]
    BY Zenon DEF IInv, LinkInv
  <2>2. RequestOf(w, s, k)'
    BY Zenon, <1>2, <1>3, <2>1 DEF RequestOf
  <2>3. Done(w, s, k)' = Done(w, s, k)
    BY Zenon, <1>3, <2>1 DEF Done
  <2> QED
    BY Zenon, <2>2, <2>3
<1> QED
  BY Zenon, <1>3, <1>4, <1>5

\* A step that answers no pull.
LEMMA PullFrame ==
    ASSUME IInv, UNCHANGED conf,
           \A w \in Worker, k \in Key : \A s \in Shards[k] :
             conf.sync /\ link'[w][s][k].op = "pull" /\ link'[w][s][k].st = "resp" =>
               /\ link'[w][s][k] = link[w][s][k]
               /\ PushNumber(w, k)' = PushNumber(w, k)
               /\ Round(s, k, PushNumber(w, k))' = Round(s, k, PushNumber(w, k))
    PROVE  PullSeesRound'
<1> SUFFICES ASSUME conf.sync, NEW w \in Worker, NEW k \in Key, NEW s \in Shards[k],
                    link'[w][s][k].op = "pull", link'[w][s][k].st = "resp"
             PROVE  IF conf.opt THEN Len(link'[w][s][k].val) = PushNumber(w, k)'
                    ELSE link'[w][s][k].val = <<Round(s, k, PushNumber(w, k))'>>
  BY Zenon DEF PullSeesRound
<1>1. /\ link'[w][s][k] = link[w][s][k]
      /\ PushNumber(w, k)' = PushNumber(w, k)
      /\ Round(s, k, PushNumber(w, k))' = Round(s, k, PushNumber(w, k))
  BY Zenon
<1>2. IF conf.opt THEN Len(link[w][s][k].val) = PushNumber(w, k)
      ELSE link[w][s][k].val = <<Round(s, k, PushNumber(w, k))>>
  BY <1>1 DEF IInv, PullSeesRound
<1> QED
  BY Zenon, <1>1, <1>2

\* A step that is no step of a worker's training changes no push and no round.
LEMMA SameRounds ==
    ASSUME UNCHANGED <<at, rows>>, NEW w \in Worker, NEW k \in Key, NEW s
    PROVE  /\ PushNumber(w, k)' = PushNumber(w, k)
           /\ Round(s, k, PushNumber(w, k))' = Round(s, k, PushNumber(w, k))
<1>1. at' = at /\ rows' = rows
  BY Zenon
<1>2. PushNumber(w, k)' = PushNumber(w, k)
  BY Zenon, <1>1 DEF PushNumber
<1> DEFINE n == PushNumber(w, k)
<1>3. Round(s, k, n)' = {<<v, n'>> : v \in {u \in Worker : n' \in DOMAIN rows'[u][k] /\ s \in rows'[u][k][n']}}
  BY Zenon DEF Round
<1>4. Round(s, k, n) = {<<v, n>> : v \in {u \in Worker : n \in DOMAIN rows[u][k] /\ s \in rows[u][k][n]}}
  BY Zenon DEF Round
<1>5. n' = n
  BY Zenon, <1>2
<1> HIDE DEF n
<1>6. Round(s, k, n)' = Round(s, k, n)
  BY Zenon, <1>1, <1>3, <1>4, <1>5
<1> QED
  BY Zenon, <1>2, <1>6 DEF n

-----------------------------------------------------------------------------
(* The initial states.                                                     *)

\* The invariant holds when nobody has called anything.
LEMMA InitInv == Init => IInv
<1> SUFFICES ASSUME Init PROVE IInv
  BY Zenon
<1>1. Rank0 \in Worker /\ \A k \in Key : Shards[k] \subseteq Server
  BY Zenon, KVStoreAssumption
<1>2. Idle \in Link /\ Idle.st = "idle" /\ Idle.op = "none"
  BY Zenon DEF Idle, Link, Grads, Value
<1>3. TypeOK
  <2>1. End = 10
    BY Zenon DEF End, Program
  <2>2. link \in [Worker -> [Server -> [Chan -> Link]]]
    BY Zenon, <1>2 DEF Init
  <2>3. /\ step \in [Worker -> 1 .. End]
        /\ at \in [Worker -> [Key -> 0 .. 2 * Rounds]]
        /\ rows \in [Worker -> [Key -> Seq(SUBSET Server)]]
    BY <2>1, KVStoreAssumption DEF Init
  <2>4. /\ store \in [Server -> [Key -> Value]] /\ store_realt \in [Server -> [Key -> Value]]
        /\ request \in [Server -> [Key -> Seq(Worker)]] /\ merged \in [Server -> [Key -> Grads]]
    BY DEF Init, Value, Grads
  <2>5. /\ lag \in [Server -> [Key -> BOOLEAN]] /\ sync_mode \in [Server -> BOOLEAN]
        /\ updater \in [Server -> BOOLEAN]
        /\ exec \in [Server -> BOOLEAN] /\ failed \in BOOLEAN /\ conf \in Confs
    BY Zenon DEF Init
  <2>6. multi_precision \in [Server -> BOOLEAN]
    <3>1. \A s \in Server : (s \in conf.garbage) \in BOOLEAN
      OBVIOUS
    <3> QED
      BY <3>1, Zenon DEF Init
  <2> QED
    BY Zenon, <2>2, <2>3, <2>4, <2>5, <2>6 DEF TypeOK
<1>4. \A w \in Worker, s \in Server, c \in Chan : link[w][s][c] = Idle
  BY Zenon DEF Init
<1>5. \A w \in Worker, k \in Key : step[w] = 1 /\ at[w][k] = 0 /\ rows[w][k] = <<>>
  BY Zenon DEF Init
<1>6. \A k \in Key : k \in Chan
  BY Zenon DEF Chan
<1>7. Cmd \in Chan
  BY Zenon DEF Chan
<1>8. BarrierInv /\ CommandInv /\ LinkInv
  <2>1. BarrierInv
    <3> SUFFICES ASSUME NEW v \in Worker, NEW w \in Worker
                 PROVE  /\ step[w] > 6 => step[v] >= 6
                        /\ step[w] > 8 => step[v] >= 8
      BY Zenon DEF BarrierInv
    <3> QED
      BY <1>3, <1>5 DEF Init
  <2>2. CommandInv
    BY Zenon, <1>2, <1>4, <1>7 DEF CommandInv
  <2>3. LinkInv
    BY SMTT(40), SMTT(40), <1>2, <1>4, <1>6 DEF LinkInv, RequestOf
  <2> QED
    BY Zenon, <2>1, <2>2, <2>3
<1>9. ModeInv
  BY SMTT(40), SMTT(40), <1>1, <1>5 DEF ModeInv, Past, Init
<1>10. CountInv
  <2>1. ASSUME NEW w \in Worker, NEW k \in Key
        PROVE  step[w] = 1 /\ at[w][k] = 0 /\ Len(rows[w][k]) = 0 /\ Issued(w, k) = 0
    <3>1. step[w] = 1 /\ at[w][k] = 0 /\ rows[w][k] = <<>>
      BY Zenon DEF Init
    <3> QED
      BY <3>1 DEF Issued, PushNumber
  <2>2. \A w \in Worker, k \in Key : DOMAIN rows[w][k] = {}
    BY SMTT(40), SMTT(40), <1>5
  <2> QED
    BY <2>1, <2>2 DEF CountInv
<1>11. MergeInv
  BY <1>2, <1>4, <1>6 DEF Init, MergeInv, Held
<1>12. \A s \in Server, k \in Key : /\ store[s][k] = NoValue /\ store_realt[s][k] = NoValue
                                    /\ ~lag[s][k] /\ Stored(s, k) = NoValue
  BY Zenon DEF Init, Stored
<1>13. StoreInv
  BY SMTT(40), SMTT(40), <1>1, <1>5, <1>12 DEF StoreInv, Initialised
<1>14. RoundInv /\ AsyncInv
  <2>1. \A v \in Worker, s \in Server, k \in Key : Done(v, s, k) = 0
    BY <1>5 DEF Done, PushNumber
  <2> QED
    BY SMTT(40), SMTT(40), <1>1, <1>12, <2>1 DEF RoundInv, RoundOf, AsyncInv, AsyncOf
<1>15. PullSeesRound /\ ChecksHold
  BY Zenon, <1>1, <1>2, <1>4, <1>6 DEF PullSeesRound, ChecksHold, Init
<1> QED
  BY Zenon, <1>3, <1>8, <1>9, <1>10, <1>11, <1>13, <1>14, <1>15 DEF IInv

-----------------------------------------------------------------------------
(* Steps to the next call of the program.                                  *)

\* What the channels of a worker say about its place.
LEMMA Channels ==
    ASSUME IInv, NEW w \in Worker, NEW s \in Server
    PROVE  /\ step[w] \notin {2, 3, 4, 9} \/ ~Sends(w) => link[w][s][Cmd].st = "idle"
           /\ \A k \in Key : step[w] \notin {5, 7} => link[w][s][k].st = "idle"
           /\ \A k \in Key : step[w] = 5 /\ w # Rank0 => link[w][s][k].st = "idle"
           /\ \A k \in Key : step[w] = 7 /\ at[w][k] = 2 * Rounds => link[w][s][k].st = "idle"
           /\ \A k \in Key : step[w] = 5 => link[w][s][k].st # "held"
<1>1. TypeOK
  BY Zenon DEF IInv
<1>2. Call(w) \in Commands => step[w] \in {2, 3, 4, 9}
  BY Zenon, <1>1, Places DEF TypeOK
<1>3. step[w] \notin {2, 3, 4, 9} \/ ~Sends(w) => link[w][s][Cmd].st = "idle"
  BY Zenon, <1>2 DEF IInv, CommandInv
<1>4. \A k \in Key : RequestOf(w, s, k)
  BY Zenon DEF IInv, LinkInv
<1>5. Rounds \in Nat /\ \A k \in Key : at[w][k] \in Nat
  BY SMTT(40), SMTT(40), <1>1, KVStoreAssumption DEF TypeOK
<1>6. ASSUME NEW k \in Key
      PROVE  /\ step[w] \notin {5, 7} => link[w][s][k].st = "idle"
             /\ step[w] = 5 /\ w # Rank0 => link[w][s][k].st = "idle"
             /\ step[w] = 7 /\ at[w][k] = 2 * Rounds => link[w][s][k].st = "idle"
             /\ step[w] = 5 => link[w][s][k].st # "held"
  <2>1. link[w][s][k].st # "idle" =>
          /\ step[w] \in {5, 7}
          /\ step[w] = 5 => w = Rank0 /\ link[w][s][k].st # "held"
          /\ step[w] = 7 => at[w][k] < 2 * Rounds
    BY Zenon, <1>4 DEF RequestOf
  <2> QED
    BY <1>5, <2>1
<1> QED
  BY Zenon, <1>3, <1>6

\* Worker w goes on to its next call, with nothing left on its channels: a
\* barrier has been reached, a call that sends has been answered.
Advances(w) ==
    /\ step[w] < 10 /\ step' = [step EXCEPT ![w] = step[w] + 1]
    /\ UNCHANGED <<conf, at, rows, modeVars, dataVars, failed>>
    /\ link' \in [Worker -> [Server -> [Chan -> Link]]]
    /\ \A s \in Server, c \in Chan : link'[w][s][c].st = "idle"
    /\ \A v \in Worker \ {w}, s \in Server, c \in Chan : link'[v][s][c] = link[v][s][c]
    /\ step[w] \in {6, 8} => Reached(w)
    /\ step[w] \in {2, 3, 4} /\ Sends(w) => \A s \in Server : link[w][s][Cmd].st = "resp"
    /\ step[w] = 5 /\ w = Rank0 =>
         \A k \in Key : \A s \in Shards[k] : link[w][s][k].st = "resp"
    /\ step[w] = 7 => \A k \in Key : at[w][k] = 2 * Rounds

\* A call of a worker returns, under the conditions that its step number asks for.
LEMMA Advance ==
    ASSUME IInv, NEW w \in Worker, Advances(w)
    PROVE  IInv'
<1>20. UNCHANGED <<conf, at, rows, modeVars, dataVars, failed>>
  BY Zenon DEF Advances
<1>1. Rank0 \in Worker /\ Rounds \in Nat /\ \A k \in Key : Shards[k] \subseteq Server
  BY Zenon, KVStoreAssumption
<1>2. TypeOK
  BY Zenon DEF IInv
<1>3. \A v \in Worker : step[v] \in 1 .. 10
  BY Zenon, <1>2, Places DEF TypeOK
<1>5. \A v \in Worker : step'[v] = IF v = w THEN step[w] + 1 ELSE step[v]
  BY <1>2 DEF TypeOK, Advances
<1>4. TypeOK'
  <2>1. step \in [Worker -> 1 .. End] /\ End = 10 /\ step[w] < 10
    BY Zenon, <1>2, Places DEF TypeOK, Advances
  <2>2. step[w] + 1 \in 1 .. End
    BY <1>3, <2>1
  <2>3. step' \in [Worker -> 1 .. End]
    BY Zenon, <2>1, <2>2 DEF Advances
  <2>4. /\ conf' = conf /\ at' = at /\ rows' = rows /\ failed' = failed
        /\ sync_mode' = sync_mode /\ multi_precision' = multi_precision
        /\ updater' = updater /\ exec' = exec
        /\ store' = store /\ store_realt' = store_realt /\ lag' = lag
        /\ request' = request /\ merged' = merged
    BY Zenon, <1>20 DEF modeVars, dataVars
  <2>5. link' \in [Worker -> [Server -> [Chan -> Link]]]
    BY Zenon DEF Advances
  <2> QED
    BY Zenon, <1>2, <2>3, <2>4, <2>5 DEF TypeOK
<1>6. (\A k \in Key : k \in Chan) /\ Cmd \in Chan
  BY Zenon DEF Chan
<1>7. BarrierInv'
  BY <1>3, <1>5 DEF IInv, BarrierInv, Reached, Advances
<1>8. CommandInv'
  <2>1. \A v \in Worker : v # w => Call(v)' = Call(v) /\ (Sends(v)' <=> Sends(v))
    BY Zenon, <1>5, <1>20 DEF Call, Sends
  <2> SUFFICES ASSUME NEW v \in Worker, NEW s \in Server, link'[v][s][Cmd].st # "idle"
               PROVE  (link[v][s][Cmd].op)' = Call(v)' /\ Call(v)' \in Commands /\ Sends(v)'
    BY Zenon DEF CommandInv
  <2>2. v # w /\ link'[v][s][Cmd] = link[v][s][Cmd]
    BY <1>6 DEF Advances
  <2> QED
    BY Zenon, <2>1, <2>2 DEF IInv, CommandInv
<1>9. ModeInv'
  <2>1. conf \in Confs /\ step \in [Worker -> 1 .. End]
    BY Zenon, <1>2 DEF TypeOK
  <2>2. \A s \in Server, n \in {2, 3, 4} :
          Past(s, n)' => Past(s, n) \/ (w = Rank0 /\ step[Rank0] = n /\ ~Sends(Rank0))
    BY SMTT(40), SMTT(40), <1>1, <1>3, <1>5, <1>6 DEF Past, Advances
  <2>3. \A s \in Server : /\ conf.sync /\ Past(s, 2)' => Past(s, 2)
                          /\ conf.opt /\ Past(s, 3)' => Past(s, 3)
                          /\ conf.opt /\ conf.half /\ Past(s, 4)' => Past(s, 4)
    BY Zenon, <1>1, <2>1, <2>2, Sending
  <2>4. step[Rank0] >= 9 => step'[Rank0] >= 9
    BY <1>1, <1>3, <1>5
  <2> QED
    BY Zenon, <1>20, <2>3, <2>4 DEF IInv, ModeInv, modeVars
<1>10. \A s \in Server, k \in Key : link[w][s][k].st # "held"
  <2>1. \A k \in Key : step[w] = 7 => at[w][k] = 2 * Rounds
    BY Zenon DEF Advances
  <2> QED
    BY Zenon, <2>1, Channels
<1>19. ASSUME NEW v \in Worker, NEW s \in Server, NEW k \in Key
       PROVE  /\ v = w => link'[v][s][k].st = "idle"
              /\ v # w => link'[v][s][k] = link[v][s][k]
  BY <1>6 DEF Advances
<1>11. LinkInv'
  <2> SUFFICES ASSUME NEW v \in Worker, NEW s \in Server, NEW k \in Key
               PROVE  RequestOf(v, s, k)'
    BY Zenon DEF LinkInv
  <2>1. CASE v = w
    BY Zenon, <1>19, <2>1 DEF RequestOf
  <2>2. CASE v # w
    <3>1. \A t \in Shards[k] : link'[v][t][k] = link[v][t][k]
      BY Zenon, <1>1, <1>19, <2>2
    <3>2. RequestOf(v, s, k) /\ step'[v] = step[v] /\ link'[v][s][k] = link[v][s][k]
      BY Zenon, <1>5, <1>19, <2>2 DEF IInv, LinkInv
    <3> QED
      BY Zenon, <1>20, <3>1, <3>2 DEF RequestOf, PushNumber
  <2> QED
    BY Zenon, <2>1, <2>2
<1>12. \A v \in Worker, k \in Key : Issued(v, k)' = Issued(v, k)
  <2>1. \A k \in Key : step[w] = 7 => \A s \in Shards[k] : link[w][s][k].st = "idle"
    BY <1>1, Channels DEF Advances
  <2> SUFFICES ASSUME NEW v \in Worker, NEW k \in Key
               PROVE  Issued(v, k)' = Issued(v, k)
    BY Zenon
  <2>2. CASE v = w
    <3>1. \A s \in Shards[k] : link'[v][s][k].st = "idle"
      BY Zenon, <1>1, <1>19, <2>2
    <3>2. ~(step[v] = 7 /\ \E s \in Shards[k] : link[v][s][k].st # "idle")
      BY Zenon, <2>1, <2>2
    <3>3. ~(step'[v] = 7 /\ \E s \in Shards[k] : link'[v][s][k].st # "idle")
      BY Zenon, <3>1
    <3>4. at'[v][k] = at[v][k]
      BY Zenon, <1>20
    <3> QED
      BY Zenon, <3>2, <3>3, <3>4 DEF Issued, PushNumber
  <2>3. CASE v # w
    <3>1. \A s \in Shards[k] : link'[v][s][k] = link[v][s][k]
      BY Zenon, <1>1, <1>19, <2>3
    <3> QED
      BY Zenon, <1>5, <1>20, <2>3, <3>1 DEF Issued, PushNumber
  <2> QED
    BY Zenon, <2>2, <2>3
<1>13. \A v \in Worker, s \in Server, k \in Key : Done(v, s, k)' = Done(v, s, k)
  <2>1. \A s \in Server, k \in Key : step[w] = 7 => link[w][s][k].st = "idle"
    BY SMTT(40), SMTT(40), Channels DEF Advances
  <2> QED
    BY SMTT(40), SMTT(40), <1>5, <1>19, <1>20, <2>1 DEF Done, PushNumber
<1>14. CountInv'
  BY SMTT(40), SMTT(40), <1>3, <1>5, <1>12, <1>20 DEF IInv, CountInv, Advances
<1>15. MergeInv'
  <2>1. \A v \in Worker, s \in Server, k \in Key :
             /\ link'[v][s][k].st = "held" <=> link[v][s][k].st = "held"
             /\ link[v][s][k].st = "held" => link'[v][s][k].grad = link[v][s][k].grad
    BY <1>10, <1>19
  <2> QED
    BY Zenon, <1>20, <2>1, MergeFrame DEF dataVars
<1>16. StoreInv' /\ \A s \in Server, k \in Key : Stored(s, k)' = Stored(s, k)
  <2>1. \A s \in Server, k \in Key : Initialised(s, k)' <=> Initialised(s, k)
    <3> SUFFICES ASSUME NEW s \in Server, NEW k \in Key
                 PROVE  Initialised(s, k)' <=> Initialised(s, k)
      BY Zenon
    <3>1. CASE w = Rank0
      <4>1. link'[Rank0][s][k].st = "idle" /\ step'[Rank0] = step[Rank0] + 1 /\ step[Rank0] \in 1 .. 10
        BY Zenon, <1>3, <1>5, <1>19, <3>1
      <4> QED
        BY <3>1, <4>1 DEF Initialised, Advances
    <3>2. CASE w # Rank0
      BY Zenon, <1>1, <1>5, <1>19, <3>2 DEF Initialised
    <3> QED
      BY Zenon, <3>1, <3>2
  <2>2. \A v \in Worker : step'[v] < 6 => step[v] < 6
    BY <1>3, <1>5
  <2> QED
    BY Zenon, <1>20, <2>1, <2>2, StoreFrame DEF dataVars, modeVars
<1>17. RoundInv' /\ AsyncInv'
  BY Zenon, <1>1, <1>13, <1>16, <1>20, RoundsFrame
<1>18. PullSeesRound' /\ ChecksHold'
  <2>1. \A v \in Worker, k \in Key : \A s \in Shards[k] :
          link'[v][s][k].op = "pull" /\ link'[v][s][k].st = "resp" => link'[v][s][k] = link[v][s][k]
    BY <1>1, <1>19
  <2>2. \A v \in Worker, k \in Key : \A s \in Shards[k] :
          Round(s, k, PushNumber(v, k))' = Round(s, k, PushNumber(v, k))
    BY <1>20 DEF Round, PushNumber
  <2>3. \A v \in Worker, k \in Key : PushNumber(v, k)' = PushNumber(v, k)
    BY Zenon, <1>20 DEF PushNumber
  <2> QED
    BY Zenon, <1>20, <2>1, <2>2, <2>3, PullFrame DEF IInv, ChecksHold
<1> QED
  BY Zenon, <1>4, <1>7, <1>8, <1>9, <1>11, <1>14, <1>15, <1>16, <1>17, <1>18 DEF IInv

\* SendCommandToServers returns.
LEMMA CommandReturnsInv ==
    ASSUME IInv, NEW w \in Worker, CommandReturns(w)
    PROVE  IInv'
<1>1. TypeOK /\ Rank0 \in Worker
  BY Zenon, KVStoreAssumption DEF IInv
<1>2. step[w] \in {2, 3, 4, 9} /\ step[w] < 10
  BY SMTT(40), SMTT(40), <1>1, Places DEF TypeOK, CommandReturns
<1>3. Idle \in Link /\ Idle.st = "idle" /\ Idle.op = "none"
  BY Zenon DEF Idle, Link, Grads, Value
<1>4. Cmd \in Chan /\ \A c \in Chan : c = Cmd \/ c \in Key
  BY Zenon DEF Chan
<1>5. \A v \in Worker, t \in Server, d \in Chan :
        link'[v][t][d] = IF v = w /\ d = Cmd THEN Idle ELSE link[v][t][d]
  <2>1. {Cmd} \in SUBSET Chan /\ Taken(w, {Cmd})
    BY Zenon, <1>4 DEF CommandReturns
  <2>2. \A v \in Worker, t \in Server, d \in Chan :
          link'[v][t][d] = IF v = w /\ d \in {Cmd} THEN Idle ELSE link[v][t][d]
    BY Zenon, <1>1, <2>1, TakenStep
  <2> QED
    BY Zenon, <2>2
<1>6. link' \in [Worker -> [Server -> [Chan -> Link]]]
  BY SMTT(40), SMTT(40), <1>1, <1>3 DEF TypeOK, CommandReturns, Taken
<1>7. \A s \in Server, c \in Chan : link'[w][s][c].st = "idle"
  BY <1>2, <1>3, <1>4, <1>5, Channels
<1>8. \A s \in Server : link[w][s][Cmd].st = "resp"
  BY Zenon DEF CommandReturns, Answered, SentTo
<1>9. Advances(w)
  BY SMTT(40), SMTT(40), <1>2, <1>5, <1>6, <1>7, <1>8 DEF Advances, CommandReturns
<1> QED
  BY Zenon, <1>9, Advance

\* InitImpl returns on rank 0, with every key initialised on every shard.
LEMMA InitReturnsInv ==
    ASSUME IInv, NEW w \in Worker, InitReturns(w)
    PROVE  IInv'
<1>1. TypeOK /\ Rank0 \in Worker
  BY Zenon, KVStoreAssumption DEF IInv
<1>2. step[w] = 5 /\ step[w] < 10
  BY <1>1, Places DEF TypeOK, InitReturns
<1>3. Idle \in Link /\ Idle.st = "idle"
  BY Zenon DEF Idle, Link, Grads, Value
<1>4. Key \subseteq Chan /\ Cmd \in Chan /\ \A c \in Chan : c = Cmd \/ c \in Key
  BY Zenon DEF Chan
<1>5. \A v \in Worker, t \in Server, d \in Chan :
        link'[v][t][d] = IF v = w /\ d \in Key THEN Idle ELSE link[v][t][d]
  BY Zenon, <1>1, <1>4, TakenStep DEF InitReturns
<1>6. link' \in [Worker -> [Server -> [Chan -> Link]]]
  BY <1>1, <1>3 DEF TypeOK, InitReturns, Taken
<1>7. \A s \in Server, c \in Chan : link'[w][s][c].st = "idle"
  BY <1>2, <1>3, <1>4, <1>5, Channels
<1>8. \A k \in Key : \A s \in Shards[k] : link[w][s][k].st = "resp"
  BY Zenon, KVStoreAssumption DEF InitReturns, Answered, SentTo
<1>9. Advances(w)
  BY <1>2, <1>5, <1>6, <1>7, <1>8 DEF Advances, InitReturns
<1> QED
  BY Zenon, <1>9, Advance

\* The calls that only go on: Skip, a barrier, the end of training.
LEMMA GoOnInv ==
    ASSUME IInv, NEW w \in Worker, Skip(w) \/ Barrier(w) \/ TrainingEnds(w)
    PROVE  IInv'
<1>1. TypeOK /\ Rank0 \in Worker
  BY Zenon, KVStoreAssumption DEF IInv
<1>2. /\ step' = [step EXCEPT ![w] = step[w] + 1]
      /\ UNCHANGED <<conf, at, rows, link, modeVars, dataVars, failed>>
  BY Zenon DEF Skip, Barrier, TrainingEnds
<1>3. \A c \in Chan : c = Cmd \/ c \in Key
  BY Zenon DEF Chan
<1>4. link' \in [Worker -> [Server -> [Chan -> Link]]]
  BY Zenon, <1>1, <1>2 DEF TypeOK
<1>5. conf \in Confs /\ step \in [Worker -> 1 .. End] /\ step[w] \in 1 .. 10
  BY Zenon, <1>1, Places DEF TypeOK
<1>6. CASE Skip(w)
  <2>1. step[w] \in {2, 3, 4, 5, 9} /\ ~Sends(w)
    BY Zenon, <1>5, <1>6, Places DEF Skip
  <2>2. step[w] = 5 => w # Rank0
    BY Zenon, <1>5, <2>1, Sending
  <2>3. \A s \in Server, c \in Chan : link[w][s][c].st = "idle"
    BY SMTT(40), SMTT(40), <1>3, <2>1, <2>2, Channels
  <2>4. Advances(w)
    BY SMTT(40), SMTT(40), <1>2, <1>4, <2>1, <2>2, <2>3 DEF Advances
  <2> QED
    BY Zenon, <2>4, Advance
<1>7. CASE Barrier(w)
  <2>1. step[w] \in {1, 6, 8} /\ Reached(w)
    BY Zenon, <1>5, <1>7, Places DEF Barrier
  <2>2. \A s \in Server, c \in Chan : link[w][s][c].st = "idle"
    BY SMTT(40), SMTT(40), <1>3, <2>1, Channels
  <2>3. Advances(w)
    BY SMTT(40), SMTT(40), <1>2, <1>4, <2>1, <2>2 DEF Advances
  <2> QED
    BY Zenon, <2>3, Advance
<1>8. CASE TrainingEnds(w)
  <2>1. step[w] = 7 /\ \A k \in Key : at[w][k] = 2 * Rounds
    BY Zenon, <1>5, <1>8, Places DEF TrainingEnds
  <2>2. \A s \in Server, c \in Chan : link[w][s][c].st = "idle"
    BY SMTT(40), SMTT(40), <1>3, <2>1, Channels
  <2>3. Advances(w)
    BY <1>2, <1>4, <2>1, <2>2 DEF Advances
  <2> QED
    BY Zenon, <2>3, Advance
<1> QED
  BY Zenon, <1>6, <1>7, <1>8

-----------------------------------------------------------------------------
(* Commands and their handling.                                            *)

\* A step on command channels that leaves the rest of the store as it is.
OnCommands ==
    /\ UNCHANGED <<conf, step, at, rows, lag, store, store_realt, request, merged, failed>>
    /\ link' \in [Worker -> [Server -> [Chan -> Link]]]
    /\ \A w \in Worker, s \in Server, k \in Key : link'[w][s][k] = link[w][s][k]
    /\ \A s \in Server, k \in Key : Stored(s, k)' = Stored(s, k)

\* Such a step keeps what the invariant says of keys and values.
LEMMA CommandStep ==
    ASSUME IInv, OnCommands
    PROVE  LinkInv' /\ CountInv' /\ MergeInv' /\ RoundInv' /\ AsyncInv' /\ PullSeesRound'
           /\ ChecksHold' /\ BarrierInv'
<1>1. UNCHANGED <<conf, step, at, rows, lag, store, store_realt, request, merged, failed>>
  BY Zenon DEF OnCommands
<1>2. \A w \in Worker, s \in Server, k \in Key : link'[w][s][k] = link[w][s][k]
  BY Zenon DEF OnCommands
<1>3. \A k \in Key : Shards[k] \subseteq Server
  BY Zenon, KVStoreAssumption
<1>4. \A w \in Worker, k \in Key : \A s \in Shards[k] : link'[w][s][k] = link[w][s][k]
  BY Zenon, <1>2, <1>3
<1>5. ASSUME NEW w \in Worker, NEW k \in Key
      PROVE  /\ PushNumber(w, k)' = PushNumber(w, k) /\ Issued(w, k)' = Issued(w, k)
             /\ \A s \in Server : RequestOf(w, s, k)' /\ Done(w, s, k)' = Done(w, s, k)
  BY Zenon, <1>1, <1>2, RequestFrame
<1>6. LinkInv'
  BY Zenon, <1>5 DEF LinkInv
<1>7. CountInv'
  BY Zenon, <1>1, <1>5 DEF IInv, CountInv
<1>8. MergeInv'
  BY Zenon, <1>1, <1>2, MergeFrame
<1>9. \A w \in Worker, k \in Key : \A s \in Shards[k] : Done(w, s, k)' = Done(w, s, k)
  BY Zenon, <1>3, <1>5
<1>10. RoundInv' /\ AsyncInv'
  BY Zenon, <1>1, <1>9, RoundsFrame DEF OnCommands
<1>11. \A w \in Worker, k \in Key : \A s \in Shards[k] :
         /\ PushNumber(w, k)' = PushNumber(w, k)
         /\ Round(s, k, PushNumber(w, k))' = Round(s, k, PushNumber(w, k))
  BY <1>1 DEF Round, PushNumber
<1>12. PullSeesRound'
  BY Zenon, <1>1, <1>4, <1>11, PullFrame
<1>13. ChecksHold' /\ BarrierInv'
  BY Zenon, <1>1 DEF IInv, ChecksHold, BarrierInv
<1> QED
  BY Zenon, <1>6, <1>7, <1>8, <1>10, <1>12, <1>13

\* SendCommandToServers sends a command to every server.
LEMMA SendCommandInv ==
    ASSUME IInv, NEW w \in Worker, SendCommand(w)
    PROVE  IInv'
<1>1. TypeOK /\ Rank0 \in Worker
  BY Zenon, KVStoreAssumption DEF IInv
<1>2. /\ UNCHANGED <<conf, step, at, rows, modeVars, dataVars, failed>>
      /\ Call(w) \in Commands /\ Sends(w) /\ \A s \in Server : link[w][s][Cmd].st = "idle"
  BY Zenon DEF SendCommand, workerVars, Quiet, SentTo
<1>3. Cmd \in Chan /\ Cmd \notin Key /\ Key \subseteq Chan
  BY Zenon, KVStoreAssumption DEF Chan
<1>4. /\ \A v \in Worker, t \in Server, d \in Chan :
            IF v = w /\ d = Cmd
            THEN link'[v][t][d].st = "req" /\ link'[v][t][d].op = Call(w)
            ELSE link'[v][t][d] = link[v][t][d]
      /\ link' \in [Worker -> [Server -> [Chan -> Link]]]
  <2>1. Send(w, Cmd, Call(w), {}, {}) /\ {} \in Grads
    BY Zenon DEF SendCommand, Grads
  <2>2. SentTo(Cmd) = Server
    BY Zenon DEF SentTo
  <2>3. PICK op \in {"push", "pull"} \union Commands : op = Call(w)
    BY Zenon, <1>2
  <2>4. Send(w, Cmd, op, {}, {})
    BY Zenon, <2>1, <2>3
  <2>5. /\ \A v \in Worker, t \in Server, d \in Chan :
              IF v = w /\ d = Cmd /\ t \in SentTo(Cmd)
              THEN /\ link'[v][t][d].st = "req" /\ link'[v][t][d].op = op
                   /\ link'[v][t][d].grad = IF t \in {} THEN {} ELSE {}
              ELSE link'[v][t][d] = link[v][t][d]
        /\ link' \in [Worker -> [Server -> [Chan -> Link]]]
    BY Zenon, <1>1, <1>3, <2>1, <2>4, SendStep
  <2> QED
    BY SMTT(40), <2>2, <2>3, <2>5
<1>7. OnCommands
  <2>1. \A s \in Server, k \in Key : Stored(s, k)' = Stored(s, k)
    BY Zenon, <1>2 DEF Stored, has_multi_precision_copy, modeVars, dataVars
  <2> QED
    BY <1>2, <1>3, <1>4, <2>1 DEF OnCommands, dataVars
<1>8. TypeOK'
  BY Zenon, <1>1, <1>2, <1>4 DEF TypeOK, modeVars, dataVars
<1>9. CommandInv'
  <2>1. \A v \in Worker : Call(v)' = Call(v) /\ (Sends(v)' <=> Sends(v))
    BY Zenon, <1>2 DEF Call, Sends
  <2> SUFFICES ASSUME NEW v \in Worker, NEW s \in Server, link'[v][s][Cmd].st # "idle"
               PROVE  (link[v][s][Cmd].op)' = Call(v) /\ Call(v) \in Commands /\ Sends(v)
    BY Zenon, <2>1 DEF CommandInv
  <2>2. IF v = w THEN link'[v][s][Cmd].op = Call(w) ELSE link'[v][s][Cmd] = link[v][s][Cmd]
    BY Zenon, <1>3, <1>4
  <2> QED
    BY Zenon, <1>2, <2>2 DEF IInv, CommandInv
<1>10. ModeInv'
  <2>1. \A s \in Server, n \in {2, 3, 4} : Past(s, n)' => Past(s, n)
    BY SMTT(40), <1>1, <1>2, <1>3, <1>4 DEF Past
  <2> QED
    BY Zenon, <1>2, <2>1 DEF IInv, ModeInv, modeVars
<1>11. StoreInv'
  <2>1. \A s \in Server, k \in Key : Initialised(s, k)' <=> Initialised(s, k)
    BY Zenon, <1>1, <1>2, <1>7 DEF Initialised, OnCommands
  <2> QED
    BY Zenon, <1>2, <2>1, StoreFrame DEF modeVars, dataVars
<1> QED
  BY Zenon, <1>7, <1>8, <1>9, <1>10, <1>11, CommandStep DEF IInv

\* A command that waits on a server, and what its answer changes.
LEMMA CommandAnswered ==
    ASSUME IInv, NEW w \in Worker, NEW s \in Server, NEW op \in Commands,
           Has(w, s, Cmd, op), Response(w, s, Cmd, NoValue), UNCHANGED <<conf, step>>
    PROVE  /\ link' \in [Worker -> [Server -> [Chan -> Link]]]
           /\ \A v \in Worker, t \in Server, k \in Key : link'[v][t][k] = link[v][t][k]
           /\ Call(w) = op /\ Sends(w)
           /\ CommandInv'
           /\ \A t \in Server, n \in {2, 3, 4} :
                Past(t, n)' => Past(t, n) \/ (t = s /\ w = Rank0 /\ step[Rank0] = n)
<1>1. TypeOK /\ Rank0 \in Worker
  BY Zenon, KVStoreAssumption DEF IInv
<1>2. Cmd \in Chan /\ Cmd \notin Key /\ Key \subseteq Chan /\ NoValue \in Value
  BY Zenon, KVStoreAssumption DEF Chan, Value
<1>3. /\ \A v \in Worker, t \in Server, d \in Chan :
            ~(v = w /\ t = s /\ d = Cmd) => link'[v][t][d] = link[v][t][d]
      /\ link'[w][s][Cmd].op = link[w][s][Cmd].op
      /\ link' \in [Worker -> [Server -> [Chan -> Link]]]
  BY SMTT(40), <1>1, <1>2, ResponseStep
<1>4. link[w][s][Cmd].st # "idle" /\ link[w][s][Cmd].op = op
  BY Zenon DEF Has
<1>5. Call(w) = op /\ Call(w) \in Commands /\ Sends(w)
  BY Zenon, <1>4 DEF IInv, CommandInv
<1>6. CommandInv'
  <2>1. \A v \in Worker : Call(v)' = Call(v) /\ (Sends(v)' <=> Sends(v))
    BY Zenon DEF Call, Sends
  <2> SUFFICES ASSUME NEW v \in Worker, NEW t \in Server, link'[v][t][Cmd].st # "idle"
               PROVE  (link[v][t][Cmd].op)' = Call(v) /\ Call(v) \in Commands /\ Sends(v)
    BY Zenon, <2>1 DEF CommandInv
  <2>2. CASE v = w /\ t = s
    BY Zenon, <1>3, <1>4, <1>5, <2>2
  <2>3. CASE ~(v = w /\ t = s)
    <3>1. link'[v][t][Cmd] = link[v][t][Cmd]
      BY Zenon, <1>2, <1>3, <2>3
    <3> QED
      BY Zenon, <3>1 DEF IInv, CommandInv
  <2> QED
    BY Zenon, <2>2, <2>3
<1>7. \A t \in Server, n \in {2, 3, 4} :
                Past(t, n)' => Past(t, n) \/ (t = s /\ w = Rank0 /\ step[Rank0] = n)
  BY Zenon, <1>1, <1>2, <1>3 DEF Past
<1> QED
  BY Zenon, <1>2, <1>3, <1>5, <1>6, <1>7

\* CommandHandle of the commands that leave the stored values alone.
LEMMA HandleCommandInv ==
    ASSUME IInv, NEW w \in Worker, NEW s \in Server,
           HandleSyncMode(s, w) \/ HandleController(s, w) \/ HandleStop(s, w)
    PROVE  IInv'
<1>1. TypeOK /\ Rank0 \in Worker
  BY Zenon, KVStoreAssumption DEF IInv
<1>2. UNCHANGED <<conf, step, at, rows, multi_precision, dataVars, failed>>
  BY Zenon DEF HandleSyncMode, HandleController, HandleStop, workerVars
<1>3. PICK op \in {"kSyncMode", "kController", "kStopServer"} :
        /\ Has(w, s, Cmd, op) /\ Response(w, s, Cmd, NoValue)
        /\ sync_mode' = IF op = "kSyncMode" THEN [sync_mode EXCEPT ![s] = TRUE] ELSE sync_mode
        /\ updater' = IF op = "kController" THEN [updater EXCEPT ![s] = TRUE] ELSE updater
        /\ exec' = IF op = "kStopServer" THEN [exec EXCEPT ![s] = FALSE] ELSE exec
  BY Zenon DEF HandleSyncMode, HandleController, HandleStop
<1>4. op \in Commands
  BY Zenon DEF Commands
<1>5. /\ link' \in [Worker -> [Server -> [Chan -> Link]]]
      /\ \A v \in Worker, t \in Server, k \in Key : link'[v][t][k] = link[v][t][k]
      /\ Call(w) = op /\ Sends(w)
      /\ CommandInv'
      /\ \A t \in Server, n \in {2, 3, 4} :
           Past(t, n)' => Past(t, n) \/ (t = s /\ w = Rank0 /\ step[Rank0] = n)
  BY Zenon, <1>2, <1>3, <1>4, CommandAnswered
<1>6. OnCommands
  <2>1. \A t \in Server, k \in Key : Stored(t, k)' = Stored(t, k)
    BY Zenon, <1>2 DEF Stored, has_multi_precision_copy, dataVars
  <2> QED
    BY Zenon, <1>2, <1>5, <2>1 DEF OnCommands, dataVars
<1>7. TypeOK'
  <2>1. {sync_mode', updater', exec'} \subseteq [Server -> BOOLEAN]
    BY <1>1, <1>3 DEF TypeOK
  <2> QED
    BY Zenon, <1>1, <1>2, <1>5, <2>1 DEF TypeOK, dataVars
<1>8. ModeInv'
  <2>1. conf \in Confs /\ step \in [Worker -> 1 .. End]
    BY Zenon, <1>1 DEF TypeOK
  <2>2. /\ op = "kSyncMode" <=> step[w] = 2
        /\ op = "kController" <=> step[w] = 3
        /\ op = "kStopServer" <=> step[w] = 9
        /\ step[w] # 4
    BY Zenon, <1>3, <1>5, <2>1, Places
  <2>3. /\ op = "kSyncMode" => conf.sync
        /\ op = "kController" => conf.opt
        /\ op = "kStopServer" => w = Rank0
    BY Zenon, <1>5, <2>1, <2>2, Sending
  <2> SUFFICES ASSUME NEW t \in Server
               PROVE  /\ sync_mode'[t] => conf.sync
                      /\ conf.sync /\ Past(t, 2)' => sync_mode'[t]
                      /\ updater'[t] => conf.opt
                      /\ conf.opt /\ Past(t, 3)' => updater'[t]
                      /\ conf.opt /\ conf.half /\ Past(t, 4)' => multi_precision[t]
                      /\ ~exec'[t] => step[Rank0] >= 9
    BY Zenon, <1>2 DEF ModeInv
  <2>4. /\ sync_mode'[t] = IF op = "kSyncMode" /\ t = s THEN TRUE ELSE sync_mode[t]
        /\ updater'[t] = IF op = "kController" /\ t = s THEN TRUE ELSE updater[t]
        /\ exec'[t] = IF op = "kStopServer" /\ t = s THEN FALSE ELSE exec[t]
    BY Zenon, <1>1, <1>3 DEF TypeOK
  <2>5. ModeInv
    BY Zenon DEF IInv
  <2>6. (sync_mode'[t] => conf.sync) /\ (updater'[t] => conf.opt)
    BY Zenon, <2>3, <2>4, <2>5 DEF ModeInv
  <2>7. (conf.sync /\ Past(t, 2)' => sync_mode'[t]) /\ (conf.opt /\ Past(t, 3)' => updater'[t])
    BY Zenon, <1>5, <2>2, <2>4, <2>5 DEF ModeInv
  <2>8. conf.opt /\ conf.half /\ Past(t, 4)' => multi_precision[t]
    BY ZenonT(30), <1>5, <2>2, <2>5 DEF ModeInv
  <2>9. ~exec'[t] => step[Rank0] >= 9
    BY SMTT(40), SMTT(40), <2>2, <2>3, <2>4, <2>5 DEF ModeInv
  <2> QED
    BY Zenon, <2>6, <2>7, <2>8, <2>9
<1>9. StoreInv'
  <2>1. \A t \in Server, k \in Key : Initialised(t, k)' <=> Initialised(t, k)
    BY Zenon, <1>1, <1>2, <1>5 DEF Initialised
  <2> QED
    BY Zenon, <1>2, <2>1, StoreFrame DEF dataVars
<1> QED
  BY Zenon, <1>5, <1>6, <1>7, <1>8, <1>9, CommandStep DEF IInv

\* The first kSetMultiPrecision finds no value to copy: rank 0 sends its own
\* before it initialises the keys.
LEMMA HandleSetMultiPrecisionInv ==
    ASSUME IInv, NEW w \in Worker, NEW s \in Server, HandleSetMultiPrecision(s, w)
    PROVE  IInv'
<1>1. TypeOK /\ Rank0 \in Worker
  BY Zenon, KVStoreAssumption DEF IInv
<1>2. /\ UNCHANGED <<conf, step, at, rows, sync_mode, updater, exec, store, lag, request, merged>>
      /\ Has(w, s, Cmd, "kSetMultiPrecision") /\ Response(w, s, Cmd, NoValue)
      /\ multi_precision' = [multi_precision EXCEPT ![s] = TRUE]
  BY Zenon DEF HandleSetMultiPrecision, workerVars
<1>3. "kSetMultiPrecision" \in Commands
  BY Zenon DEF Commands
<1>4. /\ link' \in [Worker -> [Server -> [Chan -> Link]]]
      /\ \A v \in Worker, t \in Server, k \in Key : link'[v][t][k] = link[v][t][k]
      /\ Call(w) = "kSetMultiPrecision" /\ Sends(w)
      /\ CommandInv'
      /\ \A t \in Server, n \in {2, 3, 4} :
           Past(t, n)' => Past(t, n) \/ (t = s /\ w = Rank0 /\ step[Rank0] = n)
  BY Zenon, <1>2, <1>3, CommandAnswered
<1>5. conf \in Confs /\ step \in [Worker -> 1 .. End]
  BY Zenon, <1>1 DEF TypeOK
<1>6. step[w] = 4 /\ conf.opt /\ conf.half
  BY SMTT(40), <1>4, <1>5, Places, Sending
<1>7. ~multi_precision[s] =>
        \A k \in Key : store[s][k] = NoValue /\ store_realt[s][k] = NoValue /\ ~lag[s][k]
  <2>1. ~multi_precision[s] => ~(step[Rank0] > 4)
    BY Zenon, <1>6 DEF IInv, ModeInv, Past
  <2>2. step[Rank0] \in 1 .. 10
    BY Zenon, <1>1, <1>5, Places
  <2>3. ~multi_precision[s] => \A k \in Key : ~Initialised(s, k)
    BY <2>1, <2>2 DEF Initialised
  <2> QED
    BY Zenon, <2>3 DEF IInv, StoreInv
<1>8. UNCHANGED <<store_realt, failed>>
  <2>1. CASE multi_precision[s]
    BY Zenon, <2>1 DEF HandleSetMultiPrecision
  <2>2. CASE ~multi_precision[s]
    <3>1. /\ store_realt' = [store_realt EXCEPT ![s] = [k \in Key |->
                    IF store[s][k] # NoValue THEN store[s][k] ELSE store_realt[s][k]]]
          /\ failed' = (failed \/ \E k \in Key : store[s][k] # NoValue /\ request[s][k] # <<>>)
      BY Zenon, <1>6, <2>2 DEF HandleSetMultiPrecision
    <3>2. [k \in Key |-> IF store[s][k] # NoValue THEN store[s][k] ELSE store_realt[s][k]]
            = [k \in Key |-> store_realt[s][k]]
      BY Zenon, <1>7, <2>2
    <3>3. store_realt' = store_realt
      BY Zenon, <1>1, <3>1, <3>2 DEF TypeOK
    <3>4. failed' = failed
      BY Zenon, <1>1, <1>7, <2>2, <3>1 DEF TypeOK
    <3> QED
      BY Zenon, <3>3, <3>4
  <2> QED
    BY Zenon, <2>1, <2>2
<1>9. \A t \in Server : multi_precision'[t] = IF t = s THEN TRUE ELSE multi_precision[t]
  BY Zenon, <1>1, <1>2 DEF TypeOK
<1>10. \A t \in Server, k \in Key : Stored(t, k)' = Stored(t, k)
  BY Zenon, <1>2, <1>7, <1>8, <1>9 DEF Stored, has_multi_precision_copy
<1>11. OnCommands
  BY Zenon, <1>2, <1>4, <1>8, <1>10 DEF OnCommands
<1>12. TypeOK'
  <2>1. multi_precision' \in [Server -> BOOLEAN]
    BY Zenon, <1>1, <1>2 DEF TypeOK
  <2>2. /\ link' \in [Worker -> [Server -> [Chan -> Link]]]
        /\ store_realt' = store_realt /\ failed' = failed
    BY Zenon, <1>4, <1>8
  <2> QED
    BY Zenon, <1>1, <1>2, <2>1, <2>2 DEF TypeOK
<1>13. ModeInv'
  <2> SUFFICES ASSUME NEW t \in Server
               PROVE  /\ sync_mode[t] => conf.sync
                      /\ conf.sync /\ Past(t, 2)' => sync_mode[t]
                      /\ updater[t] => conf.opt
                      /\ conf.opt /\ Past(t, 3)' => updater[t]
                      /\ conf.opt /\ conf.half /\ Past(t, 4)' => multi_precision'[t]
                      /\ ~exec[t] => step[Rank0] >= 9
    BY Zenon, <1>2 DEF ModeInv
  <2>1. (Past(t, 2)' => Past(t, 2)) /\ (Past(t, 3)' => Past(t, 3))
    BY SMTT(40), <1>4, <1>6
  <2>2. Past(t, 4)' => Past(t, 4) \/ t = s
    BY Zenon, <1>4
  <2> QED
    BY Zenon, <1>9, <2>1, <2>2 DEF IInv, ModeInv
<1>14. StoreInv'
  <2>1. \A t \in Server, k \in Key : Initialised(t, k)' <=> Initialised(t, k)
    BY Zenon, <1>1, <1>2, <1>4 DEF Initialised
  <2>2. \A t \in Server : t # s \/ multi_precision[s] =>
          (has_multi_precision_copy(t)' <=> has_multi_precision_copy(t))
    BY ZenonT(30), <1>2, <1>9 DEF has_multi_precision_copy
  <2>3. StoreInv
    BY Zenon DEF IInv
  <2>4. ASSUME NEW t \in Server, NEW k \in Key
        PROVE  /\ Initialised(t, k) => store[t][k] # NoValue /\ Stored(t, k) # NoValue
               /\ ~Initialised(t, k) =>
                    store[t][k] = NoValue /\ store_realt[t][k] = NoValue /\ ~lag[t][k]
               /\ lag[t][k] => has_multi_precision_copy(t)'
               /\ has_multi_precision_copy(t)' /\ ~lag[t][k] => store[t][k] = store_realt[t][k]
               /\ (\E v \in Worker : step[v] < 6) => Stored(t, k) \in {NoValue, <<>>}
    BY Zenon, <1>7, <2>2, <2>3 DEF StoreInv
  <2>5. store' = store /\ store_realt' = store_realt /\ lag' = lag /\ step' = step
    BY Zenon, <1>2, <1>8
  <2>6. ASSUME NEW t \in Server, NEW k \in Key
        PROVE  /\ Initialised(t, k)' => store'[t][k] # NoValue /\ Stored(t, k)' # NoValue
               /\ ~Initialised(t, k)' =>
                    store'[t][k] = NoValue /\ store_realt'[t][k] = NoValue /\ ~lag'[t][k]
               /\ lag'[t][k] => has_multi_precision_copy(t)'
               /\ has_multi_precision_copy(t)' /\ ~lag'[t][k] => store'[t][k] = store_realt'[t][k]
               /\ (\E v \in Worker : step'[v] < 6) => Stored(t, k)' \in {NoValue, <<>>}
    <3>1. Stored(t, k)' = Stored(t, k) /\ (Initialised(t, k)' <=> Initialised(t, k))
      BY Zenon, <1>10, <2>1
    <3> QED
      BY Zenon, <2>4, <2>5, <3>1
  <2> QED
    BY Zenon, <2>6 DEF StoreInv
<1> QED
  BY Zenon, <1>4, <1>11, <1>12, <1>13, <1>14, CommandStep DEF IInv

-----------------------------------------------------------------------------
(* Workers: a request for a key is sent, or its answers are taken.         *)

\* A step on the channels of keys that leaves programs and modes alone.
OnKeys ==
    /\ UNCHANGED <<conf, step, modeVars>>
    /\ link' \in [Worker -> [Server -> [Chan -> Link]]]
    /\ \A w \in Worker, s \in Server : link'[w][s][Cmd] = link[w][s][Cmd]

\* Such a step keeps what the invariant says of programs, commands and modes.
LEMMA KeyStep ==
    ASSUME IInv, OnKeys
    PROVE  BarrierInv' /\ CommandInv' /\ ModeInv'
BY Zenon, CommandFrame DEF OnKeys

-----------------------------------------------------------------------------
(* Requests and returns.                                                   *)

\* A worker sends a request for a key: nothing is held, stored or applied.
LEMMA RequestSent ==
    ASSUME IInv, NEW w \in Worker, NEW k \in Key, NEW op \in {"push", "pull"}, NEW S,
           NEW grad \in Grads, Quiet(w, k), Send(w, k, op, S, grad),
           UNCHANGED <<conf, step, at, modeVars, dataVars, failed>>
    PROVE  /\ \A s \in Shards[k] : /\ link'[w][s][k].st = "req" /\ link'[w][s][k].op = op
                                   /\ link'[w][s][k].grad = IF s \in S THEN grad ELSE {}
           /\ \A s \in Server \ Shards[k] : link'[w][s][k].st = "idle"
           /\ \A v \in Worker, s \in Server, j \in Key :
                v # w \/ j # k => link'[v][s][j] = link[v][s][j]
           /\ \A v \in Worker, s \in Server, j \in Key :
                link'[v][s][j].st = "resp" => link'[v][s][j] = link[v][s][j]
           /\ \A v \in Worker, s \in Server, j \in Key : Done(v, s, j)' = Done(v, s, j)
           /\ \A s \in Server, j \in Key : Stored(s, j)' = Stored(s, j)
           /\ link' \in [Worker -> [Server -> [Chan -> Link]]]
           /\ BarrierInv' /\ CommandInv' /\ ModeInv' /\ MergeInv' /\ StoreInv' /\ ChecksHold'
<1>1. TypeOK /\ Rank0 \in Worker /\ Cmd \notin Key /\ Shards[k] \subseteq Server
  BY Zenon, KVStoreAssumption DEF IInv
<1>2. k \in Chan /\ Cmd \in Chan /\ k # Cmd /\ Key \subseteq Chan
  BY Zenon, <1>1 DEF Chan
<1>3. /\ \A v \in Worker, t \in Server, d \in Chan :
            IF v = w /\ d = k /\ t \in Shards[k]
            THEN /\ link'[v][t][d].st = "req" /\ link'[v][t][d].op = op
                 /\ link'[v][t][d].grad = IF t \in S THEN grad ELSE {}
            ELSE link'[v][t][d] = link[v][t][d]
      /\ link' \in [Worker -> [Server -> [Chan -> Link]]]
  <2>1. SentTo(k) = Shards[k] /\ op \in {"push", "pull"} \union Commands
    BY Zenon, <1>2 DEF SentTo
  <2>2. /\ \A v \in Worker, t \in Server, d \in Chan :
              IF v = w /\ d = k /\ t \in SentTo(k)
              THEN /\ link'[v][t][d].st = "req" /\ link'[v][t][d].op = op
                   /\ link'[v][t][d].grad = IF t \in S THEN grad ELSE {}
              ELSE link'[v][t][d] = link[v][t][d]
        /\ link' \in [Worker -> [Server -> [Chan -> Link]]]
    BY Zenon, <1>1, <1>2, <2>1, SendStep
  <2>3. ASSUME NEW v \in Worker, NEW t \in Server, NEW d \in Chan
        PROVE  IF v = w /\ d = k /\ t \in Shards[k]
               THEN /\ link'[v][t][d].st = "req" /\ link'[v][t][d].op = op
                    /\ link'[v][t][d].grad = IF t \in S THEN grad ELSE {}
               ELSE link'[v][t][d] = link[v][t][d]
    <3>1. CASE v = w /\ d = k /\ t \in Shards[k]
      BY Zenon, <2>1, <2>2, <3>1
    <3>2. CASE ~(v = w /\ d = k /\ t \in Shards[k])
      BY Zenon, <2>1, <2>2, <3>2
    <3> QED
      BY Zenon, <3>1, <3>2
  <2> QED
    BY Zenon, <2>2, <2>3
<1>4. \A s \in Shards[k] : link[w][s][k].st = "idle"
  BY Zenon, <1>2 DEF Quiet, SentTo
<1>5. \A s \in Server \ Shards[k] : link'[w][s][k].st = "idle"
  <2>1. \A s \in Server \ Shards[k] : link[w][s][k].st = "idle"
    BY Zenon DEF IInv, LinkInv, RequestOf
  <2> QED
    BY Zenon, <1>2, <1>3, <2>1
<1>6. ASSUME NEW v \in Worker, NEW s \in Server, NEW j \in Key
      PROVE  \/ link'[v][s][j] = link[v][s][j]
             \/ /\ v = w /\ j = k /\ s \in Shards[k]
                /\ link'[v][s][j].st = "req" /\ link[v][s][j].st = "idle"
  BY SMTT(40), SMTT(40), <1>2, <1>3, <1>4
<1>7. \A v \in Worker, s \in Server, j \in Key :
        link'[v][s][j].st = "resp" => link'[v][s][j] = link[v][s][j]
  BY SMTT(40), SMTT(40), <1>6
<1>8. \A v \in Worker, s \in Server, j \in Key : Done(v, s, j)' = Done(v, s, j)
  BY SMTT(40), SMTT(40), <1>6 DEF Done, PushNumber
<1>9. MergeInv'
  BY <1>6, MergeFrame DEF dataVars
<1>10. StoreInv' /\ \A s \in Server, j \in Key : Stored(s, j)' = Stored(s, j)
  <2>1. \A s \in Server, j \in Key : Initialised(s, j)' <=> Initialised(s, j)
    BY <1>1, <1>6 DEF Initialised
  <2> QED
    BY Zenon, <2>1, StoreFrame DEF dataVars, modeVars
<1>11. OnKeys
  BY Zenon, <1>2, <1>3 DEF OnKeys
<1>12. BarrierInv' /\ CommandInv' /\ ModeInv'
  BY Zenon, <1>11, KeyStep
<1>13. ChecksHold'
  BY Zenon DEF IInv, ChecksHold
<1> QED
  BY SMTT(40), SMTT(40), <1>1, <1>2, <1>3, <1>5, <1>7, <1>8, <1>9, <1>10, <1>12, <1>13

\* The same request when no push is issued: InitPush and Pull.
LEMMA CallInv ==
    ASSUME IInv, NEW w \in Worker, NEW k \in Key, InitPush(w, k) \/ Pull(w, k)
    PROVE  IInv'
<1>1. TypeOK /\ Rank0 \in Worker /\ Shards[k] \subseteq Server /\ Rounds \in Nat
  BY Zenon, KVStoreAssumption DEF IInv
<1>2. /\ UNCHANGED <<conf, step, at, rows, modeVars, dataVars, failed>>
      /\ Quiet(w, k)
  BY Zenon DEF InitPush, Pull, workerVars
<1>3. conf \in Confs /\ step \in [Worker -> 1 .. End] /\ at[w][k] \in 0 .. 2 * Rounds
  BY SMTT(40), <1>1 DEF TypeOK
<1>4. PICK op \in {"push", "pull"}, S \in SUBSET Server, grad \in Grads :
        /\ Send(w, k, op, S, grad)
        /\ \/ op = "push" /\ step[w] = 5 /\ w = Rank0
           \/ op = "pull" /\ step[w] = 7 /\ at[w][k] % 2 = 1 /\ at[w][k] < 2 * Rounds
  <2>1. CASE InitPush(w, k)
    <3>1. step[w] = 5
      BY Zenon, <1>3, <2>1, Places DEF InitPush
    <3>2. w = Rank0
      BY Zenon, <1>3, <2>1, <3>1, Sending DEF InitPush
    <3>3. {<<w, 0>>} \in Grads
      BY DEF Grads
    <3> QED
      BY Zenon, <1>1, <2>1, <3>1, <3>2, <3>3 DEF InitPush
  <2>2. CASE Pull(w, k)
    <3>1. step[w] = 7 /\ at[w][k] % 2 = 1
      BY Zenon, <1>3, <2>2, Places DEF Pull
    <3>2. at[w][k] < 2 * Rounds
      BY SMTT(40), <1>1, <1>3, <3>1, Parity
    <3>3. {} \in Grads /\ {} \in SUBSET Server
      BY Zenon DEF Grads
    <3> QED
      BY Zenon, <2>2, <3>1, <3>2, <3>3 DEF Pull
  <2> QED
    BY Zenon, <2>1, <2>2
<1>5. /\ \A s \in Shards[k] : /\ link'[w][s][k].st = "req" /\ link'[w][s][k].op = op
                              /\ link'[w][s][k].grad = IF s \in S THEN grad ELSE {}
      /\ \A s \in Server \ Shards[k] : link'[w][s][k].st = "idle"
      /\ \A v \in Worker, s \in Server, j \in Key :
           v # w \/ j # k => link'[v][s][j] = link[v][s][j]
      /\ \A v \in Worker, s \in Server, j \in Key :
           link'[v][s][j].st = "resp" => link'[v][s][j] = link[v][s][j]
      /\ \A v \in Worker, s \in Server, j \in Key : Done(v, s, j)' = Done(v, s, j)
      /\ \A s \in Server, j \in Key : Stored(s, j)' = Stored(s, j)
      /\ link' \in [Worker -> [Server -> [Chan -> Link]]]
      /\ BarrierInv' /\ CommandInv' /\ ModeInv' /\ MergeInv' /\ StoreInv' /\ ChecksHold'
  BY Zenon, <1>2, <1>4, RequestSent
<1>5a. \A v \in Worker, s \in Server, j \in Key :
         v # w \/ j # k => link'[v][s][j] = link[v][s][j]
  BY Zenon, <1>5
<1>5b. \A v \in Worker, s \in Server, j \in Key :
         link'[v][s][j].st = "resp" => link'[v][s][j] = link[v][s][j]
  BY Zenon, <1>5
<1>5c. /\ \A v \in Worker, s \in Server, j \in Key : Done(v, s, j)' = Done(v, s, j)
       /\ \A s \in Server, j \in Key : Stored(s, j)' = Stored(s, j)
  BY Zenon, <1>5
<1>6. TypeOK'
  BY Zenon, <1>1, <1>2, <1>5 DEF TypeOK, modeVars, dataVars
<1>7. ASSUME NEW v \in Worker, NEW j \in Key
      PROVE  /\ PushNumber(v, j)' = PushNumber(v, j) /\ Issued(v, j)' = Issued(v, j)
             /\ \A s \in Server : RequestOf(v, s, j)'
  <2>1. CASE v = w /\ j = k
    <3>1. PushNumber(v, j)' = PushNumber(v, j) /\ Issued(v, j)' = Issued(v, j)
      BY SMTT(40), <1>2, <1>4, <2>1 DEF PushNumber, Issued
    <3>2. ASSUME NEW s \in Server PROVE RequestOf(w, s, k)'
      <4>1. /\ s \in Shards[k] => link'[w][s][k].st = "req" /\ link'[w][s][k].op = op
            /\ s \notin Shards[k] => link'[w][s][k].st = "idle"
            /\ \A t \in Shards[k] : link'[w][t][k].st = "req"
            /\ step' = step /\ at' = at /\ conf' = conf /\ rows' = rows
        BY Zenon, <1>2, <1>5
      <4> QED
        <5>1. /\ op = "push" => step[w] # 7
              /\ op = "pull" => step[w] # 5 /\ at[w][k] % 2 # 0
          BY <1>4
        <5> QED
          BY Zenon, <1>4, <4>1, <5>1 DEF RequestOf
    <3> QED
      BY Zenon, <2>1, <3>1, <3>2
  <2>2. CASE ~(v = w /\ j = k)
    <3>1. /\ step'[v] = step[v] /\ at'[v][j] = at[v][j] /\ rows'[v][j] = rows[v][j]
          /\ \A s \in Server : link'[v][s][j] = link[v][s][j]
      BY Zenon, <1>2, <1>5a, <2>2
    <3> QED
      BY Zenon, <3>1, RequestFrame
  <2> QED
    BY Zenon, <2>1, <2>2
<1>8. LinkInv' /\ CountInv'
  BY Zenon, <1>2, <1>7 DEF IInv, LinkInv, CountInv
<1>9. \A j \in Key : Shards[j] \subseteq Server
  BY Zenon, KVStoreAssumption
<1>10. RoundInv' /\ AsyncInv'
  <2>1. \A v \in Worker, j \in Key : \A s \in Shards[j] : Done(v, s, j)' = Done(v, s, j)
    BY Zenon, <1>5c, <1>9
  <2>2. \A s \in Server, j \in Key : Stored(s, j)' = Stored(s, j)
    BY Zenon, <1>5c
  <2> QED
    BY Zenon, <1>2, <2>1, <2>2, RoundsFrame
<1>11. PullSeesRound'
  <2>1. \A v \in Worker, j \in Key : \A s \in Shards[j] :
          Round(s, j, PushNumber(v, j))' = Round(s, j, PushNumber(v, j))
    BY <1>2 DEF Round, PushNumber
  <2>2. \A v \in Worker, j \in Key : \A s \in Shards[j] :
          link'[v][s][j].st = "resp" => link'[v][s][j] = link[v][s][j]
    BY Zenon, <1>5b, <1>9
  <2>3. \A v \in Worker, j \in Key : PushNumber(v, j)' = PushNumber(v, j)
    BY Zenon, <1>7
  <2> QED
    BY Zenon, <1>2, <2>1, <2>2, <2>3, PullFrame
<1> QED
  BY Zenon, <1>5, <1>6, <1>8, <1>10, <1>11 DEF IInv

\* A push in training appends the rows it has to the history.
LEMMA PushInv ==
    ASSUME IInv, NEW w \in Worker, NEW k \in Key, Push(w, k)
    PROVE  IInv'
<1>1. TypeOK /\ Rank0 \in Worker /\ Shards[k] \subseteq Server /\ Shards[k] # {} /\ Rounds \in Nat
  BY Zenon, KVStoreAssumption DEF IInv
<1>2. UNCHANGED <<conf, step, at, modeVars, dataVars, failed>> /\ Quiet(w, k)
  BY Zenon DEF Push
<1>3. PICK S \in SUBSET Shards[k] :
        /\ rows' = [rows EXCEPT ![w][k] = Append(rows[w][k], S)]
        /\ Send(w, k, "push", S, {<<w, PushNumber(w, k)>>})
  BY Zenon DEF Push
<1> DEFINE n == PushNumber(w, k)
<1>4. /\ at[w][k] \in Nat /\ at[w][k] % 2 = 0 /\ at[w][k] < 2 * Rounds
      /\ step[w] = 7 /\ rows[w][k] \in Seq(SUBSET Server)
  <2>1. step \in [Worker -> 1 .. End] /\ rows[w][k] \in Seq(SUBSET Server)
    BY ZenonT(30), <1>1 DEF TypeOK
  <2>2. at[w][k] % 2 = 0 /\ at[w][k] < 2 * Rounds /\ step[w] = 7
    BY Zenon, <2>1, Places DEF Push
  <2>3. at[w][k] \in Nat
    BY Zenon, <1>1, Numbers
  <2> QED
    BY Zenon, <2>1, <2>2, <2>3
<1>5. n \in Nat \ {0} /\ n <= Rounds /\ {<<w, n>>} \in Grads
  <2>1. n \in Nat \ {0} /\ n \in Nat
    BY Zenon, <1>1, Numbers
  <2>2. at[w][k] \div 2 + 1 <= Rounds
    <3>1. at[w][k] \in Nat /\ Rounds \in Nat /\ at[w][k] < 2 * Rounds
      BY Zenon, <1>1, <1>4
    <3> QED
      BY <3>1
  <2>3. \A m \in Nat : {<<w, m>>} \in Grads
    BY DEF Grads
  <2> QED
    BY Zenon, <2>1, <2>2, <2>3 DEF PushNumber
<1>6. /\ \A s \in Shards[k] : /\ link'[w][s][k].st = "req" /\ link'[w][s][k].op = "push"
                              /\ link'[w][s][k].grad = IF s \in S THEN {<<w, n>>} ELSE {}
      /\ \A s \in Server \ Shards[k] : link'[w][s][k].st = "idle"
      /\ \A v \in Worker, s \in Server, j \in Key :
           v # w \/ j # k => link'[v][s][j] = link[v][s][j]
      /\ \A v \in Worker, s \in Server, j \in Key :
           link'[v][s][j].st = "resp" => link'[v][s][j] = link[v][s][j]
      /\ \A v \in Worker, s \in Server, j \in Key : Done(v, s, j)' = Done(v, s, j)
      /\ \A s \in Server, j \in Key : Stored(s, j)' = Stored(s, j)
      /\ link' \in [Worker -> [Server -> [Chan -> Link]]]
      /\ BarrierInv' /\ CommandInv' /\ ModeInv' /\ MergeInv' /\ StoreInv' /\ ChecksHold'
  BY Zenon, <1>2, <1>3, <1>5, RequestSent
<1>7. /\ rows' \in [Worker -> [Key -> Seq(SUBSET Server)]]
      /\ rows'[w][k] = Append(rows[w][k], S)
      /\ \A v \in Worker, j \in Key : v # w \/ j # k => rows'[v][j] = rows[v][j]
  <2>1. rows \in [Worker -> [Key -> Seq(SUBSET Server)]]
    BY Zenon, <1>1 DEF TypeOK
  <2>2. Append(rows[w][k], S) \in Seq(SUBSET Server)
    BY SMTT(40), <1>1, <1>4
  <2> QED
    BY Zenon, <1>3, <2>1, <2>2
<1>8. TypeOK'
  BY Zenon, <1>1, <1>2, <1>6, <1>7 DEF TypeOK, modeVars, dataVars
<1>9. \A v \in Worker, j \in Key : PushNumber(v, j)' = PushNumber(v, j)
  BY Zenon, <1>2 DEF PushNumber
<1>10. \A s \in Shards[k] : link[w][s][k].st = "idle"
  BY Zenon, <1>2, KVStoreAssumption DEF Quiet, SentTo
<1>11. Issued(w, k) = n - 1 /\ Issued(w, k)' = n
  <2>1. ~(at[w][k] % 2 = 1 \/ (step[w] = 7 /\ \E s \in Shards[k] : link[w][s][k].st # "idle"))
    BY SMTT(40), <1>4, <1>10
  <2>2. step'[w] = 7 /\ \E s \in Shards[k] : link'[w][s][k].st # "idle"
    BY Zenon, <1>1, <1>2, <1>4, <1>6
  <2> QED
    BY Zenon, <1>9, <2>1, <2>2 DEF Issued
<1>12. Len(rows[w][k]) = n - 1
  BY Zenon, <1>11 DEF IInv, CountInv
<1>13. /\ Len(rows'[w][k]) = n /\ rows'[w][k][n] = S
       /\ \A i \in 1 .. n - 1 : rows'[w][k][i] = rows[w][k][i]
  BY SMTT(40), SMTT(40), <1>4, <1>5, <1>7, <1>12
<1>14. LinkInv'
  <2> SUFFICES ASSUME NEW v \in Worker, NEW s \in Server, NEW j \in Key
               PROVE  RequestOf(v, s, j)'
    BY Zenon DEF LinkInv
  <2>1. CASE v = w /\ j = k
    <3>1. s \in Shards[k] => link'[w][s][k].grad = IF s \in rows'[w][k][n] THEN {<<w, n>>} ELSE {}
      BY Zenon, <1>6, <1>13
    <3>2. step'[w] = 7 /\ at'[w][k] < 2 * Rounds /\ at'[w][k] % 2 = 0
      BY Zenon, <1>2, <1>4
    <3>3. s \notin Shards[k] => link'[w][s][k].st = "idle"
      BY Zenon, <1>6
    <3>4. s \in Shards[k] => /\ link'[w][s][k].st = "req" /\ link'[w][s][k].op = "push"
                             /\ \A t \in Shards[k] : link'[w][t][k].st # "idle"
      BY Zenon, <1>6
    <3>5. PushNumber(w, k)' = n
      BY Zenon, <1>9
    <3> HIDE DEF n
    <3>6. RequestOf(w, s, k)'
      BY SMTT(40), SMTT(40), <3>1, <3>2, <3>3, <3>4, <3>5 DEF RequestOf
    <3> QED
      BY Zenon, <2>1, <3>6
  <2>2. CASE ~(v = w /\ j = k)
    <3>1. step'[v] = step[v] /\ at'[v][j] = at[v][j] /\ rows'[v][j] = rows[v][j]
      BY Zenon, <1>2, <1>7, <2>2
    <3>2. \A t \in Server : link'[v][t][j] = link[v][t][j]
      BY SMTT(40), <1>6, <2>2
    <3> QED
      BY Zenon, <3>1, <3>2, RequestFrame
  <2> QED
    BY Zenon, <2>1, <2>2
<1>15. CountInv'
  <2> SUFFICES ASSUME NEW v \in Worker, NEW j \in Key
               PROVE  /\ step'[v] < 7 => at'[v][j] = 0
                      /\ step'[v] > 7 => at'[v][j] = 2 * Rounds
                      /\ Len(rows'[v][j]) = Issued(v, j)'
                      /\ \A i \in DOMAIN rows'[v][j] : rows'[v][j][i] \subseteq Shards[j]
    BY Zenon DEF CountInv
  <2>1. CASE v = w /\ j = k
    <3>1. \A i \in DOMAIN rows[w][k] : rows[w][k][i] \subseteq Shards[k]
      BY Zenon DEF IInv, CountInv
    <3>2. \A i \in DOMAIN rows'[w][k] : rows'[w][k][i] \subseteq Shards[k]
      <4>1. /\ DOMAIN rows[w][k] = 1 .. n - 1 /\ DOMAIN rows'[w][k] = 1 .. n
            /\ n \in Nat \ {0}
        <5>1. rows[w][k] \in Seq(SUBSET Server) /\ rows'[w][k] \in Seq(SUBSET Server)
          BY Zenon, <1>4, <1>7
        <5>2. Len(rows[w][k]) = n - 1 /\ Len(rows'[w][k]) = n /\ n \in Nat \ {0}
          BY Zenon, <1>5, <1>12, <1>13
        <5> HIDE DEF n
        <5> QED
          BY SMTT(40), <5>1, <5>2
      <4>2. \A i \in 1 .. n : i \in 1 .. n - 1 \/ i = n
        <5> HIDE DEF n
        <5> QED
          BY <4>1
      <4> QED
        BY Zenon, <1>13, <3>1, <4>1, <4>2
    <3>3. step'[w] = 7 /\ Len(rows'[w][k]) = Issued(w, k)'
      BY Zenon, <1>2, <1>4, <1>11, <1>13
    <3> QED
      BY SMTT(40), <2>1, <3>2, <3>3
  <2>2. CASE ~(v = w /\ j = k)
    <3>1. step'[v] = step[v] /\ at'[v][j] = at[v][j] /\ rows'[v][j] = rows[v][j]
      BY Zenon, <1>2, <1>7, <2>2
    <3>2. \A t \in Server : link'[v][t][j] = link[v][t][j]
      BY SMTT(40), <1>6, <2>2
    <3>3. Issued(v, j)' = Issued(v, j)
      BY Zenon, <3>1, <3>2, RequestFrame
    <3> QED
      BY Zenon, <3>1, <3>3 DEF IInv, CountInv
  <2> QED
    BY Zenon, <2>1, <2>2
<1>16. \A s \in Shards[k] : Done(w, s, k) = n - 1
  BY SMTT(40), <1>4, <1>10 DEF Done
<1>17. \A s \in Server, j \in Key, i \in Nat : j # k \/ i <= n - 1 => Round(s, j, i)' = Round(s, j, i)
  <2> SUFFICES ASSUME NEW s \in Server, NEW j \in Key, NEW i \in Nat, j # k \/ i <= n - 1,
                      NEW v \in Worker
               PROVE  i \in DOMAIN rows'[v][j] /\ s \in rows'[v][j][i] <=>
                      i \in DOMAIN rows[v][j] /\ s \in rows[v][j][i]
    BY Zenon DEF Round
  <2>1. CASE v = w /\ j = k
    <3>1. i <= n - 1 /\ DOMAIN rows[w][k] = 1 .. n - 1 /\ DOMAIN rows'[w][k] = 1 .. n
      BY SMTT(40), <1>4, <1>5, <1>7, <1>12, <1>13, <2>1
    <3>2. n \in Nat
      BY Zenon, <1>5
    <3> HIDE DEF n
    <3> QED
      BY SMT, SMTT(10), <1>13, <2>1, <3>1, <3>2
  <2>2. CASE ~(v = w /\ j = k)
    BY Zenon, <1>7, <2>2
  <2> QED
    BY Zenon, <2>1, <2>2
<1> HIDE DEF n
<1>17a. /\ \A v \in Worker, s \in Server, j \in Key : Done(v, s, j)' = Done(v, s, j)
       /\ \A s \in Server, j \in Key : Stored(s, j)' = Stored(s, j)
  BY Zenon, <1>6
<1>18. RoundInv'
  <2> SUFFICES ASSUME conf.sync, NEW j \in Key, NEW s \in Shards[j]
               PROVE  /\ \A v, u \in Worker : Done(v, s, j)' = Done(u, s, j)'
                      /\ Stored(s, j)' # NoValue =>
                           IF conf.opt
                           THEN /\ Len(Stored(s, j)') = Done(Rank0, s, j)'
                                /\ \A i \in DOMAIN Stored(s, j)' : Stored(s, j)'[i] = Round(s, j, i)'
                           ELSE Stored(s, j)' = IF Done(Rank0, s, j)' = 0 THEN <<>>
                                                ELSE <<Round(s, j, Done(Rank0, s, j))'>>
    BY Zenon, <1>2 DEF RoundInv, RoundOf
  <2>1. s \in Server
    BY Zenon, KVStoreAssumption
  <2>2. /\ \A v, u \in Worker : Done(v, s, j) = Done(u, s, j)
        /\ Stored(s, j) # NoValue =>
             IF conf.opt
             THEN /\ Len(Stored(s, j)) = Done(Rank0, s, j)
                  /\ \A i \in DOMAIN Stored(s, j) : Stored(s, j)[i] = Round(s, j, i)
             ELSE Stored(s, j) = IF Done(Rank0, s, j) = 0 THEN <<>>
                                 ELSE <<Round(s, j, Done(Rank0, s, j))>>
    BY Zenon DEF IInv, RoundInv, RoundOf
  <2>3. j = k => Done(Rank0, s, j) = n - 1
    BY Zenon, <1>1, <1>16, <2>2
  <2>4. Done(Rank0, s, j) \in Nat
    BY Zenon, <1>1, Numbers
  <2>5. Round(s, j, Done(Rank0, s, j))' = Round(s, j, Done(Rank0, s, j))
    <3>1. Done(Rank0, s, j)' = Done(Rank0, s, j)
      BY ZenonT(30), <1>1, <1>17a, <2>1
    <3>2. n - 1 \in Nat => n - 1 <= n - 1
      BY SMTT(40), SMTT(40)
    <3>3. j # k \/ Done(Rank0, s, j) <= n - 1
      BY Zenon, <2>3, <2>4, <3>2
    <3> QED
      BY Zenon, <1>17, <2>1, <2>4, <3>1, <3>3
  <2>6. Stored(s, j) \in Value
    BY SMTT(40), SMTT(40), <1>1, <2>1 DEF TypeOK, Stored
  <2>7. Stored(s, j) # NoValue /\ conf.opt => \A i \in DOMAIN Stored(s, j) : Round(s, j, i)' = Round(s, j, i)
    BY SMTT(40), SMTT(40), <1>5, <1>17, <2>1, <2>2, <2>3, <2>4, <2>6 DEF Value
  <2> QED
    BY SMTT(40), SMTT(40), <1>1, <1>17a, <2>1, <2>2, <2>5, <2>7
<1>19. AsyncInv'
  <2> SUFFICES ASSUME ~conf.sync, NEW j \in Key, NEW s \in Shards[j], Stored(s, j)' # NoValue,
                      NEW v \in Worker, NEW m \in 1 .. Rounds
               PROVE  /\ \A i \in DOMAIN Stored(s, j)' :
                           <<v, m>> \in Stored(s, j)'[i] =>
                              /\ m <= Done(v, s, j)'
                              /\ \A h \in DOMAIN Stored(s, j)' : <<v, m>> \in Stored(s, j)'[h] => h = i
                      /\ m \in DOMAIN rows'[v][j] /\ m <= Done(v, s, j)' /\ s \in rows'[v][j][m] =>
                           \E i \in DOMAIN Stored(s, j)' : <<v, m>> \in Stored(s, j)'[i]
    BY Zenon, <1>2 DEF AsyncInv, AsyncOf
  <2>1. s \in Server
    BY Zenon, KVStoreAssumption
  <2>2. Stored(s, j)' = Stored(s, j) /\ Done(v, s, j)' = Done(v, s, j)
    BY Zenon, <1>17a, <2>1
  <2>3. /\ \A i \in DOMAIN Stored(s, j) :
             <<v, m>> \in Stored(s, j)[i] =>
                /\ m <= Done(v, s, j)
                /\ \A h \in DOMAIN Stored(s, j) : <<v, m>> \in Stored(s, j)[h] => h = i
        /\ m \in DOMAIN rows[v][j] /\ m <= Done(v, s, j) /\ s \in rows[v][j][m] =>
             \E i \in DOMAIN Stored(s, j) : <<v, m>> \in Stored(s, j)[i]
    BY Zenon, <2>2 DEF IInv, AsyncInv, AsyncOf
  <2>4. m <= Done(v, s, j) /\ m \in DOMAIN rows'[v][j] /\ s \in rows'[v][j][m] =>
          m \in DOMAIN rows[v][j] /\ s \in rows[v][j][m]
    <3>1. CASE v = w /\ j = k
      <4>1. Done(v, s, j) = n - 1
        BY ZenonT(30), <1>16, <3>1
      <4>2. DOMAIN rows[w][k] = 1 .. n - 1
        <5>1. rows[w][k] \in Seq(SUBSET Server) /\ Len(rows[w][k]) = n - 1
          BY Zenon, <1>4, <1>12
        <5> QED
          BY <5>1
      <4>3. m \in Nat /\ m >= 1 /\ n \in Nat \ {0} /\ Rounds \in Nat
        BY SMTT(40), SMTT(40), <1>5, KVStoreAssumption
      <4>4. m <= n - 1 => m \in 1 .. n - 1
        BY SMTT(40), <4>3
      <4> QED
        BY Zenon, <1>13, <3>1, <4>1, <4>2, <4>4
    <3>2. CASE ~(v = w /\ j = k)
      BY Zenon, <1>7, <3>2
    <3> QED
      BY Zenon, <3>1, <3>2
  <2> QED
    BY Zenon, <2>2, <2>3, <2>4
<1>20. PullSeesRound'
  <2>1. ASSUME NEW v \in Worker, NEW j \in Key, NEW s \in Shards[j],
               conf.sync, link'[v][s][j].op = "pull", link'[v][s][j].st = "resp"
        PROVE  /\ link'[v][s][j] = link[v][s][j]
               /\ PushNumber(v, j)' = PushNumber(v, j)
               /\ Round(s, j, PushNumber(v, j))' = Round(s, j, PushNumber(v, j))
    <3>1. s \in Server /\ link'[v][s][j] = link[v][s][j]
      BY SMTT(40), <1>6, <2>1, KVStoreAssumption
    <3>2. PushNumber(v, j)' = PushNumber(v, j)
      BY Zenon, <1>9
    <3>3. at[v][j] % 2 \in {0, 1} /\ PushNumber(v, j) \in Nat
      BY Zenon, <1>1, Numbers
    <3>4. j = k => PushNumber(v, j) = n - 1
      <4>1. at[v][j] % 2 = 1
        BY ZenonT(20), <2>1, <3>1, <3>3 DEF IInv, LinkInv, RequestOf
      <4>2. Done(v, s, j) = PushNumber(v, j)
        BY Zenon, <4>1 DEF Done
      <4>3. j = k => Done(v, s, j) = Done(w, s, k)
        BY SMTT(40), SMTT(40), <2>1 DEF IInv, RoundInv, RoundOf
      <4> QED
        BY Zenon, <1>16, <4>2, <4>3
    <3>5. Round(s, j, PushNumber(v, j))' = Round(s, j, PushNumber(v, j))
      BY SMTT(40), SMTT(40), <1>5, <1>17, <3>1, <3>2, <3>3, <3>4
    <3> QED
      BY Zenon, <3>1, <3>2, <3>5
  <2> QED
    BY ZenonT(30), <1>2, <2>1, PullFrame
<1> QED
  BY Zenon, <1>6, <1>8, <1>14, <1>15, <1>18, <1>19, <1>20 DEF IInv

\* A push or pull returns: what was counted by its answers is counted by at.
LEMMA OperationReturnsInv ==
    ASSUME IInv, NEW w \in Worker, NEW k \in Key, OperationReturns(w, k)
    PROVE  IInv'
<1>1. TypeOK /\ Rank0 \in Worker /\ Shards[k] \subseteq Server /\ Shards[k] # {} /\ Cmd \notin Key
  BY Zenon, KVStoreAssumption DEF IInv
<1>2. /\ UNCHANGED <<conf, step, rows, modeVars, dataVars, failed>>
      /\ at' = [at EXCEPT ![w][k] = at[w][k] + 1]
  BY Zenon DEF OperationReturns
<1>3. k \in Chan /\ Cmd \in Chan /\ k # Cmd /\ Key \subseteq Chan
  BY Zenon, <1>1 DEF Chan
<1>4. Idle \in Link /\ Idle.st = "idle" /\ Idle.op = "none"
  BY Zenon DEF Idle, Link, Grads, Value
<1>5. \A v \in Worker, t \in Server, d \in Chan :
        link'[v][t][d] = IF v = w /\ d = k THEN Idle ELSE link[v][t][d]
  <2>1. {k} \in SUBSET Chan /\ Taken(w, {k})
    BY Zenon, <1>3 DEF OperationReturns
  <2>2. \A v \in Worker, t \in Server, d \in Chan :
          link'[v][t][d] = IF v = w /\ d \in {k} THEN Idle ELSE link[v][t][d]
    BY Zenon, <1>1, <2>1, TakenStep
  <2> QED
    BY Zenon, <2>2
<1>6. link' \in [Worker -> [Server -> [Chan -> Link]]]
  BY SMTT(40), SMTT(40), <1>1, <1>4 DEF TypeOK, OperationReturns, Taken
<1>7. step[w] = 7 /\ \A s \in Shards[k] : link[w][s][k].st = "resp"
  <2>1. step[w] = 7
    BY Zenon, <1>1, Places DEF TypeOK, OperationReturns
  <2> QED
    BY Zenon, <1>3, <2>1 DEF OperationReturns, Answered, SentTo
<1>8. /\ at[w][k] \in Nat /\ at[w][k] % 2 \in {0, 1} /\ at[w][k] < 2 * Rounds /\ Rounds \in Nat
      /\ \A s \in Shards[k] : at[w][k] % 2 = 0 => link[w][s][k].op = "push"
  <2>1. \A s \in Shards[k] : RequestOf(w, s, k)
    BY Zenon, <1>1 DEF IInv, LinkInv
  <2> QED
    BY Zenon, <1>1, <1>7, <2>1, Numbers DEF RequestOf
<1>9. /\ at'[w][k] = at[w][k] + 1
      /\ \A v \in Worker, j \in Key : v # w \/ j # k => at'[v][j] = at[v][j]
      /\ at' \in [Worker -> [Key -> 0 .. 2 * Rounds]]
  <2>1. at \in [Worker -> [Key -> 0 .. 2 * Rounds]] /\ at[w][k] + 1 \in 0 .. 2 * Rounds
    BY SMTT(40), SMTT(40), <1>1, <1>8 DEF TypeOK
  <2> QED
    BY Zenon, <1>2, <2>1
<1>10. TypeOK'
  BY Zenon, <1>1, <1>2, <1>6, <1>9 DEF TypeOK, modeVars, dataVars
<1>11. \A s \in Server : link'[w][s][k] = Idle
  BY Zenon, <1>3, <1>5
<1>12. \A v \in Worker, s \in Server, j \in Key : v # w \/ j # k => link'[v][s][j] = link[v][s][j]
  BY Zenon, <1>3, <1>5
<1>13. PushNumber(w, k)' = IF at[w][k] % 2 = 0 THEN PushNumber(w, k) ELSE PushNumber(w, k) + 1
  BY Zenon, <1>8, <1>9, Parity DEF PushNumber
<1>14. PushNumber(w, k) \in Nat \ {0} /\ (at'[w][k] % 2 = 1 <=> at[w][k] % 2 = 0)
  <2>1. PushNumber(w, k) \in Nat \ {0}
    BY Zenon, <1>1, Numbers
  <2>2. at'[w][k] % 2 = 1 <=> at[w][k] % 2 = 0
    <3>1. /\ at[w][k] % 2 = 0 => (at[w][k] + 1) % 2 = 1
          /\ at[w][k] % 2 = 1 => (at[w][k] + 1) % 2 = 0
      BY Zenon, <1>8, Parity
    <3> QED
      BY SMTT(40), <1>8, <1>9, <3>1
  <2> QED
    BY Zenon, <2>1, <2>2
<1>15. Issued(w, k)' = Issued(w, k)
  <2>1. \E s \in Shards[k] : link[w][s][k].st # "idle"
    BY Zenon, <1>1, <1>7
  <2>2. ~\E s \in Shards[k] : link'[w][s][k].st # "idle"
    BY Zenon, <1>1, <1>4, <1>11
  <2> QED
    BY SMTT(40), SMTT(40), <1>7, <1>8, <1>13, <1>14, <2>1, <2>2 DEF Issued
<1>16. \A s \in Shards[k] : Done(w, s, k)' = Done(w, s, k)
  <2> SUFFICES ASSUME NEW s \in Shards[k] PROVE Done(w, s, k)' = Done(w, s, k)
    BY Zenon
  <2>1. link[w][s][k].st = "resp" /\ link'[w][s][k].st = "idle"
    BY ZenonT(30), <1>1, <1>4, <1>7, <1>11
  <2> QED
    BY SMTT(40), SMTT(40), <1>7, <1>8, <1>13, <1>14, <2>1 DEF Done
<1>17. ASSUME NEW v \in Worker, NEW j \in Key, v # w \/ j # k
       PROVE  /\ PushNumber(v, j)' = PushNumber(v, j) /\ Issued(v, j)' = Issued(v, j)
              /\ \A s \in Server : RequestOf(v, s, j)' /\ Done(v, s, j)' = Done(v, s, j)
  BY SMTT(40), <1>2, <1>9, <1>12, <1>17, RequestFrame
<1>18. LinkInv'
  <2>1. \A s \in Server : RequestOf(w, s, k)'
    BY Zenon, <1>4, <1>11 DEF RequestOf
  <2> QED
    BY Zenon, <1>17, <2>1 DEF LinkInv
<1>19. CountInv'
  <2> SUFFICES ASSUME NEW v \in Worker, NEW j \in Key
               PROVE  /\ step[v] < 7 => at'[v][j] = 0
                      /\ step[v] > 7 => at'[v][j] = 2 * Rounds
                      /\ Len(rows[v][j]) = Issued(v, j)'
                      /\ \A i \in DOMAIN rows[v][j] : rows[v][j][i] \subseteq Shards[j]
    BY Zenon, <1>2 DEF CountInv
  <2>1. CASE v = w /\ j = k
    <3>1. /\ Len(rows[w][k]) = Issued(w, k)
          /\ \A i \in DOMAIN rows[w][k] : rows[w][k][i] \subseteq Shards[k]
      BY Zenon DEF IInv, CountInv
    <3>2. ~(step[w] < 7) /\ ~(step[w] > 7)
      BY SMTT(40), <1>7
    <3> QED
      BY Zenon, <1>15, <2>1, <3>1, <3>2
  <2>2. CASE v # w \/ j # k
    <3>1. at'[v][j] = at[v][j]
      BY Zenon, <1>9, <2>2
    <3>2. Issued(v, j)' = Issued(v, j)
      BY Zenon, <1>17, <2>2
    <3> QED
      BY Zenon, <3>1, <3>2 DEF IInv, CountInv
  <2> QED
    BY Zenon, <2>1, <2>2
<1>20. MergeInv'
  <2>1. \A s \in Server : link[w][s][k].st # "held"
    <3>1. \A s \in Server : RequestOf(w, s, k)
      BY Zenon DEF IInv, LinkInv
    <3> QED
      BY Zenon, <1>7, <3>1 DEF RequestOf
  <2> QED
    BY ZenonT(30), <1>2, <1>4, <1>11, <1>12, <2>1, MergeFrame DEF dataVars
<1>21. StoreInv' /\ \A s \in Server, j \in Key : Stored(s, j)' = Stored(s, j)
  <2>1. \A s \in Server, j \in Key : Initialised(s, j)' <=> Initialised(s, j)
    <3>1. \A s \in Server, j \in Key :
            Rank0 # w \/ j # k => link'[Rank0][s][j] = link[Rank0][s][j]
      BY Zenon, <1>1, <1>12
    <3> QED
      BY SMTT(40), <1>2, <1>7, <3>1 DEF Initialised
  <2> QED
    BY Zenon, <1>2, <2>1, StoreFrame DEF dataVars, modeVars
<1>22. \A v \in Worker, j \in Key : \A s \in Shards[j] : Done(v, s, j)' = Done(v, s, j)
  <2>1. \A j \in Key : Shards[j] \subseteq Server
    BY Zenon, KVStoreAssumption
  <2> QED
    BY Zenon, <1>16, <1>17, <2>1
<1>23. RoundInv' /\ AsyncInv'
  BY Zenon, <1>2, <1>21, <1>22, RoundsFrame
<1>24. PullSeesRound'
  <2>1. ASSUME NEW v \in Worker, NEW j \in Key, NEW s \in Shards[j],
               link'[v][s][j].op = "pull", link'[v][s][j].st = "resp"
        PROVE  /\ link'[v][s][j] = link[v][s][j]
               /\ PushNumber(v, j)' = PushNumber(v, j)
               /\ Round(s, j, PushNumber(v, j))' = Round(s, j, PushNumber(v, j))
    <3>1. s \in Server
      BY Zenon, KVStoreAssumption
    <3>2. v # w \/ j # k
      BY Zenon, <1>4, <1>11, <2>1, <3>1
    <3>3. PushNumber(v, j)' = PushNumber(v, j) /\ link'[v][s][j] = link[v][s][j]
      BY Zenon, <1>12, <1>17, <3>1, <3>2
    <3>4. Round(s, j, PushNumber(v, j))' = Round(s, j, PushNumber(v, j))
      BY Zenon, <1>2, <3>3 DEF Round
    <3> QED
      BY Zenon, <3>3, <3>4
  <2> QED
    BY Zenon, <1>2, <2>1, PullFrame
<1>25. BarrierInv' /\ CommandInv' /\ ModeInv' /\ ChecksHold'
  <2>1. OnKeys
    BY Zenon, <1>2, <1>3, <1>5, <1>6 DEF OnKeys
  <2> QED
    BY Zenon, <1>2, <2>1, KeyStep DEF IInv, ChecksHold
<1> QED
  BY Zenon, <1>10, <1>18, <1>19, <1>20, <1>21, <1>23, <1>24, <1>25 DEF IInv

\* A push that finds its key stored is one of training, with the gradient of
\* its worker's next round.
LEMMA TrainingPush ==
    ASSUME IInv, NEW w \in Worker, NEW s \in Server, NEW k \in Key,
           link[w][s][k].st \in {"req", "held"}, link[w][s][k].op = "push",
           Stored(s, k) # NoValue
    PROVE  /\ s \in Shards[k] /\ step[w] = 7 /\ at[w][k] % 2 = 0
           /\ Done(w, s, k) = PushNumber(w, k) - 1
           /\ \A v \in Worker : step[v] >= 6
<1>1. TypeOK /\ Rank0 \in Worker
  BY Zenon, KVStoreAssumption DEF IInv
<1>2. RequestOf(w, s, k)
  BY Zenon DEF IInv, LinkInv
<1>3. s \in Shards[k] /\ step[w] \in {5, 7} /\ (step[w] = 5 => w = Rank0)
  BY Zenon, <1>2 DEF RequestOf
<1>4. Initialised(s, k)
  BY Zenon DEF IInv, StoreInv, Stored
<1>5. step[w] = 7
  BY SMTT(40), <1>3, <1>4 DEF Initialised
<1>6. at[w][k] \in Nat /\ at[w][k] % 2 \in {0, 1} /\ at[w][k] < 2 * Rounds /\ Rounds \in Nat
  BY Zenon, <1>1, <1>2, <1>5, Numbers DEF RequestOf
<1>7. at[w][k] % 2 = 0
  BY Zenon, <1>2, <1>5, <1>6 DEF RequestOf
<1>8. Done(w, s, k) = PushNumber(w, k) - 1
  BY SMTT(40), SMTT(40), <1>7 DEF Done
<1>9. \A v \in Worker : step[v] >= 6
  BY <1>5 DEF IInv, BarrierInv
<1> QED
  BY Zenon, <1>3, <1>5, <1>7, <1>8, <1>9

\* The gradient of such a push.
LEMMA TrainingGradient ==
    ASSUME IInv, NEW w \in Worker, NEW s \in Server, NEW k \in Key,
           link[w][s][k].st # "idle", step[w] = 7, at[w][k] % 2 = 0
    PROVE  /\ link[w][s][k].grad = IF s \in rows[w][k][PushNumber(w, k)]
                                   THEN {<<w, PushNumber(w, k)>>} ELSE {}
           /\ Len(rows[w][k]) = PushNumber(w, k) /\ PushNumber(w, k) \in 1 .. Rounds
<1>1. TypeOK /\ RequestOf(w, s, k)
  BY Zenon DEF IInv, LinkInv
<1>2. s \in Shards[k] /\ at[w][k] < 2 * Rounds
  BY Zenon, <1>1 DEF RequestOf
<1>3. link[w][s][k].grad = IF s \in rows[w][k][PushNumber(w, k)]
                           THEN {<<w, PushNumber(w, k)>>} ELSE {}
  BY Zenon, <1>1 DEF RequestOf
<1>4. Len(rows[w][k]) = PushNumber(w, k)
  <2>1. \E t \in Shards[k] : link[w][t][k].st # "idle"
    BY Zenon, <1>2
  <2> QED
    BY Zenon, <2>1 DEF IInv, CountInv, Issued
<1>5. PushNumber(w, k) \in 1 .. Rounds
  <2>1. at[w][k] \in Nat /\ Rounds \in Nat /\ PushNumber(w, k) \in Nat \ {0}
    BY Zenon, <1>1, Numbers
  <2>2. PushNumber(w, k) <= Rounds
    BY Zenon, <1>2, <2>1, Parity DEF PushNumber
  <2> QED
    BY SMTT(40), <2>1, <2>2
<1> QED
  BY Zenon, <1>3, <1>4, <1>5

\* In training the servers know their modes.
LEMMA TrainingModes ==
    ASSUME IInv, NEW s \in Server, step[Rank0] >= 6
    PROVE  /\ sync_mode[s] <=> conf.sync
           /\ updater[s] <=> conf.opt
<1>1. TypeOK /\ Rank0 \in Worker
  BY Zenon, KVStoreAssumption DEF IInv
<1>2. step[Rank0] \in 1 .. 10
  BY Zenon, <1>1, Places DEF TypeOK
<1>3. Past(s, 2) /\ Past(s, 3)
  BY <1>2 DEF Past
<1> QED
  BY Zenon, <1>3 DEF IInv, ModeInv

\* The push that initialises a key is rank 0's, when nobody has pushed yet.
LEMMA InitialPush ==
    ASSUME IInv, NEW w \in Worker, NEW s \in Server, NEW k \in Key,
           Has(w, s, k, "push"), Stored(s, k) = NoValue
    PROVE  /\ s \in Shards[k] /\ step[w] = 5 /\ w = Rank0
           /\ store[s][k] = NoValue /\ store_realt[s][k] = NoValue /\ ~lag[s][k]
           /\ \A v \in Worker, j \in Key : step[v] <= 6 /\ at[v][j] = 0
<1>1. TypeOK /\ Rank0 \in Worker
  BY Zenon, KVStoreAssumption DEF IInv
<1>2. RequestOf(w, s, k) /\ link[w][s][k].st # "idle"
  BY Zenon DEF IInv, LinkInv, Has
<1>3. s \in Shards[k] /\ step[w] \in {5, 7} /\ (step[w] = 5 => w = Rank0)
  BY Zenon, <1>2 DEF RequestOf
<1>4. ~Initialised(s, k)
  BY Zenon DEF IInv, StoreInv
<1>5. store[s][k] = NoValue /\ store_realt[s][k] = NoValue /\ ~lag[s][k]
  BY Zenon, <1>4 DEF IInv, StoreInv
<1>6. \A v \in Worker : step[v] \in 1 .. 10
  BY Zenon, <1>1, Places DEF TypeOK
<1>7. step[w] = 5
  <2>1. step[w] = 7 => step[Rank0] >= 6
    BY SMTT(40), <1>1 DEF IInv, BarrierInv
  <2> QED
    BY SMTT(40), SMTT(40), <1>1, <1>3, <1>4, <1>6, <2>1 DEF Initialised
<1>8. \A v \in Worker : step[v] <= 6
  BY SMTT(40), <1>6, <1>7 DEF IInv, BarrierInv
<1>9. \A v \in Worker, j \in Key : at[v][j] = 0
  <2>1. \A v \in Worker : step[v] < 7
    BY SMTT(40), <1>6, <1>8
  <2> QED
    BY Zenon, <2>1 DEF IInv, CountInv
<1> QED
  BY Zenon, <1>3, <1>5, <1>7, <1>8, <1>9

\* A step of a server: requests are held or answered, none comes or goes.
ByServer ==
    /\ UNCHANGED <<conf, step, at, rows, modeVars>>
    /\ link' \in [Worker -> [Server -> [Chan -> Link]]]
    /\ \A w \in Worker, s \in Server : link'[w][s][Cmd] = link[w][s][Cmd]
    /\ \A w \in Worker, s \in Server, k \in Key :
         /\ link'[w][s][k].op = link[w][s][k].op /\ link'[w][s][k].grad = link[w][s][k].grad
         /\ link'[w][s][k].st = "idle" <=> link[w][s][k].st = "idle"
         /\ link'[w][s][k].st = "held" =>
              link[w][s][k].st = "held" \/ (step[w] = 7 /\ at[w][k] % 2 = 0)

\* Such a step keeps what the invariant says of programs and requests.
LEMMA ServerStep ==
    ASSUME IInv, ByServer
    PROVE  /\ LinkInv' /\ CountInv' /\ BarrierInv' /\ CommandInv' /\ ModeInv'
           /\ \A w \in Worker, k \in Key : PushNumber(w, k)' = PushNumber(w, k)
           /\ \A s \in Server, k \in Key, i \in Nat : Round(s, k, i)' = Round(s, k, i)
<1>1. UNCHANGED <<conf, step, at, rows, modeVars>>
  BY Zenon DEF ByServer
<1>2. \A w \in Worker, s \in Server, k \in Key :
         /\ link'[w][s][k].op = link[w][s][k].op /\ link'[w][s][k].grad = link[w][s][k].grad
         /\ link'[w][s][k].st = "idle" <=> link[w][s][k].st = "idle"
         /\ link'[w][s][k].st = "held" =>
              link[w][s][k].st = "held" \/ (step[w] = 7 /\ at[w][k] % 2 = 0)
  BY Zenon DEF ByServer
<1>3. \A w \in Worker, k \in Key : PushNumber(w, k)' = PushNumber(w, k)
  BY Zenon, <1>1 DEF PushNumber
<1>4. \A s \in Server, k \in Key, i \in Nat : Round(s, k, i)' = Round(s, k, i)
  BY Zenon, <1>1 DEF Round
<1>5. \A k \in Key : Shards[k] \subseteq Server
  BY Zenon, KVStoreAssumption
<1>6. LinkInv'
  <2> SUFFICES ASSUME NEW w \in Worker, NEW s \in Server, NEW k \in Key
               PROVE  RequestOf(w, s, k)'
    BY Zenon DEF LinkInv
  <2>1. RequestOf(w, s, k)
    BY Zenon DEF IInv, LinkInv
  <2>2. \A t \in Shards[k] : link'[w][t][k].st = "idle" <=> link[w][t][k].st = "idle"
    BY Zenon, <1>2, <1>5
  <2>3. /\ link'[w][s][k].op = link[w][s][k].op /\ link'[w][s][k].grad = link[w][s][k].grad
        /\ link'[w][s][k].st = "idle" <=> link[w][s][k].st = "idle"
        /\ link'[w][s][k].st = "held" =>
              link[w][s][k].st = "held" \/ (step[w] = 7 /\ at[w][k] % 2 = 0)
    BY Zenon, <1>2
  <2>4. step'[w] = step[w] /\ at'[w][k] = at[w][k] /\ rows'[w][k] = rows[w][k]
    BY ZenonT(30), <1>1
  <2>5. ASSUME link'[w][s][k].st # "idle"
        PROVE  /\ step[w] \in {5, 7}
               /\ \A t \in Shards[k] : link'[w][t][k].st # "idle"
               /\ step[w] = 5 => w = Rank0 /\ link'[w][s][k].op = "push" /\ link'[w][s][k].st # "held"
    BY SMTT(40), <2>1, <2>2, <2>3, <2>5 DEF RequestOf
  <2>6. ASSUME link'[w][s][k].st # "idle", step[w] = 7
        PROVE  /\ at[w][k] < 2 * Rounds
               /\ at[w][k] % 2 = 1 => link'[w][s][k].op = "pull" /\ link'[w][s][k].st # "held"
               /\ at[w][k] % 2 = 0 =>
                    /\ link'[w][s][k].op = "push"
                    /\ link'[w][s][k].grad = IF s \in rows[w][k][PushNumber(w, k)]
                                             THEN {<<w, PushNumber(w, k)>>} ELSE {}
    BY Zenon, <2>1, <2>3, <2>6 DEF RequestOf
  <2>7. s \notin Shards[k] => link'[w][s][k].st = "idle"
    BY Zenon, <2>1, <2>3 DEF RequestOf
  <2> QED
    BY Zenon, <1>3, <2>4, <2>5, <2>6, <2>7 DEF RequestOf
<1>7. \A w \in Worker, k \in Key : Issued(w, k)' = Issued(w, k)
  BY Zenon, <1>1, <1>2, <1>3, <1>5 DEF Issued
<1>8. CountInv'
  BY Zenon, <1>1, <1>7 DEF IInv, CountInv
<1>9. BarrierInv' /\ CommandInv' /\ ModeInv'
  BY Zenon, CommandFrame DEF ByServer
<1> QED
  BY Zenon, <1>3, <1>4, <1>6, <1>8, <1>9

\* A server answers or holds one request of a key, which becomes l.
Replaced(w, s, k, l) ==
    /\ UNCHANGED <<conf, step, at, rows, modeVars>> /\ link' = [link EXCEPT ![w][s][k] = l]
    /\ link[w][s][k].st # "idle" /\ l.st # "idle"
    /\ l.op = link[w][s][k].op /\ l.grad = link[w][s][k].grad
    /\ l.st = "held" => step[w] = 7 /\ at[w][k] % 2 = 0

Becomes(w, s, k, l) ==
    \A v \in Worker, t \in Server, j \in Key :
        link'[v][t][j] = IF v = w /\ t = s /\ j = k THEN l ELSE link[v][t][j]

\* Such a step is one of a server.
LEMMA OneRequest ==
    ASSUME IInv, NEW w \in Worker, NEW s \in Server, NEW k \in Key, NEW l \in Link,
           Replaced(w, s, k, l)
    PROVE  ByServer /\ Becomes(w, s, k, l)
<1>1. TypeOK /\ k \in Chan /\ Cmd \in Chan /\ k # Cmd /\ Key \subseteq Chan
  BY Zenon, KVStoreAssumption DEF IInv, Chan
<1>2. /\ \A v \in Worker, t \in Server, d \in Chan :
            link'[v][t][d] = IF v = w /\ t = s /\ d = k THEN l ELSE link[v][t][d]
      /\ link' \in [Worker -> [Server -> [Chan -> Link]]]
  BY Zenon, <1>1, ChannelStep DEF Replaced
<1>3. \A v \in Worker, t \in Server, j \in Key :
        link'[v][t][j] = IF v = w /\ t = s /\ j = k THEN l ELSE link[v][t][j]
  BY Zenon, <1>1, <1>2
<1>4. \A v \in Worker, t \in Server : link'[v][t][Cmd] = link[v][t][Cmd]
  BY Zenon, <1>1, <1>2
<1>5. ByServer
  <2>1. /\ UNCHANGED <<conf, step, at, rows, modeVars>>
        /\ link[w][s][k].st # "idle" /\ l.st # "idle"
        /\ l.op = link[w][s][k].op /\ l.grad = link[w][s][k].grad
        /\ l.st = "held" => step[w] = 7 /\ at[w][k] % 2 = 0
    BY Zenon DEF Replaced
  <2>2. ASSUME NEW v \in Worker, NEW t \in Server, NEW j \in Key
        PROVE  link'[v][t][j] = link[v][t][j] \/ (v = w /\ t = s /\ j = k /\ link'[v][t][j] = l)
    BY Zenon, <1>3
  <2>3. ASSUME NEW v \in Worker, NEW t \in Server, NEW j \in Key
        PROVE  /\ link'[v][t][j].op = link[v][t][j].op /\ link'[v][t][j].grad = link[v][t][j].grad
               /\ link'[v][t][j].st = "idle" <=> link[v][t][j].st = "idle"
               /\ link'[v][t][j].st = "held" =>
                    link[v][t][j].st = "held" \/ (step[v] = 7 /\ at[v][j] % 2 = 0)
    BY Zenon, <2>1, <2>2
  <2>4. UNCHANGED <<conf, step, at, rows, modeVars>>
    BY Zenon, <2>1
  <2>5. link' \in [Worker -> [Server -> [Chan -> Link]]]
    BY Zenon, <1>2
  <2> QED
    BY Zenon, <1>4, <2>3, <2>4, <2>5 DEF ByServer
<1> QED
  BY Zenon, <1>3, <1>5 DEF Becomes

\* The push that initialises a key.
LEMMA HandleInitInv ==
    ASSUME IInv, NEW w \in Worker, NEW s \in Server, NEW k \in Key, HandleInit(s, w, k)
    PROVE  IInv'
<1>1. TypeOK /\ Rank0 \in Worker /\ k \in Chan
  BY Zenon, KVStoreAssumption DEF IInv, Chan
<1>2. UNCHANGED <<conf, step, at, rows, modeVars, lag, request, merged, failed>>
  BY Zenon DEF HandleInit, workerVars
<1>3. /\ s \in Shards[k] /\ step[w] = 5 /\ w = Rank0
      /\ store[s][k] = NoValue /\ store_realt[s][k] = NoValue /\ ~lag[s][k]
      /\ \A v \in Worker, j \in Key : step[v] <= 6 /\ at[v][j] = 0
  BY Zenon, InitialPush DEF HandleInit
<1> DEFINE l == [link[w][s][k] EXCEPT !.st = "resp", !.val = NoValue]
<1>4. /\ l \in Link /\ l.st = "resp"
      /\ l.op = link[w][s][k].op /\ l.grad = link[w][s][k].grad
  <2>1. link[w][s][k] \in Link
    <3>1. link \in [Worker -> [Server -> [Chan -> Link]]]
      BY Zenon, <1>1 DEF TypeOK
    <3>2. link[w] \in [Server -> [Chan -> Link]]
      BY Zenon, <3>1
    <3>3. link[w][s] \in [Chan -> Link]
      BY Zenon, <3>2
    <3> QED
      BY Zenon, <1>1, <3>3
  <2> QED
    BY Zenon, <2>1 DEF Link, Value
<1>5. /\ link[w][s][k].st = "req" /\ link[w][s][k].op = "push"
      /\ link' = [link EXCEPT ![w][s][k] = l]
  BY Zenon DEF HandleInit, Has, Response
<1> HIDE DEF l
<1>6. /\ ByServer
      /\ \A v \in Worker, t \in Server, j \in Key :
           link'[v][t][j] = IF v = w /\ t = s /\ j = k THEN l ELSE link[v][t][j]
  <2>1. link[w][s][k].st # "idle" /\ l.st # "idle" /\ l.st # "held"
    BY Zenon, <1>4, <1>5
  <2>2. /\ l \in Link /\ l.op = link[w][s][k].op /\ l.grad = link[w][s][k].grad
        /\ UNCHANGED <<conf, step, at, rows, modeVars>>
    BY Zenon, <1>2, <1>4
  <2>3. Replaced(w, s, k, l)
    BY Zenon, <1>5, <2>1, <2>2 DEF Replaced
  <2>4. l \in Link
    BY Zenon, <2>2
  <2>5. ByServer /\ Becomes(w, s, k, l)
    BY Zenon, <2>3, <2>4, OneRequest
  <2> QED
    BY Zenon, <2>5 DEF Becomes
<1>7. /\ \A t \in Server, j \in Key : store'[t][j] = IF t = s /\ j = k THEN <<>> ELSE store[t][j]
      /\ store' \in [Server -> [Key -> Value]]
  <2>1. store \in [Server -> [Key -> Value]] /\ <<>> \in Value
    BY SMTT(40), <1>1 DEF TypeOK, Value
  <2>2. store' = [store EXCEPT ![s][k] = <<>>]
    BY Zenon DEF HandleInit
  <2> QED
    BY ZenonT(30), <2>1, <2>2
<1>8. /\ \A t \in Server, j \in Key :
           store_realt'[t][j] = IF t = s /\ j = k /\ has_multi_precision_copy(s) THEN <<>>
                                ELSE store_realt[t][j]
      /\ store_realt' \in [Server -> [Key -> Value]]
  <2>1. store_realt \in [Server -> [Key -> Value]] /\ <<>> \in Value
    BY SMTT(40), <1>1 DEF TypeOK, Value
  <2>2. store_realt' = [store_realt EXCEPT ![s][k] =
                          IF has_multi_precision_copy(s) THEN <<>> ELSE store_realt[s][k]]
    BY Zenon DEF HandleInit
  <2> QED
    BY Zenon, <2>1, <2>2
<1>9. TypeOK'
  <2>1. /\ lag' \in [Server -> [Key -> BOOLEAN]] /\ failed' \in BOOLEAN
        /\ request' \in [Server -> [Key -> Seq(Worker)]] /\ merged' \in [Server -> [Key -> Grads]]
    BY Zenon, <1>1, <1>2 DEF TypeOK
  <2>2. /\ UNCHANGED <<conf, step, at, rows, modeVars>>
        /\ link' \in [Worker -> [Server -> [Chan -> Link]]]
    BY Zenon, <1>6 DEF ByServer
  <2> QED
    BY Zenon, <1>1, <1>7, <1>8, <2>1, <2>2, TypeFrame
<1>10. \A t \in Server : has_multi_precision_copy(t)' <=> has_multi_precision_copy(t)
  BY Zenon, <1>2 DEF has_multi_precision_copy, modeVars
<1>11. \A t \in Server, j \in Key : Stored(t, j)' = IF t = s /\ j = k THEN <<>> ELSE Stored(t, j)
  BY Zenon, <1>7, <1>8, <1>10 DEF Stored
<1>12. <<>> # NoValue
  <2>1. <<>> \in Seq(SUBSET (Worker \X Nat))
    OBVIOUS
  <2> QED
    BY Zenon, <2>1, KVStoreAssumption
<1>13. StoreInv'
  <2> SUFFICES ASSUME NEW t \in Server, NEW j \in Key
               PROVE  /\ Initialised(t, j)' => store'[t][j] # NoValue /\ Stored(t, j)' # NoValue
                      /\ ~Initialised(t, j)' =>
                           store'[t][j] = NoValue /\ store_realt'[t][j] = NoValue /\ ~lag[t][j]
                      /\ lag[t][j] => has_multi_precision_copy(t)
                      /\ has_multi_precision_copy(t) /\ ~lag[t][j] => store'[t][j] = store_realt'[t][j]
                      /\ (\E v \in Worker : step[v] < 6) => Stored(t, j)' \in {NoValue, <<>>}
    BY Zenon, <1>2, <1>10 DEF StoreInv
  <2>1. CASE t = s /\ j = k
    <3>1. Initialised(s, k)'
      BY Zenon, <1>2, <1>3, <1>4, <1>6 DEF Initialised
    <3> QED
      BY Zenon, <1>3, <1>7, <1>8, <1>11, <1>12, <2>1, <3>1
  <2>2. CASE ~(t = s /\ j = k)
    <3>1. Initialised(t, j)' <=> Initialised(t, j)
      BY Zenon, <1>1, <1>2, <1>6, <2>2 DEF Initialised
    <3>2. /\ store'[t][j] = store[t][j] /\ store_realt'[t][j] = store_realt[t][j]
          /\ Stored(t, j)' = Stored(t, j)
      BY Zenon, <1>7, <1>8, <1>11, <2>2
    <3> QED
      BY Zenon, <3>1, <3>2 DEF IInv, StoreInv
  <2> QED
    BY Zenon, <2>1, <2>2
<1>14. \A v \in Worker, t \in Server, j \in Key : Done(v, t, j) = 0 /\ Done(v, t, j)' = 0
  <2>1. \A v \in Worker, j \in Key : at'[v][j] = 0 /\ at[v][j] = 0 /\ step'[v] # 7 /\ step[v] # 7
    BY SMTT(40), <1>2, <1>3
  <2> QED
    BY SMTT(40), SMTT(40), <2>1 DEF Done, PushNumber
<1>15. \A j \in Key : Shards[j] \subseteq Server
  BY Zenon, KVStoreAssumption
<1>16. ASSUME NEW j \in Key, NEW t \in Shards[j]
       PROVE  (conf.sync => RoundOf(t, j)') /\ (~conf.sync => AsyncOf(t, j)')
  <2>1. CASE t = s /\ j = k
    <3>1. Stored(t, j)' = <<>> /\ \A v \in Worker : Done(v, t, j)' = 0
      BY Zenon, <1>11, <1>14, <2>1
    <3>2. RoundOf(t, j)'
      BY SMTT(40), SMTT(40), <1>1, <3>1 DEF RoundOf
    <3>3. AsyncOf(t, j)'
      BY SMTT(40), <3>1 DEF AsyncOf
    <3> QED
      BY Zenon, <3>2, <3>3
  <2>2. CASE ~(t = s /\ j = k)
    <3>1. t \in Server /\ Stored(t, j)' = Stored(t, j) /\ \A v \in Worker : Done(v, t, j)' = Done(v, t, j)
      BY Zenon, <1>11, <1>14, <1>15, <2>2
    <3> QED
      BY Zenon, <1>2, <3>1, RoundFrame
  <2> QED
    BY Zenon, <2>1, <2>2
<1>17. RoundInv' /\ AsyncInv'
  BY Zenon, <1>2, <1>16 DEF RoundInv, AsyncInv
<1>18. MergeInv'
  BY SMTT(40), SMTT(40), <1>2, <1>4, <1>5, <1>6, MergeFrame
<1>19. PullSeesRound'
  <2>1. ASSUME NEW v \in Worker, NEW j \in Key, NEW t \in Shards[j], link'[v][t][j].op = "pull"
        PROVE  /\ link'[v][t][j] = link[v][t][j]
               /\ PushNumber(v, j)' = PushNumber(v, j)
               /\ Round(t, j, PushNumber(v, j))' = Round(t, j, PushNumber(v, j))
    <3>1. link'[v][t][j] = link[v][t][j]
      <4>1. t \in Server /\ l.op = "push"
        BY Zenon, <1>4, <1>5, <1>15
      <4>2. ~(v = w /\ t = s /\ j = k)
        BY Zenon, <1>6, <2>1, <4>1
      <4> QED
        BY Zenon, <1>6, <4>1, <4>2
    <3> QED
      BY Zenon, <1>2, <3>1, SameRounds
  <2> QED
    BY Zenon, <1>2, <2>1, PullFrame
<1>20. ChecksHold'
  BY Zenon, <1>2 DEF IInv, ChecksHold
<1> QED
  BY Zenon, <1>6, <1>9, <1>13, <1>17, <1>18, <1>19, <1>20, ServerStep DEF IInv

\* A pull is answered with the rounds its worker has pushed.
LEMMA HandlePullInv ==
    ASSUME IInv, NEW w \in Worker, NEW s \in Server, NEW k \in Key, HandlePull(s, w, k)
    PROVE  IInv'
<1>1. TypeOK /\ Rank0 \in Worker /\ k \in Chan /\ store[s][k] \in Value
  <2>1. TypeOK /\ Rank0 \in Worker /\ k \in Chan
    BY Zenon, KVStoreAssumption DEF IInv, Chan
  <2> QED
    BY Zenon, <2>1 DEF TypeOK
<1>2. UNCHANGED <<conf, step, at, rows, modeVars, dataVars>>
  BY Zenon DEF HandlePull, workerVars
<1> DEFINE l == [link[w][s][k] EXCEPT !.st = "resp", !.val = store[s][k]]
<1>3. /\ l \in Link /\ l.st = "resp" /\ l.val = store[s][k]
      /\ l.op = link[w][s][k].op /\ l.grad = link[w][s][k].grad
  <2>1. link[w][s][k] \in Link
    BY SMTT(40), <1>1 DEF TypeOK
  <2> QED
    BY Zenon, <1>1, <2>1 DEF Link
<1>4. /\ link[w][s][k].st = "req" /\ link[w][s][k].op = "pull"
      /\ link' = [link EXCEPT ![w][s][k] = l]
  BY Zenon DEF HandlePull, Has, Response
<1> HIDE DEF l
<1>5. /\ ByServer
      /\ \A v \in Worker, t \in Server, j \in Key :
           link'[v][t][j] = IF v = w /\ t = s /\ j = k THEN l ELSE link[v][t][j]
  <2>1. link[w][s][k].st # "idle" /\ l.st # "idle" /\ l.st # "held"
    BY Zenon, <1>3, <1>4
  <2>2. /\ l \in Link /\ l.op = link[w][s][k].op /\ l.grad = link[w][s][k].grad
        /\ UNCHANGED <<conf, step, at, rows, modeVars>>
    BY Zenon, <1>2, <1>3
  <2>3. Replaced(w, s, k, l)
    BY Zenon, <1>4, <2>1, <2>2 DEF Replaced
  <2>4. l \in Link
    BY Zenon, <2>2
  <2>5. ByServer /\ Becomes(w, s, k, l)
    BY Zenon, <2>3, <2>4, OneRequest
  <2> QED
    BY Zenon, <2>5 DEF Becomes
<1>6. /\ s \in Shards[k] /\ step[w] = 7 /\ at[w][k] % 2 = 1
  <2>1. RequestOf(w, s, k)
    BY Zenon DEF IInv, LinkInv
  <2>2. at[w][k] % 2 \in {0, 1}
    BY Zenon, <1>1, Numbers
  <2> QED
    BY Zenon, <1>4, <2>1, <2>2 DEF RequestOf
<1>7. Initialised(s, k)
  <2>1. step[Rank0] >= 6 /\ step[Rank0] \in 1 .. 10
    <3>1. step[Rank0] \in 1 .. 10
      BY Zenon, <1>1, Places DEF TypeOK
    <3> QED
      <4>1. BarrierInv
        BY Zenon DEF IInv
      <4> QED
        <5>1. step[w] > 6 => step[Rank0] >= 6
          BY Zenon, <1>1, <4>1 DEF BarrierInv
        <5>2. 7 > 6
          OBVIOUS
        <5> QED
          BY Zenon, <1>6, <3>1, <5>1, <5>2
  <2>2. step[Rank0] # 5 /\ step[Rank0] > 5
    BY SMTT(40), SMTT(40), <2>1
  <2> QED
    BY Zenon, <1>6, <2>2 DEF Initialised
<1>8. store[s][k] # NoValue /\ store[s][k] = Stored(s, k)
  <2>1. has_multi_precision_copy(s) => ~lag[s][k]
    BY Zenon DEF HandlePull, UpToDate
  <2> QED
    BY Zenon, <1>7, <2>1 DEF IInv, StoreInv, Stored
<1>9. failed' = failed
  BY Zenon, <1>1, <1>8 DEF HandlePull, TypeOK
<1>10. TypeOK'
  <2>1. /\ lag' \in [Server -> [Key -> BOOLEAN]] /\ failed' \in BOOLEAN
        /\ request' \in [Server -> [Key -> Seq(Worker)]] /\ merged' \in [Server -> [Key -> Grads]]
        /\ store' \in [Server -> [Key -> Value]] /\ store_realt' \in [Server -> [Key -> Value]]
    BY Zenon, <1>1, <1>2, <1>9 DEF TypeOK, dataVars
  <2>2. /\ UNCHANGED <<conf, step, at, rows, modeVars>>
        /\ link' \in [Worker -> [Server -> [Chan -> Link]]]
    BY Zenon, <1>5 DEF ByServer
  <2> QED
    BY Zenon, <1>1, <2>1, <2>2, TypeFrame
<1>11. StoreInv' /\ \A t \in Server, j \in Key : Stored(t, j)' = Stored(t, j)
  <2>1. \A t \in Server, j \in Key : Initialised(t, j)' <=> Initialised(t, j)
    BY SMTT(40), SMTT(40), <1>1, <1>2, <1>5, <1>6 DEF Initialised
  <2> QED
    BY Zenon, <1>2, <2>1, StoreFrame DEF dataVars, modeVars
<1>12. \A v \in Worker, t \in Server, j \in Key : Done(v, t, j)' = Done(v, t, j)
  BY SMTT(40), SMTT(40), <1>2, <1>3, <1>4, <1>5 DEF Done, PushNumber
<1>13. \A j \in Key : Shards[j] \subseteq Server
  BY Zenon, KVStoreAssumption
<1>14. RoundInv' /\ AsyncInv'
  BY Zenon, <1>2, <1>11, <1>12, <1>13, RoundsFrame
<1>15. MergeInv'
  BY SMTT(40), SMTT(40), <1>2, <1>3, <1>4, <1>5, MergeFrame DEF dataVars
<1>16. PullSeesRound'
  <2> SUFFICES ASSUME conf.sync, NEW v \in Worker, NEW j \in Key, NEW t \in Shards[j],
                      link'[v][t][j].op = "pull", link'[v][t][j].st = "resp"
               PROVE  IF conf.opt THEN Len(link'[v][t][j].val) = PushNumber(v, j)
                      ELSE link'[v][t][j].val = <<Round(t, j, PushNumber(v, j))>>
    <3>1. \A v \in Worker, j \in Key : \A t \in Shards[j] :
            /\ PushNumber(v, j)' = PushNumber(v, j)
            /\ Round(t, j, PushNumber(v, j))' = Round(t, j, PushNumber(v, j))
      BY Zenon, <1>2, SameRounds
    <3> QED
      BY Zenon, <1>2, <3>1 DEF PullSeesRound
  <2>1. CASE v = w /\ t = s /\ j = k
    <3>1. link'[v][t][j].val = Stored(s, k)
      BY Zenon, <1>3, <1>5, <1>8, <2>1
    <3>2. Done(w, s, k) = PushNumber(w, k)
      BY Zenon, <1>6 DEF Done
    <3>3. Done(Rank0, s, k) = PushNumber(w, k) /\ PushNumber(w, k) # 0
      <4>1. Done(Rank0, s, k) = Done(w, s, k)
        BY Zenon, <1>1, <1>6 DEF IInv, RoundInv, RoundOf
      <4>2. PushNumber(w, k) \in Nat \ {0}
        BY Zenon, <1>1, Numbers
      <4> QED
        BY Zenon, <3>2, <4>1, <4>2
    <3>4. IF conf.opt THEN Len(Stored(s, k)) = Done(Rank0, s, k)
          ELSE Stored(s, k) = <<Round(s, k, Done(Rank0, s, k))>>
      BY Zenon, <1>6, <1>8, <3>3 DEF IInv, RoundInv, RoundOf
    <3> QED
      BY Zenon, <2>1, <3>1, <3>3, <3>4
  <2>2. CASE ~(v = w /\ t = s /\ j = k)
    <3>1. link'[v][t][j] = link[v][t][j]
      BY Zenon, <1>5, <1>13, <2>2
    <3> QED
      BY ZenonT(20), <3>1 DEF IInv, PullSeesRound
  <2> QED
    BY Zenon, <2>1, <2>2
<1>17. ChecksHold'
  BY Zenon, <1>9 DEF IInv, ChecksHold
<1> QED
  BY Zenon, <1>5, <1>10, <1>11, <1>14, <1>15, <1>16, <1>17, ServerStep DEF IInv

\* The 16-bit copy catches up with the stored value.
LEMMA EngineCopiesInv ==
    ASSUME IInv, NEW s \in Server, NEW k \in Key, EngineCopies(s, k)
    PROVE  IInv'
<1>1. TypeOK /\ Rank0 \in Worker /\ lag[s][k] /\ store_realt[s][k] \in Value
  <2>1. TypeOK /\ Rank0 \in Worker /\ lag[s][k]
    BY Zenon, KVStoreAssumption DEF IInv, EngineCopies
  <2> QED
    BY Zenon, <2>1 DEF TypeOK
<1>2. UNCHANGED <<conf, step, at, rows, link, modeVars, store_realt, request, merged, failed>>
  BY Zenon DEF EngineCopies, workerVars
<1>3. ByServer
  BY Zenon, <1>1, <1>2 DEF ByServer, TypeOK
<1>4. has_multi_precision_copy(s) /\ Initialised(s, k) /\ Stored(s, k) = store_realt[s][k]
  BY Zenon, <1>1 DEF IInv, StoreInv, Stored
<1>5. /\ store' \in [Server -> [Key -> Value]] /\ lag' \in [Server -> [Key -> BOOLEAN]]
      /\ \A t \in Server, j \in Key :
           /\ store'[t][j] = IF t = s /\ j = k THEN store_realt[s][k] ELSE store[t][j]
           /\ lag'[t][j] = IF t = s /\ j = k THEN FALSE ELSE lag[t][j]
  BY Zenon, <1>1 DEF TypeOK, EngineCopies
<1>6. TypeOK'
  BY Zenon, <1>1, <1>2, <1>5 DEF TypeOK, modeVars
<1>7. \A t \in Server : has_multi_precision_copy(t)' <=> has_multi_precision_copy(t)
  BY Zenon, <1>2 DEF has_multi_precision_copy, modeVars
<1>8. \A t \in Server, j \in Key : Stored(t, j)' = Stored(t, j)
  BY Zenon, <1>2, <1>4, <1>5, <1>7 DEF Stored
<1>9. \A t \in Server, j \in Key : Initialised(t, j)' <=> Initialised(t, j)
  BY Zenon, <1>2 DEF Initialised
<1>10. StoreInv'
  <2> SUFFICES ASSUME NEW t \in Server, NEW j \in Key
               PROVE  /\ Initialised(t, j) => store'[t][j] # NoValue /\ Stored(t, j) # NoValue
                      /\ ~Initialised(t, j) =>
                           store'[t][j] = NoValue /\ store_realt[t][j] = NoValue /\ ~lag'[t][j]
                      /\ lag'[t][j] => has_multi_precision_copy(t)
                      /\ has_multi_precision_copy(t) /\ ~lag'[t][j] => store'[t][j] = store_realt[t][j]
                      /\ (\E v \in Worker : step[v] < 6) => Stored(t, j) \in {NoValue, <<>>}
    BY SMTT(40), SMTT(40), <1>2, <1>7, <1>8, <1>9 DEF StoreInv
  <2>1. StoreInv
    BY Zenon DEF IInv
  <2>2. CASE t = s /\ j = k
    BY ZenonT(20), <1>4, <1>5, <2>1, <2>2 DEF StoreInv
  <2>3. CASE ~(t = s /\ j = k)
    <3>1. store'[t][j] = store[t][j] /\ lag'[t][j] = lag[t][j]
      BY Zenon, <1>5, <2>3
    <3> QED
      BY Zenon, <2>1, <3>1 DEF StoreInv
  <2> QED
    BY Zenon, <2>2, <2>3
<1>11. \A v \in Worker, t \in Server, j \in Key : Done(v, t, j)' = Done(v, t, j)
  BY SMTT(40), <1>2 DEF Done, PushNumber
<1>12. \A j \in Key : Shards[j] \subseteq Server
  BY Zenon, KVStoreAssumption
<1>13. RoundInv' /\ AsyncInv'
  BY Zenon, <1>2, <1>8, <1>11, <1>12, RoundsFrame
<1>14. MergeInv'
  BY Zenon, <1>2, MergeFrame
<1>15. PullSeesRound' /\ ChecksHold'
  <2>1. PullSeesRound /\ ChecksHold
    BY Zenon DEF IInv
  <2>2. \A v \in Worker, j \in Key : \A t \in Shards[j] :
          /\ PushNumber(v, j)' = PushNumber(v, j)
          /\ Round(t, j, PushNumber(v, j))' = Round(t, j, PushNumber(v, j))
    BY Zenon, <1>2, SameRounds
  <2>3. PullSeesRound'
    BY Zenon, <1>2, <2>1, <2>2 DEF PullSeesRound
  <2>4. ChecksHold'
    BY Zenon, <1>2, <2>1 DEF ChecksHold
  <2> QED
    BY Zenon, <2>3, <2>4
<1> QED
  BY Zenon, <1>3, <1>6, <1>10, <1>13, <1>14, <1>15, ServerStep DEF IInv

-----------------------------------------------------------------------------
(* Pushes of training.                                                     *)

\* The sequence q names each worker of W once, and nobody else.
Lists(q, W) ==
    /\ q \in Seq(Worker)
    /\ \A i, j \in DOMAIN q : q[i] = q[j] => i = j
    /\ \A i \in DOMAIN q : q[i] \in W
    /\ \A v \in W : \E i \in DOMAIN q : q[i] = v
=============================================================================
