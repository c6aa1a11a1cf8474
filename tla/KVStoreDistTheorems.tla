------------------------- MODULE KVStoreDistTheorems ------------------------
(***************************************************************************)
(* The inductive invariant of KVStoreDist when a server handles a push     *)
(* during training, and the theorems that rest on it.                      *)
(***************************************************************************)
EXTENDS KVStoreDistProofs

(***************************************************************************)
(* What the proofs know about cardinalities.  FiniteSetTheorems proves it  *)
(* (Counted, below); the lemmas assume it, so that the provers meet those  *)
(* theorems only where they are needed.                                    *)
(***************************************************************************)
CountNone ==
    /\ IsFiniteSet({}) /\ Cardinality({}) = 0
    /\ \A S : IsFiniteSet(S) => (Cardinality(S) = 0 <=> S = {})

CountOne == \A x : IsFiniteSet({x}) /\ Cardinality({x}) = 1

ListsAll ==
    \A T : \A q \in Seq(T) :
       /\ IsFiniteSet(T) /\ Len(q) = Cardinality(T)
       /\ \A i, j \in 1 .. Len(q) : q[i] = q[j] => i = j
       => \A v \in T : \E i \in 1 .. Len(q) : q[i] = v

Counting == CountNone /\ CountOne /\ ListsAll

(* The definitions in FiniteSets. *)
Listed(S) == \E seq \in Seq(S) : \A s \in S : \E n \in 1 .. Len(seq) : seq[n] = s
CountOf(S) ==
    LET CS[T \in SUBSET S] == IF T = {} THEN 0 ELSE 1 + CS[T \ {CHOOSE x : x \in T}]
    IN  CS[S]

(* Finite sets and cardinalities are the ones of FiniteSets. *)
LEMMA Cardinals == \A S : (IsFiniteSet(S) <=> Listed(S)) /\ Cardinality(S) = CountOf(S)
  BY Zenon DEF IsFiniteSet, Cardinality, Listed, CountOf

\* The requests of a round with one more: each worker once, so that the round
\* is complete only when it has one of everybody.
LEMMA Queue ==
    ASSUME Counting, IInv, NEW w \in Worker, NEW s \in Server, NEW k \in Key, link[w][s][k].st = "req"
    PROVE  /\ Lists(Append(request[s][k], w), Held(s, k) \union {w})
           /\ Complete(Append(request[s][k], w)) => Held(s, k) \union {w} = Worker
<1> DEFINE r == request[s][k]
           q == Append(r, w)
<1>1. r \in Seq(Worker)
  BY Zenon DEF IInv, TypeOK
<1>2. /\ \A i, j \in DOMAIN r : r[i] = r[j] => i = j
      /\ Held(s, k) = {r[i] : i \in DOMAIN r}
  BY Zenon DEF IInv, MergeInv
<1>3. w \notin Held(s, k)
  BY Zenon DEF Held
<1> HIDE DEF r, q
<1>4. /\ q \in Seq(Worker) /\ Len(q) = Len(r) + 1 /\ q[Len(q)] = w /\ Len(r) \in Nat
      /\ DOMAIN r = 1 .. Len(r) /\ DOMAIN q = 1 .. Len(q)
      /\ \A i \in 1 .. Len(r) : q[i] = r[i]
  BY SMTT(40), <1>1 DEF q
<1>5. \A i \in 1 .. Len(q) : i \in 1 .. Len(r) \/ i = Len(q)
  BY SMTT(40), <1>4
<1>6. \A i, j \in DOMAIN q : q[i] = q[j] => i = j
  BY SMTT(40), <1>2, <1>3, <1>4, <1>5
<1>7. \A i \in DOMAIN q : q[i] \in Held(s, k) \union {w}
  BY Zenon, <1>2, <1>4, <1>5
<1>8. ASSUME NEW v \in Held(s, k) \union {w} PROVE \E i \in DOMAIN q : q[i] = v
  <2>1. CASE v = w
    BY SMTT(40), <1>4, <2>1
  <2>2. CASE v \in Held(s, k)
    <3>1. PICK i \in DOMAIN r : r[i] = v
      BY Zenon, <1>2, <2>2
    <3>2. i \in DOMAIN q /\ q[i] = v
      BY SMTT(40), <1>4, <3>1
    <3> QED
      BY Zenon, <3>2
  <2> QED
    BY Zenon, <2>1, <2>2
<1>9. Complete(q) => Held(s, k) \union {w} = Worker
  <2> SUFFICES ASSUME Complete(q) PROVE \A v \in Worker : \E i \in DOMAIN q : q[i] = v
    BY Zenon, <1>7 DEF Held
  <2>1. IsFiniteSet(Worker) /\ Len(q) = Cardinality(Worker)
    BY Zenon, KVStoreAssumption DEF Complete
  <2>2. \A a, c \in 1 .. Len(q) : q[a] = q[c] => a = c
    BY Zenon, <1>4, <1>6
  <2>3. \A v \in Worker : \E i \in 1 .. Len(q) : q[i] = v
    BY Zenon, <1>4, <2>1, <2>2 DEF Counting, ListsAll
  <2> QED
    BY Zenon, <1>4, <2>3
<1>10. Lists(q, Held(s, k) \union {w})
  BY Zenon, <1>4, <1>6, <1>7, <1>8 DEF Lists
<1> QED
  BY Zenon, <1>9, <1>10 DEF q, r

\* A round is empty when it holds no request.
LEMMA EmptyRound ==
    ASSUME IInv, NEW s \in Server, NEW k \in Key
    PROVE  request[s][k] = <<>> <=> Held(s, k) = {}
<1> DEFINE r == request[s][k]
<1>1. r \in Seq(Worker) /\ Held(s, k) = {r[i] : i \in DOMAIN r}
  BY DEF IInv, TypeOK, MergeInv
<1> HIDE DEF r
<1>2. r = <<>> => DOMAIN r = {}
  OBVIOUS
<1>3. r # <<>> => 1 \in DOMAIN r
  BY <1>1
<1>4. 1 \in DOMAIN r => r[1] \in Held(s, k)
  BY Zenon, <1>1
<1>5. DOMAIN r = {} => Held(s, k) = {}
  BY Zenon, <1>1
<1>6. r = <<>> <=> Held(s, k) = {}
  BY Zenon, <1>2, <1>3, <1>4, <1>5
<1> QED
  BY Zenon, <1>6 DEF r

\* What a round has merged, with one more push.
LEMMA Merging ==
    ASSUME IInv, NEW w \in Worker, NEW s \in Server, NEW k \in Key, link[w][s][k].st = "req"
    PROVE  /\ Merge(s, k, link[w][s][k].grad) =
                UNION {link[v][s][k].grad : v \in Held(s, k) \union {w}}
           /\ Merge(s, k, link[w][s][k].grad) \in Grads
<1>1. request[s][k] = <<>> <=> Held(s, k) = {}
  BY Zenon, EmptyRound
<1>2. \A v \in Worker : link[v][s][k].grad \in Grads
  <2>1. TypeOK /\ k \in Chan
    BY Zenon DEF IInv, Chan
  <2>2. \A v \in Worker : link[v][s][k] \in Link
    BY <2>1 DEF TypeOK
  <2> QED
    BY Zenon, <2>2 DEF Link
<1>3. Merge(s, k, link[w][s][k].grad) = UNION {link[v][s][k].grad : v \in Held(s, k) \union {w}}
  <2>1. CASE request[s][k] = <<>>
    BY Zenon, <1>1, <2>1 DEF Merge
  <2>2. CASE request[s][k] # <<>>
    <3>1. merged[s][k] = UNION {link[v][s][k].grad : v \in Held(s, k)}
      BY Zenon, <2>2 DEF IInv, MergeInv
    <3> QED
      BY Zenon, <2>2, <3>1 DEF Merge
  <2> QED
    BY Zenon, <2>1, <2>2
<1>4. UNION {link[v][s][k].grad : v \in Held(s, k) \union {w}} \in Grads
  BY <1>2 DEF Grads, Held
<1> QED
  BY Zenon, <1>3, <1>4

\* A push joins a round that is not complete yet.
LEMMA HandlePushWaitsInv ==
    ASSUME Counting, IInv, NEW w \in Worker, NEW s \in Server, NEW k \in Key, HandlePushWaits(s, w, k)
    PROVE  IInv'
<1>1. TypeOK /\ Rank0 \in Worker /\ k \in Chan
  BY Zenon, KVStoreAssumption DEF IInv, Chan
<1>2. UNCHANGED <<conf, step, at, rows, modeVars, store, store_realt, lag, failed>>
  BY Zenon DEF HandlePushWaits, workerVars
<1>19. PICK q : q = Append(request[s][k], w)
  BY Zenon
<1> DEFINE l == [link[w][s][k] EXCEPT !.st = "held"]
           g == Merge(s, k, link[w][s][k].grad)
<1>3. /\ l \in Link /\ l.st = "held"
      /\ l.op = link[w][s][k].op /\ l.grad = link[w][s][k].grad
  <2>1. link[w][s][k] \in Link
    BY <1>1 DEF TypeOK
  <2> QED
    BY Zenon, <2>1 DEF Link
<1>4. /\ link[w][s][k].st = "req" /\ link[w][s][k].op = "push" /\ Stored(s, k) # NoValue
      /\ sync_mode[s]
      /\ request' = [request EXCEPT ![s][k] = q] /\ merged' = [merged EXCEPT ![s][k] = g]
  BY Zenon, <1>19 DEF HandlePushWaits, Has
<1>5. link' = [link EXCEPT ![w][s][k] = l]
  BY Zenon, <1>1 DEF HandlePushWaits, TypeOK
<1>6. step[w] = 7 /\ at[w][k] % 2 = 0 /\ conf.sync /\ s \in Shards[k]
  <2>1. /\ link[w][s][k].st \in {"req", "held"} /\ link[w][s][k].op = "push"
        /\ Stored(s, k) # NoValue
    BY Zenon, <1>4
  <2>2. sync_mode[s] => conf.sync
    BY Zenon DEF IInv, ModeInv
  <2>3. s \in Shards[k] /\ step[w] = 7 /\ at[w][k] % 2 = 0
    BY Zenon, <2>1, TrainingPush
  <2> QED
    BY Zenon, <1>4, <2>2, <2>3
<1>7. /\ q \in Seq(Worker)
      /\ \A i, j \in DOMAIN q : q[i] = q[j] => i = j
      /\ \A i \in DOMAIN q : q[i] \in Held(s, k) \union {w}
      /\ \A v \in Held(s, k) \union {w} : \E i \in DOMAIN q : q[i] = v
  <2>1. link[w][s][k].st = "req"
    BY Zenon, <1>4
  <2>2. Lists(Append(request[s][k], w), Held(s, k) \union {w})
    BY Zenon, <2>1, Queue
  <2>3. Lists(q, Held(s, k) \union {w})
    BY Zenon, <1>19, <2>2
  <2> QED
    BY Zenon, <2>3 DEF Lists
<1>8. g = UNION {link[v][s][k].grad : v \in Held(s, k) \union {w}} /\ g \in Grads
  BY Zenon, <1>4, Merging
<1> HIDE DEF l, g
<1>9. /\ ByServer
      /\ \A v \in Worker, t \in Server, j \in Key :
           link'[v][t][j] = IF v = w /\ t = s /\ j = k THEN l ELSE link[v][t][j]
  <2>1. link[w][s][k].st # "idle" /\ l.st # "idle"
    BY Zenon, <1>3, <1>4
  <2>2. /\ l \in Link /\ l.op = link[w][s][k].op /\ l.grad = link[w][s][k].grad
        /\ UNCHANGED <<conf, step, at, rows, modeVars>>
    BY Zenon, <1>2, <1>3
  <2>3. Replaced(w, s, k, l)
    BY Zenon, <1>5, <1>6, <2>1, <2>2 DEF Replaced
  <2>4. l \in Link
    BY Zenon, <2>2
  <2>5. ByServer /\ Becomes(w, s, k, l)
    BY Zenon, <2>3, <2>4, OneRequest
  <2> QED
    BY Zenon, <2>5 DEF Becomes
<1>10. /\ request' \in [Server -> [Key -> Seq(Worker)]] /\ merged' \in [Server -> [Key -> Grads]]
       /\ \A t \in Server, j \in Key :
            /\ request'[t][j] = IF t = s /\ j = k THEN q ELSE request[t][j]
            /\ merged'[t][j] = IF t = s /\ j = k THEN g ELSE merged[t][j]
  BY Zenon, <1>1, <1>4, <1>7, <1>8 DEF TypeOK
<1>11. TypeOK'
  <2>1. link' \in [Worker -> [Server -> [Chan -> Link]]]
    BY Zenon, <1>9 DEF ByServer
  <2>2. /\ request' \in [Server -> [Key -> Seq(Worker)]]
        /\ merged' \in [Server -> [Key -> Grads]]
    BY Zenon, <1>10
  <2> QED
    BY Zenon, <1>1, <1>2, <2>1, <2>2 DEF TypeOK, modeVars
<1>12. MergeInv'
  <2> SUFFICES ASSUME NEW t \in Server, NEW j \in Key
               PROVE  /\ \A x, y \in DOMAIN request'[t][j] : request'[t][j][x] = request'[t][j][y] => x = y
                      /\ Held(t, j)' = {request'[t][j][i] : i \in DOMAIN request'[t][j]}
                      /\ request'[t][j] # <<>> =>
                           conf.sync /\ merged'[t][j] = UNION {link'[v][t][j].grad : v \in Held(t, j)'}
    BY Zenon, <1>2 DEF MergeInv
  <2>1. CASE t = s /\ j = k
    <3>1. Held(s, k)' = Held(s, k) \union {w}
      BY Zenon, <1>3, <1>9 DEF Held
    <3>2. \A v \in Worker : link'[v][s][k].grad = link[v][s][k].grad
      BY Zenon, <1>3, <1>9
    <3>3. {link'[v][s][k].grad : v \in Held(s, k)'} = {link[v][s][k].grad : v \in Held(s, k) \union {w}}
      BY Zenon, <3>1, <3>2 DEF Held
    <3>4. request'[s][k] = q /\ merged'[s][k] = g
      BY Zenon, <1>10
    <3>5. \A x, y \in DOMAIN request'[s][k] : request'[s][k][x] = request'[s][k][y] => x = y
      BY Zenon, <1>7, <3>4
    <3>6. Held(s, k)' = {request'[s][k][i] : i \in DOMAIN request'[s][k]}
      BY SMTT(40), SMTT(40), <1>7, <3>1, <3>4
    <3>7. conf.sync /\ merged'[s][k] = UNION {link'[v][s][k].grad : v \in Held(s, k)'}
      BY Zenon, <1>6, <1>8, <3>3, <3>4
    <3> QED
      BY SMTT(40), SMTT(40), SMTT(40), <2>1, <3>5, <3>6, <3>7
  <2>2. CASE ~(t = s /\ j = k)
    <3>1. \A v \in Worker : link'[v][t][j] = link[v][t][j]
      BY Zenon, <1>9, <2>2
    <3>2. Held(t, j)' = Held(t, j)
      BY Zenon, <3>1 DEF Held
    <3>3. {link'[v][t][j].grad : v \in Held(t, j)} = {link[v][t][j].grad : v \in Held(t, j)}
      BY Zenon, <3>1 DEF Held
    <3>4. request'[t][j] = request[t][j] /\ merged'[t][j] = merged[t][j]
      BY Zenon, <1>10, <2>2
    <3>5. /\ \A x, y \in DOMAIN request[t][j] : request[t][j][x] = request[t][j][y] => x = y
          /\ Held(t, j) = {request[t][j][i] : i \in DOMAIN request[t][j]}
          /\ request[t][j] # <<>> =>
               conf.sync /\ merged[t][j] = UNION {link[v][t][j].grad : v \in Held(t, j)}
      BY Zenon DEF IInv, MergeInv
    <3>6. Held(t, j)' = {request'[t][j][i] : i \in DOMAIN request'[t][j]}
      BY Zenon, <3>2, <3>4, <3>5
    <3>7. request'[t][j] # <<>> =>
            conf.sync /\ merged'[t][j] = UNION {link'[v][t][j].grad : v \in Held(t, j)'}
      BY Zenon, <3>2, <3>3, <3>4, <3>5
    <3> QED
      BY Zenon, <3>4, <3>5, <3>6, <3>7
  <2> QED
    BY Zenon, <2>1, <2>2
<1>13. StoreInv' /\ \A t \in Server, j \in Key : Stored(t, j)' = Stored(t, j)
  <2>1. \A t \in Server, j \in Key : Initialised(t, j)' <=> Initialised(t, j)
    BY SMTT(40), SMTT(40), SMTT(40), <1>1, <1>2, <1>6, <1>9 DEF Initialised
  <2> QED
    BY Zenon, <1>2, <2>1, StoreFrame DEF modeVars
<1>14. \A v \in Worker, t \in Server, j \in Key : Done(v, t, j)' = Done(v, t, j)
  BY SMTT(40), SMTT(40), SMTT(40), <1>2, <1>3, <1>4, <1>9 DEF Done, PushNumber
<1>15. \A j \in Key : Shards[j] \subseteq Server
  BY Zenon, KVStoreAssumption
<1>16. RoundInv' /\ AsyncInv'
  BY Zenon, <1>2, <1>13, <1>14, <1>15, RoundsFrame
<1>17. PullSeesRound'
  <2>1. ASSUME NEW v \in Worker, NEW j \in Key, NEW t \in Shards[j], link'[v][t][j].op = "pull"
        PROVE  /\ link'[v][t][j] = link[v][t][j]
               /\ PushNumber(v, j)' = PushNumber(v, j)
               /\ Round(t, j, PushNumber(v, j))' = Round(t, j, PushNumber(v, j))
    BY SMTT(40), SMTT(40), SMTT(40), <1>2, <1>3, <1>4, <1>9, <1>15, <2>1 DEF PushNumber, Round
  <2> QED
    BY Zenon, <1>2, <2>1, PullFrame
<1>18. ChecksHold'
  BY Zenon, <1>2 DEF IInv, ChecksHold
<1> QED
  BY Zenon, <1>9, <1>11, <1>12, <1>13, <1>16, <1>17, <1>18, ServerStep DEF IInv

\* A request that a round holds is a push.
LEMMA HeldIsPush ==
    ASSUME IInv, NEW v \in Worker, NEW s \in Server, NEW k \in Key, link[v][s][k].st = "held"
    PROVE  link[v][s][k].op = "push"
<1>1. RequestOf(v, s, k) /\ TypeOK
  BY Zenon DEF IInv, LinkInv
<1>2. at[v][k] % 2 \in {0, 1}
  BY Zenon, <1>1, Numbers
<1>3. step[v] \in {5, 7} /\ step[v] # 5
  BY Zenon, <1>1 DEF RequestOf
<1>4. at[v][k] % 2 # 1
  BY Zenon, <1>1, <1>3 DEF RequestOf
<1> QED
  BY Zenon, <1>1, <1>2, <1>3, <1>4 DEF RequestOf

\* A complete round is of one number, and merges what that round has to merge.
LEMMA RoundMerged ==
    ASSUME IInv, conf.sync, NEW w \in Worker, NEW s \in Server, NEW k \in Key,
           link[w][s][k].st = "req", link[w][s][k].op = "push", Stored(s, k) # NoValue,
           Held(s, k) \union {w} = Worker
    PROVE  /\ \A v \in Worker : PushNumber(v, k) = PushNumber(w, k)
           /\ Merge(s, k, link[w][s][k].grad) = Round(s, k, PushNumber(w, k))
<1> DEFINE n == PushNumber(w, k)
<1>1. TypeOK /\ \A v \in Worker : PushNumber(v, k) \in Nat
  <2>1. TypeOK
    BY Zenon DEF IInv
  <2> QED
    BY Zenon, <2>1, Numbers
<1>2. ASSUME NEW v \in Worker
      PROVE  /\ link[v][s][k].st \in {"req", "held"} /\ link[v][s][k].op = "push"
             /\ s \in Shards[k] /\ step[v] = 7 /\ at[v][k] % 2 = 0
             /\ Done(v, s, k) = PushNumber(v, k) - 1
  <2>1. link[v][s][k].st \in {"req", "held"} /\ link[v][s][k].op = "push"
    BY Zenon, HeldIsPush DEF Held
  <2> QED
    BY Zenon, <2>1, TrainingPush
<1>3. \A v \in Worker : PushNumber(v, k) = n
  <2>1. \A v \in Worker : Done(v, s, k) = Done(w, s, k)
    BY Zenon, <1>2 DEF IInv, RoundInv, RoundOf
  <2> QED
    BY SMTT(40), SMTT(40), SMTT(40), <1>1, <1>2, <2>1
<1>4. ASSUME NEW v \in Worker
      PROVE  /\ link[v][s][k].grad = IF s \in rows[v][k][n] THEN {<<v, n>>} ELSE {}
             /\ n \in DOMAIN rows[v][k]
  <2>1. link[v][s][k].st # "idle"
    BY Zenon, <1>2
  <2>2. /\ link[v][s][k].grad = IF s \in rows[v][k][PushNumber(v, k)]
                                THEN {<<v, PushNumber(v, k)>>} ELSE {}
        /\ Len(rows[v][k]) = PushNumber(v, k) /\ PushNumber(v, k) \in 1 .. Rounds
    BY Zenon, <1>2, <2>1, TrainingGradient
  <2>3. rows[v][k] \in Seq(SUBSET Server)
    BY SMTT(40), SMTT(40), SMTT(40), <1>1 DEF TypeOK
  <2>4. DOMAIN rows[v][k] = 1 .. Len(rows[v][k])
    BY <2>3
  <2>5. PushNumber(v, k) = n
    BY Zenon, <1>3
  <2> HIDE DEF n
  <2>6. n \in DOMAIN rows[v][k]
    BY SMTT(40), SMTT(40), SMTT(40), <2>2, <2>4, <2>5
  <2> QED
    BY Zenon, <2>2, <2>5, <2>6
<1>5. Merge(s, k, link[w][s][k].grad) = UNION {link[v][s][k].grad : v \in Worker}
  BY Merging
<1> HIDE DEF n
<1>6. UNION {link[v][s][k].grad : v \in Worker} = Round(s, k, n)
  <2>1. ASSUME NEW v \in Worker, NEW g \in link[v][s][k].grad
        PROVE  g \in Round(s, k, n)
    <3>1. g = <<v, n>> /\ s \in rows[v][k][n] /\ n \in DOMAIN rows[v][k]
      BY Zenon, <1>4, <2>1
    <3> QED
      BY <3>1, Zenon DEF Round
  <2>2. ASSUME NEW g \in Round(s, k, n)
        PROVE  \E v \in Worker : g \in link[v][s][k].grad
    <3>1. PICK v \in Worker : g = <<v, n>> /\ s \in rows[v][k][n]
      BY <2>2, Zenon DEF Round
    <3>2. link[v][s][k].grad = {<<v, n>>}
      BY Zenon, <1>4, <3>1
    <3> QED
      BY Zenon, <3>1, <3>2
  <2> QED
    BY Zenon, <2>1, <2>2
<1> QED
  BY Zenon, <1>3, <1>5, <1>6 DEF n

\* What a push makes of the stored value.
LEMMA AppliedType ==
    ASSUME TypeOK, NEW s \in Server, NEW k \in Key, Stored(s, k) # NoValue, NEW update \in Grads
    PROVE  /\ Stored(s, k) \in Seq(Grads)
           /\ Applied(s, k, update) \in Seq(Grads) /\ Applied(s, k, update) # NoValue
<1>1. Stored(s, k) \in Seq(Grads)
  BY DEF TypeOK, Stored, Value
<1>2. Applied(s, k, update) \in Seq(Grads)
  BY <1>1 DEF Applied
<1> QED
  BY Zenon, <1>1, <1>2, KVStoreAssumption DEF Grads

\* The answers that go out when a push is applied: to the worker that sent it,
\* and to the ones whose pushes were merged with it.
Answers(s, k, R) ==
    /\ UNCHANGED <<conf, step, at, rows, modeVars>>
    /\ link' \in [Worker -> [Server -> [Chan -> Link]]]
    /\ \A v \in Worker, t \in Server, d \in Chan :
         ~(v \in R /\ t = s /\ d = k) => link'[v][t][d] = link[v][t][d]
    /\ \A v \in R : /\ link'[v][s][k].st = "resp"
                    /\ link'[v][s][k].op = link[v][s][k].op
                    /\ link'[v][s][k].grad = link[v][s][k].grad

\* HandlePushApplies answers the whole round.
LEMMA Answering ==
    ASSUME Counting, IInv, NEW w \in Worker, NEW s \in Server, NEW k \in Key, HandlePushApplies(s, w, k)
    PROVE  Answers(s, k, Held(s, k) \union {w})
<1> DEFINE q == Append(request[s][k], w)
           R == Held(s, k) \union {w}
<1>1. TypeOK /\ k \in Chan
  BY Zenon DEF IInv, Chan
<1>2. link[w][s][k].st = "req"
  BY Zenon DEF HandlePushApplies, Has
<1>3. Lists(q, R)
  BY Zenon, <1>2, Queue
<1>4. link' = [v \in Worker |-> IF v \notin Responds(q) THEN link[v]
                                ELSE [link[v] EXCEPT ![s][k].st = "resp"]]
  BY Zenon DEF HandlePushApplies
<1>5. UNCHANGED <<conf, step, at, rows, modeVars>>
  BY Zenon DEF HandlePushApplies, workerVars
<1>6. R \subseteq Worker
  BY Zenon DEF Held
<1> HIDE DEF q, R
<1>7. Responds(q) = R
  <2>1. q \in Seq(Worker)
    BY Zenon, <1>3 DEF Lists
  <2>2. DOMAIN q = 1 .. Len(q)
    BY SMTT(40), <2>1
  <2>3. \A v \in Responds(q) : v \in R
    BY SMTT(40), <1>3, <2>2 DEF Lists, Responds
  <2>4. \A v \in R : v \in Responds(q)
    BY Zenon, <1>3, <2>2 DEF Lists, Responds
  <2> QED
    BY Zenon, <2>3, <2>4
<1>8. ASSUME NEW v \in Worker
      PROVE  link[v] \in [Server -> [Chan -> Link]] /\ link[v][s][k] \in Link
  BY <1>1 DEF TypeOK
<1>9. ASSUME NEW v \in Worker
      PROVE  link'[v] \in [Server -> [Chan -> Link]]
  <2>1. CASE v \notin R
    BY Zenon, <1>4, <1>7, <1>8, <2>1
  <2>2. CASE v \in R
    <3>1. link'[v] = [link[v] EXCEPT ![s][k].st = "resp"]
      BY Zenon, <1>4, <1>7, <2>2
    <3>2. [link[v][s][k] EXCEPT !.st = "resp"] \in Link
      BY Zenon, <1>8 DEF Link
    <3> QED
      BY SMTT(40), SMTT(40), SMTT(40), <1>1, <1>8, <3>1, <3>2
  <2> QED
    BY Zenon, <2>1, <2>2
<1>10. ASSUME NEW v \in R
       PROVE  /\ link'[v][s][k] = [link[v][s][k] EXCEPT !.st = "resp"]
              /\ \A t \in Server, d \in Chan :
                   ~(t = s /\ d = k) => link'[v][t][d] = link[v][t][d]
  <2>1. v \in Worker
    BY Zenon, <1>6
  <2>2. link'[v] = [link[v] EXCEPT ![s][k].st = "resp"]
    BY Zenon, <1>4, <1>7, <2>1
  <2>3. link[v] \in [Server -> [Chan -> Link]]
    BY Zenon, <1>8, <2>1
  <2> QED
    BY SMTT(40), <1>1, <2>2, <2>3
<1>11. ASSUME NEW v \in Worker, v \notin R
       PROVE  link'[v] = link[v]
  BY Zenon, <1>4, <1>7, <1>11
<1>12. link' \in [Worker -> [Server -> [Chan -> Link]]]
  BY Zenon, <1>4, <1>9
<1>13. \A v \in Worker, t \in Server, d \in Chan :
          ~(v \in R /\ t = s /\ d = k) => link'[v][t][d] = link[v][t][d]
  <2> SUFFICES ASSUME NEW v \in Worker, NEW t \in Server, NEW d \in Chan,
                      ~(v \in R /\ t = s /\ d = k)
               PROVE  link'[v][t][d] = link[v][t][d]
    BY Zenon
  <2>1. CASE v \in R
    <3>1. ~(t = s /\ d = k)
      BY Zenon, <2>1
    <3> QED
      BY Zenon, <1>10, <2>1, <3>1
  <2>2. CASE v \notin R
    BY Zenon, <1>11, <2>2
  <2> QED
    BY Zenon, <2>1, <2>2
<1>14. \A v \in R : /\ link'[v][s][k].st = "resp"
                    /\ link'[v][s][k].op = link[v][s][k].op
                    /\ link'[v][s][k].grad = link[v][s][k].grad
  <2> SUFFICES ASSUME NEW v \in R
               PROVE  /\ link'[v][s][k].st = "resp"
                      /\ link'[v][s][k].op = link[v][s][k].op
                      /\ link'[v][s][k].grad = link[v][s][k].grad
    BY Zenon
  <2>1. link[v][s][k] \in Link
    BY Zenon, <1>6, <1>8
  <2>2. link'[v][s][k] = [link[v][s][k] EXCEPT !.st = "resp"]
    BY Zenon, <1>10
  <2> QED
    BY Zenon, <2>1, <2>2 DEF Link
<1> QED
  BY Zenon, <1>5, <1>12, <1>13, <1>14 DEF Answers, R

\* The worker that pushed, and those that wait with it, are in training, and
\* their pushes count as applied once they are answered.
LEMMA AnswersStep ==
    ASSUME IInv, NEW w \in Worker, NEW s \in Server, NEW k \in Key,
           link[w][s][k].st = "req", link[w][s][k].op = "push", Stored(s, k) # NoValue,
           Answers(s, k, Held(s, k) \union {w})
    PROVE  /\ ByServer
           /\ Held(s, k)' = {}
           /\ \A v \in Held(s, k) \union {w} : /\ link[v][s][k].op = "push"
                                               /\ Done(v, s, k)' = PushNumber(v, k)
           /\ \A v \in Worker, t \in Server, j \in Key :
                ~(v \in Held(s, k) \union {w} /\ t = s /\ j = k) =>
                    link'[v][t][j] = link[v][t][j] /\ Done(v, t, j)' = Done(v, t, j)
<1> DEFINE R == Held(s, k) \union {w}
<1>1. TypeOK /\ Key \subseteq Chan /\ Cmd \in Chan /\ Cmd # k
  BY Zenon, KVStoreAssumption DEF IInv, Chan
<1>2. \A v \in R : /\ v \in Worker
                   /\ link[v][s][k].st \in {"req", "held"} /\ link[v][s][k].op = "push"
  BY Zenon, HeldIsPush DEF Held
<1>3. \A v \in R : step[v] = 7 /\ at[v][k] % 2 = 0
  BY Zenon, <1>2, TrainingPush
<1>4. w \in R /\ \A v \in Worker : link[v][s][k].st = "held" => v \in R
  BY Zenon DEF Held
<1>5. UNCHANGED <<conf, step, at, rows, modeVars>>
  BY Zenon DEF Answers
<1>6. link' \in [Worker -> [Server -> [Chan -> Link]]]
  BY Zenon DEF Answers
<1>7. \A v \in Worker, t \in Server, d \in Chan :
         ~(v \in R /\ t = s /\ d = k) => link'[v][t][d] = link[v][t][d]
  BY Zenon DEF Answers
<1>8. \A v \in R : /\ link'[v][s][k].st = "resp"
                   /\ link'[v][s][k].op = link[v][s][k].op
                   /\ link'[v][s][k].grad = link[v][s][k].grad
  BY Zenon DEF Answers
<1> HIDE DEF R
<1>9. \A v \in Worker, t \in Server : link'[v][t][Cmd] = link[v][t][Cmd]
  BY Zenon, <1>1, <1>7
<1>10. \A v \in Worker, t \in Server, j \in Key :
         ~(v \in R /\ t = s /\ j = k) => link'[v][t][j] = link[v][t][j]
  BY Zenon, <1>1, <1>7
<1>11. ASSUME NEW v \in Worker, NEW t \in Server, NEW j \in Key
       PROVE  /\ link'[v][t][j].op = link[v][t][j].op /\ link'[v][t][j].grad = link[v][t][j].grad
              /\ link'[v][t][j].st = "idle" <=> link[v][t][j].st = "idle"
              /\ link'[v][t][j].st = "held" => link[v][t][j].st = "held"
  <2>1. CASE v \in R /\ t = s /\ j = k
    BY Zenon, <1>2, <1>8, <2>1
  <2>2. CASE ~(v \in R /\ t = s /\ j = k)
    BY Zenon, <1>10, <2>2
  <2> QED
    BY Zenon, <2>1, <2>2
<1>12. ByServer
  BY SMTT(40), SMTT(40), SMTT(40), <1>5, <1>6, <1>9, <1>11 DEF ByServer
<1>13. Held(s, k)' = {}
  <2>1. ASSUME NEW v \in Worker
        PROVE  link'[v][s][k].st # "held"
    BY Zenon, <1>4, <1>8, <1>10
  <2> QED
    BY Zenon, <2>1 DEF Held
<1>14. \A v \in Worker, j \in Key : PushNumber(v, j)' = PushNumber(v, j)
  BY Zenon, <1>5 DEF PushNumber
<1>15. \A v \in R : Done(v, s, k)' = PushNumber(v, k)
  BY Zenon, <1>2, <1>3, <1>5, <1>8, <1>14 DEF Done
<1>16. ASSUME NEW v \in Worker, NEW t \in Server, NEW j \in Key, ~(v \in R /\ t = s /\ j = k)
       PROVE  link'[v][t][j] = link[v][t][j] /\ Done(v, t, j)' = Done(v, t, j)
  BY Zenon, <1>5, <1>10, <1>14, <1>16 DEF Done
<1> QED
  BY Zenon, <1>2, <1>12, <1>13, <1>15, <1>16 DEF R

\* A complete round is applied: the workers go on to the next one together, and
\* the stored value has this round at its place.
LEMMA RoundApplied ==
    ASSUME IInv, conf.sync, NEW w \in Worker, NEW s \in Server, NEW k \in Key,
           link[w][s][k].st = "req", link[w][s][k].op = "push", Stored(s, k) # NoValue,
           Held(s, k) \union {w} = Worker,
           UNCHANGED <<conf, rows>>,
           \A v \in Worker : Done(v, s, k)' = PushNumber(v, k),
           Stored(s, k)' = LET g == Merge(s, k, link[w][s][k].grad)
                           IN  IF conf.opt THEN Append(Stored(s, k), g) ELSE <<g>>
    PROVE  RoundOf(s, k)'
<1> DEFINE n == PushNumber(w, k)
           V == Stored(s, k)
<1>1. TypeOK /\ Rank0 \in Worker
  BY Zenon, KVStoreAssumption DEF IInv
<1>2. n \in Nat \ {0}
  BY Zenon, <1>1, Numbers
<1>3. /\ \A v \in Worker : PushNumber(v, k) = n
      /\ Merge(s, k, link[w][s][k].grad) = Round(s, k, n)
  BY Zenon, RoundMerged
<1>4. s \in Shards[k] /\ Done(w, s, k) = n - 1
  BY Zenon, TrainingPush
<1>5. RoundOf(s, k)
  BY Zenon, <1>4 DEF IInv, RoundInv
<1>6. Done(Rank0, s, k) = n - 1
  BY ZenonT(30), <1>1, <1>4, <1>5 DEF RoundOf
<1>7. V \in Seq(Grads)
  BY SMTT(40), <1>1 DEF TypeOK, Stored, Value
<1>8. \A i : Round(s, k, i)' = Round(s, k, i)
  BY Zenon DEF Round
<1>9. \A v \in Worker : Done(v, s, k)' = n
  BY Zenon, <1>3
<1>10. conf.opt => Len(V) = n - 1 /\ \A i \in DOMAIN V : V[i] = Round(s, k, i)
  BY Zenon, <1>5, <1>6 DEF RoundOf
<1>11. Stored(s, k)' = IF conf.opt THEN Append(V, Round(s, k, n)) ELSE <<Round(s, k, n)>>
  BY Zenon, <1>3
<1>13. Round(s, k, n) \in Grads
  BY SMTT(40), SMTT(40), SMTT(40), <1>2 DEF Round, Grads
<1> HIDE DEF n, V
<1>12. conf.opt => /\ Len(Stored(s, k)') = n
                   /\ \A i \in DOMAIN Stored(s, k)' : Stored(s, k)'[i] = Round(s, k, i)
  <2> SUFFICES ASSUME conf.opt
               PROVE  /\ Len(Append(V, Round(s, k, n))) = n
                      /\ \A i \in DOMAIN Append(V, Round(s, k, n)) :
                           Append(V, Round(s, k, n))[i] = Round(s, k, i)
    BY Zenon, <1>11
  <2>1. Len(Append(V, Round(s, k, n))) = n /\ DOMAIN V = 1 .. n - 1
    BY SMTT(40), SMTT(40), SMTT(40), <1>2, <1>7, <1>10, <1>13
  <2>2. DOMAIN Append(V, Round(s, k, n)) = 1 .. n
    BY SMTT(40), SMTT(40), SMTT(40), <1>7, <1>13, <2>1
  <2>3. Append(V, Round(s, k, n))[n] = Round(s, k, n)
    BY SMTT(40), SMTT(40), SMTT(40), <1>2, <1>7, <1>10, <1>13
  <2>4. \A i \in 1 .. n - 1 : Append(V, Round(s, k, n))[i] = V[i]
    BY SMTT(40), SMTT(40), SMTT(40), <1>2, <1>7, <1>10, <1>13
  <2> QED
    BY SMTT(40), SMTT(40), SMTT(40), <1>2, <1>10, <2>1, <2>2, <2>3, <2>4
<1> QED
  BY Zenon, <1>1, <1>2, <1>8, <1>9, <1>11, <1>12 DEF RoundOf

\* An asynchronous push is applied when it is answered, and was not before.
LEMMA PushApplied ==
    ASSUME IInv, ~conf.sync, NEW w \in Worker, NEW s \in Server, NEW k \in Key,
           link[w][s][k].st = "req", link[w][s][k].op = "push", Stored(s, k) # NoValue,
           UNCHANGED <<conf, rows>>,
           Done(w, s, k)' = PushNumber(w, k),
           \A v \in Worker \ {w} : Done(v, s, k)' = Done(v, s, k),
           Stored(s, k)' = LET g == link[w][s][k].grad
                           IN  IF g = {} THEN Stored(s, k) ELSE Append(Stored(s, k), g)
    PROVE  AsyncOf(s, k)'
<1> DEFINE n == PushNumber(w, k)
           V == Stored(s, k)
           g == link[w][s][k].grad
<1>1. TypeOK
  BY Zenon DEF IInv
<1>2. n \in Nat \ {0}
  BY Zenon, <1>1, Numbers
<1>3. s \in Shards[k] /\ step[w] = 7 /\ at[w][k] % 2 = 0 /\ Done(w, s, k) = n - 1
  BY Zenon, TrainingPush
<1>4. g = IF s \in rows[w][k][n] THEN {<<w, n>>} ELSE {}
  <2>1. link[w][s][k].st # "idle"
    BY Zenon
  <2> QED
    BY Zenon, <1>3, <2>1, TrainingGradient
<1>5. AsyncOf(s, k) /\ V \in Seq(Grads)
  BY SMTT(40), SMTT(40), SMTT(40), <1>1, <1>3 DEF IInv, AsyncInv, TypeOK, Stored, Value
<1>6. Rounds \in Nat /\ \A v \in Worker : Done(v, s, k) \in Nat
  BY ZenonT(30), <1>1, Numbers, KVStoreAssumption
<1>7. ASSUME NEW v \in Worker, NEW m \in 1 .. Rounds
      PROVE  /\ m <= Done(v, s, k) => m <= Done(v, s, k)'
             /\ m <= Done(v, s, k)' => m <= Done(v, s, k) \/ (v = w /\ m = n)
             /\ v = w /\ m = n => ~(m <= Done(v, s, k)) /\ m <= Done(v, s, k)'
  BY SMTT(40), SMTT(40), SMTT(40), <1>2, <1>3, <1>6
<1>8. ASSUME NEW v \in Worker, NEW m \in 1 .. Rounds
      PROVE  /\ \A i \in DOMAIN V : <<v, m>> \in V[i] =>
                    /\ m <= Done(v, s, k)
                    /\ \A j \in DOMAIN V : <<v, m>> \in V[j] => j = i
             /\ m \in DOMAIN rows[v][k] /\ m <= Done(v, s, k) /\ s \in rows[v][k][m] =>
                    \E i \in DOMAIN V : <<v, m>> \in V[i]
  BY Zenon, <1>5 DEF AsyncOf
<1>9. Stored(s, k)' = IF g = {} THEN V ELSE Append(V, g)
  BY Zenon
<1> HIDE DEF n, V, g
<1> SUFFICES ASSUME NEW v \in Worker, NEW m \in 1 .. Rounds
             PROVE  /\ \A i \in DOMAIN Stored(s, k)' : <<v, m>> \in Stored(s, k)'[i] =>
                         /\ m <= Done(v, s, k)'
                         /\ \A j \in DOMAIN Stored(s, k)' : <<v, m>> \in Stored(s, k)'[j] => j = i
                    /\ m \in DOMAIN rows[v][k] /\ m <= Done(v, s, k)' /\ s \in rows[v][k][m] =>
                         \E i \in DOMAIN Stored(s, k)' : <<v, m>> \in Stored(s, k)'[i]
  BY Zenon DEF AsyncOf
<1>10. CASE g = {}
  <2>1. Stored(s, k)' = V /\ s \notin rows[w][k][n]
    BY Zenon, <1>4, <1>9, <1>10
  <2> QED
    BY Zenon, <1>7, <1>8, <2>1
<1>11. CASE g # {}
  <2> DEFINE U == Append(V, g)
             L == Len(V)
  <2>1. Stored(s, k)' = U /\ g = {<<w, n>>}
    BY Zenon, <1>4, <1>9, <1>11
  <2>2. /\ L \in Nat /\ DOMAIN V = 1 .. L /\ DOMAIN U = 1 .. L + 1
        /\ U[L + 1] = g /\ \A i \in 1 .. L : U[i] = V[i]
    <3>1. g \in Grads
      BY SMTT(40), SMTT(40), SMTT(40), <1>2, <2>1 DEF Grads
    <3> QED
      BY SMTT(40), SMTT(40), SMTT(40), <1>5, <3>1
  <2> HIDE DEF U, L
  <2>3. DOMAIN U = DOMAIN V \union {L + 1} /\ L + 1 \notin DOMAIN V
    BY SMTT(40), SMTT(40), <2>2
  <2>4. \A i \in DOMAIN V : U[i] = V[i]
    BY Zenon, <2>2
  <2>5. <<v, m>> \in U[L + 1] <=> v = w /\ m = n
    BY SMTT(40), SMTT(40), SMTT(40), <2>1, <2>2
  <2>6. ASSUME NEW i \in DOMAIN U, <<v, m>> \in U[i]
        PROVE  m <= Done(v, s, k)' /\ \A j \in DOMAIN U : <<v, m>> \in U[j] => j = i
    <3>1. CASE v = w /\ m = n
      <4>1. \A j \in DOMAIN V : <<v, m>> \notin V[j]
        BY Zenon, <1>7, <1>8, <3>1
      <4>2. \A j \in DOMAIN U : <<v, m>> \in U[j] => j = L + 1
        BY Zenon, <2>3, <2>4, <4>1
      <4> QED
        BY Zenon, <1>7, <2>6, <3>1, <4>2
    <3>2. CASE ~(v = w /\ m = n)
      <4>1. \A j \in DOMAIN U : <<v, m>> \in U[j] => j \in DOMAIN V /\ <<v, m>> \in V[j]
        BY Zenon, <2>3, <2>4, <2>5, <3>2
      <4> QED
        BY Zenon, <1>7, <1>8, <2>6, <4>1
    <3> QED
      BY Zenon, <3>1, <3>2
  <2>7. ASSUME m \in DOMAIN rows[v][k], m <= Done(v, s, k)', s \in rows[v][k][m]
        PROVE  \E i \in DOMAIN U : <<v, m>> \in U[i]
    <3>1. CASE v = w /\ m = n
      BY Zenon, <2>3, <2>5, <3>1
    <3>2. CASE ~(v = w /\ m = n)
      <4>1. PICK i \in DOMAIN V : <<v, m>> \in V[i]
        BY Zenon, <1>7, <1>8, <2>7, <3>2
      <4> QED
        BY Zenon, <2>3, <2>4, <4>1
    <3> QED
      BY Zenon, <3>1, <3>2
  <2> QED
    BY Zenon, <2>1, <2>6, <2>7
<1> QED
  BY Zenon, <1>10, <1>11

\* ApplyUpdates: a complete round, or one push of dist_async.
LEMMA HandlePushAppliesInv ==
    ASSUME Counting, IInv, NEW w \in Worker, NEW s \in Server, NEW k \in Key, HandlePushApplies(s, w, k)
    PROVE  IInv'
<1> DEFINE R == Held(s, k) \union {w}
           gr == link[w][s][k].grad
           g == IF conf.sync THEN Merge(s, k, gr) ELSE gr
           e == ~conf.sync /\ gr = {}
           A == Applied(s, k, g)
           mp == has_multi_precision_copy(s)
<1>1. TypeOK /\ Rank0 \in Worker
  BY Zenon, KVStoreAssumption DEF IInv
<1>2. UNCHANGED <<conf, step, at, rows, modeVars>>
  BY Zenon DEF HandlePushApplies, workerVars
<1>3. link[w][s][k].st = "req" /\ link[w][s][k].op = "push" /\ Stored(s, k) # NoValue
  BY Zenon DEF HandlePushApplies, Has
<1>4. /\ s \in Shards[k] /\ \A v \in Worker : step[v] >= 6
  BY Zenon, <1>3, TrainingPush
<1>5. (sync_mode[s] <=> conf.sync) /\ (updater[s] <=> conf.opt)
  BY ZenonT(30), <1>1, <1>4, TrainingModes
<1>6. /\ ByServer
      /\ Held(s, k)' = {}
      /\ \A v \in R : link[v][s][k].op = "push" /\ Done(v, s, k)' = PushNumber(v, k)
      /\ \A v \in Worker, t \in Server, j \in Key :
           ~(v \in R /\ t = s /\ j = k) =>
               link'[v][t][j] = link[v][t][j] /\ Done(v, t, j)' = Done(v, t, j)
  <2>1. Answers(s, k, Held(s, k) \union {w})
    BY Zenon, Answering
  <2> QED
    BY SMTT(40), SMTT(40), SMTT(40), <1>3, <2>1, AnswersStep
<1>7. conf.sync => R = Worker
  <2>1. conf.sync => Complete(Append(request[s][k], w))
    BY Zenon, <1>5 DEF HandlePushApplies
  <2> QED
    BY Zenon, <1>3, <2>1, Queue
<1>8. ~conf.sync => request[s][k] = <<>> /\ R = {w}
  <2>1. ~conf.sync => request[s][k] = <<>>
    BY Zenon DEF IInv, MergeInv
  <2> QED
    BY Zenon, <2>1, EmptyRound
<1>9. g \in Grads
  <2>1. link[w][s][k] \in Link
    BY <1>1 DEF TypeOK, Chan
  <2>2. gr \in Grads
    BY Zenon, <2>1 DEF Link
  <2> QED
    BY Zenon, <1>3, <2>2, Merging
<1>10. A \in Seq(Grads) /\ A # NoValue
  BY Zenon, <1>1, <1>3, <1>9, AppliedType
<1>11. A = IF conf.opt THEN Append(Stored(s, k), g) ELSE <<g>>
  BY Zenon, <1>5 DEF Applied
<1>12. /\ request' = [request EXCEPT ![s][k] = <<>>]
       /\ merged' = [merged EXCEPT ![s][k] = IF conf.sync THEN g ELSE merged[s][k]]
       /\ store_realt' = [store_realt EXCEPT ![s][k] = IF mp /\ ~e THEN A ELSE store_realt[s][k]]
       /\ store' = [store EXCEPT ![s][k] = IF ~mp /\ ~e THEN A ELSE store[s][k]]
       /\ lag' = [lag EXCEPT ![s][k] = IF e THEN lag[s][k] ELSE mp]
  BY Zenon, <1>5, <1>1 DEF HandlePushApplies, TypeOK
<1>13. failed' = failed
  <2>1. conf.sync \/ conf.opt
    BY Zenon, <1>1, ConfType DEF TypeOK
  <2>2. ~(request[s][k] # <<>> /\ ~sync_mode[s]) /\ ~(~updater[s] /\ ~sync_mode[s])
    BY Zenon, <1>5, <1>8, <2>1
  <2>3. failed \in BOOLEAN
    BY Zenon, <1>1 DEF TypeOK
  <2> QED
    BY Zenon, <2>2, <2>3 DEF HandlePushApplies
<1>14. mp \in BOOLEAN
  BY Zenon DEF has_multi_precision_copy
<1> HIDE DEF R, gr, g, A, mp, e
<1>15. /\ request' \in [Server -> [Key -> Seq(Worker)]] /\ merged' \in [Server -> [Key -> Grads]]
       /\ \A t \in Server, j \in Key :
            request'[t][j] = IF t = s /\ j = k THEN <<>> ELSE request[t][j]
       /\ \A t \in Server, j \in Key : ~(t = s /\ j = k) => merged'[t][j] = merged[t][j]
  BY SMTT(40), SMTT(40), SMTT(40), <1>1, <1>9, <1>12 DEF TypeOK
<1>16. /\ store' \in [Server -> [Key -> Value]] /\ store_realt' \in [Server -> [Key -> Value]]
       /\ lag' \in [Server -> [Key -> BOOLEAN]]
       /\ \A t \in Server, j \in Key : ~(t = s /\ j = k) =>
            store'[t][j] = store[t][j] /\ store_realt'[t][j] = store_realt[t][j] /\ lag'[t][j] = lag[t][j]
  BY SMTT(40), SMTT(40), SMTT(40), <1>1, <1>10, <1>12, <1>14 DEF TypeOK, Value
<1>17. /\ store'[s][k] = IF ~mp /\ ~e THEN A ELSE store[s][k]
       /\ store_realt'[s][k] = IF mp /\ ~e THEN A ELSE store_realt[s][k]
       /\ lag'[s][k] = IF e THEN lag[s][k] ELSE mp
  BY Zenon, <1>1, <1>12 DEF TypeOK
<1>18. TypeOK'
  <2>1. link' \in [Worker -> [Server -> [Chan -> Link]]]
    BY Zenon, <1>6 DEF ByServer
  <2> QED
    BY Zenon, <1>1, <1>2, <1>13, <1>15, <1>16, <2>1 DEF TypeOK, modeVars
<1>19. MergeInv'
  <2> SUFFICES ASSUME NEW t \in Server, NEW j \in Key
               PROVE  /\ \A x, y \in DOMAIN request'[t][j] : request'[t][j][x] = request'[t][j][y] => x = y
                      /\ Held(t, j)' = {request'[t][j][i] : i \in DOMAIN request'[t][j]}
                      /\ request'[t][j] # <<>> =>
                           conf.sync /\ merged'[t][j] = UNION {link'[v][t][j].grad : v \in Held(t, j)'}
    BY Zenon, <1>2 DEF MergeInv
  <2>1. CASE t = s /\ j = k
    <3>1. request'[s][k] = <<>> /\ DOMAIN << >> = {}
      BY SMTT(40), SMTT(40), SMTT(40), <1>15
    <3> QED
      BY Zenon, <1>6, <2>1, <3>1
  <2>2. CASE ~(t = s /\ j = k)
    <3>1. \A v \in Worker : link'[v][t][j] = link[v][t][j]
      BY Zenon, <1>6, <2>2
    <3>2. Held(t, j)' = Held(t, j)
      BY Zenon, <3>1 DEF Held
    <3>3. {link'[v][t][j].grad : v \in Held(t, j)} = {link[v][t][j].grad : v \in Held(t, j)}
      BY Zenon, <3>1 DEF Held
    <3>4. request'[t][j] = request[t][j] /\ merged'[t][j] = merged[t][j]
      BY Zenon, <1>15, <2>2
    <3>5. /\ \A x, y \in DOMAIN request[t][j] : request[t][j][x] = request[t][j][y] => x = y
          /\ Held(t, j) = {request[t][j][i] : i \in DOMAIN request[t][j]}
          /\ request[t][j] # <<>> =>
               conf.sync /\ merged[t][j] = UNION {link[v][t][j].grad : v \in Held(t, j)}
      BY Zenon DEF IInv, MergeInv
    <3>6. Held(t, j)' = {request'[t][j][i] : i \in DOMAIN request'[t][j]}
      BY Zenon, <3>2, <3>4, <3>5
    <3>7. request'[t][j] # <<>> =>
            conf.sync /\ merged'[t][j] = UNION {link'[v][t][j].grad : v \in Held(t, j)'}
      BY Zenon, <3>2, <3>3, <3>4, <3>5
    <3> QED
      BY Zenon, <3>4, <3>5, <3>6, <3>7
  <2> QED
    BY Zenon, <2>1, <2>2
<1>20. \A t \in Server : has_multi_precision_copy(t)' <=> has_multi_precision_copy(t)
  BY Zenon, <1>2 DEF has_multi_precision_copy, modeVars
<1>21. /\ Stored(s, k)' = IF e THEN Stored(s, k) ELSE A
       /\ \A t \in Server, j \in Key : ~(t = s /\ j = k) => Stored(t, j)' = Stored(t, j)
  <2>1. Stored(s, k)' = IF e THEN Stored(s, k) ELSE A
    BY Zenon, <1>17, <1>20 DEF Stored, mp
  <2> QED
    BY Zenon, <1>16, <1>20, <2>1 DEF Stored
<1>22. StoreInv'
  <2>1. \A t \in Server, j \in Key : Initialised(t, j)' <=> Initialised(t, j)
    BY SMTT(40), SMTT(40), SMTT(40), <1>1, <1>2, <1>4 DEF Initialised
  <2>2. ~(\E v \in Worker : step'[v] < 6)
    <3>1. \A v \in Worker : step[v] \in 1 .. 10
      BY Zenon, <1>1, Places DEF TypeOK
    <3> QED
      BY SMTT(40), SMTT(40), SMTT(40), <1>2, <1>4, <3>1
  <2> SUFFICES ASSUME NEW t \in Server, NEW j \in Key
               PROVE  /\ Initialised(t, j) => store'[t][j] # NoValue /\ Stored(t, j)' # NoValue
                      /\ ~Initialised(t, j) =>
                           store'[t][j] = NoValue /\ store_realt'[t][j] = NoValue /\ ~lag'[t][j]
                      /\ lag'[t][j] => has_multi_precision_copy(t)
                      /\ has_multi_precision_copy(t) /\ ~lag'[t][j] => store'[t][j] = store_realt'[t][j]
    BY Zenon, <1>20, <2>1, <2>2 DEF StoreInv
  <2>3. StoreInv
    BY Zenon DEF IInv
  <2>4. CASE t = s /\ j = k
    <3>1. Initialised(s, k)
      BY Zenon, <1>3, <2>3 DEF StoreInv, Stored
    <3>2. store[s][k] # NoValue
      BY Zenon, <2>3, <3>1 DEF StoreInv
    <3>3. store'[s][k] # NoValue /\ Stored(s, k)' # NoValue
      BY Zenon, <1>3, <1>10, <1>17, <1>21, <3>2
    <3>4. lag'[s][k] => has_multi_precision_copy(s)
      BY Zenon, <1>17, <2>3 DEF StoreInv, mp
    <3>5. has_multi_precision_copy(s) /\ ~lag'[s][k] => store'[s][k] = store_realt'[s][k]
      BY Zenon, <1>17, <2>3 DEF StoreInv, mp
    <3> QED
      BY Zenon, <2>4, <3>1, <3>3, <3>4, <3>5
  <2>5. CASE ~(t = s /\ j = k)
    <3>1. /\ store'[t][j] = store[t][j] /\ store_realt'[t][j] = store_realt[t][j]
          /\ lag'[t][j] = lag[t][j] /\ Stored(t, j)' = Stored(t, j)
      BY Zenon, <1>16, <1>21, <2>5
    <3> QED
      BY Zenon, <2>3, <3>1 DEF StoreInv
  <2> QED
    BY Zenon, <2>4, <2>5
<1>23. \A j \in Key : Shards[j] \subseteq Server
  BY Zenon, KVStoreAssumption
<1>24. conf.sync => RoundOf(s, k)'
  <2> SUFFICES ASSUME conf.sync PROVE RoundOf(s, k)'
    BY Zenon
  <2>1. Held(s, k) \union {w} = Worker
    BY Zenon, <1>7 DEF R
  <2>2. \A v \in Worker : Done(v, s, k)' = PushNumber(v, k)
    BY Zenon, <1>6, <1>7
  <2>3. Stored(s, k)' = IF conf.opt THEN Append(Stored(s, k), Merge(s, k, link[w][s][k].grad))
                        ELSE <<Merge(s, k, link[w][s][k].grad)>>
    BY Zenon, <1>11, <1>21 DEF e, g, gr
  <2> QED
    BY ZenonT(30), <1>2, <1>3, <2>1, <2>2, <2>3, RoundApplied
<1>25. ~conf.sync => AsyncOf(s, k)'
  <2> SUFFICES ASSUME ~conf.sync PROVE AsyncOf(s, k)'
    BY Zenon
  <2>1. R = {w}
    BY Zenon, <1>8
  <2>2. Done(w, s, k)' = PushNumber(w, k) /\ \A v \in Worker \ {w} : Done(v, s, k)' = Done(v, s, k)
    BY Zenon, <1>6, <2>1
  <2>3. conf.opt
    BY Zenon, <1>1, ConfType DEF TypeOK
  <2>4. Stored(s, k)' = IF link[w][s][k].grad = {} THEN Stored(s, k)
                        ELSE Append(Stored(s, k), link[w][s][k].grad)
    BY Zenon, <1>11, <1>21, <2>3 DEF e, g, gr
  <2> QED
    BY Zenon, <1>2, <1>3, <2>2, <2>4, PushApplied
<1>26. RoundInv' /\ AsyncInv'
  <2>1. ASSUME NEW j \in Key, NEW t \in Shards[j], ~(t = s /\ j = k)
        PROVE  (conf.sync => RoundOf(t, j)') /\ (~conf.sync => AsyncOf(t, j)')
    <3>1. t \in Server
      BY Zenon, <1>23
    <3>2. \A v \in Worker : Done(v, t, j)' = Done(v, t, j)
      BY Zenon, <1>6, <2>1, <3>1
    <3>3. Stored(t, j)' = Stored(t, j)
      BY Zenon, <1>21, <2>1, <3>1
    <3> QED
      BY ZenonT(30), <1>2, <3>2, <3>3, RoundFrame
  <2>2. \A j \in Key : \A t \in Shards[j] :
          (conf.sync => RoundOf(t, j)') /\ (~conf.sync => AsyncOf(t, j)')
    BY Zenon, <1>24, <1>25, <2>1
  <2> QED
    BY Zenon, <1>2, <2>2 DEF RoundInv, AsyncInv
<1>27. PullSeesRound'
  <2>1. ASSUME NEW v \in Worker, NEW j \in Key, NEW t \in Shards[j], link'[v][t][j].op = "pull"
        PROVE  link'[v][t][j] = link[v][t][j]
    <3>1. t \in Server
      BY ZenonT(30), <1>23
    <3>2. link[v][t][j].op = "pull"
      BY SMTT(40), SMTT(40), SMTT(40), <1>6, <2>1, <3>1 DEF ByServer
    <3> QED
      BY Zenon, <1>6, <3>1, <3>2
  <2>2. \A v \in Worker, j \in Key : \A t \in Shards[j] :
          /\ PushNumber(v, j)' = PushNumber(v, j)
          /\ Round(t, j, PushNumber(v, j))' = Round(t, j, PushNumber(v, j))
    BY SMTT(40), SMTT(40), <1>2 DEF PushNumber, Round
  <2> QED
    BY Zenon, <1>2, <2>1, <2>2, PullFrame
<1>28. ChecksHold'
  BY Zenon, <1>13 DEF IInv, ChecksHold
<1> QED
  BY Zenon, <1>6, <1>18, <1>19, <1>22, <1>26, <1>27, <1>28, ServerStep DEF IInv

-----------------------------------------------------------------------------
\* Every step keeps the invariant, one case per action.
LEMMA NextInv ==
    ASSUME Counting, IInv, [Next]_vars
    PROVE  IInv'
<1>1. ASSUME NEW w \in Worker, WorkerStep(w)
      PROVE  IInv'
  <2>1. CASE SendCommand(w)
    BY Zenon, <2>1, SendCommandInv
  <2>2. CASE CommandReturns(w)
    BY Zenon, <2>2, CommandReturnsInv
  <2>3. CASE InitReturns(w)
    BY Zenon, <2>3, InitReturnsInv
  <2>4. CASE Skip(w) \/ Barrier(w) \/ TrainingEnds(w)
    BY Zenon, <2>4, GoOnInv
  <2>5. ASSUME NEW k \in Key, InitPush(w, k) \/ Pull(w, k)
        PROVE  IInv'
    BY Zenon, <2>5, CallInv
  <2>6. ASSUME NEW k \in Key, Push(w, k)
        PROVE  IInv'
    BY Zenon, <2>6, PushInv
  <2>7. ASSUME NEW k \in Key, OperationReturns(w, k)
        PROVE  IInv'
    BY Zenon, <2>7, OperationReturnsInv
  <2> QED
    BY Zenon, <1>1, <2>1, <2>2, <2>3, <2>4, <2>5, <2>6, <2>7 DEF WorkerStep
<1>2. ASSUME NEW s \in Server, NEW w \in Worker, Handle(s, w)
      PROVE  IInv'
  <2>1. CASE HandleSyncMode(s, w) \/ HandleController(s, w) \/ HandleStop(s, w)
    BY Zenon, <2>1, HandleCommandInv
  <2>2. CASE HandleSetMultiPrecision(s, w)
    BY Zenon, <2>2, HandleSetMultiPrecisionInv
  <2>3. ASSUME NEW k \in Key, HandleInit(s, w, k)
        PROVE  IInv'
    BY Zenon, <2>3, HandleInitInv
  <2>4. ASSUME NEW k \in Key, HandlePushWaits(s, w, k)
        PROVE  IInv'
    BY Zenon, <2>4, HandlePushWaitsInv
  <2>5. ASSUME NEW k \in Key, HandlePushApplies(s, w, k)
        PROVE  IInv'
    BY Zenon, <2>5, HandlePushAppliesInv
  <2>6. ASSUME NEW k \in Key, HandlePull(s, w, k)
        PROVE  IInv'
    BY Zenon, <2>6, HandlePullInv
  <2> QED
    BY Zenon, <1>2, <2>1, <2>2, <2>3, <2>4, <2>5, <2>6 DEF Handle
<1>3. ASSUME NEW s \in Server, NEW k \in Key, EngineCopies(s, k)
      PROVE  IInv'
  BY Zenon, <1>3, EngineCopiesInv
<1>4. CASE UNCHANGED vars
  <2>1. /\ UNCHANGED <<conf, step, at, rows, modeVars, store, store_realt, lag, failed>>
        /\ UNCHANGED <<link, request, merged>>
    BY Zenon, <1>4 DEF vars, workerVars, modeVars, dataVars
  <2>2. TypeOK
    BY Zenon DEF IInv
  <2>3. ByServer
    BY Zenon, <2>1, <2>2 DEF ByServer, TypeOK
  <2>4. TypeOK' /\ ChecksHold'
    BY Zenon, <2>1 DEF IInv, TypeOK, ChecksHold, modeVars
  <2>5. MergeInv'
    BY Zenon, <2>1, MergeFrame
  <2>6. StoreInv' /\ \A s \in Server, k \in Key : Stored(s, k)' = Stored(s, k)
    <3>1. \A s \in Server, k \in Key : Initialised(s, k)' <=> Initialised(s, k)
      BY Zenon, <2>1 DEF Initialised
    <3> QED
      BY Zenon, <2>1, <3>1, StoreFrame DEF modeVars
  <2>7. \A w \in Worker, s \in Server, k \in Key : Done(w, s, k)' = Done(w, s, k)
    BY SMTT(40), SMTT(40), <2>1 DEF Done, PushNumber
  <2>8. \A k \in Key : Shards[k] \subseteq Server
    BY Zenon, KVStoreAssumption
  <2>9. RoundInv' /\ AsyncInv'
    BY ZenonT(30), <2>1, <2>6, <2>7, <2>8, RoundsFrame
  <2>10. PullSeesRound'
    BY SMTT(40), SMTT(40), SMTT(40), <2>1, PullFrame DEF PushNumber, Round
  <2> QED
    BY Zenon, <2>3, <2>4, <2>5, <2>6, <2>9, <2>10, ServerStep DEF IInv
<1> QED
  BY Zenon, <1>1, <1>2, <1>3, <1>4 DEF Next

\* A push that was issued is one of the bounded number, to a shard that is initialised.
LEMMA IssuedPush ==
    ASSUME IInv, NEW w \in Worker, NEW s \in Server, NEW k \in Key,
           NEW n \in DOMAIN rows[w][k], s \in rows[w][k][n]
    PROVE  n \in 1 .. Rounds /\ s \in Shards[k] /\ Stored(s, k) # NoValue
<1>1. TypeOK /\ Rank0 \in Worker
  BY Zenon, KVStoreAssumption DEF IInv
<1>2. /\ at[w][k] \in Nat /\ Rounds \in Nat /\ at[w][k] <= 2 * Rounds /\ at[w][k] % 2 \in {0, 1}
      /\ PushNumber(w, k) \in Nat \ {0}
  BY Zenon, <1>1, Numbers
<1>3. rows[w][k] \in Seq(SUBSET Server)
  BY SMTT(40), SMTT(40), <1>1 DEF TypeOK
<1>4. n \in 1 .. Issued(w, k)
  <2>1. n \in 1 .. Len(rows[w][k])
    BY SMTT(40), SMTT(40), SMTT(40), <1>3
  <2> QED
    BY Zenon, <2>1 DEF IInv, CountInv
<1>5. s \in Shards[k]
  BY Zenon DEF IInv, CountInv
<1>6. at[w][k] < 2 * Rounds => PushNumber(w, k) <= Rounds
  BY Zenon, <1>2, Parity DEF PushNumber
<1>7. at[w][k] = 2 * Rounds => PushNumber(w, k) = Rounds + 1 /\ at[w][k] % 2 = 0
  BY ZenonT(30), <1>2, Parity DEF PushNumber
<1>8. Issued(w, k) = PushNumber(w, k) => at[w][k] < 2 * Rounds
  <2>1. CASE at[w][k] % 2 = 1
    BY SMTT(40), SMTT(40), <1>2, <1>7, <2>1
  <2>2. CASE step[w] = 7 /\ \E t \in Shards[k] : link[w][t][k].st # "idle"
    <3>1. PICK t \in Shards[k] : link[w][t][k].st # "idle"
      BY Zenon, <2>2
    <3>2. t \in Server
      BY Zenon, KVStoreAssumption
    <3>3. RequestOf(w, t, k)
      BY Zenon, <3>2 DEF IInv, LinkInv
    <3> QED
      BY Zenon, <2>2, <3>1, <3>3 DEF RequestOf
  <2> QED
    BY SMTT(40), SMTT(40), SMTT(40), <1>2, <2>1, <2>2 DEF Issued
<1>9. Issued(w, k) \in {PushNumber(w, k), PushNumber(w, k) - 1}
  BY Zenon DEF Issued
<1>10. Issued(w, k) <= Rounds /\ Issued(w, k) \in Nat
  <2>1. CASE at[w][k] = 2 * Rounds
    BY SMTT(40), SMTT(40), SMTT(40), <1>2, <1>7, <1>8, <1>9, <2>1
  <2>2. CASE at[w][k] < 2 * Rounds
    BY SMTT(40), SMTT(40), SMTT(40), <1>2, <1>6, <1>9, <2>2
  <2> QED
    BY SMTT(40), SMTT(40), SMTT(40), <1>2, <2>1, <2>2
<1>11. step[w] >= 7
  <2>1. step[w] \in 1 .. 10
    BY Zenon, <1>1, Places DEF TypeOK
  <2> SUFFICES ASSUME step[w] < 7 PROVE FALSE
    BY SMTT(40), SMTT(40), SMTT(40), <2>1
  <2>2. at[w][k] = 0
    BY Zenon DEF IInv, CountInv
  <2>3. at[w][k] % 2 = 0 /\ PushNumber(w, k) = 1
    BY SMTT(40), SMTT(40), SMTT(40), <2>2, Parity DEF PushNumber
  <2>4. Issued(w, k) = 0
    BY SMTT(40), SMTT(40), SMTT(40), <2>1, <2>3 DEF Issued
  <2> QED
    BY SMTT(40), SMTT(40), <1>4, <2>4
<1>12. step[Rank0] > 5
  <2>1. step[w] \in 1 .. 10 /\ step[Rank0] \in 1 .. 10
    BY Zenon, <1>1, Places DEF TypeOK
  <2>2. step[w] > 6 => step[Rank0] >= 6
    BY Zenon, <1>1 DEF IInv, BarrierInv
  <2> QED
    BY SMTT(40), SMTT(40), SMTT(40), <1>11, <2>1, <2>2
<1>13. Stored(s, k) # NoValue
  BY Zenon, <1>5, <1>12 DEF IInv, StoreInv, Initialised
<1> QED
  BY SMTT(40), SMTT(40), SMTT(40), <1>2, <1>4, <1>5, <1>10, <1>13

\* The invariant gives it: a round, or the pushes of dist_async, hold each gradient once.
LEMMA AppliedInv ==
    ASSUME Counting, IInv PROVE AnsweredIsApplied
<1> SUFFICES ASSUME conf.opt, NEW s \in Server, NEW k \in Key, NEW w \in Worker,
                    NEW n \in DOMAIN rows[w][k], s \in rows[w][k][n]
             PROVE  LET H == {i \in DOMAIN Stored(s, k) : <<w, n>> \in Stored(s, k)[i]}
                    IN  Cardinality(H) <= 1 /\ (n <= Done(w, s, k) => H # {})
  BY Zenon DEF AnsweredIsApplied
<1> DEFINE V == Stored(s, k)
           H == {i \in DOMAIN V : <<w, n>> \in V[i]}
<1>1. n \in 1 .. Rounds /\ s \in Shards[k] /\ V # NoValue
  BY Zenon, IssuedPush
<1>2. TypeOK /\ Rank0 \in Worker
  BY Zenon, KVStoreAssumption DEF IInv
<1>3. V \in Seq(Grads)
  BY SMTT(40), SMTT(40), <1>1, <1>2 DEF TypeOK, Stored, Value
<1>4. Done(w, s, k) \in Nat /\ Rounds \in Nat
  BY Zenon, <1>2, Numbers
<1>5. /\ \A i, j \in H : i = j
      /\ n <= Done(w, s, k) => \E i \in DOMAIN V : <<w, n>> \in V[i]
  <2>1. CASE conf.sync
    <3>1. RoundOf(s, k)
      BY Zenon, <1>1, <2>1 DEF IInv, RoundInv
    <3>2. Len(V) = Done(w, s, k) /\ \A i \in DOMAIN V : V[i] = Round(s, k, i)
      BY Zenon, <1>1, <1>2, <3>1 DEF RoundOf
    <3>3. ASSUME NEW i \in DOMAIN V, <<w, n>> \in V[i]
          PROVE  i = n
      <4>1. <<w, n>> \in Round(s, k, i)
        BY Zenon, <3>2, <3>3
      <4>2. PICK v \in Worker : <<w, n>> = <<v, i>>
        BY <4>1, Zenon DEF Round
      <4> QED
        BY Zenon, <4>2
    <3>4. ASSUME n <= Done(w, s, k)
          PROVE  n \in DOMAIN V /\ <<w, n>> \in V[n]
      <4>1. n \in DOMAIN V
        BY SMTT(40), SMTT(40), SMTT(40), <1>1, <1>3, <1>4, <3>2, <3>4
      <4>2. <<w, n>> \in Round(s, k, n)
        BY Zenon DEF Round
      <4> QED
        BY Zenon, <3>2, <4>1, <4>2
    <3> QED
      BY Zenon, <3>3, <3>4
  <2>2. CASE ~conf.sync
    <3>1. AsyncOf(s, k)
      BY Zenon, <1>1, <2>2 DEF IInv, AsyncInv
    <3>2. \A i \in DOMAIN V : <<w, n>> \in V[i] =>
            \A j \in DOMAIN V : <<w, n>> \in V[j] => j = i
      BY Zenon, <1>1, <3>1 DEF AsyncOf
    <3>3. n <= Done(w, s, k) => \E i \in DOMAIN V : <<w, n>> \in V[i]
      BY Zenon, <1>1, <3>1 DEF AsyncOf
    <3> QED
      BY Zenon, <3>2, <3>3
  <2> QED
    BY Zenon, <2>1, <2>2
<1> HIDE DEF V
<1>6. Cardinality(H) <= 1
  <2> HIDE DEF H
  <2>1. CASE H = {}
    BY SMTT(40), SMTT(40), SMTT(40), <2>1 DEF Counting, CountNone
  <2>2. CASE H # {}
    <3>1. PICK i : i \in H
      BY Zenon, <2>2
    <3>2. H = {i}
      BY Zenon, <1>5, <3>1
    <3>3. Cardinality({i}) = 1
      BY Zenon DEF Counting, CountOne
    <3> QED
      BY SMTT(40), SMTT(40), SMTT(40), <3>2, <3>3
  <2> QED
    BY Zenon, <2>1, <2>2
<1> QED
  BY Zenon, <1>5, <1>6 DEF V

-----------------------------------------------------------------------------
LOCAL INSTANCE FiniteSetTheorems

(* The facts about cardinalities hold. *)
LEMMA Counted == Counting
<1>1. \A S : (IsFiniteSet(S) <=> Listed(S)) /\ Cardinality(S) = CountOf(S)
  BY Zenon DEF IsFiniteSet, Cardinality, Listed, CountOf
<1>2. CountNone
  BY Zenon, <1>1, FS_EmptySet, Cardinals DEF CountNone
<1>3. CountOne
  <2>1. \A x : IsFiniteSet({x}) /\ Cardinality({x}) = 1
    BY Zenon, FS_Singleton
  <2> QED
    BY Zenon, <1>1, <2>1, Cardinals DEF CountOne
<1>4. ListsAll
  <2> SUFFICES ASSUME NEW T, NEW q \in Seq(T), IsFiniteSet(T), Len(q) = Cardinality(T),
                      \A i, j \in 1 .. Len(q) : q[i] = q[j] => i = j
               PROVE  \A v \in T : \E i \in 1 .. Len(q) : q[i] = v
    BY Zenon, <1>1, Cardinals DEF ListsAll
  <2>1. q \in [1 .. Len(q) -> T] /\ DOMAIN q = 1 .. Len(q) /\ Len(q) \in Nat
    BY SMTT(40)
  <2>2. q \in Injection(1 .. Len(q), T)
    BY Zenon, <2>1 DEF Injection, IsInjective
  <2>3. Cardinality(1 .. Len(q)) = Len(q)
    BY SMTT(40), SMTT(40), SMTT(40), <2>1, FS_Interval
  <2>4. q \in Surjection(1 .. Len(q), T)
    BY Zenon, <2>2, <2>3, FS_Injection
  <2> QED
    BY Zenon, <2>4 DEF Surjection
<1> QED
  BY Zenon, <1>2, <1>3, <1>4 DEF Counting

\* The invariant holds for any number of workers, servers, keys and rounds, and
\* any way to spread keys over servers: no CHECK of the server fails, and a pull
\* returns exactly the rounds that its worker has pushed.
THEOREM Invariance == Spec => []IInv
<1>1. IInv /\ [Next]_vars => IInv'
  BY Zenon, Counted, NextInv
<1> QED
  BY <1>1, InitInv, PTL DEF Spec

\* No CHECK in the server's handlers fails.
THEOREM ChecksNeverFail == Spec => []ChecksHold
<1>1. IInv => ChecksHold
  BY Zenon DEF IInv
<1> QED
  BY <1>1, Invariance, PTL

\* A pull of dist_sync sees exactly the rounds its worker has pushed.
THEOREM PullsSeeRounds == Spec => []PullSeesRound
<1>1. IInv => PullSeesRound
  BY Zenon DEF IInv
<1> QED
  BY <1>1, Invariance, PTL

\* The i-th update of dist_sync merges the i-th push of every worker.
THEOREM RoundsAreExact == Spec => []RoundsExact
<1>1. ASSUME IInv PROVE RoundsExact
  <2> SUFFICES ASSUME conf.sync, conf.opt, NEW s \in Server, NEW k \in Key,
                      Stored(s, k) # NoValue
               PROVE  \A i \in DOMAIN Stored(s, k) : Stored(s, k)[i] = Round(s, k, i)
    BY Zenon DEF RoundsExact
  <2>1. Initialised(s, k)
    BY Zenon, <1>1 DEF IInv, StoreInv, Stored
  <2>2. RoundOf(s, k)
    BY Zenon, <1>1, <2>1 DEF IInv, RoundInv, Initialised
  <2> QED
    BY Zenon, <2>2 DEF RoundOf
<1> QED
  BY <1>1, Invariance, PTL

\* A server stops when it has nothing to serve.
THEOREM StopComesLast == Spec => []StopsLast
<1>1. ASSUME IInv PROVE StopsLast
  <2> SUFFICES ASSUME NEW s \in Server, ~exec[s], NEW k \in Key
               PROVE  request[s][k] = <<>> /\ \A w \in Worker : link[w][s][k].st = "idle"
    BY Zenon DEF StopsLast
  <2>1. Rank0 \in Worker /\ \A w \in Worker : step[w] \in 1 .. 10
    BY Zenon, <1>1, KVStoreAssumption, Places DEF IInv, TypeOK
  <2>2. step[Rank0] > 8
    <3>1. step[Rank0] >= 9
      BY Zenon, <1>1 DEF IInv, ModeInv
    <3> QED
      BY SMTT(40), SMTT(40), SMTT(40), <2>1, <3>1
  <2>3. \A w \in Worker : step[w] \notin {5, 7}
    <3>1. \A w \in Worker : step[w] >= 8
      BY Zenon, <1>1, <2>1, <2>2 DEF IInv, BarrierInv
    <3> QED
      BY SMTT(40), SMTT(40), SMTT(40), <2>1, <3>1
  <2>4. \A w \in Worker : link[w][s][k].st = "idle"
    BY Zenon, <1>1, <2>3, Channels
  <2>5. Held(s, k) = {}
    BY Zenon, <2>4 DEF Held
  <2> QED
    BY Zenon, <1>1, <2>4, <2>5, EmptyRound
<1> QED
  BY <1>1, Invariance, PTL

\* No optimizer is replaced after it has applied an update.
THEOREM OptimizersAreKept == Spec => OptimizerKept
<1> DEFINE Keeps ==
      \A s \in Server, w \in Worker :
        Has(w, s, Cmd, "kController") /\ link'[w][s][Cmd].st = "resp" =>
          \A k \in Key : Stored(s, k) = NoValue \/ Stored(s, k) = <<>>
<1>1. ASSUME IInv PROVE Keeps
  <2> SUFFICES ASSUME NEW s \in Server, NEW w \in Worker, Has(w, s, Cmd, "kController"),
                      NEW k \in Key
               PROVE  Stored(s, k) = NoValue \/ Stored(s, k) = <<>>
    BY Zenon
  <2>1. Call(w) = "kController"
    BY Zenon, <1>1 DEF IInv, CommandInv, Has
  <2>2. step[w] = 3
    BY ZenonT(30), <1>1, <2>1, Places DEF IInv, TypeOK
  <2>3. \E v \in Worker : step[v] < 6
    BY SMTT(40), SMTT(40), SMTT(40), <2>2
  <2> QED
    BY Zenon, <1>1, <2>3 DEF IInv, StoreInv
<1>2. IInv /\ [Next]_vars => [Keeps]_vars
  BY Zenon, <1>1
<1> QED
  BY <1>2, Invariance, PTL DEF Spec, OptimizerKept

\* Every gradient is applied once, and before the push is answered.
THEOREM AnsweredPushesAreApplied == Spec => []AnsweredIsApplied
<1>1. IInv => AnsweredIsApplied
  BY Zenon, Counted, AppliedInv
<1> QED
  BY <1>1, Invariance, PTL
=============================================================================
