------------------------ MODULE ThreadedEngineProofs ------------------------
(***************************************************************************)
(* Proofs about ThreadedEngine, for any number of variables, pushes,       *)
(* operators and client threads: pushing an operator and completing one    *)
(* preserve the inductive invariant, and the theorems that rest on it.     *)
(***************************************************************************)
EXTENDS ThreadedEngine, TLAPS

(***************************************************************************)
(* What the proofs know about cardinalities.  FiniteSetTheorems proves it  *)
(* (Counted, below); the lemmas assume it, so that the provers meet those  *)
(* theorems only where they are needed.                                    *)
(***************************************************************************)
CountType == \A S : IsFiniteSet(S) => Cardinality(S) \in Nat

CountNone ==
    /\ IsFiniteSet({}) /\ Cardinality({}) = 0
    /\ \A S : IsFiniteSet(S) => (Cardinality(S) = 0 <=> S = {})

CountAdd ==
    \A S, x : IsFiniteSet(S) =>
       /\ IsFiniteSet(S \cup {x})
       /\ Cardinality(S \cup {x}) = IF x \in S THEN Cardinality(S) ELSE Cardinality(S) + 1

CountRemove ==
    \A S, x : IsFiniteSet(S) =>
       /\ IsFiniteSet(S \ {x})
       /\ Cardinality(S \ {x}) = IF x \in S THEN Cardinality(S) - 1 ELSE Cardinality(S)

CountUnion ==
    \A S, T : IsFiniteSet(S) /\ IsFiniteSet(T) =>
       /\ IsFiniteSet(S \cup T)
       /\ Cardinality(S \cup T) = Cardinality(S) + Cardinality(T) - Cardinality(S \cap T)

OneToOne(f, m, n) == m <= n + 1 /\ \A i, j \in m .. n : f[i] = f[j] => i = j
Image(f, m, n) == {f[i] : i \in m .. n}

CountImage ==
    \A f : \A m, n \in Nat : OneToOne(f, m, n) =>
       IsFiniteSet(Image(f, m, n)) /\ Cardinality(Image(f, m, n)) = n - m + 1

(* The definitions in FiniteSets. *)
Listed(S) == \E seq \in Seq(S) : \A s \in S : \E n \in 1 .. Len(seq) : seq[n] = s
CountOf(S) ==
    LET CS[T \in SUBSET S] == IF T = {} THEN 0 ELSE 1 + CS[T \ {CHOOSE x : x \in T}]
    IN  CS[S]

(* Finite sets and cardinalities are the ones of FiniteSets. *)
LEMMA Cardinals == \A S : (IsFiniteSet(S) <=> Listed(S)) /\ Cardinality(S) = CountOf(S)
  BY Zenon DEF IsFiniteSet, Cardinality, Listed, CountOf

Counting == CountType /\ CountNone /\ CountAdd /\ CountRemove /\ CountUnion /\ CountImage

(***************************************************************************)
(* Facts about sequences and operators.                                    *)
(***************************************************************************)
Entries == [blk : Blk, write : BOOLEAN]

(* A queue is empty exactly when its length is zero. *)
LEMMA EmptyQueue == \A s \in Seq(Entries) : s = <<>> <=> Len(s) = 0
  BY DEF Entries

(* An empty list has no places, and its length is not positive. *)
LEMMA EmptyRange == 1 .. 0 = {} /\ 2 .. 0 + 1 = {} /\ ~(0 > 0)
  OBVIOUS

(* The head of a list, and the places behind it. *)
LEMMA HeadRange ==
    \A n \in Nat : /\ \A i \in 1 .. n : 1 \in 1 .. n /\ ~(i < 1)
                   /\ \A i \in 2 .. n : i \in 1 .. n /\ 1 \in 1 .. n /\ i # 1
                   /\ n > 1 => /\ 2 \in 2 .. n /\ 2 \in 1 .. n /\ 0 + 2 <= n
                              /\ 1 \in 1 .. n - (0 + 1)
                   /\ 1 + 0 + 1 = 2 /\ 0 + 2 = 2
  OBVIOUS

(* The last place of a list to which an entry was appended. *)
LEMMA LastRange ==
    \A n \in Nat : /\ \A i \in 1 .. n + 1 : i \in 1 .. n \/ i = n + 1
                   /\ \A i \in 1 .. n : i \in 1 .. n + 1 /\ i < n + 1 /\ n > 0
                   /\ n + 1 \in 1 .. n + 1 /\ n + 1 > 0
                   /\ n > 0 => 1 \in 1 .. n
                   /\ n = 0 \/ n > 0
                   /\ 0 + 1 = 1
  OBVIOUS

(* The places of the k reads behind the head, and of the next write. *)
LEMMA ChainRange ==
    \A n \in Nat : \A k \in 0 .. n - 1 :
       /\ k \in Nat /\ k < n
       /\ \A i \in 2 .. k + 1 : i \in 2 .. n
       /\ k + 2 <= n => k + 2 \in 2 .. n
  OBVIOUS

(* A place in what is left of the list is not one of these reads'. *)
LEMMA RestRange ==
    ASSUME NEW n \in Nat, NEW k \in Nat, NEW i \in 1 .. n - (k + 1), NEW j \in 2 .. k + 1
    PROVE  j # i + k + 1
  OBVIOUS

(* Adding and taking away one; the mark of a triggered write is no count. *)
LEMMA CountFacts ==
    /\ \A c \in Nat : c + 1 \in Nat /\ (c > 0 /\ c # 1 => c - 1 > 0)
    /\ kWriteTriggered \notin Nat
  BY DEF kWriteTriggered

(* What AppendReadDependency and AppendWriteDependency do to the list. *)
LEMMA AppendEntry ==
    ASSUME NEW s \in Seq(Entries), NEW e \in Entries
    PROVE  /\ Append(s, e) \in Seq(Entries)
           /\ Len(Append(s, e)) = Len(s) + 1
           /\ \A i \in 1 .. Len(s) : Append(s, e)[i] = s[i]
           /\ Append(s, e)[Len(s) + 1] = e
  OBVIOUS

(* What CompleteWriteDependency leaves of the list. *)
LEMMA RestEntries ==
    ASSUME NEW s \in Seq(Entries), NEW k \in 0 .. Len(s) - 1
    PROVE  /\ Rest(s, k) \in Seq(Entries)
           /\ Len(Rest(s, k)) = Len(s) - (k + 1)
           /\ \A i \in 1 .. Len(s) - (k + 1) : Rest(s, k)[i] = s[i + k + 1]
  BY DEF Rest

(* The entries of a queue. *)
LEMMA QueueType ==
    ASSUME TypeOK, NEW v \in Var
    PROVE  /\ queue[v] \in Seq(Entries) /\ Len(queue[v]) \in Nat
           /\ \A i \in 1 .. Len(queue[v]) :
                 /\ queue[v][i] \in Entries
                 /\ queue[v][i].blk \in Blk /\ queue[v][i].write \in BOOLEAN
  <1>1. queue[v] \in Seq(Entries)
    BY Zenon DEF TypeOK, Entries
  <1>2. \A i \in 1 .. Len(queue[v]) : queue[v][i] \in Entries
    BY <1>1
  <1> QED
    BY <1>1, <1>2 DEF Entries

(* The blocks of a chain of reads are as many as its entries. *)
LEMMA ChainBlocks ==
    ASSUME Counting, NEW s \in Seq(Entries), NEW k \in Nat, k < Len(s),
           \A i, j \in 1 .. Len(s) : s[i].blk = s[j].blk => i = j
    PROVE  /\ IsFiniteSet({s[i].blk : i \in 2 .. k + 1})
           /\ Cardinality({s[i].blk : i \in 2 .. k + 1}) = k
  <1> DEFINE f == [i \in 2 .. k + 1 |-> s[i].blk]
  <1>1. OneToOne(f, 2, k + 1)
    BY DEF OneToOne
  <1>2. {s[i].blk : i \in 2 .. k + 1} = Image(f, 2, k + 1)
    BY DEF Image
  <1>3. 2 \in Nat /\ k + 1 \in Nat /\ (k + 1) - 2 + 1 = k
    OBVIOUS
  <1> HIDE DEF f
  <1>4. IsFiniteSet(Image(f, 2, k + 1)) /\ Cardinality(Image(f, 2, k + 1)) = (k + 1) - 2 + 1
    BY Zenon, <1>1, <1>3 DEF Counting, CountImage
  <1> QED
    BY Zenon, <1>2, <1>3, <1>4

(* A pushed block has an operator, whose variables are finitely many. *)
LEMMA DepsFacts ==
    ASSUME Counting, TypeOK, NEW b \in Pushed
    PROVE  /\ opr[b] \in Opr
           /\ CV(b) \subseteq Var /\ MV(b) \subseteq Var /\ Deps(b) \subseteq Var
           /\ CV(b) \cap MV(b) = {}
           /\ IsFiniteSet(CV(b)) /\ IsFiniteSet(MV(b)) /\ IsFiniteSet(Deps(b))
  <1>1. opr[b] \in Opr
    BY Zenon DEF TypeOK
  <1>2. /\ CV(b) \subseteq Var /\ MV(b) \subseteq Var /\ CV(b) \cap MV(b) = {}
        /\ IsFiniteSet(CV(b)) /\ IsFiniteSet(MV(b))
    BY Zenon, <1>1, OprAssumption DEF CV, MV
  <1> QED
    BY Zenon, <1>1, <1>2 DEF Counting, CountUnion, Deps

(***************************************************************************)
(* Frame lemmas: a step that does not touch u keeps the invariants of u.   *)
(***************************************************************************)
Keeps(u) ==
    /\ queue'[u] = queue[u]
    /\ num_pending_reads'[u] = num_pending_reads[u]
    /\ alive'[u] = alive[u]
    /\ \A x \in Blk :
          /\ phase[x] # "new" => phase'[x] # "new" /\ opr'[x] = opr[x]
          /\ OnVar(x, u)' <=> OnVar(x, u)
          /\ u \in granted'[x] <=> u \in granted[x]
          /\ prior'[x][u] = prior[x][u]
          /\ Arrived(x, u) => Arrived(x, u)'

(* A step that keeps what concerns u keeps the invariants of its queue. *)
LEMMA VarFrame ==
    ASSUME IInv, TypeOK', NEW u \in Var, Keeps(u)
    PROVE  QueueInv(u)' /\ CountInv(u)' /\ OrderInv(u)'
<1> USE DEF Keeps
<1>1. \A x \in Blk : u \in granted[x] \/ OnVar(x, u) \/ Arrived(x, u) => x \in Pushed
  BY Zenon DEF IInv, BlockInv, OnVar, Arrived, Pushed
<1>2. \A x \in Pushed : x \in Pushed' /\ CV(x)' = CV(x) /\ MV(x)' = MV(x) /\ x \in Blk
  <2>1. \A x \in Blk : phase[x] # "new" => phase'[x] # "new" /\ opr'[x] = opr[x]
    BY Zenon
  <2> HIDE DEF Keeps
  <2> QED
    BY Zenon, <2>1 DEF Pushed, CV, MV
<1>3. \A i \in 1 .. Len(queue[u]) : queue[u][i].blk \in Blk /\ OnVar(queue[u][i].blk, u)
  BY Zenon, QueueType DEF IInv, QueueInv
<1>4. QueueInv(u)'
  BY SMTT(40), SMTT(40), <1>1, <1>2, <1>3 DEF IInv, QueueInv
<1>5. Readers(u)' = Readers(u)
  BY Zenon, <1>1, <1>2 DEF Readers, Pushed
<1>6. CountInv(u)'
  BY Zenon, <1>5 DEF IInv, CountInv
<1>7. OrderInv(u)'
  BY SMTT(40), SMTT(40), <1>1, <1>2, <1>3 DEF IInv, OrderInv, Conflict
<1> QED
  BY Zenon, <1>4, <1>6, <1>7

KeepsDelete(u) ==
    /\ queue'[u] = queue[u]
    /\ alive'[u] = alive[u]
    /\ to_delete'[u] = to_delete[u]
    /\ \A x \in Blk :
          /\ phase[x] = "new" <=> phase'[x] = "new"
          /\ opr'[x] = opr[x]
          /\ phase'[x] = "pushing" /\ u \in todo'[x] =>
                phase[x] = "pushing" /\ u \in todo[x]
          /\ OnVar(x, u)' => OnVar(x, u)
          /\ IsDelete(x) /\ InUse(x, u) => InUse(x, u)'

(* A step that keeps what concerns u keeps the promise about its deletion. *)
LEMMA DeleteFrame ==
    ASSUME IInv, NEW u \in Var, KeepsDelete(u)
    PROVE  DeleteInv(u)'
<1>1. Pushed' = Pushed /\ \A x \in Pushed : x \in Blk
  BY Zenon DEF KeepsDelete, Pushed
<1>2. \A x \in Blk : MV(x)' = MV(x) /\ IsDelete(x)' = IsDelete(x)
  BY Zenon DEF KeepsDelete, MV, IsDelete
<1> QED
  BY <1>1, <1>2 DEF IInv, KeepsDelete, DeleteInv, Condemned

(***************************************************************************)
(* Each action preserves the inductive invariant.                          *)
(***************************************************************************)

(* Push allocates a block that has reached no variable yet. *)
LEMMA PushInv ==
    ASSUME Counting, IInv, NEW t \in Thread, NEW b \in Blk, NEW o \in Opr, Push(t, b, o)
    PROVE  IInv'
<1> DEFINE uses == o.const_vars \cup o.mutable_vars
<1>0. TypeOK /\ BlockInv(b) /\ WaitInv(b)
  BY Zenon DEF IInv
<1>1. /\ phase[b] = "new" /\ phase'[b] = "pushing"
      /\ opr'[b] = o /\ todo'[b] = uses /\ wait'[b] = InitialWait(o)
      /\ \A d \in Blk : d # b => /\ phase'[d] = phase[d] /\ todo'[d] = todo[d]
                                 /\ opr'[d] = opr[d] /\ wait'[d] = wait[d]
      /\ granted[b] = {}
  BY Zenon, <1>0 DEF TypeOK, Push, BlockInv
<1>2. /\ uses \subseteq Var /\ IsFiniteSet(uses) /\ InitialWait(o) \in Int
      /\ InitialWait(o) = Cardinality(uses) + 1
  <2>1. /\ o.const_vars \subseteq Var /\ IsFiniteSet(o.const_vars)
        /\ o.mutable_vars \subseteq Var /\ IsFiniteSet(o.mutable_vars)
        /\ o.const_vars \cap o.mutable_vars = {}
    BY Zenon, OprAssumption
  <2>2. Cardinality(o.const_vars) \in Nat /\ Cardinality(o.mutable_vars) \in Nat
    BY Zenon, <2>1 DEF Counting, CountType
  <2>3. /\ IsFiniteSet(uses)
        /\ Cardinality(uses) = Cardinality(o.const_vars) + Cardinality(o.mutable_vars)
                                  - Cardinality({})
    BY Zenon, <2>1 DEF Counting, CountUnion
  <2> QED
    BY <2>1, <2>2, <2>3 DEF Counting, CountNone, InitialWait
<1>3. TypeOK'
  <2>1. /\ phase' \in [Blk -> Phase] /\ wait' \in [Blk -> Int]
        /\ todo' \in [Blk -> SUBSET Var]
    BY Zenon, <1>0, <1>2 DEF TypeOK, Push, Phase
  <2>2. /\ opr' \in [Blk -> Opr \cup {None}] /\ pusher' \in [Thread -> Blk \cup {None}]
        /\ pending' \in Int
    BY <1>0 DEF TypeOK, Push
  <2>3. \A d \in Pushed' : opr'[d] \in Opr
    BY Zenon, <1>0, <1>1 DEF TypeOK, Pushed
  <2> QED
    BY Zenon, <1>0, <2>1, <2>2, <2>3 DEF TypeOK, Push, varState, history
<1>4. /\ Deps(b)' = uses /\ CV(b)' = o.const_vars /\ MV(b)' = o.mutable_vars
      /\ \A d \in Blk : d # b => /\ Deps(d)' = Deps(d) /\ CV(d)' = CV(d) /\ MV(d)' = MV(d)
                                 /\ Need(d)' = Need(d) /\ IsDelete(d)' = IsDelete(d)
  BY Zenon, <1>1 DEF Push, Deps, CV, MV, Need, Owed, IsDelete, history
<1>5. Need(b)' = uses
  BY Zenon, <1>1, <1>2, <1>4 DEF Need, Push, history
<1>6. \A d \in Blk : WaitInv(d)' /\ BlockInv(d)'
  <2>1. WaitInv(b)'
    BY Zenon, <1>1, <1>2, <1>5 DEF WaitInv
  <2>2. BlockInv(b)'
    BY Zenon, <1>1, <1>4 DEF BlockInv, Push, history
  <2>3. ASSUME NEW d \in Blk, d # b PROVE WaitInv(d)' /\ BlockInv(d)'
    BY <1>1, <1>4, <2>3 DEF IInv, WaitInv, BlockInv, Push, history
  <2> QED
    BY Zenon, <2>1, <2>2, <2>3
<1>7. \A d, e \in Blk, u \in Var : TrigInv(d, e, u)'
  BY ZenonT(30), <1>1 DEF IInv, TrigInv, Push, history
<1>8. \A d \in Blk, u \in Var : /\ OnVar(d, u)' <=> OnVar(d, u)
                                /\ Arrived(d, u) <=> Arrived(d, u)'
                                /\ InUse(d, u) => InUse(d, u)'
  BY <1>1, <1>4 DEF OnVar, Arrived, InUse, Pushed
<1>9. \A u \in Var : Keeps(u)
  BY Zenon, <1>1, <1>8 DEF Keeps, Push, varState, history
<1>10. \A u \in Var : DeleteInv(u)'
  <2> SUFFICES ASSUME NEW u \in Var PROVE DeleteInv(u)'
    BY Zenon
  <2>0. DeleteInv(u) /\ QueueInv(u) /\ queue' = queue /\ alive' = alive /\ to_delete' = to_delete
    BY Zenon DEF IInv, Push, varState
  <2>1. Pushed' = Pushed \cup {b} /\ b \notin Pushed /\ Pushed \subseteq Blk
    BY Zenon, <1>1 DEF Pushed
  <2>2. u \in uses => ~Condemned(u)
    BY Zenon DEF Push
  <2>3. \A d \in Pushed' : IsDelete(d)' /\ u \in MV(d)' =>
           /\ \A c \in Pushed' : phase'[c] = "pushing" /\ u \in todo'[c] => c = d
           /\ \A i \in 1 .. Len(queue'[u]) : queue'[u][i].blk = d => i = Len(queue'[u])
    <3> SUFFICES ASSUME NEW d \in Pushed', IsDelete(d)', u \in MV(d)'
                 PROVE  /\ \A c \in Pushed' : phase'[c] = "pushing" /\ u \in todo'[c] => c = d
                        /\ \A i \in 1 .. Len(queue'[u]) : queue'[u][i].blk = d => i = Len(queue'[u])
      BY Zenon
    <3>1. CASE d = b
      <4>1. \A i \in 1 .. Len(queue[u]) : queue[u][i].blk # b
        BY SMTT(40), SMTT(40), <2>0, <2>1 DEF QueueInv, OnVar
      <4>2. \A c \in Blk : phase[c] = "pushing" => u \notin Deps(c)
        BY <1>1, <1>4, <3>1 DEF Push, IsDelete
      <4>3. \A c \in Blk : phase[c] = "pushing" => u \notin todo[c]
        BY Zenon, <4>2 DEF IInv, BlockInv
      <4> QED
        BY Zenon, <1>1, <2>0, <2>1, <3>1, <4>1, <4>3
    <3>2. CASE d # b
      <4>1. d \in Pushed /\ IsDelete(d) /\ u \in MV(d)
        BY Zenon, <1>4, <2>1, <3>2
      <4>2. Condemned(u) /\ u \notin todo'[b]
        BY Zenon, <1>1, <2>2, <4>1 DEF Condemned
      <4> QED
        BY Zenon, <1>1, <2>0, <2>1, <4>1, <4>2 DEF DeleteInv
    <3> QED
      BY Zenon, <3>1, <3>2
  <2>4. to_delete[u] /\ alive[u] =>
           \E d \in Pushed' : IsDelete(d)' /\ u \in MV(d)' /\ InUse(d, u)'
    BY Zenon, <1>4, <1>8, <2>0, <2>1 DEF DeleteInv
  <2>5. ~alive[u] => Condemned(u) /\ Condemned(u)'
    BY Zenon, <1>4, <2>0, <2>1 DEF DeleteInv, Condemned
  <2>6. ~alive[u] => u \notin todo'[b]
    BY Zenon, <1>1, <2>2, <2>5
  <2>7. ~alive[u] => \A d \in Pushed' : ~OnVar(d, u)' /\ ~(phase'[d] = "pushing" /\ u \in todo'[d])
    BY SMTT(40), <1>1, <1>8, <2>0, <2>1, <2>6 DEF DeleteInv, OnVar
  <2> QED
    BY Zenon, <2>0, <2>3, <2>4, <2>5, <2>7 DEF DeleteInv
<1>11. PendingInv'
  <2>1. Active' = Active \cup {b} /\ b \notin Active
    BY ZenonT(30), <1>1 DEF Active
  <2> QED
    BY Zenon, <2>1 DEF Counting, CountAdd, CountType, IInv, PendingInv, Push
<1> QED
  BY Zenon, <1>3, <1>6, <1>7, <1>9, <1>10, <1>11, VarFrame DEF IInv

(* A block still to be appended to v: it is not on v, v is alive, and only *)
(* the block itself may be a deletion of v.                                *)
LEMMA PushingFacts ==
    ASSUME IInv, NEW b \in Blk, NEW v \in Var, phase[b] = "pushing", v \in todo[b]
    PROVE  /\ b \in Pushed /\ ~OnVar(b, v) /\ ~Arrived(b, v) /\ v \notin granted[b]
           /\ alive[v] /\ v \in Deps(b) /\ v \in Need(b)
           /\ \A d \in Pushed : IsDelete(d) /\ v \in MV(d) => d = b
           /\ \A i \in 1 .. Len(queue[v]) : queue[v][i].blk # b
           /\ \A d \in Blk : b \notin prior[d][v]
           /\ ~to_delete[v]
<1>1. BlockInv(b) /\ DeleteInv(v) /\ QueueInv(v) /\ OrderInv(v) /\ TypeOK
  BY Zenon DEF IInv
<1>2. b \in Pushed /\ ~OnVar(b, v) /\ ~Arrived(b, v) /\ v \notin granted[b] /\ v \in Deps(b)
  BY Zenon, <1>1 DEF Pushed, OnVar, Arrived, BlockInv
<1>3. alive[v] /\ \A d \in Pushed : IsDelete(d) /\ v \in MV(d) => d = b
  BY Zenon, <1>1, <1>2 DEF DeleteInv, TypeOK
<1>4. ~to_delete[v]
  <2>1. ~InUse(b, v)
    BY Zenon DEF InUse
  <2> QED
    BY Zenon, <1>1, <1>3, <2>1 DEF DeleteInv
<1> QED
  BY <1>1, <1>2, <1>3, <1>4 DEF QueueInv, OrderInv, Need

(* What both loops of Push do for a variable v of the block b: the block    *)
(* reaches v, and takes one off its wait counter when v lets it through,    *)
(* which is when v is in S.                                                 *)
Arrives(b, v, S) ==
    /\ phase[b] = "pushing" /\ v \in todo[b]
    /\ phase' = phase /\ opr' = opr /\ trig' = trig /\ pending' = pending
    /\ alive' = alive /\ to_delete' = to_delete /\ version' = version /\ pusher' = pusher
    /\ todo' = [todo EXCEPT ![b] = @ \ {v}]
    /\ wait' = IF v \in S THEN [wait EXCEPT ![b] = @ - 1] ELSE wait
    /\ Arrive(b, v, v \in S)
    /\ \A u \in Var : u # v => /\ queue'[u] = queue[u]
                               /\ num_pending_reads'[u] = num_pending_reads[u]

(* Reaching v concerns no other variable and keeps every block in order. *)
LEMMA Arriving ==
    ASSUME Counting, IInv, NEW b \in Blk, NEW v \in Var, NEW S \in SUBSET Var, Arrives(b, v, S)
    PROVE  /\ todo' \in [Blk -> SUBSET Var] /\ granted' \in [Blk -> SUBSET Var]
           /\ wait' \in [Blk -> Int] /\ prior' \in [Blk -> [Var -> SUBSET Blk]]
           /\ Pushed' = Pushed
           /\ \A d \in Blk : /\ Deps(d)' = Deps(d) /\ CV(d)' = CV(d) /\ MV(d)' = MV(d)
                             /\ IsDelete(d)' = IsDelete(d)
                             /\ v \in granted'[d] <=> v \in granted[d] \/ (d = b /\ v \in S)
                             /\ v \in todo'[d] <=> v \in todo[d] /\ d # b
                             /\ OnVar(d, v)' <=> OnVar(d, v) \/ d = b
           /\ \A d \in Blk : WaitInv(d)' /\ BlockInv(d)'
           /\ \A d, e \in Blk, u \in Var : TrigInv(d, e, u)'
           /\ \A u \in Var : u # v => Keeps(u) /\ KeepsDelete(u)
           /\ PendingInv'
           /\ \A d \in Blk : phase'[d] = "new" => prior'[d][v] = {}
           /\ \A d, c \in Blk : c \in prior'[d][v] => Arrived(c, v)'
           /\ \A d, c \in Blk : d # c /\ OnVar(d, v)' /\ OnVar(c, v)' =>
                                   d \in prior'[c][v] \/ c \in prior'[d][v]
<1>0. TypeOK /\ BlockInv(b) /\ WaitInv(b) /\ OrderInv(v)
  BY Zenon DEF IInv
<1>1. /\ phase[b] = "pushing" /\ v \in todo[b]
      /\ phase' = phase /\ opr' = opr /\ trig' = trig /\ pending' = pending
      /\ alive' = alive /\ to_delete' = to_delete
      /\ \A u \in Var : u # v => /\ queue'[u] = queue[u]
                                 /\ num_pending_reads'[u] = num_pending_reads[u]
  BY Zenon DEF Arrives
<1>2. /\ todo'[b] = todo[b] \ {v} /\ prior'[b][v] = {c \in Blk : OnVar(c, v)}
      /\ \A d \in Blk : d # b => todo'[d] = todo[d] /\ prior'[d] = prior[d]
      /\ \A d \in Blk, u \in Var : u # v => prior'[d][u] = prior[d][u]
  BY Zenon, <1>0 DEF TypeOK, Arrives, Arrive
<1>3. /\ Pushed' = Pushed /\ Pushed \subseteq Blk /\ Active' = Active
      /\ \A d \in Blk : /\ Deps(d)' = Deps(d) /\ CV(d)' = CV(d) /\ MV(d)' = MV(d)
                        /\ IsDelete(d)' = IsDelete(d)
      /\ \A d \in Blk, u \in Var : Owed(d, u)' <=> Owed(d, u)
  BY Zenon, <1>1 DEF Pushed, Active, Deps, CV, MV, IsDelete, Owed
<1>4. /\ granted'[b] = IF v \in S THEN granted[b] \cup {v} ELSE granted[b]
      /\ \A d \in Blk : d # b => granted'[d] = granted[d] /\ wait'[d] = wait[d]
  BY Zenon, <1>0 DEF TypeOK, Arrives, Arrive
<1>5. /\ b \in Pushed /\ ~OnVar(b, v) /\ ~Arrived(b, v) /\ v \notin granted[b]
      /\ v \in Deps(b) /\ v \in Need(b) /\ \A d \in Blk : b \notin prior[d][v]
  BY Zenon, <1>1, PushingFacts
<1>6. wait'[b] = IF v \in S THEN wait[b] - 1 ELSE wait[b]
  BY Zenon, <1>0 DEF TypeOK, Arrives
<1>7. /\ todo' \in [Blk -> SUBSET Var] /\ granted' \in [Blk -> SUBSET Var]
      /\ prior' \in [Blk -> [Var -> SUBSET Blk]]
  <2>1. todo' \in [Blk -> SUBSET Var] /\ granted' \in [Blk -> SUBSET Var]
    BY Zenon, <1>0 DEF TypeOK, Arrives, Arrive
  <2>2. prior' \in [Blk -> [Var -> SUBSET Blk]]
    BY Zenon, <1>0 DEF TypeOK, Arrives, Arrive
  <2> QED
    BY Zenon, <2>1, <2>2
<1>8. wait' \in [Blk -> Int]
  <2>1. wait \in [Blk -> Int] /\ (wait' = [wait EXCEPT ![b] = @ - 1] \/ wait' = wait)
    BY Zenon, <1>0 DEF TypeOK, Arrives
  <2> QED
    BY <2>1
<1>9. /\ Need(b)' = IF v \in S THEN Need(b) \ {v} ELSE Need(b)
      /\ \A d \in Blk : d # b => Need(d)' = Need(d)
  <2>1. ~Owed(b, v)
    BY Zenon, <1>5 DEF Owed, IInv, TrigInv
  <2> QED
    BY Zenon, <1>3, <1>4, <2>1 DEF Need
<1>10. /\ IsFiniteSet(Need(b)') /\ wait'[b] = Cardinality(Need(b)') + 1
  <2>1. IsFiniteSet(Need(b)) /\ wait[b] = Cardinality(Need(b)) + 1
    BY Zenon, <1>0, <1>1 DEF WaitInv
  <2>2. Cardinality(Need(b)) \in Nat
    BY Zenon, <2>1 DEF Counting, CountType
  <2>3. /\ IsFiniteSet(Need(b) \ {v})
        /\ Cardinality(Need(b) \ {v}) = Cardinality(Need(b)) - 1
    BY Zenon, <1>5, <2>1 DEF Counting, CountRemove
  <2>4. CASE v \in S
    <3>1. Need(b)' = Need(b) \ {v} /\ wait'[b] = wait[b] - 1
      BY Zenon, <1>6, <1>9, <2>4
    <3> QED
      BY SMTT(40), <2>1, <2>2, <2>3, <3>1
  <2>5. CASE v \notin S
    BY Zenon, <1>6, <1>9, <2>1, <2>5
  <2> QED
    BY Zenon, <2>4, <2>5
<1>11. WaitInv(b)' /\ BlockInv(b)'
  <2>1. WaitInv(b)'
    BY Zenon, <1>1, <1>10 DEF WaitInv
  <2>2. todo[b] \subseteq Deps(b) /\ granted[b] \subseteq Deps(b) \ todo[b]
    BY Zenon, <1>0, <1>1 DEF BlockInv
  <2>3. todo'[b] \subseteq Deps(b)' /\ granted'[b] \subseteq Deps(b)' \ todo'[b]
    BY ZenonT(30), <1>2, <1>3, <1>4, <1>5, <2>2
  <2>4. BlockInv(b)'
    BY Zenon, <1>1, <2>3 DEF BlockInv
  <2> QED
    BY Zenon, <2>1, <2>4
<1>12. ASSUME NEW d \in Blk, d # b PROVE WaitInv(d)' /\ BlockInv(d)'
  <2>1. WaitInv(d) /\ BlockInv(d)
    BY Zenon DEF IInv
  <2>2. WaitInv(d)'
    BY Zenon, <1>1, <1>4, <1>9, <1>12, <2>1 DEF WaitInv
  <2>3. BlockInv(d)'
    BY ZenonT(30), <1>1, <1>2, <1>3, <1>4, <1>12, <2>1 DEF BlockInv
  <2> QED
    BY Zenon, <2>2, <2>3
<1>13. \A d, e \in Blk, u \in Var : TrigInv(d, e, u)'
  <2>1. \A d \in Blk : granted[d] \subseteq granted'[d]
    BY Zenon, <1>4
  <2> QED
    BY Zenon, <1>1, <2>1 DEF IInv, TrigInv
<1>14. ASSUME NEW d \in Blk, NEW u \in Var
       PROVE  /\ OnVar(d, u)' <=> OnVar(d, u) \/ (d = b /\ u = v)
              /\ Arrived(d, u)' <=> Arrived(d, u) \/ (d = b /\ u = v)
              /\ InUse(d, u)' <=> InUse(d, u)
  <2>1. CASE d = b
    BY Zenon, <1>1, <1>2, <1>3, <1>5, <2>1 DEF OnVar, Arrived, InUse
  <2>2. CASE d # b
    BY Zenon, <1>1, <1>2, <1>3, <2>2 DEF OnVar, Arrived, InUse
  <2> QED
    BY Zenon, <2>1, <2>2
<1>15. ASSUME NEW u \in Var, u # v PROVE Keeps(u) /\ KeepsDelete(u)
  <2>1. \A x \in Blk : /\ u \in granted'[x] <=> u \in granted[x]
                       /\ u \in todo'[x] <=> u \in todo[x]
    BY ZenonT(30), <1>2, <1>4, <1>15
  <2>2. Keeps(u)
    BY Zenon, <1>1, <1>2, <1>14, <1>15, <2>1 DEF Keeps
  <2>3. KeepsDelete(u)
    BY Zenon, <1>1, <1>14, <1>15, <2>1 DEF KeepsDelete
  <2> QED
    BY Zenon, <2>2, <2>3
<1>16. PendingInv'
  BY Zenon, <1>1, <1>3 DEF IInv, PendingInv
<1>17. \A d \in Blk : phase'[d] = "new" => prior'[d][v] = {}
  BY ZenonT(30), <1>0, <1>1, <1>2 DEF OrderInv
<1>18. \A d, c \in Blk : c \in prior'[d][v] => Arrived(c, v)'
  BY Zenon, <1>0, <1>2, <1>14 DEF OrderInv, Arrived, OnVar
<1>19. \A d, c \in Blk : d # c /\ OnVar(d, v)' /\ OnVar(c, v)' =>
          d \in prior'[c][v] \/ c \in prior'[d][v]
  BY ZenonT(30), <1>0, <1>2, <1>14 DEF OrderInv
<1>20. \A d \in Blk : /\ v \in granted'[d] <=> v \in granted[d] \/ (d = b /\ v \in S)
                      /\ v \in todo'[d] <=> v \in todo[d] /\ d # b
                      /\ OnVar(d, v)' <=> OnVar(d, v) \/ d = b
  BY Zenon, <1>2, <1>4, <1>14
<1>21. \A d \in Blk : WaitInv(d)' /\ BlockInv(d)'
  BY Zenon, <1>11, <1>12
<1> QED
  BY Zenon, <1>3, <1>7, <1>8, <1>13, <1>15, <1>16, <1>17, <1>18, <1>19, <1>20, <1>21

(* AppendReadDependency: a read goes through, or behind the pending write. *)
LEMMA AppendReadInv ==
    ASSUME Counting, IInv, NEW b \in Blk, NEW v \in Var, AppendReadDependency(b, v)
    PROVE  IInv'
<1>0. /\ TypeOK /\ BlockInv(b) /\ WaitInv(b)
      /\ QueueInv(v) /\ CountInv(v) /\ DeleteInv(v) /\ OrderInv(v)
  BY Zenon DEF IInv
<1>1. /\ phase[b] = "pushing" /\ v \in todo[b] /\ v \in CV(b)
      /\ phase' = phase /\ opr' = opr /\ trig' = trig /\ pending' = pending
      /\ alive' = alive /\ to_delete' = to_delete /\ version' = version /\ pusher' = pusher
  BY Zenon DEF AppendReadDependency
<1>2. /\ todo'[b] = todo[b] \ {v} /\ prior'[b][v] = {c \in Blk : OnVar(c, v)}
      /\ \A d \in Blk : d # b => todo'[d] = todo[d] /\ prior'[d] = prior[d]
  BY Zenon, <1>0 DEF TypeOK, AppendReadDependency, Arrive
<1>3. /\ Pushed' = Pushed /\ Pushed \subseteq Blk /\ Active' = Active
      /\ \A d \in Blk : /\ Deps(d)' = Deps(d) /\ CV(d)' = CV(d) /\ MV(d)' = MV(d)
                        /\ IsDelete(d)' = IsDelete(d)
      /\ \A d \in Blk, u \in Var : Owed(d, u)' <=> Owed(d, u)
  BY Zenon, <1>1 DEF Pushed, Active, Deps, CV, MV, IsDelete, Owed
<1>4. /\ granted'[b] = IF ReadyToRead(v) THEN granted[b] \cup {v} ELSE granted[b]
      /\ wait'[b] = IF ReadyToRead(v) THEN wait[b] - 1 ELSE wait[b]
      /\ num_pending_reads'[v] = IF ReadyToRead(v) THEN num_pending_reads[v] + 1
                                 ELSE num_pending_reads[v]
      /\ queue'[v] = IF ReadyToRead(v) THEN queue[v] ELSE Append(queue[v], Entry(b, FALSE))
      /\ \A d \in Blk : d # b => granted'[d] = granted[d] /\ wait'[d] = wait[d]
      /\ \A u \in Var : u # v => /\ queue'[u] = queue[u]
                                 /\ num_pending_reads'[u] = num_pending_reads[u]
  BY ZenonT(30), <1>0 DEF TypeOK, AppendReadDependency, Arrive
<1>5. /\ b \in Pushed /\ ~OnVar(b, v) /\ ~Arrived(b, v) /\ v \notin granted[b]
      /\ alive[v] /\ v \in Deps(b) /\ v \in Need(b)
      /\ \A i \in 1 .. Len(queue[v]) : queue[v][i].blk # b
      /\ \A d \in Blk : b \notin prior[d][v]
      /\ v \notin MV(b) /\ ~IsDelete(b) /\ ~to_delete[v]
      /\ \A d \in Pushed : ~(IsDelete(d) /\ v \in MV(d))
  <2>1. v \notin MV(b) /\ ~IsDelete(b)
    <3>1. b \in Pushed
      BY Zenon, <1>1 DEF Pushed
    <3> QED
      BY Zenon, <1>0, <1>1, <3>1, DepsFacts, OprAssumption DEF IsDelete, CV, MV
  <2> QED
    BY Zenon, <1>1, <2>1, PushingFacts
<1>6. /\ queue[v] \in Seq(Entries) /\ Len(queue[v]) \in Nat /\ Entry(b, FALSE) \in Entries
      /\ ReadyToRead(v) <=> Len(queue[v]) = 0
      /\ ReadyToRead(v) => num_pending_reads[v] = Cardinality(Readers(v))
      /\ \A i \in 1 .. Len(queue[v]) : queue[v][i].blk \in Blk
  <2>1. /\ queue[v] \in Seq(Entries) /\ Len(queue[v]) \in Nat
        /\ \A i \in 1 .. Len(queue[v]) : queue[v][i].blk \in Blk
    BY Zenon, <1>0, QueueType
  <2>2. Entry(b, FALSE) \in Entries
    BY Zenon DEF Entry, Entries
  <2>3. ReadyToRead(v) <=> Len(queue[v]) = 0
    BY Zenon, <2>1, EmptyQueue DEF ReadyToRead
  <2>4. ReadyToRead(v) => num_pending_reads[v] = Cardinality(Readers(v))
    BY <1>0, <1>5, <2>1, <2>3 DEF CountInv
  <2> QED
    BY Zenon, <2>1, <2>2, <2>3, <2>4
<1>7. /\ Len(queue'[v]) = IF ReadyToRead(v) THEN 0 ELSE Len(queue[v]) + 1
      /\ ~ReadyToRead(v) => /\ \A i \in 1 .. Len(queue[v]) : queue'[v][i] = queue[v][i]
                            /\ queue'[v][Len(queue[v]) + 1] = Entry(b, FALSE)
      /\ queue'[v] \in Seq(Entries)
  <2>1. CASE ReadyToRead(v)
    BY Zenon, <1>4, <1>6, <2>1
  <2>2. CASE ~ReadyToRead(v)
    <3> DEFINE q == Append(queue[v], Entry(b, FALSE))
    <3>1. /\ q \in Seq(Entries) /\ Len(q) = Len(queue[v]) + 1
          /\ \A i \in 1 .. Len(queue[v]) : q[i] = queue[v][i]
          /\ q[Len(queue[v]) + 1] = Entry(b, FALSE)
      BY Zenon, <1>6, AppendEntry
    <3>2. queue'[v] = q
      BY Zenon, <1>4, <2>2
    <3> HIDE DEF q
    <3> QED
      BY Zenon, <2>2, <3>1, <3>2
  <2> QED
    BY Zenon, <2>1, <2>2
<1>8. Readers(v)' = IF ReadyToRead(v) THEN Readers(v) \cup {b} ELSE Readers(v)
  BY SMTT(40), SMTT(40), <1>1, <1>3, <1>4, <1>5 DEF Readers
<1>9. /\ IsFiniteSet(Readers(v)') /\ Cardinality(Readers(v)) \in Nat
      /\ ReadyToRead(v) => Cardinality(Readers(v)') = Cardinality(Readers(v)) + 1
  <2>1. b \notin Readers(v) /\ IsFiniteSet(Readers(v))
    BY Zenon, <1>0, <1>5 DEF Readers, CountInv
  <2> QED
    BY <1>8, <2>1 DEF Counting, CountAdd, CountType
<1> DEFINE S == IF ReadyToRead(v) THEN {v} ELSE {}
<1>10. Arrives(b, v, S)
  <2>1. wait' = IF ReadyToRead(v) THEN [wait EXCEPT ![b] = @ - 1] ELSE wait
    BY Zenon DEF AppendReadDependency
  <2>2. /\ todo' = [todo EXCEPT ![b] = @ \ {v}]
        /\ prior' = [prior EXCEPT ![b][v] = {c \in Blk : OnVar(c, v)}]
        /\ granted' = IF ReadyToRead(v) THEN [granted EXCEPT ![b] = @ \cup {v}] ELSE granted
    BY Zenon DEF AppendReadDependency, Arrive
  <2>3. v \in S <=> ReadyToRead(v)
    BY Zenon
  <2> HIDE DEF S
  <2> QED
    BY Zenon, <1>1, <1>4, <2>1, <2>2, <2>3 DEF Arrives, Arrive
<1>11. S \in SUBSET Var
  BY Zenon
<1> HIDE DEF S
<1>12. /\ todo' \in [Blk -> SUBSET Var] /\ granted' \in [Blk -> SUBSET Var]
       /\ wait' \in [Blk -> Int] /\ prior' \in [Blk -> [Var -> SUBSET Blk]]
       /\ \A d \in Blk : /\ Deps(d)' = Deps(d) /\ CV(d)' = CV(d) /\ MV(d)' = MV(d)
                         /\ IsDelete(d)' = IsDelete(d)
                         /\ v \in granted'[d] <=> v \in granted[d] \/ (d = b /\ v \in S)
                         /\ v \in todo'[d] <=> v \in todo[d] /\ d # b
                         /\ OnVar(d, v)' <=> OnVar(d, v) \/ d = b
       /\ \A d \in Blk : WaitInv(d)' /\ BlockInv(d)'
       /\ \A d, e \in Blk, u \in Var : TrigInv(d, e, u)'
       /\ \A u \in Var : u # v => Keeps(u) /\ KeepsDelete(u)
       /\ PendingInv'
  BY ZenonT(30), <1>10, <1>11, Arriving
<1>13. TypeOK'
  <2>1. queue' \in [Var -> Seq(Entries)]
    BY Zenon, <1>0, <1>7 DEF TypeOK, AppendReadDependency, Entries
  <2>2. num_pending_reads' \in [Var -> Nat \cup {kWriteTriggered}]
    <3>1. num_pending_reads'[v] \in Nat \cup {kWriteTriggered}
      BY <1>0, <1>4, <1>6, <1>9 DEF TypeOK
    <3> QED
      BY Zenon, <1>0, <3>1 DEF TypeOK, AppendReadDependency
  <2> QED
    BY Zenon, <1>0, <1>1, <1>3, <1>12, <2>1, <2>2 DEF TypeOK, Entries
<1>14. \A d \in Blk : OnVar(d, v)' <=> OnVar(d, v) \/ d = b
  BY Zenon, <1>12
<1>16. QueueInv(v)'
  <2>1. CASE ReadyToRead(v)
    <3>1. Len(queue'[v]) = 0 /\ Len(queue[v]) = 0
      BY Zenon, <1>6, <1>7, <2>1
    <3>2. 1 .. Len(queue'[v]) = {} /\ 1 .. Len(queue[v]) = {} /\ ~(Len(queue'[v]) > 0)
      BY <3>1
    <3>3. ASSUME NEW d \in Blk, OnVar(d, v)' PROVE v \notin MV(d)' /\ v \in granted'[d]
      <4>1. CASE d = b
        BY Zenon, <1>5, <1>12, <2>1, <4>1 DEF S
      <4>2. CASE d # b
        <5>1. OnVar(d, v) /\ QueueInv(v)
          BY Zenon, <1>0, <1>14, <3>3, <4>2
        <5>2. v \notin MV(d) /\ v \in granted[d]
          BY Zenon, <3>2, <5>1 DEF QueueInv
        <5> QED
          BY Zenon, <1>12, <5>2
      <4> QED
        BY Zenon, <4>1, <4>2
    <3> QED
      BY Zenon, <3>2, <3>3 DEF QueueInv
  <2>2. CASE ~ReadyToRead(v)
    <3> DEFINE n == Len(queue[v])
    <3>1. /\ n \in Nat /\ n # 0 /\ Len(queue'[v]) = n + 1
          /\ queue'[v][n + 1].blk = b /\ queue'[v][n + 1].write = FALSE
          /\ \A i \in 1 .. n : queue'[v][i] = queue[v][i]
          /\ \A d \in Blk : v \in granted'[d] <=> v \in granted[d]
          /\ num_pending_reads'[v] = num_pending_reads[v]
      <4>1. Entry(b, FALSE).blk = b /\ Entry(b, FALSE).write = FALSE
        BY Zenon DEF Entry
      <4> QED
        BY Zenon, <1>4, <1>6, <1>7, <2>2, <4>1
    <3> HIDE DEF n
    <3>2. \A i \in 1 .. n + 1 : i \in 1 .. n \/ i = n + 1
      BY SMTT(40), <3>1
    <3>3. 1 \in 1 .. n /\ n + 1 \in 1 .. n + 1 /\ \A i \in 1 .. n : i \in 1 .. n + 1
      BY <3>1
    <3>4. /\ \A i \in 1 .. n :
                /\ queue[v][i].blk \in Blk /\ queue[v][i].blk # b
                /\ OnVar(queue[v][i].blk, v)
                /\ queue[v][i].write <=> v \in MV(queue[v][i].blk)
                /\ v \in granted[queue[v][i].blk] =>
                      i = 1 /\ num_pending_reads[v] = kWriteTriggered
          /\ \A i, j \in 1 .. n : queue[v][i].blk = queue[v][j].blk => i = j
          /\ \A d \in Blk : OnVar(d, v) /\ (v \in MV(d) \/ v \notin granted[d]) =>
                              \E i \in 1 .. n : queue[v][i].blk = d
      BY ZenonT(30), <1>0, <1>5, <1>6 DEF QueueInv, n
    <3>5. queue[v][1].write /\ (num_pending_reads[v] = kWriteTriggered =>
                                   v \in granted[queue[v][1].blk])
      BY SMTT(40), <1>0, <3>1 DEF QueueInv, n
    <3>6. ASSUME NEW i \in 1 .. n + 1
          PROVE  /\ OnVar(queue[v][i].blk, v)'
                 /\ queue'[v][i].write <=> v \in MV(queue[v][i].blk)'
                 /\ v \in granted'[queue'[v][i].blk] =>
                       i = 1 /\ num_pending_reads'[v] = kWriteTriggered
      <4>1. CASE i = n + 1
        <5>1. OnVar(b, v)' /\ v \notin MV(b)' /\ v \notin granted'[b]
          BY Zenon, <1>3, <1>5, <1>14, <3>1
        <5> QED
          BY Zenon, <3>1, <4>1, <5>1 DEF OnVar, MV, Deps, CV
      <4>2. CASE i \in 1 .. n
        <5>1. PICK d \in Blk : d = queue[v][i].blk
          BY Zenon, <3>4, <4>2
        <5>2. /\ OnVar(d, v)' /\ queue'[v][i] = queue[v][i]
              /\ queue[v][i].write <=> v \in MV(d)'
              /\ v \in granted'[d] => i = 1 /\ num_pending_reads'[v] = kWriteTriggered
          <6>1. queue'[v][i] = queue[v][i]
            BY Zenon, <3>1, <4>2
          <6>2. /\ OnVar(d, v)
                /\ queue[v][i].write <=> v \in MV(d)
                /\ v \in granted[d] => i = 1 /\ num_pending_reads[v] = kWriteTriggered
            BY Zenon, <3>4, <4>2, <5>1
          <6>3. /\ OnVar(d, v)' /\ MV(d)' = MV(d)
                /\ v \in granted'[d] <=> v \in granted[d]
                /\ num_pending_reads'[v] = num_pending_reads[v]
            BY Zenon, <1>3, <1>14, <3>1, <6>2
          <6> QED
            BY Zenon, <6>1, <6>2, <6>3
        <5> QED
          BY Zenon, <5>1, <5>2 DEF OnVar, MV, Deps, CV
      <4> QED
        BY Zenon, <3>2, <4>1, <4>2
    <3>7. \A i, j \in 1 .. n + 1 : queue'[v][i].blk = queue'[v][j].blk => i = j
      <4> SUFFICES ASSUME NEW i \in 1 .. n + 1, NEW j \in 1 .. n + 1,
                          queue'[v][i].blk = queue'[v][j].blk
                   PROVE  i = j
        BY Zenon
      <4>1. ASSUME NEW k \in 1 .. n
            PROVE  queue'[v][k].blk = queue[v][k].blk /\ queue[v][k].blk # b
        BY Zenon, <3>1, <3>4
      <4>2. CASE i \in 1 .. n /\ j \in 1 .. n
        BY Zenon, <3>4, <4>1, <4>2
      <4>3. CASE i = n + 1 /\ j \in 1 .. n
        BY Zenon, <3>1, <4>1, <4>3
      <4>4. CASE i \in 1 .. n /\ j = n + 1
        BY Zenon, <3>1, <4>1, <4>4
      <4> QED
        BY Zenon, <3>2, <4>2, <4>3, <4>4
    <3>8. ASSUME NEW d \in Blk, OnVar(d, v)', v \in MV(d)' \/ v \notin granted'[d]
          PROVE  \E i \in 1 .. n + 1 : queue'[v][i].blk = d
      <4>1. CASE d = b
        BY Zenon, <3>1, <3>3, <4>1
      <4>2. CASE d # b
        <5>1. OnVar(d, v) /\ (v \in MV(d) \/ v \notin granted[d])
          BY Zenon, <1>3, <1>14, <3>1, <3>8, <4>2
        <5>2. PICK i \in 1 .. n : queue[v][i].blk = d
          BY Zenon, <3>4, <5>1
        <5>3. i \in 1 .. n + 1 /\ queue'[v][i] = queue[v][i]
          BY Zenon, <3>1, <3>3
        <5> QED
          BY Zenon, <5>2, <5>3
      <4> QED
        BY Zenon, <4>1, <4>2
    <3>9. queue'[v][1].write /\ (num_pending_reads'[v] = kWriteTriggered =>
                                    v \in granted'[queue'[v][1].blk])
      BY Zenon, <3>1, <3>3, <3>4, <3>5
    <3> QED
      BY Zenon, <3>1, <3>6, <3>7, <3>8, <3>9 DEF QueueInv
  <2> QED
    BY ZenonT(30), <2>1, <2>2
<1>17. CountInv(v)'
  BY SMTT(40), SMTT(40), <1>0, <1>1, <1>4, <1>6, <1>7, <1>8, <1>9 DEF CountInv, TypeOK
<1>18. DeleteInv(v)'
  BY Zenon, <1>1, <1>3, <1>5 DEF DeleteInv
<1>19. OrderInv(v)'
  <2>1. /\ \A d \in Blk : phase'[d] = "new" => prior'[d][v] = {}
        /\ \A d, c \in Blk : c \in prior'[d][v] => Arrived(c, v)'
        /\ \A d, c \in Blk : d # c /\ OnVar(d, v)' /\ OnVar(c, v)' =>
                               d \in prior'[c][v] \/ c \in prior'[d][v]
    BY Zenon, <1>10, <1>11, Arriving
  <2>4. \A i, j \in 1 .. Len(queue'[v]) :
           queue'[v][i].blk \in prior'[queue'[v][j].blk][v] => i < j
    <3>1. CASE ReadyToRead(v)
      BY Zenon, <1>7, <3>1, EmptyRange
    <3>2. CASE ~ReadyToRead(v)
      <4> DEFINE n == Len(queue[v])
      <4> SUFFICES ASSUME NEW i \in 1 .. n + 1, NEW j \in 1 .. n + 1,
                          queue'[v][i].blk \in prior'[queue'[v][j].blk][v]
                   PROVE  i < j
        BY Zenon, <1>7, <3>2
      <4>1. queue'[v][n + 1].blk = b /\ \A m \in 1 .. n : queue'[v][m] = queue[v][m]
        BY SMTT(40), <1>7, <3>2 DEF Entry
      <4>2. CASE i = n + 1 /\ j = n + 1
        BY Zenon, <1>2, <1>5, <4>1, <4>2
      <4>3. CASE i = n + 1 /\ j \in 1 .. n
        BY ZenonT(30), <1>2, <1>5, <1>6, <4>1, <4>3
      <4>4. CASE i \in 1 .. n /\ j = n + 1
        BY SMTT(40), <1>6, <4>4
      <4>5. CASE i \in 1 .. n /\ j \in 1 .. n
        <5>1. /\ queue'[v][i] = queue[v][i] /\ queue'[v][j] = queue[v][j]
              /\ prior'[queue[v][j].blk] = prior[queue[v][j].blk]
          BY Zenon, <1>2, <1>5, <1>6, <4>1, <4>5
        <5> QED
          BY Zenon, <1>0, <4>5, <5>1 DEF OrderInv
      <4> QED
        BY SMTT(40), <1>6, <4>2, <4>3, <4>4, <4>5
    <3> QED
      BY Zenon, <3>1, <3>2
  <2>5. \A d, c \in Blk : v \in granted'[d] /\ c \in prior'[d][v] /\ Conflict(d, c, v)'
           => ~OnVar(c, v)'
    <3>1. ASSUME NEW c \in Blk, ReadyToRead(v), Conflict(b, c, v)
          PROVE  ~OnVar(c, v)
      BY SMTT(40), <1>0, <1>5, <1>6, <3>1 DEF QueueInv, Conflict
    <3>2. \A d, c \in Blk : Conflict(d, c, v)' <=> Conflict(d, c, v)
      BY Zenon, <1>3 DEF Conflict
    <3> SUFFICES ASSUME NEW d \in Blk, NEW c \in Blk, v \in granted'[d],
                        c \in prior'[d][v], Conflict(d, c, v)
                 PROVE  ~OnVar(c, v)'
      BY Zenon, <3>2
    <3>3. CASE d = b
      <4>1. ReadyToRead(v) /\ OnVar(c, v)
        BY Zenon, <1>2, <1>4, <1>5, <3>3
      <4> QED
        BY Zenon, <3>1, <3>3, <4>1
    <3>4. CASE d # b
      <4>1. v \in granted[d] /\ c \in prior[d][v] /\ c # b
        BY Zenon, <1>2, <1>4, <1>5, <3>4
      <4> QED
        BY Zenon, <1>0, <1>14, <4>1 DEF OrderInv
    <3> QED
      BY ZenonT(30), <3>3, <3>4
  <2> QED
    BY Zenon, <2>1, <2>4, <2>5 DEF OrderInv
<1> QED
  BY Zenon, <1>12, <1>13, <1>16, <1>17, <1>18, <1>19, VarFrame, DeleteFrame DEF IInv

(* AppendWriteDependency: a write goes through, or to the end of the list. *)
LEMMA AppendWriteInv ==
    ASSUME Counting, IInv, NEW b \in Blk, NEW v \in Var, AppendWriteDependency(b, v)
    PROVE  IInv'
<1>0. /\ TypeOK /\ BlockInv(b) /\ WaitInv(b)
      /\ QueueInv(v) /\ CountInv(v) /\ DeleteInv(v) /\ OrderInv(v)
  BY Zenon DEF IInv
<1>1. /\ phase[b] = "pushing" /\ v \in todo[b] /\ todo[b] \cap CV(b) = {}
      /\ phase' = phase /\ opr' = opr /\ trig' = trig /\ pending' = pending
      /\ alive' = alive /\ to_delete' = to_delete /\ version' = version /\ pusher' = pusher
  BY Zenon DEF AppendWriteDependency
<1>2. /\ todo'[b] = todo[b] \ {v} /\ prior'[b][v] = {c \in Blk : OnVar(c, v)}
      /\ \A d \in Blk : d # b => todo'[d] = todo[d] /\ prior'[d] = prior[d]
  BY Zenon, <1>0 DEF TypeOK, AppendWriteDependency, Arrive
<1>3. /\ Pushed' = Pushed /\ Pushed \subseteq Blk /\ Active' = Active
      /\ \A d \in Blk : /\ Deps(d)' = Deps(d) /\ CV(d)' = CV(d) /\ MV(d)' = MV(d)
                        /\ IsDelete(d)' = IsDelete(d)
      /\ \A d \in Blk, u \in Var : Owed(d, u)' <=> Owed(d, u)
  BY Zenon, <1>1 DEF Pushed, Active, Deps, CV, MV, IsDelete, Owed
<1>4. /\ granted'[b] = IF ReadyToWrite(v) THEN granted[b] \cup {v} ELSE granted[b]
      /\ wait'[b] = IF ReadyToWrite(v) THEN wait[b] - 1 ELSE wait[b]
      /\ num_pending_reads'[v] = IF ReadyToWrite(v) THEN kWriteTriggered
                                 ELSE num_pending_reads[v]
      /\ \A d \in Blk : d # b => granted'[d] = granted[d] /\ wait'[d] = wait[d]
      /\ \A u \in Var : u # v => /\ queue'[u] = queue[u]
                                 /\ num_pending_reads'[u] = num_pending_reads[u]
  BY Zenon, <1>0 DEF TypeOK, AppendWriteDependency, Arrive
<1>5. /\ b \in Pushed /\ ~OnVar(b, v) /\ ~Arrived(b, v) /\ v \notin granted[b]
      /\ alive[v] /\ v \in Deps(b) /\ v \in Need(b)
      /\ \A i \in 1 .. Len(queue[v]) : queue[v][i].blk # b
      /\ \A d \in Blk : b \notin prior[d][v]
      /\ v \in MV(b) /\ v \notin CV(b) /\ ~to_delete[v]
      /\ \A d \in Pushed : IsDelete(d) /\ v \in MV(d) => d = b
  <2>1. v \in Deps(b)
    BY Zenon, <1>1, PushingFacts
  <2>2. v \in MV(b) /\ v \notin CV(b)
    BY Zenon, <1>1, <2>1 DEF Deps
  <2> QED
    BY Zenon, <1>1, <2>2, PushingFacts
<1>6. /\ queue[v] \in Seq(Entries) /\ Len(queue[v]) \in Nat /\ Entry(b, TRUE) \in Entries
      /\ ReadyToWrite(v) <=> Len(queue[v]) = 0 /\ num_pending_reads[v] = 0
      /\ \A i \in 1 .. Len(queue[v]) : queue[v][i].blk \in Blk
  <2>1. /\ queue[v] \in Seq(Entries) /\ Len(queue[v]) \in Nat
        /\ \A i \in 1 .. Len(queue[v]) : queue[v][i].blk \in Blk
    BY Zenon, <1>0, QueueType
  <2>2. Entry(b, TRUE) \in Entries
    BY Zenon DEF Entry, Entries
  <2>3. ReadyToWrite(v) <=> Len(queue[v]) = 0 /\ num_pending_reads[v] = 0
    BY Zenon, <2>1, EmptyQueue DEF ReadyToWrite
  <2> QED
    BY Zenon, <2>1, <2>2, <2>3
<1>7. /\ Len(queue'[v]) = Len(queue[v]) + 1 /\ queue'[v] \in Seq(Entries)
      /\ \A i \in 1 .. Len(queue[v]) : queue'[v][i] = queue[v][i]
      /\ queue'[v][Len(queue[v]) + 1] = Entry(b, TRUE)
  <2> DEFINE q == Append(queue[v], Entry(b, TRUE))
  <2>1. /\ q \in Seq(Entries) /\ Len(q) = Len(queue[v]) + 1
        /\ \A i \in 1 .. Len(queue[v]) : q[i] = queue[v][i]
        /\ q[Len(queue[v]) + 1] = Entry(b, TRUE)
    BY Zenon, <1>6, AppendEntry
  <2>2. queue'[v] = q
    BY Zenon, <1>0 DEF TypeOK, AppendWriteDependency
  <2> HIDE DEF q
  <2> QED
    BY Zenon, <2>1, <2>2
<1>8. Readers(v)' = Readers(v)
  BY SMTT(40), <1>3, <1>4, <1>5 DEF Readers
<1>9. /\ IsFiniteSet(Readers(v)) /\ Cardinality(Readers(v)) \in Nat
      /\ Cardinality(Readers(v)) = 0 <=> Readers(v) = {}
      /\ Len(queue[v]) = 0 => num_pending_reads[v] = Cardinality(Readers(v))
  <2>1. IsFiniteSet(Readers(v))
    BY Zenon, <1>0 DEF CountInv
  <2>2. Len(queue[v]) = 0 => num_pending_reads[v] = Cardinality(Readers(v))
    BY SMTT(40), <1>0, <1>5, <1>6 DEF CountInv
  <2> QED
    BY Zenon, <2>1, <2>2 DEF Counting, CountType, CountNone
<1> DEFINE S == IF ReadyToWrite(v) THEN {v} ELSE {}
<1>10. Arrives(b, v, S)
  <2>1. wait' = IF ReadyToWrite(v) THEN [wait EXCEPT ![b] = @ - 1] ELSE wait
    BY Zenon DEF AppendWriteDependency
  <2>2. /\ todo' = [todo EXCEPT ![b] = @ \ {v}]
        /\ prior' = [prior EXCEPT ![b][v] = {c \in Blk : OnVar(c, v)}]
        /\ granted' = IF ReadyToWrite(v) THEN [granted EXCEPT ![b] = @ \cup {v}] ELSE granted
    BY Zenon DEF AppendWriteDependency, Arrive
  <2>3. v \in S <=> ReadyToWrite(v)
    BY Zenon
  <2> HIDE DEF S
  <2> QED
    BY Zenon, <1>1, <1>4, <2>1, <2>2, <2>3 DEF Arrives, Arrive
<1>11. S \in SUBSET Var
  BY Zenon
<1> HIDE DEF S
<1>12. /\ todo' \in [Blk -> SUBSET Var] /\ granted' \in [Blk -> SUBSET Var]
       /\ wait' \in [Blk -> Int] /\ prior' \in [Blk -> [Var -> SUBSET Blk]]
       /\ \A d \in Blk : /\ Deps(d)' = Deps(d) /\ CV(d)' = CV(d) /\ MV(d)' = MV(d)
                         /\ IsDelete(d)' = IsDelete(d)
                         /\ v \in granted'[d] <=> v \in granted[d] \/ (d = b /\ v \in S)
                         /\ v \in todo'[d] <=> v \in todo[d] /\ d # b
                         /\ OnVar(d, v)' <=> OnVar(d, v) \/ d = b
       /\ \A d \in Blk : WaitInv(d)' /\ BlockInv(d)'
       /\ \A d, e \in Blk, u \in Var : TrigInv(d, e, u)'
       /\ \A u \in Var : u # v => Keeps(u) /\ KeepsDelete(u)
       /\ PendingInv'
  BY Zenon, <1>10, <1>11, Arriving
<1>13. TypeOK'
  <2>1. queue' \in [Var -> Seq(Entries)]
    BY Zenon, <1>0, <1>7 DEF TypeOK, AppendWriteDependency, Entries
  <2>2. num_pending_reads' \in [Var -> Nat \cup {kWriteTriggered}]
    <3>1. num_pending_reads'[v] \in Nat \cup {kWriteTriggered}
      BY Zenon, <1>0, <1>4, <1>6, <1>9 DEF TypeOK
    <3> QED
      BY Zenon, <1>0, <3>1 DEF TypeOK, AppendWriteDependency
  <2> QED
    BY Zenon, <1>0, <1>1, <1>3, <1>12, <2>1, <2>2 DEF TypeOK, Entries
<1>14. \A d \in Blk : OnVar(d, v)' <=> OnVar(d, v) \/ d = b
  BY Zenon, <1>12
<1>16. QueueInv(v)'
  <2> DEFINE n == Len(queue[v])
  <2>1. queue'[v][n + 1].blk = b /\ queue'[v][n + 1].write
    BY <1>7 DEF Entry
  <2>2. ASSUME NEW i \in 1 .. n + 1
        PROVE  /\ OnVar(queue[v][i].blk, v)'
               /\ queue'[v][i].write <=> v \in MV(queue[v][i].blk)'
               /\ v \in granted'[queue'[v][i].blk] =>
                     i = 1 /\ num_pending_reads'[v] = kWriteTriggered
    <3>1. CASE i = n + 1
      <4>1. OnVar(b, v)' /\ v \in MV(b)'
        BY Zenon, <1>3, <1>5, <1>14
      <4>2. v \in granted'[b] => n = 0 /\ num_pending_reads'[v] = kWriteTriggered
        BY Zenon, <1>4, <1>5, <1>6
      <4>3. queue'[v][i].blk = b /\ queue'[v][i].write
        BY Zenon, <2>1, <3>1
      <4> QED
        BY SMTT(40), <3>1, <4>1, <4>2, <4>3 DEF OnVar, MV, Deps, CV
    <3>2. CASE i \in 1 .. n
      <4>1. queue'[v][i] = queue[v][i] /\ queue[v][i].blk \in Blk /\ queue[v][i].blk # b
        BY Zenon, <1>5, <1>6, <1>7, <3>2
      <4>2. num_pending_reads'[v] = num_pending_reads[v]
        BY SMTT(40), <1>4, <1>6, <3>2
      <4>3. PICK d \in Blk : d = queue[v][i].blk
        BY Zenon, <4>1
      <4>4. OnVar(d, v) /\ (queue[v][i].write <=> v \in MV(d))
            /\ (v \in granted[d] => i = 1 /\ num_pending_reads[v] = kWriteTriggered)
        BY Zenon, <1>0, <3>2, <4>3 DEF QueueInv
      <4>5. OnVar(d, v)' /\ MV(d)' = MV(d) /\ granted'[d] = granted[d]
        BY Zenon, <1>3, <1>4, <1>14, <4>1, <4>3, <4>4
      <4>6. queue'[v][i].blk = d /\ queue'[v][i].write = queue[v][i].write
        BY Zenon, <4>1, <4>3
      <4> QED
        BY Zenon, <4>2, <4>4, <4>5, <4>6 DEF OnVar, MV, Deps, CV
    <3> QED
      BY Zenon, <1>6, <3>1, <3>2, LastRange
  <2>3. ASSUME NEW i \in 1 .. n + 1, NEW j \in 1 .. n + 1,
               queue'[v][i].blk = queue'[v][j].blk
        PROVE  i = j
    <3>1. i # n + 1 => i \in 1 .. n /\ queue'[v][i].blk = queue[v][i].blk /\ queue[v][i].blk # b
      BY Zenon, <1>5, <1>6, <1>7, LastRange
    <3>2. j # n + 1 => j \in 1 .. n /\ queue'[v][j].blk = queue[v][j].blk /\ queue[v][j].blk # b
      BY Zenon, <1>5, <1>6, <1>7, LastRange
    <3> QED
      BY ZenonT(30), <1>0, <2>1, <2>3, <3>1, <3>2 DEF QueueInv
  <2>4. queue'[v][1].write
    <3>1. CASE n = 0
      BY Zenon, <1>6, <2>1, <3>1, LastRange
    <3>2. CASE n > 0
      BY Zenon, <1>0, <1>6, <1>7, <3>2, LastRange DEF QueueInv
    <3> QED
      BY Zenon, <1>6, <3>1, <3>2, LastRange
  <2>5. num_pending_reads'[v] = kWriteTriggered => v \in granted'[queue'[v][1].blk]
    <3>1. CASE ReadyToWrite(v)
      <4>1. n = 0 /\ v \in granted'[b]
        BY Zenon, <1>4, <1>6, <3>1
      <4>2. queue'[v][1].blk = b
        BY Zenon, <1>6, <2>1, <4>1, LastRange
      <4> QED
        BY Zenon, <4>1, <4>2
    <3>2. CASE ~ReadyToWrite(v)
      <4>1. num_pending_reads'[v] = kWriteTriggered => n > 0
        <5>1. num_pending_reads'[v] = num_pending_reads[v]
          BY Zenon, <1>4, <3>2
        <5>2. n = 0 => num_pending_reads[v] \in Nat
          BY Zenon, <1>9
        <5> QED
          BY Zenon, <1>6, <5>1, <5>2, CountFacts, LastRange
      <4>2. n > 0 => queue'[v][1] = queue[v][1] /\ queue[v][1].blk # b /\ queue[v][1].blk \in Blk
        BY Zenon, <1>5, <1>6, <1>7, LastRange
      <4>3. num_pending_reads'[v] = num_pending_reads[v]
        BY Zenon, <1>4, <3>2
      <4>4. n > 0 /\ num_pending_reads[v] = kWriteTriggered => v \in granted[queue[v][1].blk]
        BY Zenon, <1>0 DEF QueueInv
      <4>5. n > 0 => granted'[queue[v][1].blk] = granted[queue[v][1].blk]
        BY Zenon, <1>4, <4>2
      <4> QED
        BY Zenon, <4>1, <4>2, <4>3, <4>4, <4>5
    <3> QED
      BY Zenon, <3>1, <3>2
  <2>6. ASSUME NEW d \in Blk, OnVar(d, v)', v \in MV(d)' \/ v \notin granted'[d]
        PROVE  \E i \in 1 .. n + 1 : queue'[v][i].blk = d
    <3>1. CASE d = b
      BY Zenon, <1>6, <2>1, <3>1, LastRange
    <3>2. CASE d # b
      <4>1. PICK i \in 1 .. n : queue[v][i].blk = d
        BY Zenon, <1>0, <1>3, <1>4, <1>14, <2>6, <3>2 DEF QueueInv
      <4> QED
        BY Zenon, <1>6, <1>7, <4>1, LastRange
    <3> QED
      BY Zenon, <3>1, <3>2
  <2> QED
    BY Zenon, <1>7, <2>2, <2>3, <2>4, <2>5, <2>6 DEF QueueInv
<1>17. CountInv(v)'
  <2>1. CASE ReadyToWrite(v)
    <3>1. num_pending_reads'[v] = kWriteTriggered /\ Readers(v) = {}
      BY Zenon, <1>4, <1>6, <1>9, <2>1
    <3>2. Len(queue'[v]) > 0
      BY Zenon, <1>6, <1>7, LastRange
    <3> QED
      BY Zenon, <1>8, <1>9, <3>1, <3>2 DEF CountInv
  <2>2. CASE ~ReadyToWrite(v)
    <3>1. /\ num_pending_reads'[v] = num_pending_reads[v] /\ alive[v]
          /\ ~(Len(queue[v]) = 0 /\ num_pending_reads[v] = 0)
      BY Zenon, <1>4, <1>5, <1>6, <2>2
    <3>2. Len(queue[v]) # 0 => Len(queue[v]) > 0
      BY Zenon, <1>6, LastRange
    <3>3. Len(queue'[v]) > 0
      BY Zenon, <1>6, <1>7, LastRange
    <3>4. CASE num_pending_reads[v] = kWriteTriggered /\ Readers(v) = {}
      BY Zenon, <1>8, <1>9, <3>1, <3>3, <3>4 DEF CountInv
    <3>5. CASE ~(num_pending_reads[v] = kWriteTriggered /\ Readers(v) = {})
      <4>1. /\ num_pending_reads[v] = Cardinality(Readers(v))
            /\ Len(queue[v]) > 0 => num_pending_reads[v] > 0
        BY Zenon, <1>0, <3>1, <3>5 DEF CountInv
      <4>2. num_pending_reads[v] # 0 => num_pending_reads[v] > 0
        BY Zenon, <1>9, <4>1, LastRange
      <4>3. num_pending_reads[v] > 0
        BY Zenon, <3>1, <3>2, <4>1, <4>2
      <4> QED
        BY Zenon, <1>8, <1>9, <3>1, <4>1, <4>3 DEF CountInv
    <3> QED
      BY Zenon, <3>4, <3>5
  <2> QED
    BY Zenon, <2>1, <2>2
<1>18. DeleteInv(v)'
  <2>1. \A c \in Blk : v \in todo'[c] => v \in todo[c] /\ c # b
    BY Zenon, <1>2
  <2>2. ASSUME NEW d \in Pushed, IsDelete(d), v \in MV(d)
        PROVE  /\ \A c \in Pushed' : phase'[c] = "pushing" /\ v \in todo'[c] => c = d
               /\ \A i \in 1 .. Len(queue'[v]) : queue'[v][i].blk = d => i = Len(queue'[v])
    <3>1. d = b
      BY Zenon, <1>5, <2>2
    <3>2. \A c \in Pushed' : phase'[c] = "pushing" /\ v \in todo'[c] => c = d
      BY Zenon, <1>0, <1>1, <1>3, <2>1, <2>2 DEF DeleteInv
    <3>3. ASSUME NEW i \in 1 .. Len(queue[v]) + 1, queue'[v][i].blk = b
          PROVE  i = Len(queue[v]) + 1
      BY Zenon, <1>5, <1>6, <1>7, <3>3, LastRange
    <3> QED
      BY Zenon, <1>7, <3>1, <3>2, <3>3
  <2> QED
    BY ZenonT(30), <1>1, <1>3, <1>5, <2>2 DEF DeleteInv
<1>19. OrderInv(v)'
  <2>1. /\ \A d \in Blk : phase'[d] = "new" => prior'[d][v] = {}
        /\ \A d, c \in Blk : c \in prior'[d][v] => Arrived(c, v)'
        /\ \A d, c \in Blk : d # c /\ OnVar(d, v)' /\ OnVar(c, v)' =>
                               d \in prior'[c][v] \/ c \in prior'[d][v]
    BY Zenon, <1>10, <1>11, Arriving
  <2>4. \A i, j \in 1 .. Len(queue'[v]) :
           queue'[v][i].blk \in prior'[queue'[v][j].blk][v] => i < j
    <3> DEFINE n == Len(queue[v])
    <3> SUFFICES ASSUME NEW i \in 1 .. n + 1, NEW j \in 1 .. n + 1,
                        queue'[v][i].blk \in prior'[queue'[v][j].blk][v]
                 PROVE  i < j
      BY Zenon, <1>7
    <3>1. queue'[v][n + 1].blk = b /\ \A m \in 1 .. n : queue'[v][m] = queue[v][m]
      BY <1>7 DEF Entry
    <3>2. CASE i = n + 1 /\ j = n + 1
      BY Zenon, <1>2, <1>5, <3>1, <3>2
    <3>3. CASE i = n + 1 /\ j \in 1 .. n
      BY Zenon, <1>2, <1>5, <1>6, <3>1, <3>3
    <3>4. CASE i \in 1 .. n /\ j = n + 1
      BY Zenon, <1>6, <3>4, LastRange
    <3>5. CASE i \in 1 .. n /\ j \in 1 .. n
      <4>1. /\ queue'[v][i] = queue[v][i] /\ queue'[v][j] = queue[v][j]
            /\ prior'[queue[v][j].blk] = prior[queue[v][j].blk]
        BY ZenonT(30), <1>2, <1>5, <1>6, <3>1, <3>5
      <4> QED
        BY Zenon, <1>0, <3>5, <4>1 DEF OrderInv
    <3> QED
      BY Zenon, <1>6, <3>2, <3>3, <3>4, <3>5, LastRange
  <2>5. \A d, c \in Blk : v \in granted'[d] /\ c \in prior'[d][v] /\ Conflict(d, c, v)'
           => ~OnVar(c, v)'
    <3>1. ASSUME NEW c \in Blk, ReadyToWrite(v)
          PROVE  ~OnVar(c, v)
      <4>1. Readers(v) = {} /\ Len(queue[v]) = 0
        BY Zenon, <1>6, <1>9, <3>1
      <4> QED
        BY SMTT(40), SMTT(40), <1>0, <3>1, <4>1 DEF QueueInv, Readers, OnVar, Deps
    <3>2. \A d, c \in Blk : Conflict(d, c, v)' <=> Conflict(d, c, v)
      BY Zenon, <1>3 DEF Conflict
    <3> SUFFICES ASSUME NEW d \in Blk, NEW c \in Blk, v \in granted'[d],
                        c \in prior'[d][v], Conflict(d, c, v)
                 PROVE  ~OnVar(c, v)'
      BY Zenon, <3>2
    <3>3. CASE d = b
      <4>1. ReadyToWrite(v) /\ OnVar(c, v)
        BY Zenon, <1>2, <1>4, <1>5, <3>3
      <4> QED
        BY Zenon, <3>1, <4>1
    <3>4. CASE d # b
      <4>1. v \in granted[d] /\ c \in prior[d][v] /\ c # b
        BY Zenon, <1>2, <1>4, <1>5, <3>4
      <4> QED
        BY Zenon, <1>0, <1>14, <4>1 DEF OrderInv
    <3> QED
      BY Zenon, <3>3, <3>4
  <2> QED
    BY Zenon, <2>1, <2>4, <2>5 DEF OrderInv
<1> QED
  BY Zenon, <1>12, <1>13, <1>16, <1>17, <1>18, <1>19, VarFrame, DeleteFrame DEF IInv

(* The end of Push: the push itself no longer holds the block back. *)
LEMMA PushEndInv ==
    ASSUME Counting, IInv, NEW t \in Thread, NEW b \in Blk, PushEnd(t, b)
    PROVE  IInv'
<1>0. TypeOK /\ BlockInv(b) /\ WaitInv(b)
  BY Zenon DEF IInv
<1>1. TypeOK'
  <2>1. phase' \in [Blk -> Phase] /\ wait' \in [Blk -> Int]
    BY <1>0 DEF TypeOK, PushEnd, Phase
  <2>2. pusher' \in [Thread -> Blk \cup {None}]
    BY Zenon, <1>0 DEF TypeOK, PushEnd
  <2>3. \A d \in Pushed' : opr'[d] \in Opr
    BY Zenon, <1>0 DEF TypeOK, PushEnd, Pushed
  <2> QED
    BY Zenon, <1>0, <2>1, <2>2, <2>3 DEF TypeOK, PushEnd, varState, history
<1>2. \A d \in Blk : /\ Need(d)' = Need(d) /\ Deps(d)' = Deps(d)
                     /\ CV(d)' = CV(d) /\ MV(d)' = MV(d)
  BY Zenon DEF PushEnd, Need, Owed, Deps, CV, MV, history
<1>3. /\ IsFiniteSet(Need(b)) /\ Cardinality(Need(b)) \in Nat
      /\ Cardinality(Need(b)) = 0 <=> Need(b) = {}
      /\ wait[b] = Cardinality(Need(b)) + 1 /\ phase[b] = "pushing" /\ todo[b] = {}
  <2>1. IsFiniteSet(Need(b)) /\ wait[b] = Cardinality(Need(b)) + 1 /\ phase[b] = "pushing"
    BY Zenon, <1>0 DEF WaitInv, PushEnd
  <2> QED
    BY Zenon, <2>1 DEF Counting, CountType, CountNone, PushEnd
<1>4. /\ wait'[b] = Cardinality(Need(b))
      /\ phase'[b] = IF Need(b) = {} THEN "ready" ELSE "waiting"
      /\ \A d \in Blk : d # b => wait'[d] = wait[d] /\ phase'[d] = phase[d]
  BY <1>0, <1>3 DEF TypeOK, PushEnd
<1>5. \A d \in Blk : WaitInv(d)'
  <2>1. WaitInv(b)'
    BY Zenon, <1>2, <1>3, <1>4 DEF WaitInv
  <2>2. ASSUME NEW d \in Blk, d # b PROVE WaitInv(d)'
    BY Zenon, <1>2, <1>4, <2>2 DEF IInv, WaitInv
  <2> QED
    BY Zenon, <2>1, <2>2
<1>6. \A d \in Blk : BlockInv(d)'
  <2>1. Need(b) = {} => granted[b] = Deps(b)
    BY ZenonT(30), <1>0, <1>3, DepsFacts DEF BlockInv, Need, Pushed
  <2>2. BlockInv(b)'
    <3>1. /\ todo'[b] = {} /\ granted'[b] = granted[b] /\ granted[b] \subseteq Deps(b)
          /\ Deps(b)' = Deps(b)
      BY Zenon, <1>0, <1>2, <1>3 DEF BlockInv, PushEnd, history
    <3>2. (phase'[b] = "ready" /\ granted[b] = Deps(b)) \/ phase'[b] = "waiting"
      BY Zenon, <1>4, <2>1
    <3> QED
      BY Zenon, <3>1, <3>2 DEF BlockInv
  <2>3. ASSUME NEW d \in Blk, d # b PROVE BlockInv(d)'
    BY SMTT(40), <1>2, <1>4, <2>3 DEF IInv, BlockInv, PushEnd, history
  <2> QED
    BY Zenon, <2>2, <2>3
<1>7. \A d, e \in Blk, u \in Var : TrigInv(d, e, u)'
  <2> SUFFICES ASSUME NEW d \in Blk, NEW e \in Blk, NEW u \in Var, <<e, u>> \in trig[d]
               PROVE  TrigInv(d, e, u)'
    BY Zenon DEF PushEnd, TrigInv
  <2>1. TrigInv(d, e, u)
    BY Zenon DEF IInv
  <2>2. e = b => Need(b) # {}
    BY ZenonT(30), <1>0, <1>3, <2>1 DEF TrigInv, Need, Owed, BlockInv
  <2> QED
    BY Zenon, <1>3, <1>4, <2>1, <2>2 DEF TrigInv, PushEnd, history
<1>8. \A d \in Blk, u \in Var : /\ OnVar(d, u)' <=> OnVar(d, u)
                                /\ Arrived(d, u) <=> Arrived(d, u)'
                                /\ InUse(d, u) => InUse(d, u)'
  <2> SUFFICES ASSUME NEW d \in Blk, NEW u \in Var
               PROVE  /\ OnVar(d, u)' <=> OnVar(d, u)
                      /\ Arrived(d, u) <=> Arrived(d, u)'
                      /\ InUse(d, u) => InUse(d, u)'
    BY Zenon
  <2>0. todo' = todo /\ Deps(d)' = Deps(d)
    BY Zenon, <1>2 DEF PushEnd
  <2>1. CASE d = b
    <3>1. phase[d] = "pushing" /\ todo[d] = {} /\ phase'[d] \in {"ready", "waiting"}
      BY Zenon, <1>3, <1>4, <2>1
    <3> QED
      BY Zenon, <2>0, <3>1 DEF OnVar, Arrived, InUse, Pushed
  <2>2. CASE d # b
    BY Zenon, <1>4, <2>0, <2>2 DEF OnVar, Arrived, InUse, Pushed
  <2> QED
    BY Zenon, <2>1, <2>2
<1>9. \A u \in Var : Keeps(u) /\ KeepsDelete(u)
  BY SMTT(40), <1>3, <1>4, <1>8 DEF Keeps, KeepsDelete, PushEnd, varState, history
<1>10. PendingInv'
  <2>1. Active' = Active
    BY Zenon, <1>3, <1>4 DEF Active
  <2> QED
    BY Zenon, <2>1 DEF IInv, PendingInv, PushEnd
<1> QED
  BY Zenon, <1>1, <1>5, <1>6, <1>7, <1>9, <1>10, VarFrame, DeleteFrame DEF IInv

(***************************************************************************)
(* Completion.                                                             *)
(***************************************************************************)

(* A block on v that v has not let through waits for v. *)
LEMMA WaiterFacts ==
    ASSUME IInv, NEW x \in Blk, NEW v \in Var, OnVar(x, v), v \notin granted[x]
    PROVE  /\ x \in Pushed /\ phase[x] \in {"pushing", "waiting"}
           /\ v \notin todo[x] /\ v \in Deps(x) /\ ~Owed(x, v)
<1>1. BlockInv(x) /\ \A c \in Blk : TrigInv(c, x, v)
  BY Zenon DEF IInv
<1> QED
  BY Zenon, <1>1 DEF BlockInv, TrigInv, OnVar, Owed

(* What is known of v when a block completes its access to v. *)
LEMMA CompletingFacts ==
    ASSUME Counting, IInv, NEW b \in Blk, NEW v \in Var, phase[b] = "completing", v \in todo[b]
    PROVE  /\ b \in Pushed /\ OnVar(b, v) /\ v \in granted[b] /\ v \in Deps(b) /\ alive[v]
           /\ v \in CV(b) => /\ b \in Readers(v) /\ v \notin MV(b)
                             /\ num_pending_reads[v] = Cardinality(Readers(v))
                             /\ \A i \in 1 .. Len(queue[v]) :
                                   v \notin granted[queue[v][i].blk]
           /\ v \in MV(b) => /\ Len(queue[v]) > 0 /\ queue[v][1].blk = b
                             /\ num_pending_reads[v] = kWriteTriggered
                             /\ Readers(v) = {}
                             /\ \A x \in Blk : v \in granted[x] => x = b
<1>1. /\ TypeOK /\ BlockInv(b) /\ QueueInv(v) /\ CountInv(v) /\ DeleteInv(v)
      /\ Len(queue[v]) \in Nat
  BY Zenon, QueueType DEF IInv
<1>2. b \in Pushed /\ OnVar(b, v) /\ v \in granted[b] /\ v \in Deps(b)
  BY Zenon, <1>1 DEF BlockInv, Pushed, OnVar
<1>3. alive[v]
  BY Zenon, <1>1, <1>2 DEF DeleteInv
<1>4. ASSUME v \in CV(b)
      PROVE  /\ b \in Readers(v) /\ v \notin MV(b)
             /\ num_pending_reads[v] = Cardinality(Readers(v))
             /\ \A i \in 1 .. Len(queue[v]) : v \notin granted[queue[v][i].blk]
  <2>1. b \in Readers(v) /\ v \notin MV(b)
    BY Zenon, <1>1, <1>2, <1>4, DepsFacts DEF Readers
  <2>2. num_pending_reads[v] = Cardinality(Readers(v)) /\ IsFiniteSet(Readers(v))
    BY Zenon, <1>1, <1>3, <2>1 DEF CountInv
  <2>3. Cardinality(Readers(v)) \in Nat
    BY Zenon, <2>2 DEF Counting, CountType
  <2> QED
    BY SMTT(40), <1>1, <2>1, <2>2, <2>3 DEF QueueInv, kWriteTriggered
<1>5. ASSUME v \in MV(b)
      PROVE  /\ Len(queue[v]) > 0 /\ queue[v][1].blk = b
             /\ num_pending_reads[v] = kWriteTriggered
             /\ Readers(v) = {}
             /\ \A x \in Blk : v \in granted[x] => x = b
  <2>1. PICK i \in 1 .. Len(queue[v]) : queue[v][i].blk = b
    BY Zenon, <1>1, <1>2, <1>5 DEF QueueInv
  <2>2. i = 1 /\ num_pending_reads[v] = kWriteTriggered /\ Len(queue[v]) > 0
    BY SMTT(40), SMTT(40), <1>1, <1>2, <2>1 DEF QueueInv
  <2>3. Readers(v) = {}
    BY SMTT(40), <1>1, <1>3, <2>2 DEF Counting, CountType, CountInv, kWriteTriggered
  <2>4. ASSUME NEW x \in Blk, v \in granted[x] PROVE x = b
    <3>1. BlockInv(x) /\ x \in Pushed
      BY Zenon, <2>4 DEF IInv, BlockInv, Pushed
    <3>2. v \in Deps(x) /\ OnVar(x, v)
      BY Zenon, <1>1, <2>4, <3>1 DEF BlockInv, OnVar, TypeOK, Phase
    <3>3. v \in MV(x)
      BY Zenon, <2>3, <2>4, <3>1, <3>2 DEF Readers, Deps
    <3> QED
      BY Zenon, <1>1, <2>1, <2>2, <2>4, <3>2, <3>3 DEF QueueInv
  <2> QED
    BY Zenon, <2>1, <2>2, <2>3, <2>4
<1> QED
  BY Zenon, <1>2, <1>3, <1>4, <1>5

(* A completing block gives v back and v lets the blocks of S through, for *)
(* whom it then owes a decr_wait.                                          *)
GivesBack(b, v, S) ==
    /\ phase[b] = "completing" /\ v \in todo[b] /\ trig[b] = {}
    /\ \A x \in S : OnVar(x, v) /\ v \notin granted[x]
    /\ todo' = [todo EXCEPT ![b] = @ \ {v}]
    /\ trig' = [trig EXCEPT ![b] = S \X {v}]
    /\ Pass(b, v, S)
    /\ to_delete' = to_delete /\ opr' = opr /\ wait' = wait /\ phase' = phase
    /\ pusher' = pusher /\ pending' = pending /\ prior' = prior
    /\ \A u \in Var : u # v => /\ queue'[u] = queue[u] /\ alive'[u] = alive[u]
                                /\ num_pending_reads'[u] = num_pending_reads[u]

(* Giving v back concerns no other variable and keeps every block in order. *)
LEMMA LetThrough ==
    ASSUME Counting, IInv, NEW b \in Blk, NEW v \in Var, NEW S \in SUBSET Blk, GivesBack(b, v, S)
    PROVE  /\ todo' \in [Blk -> SUBSET Var] /\ trig' \in [Blk -> SUBSET (Blk \X Var)]
           /\ granted' \in [Blk -> SUBSET Var]
           /\ \A d \in Blk : WaitInv(d)' /\ BlockInv(d)'
           /\ \A d, e \in Blk, u \in Var : TrigInv(d, e, u)'
           /\ \A u \in Var : u # v => Keeps(u) /\ KeepsDelete(u)
           /\ PendingInv'
           /\ Pushed' = Pushed
           /\ \A d \in Blk : /\ CV(d)' = CV(d) /\ MV(d)' = MV(d) /\ IsDelete(d)' = IsDelete(d)
                             /\ v \in granted'[d] <=> d \in S \/ (d # b /\ v \in granted[d])
                             /\ OnVar(d, v)' <=> OnVar(d, v) /\ d # b
                             /\ Arrived(d, v)' <=> Arrived(d, v)
                             /\ InUse(d, v)' <=> InUse(d, v) /\ d # b
                             /\ v \in todo'[d] <=> v \in todo[d] /\ d # b
<1>0. TypeOK /\ BlockInv(b)
  BY Zenon DEF IInv
<1>1. /\ b \in Pushed /\ OnVar(b, v) /\ v \in granted[b] /\ v \in Deps(b)
  BY Zenon, CompletingFacts DEF GivesBack
<1>2. /\ b \notin S
      /\ \A x \in S : /\ phase[x] \in {"pushing", "waiting"}
                      /\ v \notin todo[x] /\ v \in Deps(x) /\ ~Owed(x, v)
  BY Zenon, <1>1, WaiterFacts DEF GivesBack
<1>3. /\ todo'[b] = todo[b] \ {v} /\ trig'[b] = S \X {v} /\ granted'[b] = granted[b] \ {v}
      /\ \A d \in Blk : d # b => todo'[d] = todo[d] /\ trig'[d] = trig[d]
      /\ \A d \in Blk : d # b => granted'[d] = IF d \in S THEN granted[d] \cup {v} ELSE granted[d]
  BY Zenon, <1>0, <1>2 DEF TypeOK, Pass, GivesBack
<1>15. /\ phase[b] = "completing" /\ v \in todo[b] /\ trig[b] = {}
       /\ phase' = phase /\ opr' = opr /\ wait' = wait /\ pending' = pending
       /\ to_delete' = to_delete /\ prior' = prior
       /\ \A x \in S : v \notin granted[x]
  BY Zenon DEF GivesBack
<1>4. /\ todo' \in [Blk -> SUBSET Var] /\ trig' \in [Blk -> SUBSET (Blk \X Var)]
      /\ granted' \in [Blk -> SUBSET Var]
  <2>1. todo' \in [Blk -> SUBSET Var]
    BY Zenon, <1>0 DEF TypeOK, GivesBack
  <2>2. S \X {v} \in SUBSET (Blk \X Var)
    BY Zenon
  <2>3. trig' \in [Blk -> SUBSET (Blk \X Var)]
    BY Zenon, <1>0, <2>2 DEF TypeOK, GivesBack
  <2>4. granted' \in [Blk -> SUBSET Var]
    BY Zenon, <1>0 DEF TypeOK, Pass, GivesBack
  <2> QED
    BY Zenon, <2>1, <2>3, <2>4
<1>5. /\ Pushed' = Pushed /\ Active' = Active
      /\ \A d \in Blk : /\ CV(d)' = CV(d) /\ MV(d)' = MV(d) /\ Deps(d)' = Deps(d)
                        /\ IsDelete(d)' = IsDelete(d)
  BY Zenon DEF Pushed, Active, CV, MV, Deps, IsDelete, GivesBack
<1>6. \A d \in Blk, u \in Var :
         Owed(d, u)' <=> Owed(d, u) \/ (d \in S /\ u = v)
  <2>1. \A d \in Blk, u \in Var, x \in Blk :
           <<d, u>> \in trig'[x] <=> <<d, u>> \in trig[x] \/ (x = b /\ d \in S /\ u = v)
    BY <1>3, <1>15
  <2> QED
    BY Zenon, <2>1 DEF Owed
<1>7. \A d \in Blk : d # b => Need(d)' = Need(d)
  <2> SUFFICES ASSUME NEW d \in Blk, d # b PROVE Need(d)' = Need(d)
    BY Zenon
  <2>1. \A u \in Var : (u \in granted'[d] => Owed(d, u)') <=> (u \in granted[d] => Owed(d, u))
    <3>1. CASE d \in S
      <4>1. v \notin granted[d] /\ granted'[d] = granted[d] \cup {v}
        BY Zenon, <1>3, <1>15, <3>1
      <4>2. Owed(d, v)' /\ \A u \in Var : u # v => (Owed(d, u)' <=> Owed(d, u))
        BY Zenon, <1>6, <3>1
      <4> QED
        BY Zenon, <4>1, <4>2
    <3>2. CASE d \notin S
      BY Zenon, <1>3, <1>6, <3>2
    <3> QED
      BY Zenon, <3>1, <3>2
  <2> QED
    BY Zenon, <1>5, <2>1 DEF Need
<1>8. \A d \in Blk : WaitInv(d)'
  <2>1. WaitInv(b)'
    BY Zenon, <1>15 DEF IInv, WaitInv
  <2>2. ASSUME NEW d \in Blk, d # b PROVE WaitInv(d)'
    BY Zenon, <1>7, <1>15, <2>2 DEF IInv, WaitInv
  <2> QED
    BY Zenon, <2>1, <2>2
<1>9. \A d \in Blk : BlockInv(d)'
  <2>1. BlockInv(b)'
    BY Zenon, <1>0, <1>3, <1>5, <1>15 DEF BlockInv
  <2>2. ASSUME NEW d \in Blk, d # b PROVE BlockInv(d)'
    <3>1. BlockInv(d)
      BY Zenon DEF IInv
    <3>2. CASE d \in S
      <4>1. /\ granted'[d] = granted[d] \cup {v} /\ todo'[d] = todo[d] /\ Deps(d)' = Deps(d)
            /\ phase[d] \in {"pushing", "waiting"} /\ v \notin todo[d] /\ v \in Deps(d)
            /\ phase'[d] = phase[d]
        BY Zenon, <1>2, <1>3, <1>5, <1>15, <2>2, <3>2
      <4> QED
        BY Zenon, <3>1, <4>1 DEF BlockInv
    <3>3. CASE d \notin S
      BY Zenon, <1>3, <1>5, <1>15, <2>2, <3>1, <3>3 DEF BlockInv
    <3> QED
      BY Zenon, <3>2, <3>3
  <2> QED
    BY Zenon, <2>1, <2>2
<1>10. \A d, e \in Blk, u \in Var : TrigInv(d, e, u)'
  <2> SUFFICES ASSUME NEW d \in Blk, NEW e \in Blk, NEW u \in Var, <<e, u>> \in trig'[d]
               PROVE  TrigInv(d, e, u)'
    BY Zenon DEF TrigInv
  <2>1. CASE d = b
    <3>1. e \in S /\ u = v /\ ~Owed(e, v) /\ phase[e] \in {"pushing", "waiting"} /\ e # b
      BY Zenon, <1>2, <1>3, <2>1
    <3>2. u \in granted'[e] /\ \A x \in Blk : <<e, u>> \in trig'[x] => x = b
      BY Zenon, <1>3, <3>1 DEF Owed
    <3> QED
      BY Zenon, <1>15, <2>1, <3>1, <3>2 DEF TrigInv
  <2>2. CASE d # b
    <3>1. <<e, u>> \in trig[d] /\ TrigInv(d, e, u)
      BY Zenon, <1>3, <2>2 DEF IInv
    <3>2. e # b /\ u \in granted'[e]
      BY Zenon, <1>3, <1>15, <3>1 DEF TrigInv
    <3>3. ~(e \in S /\ u = v)
      BY Zenon, <1>2, <3>1 DEF Owed
    <3>4. \A x \in Blk : <<e, u>> \in trig'[x] => <<e, u>> \in trig[x]
      BY SMTT(40), SMTT(40), <1>3, <3>3
    <3> QED
      BY Zenon, <1>15, <3>1, <3>2, <3>4 DEF TrigInv
  <2> QED
    BY Zenon, <2>1, <2>2
<1>11. \A d \in Blk, u \in Var :
          /\ OnVar(d, u)' <=> OnVar(d, u) /\ ~(d = b /\ u = v)
          /\ Arrived(d, u)' <=> Arrived(d, u)
          /\ InUse(d, u)' <=> InUse(d, u) /\ ~(d = b /\ u = v)
  BY SMTT(40), <1>3, <1>5, <1>15 DEF OnVar, Arrived, InUse
<1>12. \A u \in Var : u # v => Keeps(u) /\ KeepsDelete(u)
  <2> SUFFICES ASSUME NEW u \in Var, u # v PROVE Keeps(u) /\ KeepsDelete(u)
    BY Zenon
  <2>1. \A d \in Blk : /\ u \in granted'[d] <=> u \in granted[d]
                       /\ u \in todo'[d] <=> u \in todo[d]
    BY ZenonT(30), <1>3
  <2>2. /\ queue'[u] = queue[u] /\ alive'[u] = alive[u] /\ to_delete'[u] = to_delete[u]
        /\ num_pending_reads'[u] = num_pending_reads[u]
        /\ \A d \in Blk : phase'[d] = phase[d] /\ opr'[d] = opr[d] /\ prior'[d] = prior[d]
    BY Zenon DEF GivesBack
  <2>3. \A d \in Blk : /\ OnVar(d, u)' <=> OnVar(d, u)
                       /\ Arrived(d, u)' <=> Arrived(d, u)
                       /\ InUse(d, u)' <=> InUse(d, u)
    BY Zenon, <1>11
  <2>4. Keeps(u)
    BY Zenon, <2>1, <2>2, <2>3 DEF Keeps
  <2>5. KeepsDelete(u)
    BY Zenon, <2>1, <2>2, <2>3 DEF KeepsDelete
  <2> QED
    BY Zenon, <2>4, <2>5
<1>13. PendingInv'
  BY Zenon, <1>5, <1>15 DEF IInv, PendingInv
<1>14. \A d \in Blk : /\ v \in granted'[d] <=> d \in S \/ (d # b /\ v \in granted[d])
                      /\ v \in todo'[d] <=> v \in todo[d] /\ d # b
  BY Zenon, <1>2, <1>3
<1> QED
  BY Zenon, <1>4, <1>5, <1>8, <1>9, <1>10, <1>11, <1>12, <1>13, <1>14

(* CompleteReadDependency: the last read triggers the pending write. *)
LEMMA CompleteReadInv ==
    ASSUME Counting, IInv, NEW b \in Blk, NEW v \in Var, CompleteReadDependency(b, v)
    PROVE  IInv'
<1> DEFINE S == IF LastRead(v) THEN {queue[v][1].blk} ELSE {}
<1>0. /\ TypeOK /\ QueueInv(v) /\ CountInv(v) /\ DeleteInv(v) /\ OrderInv(v)
      /\ queue[v] \in Seq(Entries) /\ Len(queue[v]) \in Nat
      /\ \A i \in 1 .. Len(queue[v]) : queue[v][i].blk \in Blk
      /\ queue[v] = <<>> <=> Len(queue[v]) = 0
  BY Zenon, QueueType, EmptyQueue DEF IInv
<1>1. /\ phase[b] = "completing" /\ trig[b] = {} /\ v \in todo[b] /\ v \in CV(b)
      /\ queue' = queue /\ alive' = alive /\ version' = version /\ to_delete' = to_delete
      /\ opr' = opr /\ wait' = wait /\ phase' = phase /\ pusher' = pusher
      /\ pending' = pending /\ prior' = prior
      /\ todo' = [todo EXCEPT ![b] = @ \ {v}]
  BY Zenon DEF CompleteReadDependency
<1>2. /\ num_pending_reads' = [num_pending_reads EXCEPT ![v] =
                                 IF LastRead(v) THEN kWriteTriggered ELSE @ - 1]
      /\ trig' = [trig EXCEPT ![b] = S \X {v}]
      /\ Pass(b, v, S)
  <2>1. (IF LastRead(v) THEN {Head(queue[v]).blk} ELSE {}) = S
    BY SMTT(40), SMTT(40), <1>0
  <2> QED
    BY Zenon, <2>1 DEF CompleteReadDependency
<1>3. /\ b \in Readers(v) /\ v \notin MV(b) /\ b \in Pushed /\ alive[v] /\ v \in granted[b]
      /\ OnVar(b, v)
      /\ num_pending_reads[v] = Cardinality(Readers(v))
      /\ \A i \in 1 .. Len(queue[v]) : v \notin granted[queue[v][i].blk]
      /\ \A i \in 1 .. Len(queue[v]) : queue[v][i].blk # b
  BY SMTT(40), SMTT(40), <1>1, CompletingFacts
<1>4. /\ IsFiniteSet(Readers(v)) /\ Cardinality(Readers(v)) \in Nat
      /\ Cardinality(Readers(v)) > 0
      /\ IsFiniteSet(Readers(v) \ {b})
      /\ Cardinality(Readers(v) \ {b}) = Cardinality(Readers(v)) - 1
      /\ Cardinality(Readers(v)) = 1 => Readers(v) = {b}
  <2>1. IsFiniteSet(Readers(v))
    BY Zenon, <1>0 DEF CountInv
  <2>2. Cardinality(Readers(v)) \in Nat
    BY Zenon, <2>1 DEF Counting, CountType
  <2>3. /\ IsFiniteSet(Readers(v) \ {b})
        /\ Cardinality(Readers(v) \ {b}) = Cardinality(Readers(v)) - 1
    BY Zenon, <1>3, <2>1 DEF Counting, CountRemove
  <2>4. /\ Cardinality(Readers(v) \ {b}) \in Nat
        /\ Cardinality(Readers(v) \ {b}) = 0 => Readers(v) \ {b} = {}
    BY Zenon, <2>3 DEF Counting, CountType, CountNone
  <2> QED
    BY SMTT(40), <1>3, <2>1, <2>2, <2>3, <2>4
<1>5. /\ LastRead(v) <=> Cardinality(Readers(v)) = 1 /\ Len(queue[v]) > 0
      /\ S \in SUBSET Blk
      /\ \A x \in S : OnVar(x, v) /\ v \notin granted[x] /\ v \in MV(x)
  <2>1. LastRead(v) <=> Cardinality(Readers(v)) = 1 /\ Len(queue[v]) > 0
    BY SMTT(40), <1>0, <1>3 DEF LastRead
  <2> QED
    BY SMTT(40), SMTT(40), <1>0, <1>3, <2>1 DEF QueueInv
<1>6. GivesBack(b, v, S)
  <2>1. \A u \in Var : u # v => num_pending_reads'[u] = num_pending_reads[u]
    BY Zenon, <1>0, <1>2 DEF TypeOK
  <2> HIDE DEF S
  <2> QED
    BY Zenon, <1>1, <1>2, <1>5, <2>1 DEF GivesBack
<1>7. /\ todo' \in [Blk -> SUBSET Var] /\ trig' \in [Blk -> SUBSET (Blk \X Var)]
      /\ granted' \in [Blk -> SUBSET Var]
      /\ \A d \in Blk : WaitInv(d)' /\ BlockInv(d)'
      /\ \A d, e \in Blk, u \in Var : TrigInv(d, e, u)'
      /\ \A u \in Var : u # v => Keeps(u) /\ KeepsDelete(u)
      /\ PendingInv' /\ Pushed' = Pushed
      /\ \A d \in Blk : /\ CV(d)' = CV(d) /\ MV(d)' = MV(d) /\ IsDelete(d)' = IsDelete(d)
                        /\ v \in granted'[d] <=> d \in S \/ (d # b /\ v \in granted[d])
                        /\ OnVar(d, v)' <=> OnVar(d, v) /\ d # b
                        /\ Arrived(d, v)' <=> Arrived(d, v)
                        /\ InUse(d, v)' <=> InUse(d, v) /\ d # b
                        /\ v \in todo'[d] <=> v \in todo[d] /\ d # b
  <2> HIDE DEF S
  <2> QED
    BY Zenon, <1>5, <1>6, LetThrough
<1>8. num_pending_reads'[v] = IF LastRead(v) THEN kWriteTriggered ELSE num_pending_reads[v] - 1
  BY Zenon, <1>0, <1>2 DEF TypeOK
<1>9. TypeOK'
  <2>1. num_pending_reads' \in [Var -> Nat \cup {kWriteTriggered}]
    <3>1. num_pending_reads'[v] \in Nat \cup {kWriteTriggered}
      BY SMTT(40), <1>3, <1>4, <1>8
    <3> QED
      BY Zenon, <1>0, <1>2, <3>1 DEF TypeOK
  <2> QED
    BY Zenon, <1>0, <1>1, <1>7, <2>1 DEF TypeOK
<1>10. QueueInv(v)'
  <2>2. num_pending_reads'[v] = kWriteTriggered <=> LastRead(v)
    BY SMTT(40), <1>3, <1>4, <1>5, <1>8 DEF kWriteTriggered
  <2>3. ASSUME NEW i \in 1 .. Len(queue[v])
        PROVE  /\ OnVar(queue[v][i].blk, v)'
               /\ queue'[v][i].write <=> v \in MV(queue[v][i].blk)'
               /\ v \in granted'[queue'[v][i].blk] => i = 1 /\ LastRead(v)
    <3>1. PICK d \in Blk : d = queue[v][i].blk
      BY Zenon, <1>0
    <3>2. OnVar(d, v) /\ (queue[v][i].write <=> v \in MV(d)) /\ d # b /\ v \notin granted[d]
      BY Zenon, <1>0, <1>3, <3>1 DEF QueueInv
    <3>3. v \in granted'[d] => i = 1 /\ LastRead(v)
      <4>1. v \in granted'[d] => d \in S
        BY Zenon, <1>7, <3>2
      <4>2. d \in S => LastRead(v) /\ queue[v][1].blk = d
        BY Zenon
      <4> HIDE DEF S
      <4> QED
        BY SMTT(40), <1>0, <3>1, <4>1, <4>2 DEF QueueInv
    <3>4. OnVar(d, v)' /\ MV(d)' = MV(d) /\ queue'[v][i].blk = d
      BY Zenon, <1>1, <1>7, <3>1, <3>2
    <3> QED
      BY Zenon, <1>1, <3>2, <3>3, <3>4 DEF OnVar, MV, Deps, CV
  <2>4. LastRead(v) => v \in granted'[queue'[v][1].blk]
    BY Zenon, <1>0, <1>1, <1>5, <1>7
  <2>5. ASSUME NEW d \in Blk, OnVar(d, v)', v \in MV(d)' \/ v \notin granted'[d]
        PROVE  \E i \in 1 .. Len(queue'[v]) : queue'[v][i].blk = d
    <3>1. OnVar(d, v) /\ (v \in MV(d) \/ v \notin granted[d])
      <4> HIDE DEF S
      <4> QED
        BY Zenon, <1>7, <2>5
    <3> QED
      BY Zenon, <1>0, <1>1, <3>1 DEF QueueInv
  <2> QED
    BY Zenon, <1>0, <1>1, <2>2, <2>3, <2>4, <2>5 DEF QueueInv
<1>11. CountInv(v)'
  <2>1. Readers(v)' = Readers(v) \ {b}
    <3>1. \A d \in Blk : d \in S => v \notin CV(d)
      BY Zenon, <1>0, <1>5, DepsFacts DEF OnVar
    <3> HIDE DEF S
    <3> QED
      BY Zenon, <1>7, <3>1 DEF Readers, Pushed
  <2> HIDE DEF S
  <2> QED
    <3>1. CASE LastRead(v)
      BY Zenon, <1>1, <1>4, <1>5, <1>8, <2>1, <3>1 DEF CountInv
    <3>2. CASE ~LastRead(v)
      <4>1. num_pending_reads'[v] = Cardinality(Readers(v)')
        BY Zenon, <1>3, <1>4, <1>8, <2>1, <3>2
      <4>2. Len(queue[v]) > 0 => num_pending_reads'[v] > 0
        BY Zenon, <1>3, <1>4, <1>5, <1>8, <3>2, CountFacts
      <4> QED
        BY Zenon, <1>1, <1>4, <2>1, <4>1, <4>2 DEF CountInv
    <3> QED
      BY Zenon, <3>1, <3>2
<1>12. DeleteInv(v)'
  <2>1. ~IsDelete(b)
    BY Zenon, <1>0, <1>1, <1>3, DepsFacts, OprAssumption DEF IsDelete, CV
  <2>2. KeepsDelete(v)
    BY Zenon, <1>1, <1>7, <2>1 DEF KeepsDelete
  <2> QED
    BY Zenon, <2>2, DeleteFrame
<1>13. OrderInv(v)'
  <2>1. ASSUME NEW d \in Blk, NEW c \in Blk, d \in S, c \in prior[d][v], OnVar(c, v), c # b
        PROVE  FALSE
    <3>1. LastRead(v) /\ d = queue[v][1].blk
      BY Zenon, <2>1
    <3>2. c \notin Readers(v)
      BY Zenon, <1>4, <1>5, <2>1, <3>1
    <3>3. v \in MV(c) \/ v \notin granted[c]
      BY Zenon, <2>1, <3>2 DEF Readers, OnVar, Deps
    <3>4. PICK i \in 1 .. Len(queue[v]) : queue[v][i].blk = c
      BY Zenon, <1>0, <2>1, <3>3 DEF QueueInv
    <3> QED
      BY Zenon, <1>0, <2>1, <3>1, <3>4, HeadRange DEF OrderInv
  <2>2. \A d, c \in Blk : Conflict(d, c, v)' <=> Conflict(d, c, v)
    BY Zenon, <1>7 DEF Conflict
  <2>3. \A d, c \in Blk : v \in granted'[d] /\ c \in prior[d][v] /\ Conflict(d, c, v)
           => ~OnVar(c, v)'
    <3> HIDE DEF S
    <3> QED
      BY Zenon, <1>0, <1>7, <2>1 DEF OrderInv
  <2> HIDE DEF S
  <2> QED
    BY Zenon, <1>0, <1>1, <1>7, <2>2, <2>3 DEF OrderInv
<1> QED
  BY Zenon, <1>7, <1>9, <1>10, <1>11, <1>12, <1>13, VarFrame, DeleteFrame DEF IInv

(* CompleteWriteDependency on a variable that is to be deleted: the write  *)
(* is the last access to it.                                               *)
LEMMA DeleteVarInv ==
    ASSUME Counting, IInv, NEW b \in Blk, NEW v \in Var, CompleteWriteDependency(b, v), DeleteVar(b, v)
    PROVE  IInv'
<1>0. /\ TypeOK /\ QueueInv(v) /\ CountInv(v) /\ DeleteInv(v) /\ OrderInv(v)
      /\ Len(queue[v]) \in Nat /\ BlockInv(b)
  BY Zenon, QueueType DEF IInv
<1>1. /\ phase[b] = "completing" /\ trig[b] = {} /\ v \in todo[b] /\ todo[b] \cap CV(b) = {}
      /\ to_delete' = to_delete /\ to_delete[v]
      /\ opr' = opr /\ wait' = wait /\ phase' = phase /\ pusher' = pusher
      /\ pending' = pending /\ prior' = prior
      /\ todo' = [todo EXCEPT ![b] = @ \ {v}] /\ version' = [version EXCEPT ![v] = @ + 1]
  BY Zenon DEF CompleteWriteDependency, DeleteVar
<1>2. /\ queue' = [queue EXCEPT ![v] = <<>>] /\ alive' = [alive EXCEPT ![v] = FALSE]
      /\ trig' = trig /\ num_pending_reads' = num_pending_reads /\ Pass(b, v, {})
  BY Zenon DEF DeleteVar
<1>3. /\ v \in MV(b) /\ OnVar(b, v) /\ b \in Pushed /\ alive[v] /\ v \in granted[b]
      /\ Len(queue[v]) > 0 /\ queue[v][1].blk = b /\ Readers(v) = {}
      /\ \A x \in Blk : v \in granted[x] => x = b
  <2>1. v \in Deps(b) /\ v \in MV(b)
    BY Zenon, <1>0, <1>1 DEF BlockInv, Deps
  <2> QED
    BY Zenon, <1>1, <2>1, CompletingFacts
<1>4. IsDelete(b) /\ Len(queue[v]) = 1
  <2>1. PICK d \in Pushed : IsDelete(d) /\ v \in MV(d) /\ InUse(d, v)
    BY Zenon, <1>0, <1>1, <1>3 DEF DeleteInv
  <2>2. d \in Blk /\ BlockInv(d)
    BY Zenon DEF Pushed, IInv
  <2>3. v \in granted[d]
    BY Zenon, <2>1, <2>2 DEF InUse, BlockInv
  <2>4. d = b
    BY Zenon, <1>3, <2>2, <2>3
  <2>5. \A i \in 1 .. Len(queue[v]) : queue[v][i].blk = b => i = Len(queue[v])
    BY Zenon, <1>0, <2>1, <2>4 DEF DeleteInv
  <2>6. Len(queue[v]) = 1
    <3>1. 1 \in 1 .. Len(queue[v])
      BY SMTT(40), <1>0, <1>3
    <3> QED
      BY Zenon, <1>3, <2>5, <3>1
  <2> QED
    BY Zenon, <2>1, <2>4, <2>6
<1>5. GivesBack(b, v, {})
  <2>1. trig' = [trig EXCEPT ![b] = {} \X {v}]
    BY Zenon, <1>0, <1>1, <1>2 DEF TypeOK
  <2>2. \A u \in Var : u # v => queue'[u] = queue[u] /\ alive'[u] = alive[u]
    BY Zenon, <1>0, <1>2 DEF TypeOK
  <2> QED
    BY Zenon, <1>1, <1>2, <2>1, <2>2 DEF GivesBack
<1>6. /\ todo' \in [Blk -> SUBSET Var] /\ granted' \in [Blk -> SUBSET Var]
      /\ \A d \in Blk : WaitInv(d)' /\ BlockInv(d)'
      /\ \A d, e \in Blk, u \in Var : TrigInv(d, e, u)'
      /\ \A u \in Var : u # v => Keeps(u) /\ KeepsDelete(u)
      /\ PendingInv' /\ Pushed' = Pushed
      /\ \A d \in Blk : /\ CV(d)' = CV(d) /\ MV(d)' = MV(d) /\ IsDelete(d)' = IsDelete(d)
                        /\ v \in granted'[d] <=> d \in {} \/ (d # b /\ v \in granted[d])
                        /\ OnVar(d, v)' <=> OnVar(d, v) /\ d # b
                        /\ Arrived(d, v)' <=> Arrived(d, v)
                        /\ v \in todo'[d] <=> v \in todo[d] /\ d # b
  <2>1. {} \in SUBSET Blk
    BY Zenon
  <2> DEFINE Z == {}
  <2>2. GivesBack(b, v, Z) /\ Z \in SUBSET Blk /\ \A x \in Z : OnVar(x, v) /\ v \notin granted[x]
    BY Zenon, <1>5, <2>1
  <2> HIDE DEF Z
  <2>3. /\ todo' \in [Blk -> SUBSET Var] /\ granted' \in [Blk -> SUBSET Var]
        /\ \A d \in Blk : WaitInv(d)' /\ BlockInv(d)'
        /\ \A d, e \in Blk, u \in Var : TrigInv(d, e, u)'
        /\ \A u \in Var : u # v => Keeps(u) /\ KeepsDelete(u)
        /\ PendingInv' /\ Pushed' = Pushed
        /\ \A d \in Blk : /\ CV(d)' = CV(d) /\ MV(d)' = MV(d) /\ IsDelete(d)' = IsDelete(d)
                          /\ v \in granted'[d] <=> d \in Z \/ (d # b /\ v \in granted[d])
                          /\ OnVar(d, v)' <=> OnVar(d, v) /\ d # b
                          /\ Arrived(d, v)' <=> Arrived(d, v)
                          /\ v \in todo'[d] <=> v \in todo[d] /\ d # b
    BY Zenon, <2>2, LetThrough
  <2> QED
    BY Zenon, <2>3 DEF Z
<1>7. queue'[v] = <<>> /\ Len(queue'[v]) = 0 /\ alive'[v] = FALSE
  BY Zenon, <1>0, <1>2 DEF TypeOK
<1>8. TypeOK'
  <2>1. queue' \in [Var -> Seq([blk : Blk, write : BOOLEAN])]
    <3> DEFINE E == Seq([blk : Blk, write : BOOLEAN])
    <3>1. <<>> \in E
      OBVIOUS
    <3>2. queue \in [Var -> E]
      BY Zenon, <1>0 DEF TypeOK
    <3> HIDE DEF E
    <3>3. queue' \in [Var -> E]
      BY Zenon, <1>2, <3>1, <3>2
    <3> QED
      BY Zenon, <3>3 DEF E
  <2>2. alive' \in [Var -> BOOLEAN] /\ version' \in [Var -> Nat]
    BY Zenon, <1>0, <1>1, <1>2, CountFacts DEF TypeOK
  <2> QED
    BY Zenon, <1>0, <1>1, <1>2, <1>6, <2>1, <2>2 DEF TypeOK
<1>9. \A d \in Blk : ~OnVar(d, v)' /\ v \notin granted'[d]
  <2> SUFFICES ASSUME NEW d \in Blk PROVE ~OnVar(d, v)' /\ v \notin granted'[d]
    BY Zenon
  <2>1. v \notin granted'[d]
    BY Zenon, <1>3, <1>6
  <2>2. ASSUME OnVar(d, v), d # b PROVE FALSE
    <3>1. v \notin granted[d]
      BY Zenon, <1>3, <2>2
    <3>2. PICK i \in 1 .. Len(queue[v]) : queue[v][i].blk = d
      BY Zenon, <1>0, <2>2, <3>1 DEF QueueInv
    <3> QED
      BY SMTT(40), <1>3, <1>4, <2>2, <3>2
  <2> QED
    BY Zenon, <1>6, <2>1, <2>2
<1>10. QueueInv(v)'
  BY Zenon, <1>7, <1>9, EmptyRange DEF QueueInv
<1>11. CountInv(v)'
  <2>1. Readers(v)' = {}
    BY Zenon, <1>9 DEF Readers, Pushed
  <2> QED
    BY Zenon, <1>7, <2>1 DEF Counting, CountNone, CountInv
<1>12. DeleteInv(v)'
  <2>1. Pushed \subseteq Blk
    BY Zenon DEF Pushed
  <2>2. \A c \in Pushed' : ~(phase'[c] = "pushing" /\ v \in todo'[c])
    <3>1. \A c \in Pushed : phase[c] = "pushing" /\ v \in todo[c] => c = b
      BY Zenon, <1>0, <1>3, <1>4 DEF DeleteInv
    <3> QED
      BY Zenon, <1>1, <1>6, <2>1, <3>1
  <2>3. Condemned(v)'
    BY ZenonT(30), <1>3, <1>4, <1>6 DEF Condemned
  <2> QED
    BY Zenon, <1>6, <1>7, <1>9, <2>1, <2>2, <2>3, EmptyRange DEF DeleteInv
<1>13. OrderInv(v)'
  BY Zenon, <1>0, <1>1, <1>6, <1>7, <1>9, EmptyRange DEF OrderInv
<1> QED
  BY Zenon, <1>6, <1>8, <1>10, <1>11, <1>12, <1>13, VarFrame, DeleteFrame DEF IInv

(* CompleteWriteDependency otherwise: the write and the k reads behind it  *)
(* leave the list; the reads, or else the next write, are let through.     *)
LEMMA DetachChainInv ==
    ASSUME Counting, IInv, NEW b \in Blk, NEW v \in Var, NEW k \in 0 .. Len(queue[v]) - 1,
           CompleteWriteDependency(b, v), DetachChain(b, v, k)
    PROVE  IInv'
<1> DEFINE n == Len(queue[v])
           R == {queue[v][i].blk : i \in 2 .. k + 1}
           W == IF k = 0 /\ n > 1 THEN {queue[v][2].blk} ELSE {}
           S == R \cup W
<1>0. /\ TypeOK /\ QueueInv(v) /\ CountInv(v) /\ DeleteInv(v) /\ OrderInv(v) /\ BlockInv(b)
      /\ queue[v] \in Seq(Entries) /\ n \in Nat
      /\ \A i \in 1 .. n : queue[v][i].blk \in Blk /\ queue[v][i].write \in BOOLEAN
  BY Zenon, QueueType DEF IInv
<1>1. /\ phase[b] = "completing" /\ trig[b] = {} /\ v \in todo[b] /\ todo[b] \cap CV(b) = {}
      /\ to_delete' = to_delete /\ ~to_delete[v]
      /\ opr' = opr /\ wait' = wait /\ phase' = phase /\ pusher' = pusher
      /\ pending' = pending /\ prior' = prior /\ alive' = alive
      /\ todo' = [todo EXCEPT ![b] = @ \ {v}] /\ version' = [version EXCEPT ![v] = @ + 1]
  BY Zenon DEF CompleteWriteDependency, DetachChain
<1>2. /\ ReadChain(queue[v], k)
      /\ queue' = [queue EXCEPT ![v] = Rest(queue[v], k)]
      /\ num_pending_reads' = [num_pending_reads EXCEPT ![v] =
                                 IF W # {} THEN kWriteTriggered ELSE k]
      /\ trig' = [trig EXCEPT ![b] = S \X {v}]
      /\ Pass(b, v, S)
  BY Zenon DEF DetachChain
<1>3. /\ v \in MV(b) /\ OnVar(b, v) /\ b \in Pushed /\ alive[v] /\ v \in granted[b]
      /\ n > 0 /\ queue[v][1].blk = b /\ Readers(v) = {}
      /\ \A x \in Blk : v \in granted[x] => x = b
  <2>1. v \in Deps(b) /\ v \in MV(b)
    BY Zenon, <1>0, <1>1 DEF BlockInv, Deps
  <2> QED
    BY Zenon, <1>1, <2>1, CompletingFacts
<1>4. \A i \in 2 .. n : /\ queue[v][i].blk # b /\ OnVar(queue[v][i].blk, v)
                        /\ v \notin granted[queue[v][i].blk]
                        /\ queue[v][i].write <=> v \in MV(queue[v][i].blk)
  BY Zenon, <1>0, <1>3, HeadRange DEF QueueInv
<1>5. /\ k \in Nat /\ k < n
      /\ \A i \in 2 .. k + 1 : i \in 2 .. n /\ v \notin MV(queue[v][i].blk)
      /\ k + 2 <= n => k + 2 \in 2 .. n /\ v \in MV(queue[v][k + 2].blk)
  BY Zenon, <1>0, <1>2, <1>4, ChainRange DEF ReadChain
<1>6. /\ \A x \in R : \E i \in 2 .. k + 1 : x = queue[v][i].blk
      /\ \A x \in W : k = 0 /\ n > 1 /\ x = queue[v][2].blk
      /\ W # {} <=> k = 0 /\ n > 1
      /\ k = 0 => R = {}
  BY Zenon, EmptyRange
<1>7. /\ S \in SUBSET Blk
      /\ \A x \in S : OnVar(x, v) /\ v \notin granted[x] /\ x # b
  <2>1. \A x \in S : \E i \in 2 .. n : x = queue[v][i].blk
    BY Zenon, <1>0, <1>5, <1>6, HeadRange
  <2> HIDE DEF S
  <2> QED
    <3>1. \A i \in 2 .. n : queue[v][i].blk \in Blk
      BY Zenon, <1>0, HeadRange
    <3> QED
      BY Zenon, <1>4, <2>1, <3>1
<1>8. /\ queue'[v] \in Seq(Entries) /\ Len(queue'[v]) = n - (k + 1)
      /\ \A i \in 1 .. n - (k + 1) : /\ i + k + 1 \in 2 .. n /\ i + k + 1 \in 1 .. n
                                      /\ queue'[v][i] = queue[v][i + k + 1]
      /\ num_pending_reads'[v] = IF W # {} THEN kWriteTriggered ELSE k
      /\ \A u \in Var : u # v => queue'[u] = queue[u] /\ num_pending_reads'[u] = num_pending_reads[u]
  <2> DEFINE q == Rest(queue[v], k)
  <2>1. /\ q \in Seq(Entries) /\ Len(q) = n - (k + 1)
        /\ \A i \in 1 .. n - (k + 1) : q[i] = queue[v][i + k + 1]
    BY Zenon, <1>0, RestEntries
  <2> HIDE DEF q
  <2>2. queue'[v] = q /\ \A u \in Var : u # v => queue'[u] = queue[u]
    BY Zenon, <1>0, <1>2 DEF TypeOK, q
  <2>3. /\ num_pending_reads'[v] = IF W # {} THEN kWriteTriggered ELSE k
        /\ \A u \in Var : u # v => num_pending_reads'[u] = num_pending_reads[u]
    <3> HIDE DEF W
    <3> QED
      BY Zenon, <1>0, <1>2 DEF TypeOK
  <2>4. \A i \in 1 .. n - (k + 1) : i + k + 1 \in 2 .. n /\ i + k + 1 \in 1 .. n
    BY SMTT(40), <1>0, <1>5
  <2> HIDE DEF W
  <2> QED
    BY Zenon, <2>1, <2>2, <2>3, <2>4
<1> HIDE DEF S
<1>9. GivesBack(b, v, S)
  BY Zenon, <1>1, <1>2, <1>7, <1>8 DEF GivesBack
<1>10. /\ todo' \in [Blk -> SUBSET Var] /\ trig' \in [Blk -> SUBSET (Blk \X Var)]
       /\ granted' \in [Blk -> SUBSET Var]
       /\ \A d \in Blk : WaitInv(d)' /\ BlockInv(d)'
       /\ \A d, e \in Blk, u \in Var : TrigInv(d, e, u)'
       /\ \A u \in Var : u # v => Keeps(u) /\ KeepsDelete(u)
       /\ PendingInv' /\ Pushed' = Pushed
       /\ \A d \in Blk : /\ CV(d)' = CV(d) /\ MV(d)' = MV(d) /\ IsDelete(d)' = IsDelete(d)
                         /\ v \in granted'[d] <=> d \in S \/ (d # b /\ v \in granted[d])
                         /\ OnVar(d, v)' <=> OnVar(d, v) /\ d # b
                         /\ Arrived(d, v)' <=> Arrived(d, v)
                         /\ v \in todo'[d] <=> v \in todo[d] /\ d # b
  BY Zenon, <1>7, <1>9, LetThrough
<1>11. \A d \in Blk : v \in granted'[d] <=> d \in S
  BY Zenon, <1>3, <1>10
<1>12. TypeOK'
  <2>1. queue' \in [Var -> Seq([blk : Blk, write : BOOLEAN])]
    <3> DEFINE E == Seq([blk : Blk, write : BOOLEAN])
    <3>1. Rest(queue[v], k) \in E /\ queue \in [Var -> E]
      BY Zenon, <1>0, RestEntries DEF TypeOK, Entries
    <3> HIDE DEF E
    <3>2. queue' \in [Var -> E]
      BY Zenon, <1>2, <3>1
    <3> QED
      BY Zenon, <3>2 DEF E
  <2>2. num_pending_reads' \in [Var -> Nat \cup {kWriteTriggered}]
    <3> HIDE DEF W
    <3> QED
      BY Zenon, <1>0, <1>2, <1>5 DEF TypeOK
  <2>3. version' \in [Var -> Nat]
    BY Zenon, <1>0, <1>1, CountFacts DEF TypeOK
  <2> QED
    BY Zenon, <1>0, <1>1, <1>10, <2>1, <2>2, <2>3 DEF TypeOK
<1>13. QueueInv(v)'
  <2> DEFINE m == n - (k + 1)
  <2>0. /\ n \in Nat /\ \A i \in 1 .. n : queue[v][i].blk \in Blk
        /\ \A i, j \in 1 .. n : queue[v][i].blk = queue[v][j].blk => i = j
    BY Zenon, <1>0 DEF QueueInv
  <2>1. ASSUME NEW i \in 1 .. m
        PROVE  /\ OnVar(queue[v][i].blk, v)'
               /\ queue'[v][i].write <=> v \in MV(queue[v][i].blk)'
               /\ v \in granted'[queue'[v][i].blk] =>
                     i = 1 /\ num_pending_reads'[v] = kWriteTriggered
    <3>1. i + k + 1 \in 2 .. n /\ queue'[v][i] = queue[v][i + k + 1]
      BY Zenon, <1>8
    <3>2. PICK d \in Blk : d = queue[v][i + k + 1].blk
      BY Zenon, <1>0, <1>8
    <3>3. d # b /\ OnVar(d, v) /\ (queue[v][i + k + 1].write <=> v \in MV(d))
      BY Zenon, <1>4, <3>1, <3>2
    <3>4. d \in S => d \in W
      <4>1. d \notin R
        <5> SUFFICES ASSUME NEW j \in 2 .. k + 1, queue[v][j].blk = d PROVE FALSE
          BY Zenon, <1>6
        <5>1. j \in 1 .. n /\ i + k + 1 \in 1 .. n /\ j # i + k + 1
          <6>1. j \in 2 .. n /\ i + k + 1 \in 1 .. n
            BY Zenon, <1>5, <1>8
          <6>2. j \in 1 .. n
            BY Zenon, <2>0, <6>1, HeadRange
          <6>3. j # i + k + 1
            BY Zenon, <1>5, <2>0, RestRange
          <6> QED
            BY Zenon, <6>1, <6>2, <6>3
        <5> QED
          BY Zenon, <2>0, <3>2, <5>1
      <4> QED
        BY Zenon, <4>1 DEF S
    <3>5. d \in W => i = 1 /\ num_pending_reads'[v] = kWriteTriggered
      <4>1. SUFFICES ASSUME d \in W PROVE i = 1 /\ num_pending_reads'[v] = kWriteTriggered
        BY Zenon
      <4>2. W # {} /\ k = 0 /\ n > 1 /\ d = queue[v][2].blk
        BY Zenon, <1>6, <4>1
      <4>3. 2 \in 1 .. n /\ i + k + 1 \in 1 .. n
        BY SMTT(40), <2>0, <3>1, <4>2
      <4>4. i + k + 1 = 2
        BY Zenon, <2>0, <3>2, <4>2, <4>3
      <4> HIDE DEF W
      <4> QED
        BY SMTT(40), <1>8, <4>2, <4>4
    <3>6. OnVar(d, v)' /\ MV(d)' = MV(d) /\ queue'[v][i].blk = d
          /\ queue'[v][i].write = queue[v][i + k + 1].write
      BY Zenon, <1>10, <3>1, <3>2, <3>3
    <3>7. v \in granted'[d] => i = 1 /\ num_pending_reads'[v] = kWriteTriggered
      BY Zenon, <1>11, <3>4, <3>5
    <3> QED
      BY Zenon, <3>3, <3>6, <3>7 DEF OnVar, MV, Deps, CV
  <2>2. ASSUME NEW i \in 1 .. m, NEW j \in 1 .. m, queue'[v][i].blk = queue'[v][j].blk
        PROVE  i = j
    <3>1. /\ i + k + 1 \in 1 .. n /\ queue'[v][i] = queue[v][i + k + 1]
          /\ j + k + 1 \in 1 .. n /\ queue'[v][j] = queue[v][j + k + 1]
      BY Zenon, <1>0, <1>8
    <3>2. i + k + 1 = j + k + 1
      BY Zenon, <2>0, <2>2, <3>1
    <3> QED
      BY SMTT(40), <1>5, <3>2
  <2>3. m > 0 => queue'[v][1].write
    <3>1. m > 0 => 1 \in 1 .. m /\ 1 + k + 1 = k + 2 /\ k + 2 <= n
      BY SMTT(40), <1>5, <2>0
    <3>2. m > 0 => queue'[v][1] = queue[v][k + 2]
      BY Zenon, <1>8, <3>1
    <3> QED
      BY Zenon, <1>4, <1>5, <3>1, <3>2
  <2>4. m > 0 /\ num_pending_reads'[v] = kWriteTriggered => v \in granted'[queue'[v][1].blk]
    <3> SUFFICES ASSUME m > 0, num_pending_reads'[v] = kWriteTriggered
                 PROVE  v \in granted'[queue'[v][1].blk]
      BY Zenon
    <3>1. W # {}
      <4> HIDE DEF W
      <4> QED
        BY Zenon, <1>5, <1>8, CountFacts
    <3>2. k = 0 /\ n > 1 /\ queue[v][2].blk \in S /\ queue[v][2].blk \in Blk
      BY Zenon, <1>0, <1>6, <3>1, HeadRange DEF S
    <3>3. queue'[v][1] = queue[v][2]
      <4>1. 1 \in 1 .. n - (k + 1) /\ 1 + k + 1 = 2
        BY Zenon, <1>0, <3>2, HeadRange
      <4> QED
        BY Zenon, <1>8, <4>1
    <3> QED
      BY Zenon, <1>11, <3>2, <3>3
  <2>5. ASSUME NEW d \in Blk, OnVar(d, v)', v \in MV(d)' \/ v \notin granted'[d]
        PROVE  \E i \in 1 .. m : queue'[v][i].blk = d
    <3>1. OnVar(d, v) /\ d # b /\ v \notin granted[d]
      BY Zenon, <1>3, <1>10, <2>5
    <3>2. PICK j \in 1 .. n : queue[v][j].blk = d
      BY Zenon, <1>0, <3>1 DEF QueueInv
    <3>3. j # 1
      BY Zenon, <1>3, <3>1, <3>2
    <3>4. j \notin 2 .. k + 1
      <4>1. SUFFICES ASSUME j \in 2 .. k + 1 PROVE FALSE
        BY Zenon
      <4>2. d \in S /\ v \notin MV(d)
        BY Zenon, <1>5, <3>2, <4>1 DEF S
      <4> QED
        BY Zenon, <1>10, <1>11, <2>5, <4>2
    <3>5. j - (k + 1) \in 1 .. m /\ (j - (k + 1)) + k + 1 = j
      <4>1. n \in Nat /\ k \in Nat /\ j \in 1 .. n
        BY Zenon, <1>5, <2>0
      <4> HIDE DEF n
      <4> QED
        BY SMTT(40), <3>3, <3>4, <4>1
    <3> QED
      BY Zenon, <1>8, <3>2, <3>5
  <2> QED
    BY Zenon, <1>8, <2>1, <2>2, <2>3, <2>4, <2>5 DEF QueueInv
<1>14. CountInv(v)'
  <2>1. IsFiniteSet(R) /\ Cardinality(R) = k
    <3>1. \A i, j \in 1 .. n : queue[v][i].blk = queue[v][j].blk => i = j
      BY Zenon, <1>0 DEF QueueInv
    <3> QED
      BY Zenon, <1>0, <1>5, <3>1, ChainBlocks
  <2>2. Readers(v)' = R
    <3>1. ASSUME NEW d \in R PROVE d \in Pushed /\ d \in Blk /\ v \in CV(d) /\ d \in S
      <4>1. PICK i \in 2 .. k + 1 : d = queue[v][i].blk
        BY Zenon, <1>6
      <4>2. d \in Blk /\ OnVar(d, v) /\ v \notin MV(d)
        BY Zenon, <1>0, <1>4, <1>5, <4>1, HeadRange
      <4> QED
        BY Zenon, <4>2 DEF OnVar, Deps, S
    <3>2. ASSUME NEW d \in W PROVE v \notin CV(d)
      <4>1. d \in Blk /\ OnVar(d, v) /\ v \in MV(d)
        <5>1. k = 0 /\ n > 1 /\ d = queue[v][2].blk
          BY Zenon, <1>6
        <5> HIDE DEF W
        <5> QED
          BY Zenon, <1>0, <1>4, <1>5, <5>1, HeadRange
      <4> QED
        BY Zenon, <1>0, <4>1, DepsFacts DEF OnVar
    <3>3. \A d \in S : d \in R \/ d \in W
      BY Zenon DEF S
    <3>4. Pushed \subseteq Blk
      BY Zenon DEF Pushed
    <3> HIDE DEF R, W
    <3> QED
      BY Zenon, <1>10, <1>11, <3>1, <3>2, <3>3, <3>4 DEF Readers
  <2>3. W # {} => Readers(v)' = {} /\ n - (k + 1) > 0
    BY SMTT(40), SMTT(40), <1>0, <1>5, <1>6, <2>2
  <2>4. W = {} /\ n - (k + 1) > 0 => k > 0
    <3>1. k = 0 \/ k > 0
      BY SMTT(40), <1>5
    <3>2. k = 0 /\ n - (k + 1) > 0 => n > 1
      BY SMTT(40), <1>0
    <3> QED
      BY Zenon, <1>6, <3>1, <3>2
  <2> HIDE DEF R, W
  <2> QED
    BY Zenon, <1>8, <2>1, <2>2, <2>3, <2>4 DEF CountInv
<1>15. DeleteInv(v)'
  <2>1. Pushed \subseteq Blk
    BY Zenon DEF Pushed
  <2>2. ASSUME NEW d \in Pushed, IsDelete(d), v \in MV(d)
        PROVE  /\ \A c \in Pushed' : phase'[c] = "pushing" /\ v \in todo'[c] => c = d
               /\ \A i \in 1 .. Len(queue'[v]) : queue'[v][i].blk = d => i = Len(queue'[v])
    <3>1. /\ \A c \in Pushed : phase[c] = "pushing" /\ v \in todo[c] => c = d
          /\ \A i \in 1 .. n : queue[v][i].blk = d => i = n
      BY Zenon, <1>0, <2>2 DEF DeleteInv
    <3>2. \A c \in Pushed' : phase'[c] = "pushing" /\ v \in todo'[c] => c = d
      BY Zenon, <1>1, <1>10, <2>1, <3>1
    <3>3. ASSUME NEW i \in 1 .. n - (k + 1), queue'[v][i].blk = d PROVE i = n - (k + 1)
      <4>1. i + k + 1 \in 1 .. n /\ queue[v][i + k + 1].blk = d
        BY Zenon, <1>0, <1>8, <3>3
      <4>2. i + k + 1 = n
        BY Zenon, <3>1, <4>1
      <4> QED
        BY SMTT(40), SMTT(40), <1>0, <1>5, <4>2
    <3> QED
      BY Zenon, <1>8, <3>2, <3>3
  <2>3. \A d \in Pushed' : IsDelete(d)' /\ v \in MV(d)' =>
           /\ \A c \in Pushed' : phase'[c] = "pushing" /\ v \in todo'[c] => c = d
           /\ \A i \in 1 .. Len(queue'[v]) : queue'[v][i].blk = d => i = Len(queue'[v])
    BY Zenon, <1>10, <2>1, <2>2
  <2>4. alive'[v] /\ ~to_delete'[v]
    BY Zenon, <1>1, <1>3
  <2> QED
    BY Zenon, <2>3, <2>4 DEF DeleteInv
<1>16. OrderInv(v)'
  <2>1. ASSUME NEW i \in 1 .. n - (k + 1), NEW j \in 1 .. n - (k + 1),
               queue'[v][i].blk \in prior[queue'[v][j].blk][v]
        PROVE  i < j
    <3>1. /\ i + k + 1 \in 1 .. n /\ queue'[v][i] = queue[v][i + k + 1]
          /\ j + k + 1 \in 1 .. n /\ queue'[v][j] = queue[v][j + k + 1]
      BY Zenon, <1>0, <1>8
    <3>2. i + k + 1 < j + k + 1
      BY Zenon, <1>0, <2>1, <3>1 DEF OrderInv
    <3> QED
      BY SMTT(40), <1>5, <3>2
  <2>2. ASSUME NEW d \in Blk, NEW c \in Blk, d \in S, c \in prior[d][v],
               Conflict(d, c, v), OnVar(c, v), c # b
        PROVE  FALSE
    <3>1. PICK i \in 1 .. n : queue[v][i].blk = c
      <4>1. v \notin granted[c]
        BY Zenon, <1>3, <2>2
      <4> QED
        BY Zenon, <1>0, <2>2, <4>1 DEF QueueInv
    <3>2. i # 1
      BY Zenon, <1>3, <2>2, <3>1
    <3>3. CASE d \in R
      <4>1. PICK j \in 2 .. k + 1 : d = queue[v][j].blk
        BY Zenon, <1>6, <3>3
      <4>2. j \in 1 .. n /\ v \notin MV(d)
        BY SMTT(40), <1>0, <1>5, <4>1
      <4>3. i < j
        BY Zenon, <1>0, <2>2, <3>1, <4>1, <4>2 DEF OrderInv
      <4>4. i \in 2 .. k + 1
        BY SMTT(40), SMTT(40), <1>5, <3>1, <3>2, <4>1, <4>3
      <4>5. v \notin MV(c)
        BY Zenon, <1>5, <3>1, <4>4
      <4> QED
        BY Zenon, <2>2, <4>2, <4>5 DEF Conflict
    <3>4. CASE d \in W
      <4>1. n > 1 /\ d = queue[v][2].blk
        BY Zenon, <1>6, <3>4
      <4>2. 2 \in 1 .. n
        BY <1>0, <4>1
      <4>3. i < 2
        BY Zenon, <1>0, <2>2, <3>1, <4>1, <4>2 DEF OrderInv
      <4> QED
        BY SMTT(40), <3>1, <3>2, <4>3
    <3> QED
      BY Zenon, <2>2, <3>3, <3>4 DEF S
  <2>3. \A d, c \in Blk : Conflict(d, c, v)' <=> Conflict(d, c, v)
    BY Zenon, <1>10 DEF Conflict
  <2>4. \A d, c \in Blk : v \in granted'[d] /\ c \in prior[d][v] /\ Conflict(d, c, v)
           => ~OnVar(c, v)'
    BY Zenon, <1>10, <1>11, <2>2
  <2> QED
    BY Zenon, <1>0, <1>1, <1>8, <1>10, <2>1, <2>3, <2>4 DEF OrderInv
<1> QED
  BY Zenon, <1>10, <1>12, <1>13, <1>14, <1>15, <1>16, VarFrame, DeleteFrame DEF IInv

(* Trigger takes one debt of decr_wait off a completing block. *)
LEMMA TriggerInv ==
    ASSUME Counting, IInv, NEW b \in Blk, NEW c \in Blk, NEW v \in Var, Trigger(b, c, v)
    PROVE  IInv'
<1>0. TypeOK
  BY Zenon DEF IInv
<1>1. /\ phase[b] = "completing" /\ phase[c] \in {"pushing", "waiting"}
      /\ v \in granted[c] /\ Owed(c, v) /\ v \in Deps(c)
  <2>1. <<c, v>> \in trig[b] /\ TrigInv(b, c, v) /\ BlockInv(c)
    BY Zenon DEF Trigger, IInv
  <2> QED
    BY Zenon, <2>1 DEF TrigInv, BlockInv, Owed
<1>2. TypeOK'
  <2>1. phase' \in [Blk -> Phase] /\ wait' \in [Blk -> Int]
    BY DEF IInv, TypeOK, Trigger, Phase
  <2>2. trig' \in [Blk -> SUBSET (Blk \X Var)]
    BY Zenon DEF IInv, TypeOK, Trigger
  <2>3. \A d \in Pushed' : opr'[d] \in Opr
    BY Zenon, <1>1 DEF IInv, TypeOK, Trigger, Pushed
  <2> QED
    BY Zenon, <2>1, <2>2, <2>3 DEF IInv, TypeOK, Trigger, varState, history
<1>3. \A d \in Blk, u \in Var : Owed(d, u)' <=> Owed(d, u) /\ ~(d = c /\ u = v)
  <2>1. \A x \in Blk : trig'[x] = IF x = b THEN trig[b] \ {<<c, v>>} ELSE trig[x]
    BY Zenon, <1>0 DEF TypeOK, Trigger
  <2>2. <<c, v>> \in trig[b] /\ \A x \in Blk : <<c, v>> \in trig[x] => x = b
    BY Zenon DEF IInv, TrigInv, Trigger
  <2> QED
    BY Zenon, <2>1, <2>2 DEF Owed
<1>4. /\ Need(c)' = Need(c) \ {v} /\ v \in Need(c)
      /\ \A d \in Blk : d # c => Need(d)' = Need(d)
  BY Zenon, <1>1, <1>3 DEF Trigger, Need, Deps, CV, MV, history
<1>5. /\ IsFiniteSet(Need(c)) /\ IsFiniteSet(Need(c)')
      /\ Cardinality(Need(c)') = Cardinality(Need(c)) - 1
      /\ Cardinality(Need(c)) \in Nat /\ Cardinality(Need(c)') \in Nat
      /\ Cardinality(Need(c)') = 0 <=> Need(c)' = {}
  <2>1. IsFiniteSet(Need(c))
    BY Zenon, <1>1 DEF IInv, WaitInv
  <2> QED
    BY SMTT(40), <2>1, <1>4 DEF Counting, CountRemove, CountType, CountNone
<1>6. \A d \in Blk : WaitInv(d)'
  <2>1. WaitInv(c)'
    <3>1. WaitInv(c) /\ wait'[c] = wait[c] - 1
          /\ phase'[c] = IF wait[c] = 1 THEN "ready" ELSE phase[c]
      BY Zenon, <1>0 DEF IInv, TypeOK, Trigger
    <3> QED
      BY SMTT(40), <1>1, <1>5, <3>1 DEF WaitInv
  <2>2. ASSUME NEW d \in Blk, d # c PROVE WaitInv(d)'
    <3>1. WaitInv(d) /\ wait'[d] = wait[d] /\ phase'[d] = phase[d] /\ Need(d)' = Need(d)
      BY Zenon, <1>0, <1>4, <2>2 DEF IInv, TypeOK, Trigger
    <3> QED
      BY Zenon, <3>1 DEF WaitInv
  <2> QED
    BY Zenon, <2>1, <2>2
<1>7. phase'[c] = "ready" => phase[c] = "waiting" /\ Need(c)' = {}
  <2>1. WaitInv(c) /\ DOMAIN phase = Blk /\ c \in Blk
    BY ZenonT(30), <1>0 DEF IInv, TypeOK
  <2> QED
    BY SMTT(40), <1>0, <1>1, <1>5, <2>1 DEF TypeOK, WaitInv, Trigger
<1>7a. \A d \in Blk : phase'[d] = phase[d] \/ (d = c /\ phase'[c] = "ready")
  BY Zenon, <1>0 DEF TypeOK, Trigger
<1>8. \A d \in Blk : BlockInv(d)'
  <2>1. phase'[c] = "ready" => granted[c] = Deps(c)
    BY Zenon, <1>0, <1>1, <1>7, DepsFacts DEF IInv, BlockInv, Need, Pushed, Trigger, history, Deps, CV, MV
  <2> SUFFICES ASSUME NEW d \in Blk PROVE BlockInv(d)'
    BY Zenon
  <2>2. BlockInv(d) /\ todo' = todo /\ granted' = granted /\ Deps(d)' = Deps(d)
    BY Zenon DEF IInv, Trigger, history, Deps, CV, MV
  <2>3. CASE phase'[d] = phase[d]
    BY Zenon, <2>2, <2>3 DEF BlockInv
  <2>4. CASE d = c /\ phase'[c] = "ready"
    <3>1. phase[d] = "waiting" /\ todo[d] = {} /\ granted[d] = Deps(d)
      BY Zenon, <1>7, <2>1, <2>2, <2>4 DEF BlockInv
    <3> QED
      BY Zenon, <2>2, <2>4, <3>1 DEF BlockInv
  <2> QED
    BY Zenon, <1>7a, <2>3, <2>4
<1>9. \A d, e \in Blk, u \in Var : TrigInv(d, e, u)'
  <2>1. \A d, e \in Blk, u \in Var : <<e, u>> \in trig'[d] => <<e, u>> \in trig[d]
    BY Zenon, <1>0 DEF TypeOK, Trigger
  <2>2. \A d \in Blk, u \in Var : <<c, u>> \in trig'[d] => phase'[c] # "ready"
    <3> SUFFICES ASSUME NEW d \in Blk, NEW u \in Var, <<c, u>> \in trig'[d],
                        phase'[c] = "ready"
                 PROVE  FALSE
      BY Zenon
    <3>1. u \in granted[c] /\ Owed(c, u)' /\ granted' = granted
      BY Zenon, <2>1 DEF IInv, TrigInv, Owed, Trigger, history
    <3>2. BlockInv(c) /\ Deps(c)' = Deps(c)
      BY Zenon DEF IInv, Trigger, Deps, CV, MV
    <3> QED
      BY Zenon, <1>7, <3>1, <3>2 DEF Need, BlockInv
  <2> SUFFICES ASSUME NEW d \in Blk, NEW e \in Blk, NEW u \in Var PROVE TrigInv(d, e, u)'
    BY ZenonT(30)
  <2> QED
    <3>1. /\ TrigInv(d, e, u) /\ granted' = granted
          /\ phase[b] = "completing" /\ phase[c] \in {"pushing", "waiting"}
      BY Zenon, <1>1 DEF IInv, Trigger, history
    <3>2. /\ \A x \in Blk : <<e, u>> \in trig'[x] => <<e, u>> \in trig[x]
          /\ e = c /\ <<e, u>> \in trig'[d] => phase'[c] # "ready"
          /\ phase'[d] = phase[d] \/ (d = c /\ phase'[c] = "ready")
          /\ phase'[e] = phase[e] \/ (e = c /\ phase'[c] = "ready")
      BY Zenon, <1>7a, <2>1, <2>2
    <3>3. d = c => phase[d] # "completing"
      BY Zenon, <3>1
    <3> QED
      BY Zenon, <3>1, <3>2, <3>3 DEF TrigInv
<1>10. \A d \in Blk, u \in Var : OnVar(d, u)' <=> OnVar(d, u)
  <2> SUFFICES ASSUME NEW d \in Blk, NEW u \in Var PROVE OnVar(d, u)' <=> OnVar(d, u)
    BY Zenon
  <2>1. todo' = todo /\ Deps(d)' = Deps(d)
    BY Zenon DEF Trigger, Deps, CV, MV
  <2>2. CASE phase'[d] = phase[d]
    BY Zenon, <2>1, <2>2 DEF OnVar, Pushed
  <2>3. CASE phase'[d] = "ready" /\ phase[d] = "waiting"
    BY Zenon, <2>1, <2>3 DEF OnVar, Pushed
  <2> QED
    BY Zenon, <1>7, <1>7a, <2>2, <2>3
<1>11. \A u \in Var : Keeps(u) /\ KeepsDelete(u)
  <2>1. /\ queue' = queue /\ num_pending_reads' = num_pending_reads /\ alive' = alive
        /\ to_delete' = to_delete /\ opr' = opr /\ todo' = todo
        /\ granted' = granted /\ prior' = prior
    BY Zenon DEF Trigger, varState, history
  <2>2. ASSUME NEW d \in Blk
        PROVE  /\ phase[d] = "new" <=> phase'[d] = "new"
               /\ phase[d] = "pushing" <=> phase'[d] = "pushing"
               /\ phase[d] = "running" <=> phase'[d] = "running"
               /\ phase[d] = "completing" <=> phase'[d] = "completing"
    BY Zenon, <1>7, <1>7a
  <2>3. ASSUME NEW d \in Blk, NEW u \in Var
        PROVE  (Arrived(d, u)' <=> Arrived(d, u)) /\ (InUse(d, u)' <=> InUse(d, u))
    BY Zenon, <2>1, <2>2 DEF Arrived, InUse, Pushed, Deps, CV, MV
  <2>4. ASSUME NEW u \in Var PROVE Keeps(u)
    BY Zenon, <1>10, <2>1, <2>2, <2>3 DEF Keeps
  <2>5. ASSUME NEW u \in Var PROVE KeepsDelete(u)
    BY Zenon, <1>10, <2>1, <2>2, <2>3 DEF KeepsDelete
  <2> QED
    BY Zenon, <2>4, <2>5
<1>12. PendingInv'
  <2>1. Active' = Active
    BY Zenon, <1>0, <1>1 DEF TypeOK, Active, Trigger
  <2> QED
    BY Zenon, <2>1 DEF IInv, PendingInv, Trigger
<1> QED
  BY Zenon, <1>2, <1>6, <1>8, <1>9, <1>11, <1>12, VarFrame, DeleteFrame DEF IInv

(* ExecuteOprBlock only marks the variable of a DeleteVariable. *)
LEMMA ExecuteInv ==
    ASSUME IInv, NEW b \in Blk, NEW run \in BOOLEAN, ExecuteOprBlock(b, run)
    PROVE  IInv'
<1>0. TypeOK /\ BlockInv(b) /\ WaitInv(b)
  BY Zenon DEF IInv
<1>1. TypeOK'
  <2>1. phase' \in [Blk -> Phase] /\ to_delete' \in [Var -> BOOLEAN]
    BY Zenon, <1>0 DEF TypeOK, ExecuteOprBlock, Phase
  <2>2. \A d \in Pushed' : opr'[d] \in Opr
    BY Zenon, <1>0 DEF TypeOK, ExecuteOprBlock, Pushed
  <2> QED
    BY Zenon, <1>0, <2>1, <2>2 DEF TypeOK, ExecuteOprBlock, history
<1>2. \A d \in Blk : /\ Need(d)' = Need(d) /\ Deps(d)' = Deps(d)
                     /\ CV(d)' = CV(d) /\ MV(d)' = MV(d) /\ IsDelete(d)' = IsDelete(d)
  BY Zenon DEF ExecuteOprBlock, Need, Owed, Deps, CV, MV, IsDelete, history
<1>3. /\ phase[b] = "ready" /\ phase'[b] = "running"
      /\ \A d \in Blk : d # b => phase'[d] = phase[d]
  BY Zenon, <1>0 DEF TypeOK, ExecuteOprBlock
<1>4. \A d \in Blk : WaitInv(d)' /\ BlockInv(d)'
  <2> SUFFICES ASSUME NEW d \in Blk PROVE WaitInv(d)' /\ BlockInv(d)'
    BY Zenon
  <2>1. WaitInv(d) /\ BlockInv(d)
    BY Zenon DEF IInv
  <2> QED
    BY Zenon, <1>2, <1>3, <2>1 DEF WaitInv, BlockInv, ExecuteOprBlock, history
<1>5. \A d, e \in Blk, u \in Var : TrigInv(d, e, u)'
  BY Zenon, <1>3 DEF IInv, TrigInv, ExecuteOprBlock, history
<1>6. \A d \in Blk, u \in Var : /\ OnVar(d, u)' <=> OnVar(d, u)
                                /\ Arrived(d, u) <=> Arrived(d, u)'
                                /\ InUse(d, u) => InUse(d, u)'
  BY SMTT(40), <1>0, <1>2, <1>3 DEF ExecuteOprBlock, OnVar, Arrived, InUse, Pushed
<1>7. \A u \in Var : Keeps(u)
  BY Zenon, <1>3, <1>6 DEF Keeps, ExecuteOprBlock, history
<1>8. \A u \in Var : DeleteInv(u)'
  <2> SUFFICES ASSUME NEW u \in Var PROVE DeleteInv(u)'
    BY Zenon
  <2>1. CASE to_delete'[u] = to_delete[u]
    <3>1. KeepsDelete(u)
      BY Zenon, <1>3, <1>6, <2>1 DEF KeepsDelete, ExecuteOprBlock, history
    <3> QED
      BY Zenon, <3>1, DeleteFrame
  <2>2. CASE to_delete'[u] # to_delete[u]
    <3>1. IsDelete(b) /\ u \in MV(b) /\ InUse(b, u)'
      BY Zenon, <1>0, <1>2, <1>3, <2>2 DEF TypeOK, ExecuteOprBlock, InUse, Deps
    <3>2. b \in Pushed' /\ Pushed' = Pushed
      BY Zenon, <1>3 DEF Pushed
    <3> QED
      <4>1. DeleteInv(u) /\ UNCHANGED <<queue, todo, alive, opr>>
        BY Zenon DEF IInv, ExecuteOprBlock
      <4>2. /\ \A d \in Blk : IsDelete(d)' = IsDelete(d) /\ MV(d)' = MV(d)
            /\ \A d \in Pushed : phase'[d] = "pushing" => phase[d] = "pushing"
            /\ Pushed \subseteq Blk
        BY Zenon, <1>2, <1>3, <4>1 DEF IsDelete, MV, Pushed
      <4>3. \A d \in Pushed : OnVar(d, u)' <=> OnVar(d, u)
        BY Zenon, <1>6, <4>2
      <4>4. Condemned(u)'
        BY Zenon, <3>1, <3>2, <4>2 DEF Condemned
      <4> QED
        BY Zenon, <3>1, <3>2, <4>1, <4>2, <4>3, <4>4 DEF DeleteInv
  <2> QED
    BY Zenon, <2>1, <2>2
<1>9. PendingInv'
  <2>1. Active' = Active
    BY Zenon, <1>3 DEF Active
  <2> QED
    BY Zenon, <2>1 DEF IInv, PendingInv, ExecuteOprBlock
<1> QED
  BY Zenon, <1>1, <1>4, <1>5, <1>7, <1>8, <1>9, VarFrame DEF IInv

(* OnComplete begins to walk through the variables of the block. *)
LEMMA OnCompleteInv ==
    ASSUME Counting, IInv, NEW b \in Blk, OnComplete(b)
    PROVE  IInv'
<1>0. TypeOK /\ BlockInv(b) /\ b \in Pushed
  BY Zenon DEF IInv, OnComplete, Pushed
<1>1. /\ phase[b] = "running" /\ phase'[b] = "completing" /\ todo'[b] = Deps(b)
      /\ \A d \in Blk : d # b => phase'[d] = phase[d] /\ todo'[d] = todo[d]
  BY Zenon, <1>0 DEF TypeOK, OnComplete
<1>2. TypeOK'
  <2>1. phase' \in [Blk -> Phase] /\ todo' \in [Blk -> SUBSET Var]
    BY Zenon, <1>0, DepsFacts DEF TypeOK, OnComplete, Phase
  <2>2. \A d \in Pushed' : opr'[d] \in Opr
    BY Zenon, <1>0 DEF TypeOK, OnComplete, Pushed
  <2> QED
    BY Zenon, <1>0, <2>1, <2>2 DEF TypeOK, OnComplete, varState, history
<1>3. \A d \in Blk : /\ Need(d)' = Need(d) /\ Deps(d)' = Deps(d)
                     /\ CV(d)' = CV(d) /\ MV(d)' = MV(d)
  BY Zenon DEF OnComplete, Need, Owed, Deps, CV, MV, history
<1>4. \A d \in Blk : WaitInv(d)' /\ BlockInv(d)'
  <2> SUFFICES ASSUME NEW d \in Blk PROVE WaitInv(d)' /\ BlockInv(d)'
    BY Zenon
  <2>1. WaitInv(d) /\ BlockInv(d)
    BY Zenon DEF IInv
  <2> QED
    BY Zenon, <1>1, <1>3, <2>1 DEF WaitInv, BlockInv, OnComplete, history
<1>5. \A d, e \in Blk, u \in Var : TrigInv(d, e, u)'
  BY Zenon, <1>1 DEF IInv, TrigInv, OnComplete, history
<1>6. \A d \in Blk, u \in Var : /\ OnVar(d, u)' <=> OnVar(d, u)
                                /\ Arrived(d, u) <=> Arrived(d, u)'
                                /\ InUse(d, u) => InUse(d, u)'
  BY SMTT(40), <1>0, <1>1, <1>3 DEF OnComplete, OnVar, Arrived, InUse, Pushed
<1>7. \A u \in Var : Keeps(u) /\ KeepsDelete(u)
  BY Zenon, <1>1, <1>6 DEF Keeps, KeepsDelete, OnComplete, varState, history
<1>8. PendingInv'
  <2>1. Active' = Active
    BY Zenon, <1>1 DEF Active
  <2> QED
    BY Zenon, <2>1 DEF IInv, PendingInv, OnComplete
<1> QED
  BY Zenon, <1>2, <1>4, <1>5, <1>7, <1>8, VarFrame, DeleteFrame DEF IInv

(* The end of OnComplete counts the block out. *)
LEMMA OnCompleteEndInv ==
    ASSUME Counting, IInv, NEW b \in Blk, OnCompleteEnd(b)
    PROVE  IInv'
<1>0. TypeOK /\ BlockInv(b) /\ b \in Pushed
  BY Zenon DEF IInv, OnCompleteEnd, Pushed
<1>1. /\ phase[b] = "completing" /\ phase'[b] = "done" /\ todo[b] = {}
      /\ \A d \in Blk : d # b => phase'[d] = phase[d]
  BY Zenon, <1>0 DEF TypeOK, OnCompleteEnd
<1>2. Active' = Active \ {b} /\ b \in Active
  BY Zenon, <1>1 DEF Active
<1>3. PendingInv' /\ pending' \in Int
  <2>1. IsFiniteSet(Active) /\ pending = Cardinality(Active) /\ pending' = pending - 1
    BY Zenon DEF IInv, PendingInv, OnCompleteEnd
  <2>2. IsFiniteSet(Active \ {b}) /\ Cardinality(Active \ {b}) = Cardinality(Active) - 1
    BY Zenon, <1>2, <2>1 DEF Counting, CountRemove
  <2>3. Cardinality(Active) \in Nat
    BY Zenon, <2>1 DEF Counting, CountType
  <2> QED
    BY SMTT(40), <1>2, <2>1, <2>2, <2>3 DEF PendingInv
<1>4. TypeOK'
  <2>1. phase' \in [Blk -> Phase]
    BY Zenon, <1>0 DEF TypeOK, OnCompleteEnd, Phase
  <2>2. \A d \in Pushed' : opr'[d] \in Opr
    BY Zenon, <1>0 DEF TypeOK, OnCompleteEnd, Pushed
  <2> QED
    BY Zenon, <1>0, <1>3, <2>1, <2>2 DEF TypeOK, OnCompleteEnd, varState, history
<1>5. \A d \in Blk : /\ Need(d)' = Need(d) /\ Deps(d)' = Deps(d)
                     /\ CV(d)' = CV(d) /\ MV(d)' = MV(d)
  BY Zenon DEF OnCompleteEnd, Need, Owed, Deps, CV, MV, history
<1>6. \A d \in Blk : WaitInv(d)' /\ BlockInv(d)'
  <2> SUFFICES ASSUME NEW d \in Blk PROVE WaitInv(d)' /\ BlockInv(d)'
    BY Zenon
  <2>1. WaitInv(d) /\ BlockInv(d)
    BY Zenon DEF IInv
  <2> QED
    BY Zenon, <1>1, <1>5, <2>1 DEF WaitInv, BlockInv, OnCompleteEnd, history
<1>7. \A d, e \in Blk, u \in Var : TrigInv(d, e, u)'
  BY Zenon, <1>1 DEF IInv, TrigInv, OnCompleteEnd, history
<1>8. \A d \in Blk, u \in Var : /\ OnVar(d, u)' <=> OnVar(d, u)
                                /\ Arrived(d, u) <=> Arrived(d, u)'
                                /\ InUse(d, u) => InUse(d, u)'
  BY SMTT(40), <1>0, <1>1, <1>5 DEF OnCompleteEnd, OnVar, Arrived, InUse, Pushed
<1>9. \A u \in Var : Keeps(u) /\ KeepsDelete(u)
  BY Zenon, <1>1, <1>8 DEF Keeps, KeepsDelete, OnCompleteEnd, varState, history
<1> QED
  BY Zenon, <1>3, <1>4, <1>6, <1>7, <1>9, VarFrame, DeleteFrame DEF IInv

(* A new engine satisfies the invariant. *)
LEMMA InitInv ==
    ASSUME Counting, Init PROVE IInv
<1>1. TypeOK
  <2>1. queue \in [Var -> Seq([blk : Blk, write : BOOLEAN])]
    BY DEF Init
  <2> QED
    BY SMTT(40), <2>1 DEF Init, TypeOK, Phase, Pushed
<1>2. Pushed = {} /\ Active = {}
  BY Zenon DEF Init, Pushed, Active
<1>3. \A b \in Blk : BlockInv(b) /\ WaitInv(b)
  BY Zenon DEF Init, BlockInv, WaitInv
<1>4. \A b, c \in Blk, v \in Var : TrigInv(b, c, v)
  BY Zenon DEF Init, TrigInv
<1>5. ASSUME NEW v \in Var PROVE QueueInv(v) /\ CountInv(v) /\ DeleteInv(v) /\ OrderInv(v)
  <2>1. queue[v] = <<>> /\ Len(queue[v]) = 0 /\ num_pending_reads[v] = 0 /\ alive[v]
        /\ ~to_delete[v] /\ \A b \in Blk : prior[b][v] = {} /\ ~OnVar(b, v)
    BY Zenon, <1>2 DEF Init, OnVar
  <2>2. Readers(v) = {}
    BY Zenon, <1>2 DEF Readers
  <2>3. CountInv(v)
    BY Zenon, <2>1, <2>2 DEF Counting, CountNone, CountInv
  <2> QED
    BY Zenon, <1>2, <2>1, <2>3, EmptyRange DEF QueueInv, DeleteInv, OrderInv
<1>6. PendingInv
  BY Zenon, <1>2 DEF Counting, CountNone, PendingInv, Init
<1> QED
  BY Zenon, <1>1, <1>3, <1>4, <1>5, <1>6 DEF IInv

(* Every step of the engine preserves the invariant. *)
LEMMA NextInv ==
    ASSUME Counting, IInv, [Next]_vars PROVE IInv'
<1>1. ASSUME NEW t \in Thread, NEW b \in Blk, NEW o \in Opr, Push(t, b, o) PROVE IInv'
  BY Zenon, <1>1, PushInv
<1>2. ASSUME NEW b \in Blk, PushStep(b) PROVE IInv'
  BY Zenon, <1>2, AppendReadInv, AppendWriteInv, PushEndInv DEF PushStep
<1>3. ASSUME NEW b \in Blk, RunStep(b) PROVE IInv'
  <2>1. ASSUME NEW v \in Var, CompleteWriteDependency(b, v) PROVE IInv'
    BY Zenon, <2>1, DeleteVarInv, DetachChainInv DEF CompleteWriteDependency
  <2> QED
    BY Zenon, <1>3, <2>1, ExecuteInv, OnCompleteInv, CompleteReadInv, TriggerInv, OnCompleteEndInv
       DEF RunStep
<1>4. CASE UNCHANGED vars
  <2>1. TypeOK'
    BY Zenon, <1>4 DEF vars, IInv, TypeOK, Pushed
  <2>2. \A b \in Blk : BlockInv(b)' /\ WaitInv(b)'
    <3>1. \A b \in Blk : Need(b)' = Need(b) /\ Deps(b)' = Deps(b)
      BY Zenon, <1>4 DEF vars, Need, Owed, Deps, CV, MV
    <3>2. \A b \in Blk : WaitInv(b)'
      BY Zenon, <1>4, <3>1 DEF vars, IInv, WaitInv
    <3>3. \A b \in Blk : BlockInv(b)'
      BY Zenon, <1>4, <3>1 DEF vars, IInv, BlockInv, CV, MV
    <3> QED
      BY Zenon, <3>2, <3>3
  <2>3. \A b, c \in Blk, v \in Var : TrigInv(b, c, v)'
    BY Zenon, <1>4 DEF vars, IInv, TrigInv
  <2>4. \A u \in Var : Keeps(u) /\ KeepsDelete(u)
    BY SMTT(40), <1>4 DEF vars, Keeps, KeepsDelete, OnVar, Arrived, InUse, IsDelete, Pushed, Deps, CV, MV
  <2>5. PendingInv'
    BY Zenon, <1>4 DEF vars, IInv, PendingInv, Active
  <2> QED
    BY Zenon, <2>1, <2>2, <2>3, <2>4, <2>5, VarFrame, DeleteFrame DEF IInv
<1>5. Terminating => UNCHANGED vars
  BY Zenon DEF Terminating
<1> QED
  BY Zenon, <1>1, <1>2, <1>3, <1>4, <1>5 DEF Next

(* A block that is executing holds what it uses. *)
LEMMA HoldsWhatItUses ==
    ASSUME IInv, NEW b \in Pushed, NEW v \in Var, InUse(b, v)
    PROVE  b \in Blk /\ v \in granted[b] /\ OnVar(b, v)
<1>1. b \in Blk /\ BlockInv(b)
  BY Zenon DEF Pushed, IInv
<1> QED
  BY Zenon, <1>1 DEF InUse, BlockInv, OnVar

(* Many readers or one writer: the earlier of two blocks lets the other    *)
(* wait. *)
LEMMA KeepsExclusion ==
    ASSUME IInv PROVE Exclusion
<1> SUFFICES ASSUME NEW b \in Pushed, NEW c \in Pushed, NEW v \in Var,
                    b # c, InUse(b, v), InUse(c, v)
             PROVE  ~Conflict(b, c, v)
  BY Zenon DEF Exclusion
<1>1. /\ b \in Blk /\ v \in granted[b] /\ OnVar(b, v)
      /\ c \in Blk /\ v \in granted[c] /\ OnVar(c, v)
  BY Zenon, HoldsWhatItUses
<1>2. OrderInv(v)
  BY Zenon DEF IInv
<1>3. b \in prior[c][v] \/ c \in prior[b][v]
  BY Zenon, <1>1, <1>2 DEF OrderInv
<1> QED
  BY Zenon, <1>1, <1>2, <1>3 DEF OrderInv, Conflict

(* A block that executes has every conflicting one before it behind it. *)
LEMMA KeepsOrder ==
    ASSUME IInv PROVE PushOrder
<1> SUFFICES ASSUME NEW b \in Pushed, NEW v \in Var, InUse(b, v),
                    NEW c \in prior[b][v], Conflict(b, c, v)
             PROVE  ~OnVar(c, v)
  BY Zenon DEF PushOrder
<1>1. b \in Blk /\ v \in granted[b]
  BY Zenon, HoldsWhatItUses
<1>2. OrderInv(v) /\ c \in Blk
  BY SMTT(40), <1>1 DEF IInv, TypeOK
<1> QED
  BY Zenon, <1>1, <1>2 DEF OrderInv

(* Entries and triggers name blocks under way, and their variables live. *)
LEMMA KeepsPointers ==
    ASSUME IInv PROVE NoDangling
<1>1. ASSUME NEW v \in Var, NEW i \in DOMAIN queue[v] PROVE OnVar(queue[v][i].blk, v)
  <2>1. queue[v] \in Seq(Entries) /\ QueueInv(v)
    BY Zenon, QueueType DEF IInv
  <2>2. i \in 1 .. Len(queue[v])
    BY <2>1
  <2> QED
    BY Zenon, <2>1, <2>2 DEF QueueInv
<1>2. ASSUME NEW b \in Blk, NEW p \in trig[b] PROVE phase[p[1]] \in {"pushing", "waiting"}
  <2>1. p \in Blk \X Var
    BY Zenon DEF IInv, TypeOK
  <2>2. PICK c \in Blk, v \in Var : p = <<c, v>>
    BY SMTT(40), <2>1
  <2> QED
    BY Zenon, <2>2 DEF IInv, TrigInv
<1>3. ASSUME NEW b \in Pushed, NEW v \in Var,
             OnVar(b, v) \/ (phase[b] = "pushing" /\ v \in todo[b])
      PROVE  alive[v]
  BY Zenon, <1>3 DEF IInv, DeleteInv
<1> QED
  BY Zenon, <1>1, <1>2, <1>3 DEF NoDangling

(* The invariant gives every assertion of the code. *)
LEMMA KeepsChecks ==
    ASSUME Counting, IInv PROVE ChecksHold
<1>1. ASSUME NEW b \in Blk PROVE wait[b] >= 0
  <2>1. WaitInv(b) /\ (IsFiniteSet(Need(b)) => Cardinality(Need(b)) \in Nat)
    BY Zenon DEF Counting, CountType, IInv
  <2> QED
    BY SMTT(40), <2>1 DEF WaitInv
<1>2. pending >= 0
  BY DEF Counting, CountType, IInv, PendingInv
<1>3. ASSUME NEW b \in Pushed, NEW v \in Var
      PROVE  /\ phase[b] = "pushing" /\ v \in todo[b] =>
                   /\ queue[v] = <<>> => num_pending_reads[v] >= 0
                   /\ queue[v] # <<>> => num_pending_reads[v] # 0
             /\ phase[b] = "completing" /\ v \in todo[b] \cap CV(b) =>
                   num_pending_reads[v] > 0
             /\ phase[b] = "completing" /\ v \in todo[b] \cap MV(b) =>
                   /\ num_pending_reads[v] = kWriteTriggered
                   /\ queue[v] # <<>> /\ Head(queue[v]).blk = b
                   /\ to_delete[v] => Len(queue[v]) = 1
  <2>0. /\ b \in Blk /\ TypeOK /\ CountInv(v) /\ queue[v] \in Seq(Entries)
        /\ Len(queue[v]) \in Nat /\ queue[v] = <<>> <=> Len(queue[v]) = 0
        /\ IsFiniteSet(Readers(v)) /\ Cardinality(Readers(v)) \in Nat
    <3>1. b \in Blk /\ TypeOK /\ CountInv(v)
      BY Zenon DEF Pushed, IInv
    <3>2. IsFiniteSet(Readers(v))
      BY Zenon, <3>1 DEF CountInv
    <3> QED
      BY Zenon, <3>1, <3>2, QueueType, EmptyQueue DEF Counting, CountType
  <2>1. ASSUME phase[b] = "pushing", v \in todo[b]
        PROVE  /\ queue[v] = <<>> => num_pending_reads[v] >= 0
               /\ queue[v] # <<>> => num_pending_reads[v] # 0
    <3>1. alive[v]
      BY Zenon, <2>0, <2>1, PushingFacts
    <3> QED
      BY SMTT(40), <2>0, <3>1 DEF CountInv, kWriteTriggered
  <2>2. ASSUME phase[b] = "completing", v \in todo[b], v \in CV(b)
        PROVE  num_pending_reads[v] > 0
    <3>1. b \in Readers(v) /\ num_pending_reads[v] = Cardinality(Readers(v))
      BY Zenon, <2>0, <2>2, CompletingFacts
    <3>2. Cardinality(Readers(v)) # 0
      BY Zenon, <2>0, <3>1 DEF Counting, CountNone
    <3> QED
      BY SMTT(40), <2>0, <3>1, <3>2
  <2>3. ASSUME phase[b] = "completing", v \in todo[b], v \in MV(b)
        PROVE  /\ num_pending_reads[v] = kWriteTriggered
               /\ queue[v] # <<>> /\ Head(queue[v]).blk = b
               /\ to_delete[v] => Len(queue[v]) = 1
    <3>1. /\ Len(queue[v]) > 0 /\ queue[v][1].blk = b
          /\ num_pending_reads[v] = kWriteTriggered /\ alive[v]
          /\ \A x \in Blk : v \in granted[x] => x = b
      BY Zenon, <2>0, <2>3, CompletingFacts
    <3>2. ASSUME to_delete[v] PROVE Len(queue[v]) = 1
      <4>1. PICK d \in Pushed : IsDelete(d) /\ v \in MV(d) /\ InUse(d, v)
        BY Zenon, <3>1, <3>2 DEF IInv, DeleteInv
      <4>2. d = b
        BY Zenon, <3>1, <4>1, HoldsWhatItUses
      <4>3. \A i \in 1 .. Len(queue[v]) : queue[v][i].blk = b => i = Len(queue[v])
        BY Zenon, <4>1, <4>2 DEF IInv, DeleteInv
      <4>4. 1 \in 1 .. Len(queue[v])
        BY SMTT(40), <2>0, <3>1
      <4> QED
        BY Zenon, <3>1, <4>3, <4>4
    <3> QED
      BY SMTT(40), <2>0, <3>1, <3>2
  <2> QED
    BY Zenon, <2>1, <2>2, <2>3
<1> QED
  BY Zenon, <1>1, <1>2, <1>3 DEF ChecksHold

(* What a step does to the phases, and to the push under way. *)
DispatchStep ==
    \A b \in Blk :
       phase'[b] = "ready" /\ phase[b] # "ready" =>
          \/ phase[b] = "waiting"
          \/ \E t \in Thread : pusher[t] = b /\ pusher'[t] = None

(* Only PushEnd, or a trigger of a block that waits, makes a block ready. *)
LEMMA DispatchSteps ==
    ASSUME Counting, IInv, [Next]_vars PROVE [DispatchStep]_vars
<1> SUFFICES ASSUME Next PROVE DispatchStep
  BY Zenon
<1> SUFFICES ASSUME NEW d \in Blk, phase'[d] = "ready", phase[d] # "ready"
             PROVE  \/ phase[d] = "waiting"
                    \/ \E t \in Thread : pusher[t] = d /\ pusher'[t] = None
  BY Zenon DEF DispatchStep
<1>0. TypeOK
  BY Zenon DEF IInv
<1>1. ASSUME NEW t \in Thread, NEW b \in Blk, PushEnd(t, b)
      PROVE  \/ phase[d] = "waiting"
             \/ \E s \in Thread : pusher[s] = d /\ pusher'[s] = None
  <2>1. d = b /\ pusher[t] = b /\ pusher'[t] = None
    BY Zenon, <1>0, <1>1 DEF PushEnd, TypeOK
  <2> QED
    BY Zenon, <2>1
<1>2. ASSUME NEW b \in Blk, NEW c \in Blk, NEW v \in Var, Trigger(b, c, v)
      PROVE  phase[d] = "waiting"
  <2>1. d = c /\ wait[c] = 1 /\ <<c, v>> \in trig[b]
    BY Zenon, <1>0, <1>2 DEF Trigger, TypeOK
  <2>2. TrigInv(b, c, v) /\ BlockInv(c) /\ WaitInv(c)
    BY Zenon DEF IInv
  <2>3. v \in Need(c)
    BY Zenon, <2>1, <2>2 DEF TrigInv, BlockInv, Need, Owed
  <2>4. phase[c] = "pushing" => IsFiniteSet(Need(c)) /\ wait[c] = Cardinality(Need(c)) + 1
    BY Zenon, <2>2 DEF WaitInv
  <2>5. IsFiniteSet(Need(c)) => Cardinality(Need(c)) \in Nat /\ Cardinality(Need(c)) # 0
    BY Zenon, <2>3 DEF Counting, CountType, CountNone
  <2>6. phase[c] # "pushing"
    BY SMTT(40), <2>1, <2>4, <2>5
  <2> QED
    BY Zenon, <2>1, <2>2, <2>6 DEF TrigInv
<1>3. ASSUME NEW t \in Thread, NEW b \in Blk, NEW o \in Opr, Push(t, b, o) PROVE FALSE
  BY Zenon, <1>0, <1>3 DEF Push, TypeOK
<1>4. ASSUME NEW b \in Blk, NEW v \in Var,
             \/ AppendReadDependency(b, v) \/ AppendWriteDependency(b, v)
             \/ CompleteReadDependency(b, v) \/ CompleteWriteDependency(b, v)
      PROVE  FALSE
  BY Zenon, <1>4 DEF AppendReadDependency, AppendWriteDependency, CompleteReadDependency,
              CompleteWriteDependency
<1>5. ASSUME NEW b \in Blk,
             \/ \E run \in BOOLEAN : ExecuteOprBlock(b, run)
             \/ OnComplete(b) \/ OnCompleteEnd(b)
      PROVE  FALSE
  BY Zenon, <1>0, <1>5 DEF ExecuteOprBlock, OnComplete, OnCompleteEnd, TypeOK
<1>6. ~Terminating
  BY Zenon DEF Terminating, vars
<1> QED
  BY Zenon, <1>1, <1>2, <1>3, <1>4, <1>5, <1>6 DEF Next, PushStep, RunStep

(***************************************************************************)
(* The engine implements DependencyEngine.                                 *)
(***************************************************************************)

(* How the state of the abstract engine follows from a phase. *)
LEMMA Mapping ==
    ASSUME TypeOK, NEW b \in Blk
    PROVE  /\ Stages[b] = "new" <=> phase[b] = "new"
           /\ Stages[b] = "pushed" <=> phase[b] \in {"pushing", "waiting", "ready"}
           /\ Stages[b] = "started" <=> phase[b] \in {"running", "completing"}
           /\ Stages[b] = "finished" <=> phase[b] = "done"
           /\ Stages[b] \in {"new", "pushed", "started", "finished"}
<1>1. phase[b] \in Phase /\ Stages[b] = StageOf(phase[b])
  BY Zenon DEF TypeOK, Stages
<1> QED
  BY Zenon, <1>1 DEF StageOf, Phase

(* A block is on a variable in the abstract engine when it is in this one. *)
LEMMA OnMapping ==
    ASSUME IInv, NEW c \in Blk, NEW v \in Var
    PROVE  Promise!On(c, v) <=> OnVar(c, v)
<1>1. TypeOK /\ BlockInv(c)
  BY Zenon DEF IInv
<1>2. /\ Reached[c] = IF phase[c] = "new" THEN {}
                      ELSE IF phase[c] = "pushing" THEN Deps(c) \ todo[c] ELSE Deps(c)
      /\ Held[c] = IF phase[c] = "running" THEN Deps(c)
                   ELSE IF phase[c] = "completing" THEN todo[c] ELSE {}
  BY Zenon DEF Reached, Held
<1> QED
  BY Zenon, <1>1, <1>2, Mapping DEF Promise!On, OnVar, BlockInv, Pushed

(* A step that leaves the abstract state of every block alone. *)
LEMMA AbstractStutter ==
    ASSUME opr' = opr, prior' = prior,
           \A d \in Blk : /\ Stages'[d] = Stages[d] /\ Reached'[d] = Reached[d]
                          /\ Held'[d] = Held[d]
    PROVE  UNCHANGED Promise!avars
<1>1. Stages' = Stages
  BY Zenon DEF Stages
<1>2. Reached' = Reached
  BY Zenon DEF Reached
<1>3. Held' = Held
  BY Zenon DEF Held
<1> QED
  BY Zenon, <1>1, <1>2, <1>3 DEF Promise!avars

(* The mapping depends on a block's own phase, loop and operator only. *)
LEMMA SameBlock ==
    ASSUME NEW d \in Blk, phase'[d] = phase[d], todo'[d] = todo[d], opr'[d] = opr[d]
    PROVE  Stages'[d] = Stages[d] /\ Reached'[d] = Reached[d] /\ Held'[d] = Held[d]
<1>1. Deps(d)' = Deps(d)
  BY Zenon DEF Deps, CV, MV
<1>2. Stages'[d] = StageOf(phase'[d]) /\ Stages[d] = StageOf(phase[d])
  BY Zenon DEF Stages
<1>3. Reached'[d] = Reached[d]
  BY Zenon, <1>1 DEF Reached
<1>4. Held'[d] = Held[d]
  BY Zenon, <1>1 DEF Held
<1> QED
  BY Zenon, <1>2, <1>3, <1>4

(* Steps of Push: the operator is issued and reaches its variables. *)
LEMMA PushRefines ==
    ASSUME Counting, IInv, NEW t \in Thread, NEW b \in Blk, NEW o \in Opr, Push(t, b, o)
    PROVE  Promise!Issue(b, o)
<1>0. TypeOK /\ TypeOK'
  BY Zenon, PushInv DEF IInv
<1>1. /\ phase[b] = "new" /\ phase'[b] = "pushing" /\ todo'[b] = Deps(b)'
      /\ \A d \in Blk : d # b =>
            phase'[d] = phase[d] /\ todo'[d] = todo[d] /\ opr'[d] = opr[d]
  BY SMTT(40), <1>0 DEF TypeOK, Push, Deps, CV, MV
<1>2. /\ Stages[b] = "new" /\ Stages'[b] = "pushed"
      /\ Reached[b] = {} /\ Reached'[b] = {} /\ Held[b] = {} /\ Held'[b] = {}
  BY Zenon, <1>1 DEF Stages, StageOf, Reached, Held
<1>3. \A d \in Blk : d # b =>
         Stages'[d] = Stages[d] /\ Reached'[d] = Reached[d] /\ Held'[d] = Held[d]
  BY Zenon, <1>1, SameBlock
<1>4. Stages' = [Stages EXCEPT ![b] = "pushed"]
  BY Zenon, <1>2, <1>3 DEF Stages
<1>5. Reached' = Reached
  BY Zenon, <1>2, <1>3 DEF Reached
<1>6. Held' = Held
  BY Zenon, <1>2, <1>3 DEF Held
<1> QED
  BY Zenon, <1>2, <1>4, <1>5, <1>6 DEF Promise!Issue, Push, history

(* Reaching a variable of the walk of Push is the abstract Reach. *)
LEMMA AppendRefines ==
    ASSUME IInv, NEW b \in Blk, NEW v \in Var,
           AppendReadDependency(b, v) \/ AppendWriteDependency(b, v)
    PROVE  Promise!Reach(b, v)
<1>0. TypeOK /\ BlockInv(b)
  BY Zenon DEF IInv
<1>1. /\ phase[b] = "pushing" /\ v \in todo[b] /\ v \in Deps(b)
      /\ phase' = phase /\ opr' = opr
      /\ todo' = [todo EXCEPT ![b] = @ \ {v}]
      /\ prior' = [prior EXCEPT ![b][v] = {c \in Blk : OnVar(c, v)}]
  BY Zenon, <1>0 DEF AppendReadDependency, AppendWriteDependency, Arrive, BlockInv
<1>2. /\ todo'[b] = todo[b] \ {v} /\ Deps(b)' = Deps(b)
      /\ \A d \in Blk : d # b => todo'[d] = todo[d]
  BY Zenon, <1>0, <1>1 DEF TypeOK, Deps, CV, MV
<1>3. /\ Stages[b] = "pushed" /\ Stages'[b] = "pushed"
      /\ Reached[b] = Deps(b) \ todo[b] /\ Reached'[b] = Reached[b] \cup {v}
      /\ Held[b] = {} /\ Held'[b] = {}
  BY Zenon, <1>1, <1>2 DEF Stages, StageOf, Reached, Held
<1>4. \A d \in Blk : d # b =>
         Stages'[d] = Stages[d] /\ Reached'[d] = Reached[d] /\ Held'[d] = Held[d]
  BY Zenon, <1>1, <1>2, SameBlock
<1>5. Stages' = Stages
  BY Zenon, <1>1 DEF Stages
<1>6. Reached' = [Reached EXCEPT ![b] = @ \cup {v}]
  BY Zenon, <1>3, <1>4 DEF Reached
<1>7. Held' = Held
  BY Zenon, <1>3, <1>4 DEF Held
<1>8. {c \in Blk : OnVar(c, v)} = {c \in Blk : Promise!On(c, v)}
  BY Zenon, OnMapping
<1>9. Promise!Uses(b) = Deps(b)
  BY Zenon DEF Promise!Uses, Deps, CV, MV
<1> QED
  BY Zenon, <1>1, <1>3, <1>5, <1>6, <1>7, <1>8, <1>9 DEF Promise!Reach

(* ExecuteOprBlock starts an operator whose predecessors are through. *)
LEMMA ExecuteRefines ==
    ASSUME Counting, IInv, NEW b \in Blk, NEW run \in BOOLEAN, ExecuteOprBlock(b, run)
    PROVE  Promise!Start(b)
<1>0. TypeOK /\ BlockInv(b)
  BY Zenon DEF IInv
<1>1. /\ phase[b] = "ready" /\ phase'[b] = "running" /\ opr' = opr /\ todo' = todo
      /\ prior' = prior
      /\ \A d \in Blk : d # b => phase'[d] = phase[d]
  BY Zenon, <1>0 DEF TypeOK, ExecuteOprBlock, history
<1>2. Promise!Uses(b) = Deps(b) /\ Deps(b)' = Deps(b)
  BY Zenon, <1>1 DEF Promise!Uses, Deps, CV, MV
<1>3. /\ Stages[b] = "pushed" /\ Stages'[b] = "started"
      /\ Reached[b] = Deps(b) /\ Reached'[b] = Deps(b) /\ Held'[b] = Deps(b)
  BY Zenon, <1>1, <1>2 DEF Stages, StageOf, Reached, Held
<1>4. \A d \in Blk : d # b =>
         Stages'[d] = Stages[d] /\ Reached'[d] = Reached[d] /\ Held'[d] = Held[d]
  BY Zenon, <1>1, SameBlock
<1>5. Stages' = [Stages EXCEPT ![b] = "started"]
  BY Zenon, <1>3, <1>4 DEF Stages
<1>6. Reached' = Reached
  BY Zenon, <1>3, <1>4 DEF Reached
<1>7. Held' = [Held EXCEPT ![b] = Deps(b)]
  BY Zenon, <1>3, <1>4 DEF Held
<1>8. \A v \in Deps(b) : \A c \in prior[b][v] :
         Promise!Conflict(b, c, v) => ~Promise!On(c, v)
  <2> SUFFICES ASSUME NEW v \in Deps(b), NEW c \in prior[b][v], Promise!Conflict(b, c, v)
               PROVE  ~Promise!On(c, v)
    BY Zenon
  <2>1. v \in Var /\ v \in granted[b]
    BY ZenonT(30), <1>0, <1>1, DepsFacts DEF BlockInv, Pushed
  <2>2. c \in Blk /\ OrderInv(v) /\ Conflict(b, c, v)
    <3>0. prior \in [Blk -> [Var -> SUBSET Blk]]
      BY Zenon, <1>0 DEF TypeOK
    <3>1. c \in Blk
      BY Zenon, <2>1, <3>0
    <3>2. Conflict(b, c, v)
      BY Zenon DEF Promise!Conflict, Conflict, MV
    <3> QED
      BY Zenon, <2>1, <3>1, <3>2 DEF IInv
  <2>3. ~OnVar(c, v)
    BY Zenon, <2>1, <2>2 DEF OrderInv
  <2> QED
    BY Zenon, <2>1, <2>2, <2>3, OnMapping
<1> QED
  BY Zenon, <1>1, <1>2, <1>3, <1>5, <1>6, <1>7, <1>8 DEF Promise!Start

(* The completion of an access gives the variable up. *)
LEMMA CompleteRefines ==
    ASSUME IInv, NEW b \in Blk, NEW v \in Var,
           CompleteReadDependency(b, v) \/ CompleteWriteDependency(b, v)
    PROVE  Promise!GiveUp(b, v)
<1>0. TypeOK
  BY Zenon DEF IInv
<1>1. /\ phase[b] = "completing" /\ v \in todo[b]
      /\ phase' = phase /\ opr' = opr /\ prior' = prior
      /\ todo' = [todo EXCEPT ![b] = @ \ {v}]
  BY Zenon DEF CompleteReadDependency, CompleteWriteDependency
<1>2. /\ todo'[b] = todo[b] \ {v} /\ Deps(b)' = Deps(b)
      /\ \A d \in Blk : d # b => todo'[d] = todo[d]
  BY Zenon, <1>0, <1>1 DEF TypeOK, Deps, CV, MV
<1>3. /\ Stages[b] = "started" /\ Reached'[b] = Reached[b]
      /\ Held[b] = todo[b] /\ Held'[b] = Held[b] \ {v}
  BY Zenon, <1>1, <1>2 DEF Stages, StageOf, Reached, Held
<1>4. \A d \in Blk : d # b => Reached'[d] = Reached[d] /\ Held'[d] = Held[d]
  BY Zenon, <1>1, <1>2, SameBlock
<1>5. Stages' = Stages
  BY Zenon, <1>1 DEF Stages
<1>6. Reached' = Reached
  BY Zenon, <1>3, <1>4 DEF Reached
<1>7. Held' = [Held EXCEPT ![b] = @ \ {v}]
  BY Zenon, <1>3, <1>4 DEF Held
<1> QED
  BY Zenon, <1>1, <1>3, <1>5, <1>6, <1>7 DEF Promise!GiveUp

(* The end of OnComplete finishes the operator. *)
LEMMA EndRefines ==
    ASSUME IInv, NEW b \in Blk, OnCompleteEnd(b)
    PROVE  Promise!Finish(b)
<1>0. TypeOK
  BY Zenon DEF IInv
<1>1. /\ phase[b] = "completing" /\ todo[b] = {} /\ phase'[b] = "done"
      /\ opr' = opr /\ prior' = prior /\ todo' = todo
      /\ \A d \in Blk : d # b => phase'[d] = phase[d]
  BY Zenon, <1>0 DEF TypeOK, OnCompleteEnd, history
<1>2. Deps(b)' = Deps(b)
  BY Zenon, <1>1 DEF Deps, CV, MV
<1>3. /\ Stages[b] = "started" /\ Stages'[b] = "finished" /\ Reached'[b] = Reached[b]
      /\ Held[b] = {} /\ Held'[b] = {}
  BY Zenon, <1>1, <1>2 DEF Stages, StageOf, Reached, Held
<1>4. \A d \in Blk : d # b =>
         Stages'[d] = Stages[d] /\ Reached'[d] = Reached[d] /\ Held'[d] = Held[d]
  BY Zenon, <1>1, SameBlock
<1>5. Stages' = [Stages EXCEPT ![b] = "finished"]
  BY Zenon, <1>3, <1>4 DEF Stages
<1>6. Reached' = Reached
  BY Zenon, <1>3, <1>4 DEF Reached
<1>7. Held' = Held
  BY Zenon, <1>3, <1>4 DEF Held
<1> QED
  BY Zenon, <1>1, <1>3, <1>5, <1>6, <1>7 DEF Promise!Finish

(* The other steps are invisible to the clients. *)
LEMMA InvisibleSteps ==
    ASSUME Counting, IInv, NEW b \in Blk,
           \/ \E t \in Thread : PushEnd(t, b)
           \/ OnComplete(b)
           \/ \E c \in Blk, v \in Var : Trigger(b, c, v)
    PROVE  UNCHANGED Promise!avars
<1>0. TypeOK
  BY Zenon DEF IInv
<1>1. ASSUME NEW t \in Thread, PushEnd(t, b) PROVE UNCHANGED Promise!avars
  <2>1. /\ phase[b] = "pushing" /\ todo[b] = {} /\ phase'[b] \in {"ready", "waiting"}
        /\ opr' = opr /\ prior' = prior /\ todo' = todo
        /\ \A d \in Blk : d # b => phase'[d] = phase[d]
    BY Zenon, <1>0, <1>1 DEF TypeOK, PushEnd, history
  <2>2. Stages'[b] = Stages[b] /\ Reached'[b] = Reached[b] /\ Held'[b] = Held[b]
    BY Zenon, <2>1 DEF Stages, StageOf, Reached, Held, Deps, CV, MV
  <2> QED
    BY Zenon, <2>1, <2>2, SameBlock, AbstractStutter
<1>2. ASSUME OnComplete(b) PROVE UNCHANGED Promise!avars
  <2>1. /\ phase[b] = "running" /\ phase'[b] = "completing" /\ todo'[b] = Deps(b)
        /\ opr' = opr /\ prior' = prior
        /\ \A d \in Blk : d # b => phase'[d] = phase[d] /\ todo'[d] = todo[d]
    BY Zenon, <1>0, <1>2 DEF TypeOK, OnComplete, history
  <2>2. Stages'[b] = Stages[b] /\ Reached'[b] = Reached[b] /\ Held'[b] = Held[b]
    BY Zenon, <2>1 DEF Stages, StageOf, Reached, Held, Deps, CV, MV
  <2> QED
    BY Zenon, <2>1, <2>2, SameBlock, AbstractStutter
<1>3. ASSUME NEW c \in Blk, NEW v \in Var, Trigger(b, c, v) PROVE UNCHANGED Promise!avars
  <2>1. /\ opr' = opr /\ prior' = prior /\ todo' = todo
        /\ phase'[c] \in {"ready", phase[c]}
        /\ \A d \in Blk : d # c => phase'[d] = phase[d]
    BY ZenonT(30), <1>0, <1>3 DEF TypeOK, Trigger, history
  <2>2. phase'[c] = phase[c] \/ phase[c] = "waiting"
    <3>1. WaitInv(c) /\ TrigInv(b, c, v) /\ BlockInv(c) /\ <<c, v>> \in trig[b]
      BY Zenon, <1>3 DEF IInv, Trigger
    <3>2. phase[c] \in {"pushing", "waiting"} /\ v \in Need(c)
      BY Zenon, <3>1 DEF TrigInv, BlockInv, Need, Owed
    <3>3. phase'[c] = phase[c] \/ wait[c] = 1
      BY Zenon, <1>0, <1>3 DEF TypeOK, Trigger
    <3>4. IsFiniteSet(Need(c)) => Cardinality(Need(c)) \in Nat /\ Cardinality(Need(c)) # 0
      BY Zenon, <3>2 DEF Counting, CountType, CountNone
    <3> QED
      <4>1. phase[c] = "pushing" => wait[c] # 1
        <5>1. phase[c] = "pushing" => /\ wait[c] = Cardinality(Need(c)) + 1
                                     /\ Cardinality(Need(c)) \in Nat /\ Cardinality(Need(c)) # 0
          BY Zenon, <3>1, <3>4 DEF WaitInv
        <5> QED
          BY SMTT(40), <5>1
      <4> QED
        BY Zenon, <3>2, <3>3, <4>1
  <2>3. Stages'[c] = Stages[c] /\ Reached'[c] = Reached[c] /\ Held'[c] = Held[c]
    <3>1. CASE phase'[c] = phase[c]
      BY Zenon, <2>1, <3>1, SameBlock
    <3>2. CASE phase[c] = "waiting" /\ phase'[c] = "ready"
      BY Zenon, <2>1, <3>2 DEF Stages, StageOf, Reached, Held, Deps, CV, MV
    <3> QED
      BY Zenon, <2>1, <2>2, <3>1, <3>2
  <2> QED
    BY Zenon, <2>1, <2>3, SameBlock, AbstractStutter
<1> QED
  BY Zenon, <1>1, <1>2, <1>3

(* A new engine is a new abstract engine. *)
LEMMA InitRefines ==
    ASSUME Init PROVE Promise!AInit
<1>1. /\ Stages = [b \in Blk |-> "new"] /\ Reached = [b \in Blk |-> {}]
      /\ Held = [b \in Blk |-> {}]
  BY Zenon DEF Init, Stages, StageOf, Reached, Held
<1> QED
  BY Zenon, <1>1 DEF Init, Promise!AInit

(* Every step is one of the abstract engine, or invisible. *)
LEMMA NextRefines ==
    ASSUME Counting, IInv, [Next]_vars PROVE [Promise!ANext]_(Promise!avars)
<1> SUFFICES Promise!ANext \/ UNCHANGED Promise!avars
  BY Zenon
<1>1. ASSUME NEW t \in Thread, NEW b \in Blk, NEW o \in Opr, Push(t, b, o)
      PROVE  Promise!ANext
  BY Zenon, <1>1, PushRefines DEF Promise!ANext
<1>2. ASSUME NEW b \in Blk, NEW v \in Var,
             AppendReadDependency(b, v) \/ AppendWriteDependency(b, v)
      PROVE  Promise!ANext
  BY Zenon, <1>2, AppendRefines DEF Promise!ANext
<1>3. ASSUME NEW b \in Blk, NEW run \in BOOLEAN, ExecuteOprBlock(b, run)
      PROVE  Promise!ANext
  BY Zenon, <1>3, ExecuteRefines DEF Promise!ANext
<1>4. ASSUME NEW b \in Blk, NEW v \in Var,
             CompleteReadDependency(b, v) \/ CompleteWriteDependency(b, v)
      PROVE  Promise!ANext
  BY Zenon, <1>4, CompleteRefines DEF Promise!ANext
<1>5. ASSUME NEW b \in Blk, OnCompleteEnd(b) PROVE Promise!ANext
  BY Zenon, <1>5, EndRefines DEF Promise!ANext
<1>6. CASE UNCHANGED vars
  BY Zenon, <1>6, SameBlock, AbstractStutter DEF vars
<1>7. Terminating => UNCHANGED vars
  BY Zenon DEF Terminating
<1> QED
  BY Zenon, <1>1, <1>2, <1>3, <1>4, <1>5, <1>6, <1>7, InvisibleSteps DEF Next, PushStep, RunStep

-----------------------------------------------------------------------------
LOCAL INSTANCE FiniteSetTheorems

(* The facts about cardinalities hold. *)
LEMMA Counted == Counting
<1>1. \A S : (IsFiniteSet(S) <=> Listed(S)) /\ Cardinality(S) = CountOf(S)
  BY Zenon DEF IsFiniteSet, Cardinality, Listed, CountOf
<1>2. CountType
  <2>1. \A S : IsFiniteSet(S) => Cardinality(S) \in Nat
    BY Zenon, FS_CardinalityType
  <2> QED
    BY Zenon, <1>1, <2>1, Cardinals DEF CountType
<1>3. CountNone
  BY Zenon, <1>1, FS_EmptySet, Cardinals DEF CountNone
<1>4. CountAdd
  <2>1. \A S, x : IsFiniteSet(S) =>
          /\ IsFiniteSet(S \cup {x})
          /\ Cardinality(S \cup {x}) = IF x \in S THEN Cardinality(S) ELSE Cardinality(S) + 1
    BY Zenon, FS_AddElement
  <2> QED
    BY Zenon, <1>1, <2>1, Cardinals DEF CountAdd
<1>5. CountRemove
  <2>1. \A S, x : IsFiniteSet(S) =>
          /\ IsFiniteSet(S \ {x})
          /\ Cardinality(S \ {x}) = IF x \in S THEN Cardinality(S) - 1 ELSE Cardinality(S)
    BY Zenon, FS_RemoveElement
  <2> QED
    BY Zenon, <1>1, <2>1, Cardinals DEF CountRemove
<1>6. CountUnion
  <2>1. \A S, T : IsFiniteSet(S) /\ IsFiniteSet(T) =>
          /\ IsFiniteSet(S \cup T)
          /\ Cardinality(S \cup T) = Cardinality(S) + Cardinality(T) - Cardinality(S \cap T)
    BY Zenon, FS_Union
  <2> QED
    BY Zenon, <1>1, <2>1, Cardinals DEF CountUnion
<1>7. CountImage
  <2> SUFFICES ASSUME NEW f, NEW m \in Nat, NEW n \in Nat, OneToOne(f, m, n)
               PROVE  IsFiniteSet(Image(f, m, n)) /\ Cardinality(Image(f, m, n)) = n - m + 1
    BY Zenon, <1>1, Cardinals DEF CountImage
  <2> DEFINE D == m .. n
             g == [i \in D |-> f[i]]
             T == Image(f, m, n)
  <2>1. IsFiniteSet(D) /\ Cardinality(D) = n - m + 1
    BY SMTT(40), SMTT(40), FS_Interval DEF OneToOne
  <2>2. /\ T = {f[i] : i \in D}
        /\ \A i, j \in D : f[i] = f[j] => i = j
    BY Zenon DEF Image, OneToOne
  <2> HIDE DEF D, T
  <2>3. g \in Bijection(D, T)
    BY Zenon, <2>2 DEF Bijection, Injection, Surjection, IsInjective
  <2>4. ExistsBijection(D, T)
    BY Zenon, <2>3 DEF ExistsBijection
  <2>5. IsFiniteSet(T) /\ Cardinality(T) = n - m + 1
    BY Zenon, <2>1, <2>4, FS_Bijection
  <2> QED
    BY Zenon, <2>5 DEF T
<1> QED
  BY Zenon, <1>2, <1>3, <1>4, <1>5, <1>6, <1>7 DEF Counting

(* The inductive invariant of the queues, counters and histories always    *)
(* holds.                                                                  *)
THEOREM Invariance == Spec => []IInv
<1>1. Init => IInv
  BY Zenon, Counted, InitInv
<1>2. IInv /\ [Next]_vars => IInv'
  BY Zenon, Counted, NextInv
<1> QED
  BY <1>1, <1>2, PTL DEF Spec

(* Every field of ThreadedVar and OprBlock keeps to its type.              *)
THEOREM TypeCorrect == Spec => []TypeOK
<1>1. IInv => TypeOK
  BY Zenon DEF IInv
<1> QED
  BY <1>1, Invariance, PTL

(* The engine never lets two operators be inside conflicting accesses to   *)
(* one variable: many readers or one writer.                               *)
THEOREM MutualExclusion == Spec => []Exclusion
<1>1. IInv => Exclusion
  BY Zenon, KeepsExclusion
<1> QED
  BY <1>1, Invariance, PTL

(* Conflicting operators execute in the order in which they reached the    *)
(* variable.                                                               *)
THEOREM SerialOrder == Spec => []PushOrder
<1>1. IInv => PushOrder
  BY Zenon, KeepsOrder
<1> QED
  BY <1>1, Invariance, PTL

(* Queues and pending triggers name no block that was deleted, and no      *)
(* variable is deleted under a block that still has to access it.          *)
THEOREM NoDanglingPointer == Spec => []NoDangling
<1>1. IInv => NoDangling
  BY Zenon, KeepsPointers
<1> QED
  BY <1>1, Invariance, PTL

(* The assertions of ThreadedVar and of OprBlock hold wherever the code    *)
(* evaluates them.                                                         *)
THEOREM AssertionsHold == Spec => []ChecksHold
<1>1. IInv => ChecksHold
  BY Zenon, Counted, KeepsChecks
<1> QED
  BY <1>1, Invariance, PTL

(* A block is dispatched by its own pusher or, after that, by a trigger:   *)
(* never by a trigger while Push is still appending it.                    *)
THEOREM Dispatch == Spec => DispatchedOnce
<1>1. IInv /\ [Next]_vars => [DispatchStep]_vars
  BY Zenon, Counted, DispatchSteps
<1>2. DispatchedOnce <=> [][DispatchStep]_vars
  BY Zenon DEF DispatchedOnce, DispatchStep
<1> QED
  BY <1>1, <1>2, Invariance, PTL DEF Spec

(* ThreadedEngine implements DependencyEngine: its queues and counters     *)
(* realise "serialized in their push order" for every engine.              *)
THEOREM Refinement == Spec => KeepsPromise
<1>1. Init => Promise!AInit
  BY Zenon, InitRefines
<1>2. IInv /\ [Next]_vars => [Promise!ANext]_(Promise!avars)
  BY Zenon, Counted, NextRefines
<1> QED
  BY <1>1, <1>2, Invariance, PTL DEF Spec, KeepsPromise, Promise!ASpec
=============================================================================
