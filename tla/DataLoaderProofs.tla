-------------------------- MODULE DataLoaderProofs --------------------------
(***************************************************************************)
(* Proofs about DataLoader for any number of samples, batch size, number   *)
(* of workers and of iterators, and any pre-fetch depth.                   *)
(*                                                                         *)
(* LoaderInv says where in the samples it drew the generator of every      *)
(* iterator stands (Generators), what every task in the pool holds         *)
(* (TasksHold), which results are in the buffer (HandedOut) and where the  *)
(* leftover of 'rollover' is (RollsOver).                                  *)
(***************************************************************************)
EXTENDS DataLoader, TLAPS

-----------------------------------------------------------------------------
(* Sequences.                                                              *)

\* A function on 1 .. n is a sequence of length n.
LEMMA FunctionSeq ==
    ASSUME NEW S, NEW n \in Nat, NEW f \in [1 .. n -> S]
    PROVE  f \in Seq(S) /\ Len(f) = n
OBVIOUS

\* The type and the length of a part of a sequence.
LEMMA PartType ==
    ASSUME NEW S, NEW q \in Seq(S), NEW a \in Nat, NEW b \in Nat, b <= Len(q)
    PROVE  /\ SubSeq(q, a + 1, b) \in Seq(S)
           /\ Len(SubSeq(q, a + 1, b)) = IF a <= b THEN b - a ELSE 0
           /\ a <= b => \A j \in 1 .. b - a : SubSeq(q, a + 1, b)[j] = q[a + j]
OBVIOUS

\* Two sequences with the same length and elements are the same.
LEMMA SameSeq ==
    ASSUME NEW S, NEW p \in Seq(S), NEW q \in Seq(S), Len(p) = Len(q),
           \A j \in 1 .. Len(p) : p[j] = q[j]
    PROVE  p = q
OBVIOUS

\* The whole and the empty part of a sequence.
LEMMA WholePart ==
    ASSUME NEW S, NEW q \in Seq(S)
    PROVE  /\ SubSeq(q, 1, Len(q)) = q
           /\ SubSeq(q, 1, 0) = <<>>
           /\ SubSeq(q, Len(q) + 1, Len(q)) = <<>>
           /\ q \o <<>> = q
           /\ <<>> \o q = q
OBVIOUS

\* What two sequences put together are; the first one can be read back.
LEMMA ConcatFacts ==
    ASSUME NEW S, NEW p \in Seq(S), NEW q \in Seq(S)
    PROVE  /\ p \o q \in Seq(S)
           /\ Len(p \o q) = Len(p) + Len(q)
           /\ SubSeq(p \o q, 1, Len(p)) = p
OBVIOUS

\* What appending an element does.
LEMMA AppendFacts ==
    ASSUME NEW S, NEW q \in Seq(S), NEW e \in S
    PROVE  /\ Append(q, e) \in Seq(S)
           /\ Len(Append(q, e)) = Len(q) + 1
           /\ DOMAIN Append(q, e) = 1 .. Len(q) + 1
           /\ \A j \in 1 .. Len(q) : Append(q, e)[j] = q[j]
           /\ Append(q, e)[Len(q) + 1] = e
OBVIOUS

-----------------------------------------------------------------------------
(* DataLoader: the generator of BatchSampler.                              *)

\* The number of samples in n full batches.
At(n) == n * BatchSize

\* The batch that starts after n full ones of the samples D.
Cut(D, n) == SubSeq(D, At(n) + 1, IF At(n + 1) <= Len(D) THEN At(n + 1) ELSE Len(D))

\* It is full, or the last one of 'keep'.
Counts(lb, D, n) == At(n + 1) <= Len(D) \/ (lb = "keep" /\ At(n) < Len(D))

\* What is left of D after n batches.
Rest(D, n) == SubSeq(D, At(n) + 1, Len(D))

Generator == [st : {"new", "run", "end"}, rest : Seq(Sample)]

\* Where a generator over D stands after n batches: in the middle, or at the end.
InMiddle(D, gen, n) == gen.st = "run" /\ At(n) <= Len(D) /\ gen.rest = Rest(D, n)
AtEnd(lb, D, gen, n) ==
    /\ gen.st = "end"
    /\ Len(D) < At(n + 1)
    /\ lb = "keep" => Len(D) <= At(n)
    /\ lb # "keep" => At(n) <= Len(D)

\* A step g of a generator that stands after n batches, _prev being pv: it yields
\* the next batch, if there is one, and stands after it; what 'rollover' does not
\* yield goes into _prev.
Yielded(g, n) == IF g.yield # <<>> THEN n + 1 ELSE n
CutsNext(lb, D, n, g, pv) ==
    /\ g.yield # <<>> => g.yield = Cut(D, n) /\ Counts(lb, D, n)
    /\ \/ InMiddle(D, g.gen, Yielded(g, n)) /\ g.prev = pv /\ g.yield # <<>>
       \/ /\ AtEnd(lb, D, g.gen, Yielded(g, n))
          /\ g.prev = IF lb = "rollover" /\ Rest(D, Yielded(g, n)) # <<>>
                      THEN Rest(D, Yielded(g, n)) ELSE pv

\* Full batches add up.
LEMMA AtFacts ==
    /\ BatchSize \in Nat /\ BatchSize > 0
    /\ At(0) = 0
    /\ \A n \in Nat : At(n) \in Nat /\ At(n + 1) = At(n) + BatchSize
BY SamplerAssumption DEF At

\* The rest of the rest.
LEMMA RestSplits ==
    ASSUME NEW S, NEW D \in Seq(S), NEW n \in Nat, At(n) <= Len(D)
    PROVE  /\ Rest(D, n) \in Seq(S)
           /\ Len(Rest(D, n)) = Len(D) - At(n)
           /\ BatchSize <= Len(Rest(D, n)) =>
                /\ At(n + 1) <= Len(D)
                /\ SubSeq(Rest(D, n), 1, BatchSize) = SubSeq(D, At(n) + 1, At(n + 1))
                /\ Len(SubSeq(D, At(n) + 1, At(n + 1))) = BatchSize
                /\ SubSeq(Rest(D, n), BatchSize + 1, Len(Rest(D, n))) = Rest(D, n + 1)
<1>1. /\ BatchSize \in Nat /\ BatchSize > 0 /\ At(n) \in Nat /\ At(n + 1) = At(n) + BatchSize
    BY Zenon, AtFacts
<1> DEFINE a == At(n)
           B == BatchSize
           R == SubSeq(D, a + 1, Len(D))
<1>2. a \in Nat /\ B \in Nat /\ B > 0 /\ a <= Len(D) /\ Len(D) \in Nat
    BY <1>1
<1> HIDE DEF a, B
<1>3. /\ R \in Seq(S) /\ Len(R) = Len(D) - a
      /\ \A j \in 1 .. Len(D) - a : R[j] = D[a + j]
    BY <1>2, PartType
<1> HIDE DEF R
<1>4. ASSUME B <= Len(R)
      PROVE  SubSeq(R, 1, B) = SubSeq(D, a + 1, a + B) /\ Len(SubSeq(D, a + 1, a + B)) = B
  <2> DEFINE u == SubSeq(R, 1, B)
             v == SubSeq(D, a + 1, a + B)
  <2>1. u \in Seq(S) /\ Len(u) = B /\ \A j \in 1 .. B : u[j] = R[j]
      BY <1>2, <1>3, <1>4
  <2>2. a + B <= Len(D) /\ a + B \in Nat /\ a <= a + B /\ (a + B) - a = B
      BY <1>2, <1>3, <1>4
  <2>3. v \in Seq(S) /\ Len(v) = B /\ \A j \in 1 .. B : v[j] = D[a + j]
      BY <1>2, <2>2, PartType
  <2> HIDE DEF u, v
  <2>4. ASSUME NEW j \in 1 .. B PROVE u[j] = v[j]
    <3>1. j \in 1 .. Len(D) - a
        BY <1>2, <1>3, <1>4
    <3> QED
        BY Zenon, <1>3, <2>1, <2>3, <3>1
  <2>5. u = v
      BY Zenon, <2>1, <2>3, <2>4, SameSeq
  <2> QED
      BY Zenon, <2>3, <2>5 DEF u, v
<1>5. ASSUME B <= Len(R)
      PROVE  SubSeq(R, B + 1, Len(R)) = SubSeq(D, (a + B) + 1, Len(D))
  <2> DEFINE u == SubSeq(R, B + 1, Len(R))
             v == SubSeq(D, (a + B) + 1, Len(D))
             l == Len(D) - (a + B)
  <2>1. Len(R) \in Nat /\ Len(R) - B = l /\ l \in Nat /\ a + B \in Nat /\ a + B <= Len(D)
      BY <1>2, <1>3, <1>5
  <2>2. u \in Seq(S) /\ Len(u) = Len(R) - B /\ \A j \in 1 .. Len(R) - B : u[j] = R[B + j]
      BY SMTT(40), SMTT(40), <1>2, <1>3, <1>5, <2>1, PartType
  <2>3. v \in Seq(S) /\ Len(v) = l /\ \A j \in 1 .. l : v[j] = D[(a + B) + j]
      BY SMTT(40), SMTT(40), SMTT(40), <1>2, <2>1, PartType
  <2> HIDE DEF u, v
  <2>4. ASSUME NEW j \in 1 .. l PROVE u[j] = v[j]
    <3>1. u[j] = R[B + j] /\ v[j] = D[(a + B) + j]
        BY Zenon, <2>1, <2>2, <2>3
    <3>2. B + j \in 1 .. Len(D) - a /\ a + (B + j) = (a + B) + j
        BY <1>2, <2>1
    <3> QED
        BY Zenon, <1>3, <3>1, <3>2
  <2>5. u = v
      BY Zenon, <2>1, <2>2, <2>3, <2>4, SameSeq
  <2> QED
      BY Zenon, <2>5 DEF u, v
<1>6. B <= Len(R) => a + B <= Len(D)
    BY <1>2, <1>3
<1> QED
    BY Zenon, <1>1, <1>3, <1>4, <1>5, <1>6 DEF Rest, R, a, B

\* One next on a generator that stands after n batches.
LEMMA GenStepCuts ==
    ASSUME NEW D \in Seq(Sample), NEW n \in Nat, NEW gen \in Generator,
           InMiddle(D, gen, n), NEW pv \in Seq(Sample),
           last_batch \in {"keep", "discard", "rollover"}
    PROVE  CutsNext(last_batch, D, n, GenStep(gen, pv), pv)
<1> DEFINE g == GenStep(gen, pv)
           m == Yielded(g, n)
           R == Rest(D, n)
<1>1. /\ BatchSize \in Nat /\ BatchSize > 0
      /\ At(n) \in Nat /\ At(n + 1) = At(n) + BatchSize
      /\ At(n + 1) \in Nat /\ At((n + 1) + 1) = At(n + 1) + BatchSize /\ n + 1 \in Nat
    BY AtFacts
<1>2. At(n) <= Len(D) /\ Len(D) \in Nat /\ gen.rest = R /\ gen.st = "run"
    BY DEF InMiddle
<1>3. R \in Seq(Sample) /\ Len(R) = Len(D) - At(n)
    BY Zenon, <1>2, RestSplits
<1>4. CASE BatchSize <= Len(R)
  <2>1. /\ At(n + 1) <= Len(D)
        /\ SubSeq(R, 1, BatchSize) = SubSeq(D, At(n) + 1, At(n + 1))
        /\ Len(SubSeq(D, At(n) + 1, At(n + 1))) = BatchSize
        /\ SubSeq(R, BatchSize + 1, Len(R)) = Rest(D, n + 1)
      BY Zenon, <1>2, <1>4, RestSplits
  <2>2. g = [gen |-> [st |-> "run", rest |-> Rest(D, n + 1)], prev |-> pv,
             yield |-> SubSeq(D, At(n) + 1, At(n + 1))]
      BY Zenon, <1>2, <1>4, <2>1, "run" # "end" DEF GenStep, Fits
  <2> DEFINE c == SubSeq(D, At(n) + 1, At(n + 1))
             r == Rest(D, n + 1)
  <2> HIDE DEF g, c, r
  <2>a. g = [gen |-> [st |-> "run", rest |-> r], prev |-> pv, yield |-> c]
      BY Zenon, <2>2 DEF c, r
  <2>b. g.yield = c /\ g.prev = pv /\ g.gen = [st |-> "run", rest |-> r]
      BY Zenon, <2>a
  <2>3. g.yield = SubSeq(D, At(n) + 1, At(n + 1)) /\ g.prev = pv
        /\ g.gen = [st |-> "run", rest |-> Rest(D, n + 1)]
      BY Zenon, <2>b DEF c, r
  <2>4. Len(g.yield) # 0
    <3>1. Len(g.yield) = BatchSize
        BY Zenon, <2>1, <2>3
    <3> QED
        BY <1>1, <3>1
  <2>5. g.yield # <<>>
      BY <2>4
  <2>6. m = n + 1
      BY Zenon, <2>5 DEF Yielded
  <2>7. g.yield = Cut(D, n) /\ Counts(last_batch, D, n)
      BY Zenon, <2>1, <2>3 DEF Cut, Counts
  <2>8. Rest(D, n + 1) \in Seq(Sample)
      BY Zenon, <1>1, <2>1, RestSplits
  <2>9. InMiddle(D, g.gen, n + 1)
      BY <2>1, <2>3, <2>8 DEF InMiddle
  <2> QED
      BY Zenon, <2>3, <2>5, <2>6, <2>7, <2>9 DEF g, CutsNext
<1>5. CASE ~(BatchSize <= Len(R))
  <2>1. g = [gen |-> [st |-> "end", rest |-> <<>>], prev |-> Prev(pv, R), yield |-> LastYield(R)]
      BY Zenon, <1>2, <1>5, "run" # "end" DEF GenStep, Fits
  <2>2. /\ g.gen = [st |-> "end", rest |-> <<>>] /\ g.prev = Prev(pv, R)
        /\ g.yield = LastYield(R)
      BY <2>1
  <2> HIDE DEF g
  <2>3. Len(D) < At(n + 1) /\ ~(At(n + 1) <= Len(D))
      BY SMTT(40), SMTT(40), SMTT(40), <1>1, <1>2, <1>3, <1>5
  <2>4. g.gen.st = "end"
      BY <2>2
  <2>6. Cut(D, n) = R
      BY Zenon, <2>3 DEF Cut, Rest
  <2>7. CASE last_batch = "keep" /\ R # <<>>
    <3>1. g.yield = R /\ m = n + 1 /\ g.prev = pv
        BY Zenon, <2>2, <2>7 DEF LastYield, Prev, Yielded
    <3>2. At(n) < Len(D)
      <4>1. Len(R) # 0
          BY <1>3, <2>7
      <4> QED
          BY SMTT(40), SMTT(40), SMTT(40), <1>1, <1>2, <1>3, <4>1
    <3>3. Counts(last_batch, D, n)
        BY Zenon, <2>7, <3>2 DEF Counts
    <3>4. Len(D) < At((n + 1) + 1) /\ Len(D) <= At(n + 1)
        BY SMTT(40), SMTT(40), SMTT(40), <1>1, <1>2, <2>3
    <3>5. AtEnd(last_batch, D, g.gen, n + 1)
        BY Zenon, <2>4, <2>7, <3>4 DEF AtEnd
    <3>6. last_batch # "rollover"
        BY Zenon, <2>7
    <3> QED
        BY Zenon, <2>6, <3>1, <3>3, <3>5, <3>6 DEF g, CutsNext
  <2>8. CASE last_batch # "keep" \/ R = <<>>
    <3>1. g.yield = <<>> /\ m = n
        BY Zenon, <2>2, <2>8 DEF LastYield, Yielded
    <3>2. last_batch = "keep" => Len(D) <= At(n)
      <4>1. R = <<>> => Len(R) = 0
          OBVIOUS
      <4>2. Len(R) = 0 => Len(D) <= At(n)
        <5> DEFINE a == At(n)
                   d == Len(D)
                   z == Len(R)
        <5>1. a \in Nat /\ d \in Nat /\ z = d - a
            BY Zenon, <1>1, <1>2, <1>3
        <5> HIDE DEF a, d, z
        <5>2. z = 0 => d <= a
            BY <5>1
        <5> QED
            BY Zenon, <5>2 DEF a, d, z
      <4> QED
          BY Zenon, <2>8, <4>1, <4>2
    <3>3. AtEnd(last_batch, D, g.gen, n)
        BY Zenon, <1>2, <2>3, <2>4, <3>2 DEF AtEnd
    <3>4. g.prev = IF last_batch = "rollover" /\ Rest(D, n) # <<>> THEN Rest(D, n) ELSE pv
        BY Zenon, <2>2 DEF Prev
    <3> QED
        BY Zenon, <3>1, <3>3, <3>4 DEF g, CutsNext
  <2> QED
      BY Zenon, <2>7, <2>8
<1> QED
    BY Zenon, <1>4, <1>5

-----------------------------------------------------------------------------
(* DataLoader: the invariant.                                              *)

LoaderIter == [gen : Generator, sent : Nat, rcvd : Nat, buffer : SUBSET Nat, stopped : BOOLEAN]
Task == Nat \X Nat \X Seq(Sample)
Handed == [samples : Seq(Sample), axis : BOOLEAN]

LoaderTyped ==
    /\ last_batch \in {"keep", "discard", "rollover"}
    /\ prev \in Seq(Sample)
    /\ it \in Seq(LoaderIter)
    /\ opening \in Nat /\ (opening > 0 => Len(it) > 0)
    /\ pool \in {"run", "terminated"}
    /\ order \in Seq(Seq(Sample)) /\ Len(order) = Len(it)
    /\ took \in Seq(Seq(Sample)) /\ Len(took) = Len(it)
    /\ delivered \in Seq(Seq(Handed)) /\ Len(delivered) = Len(it)
    /\ promised \in Seq(Int) /\ Len(promised) = Len(it)
    /\ queue \in Seq(Task)
    /\ running \in [Worker -> Task \union {Idle}]
    /\ done \subseteq [task : Task, ok : BOOLEAN]
    /\ caller \in {Idle} \union (Nat \X Nat)

\* Where the generator of an iterator stands: it has yielded sent_idx batches.
GenAt(lb, D, x) ==
    \/ x.gen.st = "new"
    \/ InMiddle(D, x.gen, x.sent)
    \/ AtEnd(lb, D, x.gen, x.sent)

Generators ==
    \A i \in Iterators :
        /\ it[i].gen.st = "new" => it[i].sent = 0 /\ took[i] = <<>> /\ order[i] = <<>>
        /\ it[i].gen.st # "new" => Len(order[i]) = Length
        /\ pool = "run" => GenAt(last_batch, Drawn(i), it[i])
        /\ \A n \in Nat : n < it[i].sent => Counts(last_batch, Drawn(i), n)

\* The samples iterator i draws from and the _prev it works with, once it started.
Base(i, ord) == IF it[i].gen.st = "new" THEN prev \o ord ELSE Drawn(i)
PrevOf(i) == IF it[i].gen.st = "new" THEN <<>> ELSE prev

\* A task holds the batch its index stands for, of the iterators its, which started
\* from tk and drew od.
TaskHolds(t, its, tk, od) ==
    /\ t[1] \in 1 .. Len(its)
    /\ t[2] < its[t[1]].sent
    /\ t[3] = Cut(tk[t[1]] \o od[t[1]], t[2])

TasksHold ==
    /\ \A j \in 1 .. Len(queue) : TaskHolds(queue[j], it, took, order)
    /\ \A w \in Worker : running[w] # Idle => TaskHolds(running[w], it, took, order)
    /\ \A r \in done : TaskHolds(r.task, it, took, order) /\ (bad = {} => r.ok = TRUE)

\* The buffer of iterator i, which is x, while cl is the caller: it holds results that
\* were sent and not received, all of them when dataset[i] does not raise.
BufferHolds(i, x, bd, cl, pl) ==
    /\ \A n \in x.buffer : x.rcvd <= n /\ n < x.sent
    /\ bd = {} => \A n \in Nat : x.rcvd <= n /\ n < x.sent => n \in x.buffer \/ cl = <<i, n>>
    /\ \A n \in Nat : cl = <<i, n>> => n = x.rcvd /\ n < x.sent /\ n \notin x.buffer
    /\ x.stopped => x.rcvd = x.sent /\ (pl = "run" => x.gen.st = "end")

\* What was handed out, and which results are in the buffer.
HandedOut ==
    /\ failed => bad # {}
    /\ caller # Idle => caller[1] \in Iterators
    /\ \A i \in Iterators :
        /\ it[i].rcvd = Len(delivered[i]) /\ it[i].rcvd <= it[i].sent
        /\ \A n \in Nat : n < Len(delivered[i]) => delivered[i][n + 1].samples = Cut(Drawn(i), n)
        /\ BufferHolds(i, it[i], bad, caller, pool)

\* What an iterator that sent n batches of D leaves in _prev when it ends, and what
\* iterator i finds there.
LeavesOf(lb, D, n) == IF lb = "rollover" THEN Rest(D, n) ELSE <<>>
Leaves(i) == LeavesOf(last_batch, Drawn(i), it[i].sent)
Finds(i) == IF i = 1 THEN <<>> ELSE Leaves(i - 1)

\* One iterator at a time, the leftover goes from each to the next.
RollsOver ==
    ~overlap /\ pool = "run" =>
        /\ Len(it) = 0 => prev = <<>>
        /\ \A i \in Iterators :
             /\ i < Len(it) => it[i].stopped
             /\ it[i].gen.st # "new" => took[i] = Finds(i)
             /\ promised[i] = SamplerLen(Finds(i))
             /\ i = Len(it) => prev = IF it[i].gen.st = "new" THEN Finds(i)
                                     ELSE IF it[i].gen.st = "run" THEN <<>>
                                     ELSE Leaves(i)

LoaderInv == LoaderTyped /\ Generators /\ TasksHold /\ HandedOut /\ RollsOver

\* Replacing one element of a sequence.
LEMMA UpdateFacts ==
    ASSUME NEW S, NEW q \in Seq(S), NEW i \in 1 .. Len(q), NEW e \in S,
           NEW u, u = [q EXCEPT ![i] = e]
    PROVE  /\ u \in Seq(S) /\ Len(u) = Len(q) /\ u[i] = e
           /\ \A j \in 1 .. Len(q) : j # i => u[j] = q[j]
OBVIOUS

\* A sequence of length l grows by one element.
LEMMA GrowFacts ==
    ASSUME NEW S, NEW q \in Seq(S), NEW e \in S, NEW l, l = Len(q), NEW u, u = Append(q, e)
    PROVE  /\ u \in Seq(S) /\ Len(u) = l + 1 /\ u[l + 1] = e
           /\ \A j \in 1 .. l : u[j] = q[j]
OBVIOUS

\* An order of the sampler is a sequence of all its samples.
LEMMA OrderFacts ==
    ASSUME NEW ord \in Orders
    PROVE  ord \in Seq(Sample) /\ Len(ord) = Length
<1>1. Length \in Nat
    BY Zenon, SamplerAssumption
<1>2. ord \in [1 .. Length -> Sample]
    BY <1>1 DEF Orders, Sample
<1> QED
    BY Zenon, <1>1, <1>2, FunctionSeq

\* The fields of an iterator and of its generator.
LEMMA IterFields ==
    ASSUME NEW x \in LoaderIter
    PROVE  /\ x.gen \in Generator /\ x.sent \in Nat /\ x.rcvd \in Nat /\ x.buffer \subseteq Nat
           /\ x.stopped \in BOOLEAN
           /\ x.gen.st \in {"new", "run", "end"} /\ x.gen.rest \in Seq(Sample)
BY Zenon DEF LoaderIter, Generator

\* What the types say of one iterator.
LEMMA LoaderElems ==
    ASSUME LoaderTyped, NEW i \in Iterators
    PROVE  /\ i \in Nat /\ i \in 1 .. Len(it) /\ Len(it) \in Nat /\ Iterators = 1 .. Len(it)
           /\ it[i] \in LoaderIter /\ order[i] \in Seq(Sample) /\ took[i] \in Seq(Sample)
           /\ delivered[i] \in Seq(Handed) /\ Drawn(i) \in Seq(Sample)
           /\ it[i].gen \in Generator /\ it[i].sent \in Nat /\ it[i].rcvd \in Nat
           /\ it[i].stopped \in BOOLEAN /\ it[i].gen.st \in {"new", "run", "end"}
<1>1. /\ it \in Seq(LoaderIter) /\ order \in Seq(Seq(Sample)) /\ Len(order) = Len(it)
      /\ took \in Seq(Seq(Sample)) /\ Len(took) = Len(it)
      /\ delivered \in Seq(Seq(Handed)) /\ Len(delivered) = Len(it)
    BY Zenon DEF LoaderTyped
<1>2. ASSUME NEW S, NEW q \in Seq(S), NEW j \in 1 .. Len(q) PROVE q[j] \in S
    OBVIOUS
<1>3. Iterators = 1 .. Len(it) /\ i \in 1 .. Len(it)
    BY Zenon DEF Iterators
<1>4. Len(it) \in Nat
    BY <1>1
<1>5. i \in Nat
    BY <1>3, <1>4
<1>6. it[i] \in LoaderIter /\ order[i] \in Seq(Sample) /\ took[i] \in Seq(Sample)
      /\ delivered[i] \in Seq(Handed)
    BY Zenon, <1>1, <1>2, <1>3
<1>7. Drawn(i) \in Seq(Sample)
    BY Zenon, <1>6, ConcatFacts DEF Drawn
<1> QED
    BY Zenon, <1>3, <1>4, <1>5, <1>6, <1>7, IterFields

\* The generator stays one, and is no longer new.
LEMMA GenNextTyped ==
    ASSUME NEW gen \in Generator, NEW pv \in Seq(Sample), NEW ord \in Seq(Sample)
    PROVE  LET g == GenNext(gen, pv, ord)
           IN  /\ g.gen \in Generator /\ g.gen.st # "new"
               /\ g.prev \in Seq(Sample) /\ g.yield \in Seq(Sample)
<1>1. BatchSize \in Nat /\ BatchSize > 0
    BY Zenon, AtFacts
<1>2. ASSUME NEW h \in Generator, h.st # "new", NEW v \in Seq(Sample)
      PROVE  /\ GenStep(h, v).gen \in Generator /\ GenStep(h, v).gen.st # "new"
             /\ GenStep(h, v).prev \in Seq(Sample) /\ GenStep(h, v).yield \in Seq(Sample)
  <2> DEFINE R == h.rest
  <2>1. R \in Seq(Sample)
      BY Zenon DEF Generator
  <2> HIDE DEF R
  <2>2. CASE h.st = "end"
    <3>1. GenStep(h, v) = [gen |-> h, prev |-> v, yield |-> <<>>]
        BY Zenon, <2>2 DEF GenStep
    <3> QED
        BY <1>2, <3>1
  <2>3. CASE h.st # "end" /\ BatchSize <= Len(R)
    <3> DEFINE a == SubSeq(R, BatchSize + 1, Len(R))
               b == SubSeq(R, 1, BatchSize)
    <3>1. a \in Seq(Sample) /\ b \in Seq(Sample)
        BY SMTT(40), <1>1, <2>1, <2>3
    <3>2. GenStep(h, v) = [gen |-> [st |-> "run", rest |-> a], prev |-> v, yield |-> b]
        BY Zenon, <2>3 DEF GenStep, Fits, R
    <3> HIDE DEF a, b
    <3> QED
        BY <3>1, <3>2 DEF Generator
  <2>4. CASE h.st # "end" /\ ~(BatchSize <= Len(R))
    <3>1. GenStep(h, v) = [gen |-> [st |-> "end", rest |-> <<>>], prev |-> Prev(v, R),
                           yield |-> LastYield(R)]
        BY Zenon, <2>4 DEF GenStep, Fits, R
    <3>2. Prev(v, R) \in Seq(Sample) /\ LastYield(R) \in Seq(Sample)
        BY <2>1 DEF Prev, LastYield
    <3> QED
        BY <3>1, <3>2 DEF Generator
  <2> QED
      BY Zenon, <2>2, <2>3, <2>4
<1>4. <<>> \in Seq(Sample)
    OBVIOUS
<1>3. Start(pv, ord) \in Generator /\ Start(pv, ord).st # "new"
    BY Zenon, ConcatFacts DEF Start, Generator
<1> QED
    BY Zenon, <1>2, <1>3, <1>4 DEF GenNext

\* One next on the generator of iterator i, on a pool that runs.
LEMMA GenNextCuts ==
    ASSUME LoaderTyped, Generators, pool = "run", NEW i \in Iterators, NEW ord \in Orders
    PROVE  LET g == GenNext(it[i].gen, prev, ord)
               D == Base(i, ord)
           IN  /\ D \in Seq(Sample)
               /\ it[i].gen.st = "end" =>
                    /\ g.gen = it[i].gen /\ g.prev = prev /\ g.yield = <<>>
                    /\ AtEnd(last_batch, D, g.gen, it[i].sent)
               /\ it[i].gen.st # "end" => CutsNext(last_batch, D, it[i].sent, g, PrevOf(i))
<1>1. /\ it[i] \in LoaderIter /\ prev \in Seq(Sample) /\ Drawn(i) \in Seq(Sample)
      /\ last_batch \in {"keep", "discard", "rollover"}
    BY Zenon, LoaderElems DEF LoaderTyped
<1>2. ord \in Seq(Sample) /\ Len(ord) = Length
    BY Zenon, OrderFacts
<1> DEFINE gen == it[i].gen
           n == it[i].sent
           P == prev \o ord
<1>3. gen \in Generator /\ n \in Nat /\ gen.st \in {"new", "run", "end"} /\ <<>> \in Seq(Sample)
    BY <1>1, IterFields
<1>4. GenAt(last_batch, Drawn(i), it[i]) /\ (gen.st = "new" => n = 0)
    BY Zenon DEF Generators
<1>5. P \in Seq(Sample) /\ Len(P) \in Nat
    BY <1>1, <1>2, ConcatFacts
<1>6. CASE gen.st = "new"
  <2>1. n = 0 /\ At(0) = 0
      BY Zenon, <1>4, <1>6, AtFacts
  <2> DEFINE h == [st |-> "run", rest |-> P]
  <2>2. GenNext(gen, prev, ord) = GenStep(h, <<>>)
      BY Zenon, <1>6 DEF GenNext, Start
  <2>3. h \in Generator /\ h.st = "run" /\ h.rest = P
      BY Zenon, <1>5 DEF Generator
  <2>4. Rest(P, 0) = P
    <3>1. At(0) + 1 = 1
        BY <2>1
    <3> QED
        BY Zenon, <1>5, <3>1, WholePart DEF Rest
  <2>5. At(0) <= Len(P)
      BY <1>5, <2>1
  <2> HIDE DEF h, P
  <2>6. InMiddle(P, h, n)
      BY Zenon, <2>1, <2>3, <2>4, <2>5 DEF InMiddle
  <2>7. gen.st # "end"
      BY Zenon, <1>6
  <2>8. CutsNext(last_batch, P, n, GenStep(h, <<>>), <<>>)
      BY Zenon, <1>1, <1>3, <1>5, <2>3, <2>6, GenStepCuts
  <2>9. Base(i, ord) = P /\ PrevOf(i) = <<>>
      BY Zenon, <1>6 DEF Base, PrevOf, P
  <2> QED
      BY Zenon, <1>5, <2>2, <2>7, <2>8, <2>9
<1>7. CASE gen.st = "run"
  <2>1. InMiddle(Drawn(i), gen, n)
      BY Zenon, <1>4, <1>7 DEF GenAt, AtEnd
  <2>2. GenNext(gen, prev, ord) = GenStep(gen, prev) /\ gen.st # "new" /\ gen.st # "end"
      BY Zenon, <1>7 DEF GenNext
  <2>3. CutsNext(last_batch, Drawn(i), n, GenStep(gen, prev), prev)
      BY Zenon, <1>1, <1>3, <2>1, GenStepCuts
  <2>4. Base(i, ord) = Drawn(i) /\ PrevOf(i) = prev
      BY Zenon, <2>2 DEF Base, PrevOf
  <2> QED
      BY Zenon, <1>1, <2>2, <2>3, <2>4
<1>8. CASE gen.st = "end"
  <2>1. AtEnd(last_batch, Drawn(i), gen, n)
      BY Zenon, <1>4, <1>8 DEF GenAt, InMiddle
  <2>2. GenNext(gen, prev, ord) = [gen |-> gen, prev |-> prev, yield |-> <<>>] /\ gen.st # "new"
      BY Zenon, <1>8 DEF GenNext, GenStep
  <2> DEFINE g == GenNext(gen, prev, ord)
  <2>3. g.gen = gen /\ g.prev = prev /\ g.yield = <<>>
      BY <2>2
  <2> HIDE DEF g
  <2>4. Base(i, ord) = Drawn(i)
      BY Zenon, <2>2 DEF Base
  <2> QED
      BY Zenon, <1>1, <1>8, <2>1, <2>3, <2>4 DEF g
<1> QED
    BY Zenon, <1>3, <1>6, <1>7, <1>8

-----------------------------------------------------------------------------
(* DataLoader: a call of _push_next keeps the invariant.                   *)

\* The call, which leaves the iterator as y; what __next__ does to y besides is
\* left open.
PushStep(i, ord, y) ==
    LET g == GenNext(it[i].gen, prev, ord)
    IN  /\ PushNext(i, g, ord)
        /\ it' = [it EXCEPT ![i] = y]
        /\ y \in LoaderIter
        /\ y.gen = g.gen
        /\ y.sent = IF Sends(g) THEN it[i].sent + 1 ELSE it[i].sent
        /\ UNCHANGED <<last_batch, bad, done, running, pool, overlap, promised, delivered>>

\* The fields of the iterator after the call.
LEMMA PushedFields ==
    ASSUME NEW x \in LoaderIter, NEW g, g.gen \in Generator
    PROVE  /\ Pushed(x, g) \in LoaderIter
           /\ Pushed(x, g).gen = g.gen
           /\ Pushed(x, g).sent = IF Sends(g) THEN x.sent + 1 ELSE x.sent
           /\ Pushed(x, g).buffer = IF Sends(g) THEN x.buffer \union {x.sent} ELSE x.buffer
           /\ Pushed(x, g).rcvd = x.rcvd
           /\ Pushed(x, g).stopped = x.stopped
<1>1. CASE Sends(g)
  <2>1. Pushed(x, g) = [x EXCEPT !.gen = g.gen, !.sent = @ + 1, !.buffer = @ \union {x.sent}]
      BY Zenon, <1>1 DEF Pushed, Key
  <2>2. Pushed(x, g) = [gen |-> g.gen, sent |-> x.sent + 1, rcvd |-> x.rcvd,
                        buffer |-> x.buffer \union {x.sent}, stopped |-> x.stopped]
      BY Zenon, <2>1 DEF LoaderIter
  <2> QED
      BY <1>1, <2>2 DEF LoaderIter
<1>2. CASE ~Sends(g)
  <2>1. Pushed(x, g) = [x EXCEPT !.gen = g.gen, !.sent = @, !.buffer = @]
      BY Zenon, <1>2 DEF Pushed
  <2>2. Pushed(x, g) = [gen |-> g.gen, sent |-> x.sent, rcvd |-> x.rcvd, buffer |-> x.buffer,
                        stopped |-> x.stopped]
      BY Zenon, <2>1 DEF LoaderIter
  <2> QED
      BY <1>2, <2>2 DEF LoaderIter
<1> QED
    BY Zenon, <1>1, <1>2

\* What the call leaves alone: the other iterators, and what iterator i drew unless
\* this is the first call, when it has sent nothing.
LEMMA PushFrame ==
    ASSUME LoaderTyped, Generators, NEW i \in Iterators, NEW ord \in Orders, NEW y,
           PushStep(i, ord, y)
    PROVE  /\ it' \in Seq(LoaderIter) /\ Len(it') = Len(it) /\ Iterators' = Iterators
           /\ it'[i] = y /\ \A j \in Iterators : j # i => it'[j] = it[j]
           /\ y.gen.st # "new"
           /\ prev' \in Seq(Sample)
           /\ order' \in Seq(Seq(Sample)) /\ Len(order') = Len(it)
           /\ took' \in Seq(Seq(Sample)) /\ Len(took') = Len(it)
           /\ queue' \in Seq(Task)
           /\ Len(order'[i]) = Length
           /\ Drawn(i)' = Base(i, ord)
           /\ it[i].gen.st # "new" => Drawn(i)' = Drawn(i) /\ took'[i] = took[i]
           /\ it[i].gen.st = "new" => took'[i] = prev
           /\ \A j \in Iterators : j # i =>
                order'[j] = order[j] /\ took'[j] = took[j] /\ Drawn(j)' = Drawn(j)
<1> DEFINE g == GenNext(it[i].gen, prev, ord)
<1>1. /\ it \in Seq(LoaderIter) /\ i \in 1 .. Len(it) /\ it[i] \in LoaderIter /\ i \in Nat
      /\ i \in 1 .. Len(order) /\ i \in 1 .. Len(took)
      /\ prev \in Seq(Sample) /\ queue \in Seq(Task)
      /\ order \in Seq(Seq(Sample)) /\ Len(order) = Len(it)
      /\ took \in Seq(Seq(Sample)) /\ Len(took) = Len(it)
    BY Zenon, LoaderElems DEF LoaderTyped
<1>2. ord \in Seq(Sample) /\ Len(ord) = Length
    BY Zenon, OrderFacts
<1>3. it[i].gen \in Generator /\ it[i].sent \in Nat
    BY Zenon, <1>1, IterFields
<1>4. g.gen \in Generator /\ g.gen.st # "new" /\ g.prev \in Seq(Sample) /\ g.yield \in Seq(Sample)
    BY Zenon, <1>1, <1>2, <1>3, GenNextTyped
<1> HIDE DEF g
<1>5. /\ PushNext(i, g, ord) /\ it' = [it EXCEPT ![i] = y] /\ y \in LoaderIter /\ y.gen = g.gen
    BY Zenon DEF PushStep, g
<1>6. /\ it' \in Seq(LoaderIter) /\ Len(it') = Len(it) /\ it'[i] = y
      /\ \A j \in 1 .. Len(it) : j # i => it'[j] = it[j]
    BY <1>1, <1>5, UpdateFacts
<1>7. prev' \in Seq(Sample) /\ y.gen.st # "new"
    BY Zenon, <1>4, <1>5 DEF PushNext
<1>8. queue' \in Seq(Task)
  <2>1. CASE Sends(g)
    <3>1. <<i, it[i].sent, g.yield>> \in Task
        BY Zenon, <1>1, <1>3, <1>4 DEF Task
    <3>2. queue' = Append(queue, <<i, it[i].sent, g.yield>>)
        BY Zenon, <1>5, <2>1 DEF PushNext, Key
    <3> QED
        BY Zenon, <1>1, <3>1, <3>2, AppendFacts
  <2>2. CASE ~Sends(g)
      BY Zenon, <1>1, <1>5, <2>2 DEF PushNext
  <2> QED
      BY Zenon, <2>1, <2>2
<1>9. CASE it[i].gen.st = "new"
  <2>1. order' = [order EXCEPT ![i] = ord] /\ took' = [took EXCEPT ![i] = prev]
      BY Zenon, <1>5, <1>9 DEF PushNext
  <2>2. /\ order' \in Seq(Seq(Sample)) /\ Len(order') = Len(it) /\ order'[i] = ord
        /\ \A j \in 1 .. Len(it) : j # i => order'[j] = order[j]
      BY SMTT(40), SMTT(40), SMTT(40), <1>1, <1>2, <2>1, UpdateFacts
  <2>3. /\ took' \in Seq(Seq(Sample)) /\ Len(took') = Len(it) /\ took'[i] = prev
        /\ \A j \in 1 .. Len(it) : j # i => took'[j] = took[j]
      BY <1>1, <2>1, UpdateFacts
  <2>4. Drawn(i)' = Base(i, ord)
      BY Zenon, <1>9, <2>2, <2>3 DEF Drawn, Base
  <2>5. \A j \in Iterators : j # i => Drawn(j)' = Drawn(j)
      BY Zenon, <2>2, <2>3 DEF Drawn, Iterators
  <2> QED
      BY Zenon, <1>2, <1>6, <1>7, <1>8, <1>9, <2>2, <2>3, <2>4, <2>5 DEF Iterators
<1>10. CASE it[i].gen.st # "new"
  <2>1. order' = order /\ took' = took
      BY Zenon, <1>5, <1>10 DEF PushNext
  <2>2. \A j \in Iterators : Drawn(j)' = Drawn(j)
      BY Zenon, <2>1 DEF Drawn
  <2>3. Drawn(i)' = Base(i, ord)
      BY Zenon, <1>10, <2>2 DEF Base
  <2>4. Len(order[i]) = Length
      BY Zenon, <1>10 DEF Generators
  <2> QED
      BY Zenon, <1>1, <1>6, <1>7, <1>8, <1>10, <2>1, <2>2, <2>3, <2>4 DEF Iterators
<1> QED
    BY Zenon, <1>9, <1>10

\* The generators.
LEMMA PushGenerators ==
    ASSUME LoaderTyped, Generators, NEW i \in Iterators, NEW ord \in Orders, NEW y,
           PushStep(i, ord, y)
    PROVE  Generators'
<1> DEFINE g == GenNext(it[i].gen, prev, ord)
           D == Base(i, ord)
           n == it[i].sent
<1>1. /\ Iterators' = Iterators /\ it'[i] = y /\ \A j \in Iterators : j # i => it'[j] = it[j]
      /\ y.gen.st # "new" /\ Len(order'[i]) = Length /\ Drawn(i)' = D
      /\ it[i].gen.st # "new" => Drawn(i)' = Drawn(i)
      /\ \A j \in Iterators : j # i =>
           order'[j] = order[j] /\ took'[j] = took[j] /\ Drawn(j)' = Drawn(j)
    BY PushFrame
<1>2. /\ y.gen = g.gen /\ y.sent = (IF Sends(g) THEN n + 1 ELSE n)
      /\ last_batch' = last_batch /\ pool' = pool
    BY Zenon DEF PushStep
<1>3. n \in Nat /\ pool \in {"run", "terminated"}
    BY Zenon, LoaderElems DEF LoaderTyped
<1> HIDE DEF g, D, n
<1>4. ASSUME pool = "run"
      PROVE  /\ y.sent = Yielded(g, n)
             /\ g.yield # <<>> => Counts(last_batch, D, n)
             /\ InMiddle(D, y.gen, y.sent) \/ AtEnd(last_batch, D, y.gen, y.sent)
  <2>1. y.sent = Yielded(g, n)
      BY Zenon, <1>2, <1>4 DEF Sends, Yielded
  <2>2. CASE it[i].gen.st = "end"
    <3>1. g.yield = <<>> /\ AtEnd(last_batch, D, g.gen, n)
        BY Zenon, <1>4, <2>2, GenNextCuts DEF g, D, n
    <3> QED
        BY Zenon, <1>2, <2>1, <3>1 DEF Yielded
  <2>3. CASE it[i].gen.st # "end"
    <3>1. CutsNext(last_batch, D, n, g, PrevOf(i))
        BY Zenon, <1>4, <2>3, GenNextCuts DEF g, D, n
    <3> QED
        BY Zenon, <1>2, <2>1, <3>1 DEF CutsNext
  <2> QED
      BY Zenon, <2>2, <2>3
<1>5. ASSUME NEW m \in Nat, m < y.sent
      PROVE  Counts(last_batch, D, m)
  <2>1. CASE m < n
    <3>1. n # 0
        BY <1>3, <2>1
    <3>2. it[i].gen.st # "new" /\ Counts(last_batch, Drawn(i), m)
        BY Zenon, <2>1, <3>1 DEF Generators, n
    <3> QED
        BY Zenon, <1>1, <3>2
  <2>2. CASE ~(m < n)
    <3>1. CASE Sends(g)
      <4>1. pool = "run" /\ g.yield # <<>> /\ y.sent = n + 1
          BY Zenon, <1>2, <3>1 DEF Sends
      <4>2. m = n
          BY <1>3, <1>5, <2>2, <4>1
      <4> QED
          BY Zenon, <1>4, <4>1, <4>2
    <3>2. CASE ~Sends(g)
        BY Zenon, <1>2, <1>5, <2>2, <3>2
    <3> QED
        BY Zenon, <3>1, <3>2
  <2> QED
      BY Zenon, <2>1, <2>2
<1>6. ASSUME NEW j \in Iterators, j # i
      PROVE  /\ it'[j].gen.st = "new" => it'[j].sent = 0 /\ took'[j] = <<>> /\ order'[j] = <<>>
             /\ it'[j].gen.st # "new" => Len(order'[j]) = Length
             /\ pool' = "run" => GenAt(last_batch', Drawn(j)', it'[j])
             /\ \A m \in Nat : m < it'[j].sent => Counts(last_batch', Drawn(j)', m)
  <2>1. /\ it'[j] = it[j] /\ order'[j] = order[j] /\ took'[j] = took[j] /\ Drawn(j)' = Drawn(j)
      BY Zenon, <1>1, <1>6
  <2> QED
      BY Zenon, <1>2, <2>1 DEF Generators
<1>7. pool' = "run" => GenAt(last_batch', Drawn(i)', it'[i])
    BY Zenon, <1>1, <1>2, <1>4 DEF GenAt
<1>8. \A m \in Nat : m < it'[i].sent => Counts(last_batch', Drawn(i)', m)
    BY Zenon, <1>1, <1>2, <1>5
<1> QED
    BY Zenon, <1>1, <1>6, <1>7, <1>8 DEF Generators

\* The fields of a task.
LEMMA TaskFields ==
    ASSUME NEW t \in Task
    PROVE  t[1] \in Nat /\ t[2] \in Nat /\ t[3] \in Seq(Sample) /\ t # Idle
<1>1. PICK a \in Nat, b \in Nat, c \in Seq(Sample) : t = <<a, b, c>>
    BY SMTT(40) DEF Task
<1> QED
    BY Zenon, <1>1 DEF Idle

\* A task that is there keeps holding its batch; the one that is sent holds its own.
LEMMA PushTasks ==
    ASSUME LoaderTyped, Generators, TasksHold, NEW i \in Iterators, NEW ord \in Orders, NEW y,
           PushStep(i, ord, y)
    PROVE  TasksHold'
<1> DEFINE g == GenNext(it[i].gen, prev, ord)
           D == Base(i, ord)
           n == it[i].sent
           Before(t) == TaskHolds(t, it, took, order)
           Now(t) == TaskHolds(t, it', took', order')
<1>1. /\ Len(it') = Len(it) /\ it'[i] = y /\ \A j \in Iterators : j # i => it'[j] = it[j]
      /\ Drawn(i)' = D
      /\ it[i].gen.st # "new" => Drawn(i)' = Drawn(i)
      /\ \A j \in Iterators : j # i => Drawn(j)' = Drawn(j)
    BY PushFrame
<1>2. /\ y.sent = (IF Sends(g) THEN n + 1 ELSE n)
      /\ PushNext(i, g, ord)
      /\ running' = running /\ done' = done /\ bad' = bad
    BY Zenon DEF PushStep
<1>3. /\ n \in Nat /\ queue \in Seq(Task) /\ running \in [Worker -> Task \union {Idle}]
      /\ done \subseteq [task : Task, ok : BOOLEAN] /\ Iterators = 1 .. Len(it) /\ i \in Nat
      /\ \A j \in Iterators : it[j].sent \in Nat
    BY Zenon, LoaderElems DEF LoaderTyped
<1> HIDE DEF g, D, n, Before, Now
<1>4. ASSUME NEW t \in Task, Before(t)
      PROVE  Now(t)
  <2> DEFINE j == t[1]
  <2>1. /\ j \in Iterators /\ t[2] \in Nat /\ t[2] < it[j].sent /\ t[3] = Cut(Drawn(j), t[2])
      BY Zenon, <1>3, <1>4, TaskFields DEF Before, TaskHolds, Drawn
  <2> HIDE DEF j
  <2>2. CASE j # i
    <3>1. it'[j] = it[j] /\ Drawn(j)' = Drawn(j)
        BY Zenon, <1>1, <2>1, <2>2
    <3> QED
        BY Zenon, <1>1, <1>3, <2>1, <3>1 DEF Now, TaskHolds, Drawn, j
  <2>3. CASE j = i
    <3>1. t[2] < n /\ n # 0
        BY <1>3, <2>1, <2>3 DEF n
    <3>2. it[i].gen.st # "new"
        BY Zenon, <3>1 DEF Generators, n
    <3>3. Drawn(i)' = Drawn(i)
        BY Zenon, <1>1, <3>2
    <3>4. t[2] < y.sent
      <4>1. CASE Sends(g)
          BY SMTT(40), SMTT(40), SMTT(40), <1>2, <1>3, <2>1, <3>1, <4>1
      <4>2. CASE ~Sends(g)
          BY Zenon, <1>2, <3>1, <4>2
      <4> QED
          BY Zenon, <4>1, <4>2
    <3> QED
        BY Zenon, <1>1, <1>3, <2>1, <2>3, <3>3, <3>4 DEF Now, TaskHolds, Drawn, j
  <2> QED
      BY Zenon, <2>2, <2>3
<1>5. \A j \in 1 .. Len(queue) : Before(queue[j]) /\ queue[j] \in Task
    BY <1>3 DEF TasksHold, Before
<1>6. \A j \in 1 .. Len(queue') : Now(queue'[j])
  <2>1. CASE Sends(g)
    <3> DEFINE t == <<i, n, g.yield>>
    <3>1. queue' = Append(queue, t)
        BY Zenon, <1>2, <2>1 DEF PushNext, Key, n
    <3>2. pool = "run" /\ g.yield # <<>> /\ y.sent = n + 1
        BY Zenon, <1>2, <2>1 DEF Sends
    <3>3. g.yield = Cut(D, n)
      <4>1. it[i].gen.st # "end"
          BY Zenon, <3>2, GenNextCuts DEF g
      <4>2. CutsNext(last_batch, D, n, g, PrevOf(i))
          BY Zenon, <3>2, <4>1, GenNextCuts DEF g, D, n
      <4> QED
          BY Zenon, <3>2, <4>2 DEF CutsNext
    <3>4. t[1] = i /\ t[2] = n /\ t[3] = g.yield
        BY Zenon
    <3>5. n < n + 1
        BY <1>3
    <3> HIDE DEF t
    <3>6. Now(t)
        BY Zenon, <1>1, <1>3, <3>2, <3>3, <3>4, <3>5 DEF Now, TaskHolds, Drawn
    <3>7. /\ Len(queue') = Len(queue) + 1 /\ queue'[Len(queue) + 1] = t
          /\ \A j \in 1 .. Len(queue) : queue'[j] = queue[j]
        BY <1>3, <3>1
    <3>8. ASSUME NEW j \in 1 .. Len(queue') PROVE Now(queue'[j])
      <4>1. j \in 1 .. Len(queue) \/ j = Len(queue) + 1
          BY <1>3, <3>7
      <4> QED
          BY Zenon, <1>4, <1>5, <3>6, <3>7, <4>1
    <3> QED
        BY Zenon, <3>8
  <2>2. CASE ~Sends(g)
    <3>1. queue' = queue
        BY Zenon, <1>2, <2>2 DEF PushNext
    <3> QED
        BY Zenon, <1>4, <1>5, <3>1
  <2> QED
      BY Zenon, <2>1, <2>2
<1>7. \A w \in Worker : running'[w] # Idle => Now(running'[w])
  <2> SUFFICES ASSUME NEW w \in Worker, running[w] # Idle PROVE Now(running[w])
      BY Zenon, <1>2
  <2>1. running[w] \in Task
      BY Zenon, <1>3
  <2> QED
      BY Zenon, <1>4, <2>1 DEF TasksHold, Before
<1>8. \A r \in done' : Now(r.task) /\ (bad' = {} => r.ok = TRUE)
  <2> SUFFICES ASSUME NEW r \in done PROVE Now(r.task) /\ (bad = {} => r.ok = TRUE)
      BY Zenon, <1>2
  <2>1. r.task \in Task
      BY Zenon, <1>3
  <2> QED
      BY Zenon, <1>4, <2>1 DEF TasksHold, Before
<1> QED
    BY Zenon, <1>6, <1>7, <1>8 DEF TasksHold, Now

\* The results in the buffer after the call.
LEMMA PushedBuffer ==
    ASSUME LoaderTyped, Generators, HandedOut, NEW i \in Iterators, NEW ord \in Orders
    PROVE  LET g == GenNext(it[i].gen, prev, ord)
               x == Pushed(it[i], g)
           IN  /\ x \in LoaderIter /\ x.gen = g.gen /\ x.rcvd = it[i].rcvd
               /\ x.sent = (IF Sends(g) THEN it[i].sent + 1 ELSE it[i].sent)
               /\ x.stopped = it[i].stopped
               /\ x.rcvd <= x.sent /\ it[i].sent <= x.sent
               /\ BufferHolds(i, x, bad, caller, pool)
               /\ x.rcvd = x.sent /\ pool = "run" => x.gen.st = "end"
<1> DEFINE g == GenNext(it[i].gen, prev, ord)
           x == Pushed(it[i], g)
           a == it[i]
<1>1. a \in LoaderIter /\ prev \in Seq(Sample)
    BY Zenon, LoaderElems DEF LoaderTyped
<1>2. /\ a.gen \in Generator /\ a.sent \in Nat /\ a.rcvd \in Nat /\ a.buffer \subseteq Nat
      /\ a.stopped \in BOOLEAN
    BY Zenon, <1>1, IterFields
<1>3. a.rcvd <= a.sent /\ BufferHolds(i, a, bad, caller, pool)
    BY Zenon DEF HandedOut
<1>4. g.gen \in Generator
  <2>1. ord \in Seq(Sample)
      BY Zenon, OrderFacts
  <2> QED
      BY Zenon, <1>1, <1>2, <2>1, GenNextTyped
<1>5. a.gen.st = "end" /\ pool = "run" => g.gen.st = "end" /\ g.yield = <<>>
    BY Zenon, GenNextCuts
<1>6. a.gen.st # "end" /\ pool = "run" /\ g.yield = <<>> => g.gen.st = "end"
    BY Zenon, GenNextCuts DEF CutsNext, AtEnd
<1> HIDE DEF g, a
<1>7. /\ x \in LoaderIter /\ x.gen = g.gen /\ x.rcvd = a.rcvd /\ x.stopped = a.stopped
      /\ x.sent = (IF Sends(g) THEN a.sent + 1 ELSE a.sent)
      /\ x.buffer = (IF Sends(g) THEN a.buffer \union {a.sent} ELSE a.buffer)
    BY Zenon, <1>1, <1>4, PushedFields DEF a
<1> HIDE DEF x
<1>8. CASE Sends(g)
  <2>1. /\ x.sent = a.sent + 1 /\ x.buffer = a.buffer \union {a.sent}
        /\ pool = "run" /\ g.yield # <<>>
      BY Zenon, <1>7, <1>8 DEF Sends
  <2>2. ~a.stopped
      BY Zenon, <1>3, <1>5, <2>1 DEF BufferHolds
  <2>3. \A n \in x.buffer : x.rcvd <= n /\ n < x.sent
      BY <1>2, <1>3, <1>7, <2>1 DEF BufferHolds
  <2>4. ASSUME bad = {}, NEW n \in Nat, x.rcvd <= n, n < x.sent
        PROVE  n \in x.buffer \/ caller = <<i, n>>
    <3>1. n < a.sent \/ n = a.sent
        BY <1>2, <2>1, <2>4
    <3> QED
        BY Zenon, <1>3, <1>7, <2>1, <2>4, <3>1 DEF BufferHolds
  <2>5. ASSUME NEW n \in Nat, caller = <<i, n>>
        PROVE  n = x.rcvd /\ n < x.sent /\ n \notin x.buffer
    <3>1. n = a.rcvd /\ n < a.sent /\ n \notin a.buffer
        BY Zenon, <1>3, <2>5 DEF BufferHolds
    <3> QED
        BY <1>2, <1>7, <2>1, <3>1
  <2>6. BufferHolds(i, x, bad, caller, pool)
      BY Zenon, <1>7, <2>2, <2>3, <2>4, <2>5 DEF BufferHolds
  <2>7. x.rcvd <= x.sent /\ a.sent <= x.sent /\ x.rcvd # x.sent
      BY <1>2, <1>3, <1>7, <2>1
  <2> QED
      BY Zenon, <1>7, <2>6, <2>7 DEF g, x, a
<1>9. CASE ~Sends(g)
  <2>1. x.sent = a.sent /\ x.buffer = a.buffer /\ a.sent <= a.sent
      BY <1>2, <1>7, <1>9
  <2>2. pool = "run" => g.yield = <<>>
      BY Zenon, <1>9 DEF Sends
  <2>3. pool = "run" => x.gen.st = "end"
      BY Zenon, <1>5, <1>6, <1>7, <2>2
  <2>4. BufferHolds(i, x, bad, caller, pool)
      BY Zenon, <1>3, <1>7, <2>1, <2>3 DEF BufferHolds
  <2> QED
      BY Zenon, <1>3, <1>7, <2>1, <2>3, <2>4 DEF g, x, a
<1> QED
    BY Zenon, <1>8, <1>9

\* What was handed out stays in order: iterator i is left as y, whose buffer holds.
LEMMA PushHanded ==
    ASSUME LoaderTyped, Generators, HandedOut, NEW i \in Iterators, NEW ord \in Orders, NEW y,
           PushStep(i, ord, y), y.rcvd = it[i].rcvd, it[i].sent <= y.sent,
           BufferHolds(i, y, bad, caller', pool), failed' => bad # {},
           \/ caller' = caller
           \/ caller = Idle /\ \E n \in Nat : caller' = <<i, n>>
    PROVE  HandedOut'
<1>1. /\ Iterators' = Iterators /\ it'[i] = y /\ \A j \in Iterators : j # i => it'[j] = it[j]
      /\ it[i].gen.st # "new" => Drawn(i)' = Drawn(i)
      /\ \A j \in Iterators : j # i => Drawn(j)' = Drawn(j)
    BY SMTT(40), SMTT(40), SMTT(40), PushFrame
<1>2. /\ bad' = bad /\ pool' = pool /\ delivered' = delivered /\ y \in LoaderIter
    BY Zenon DEF PushStep
<1>3. /\ it[i].rcvd \in Nat /\ it[i].sent \in Nat /\ y.sent \in Nat
    BY Zenon, <1>2, IterFields, LoaderElems
<1>4. it[i].rcvd = Len(delivered[i]) /\ it[i].rcvd <= it[i].sent
    BY Zenon DEF HandedOut
<1>5. y.rcvd <= y.sent
    BY <1>3, <1>4
<1>6. ASSUME NEW n \in Nat, n < Len(delivered[i])
      PROVE  delivered[i][n + 1].samples = Cut(Drawn(i)', n)
  <2>1. it[i].sent # 0
      BY <1>3, <1>4, <1>6
  <2>2. Drawn(i)' = Drawn(i)
      BY Zenon, <1>1, <2>1 DEF Generators
  <2> QED
      BY Zenon, <1>6, <2>2 DEF HandedOut
<1>7. ASSUME NEW j \in Iterators, j # i
      PROVE  BufferHolds(j, it[j], bad, caller', pool)
  <2>1. BufferHolds(j, it[j], bad, caller, pool)
      BY Zenon DEF HandedOut
  <2>2. CASE caller' = caller
      BY Zenon, <2>1, <2>2
  <2>3. CASE caller = Idle /\ \E n \in Nat : caller' = <<i, n>>
    <3>1. \A n \in Nat : <<j, n>> # Idle /\ caller' # <<j, n>>
        BY <1>7, <2>3 DEF Idle
    <3> QED
        BY Zenon, <2>1, <2>3, <3>1 DEF BufferHolds
  <2> QED
      BY Zenon, <2>2, <2>3
<1>8. caller' # Idle => caller'[1] \in Iterators
  <2>1. CASE caller' = caller
      BY Zenon, <2>1 DEF HandedOut
  <2>2. CASE caller = Idle /\ \E n \in Nat : caller' = <<i, n>>
      BY <2>2
  <2> QED
      BY Zenon, <2>1, <2>2
<1>9. ASSUME NEW j \in Iterators
      PROVE  /\ it'[j].rcvd = Len(delivered[j]) /\ it'[j].rcvd <= it'[j].sent
             /\ \A n \in Nat : n < Len(delivered[j]) =>
                  delivered[j][n + 1].samples = Cut(Drawn(j)', n)
             /\ BufferHolds(j, it'[j], bad, caller', pool)
  <2>1. CASE j = i
      BY Zenon, <1>1, <1>4, <1>5, <1>6, <2>1
  <2>2. CASE j # i
    <3>1. it'[j] = it[j] /\ Drawn(j)' = Drawn(j)
        BY Zenon, <1>1, <2>2
    <3> QED
        BY Zenon, <1>7, <2>2, <3>1 DEF HandedOut
  <2> QED
      BY Zenon, <2>1, <2>2
<1> QED
    BY Zenon, <1>1, <1>2, <1>8, <1>9 DEF HandedOut

\* One iterator at a time, the call keeps the leftover where it belongs.
LEMMA PushRollsOver ==
    ASSUME LoaderTyped, Generators, HandedOut, RollsOver, NEW i \in Iterators, NEW ord \in Orders,
           NEW y, PushStep(i, ord, y), it[i].stopped => y.stopped = TRUE
    PROVE  RollsOver'
<1> SUFFICES ASSUME ~overlap, pool = "run"
             PROVE  /\ Len(it') = 0 => prev' = <<>>
                    /\ \A j \in Iterators' :
                         /\ j < Len(it') => it'[j].stopped
                         /\ it'[j].gen.st # "new" => took'[j] = Finds(j)'
                         /\ promised'[j] = SamplerLen(Finds(j))'
                         /\ j = Len(it') =>
                              prev' = IF it'[j].gen.st = "new" THEN Finds(j)'
                                      ELSE IF it'[j].gen.st = "run" THEN <<>>
                                      ELSE Leaves(j)'
  <2>1. overlap' = overlap /\ pool' = pool
      BY Zenon DEF PushStep
  <2> QED
      BY Zenon, <2>1 DEF RollsOver
<1>0. PICK L \in Nat : L = Len(it)
    BY Zenon, LoaderElems
<1> DEFINE g == GenNext(it[i].gen, prev, ord)
           D == Base(i, ord)
           n == it[i].sent
<1>1. /\ Iterators' = Iterators /\ Len(it') = L
      /\ it'[i] = y /\ \A j \in Iterators : j # i => it'[j] = it[j]
      /\ y.gen.st # "new" /\ Drawn(i)' = D
      /\ it[i].gen.st # "new" => Drawn(i)' = Drawn(i) /\ took'[i] = took[i]
      /\ it[i].gen.st = "new" => took'[i] = prev
      /\ \A j \in Iterators : j # i => took'[j] = took[j] /\ Drawn(j)' = Drawn(j)
    BY <1>0, PushFrame
<1>2. /\ y.gen = g.gen /\ y.sent = (IF Sends(g) THEN n + 1 ELSE n) /\ prev' = g.prev
      /\ last_batch' = last_batch /\ promised' = promised
    BY Zenon DEF PushStep, PushNext
<1>3. /\ Iterators = 1 .. L /\ it[i] \in LoaderIter
      /\ it[i].gen.st \in {"new", "run", "end"}
    BY Zenon, <1>0, LoaderElems
<1>4. /\ \A j \in Iterators :
           /\ j < L => it[j].stopped
           /\ it[j].gen.st # "new" => took[j] = Finds(j)
           /\ promised[j] = SamplerLen(Finds(j))
      /\ \A j \in Iterators : j = L =>
           prev = IF it[j].gen.st = "new" THEN Finds(j)
                  ELSE IF it[j].gen.st = "run" THEN <<>>
                  ELSE Leaves(j)
    BY Zenon, <1>0 DEF RollsOver
<1>5. y.sent = Yielded(g, n)
    BY Zenon, <1>2 DEF Sends, Yielded
<1>6. it[i].gen.st = "end" => g.gen = it[i].gen /\ g.prev = prev /\ g.yield = <<>>
    BY Zenon, GenNextCuts
<1>7. it[i].gen.st # "end" => CutsNext(last_batch, D, n, g, PrevOf(i))
    BY Zenon, GenNextCuts
<1> HIDE DEF g, D, n
<1>8. \A j \in Iterators : j # i => Leaves(j)' = Leaves(j)
    BY Zenon, <1>1, <1>2 DEF Leaves
<1>9. it[i].gen.st = "end" => Leaves(i)' = Leaves(i)
  <2> HAVE it[i].gen.st = "end"
  <2>1. y.sent = n /\ it[i].gen.st # "new"
      BY Zenon, <1>5, <1>6, "end" # "new" DEF Yielded
  <2> QED
      BY Zenon, <1>1, <1>2, <2>1 DEF Leaves, n
<1>10. ASSUME NEW j \in Iterators, i < L => it[i].gen.st = "end"
       PROVE  Finds(j)' = Finds(j)
  <2>1. CASE j = 1
      BY Zenon, <2>1 DEF Finds
  <2>2. CASE j # 1
    <3>1. j - 1 \in Iterators /\ (j - 1 = i => i < L)
        BY <1>3, <2>2
    <3>2. Leaves(j - 1)' = Leaves(j - 1)
        BY Zenon, <1>8, <1>9, <1>10, <3>1
    <3> QED
        BY Zenon, <2>2, <3>2 DEF Finds
  <2> QED
      BY Zenon, <2>1, <2>2
<1>11. ASSUME NEW v PROVE SamplerLen(v)' = SamplerLen(v)
    BY Zenon, <1>2 DEF SamplerLen
<1>12. i < L => it[i].gen.st = "end"
    BY Zenon, <1>4 DEF HandedOut, BufferHolds
<1>13. ASSUME NEW j \in Iterators
       PROVE  /\ j < L => it'[j].stopped
              /\ it'[j].gen.st # "new" => took'[j] = Finds(j)'
              /\ promised'[j] = SamplerLen(Finds(j))'
  <2>1. Finds(j)' = Finds(j)
      BY Zenon, <1>10, <1>12
  <2>2. SamplerLen(Finds(j))' = SamplerLen(Finds(j))
      BY Zenon, <1>2, <2>1 DEF SamplerLen
  <2>3. CASE j # i
    <3>1. it'[j] = it[j] /\ took'[j] = took[j]
        BY Zenon, <1>1, <2>3
    <3> QED
        BY Zenon, <1>2, <1>4, <2>1, <2>2, <3>1
  <2>4. CASE j = i
    <3>1. j < L => it'[j].stopped
        BY Zenon, <1>1, <1>4, <2>4
    <3>2. CASE it[i].gen.st # "new"
        BY Zenon, <1>1, <1>2, <1>4, <2>1, <2>2, <2>4, <3>1, <3>2
    <3>3. CASE it[i].gen.st = "new"
      <4>1. i = L /\ L # 0
        <5>1. ~(i < L)
            BY Zenon, <1>12, <3>3, "new" # "end"
        <5> QED
            BY <1>3, <5>1
      <4>2. took'[i] = Finds(i)
          BY Zenon, <1>1, <1>4, <3>3, <4>1
      <4> QED
          BY Zenon, <1>2, <1>4, <2>1, <2>2, <2>4, <3>1, <4>2
    <3> QED
        BY Zenon, <3>2, <3>3
  <2> QED
      BY Zenon, <2>3, <2>4
<1>14. L # 0 /\ L \in Iterators /\ i <= L /\ Finds(L)' = Finds(L)
  <2>1. L # 0 /\ L \in Iterators /\ i <= L
      BY <1>3
  <2> QED
      BY Zenon, <1>10, <1>12, <2>1
<1>15. y.gen.st = "run" \/ y.gen.st = "end"
  <2>1. y \in LoaderIter
      BY Zenon DEF PushStep
  <2> QED
      BY Zenon, <1>1, <2>1, IterFields
<1>16. prev' = IF it'[L].gen.st = "new" THEN Finds(L)'
               ELSE IF it'[L].gen.st = "run" THEN <<>>
               ELSE Leaves(L)'
  <2>1. CASE i # L
    <3>1. i < L
        BY <1>3, <2>1
    <3>2. it[i].gen.st = "end" /\ it'[L] = it[L] /\ Leaves(L)' = Leaves(L)
        BY Zenon, <1>1, <1>8, <1>12, <1>14, <2>1, <3>1
    <3>3. prev' = prev
        BY Zenon, <1>2, <1>6, <3>2
    <3> QED
        BY Zenon, <1>4, <1>14, <3>2, <3>3
  <2>2. CASE i = L /\ it[i].gen.st = "end"
    <3>1. prev' = prev /\ y.gen.st = "end" /\ Leaves(L)' = Leaves(L) /\ it'[L] = y
        BY Zenon, <1>1, <1>2, <1>6, <1>9, <2>2
    <3> QED
        BY Zenon, <1>4, <1>14, <2>2, <3>1, "end" # "new", "end" # "run"
  <2>3. CASE i = L /\ it[i].gen.st # "end"
    <3>1. PrevOf(i) = <<>>
      <4>1. it[i].gen.st = "new" \/ it[i].gen.st = "run"
          BY Zenon, <1>3, <2>3
      <4>2. it[i].gen.st = "run" => prev = <<>>
          BY Zenon, <1>4, <1>14, <2>3, "run" # "new"
      <4> QED
          BY Zenon, <4>1, <4>2 DEF PrevOf
    <3>2. Leaves(L)' = LeavesOf(last_batch, D, y.sent)
        BY Zenon, <1>1, <1>2, <2>3 DEF Leaves
    <3>3. CutsNext(last_batch, D, n, g, <<>>)
        BY Zenon, <1>7, <2>3, <3>1
    <3>4. CASE InMiddle(D, g.gen, Yielded(g, n)) /\ g.prev = <<>>
        BY Zenon, <1>1, <1>2, <2>3, <3>4, "run" # "new" DEF InMiddle
    <3>5. CASE /\ AtEnd(last_batch, D, g.gen, y.sent)
               /\ g.prev = IF last_batch = "rollover" /\ Rest(D, y.sent) # <<>>
                           THEN Rest(D, y.sent) ELSE <<>>
      <4>1. it'[L].gen.st = "end"
          BY Zenon, <1>1, <1>2, <2>3, <3>5 DEF AtEnd
      <4>2. g.prev = LeavesOf(last_batch, D, y.sent)
          BY Zenon, <3>5 DEF LeavesOf
      <4> QED
          BY Zenon, <1>2, <3>2, <4>1, <4>2, "end" # "run", "end" # "new"
    <3> QED
        BY Zenon, <1>5, <3>3, <3>4, <3>5 DEF CutsNext
  <2> QED
      BY Zenon, <2>1, <2>2, <2>3
<1> QED
    BY Zenon, <1>0, <1>1, <1>13, <1>14, <1>16

\* The whole invariant, the rest of the iterator and of the state being given.
LEMMA PushKeeps ==
    ASSUME LoaderInv, NEW i \in Iterators, NEW ord \in Orders, NEW y,
           PushStep(i, ord, y), y.rcvd = it[i].rcvd, it[i].sent <= y.sent,
           BufferHolds(i, y, bad, caller', pool), failed' => bad # {},
           it[i].stopped => y.stopped = TRUE,
           opening' \in Nat, opening' > 0 => opening > 0,
           \/ caller' = caller
           \/ caller = Idle /\ \E n \in Nat : caller' = <<i, n>>
    PROVE  LoaderInv'
<1>1. LoaderTyped /\ Generators /\ TasksHold /\ HandedOut /\ RollsOver
    BY Zenon DEF LoaderInv
<1>2. Generators'
    BY Zenon, <1>1, PushGenerators
<1>3. TasksHold'
    BY Zenon, <1>1, PushTasks
<1>4. HandedOut'
    BY Zenon, <1>1, PushHanded
<1>5. RollsOver'
    BY Zenon, <1>1, PushRollsOver
<1>6. LoaderTyped'
  <2>1. /\ it' \in Seq(LoaderIter) /\ Len(it') = Len(it) /\ prev' \in Seq(Sample)
        /\ order' \in Seq(Seq(Sample)) /\ Len(order') = Len(it)
        /\ took' \in Seq(Seq(Sample)) /\ Len(took') = Len(it) /\ queue' \in Seq(Task)
      BY Zenon, <1>1, PushFrame
  <2>2. UNCHANGED <<last_batch, bad, done, running, pool, overlap, promised, delivered>>
      BY Zenon DEF PushStep
  <2>3. opening' > 0 => Len(it') > 0
      BY Zenon, <1>1, <2>1 DEF LoaderTyped
  <2>4. caller' \in {Idle} \union (Nat \X Nat)
    <3>1. i \in Nat
        BY Zenon, <1>1, LoaderElems
    <3>2. caller \in {Idle} \union (Nat \X Nat)
        BY Zenon, <1>1 DEF LoaderTyped
    <3>3. ASSUME NEW n \in Nat, caller' = <<i, n>> PROVE caller' \in Nat \X Nat
        BY Zenon, <3>1, <3>3
    <3> QED
        BY Zenon, <3>2, <3>3
  <2> QED
      BY Zenon, <1>1, <2>1, <2>2, <2>3, <2>4 DEF LoaderTyped
<1> QED
    BY Zenon, <1>2, <1>3, <1>4, <1>5, <1>6 DEF LoaderInv

\* A turn of the pre-fetch loop.
LEMMA PreFetchKeeps == LoaderInv /\ PreFetch => LoaderInv'
<1> SUFFICES ASSUME LoaderInv, PreFetch PROVE LoaderInv'
    BY Zenon
<1>1. LoaderTyped /\ Generators /\ HandedOut
    BY Zenon DEF LoaderInv
<1>2. PICK i \in Iterators : i = Len(it)
    BY <1>1 DEF LoaderTyped, Iterators, PreFetch
<1>3. PICK ord \in Orders :
        LET g == GenNext(it[i].gen, prev, ord)
        IN  PushNext(i, g, ord) /\ it' = [it EXCEPT ![i] = Pushed(it[i], g)]
    BY Zenon, <1>2 DEF PreFetch
<1> DEFINE g == GenNext(it[i].gen, prev, ord)
<1>4. PICK y : y = Pushed(it[i], g)
    BY Zenon
<1>5. /\ y \in LoaderIter /\ y.gen = g.gen /\ y.rcvd = it[i].rcvd
      /\ y.sent = (IF Sends(g) THEN it[i].sent + 1 ELSE it[i].sent)
      /\ y.stopped = it[i].stopped /\ it[i].sent <= y.sent
      /\ BufferHolds(i, y, bad, caller, pool)
    BY Zenon, <1>1, <1>4, PushedBuffer
<1>6. /\ UNCHANGED <<last_batch, bad, done, running, pool, overlap, promised, delivered>>
      /\ caller' = caller /\ failed' = failed
    BY Zenon DEF PreFetch
<1>7. PushStep(i, ord, y)
    BY Zenon, <1>3, <1>4, <1>5, <1>6 DEF PushStep
<1>8. opening' \in Nat /\ (opening' > 0 => opening > 0)
  <2>1. opening \in Nat /\ opening > 0 /\ (opening' = opening - 1 \/ opening' = 0)
      BY Zenon, <1>1 DEF LoaderTyped, PreFetch
  <2> QED
      BY <2>1
<1>9. failed' => bad # {}
    BY Zenon, <1>1, <1>6 DEF HandedOut
<1>10. it[i].stopped => y.stopped = TRUE
  <2>1. it[i].stopped \in BOOLEAN
      BY Zenon, <1>1, LoaderElems
  <2> QED
      BY Zenon, <1>5, <2>1
<1> HIDE DEF g
<1> QED
    BY Zenon, <1>5, <1>6, <1>7, <1>8, <1>9, <1>10, PushKeeps

\* __next__ up to ret.get().
LEMMA NextCallKeeps == ASSUME LoaderInv, NEW i \in Iterators, Next_Call(i) PROVE LoaderInv'
<1>1. LoaderTyped /\ Generators /\ HandedOut
    BY Zenon DEF LoaderInv
<1>2. PICK ord \in Orders :
         LET g == GenNext(it[i].gen, prev, ord)
             x == Pushed(it[i], g)
         IN  /\ PushNext(i, g, ord)
             /\ \/ /\ Raises(g)
                   /\ it' = [it EXCEPT ![i] = x]
                   /\ UNCHANGED <<caller, failed>>
                \/ /\ ~Raises(g) /\ x.rcvd = x.sent
                   /\ it' = [it EXCEPT ![i] = [x EXCEPT !.stopped = (x.buffer = {})]]
                   /\ failed' = (failed \/ x.buffer # {})
                   /\ UNCHANGED caller
                \/ /\ ~Raises(g) /\ x.rcvd # x.sent /\ PopKey(x) \notin x.buffer
                   /\ it' = [it EXCEPT ![i] = x]
                   /\ failed' = TRUE
                   /\ UNCHANGED caller
                \/ /\ ~Raises(g) /\ x.rcvd # x.sent /\ PopKey(x) \in x.buffer
                   /\ it' = [it EXCEPT ![i] = [x EXCEPT !.buffer = @ \ {PopKey(x)}]]
                   /\ caller' = <<i, PopKey(x)>>
                   /\ UNCHANGED failed
    BY Zenon DEF Next_Call
<1>3. /\ UNCHANGED <<last_batch, bad, done, running, pool, overlap, promised, delivered>>
      /\ opening' = opening /\ caller = Idle
    BY Zenon DEF Next_Call, Free
<1>4. opening' \in Nat /\ (opening' > 0 => opening > 0)
    BY Zenon, <1>1, <1>3 DEF LoaderTyped
<1> DEFINE g == GenNext(it[i].gen, prev, ord)
<1>5. PICK x : x = Pushed(it[i], g)
    BY Zenon
<1>6. /\ x \in LoaderIter /\ x.gen = g.gen /\ x.rcvd = it[i].rcvd
      /\ x.sent = (IF Sends(g) THEN it[i].sent + 1 ELSE it[i].sent)
      /\ x.stopped = it[i].stopped /\ x.rcvd <= x.sent /\ it[i].sent <= x.sent
      /\ BufferHolds(i, x, bad, caller, pool)
      /\ x.rcvd = x.sent /\ pool = "run" => x.gen.st = "end"
    BY Zenon, <1>1, <1>5, PushedBuffer
<1>7. /\ x.rcvd \in Nat /\ x.sent \in Nat /\ x.stopped \in BOOLEAN /\ x.buffer \subseteq Nat
    BY Zenon, <1>6, IterFields
<1>8. PushNext(i, g, ord)
    BY Zenon, <1>2
<1> HIDE DEF g
<1>9. ASSUME NEW y \in LoaderIter, it' = [it EXCEPT ![i] = y], y.gen = x.gen, y.sent = x.sent,
             y.rcvd = x.rcvd, it[i].stopped => y.stopped = TRUE,
             BufferHolds(i, y, bad, caller', pool), failed' => bad # {},
             caller' = caller \/ \E n \in Nat : caller' = <<i, n>>
      PROVE  LoaderInv'
  <2>1. PushStep(i, ord, y)
      BY Zenon, <1>3, <1>6, <1>8, <1>9 DEF PushStep, g
  <2> QED
      BY Zenon, <1>3, <1>4, <1>6, <1>9, <2>1, PushKeeps
<1>10. failed => bad # {}
    BY Zenon, <1>1 DEF HandedOut
<1>11. it[i].stopped => x.stopped = TRUE
    BY Zenon, <1>6, <1>7
<1>12. CASE /\ it' = [it EXCEPT ![i] = x] /\ UNCHANGED <<caller, failed>>
    BY Zenon, <1>6, <1>9, <1>10, <1>11, <1>12
<1>13. CASE /\ x.rcvd = x.sent
            /\ it' = [it EXCEPT ![i] = [x EXCEPT !.stopped = (x.buffer = {})]]
            /\ failed' = (failed \/ x.buffer # {})
            /\ UNCHANGED caller
  <2>1. x.buffer = {}
    <3>1. \A n \in x.buffer : n \in Nat /\ x.rcvd <= n /\ n < x.sent
        BY Zenon, <1>6, <1>7 DEF BufferHolds
    <3>2. \A n \in x.buffer : FALSE
        BY <1>7, <1>13, <3>1
    <3> QED
        BY Zenon, <3>2
  <2>2. PICK y : y = [x EXCEPT !.stopped = TRUE]
      BY Zenon
  <2>3. (x.buffer = {}) = TRUE /\ (failed' => failed)
      BY Zenon, <1>13, <2>1
  <2>4. it' = [it EXCEPT ![i] = y]
      BY Zenon, <1>13, <2>2, <2>3
  <2>5. /\ y \in LoaderIter /\ y.gen = x.gen /\ y.sent = x.sent /\ y.rcvd = x.rcvd
        /\ y.buffer = x.buffer /\ y.stopped = TRUE
    <3>1. y = [gen |-> x.gen, sent |-> x.sent, rcvd |-> x.rcvd, buffer |-> x.buffer,
               stopped |-> TRUE]
        BY Zenon, <1>6, <2>2 DEF LoaderIter
    <3> QED
        BY Zenon, <1>6, <3>1 DEF LoaderIter
  <2>6. BufferHolds(i, y, bad, caller', pool)
      BY Zenon, <1>6, <1>13, <2>5 DEF BufferHolds
  <2> QED
      BY Zenon, <1>9, <1>10, <1>13, <2>3, <2>4, <2>5, <2>6
<1>14. CASE /\ x.rcvd # x.sent /\ PopKey(x) \notin x.buffer
            /\ it' = [it EXCEPT ![i] = x] /\ failed' = TRUE /\ UNCHANGED caller
  <2>1. x.rcvd \notin x.buffer /\ x.rcvd < x.sent /\ x.rcvd <= x.rcvd
      BY <1>6, <1>7, <1>14 DEF PopKey
  <2>2. caller # <<i, x.rcvd>>
      BY Zenon, <1>3 DEF Idle
  <2>3. bad # {}
      BY Zenon, <1>6, <1>7, <2>1, <2>2 DEF BufferHolds
  <2> QED
      BY Zenon, <1>6, <1>9, <1>11, <1>14, <2>3
<1>15. CASE /\ x.rcvd # x.sent /\ PopKey(x) \in x.buffer
            /\ it' = [it EXCEPT ![i] = [x EXCEPT !.buffer = @ \ {PopKey(x)}]]
            /\ caller' = <<i, PopKey(x)>> /\ UNCHANGED failed
  <2>1. PICK y : y = [x EXCEPT !.buffer = x.buffer \ {x.rcvd}]
      BY Zenon
  <2>2. it' = [it EXCEPT ![i] = y] /\ caller' = <<i, x.rcvd>>
      BY Zenon, <1>15, <2>1 DEF PopKey
  <2>3. /\ y \in LoaderIter /\ y.gen = x.gen /\ y.sent = x.sent /\ y.rcvd = x.rcvd
        /\ y.buffer = x.buffer \ {x.rcvd} /\ y.stopped = x.stopped
    <3>1. y = [gen |-> x.gen, sent |-> x.sent, rcvd |-> x.rcvd, buffer |-> x.buffer \ {x.rcvd},
               stopped |-> x.stopped]
        BY Zenon, <1>6, <2>1 DEF LoaderIter
    <3> QED
        BY Zenon, <1>6, <3>1 DEF LoaderIter
  <2>4. \A n \in Nat : (caller' = <<i, n>>) <=> n = x.rcvd
      BY Zenon, <1>7, <2>2
  <2>5. x.rcvd < x.sent
      BY SMTT(40), <1>6, <1>7, <1>15
  <2>6. \A n \in Nat : caller # <<i, n>>
      BY Zenon, <1>3 DEF Idle
  <2>7. BufferHolds(i, y, bad, caller', pool)
      BY Zenon, <1>6, <2>3, <2>4, <2>5, <2>6 DEF BufferHolds
  <2>8. it[i].stopped => y.stopped = TRUE
      BY Zenon, <1>11, <2>3
  <2> QED
      BY Zenon, <1>7, <1>9, <1>10, <1>15, <2>2, <2>3, <2>7, <2>8
<1> QED
    BY Zenon, <1>2, <1>5, <1>12, <1>13, <1>14, <1>15 DEF g

-----------------------------------------------------------------------------
(* DataLoader: the other steps keep the invariant.                         *)

\* While no generator moves, what was drawn, sent and left over stays.
LEMMA StillGenerators ==
    ASSUME LoaderInv, it' \in Seq(LoaderIter), Len(it') = Len(it),
           \A j \in Iterators : it'[j].sent = it[j].sent /\ it'[j].gen = it[j].gen,
           \A j \in Iterators : it[j].stopped => it'[j].stopped,
           UNCHANGED <<last_batch, prev, overlap, pool, order, took, promised>>
    PROVE  /\ Iterators' = Iterators
           /\ \A j \in Iterators : Drawn(j)' = Drawn(j)
           /\ Generators'
           /\ RollsOver'
           /\ \A t : TaskHolds(t, it, took, order) => TaskHolds(t, it', took', order')
<1>1. Iterators' = Iterators /\ Iterators = 1 .. Len(it)
    BY Zenon DEF Iterators
<1>2. \A j \in Iterators : Drawn(j)' = Drawn(j)
    BY Zenon DEF Drawn
<1>3. Generators'
  <2> SUFFICES ASSUME NEW j \in Iterators
               PROVE  /\ it'[j].gen.st = "new" =>
                           it'[j].sent = 0 /\ took'[j] = <<>> /\ order'[j] = <<>>
                      /\ it'[j].gen.st # "new" => Len(order'[j]) = Length
                      /\ pool' = "run" => GenAt(last_batch', Drawn(j)', it'[j])
                      /\ \A n \in Nat : n < it'[j].sent => Counts(last_batch', Drawn(j)', n)
      BY Zenon, <1>1 DEF Generators
  <2>1. /\ it[j].gen.st = "new" => it[j].sent = 0 /\ took[j] = <<>> /\ order[j] = <<>>
        /\ it[j].gen.st # "new" => Len(order[j]) = Length
        /\ pool = "run" => GenAt(last_batch, Drawn(j), it[j])
        /\ \A n \in Nat : n < it[j].sent => Counts(last_batch, Drawn(j), n)
      BY Zenon DEF LoaderInv, Generators
  <2>2. GenAt(last_batch, Drawn(j), it[j]) => GenAt(last_batch, Drawn(j), it'[j])
      BY Zenon DEF GenAt
  <2> QED
      BY Zenon, <1>2, <2>1, <2>2
<1>4. ASSUME NEW t, TaskHolds(t, it, took, order)
      PROVE  TaskHolds(t, it', took', order')
    BY Zenon, <1>1, <1>4 DEF TaskHolds
<1>5. RollsOver'
  <2> SUFFICES ASSUME ~overlap, pool = "run"
               PROVE  /\ Len(it') = 0 => prev' = <<>>
                      /\ \A j \in Iterators :
                           /\ j < Len(it') => it'[j].stopped
                           /\ it'[j].gen.st # "new" => took'[j] = Finds(j)'
                           /\ promised'[j] = SamplerLen(Finds(j))'
                           /\ j = Len(it') =>
                                prev' = IF it'[j].gen.st = "new" THEN Finds(j)'
                                        ELSE IF it'[j].gen.st = "run" THEN <<>>
                                        ELSE Leaves(j)'
      BY Zenon, <1>1 DEF RollsOver
  <2>1. \A j \in Iterators : Leaves(j)' = Leaves(j)
      BY Zenon, <1>2 DEF Leaves
  <2>2. ASSUME NEW j \in Iterators PROVE Finds(j)' = Finds(j)
    <3>1. j # 1 => j - 1 \in Iterators
        BY <1>1 DEF LoaderInv, LoaderTyped
    <3> QED
        BY Zenon, <2>1, <3>1 DEF Finds
  <2>3. ASSUME NEW j \in Iterators PROVE SamplerLen(Finds(j))' = SamplerLen(Finds(j))
      BY Zenon, <2>2 DEF SamplerLen
  <2> QED
      BY Zenon, <1>1, <2>1, <2>2, <2>3 DEF LoaderInv, RollsOver
<1> QED
    BY Zenon, <1>1, <1>2, <1>3, <1>4, <1>5

\* ret.get() returns.
LEMMA NextReturnKeeps == LoaderInv /\ Next_Return => LoaderInv'
<1> SUFFICES ASSUME LoaderInv, Next_Return PROVE LoaderInv'
    BY Zenon
<1>1. LoaderTyped /\ TasksHold /\ HandedOut
    BY Zenon DEF LoaderInv
<1>2. PICK i \in Iterators, n \in Nat : caller = <<i, n>>
  <2>1. caller # Idle /\ caller \in {Idle} \union (Nat \X Nat) /\ caller[1] \in Iterators
      BY Zenon, <1>1 DEF Next_Return, HandedOut, LoaderTyped
  <2> QED
      BY <2>1
<1>3. PICK r \in done :
        /\ <<r.task[1], r.task[2]>> = caller
        /\ done' = done \ {r}
        /\ it' = [it EXCEPT ![caller[1]].rcvd = @ + Advance(r.ok)]
        /\ delivered' = IF r.ok THEN [delivered EXCEPT ![caller[1]] = Append(@, Unwrap(r.task[3]))]
                        ELSE delivered
    BY Zenon DEF Next_Return
<1>4. /\ caller' = Idle /\ UNCHANGED <<last_batch, bad, prev, opening, queue, running, pool,
                                       overlap, failed, order, took, promised>>
    BY Zenon DEF Next_Return
<1>5. /\ r.task \in Task /\ r.ok \in BOOLEAN /\ TaskHolds(r.task, it, took, order)
      /\ bad = {} => r.ok = TRUE
  <2>1. done \subseteq [task : Task, ok : BOOLEAN]
      BY Zenon, <1>1 DEF LoaderTyped
  <2>2. r.task \in Task /\ r.ok \in BOOLEAN
      BY Zenon, <2>1
  <2> QED
      BY Zenon, <1>1, <2>2 DEF TasksHold
<1>6. r.task[1] = i /\ r.task[2] = n /\ caller[1] = i
    BY <1>2, <1>3
<1>7. /\ it[i] \in LoaderIter /\ it \in Seq(LoaderIter) /\ delivered \in Seq(Seq(Handed))
      /\ Len(delivered) = Len(it) /\ i \in 1 .. Len(it) /\ i \in 1 .. Len(delivered)
      /\ delivered[i] \in Seq(Handed) /\ Iterators = 1 .. Len(it)
    BY Zenon, <1>1, LoaderElems DEF LoaderTyped
<1>8. /\ it[i].rcvd \in Nat /\ it[i].sent \in Nat /\ it[i].buffer \subseteq Nat
      /\ it[i].stopped \in BOOLEAN
    BY Zenon, <1>7, IterFields
<1>9. PICK m \in {0, 1} : m = Advance(r.ok) /\ (r.ok => m = 1) /\ (~r.ok => m = 0)
    BY Zenon DEF Advance
<1>10. PICK y : y = [it[i] EXCEPT !.rcvd = it[i].rcvd + m]
    BY Zenon
<1>11. it' = [it EXCEPT ![i] = y]
    BY Zenon, <1>3, <1>6, <1>9, <1>10
<1>12. /\ y \in LoaderIter /\ y.gen = it[i].gen /\ y.sent = it[i].sent
       /\ y.rcvd = it[i].rcvd + m /\ y.buffer = it[i].buffer /\ y.stopped = it[i].stopped
  <2>1. y = [gen |-> it[i].gen, sent |-> it[i].sent, rcvd |-> it[i].rcvd + m,
             buffer |-> it[i].buffer, stopped |-> it[i].stopped]
      BY Zenon, <1>7, <1>10 DEF LoaderIter
  <2>2. it[i].rcvd + m \in Nat
      BY SMTT(40), SMTT(40), SMTT(40), <1>8
  <2> QED
      BY Zenon, <1>7, <2>1, <2>2 DEF LoaderIter
<1>13. /\ it' \in Seq(LoaderIter) /\ Len(it') = Len(it) /\ it'[i] = y
       /\ \A j \in 1 .. Len(it) : j # i => it'[j] = it[j]
    BY SMTT(40), <1>7, <1>11, <1>12, UpdateFacts
<1>14. \A j \in Iterators : /\ it'[j].sent = it[j].sent /\ it'[j].gen = it[j].gen
                            /\ it[j].stopped => it'[j].stopped
    BY Zenon, <1>7, <1>12, <1>13
<1>15. /\ Iterators' = Iterators /\ Generators' /\ RollsOver'
       /\ \A j \in Iterators : Drawn(j)' = Drawn(j)
       /\ \A t : TaskHolds(t, it, took, order) => TaskHolds(t, it', took', order')
    BY Zenon, <1>4, <1>13, <1>14, StillGenerators
<1>16. TasksHold'
  <2>1. \A b \in done' : b \in done
      BY Zenon, <1>3
  <2> QED
      BY Zenon, <1>1, <1>4, <1>15, <2>1 DEF TasksHold
<1>17. /\ it[i].rcvd = Len(delivered[i]) /\ it[i].rcvd <= it[i].sent
       /\ \A b \in Nat : b < Len(delivered[i]) => delivered[i][b + 1].samples = Cut(Drawn(i), b)
       /\ BufferHolds(i, it[i], bad, caller, pool)
    BY Zenon, <1>1 DEF HandedOut
<1>18. n = it[i].rcvd /\ n < it[i].sent /\ n \notin it[i].buffer
    BY Zenon, <1>2, <1>17 DEF BufferHolds
<1>19. /\ delivered' \in Seq(Seq(Handed)) /\ Len(delivered') = Len(it)
       /\ \A j \in 1 .. Len(it) : j # i => delivered'[j] = delivered[j]
       /\ y.rcvd = Len(delivered'[i])
       /\ \A b \in Nat : b < Len(delivered'[i]) => delivered'[i][b + 1].samples = Cut(Drawn(i), b)
  <2>1. CASE r.ok
    <3> DEFINE u == Unwrap(r.task[3])
               e == Append(delivered[i], u)
    <3>1. delivered' = [delivered EXCEPT ![i] = e] /\ m = 1
        BY Zenon, <1>3, <1>6, <1>9, <2>1
    <3>2. r.task[3] \in Seq(Sample)
        BY Zenon, <1>5, TaskFields
    <3>3. u \in Handed /\ u.samples = r.task[3]
        BY Zenon, <3>2 DEF Unwrap, Handed
    <3>4. u.samples = Cut(Drawn(i), n)
        BY Zenon, <1>5, <1>6, <3>3 DEF TaskHolds, Drawn
    <3> HIDE DEF u
    <3>5. /\ e \in Seq(Handed) /\ Len(e) = n + 1 /\ e[n + 1] = u
          /\ \A b \in 1 .. n : e[b] = delivered[i][b]
        BY SMTT(40), SMTT(40), SMTT(40), <1>7, <1>17, <1>18, <3>3
    <3> HIDE DEF e
    <3>6. /\ delivered' \in Seq(Seq(Handed)) /\ Len(delivered') = Len(it) /\ delivered'[i] = e
          /\ \A j \in 1 .. Len(it) : j # i => delivered'[j] = delivered[j]
        BY SMTT(40), <1>7, <3>1, <3>5, UpdateFacts
    <3>7. ASSUME NEW b \in Nat, b < n + 1 PROVE e[b + 1].samples = Cut(Drawn(i), b)
      <4>1. b = n \/ (b < n /\ b + 1 \in 1 .. n)
          BY <3>7
      <4>2. CASE b = n
          BY Zenon, <3>4, <3>5, <4>2
      <4>3. CASE b < n /\ b + 1 \in 1 .. n
          BY Zenon, <1>17, <1>18, <3>5, <4>3
      <4> QED
          BY Zenon, <4>1, <4>2, <4>3
    <3>8. y.rcvd = n + 1
        BY Zenon, <1>12, <1>18, <3>1
    <3> QED
        BY Zenon, <3>5, <3>6, <3>7, <3>8
  <2>2. CASE ~r.ok
    <3>1. delivered' = delivered /\ m = 0
        BY Zenon, <1>3, <1>9, <2>2
    <3>2. y.rcvd = Len(delivered[i])
        BY <1>8, <1>12, <1>17, <3>1
    <3> QED
        BY Zenon, <1>7, <1>17, <3>1, <3>2
  <2> QED
      BY Zenon, <2>1, <2>2
<1>20. \A j \in Iterators, b \in Nat : caller' # <<j, b>>
    BY Zenon, <1>4 DEF Idle
<1>21. BufferHolds(i, y, bad, caller', pool)
  <2>1. \A b \in y.buffer : y.rcvd <= b /\ b < y.sent
      BY SMTT(40), SMTT(40), SMTT(40), <1>8, <1>9, <1>12, <1>17, <1>18 DEF BufferHolds
  <2>2. ASSUME bad = {}, NEW b \in Nat, y.rcvd <= b, b < y.sent
        PROVE  b \in y.buffer
    <3>1. m = 1
        BY Zenon, <1>5, <1>9, <2>2
    <3>2. it[i].rcvd <= b /\ b # n /\ b < it[i].sent
        BY SMTT(40), <1>8, <1>12, <1>18, <2>2, <3>1
    <3>3. caller # <<i, b>>
        BY Zenon, <1>2, <3>2
    <3> QED
        BY Zenon, <1>12, <1>17, <2>2, <3>2, <3>3 DEF BufferHolds
  <2>3. ~y.stopped
    <3>1. it[i].rcvd # it[i].sent
        BY SMTT(40), SMTT(40), SMTT(40), <1>8, <1>18
    <3> QED
        BY Zenon, <1>12, <1>17, <3>1 DEF BufferHolds
  <2> QED
      BY Zenon, <1>20, <2>1, <2>2, <2>3 DEF BufferHolds
<1>22. y.rcvd <= y.sent
    BY SMTT(40), <1>8, <1>9, <1>12, <1>18
<1>23. ASSUME NEW j \in Iterators
       PROVE  /\ it'[j].rcvd = Len(delivered'[j]) /\ it'[j].rcvd <= it'[j].sent
              /\ \A b \in Nat : b < Len(delivered'[j]) =>
                   delivered'[j][b + 1].samples = Cut(Drawn(j)', b)
              /\ BufferHolds(j, it'[j], bad', caller', pool')
  <2>1. CASE j = i
      BY Zenon, <1>4, <1>13, <1>15, <1>19, <1>21, <1>22, <2>1
  <2>2. CASE j # i
    <3>1. it'[j] = it[j] /\ Drawn(j)' = Drawn(j) /\ delivered'[j] = delivered[j]
        BY Zenon, <1>7, <1>13, <1>15, <1>19, <2>2
    <3>2. /\ it[j].rcvd = Len(delivered[j]) /\ it[j].rcvd <= it[j].sent
          /\ \A b \in Nat : b < Len(delivered[j]) => delivered[j][b + 1].samples = Cut(Drawn(j), b)
          /\ BufferHolds(j, it[j], bad, caller, pool)
        BY Zenon, <1>1 DEF HandedOut
    <3>3. \A b \in Nat : caller # <<j, b>>
        BY Zenon, <1>2, <2>2
    <3>4. BufferHolds(j, it[j], bad, caller', pool)
        BY Zenon, <1>20, <3>2, <3>3 DEF BufferHolds
    <3> QED
        BY Zenon, <1>4, <3>1, <3>2, <3>4
  <2> QED
      BY Zenon, <2>1, <2>2
<1>24. HandedOut'
  <2>1. failed' => bad' # {}
      BY Zenon, <1>1, <1>4 DEF HandedOut
  <2> QED
      BY Zenon, <1>4, <1>15, <1>23, <2>1 DEF HandedOut
<1>25. LoaderTyped'
  <2>1. done' \subseteq done
      BY Zenon, <1>3
  <2> QED
      BY Zenon, <1>1, <1>4, <1>13, <1>19, <2>1 DEF LoaderTyped
<1> QED
    BY Zenon, <1>15, <1>16, <1>24, <1>25 DEF LoaderInv

\* iter(loader).
LEMMA IterKeeps == LoaderInv /\ Iter => LoaderInv'
<1> SUFFICES ASSUME LoaderInv, Iter PROVE LoaderInv'
    BY Zenon
<1>1. LoaderTyped /\ Generators /\ TasksHold /\ HandedOut /\ RollsOver
    BY Zenon DEF LoaderInv
<1>2. PICK L \in Nat : L = Len(it)
    BY <1>1 DEF LoaderTyped
<1>3. PICK y : y = [gen |-> NewGen, sent |-> 0, rcvd |-> 0, buffer |-> {}, stopped |-> FALSE]
    BY Zenon
<1>4. /\ caller = Idle /\ pool = "run"
      /\ overlap' = (overlap \/ \E i \in Iterators : ~it[i].stopped)
      /\ it' = Append(it, y)
      /\ opening' = Prefetch
      /\ order' = Append(order, <<>>)
      /\ took' = Append(took, <<>>)
      /\ promised' = Append(promised, SamplerLen(prev))
      /\ delivered' = Append(delivered, <<>>)
      /\ UNCHANGED <<last_batch, bad, prev, done, queue, running, pool, caller, failed>>
    BY Zenon, <1>3 DEF Iter, Free
<1>5. /\ it \in Seq(LoaderIter) /\ order \in Seq(Seq(Sample)) /\ Len(order) = L
      /\ took \in Seq(Seq(Sample)) /\ Len(took) = L /\ promised \in Seq(Int) /\ Len(promised) = L
      /\ delivered \in Seq(Seq(Handed)) /\ Len(delivered) = L /\ prev \in Seq(Sample)
      /\ last_batch \in {"keep", "discard", "rollover"}
    BY Zenon, <1>1, <1>2 DEF LoaderTyped
<1>6. /\ y \in LoaderIter /\ y.gen.st = "new" /\ y.sent = 0 /\ y.rcvd = 0 /\ y.buffer = {}
      /\ y.stopped = FALSE
  <2>1. y.gen = NewGen /\ y.sent = 0 /\ y.rcvd = 0 /\ y.buffer = {} /\ y.stopped = FALSE
      BY Zenon, <1>3
  <2>2. NewGen \in Generator /\ NewGen.st = "new"
      BY DEF NewGen, Generator
  <2>3. y \in LoaderIter
      BY Zenon, <1>3, <2>2 DEF LoaderIter
  <2> QED
      BY Zenon, <2>1, <2>2, <2>3
<1>7. /\ it' \in Seq(LoaderIter) /\ Len(it') = L + 1 /\ it'[L + 1] = y
      /\ \A j \in 1 .. L : it'[j] = it[j]
    BY SMTT(40), SMTT(40), SMTT(40), <1>2, <1>4, <1>5, <1>6, GrowFacts
<1>e. <<>> \in Seq(Sample) /\ <<>> \in Seq(Handed)
    BY SMTT(40), SMTT(40), SMTT(40)
<1>8. /\ order' \in Seq(Seq(Sample)) /\ Len(order') = L + 1 /\ order'[L + 1] = <<>>
      /\ \A j \in 1 .. L : order'[j] = order[j]
    BY SMTT(40), SMTT(40), SMTT(40), <1>4, <1>5, <1>e, GrowFacts
<1>9. /\ took' \in Seq(Seq(Sample)) /\ Len(took') = L + 1 /\ took'[L + 1] = <<>>
      /\ \A j \in 1 .. L : took'[j] = took[j]
    BY SMTT(40), <1>4, <1>5, <1>e, GrowFacts
<1>10. /\ delivered' \in Seq(Seq(Handed)) /\ Len(delivered') = L + 1 /\ delivered'[L + 1] = <<>>
       /\ \A j \in 1 .. L : delivered'[j] = delivered[j]
    BY SMTT(40), SMTT(40), SMTT(40), <1>4, <1>5, <1>e, GrowFacts
<1>11. /\ promised' \in Seq(Int) /\ Len(promised') = L + 1
       /\ promised'[L + 1] = SamplerLen(prev)
       /\ \A j \in 1 .. L : promised'[j] = promised[j]
  <2>1. SamplerLen(prev) \in Int
    <3>1. BatchSize \in Nat \ {0} /\ Length \in Nat
        BY Zenon, SamplerAssumption
    <3>2. \A a \in Int : a \div BatchSize \in Int
        BY <3>1
    <3>3. Length + BatchSize - 1 \in Int /\ Length \in Int /\ Len(prev) + Length \in Int
        BY <1>5, <3>1
    <3>4. CASE last_batch = "keep"
        BY Zenon, <3>2, <3>3, <3>4 DEF SamplerLen
    <3>5. CASE last_batch = "discard"
        BY Zenon, <3>2, <3>3, <3>5 DEF SamplerLen
    <3>6. CASE last_batch = "rollover"
        BY Zenon, <3>2, <3>3, <3>6 DEF SamplerLen
    <3> QED
        BY Zenon, <1>5, <3>4, <3>5, <3>6
  <2> QED
      BY SMTT(40), <1>4, <1>5, <2>1
<1>12. /\ Iterators = 1 .. L /\ Iterators' = 1 .. L + 1 /\ L + 1 \in 1 .. L + 1
       /\ \A j \in 1 .. L + 1 : j \in 1 .. L \/ j = L + 1
       /\ \A j \in 1 .. L : j \in 1 .. L + 1 /\ j < L + 1
    BY <1>2, <1>7 DEF Iterators
<1>13. /\ \A j \in 1 .. L : Drawn(j)' = Drawn(j) /\ Leaves(j)' = Leaves(j)
  <2>1. \A j \in 1 .. L : Drawn(j)' = Drawn(j)
      BY Zenon, <1>8, <1>9 DEF Drawn
  <2> QED
      BY Zenon, <1>4, <1>7, <2>1 DEF Leaves
<1>14. Generators'
  <2>1. ASSUME NEW j \in 1 .. L
        PROVE  /\ it'[j].gen.st = "new" =>
                    it'[j].sent = 0 /\ took'[j] = <<>> /\ order'[j] = <<>>
               /\ it'[j].gen.st # "new" => Len(order'[j]) = Length
               /\ pool' = "run" => GenAt(last_batch', Drawn(j)', it'[j])
               /\ \A n \in Nat : n < it'[j].sent => Counts(last_batch', Drawn(j)', n)
    <3>1. /\ it'[j] = it[j] /\ took'[j] = took[j] /\ order'[j] = order[j] /\ Drawn(j)' = Drawn(j)
        BY Zenon, <1>7, <1>8, <1>9, <1>13
    <3> QED
        BY Zenon, <1>1, <1>4, <1>12, <3>1 DEF Generators
  <2>2. \A n \in Nat : ~(n < 0)
      OBVIOUS
  <2>3. ASSUME NEW j, j = L + 1
        PROVE  /\ it'[j].gen.st = "new" =>
                    it'[j].sent = 0 /\ took'[j] = <<>> /\ order'[j] = <<>>
               /\ it'[j].gen.st # "new" => Len(order'[j]) = Length
               /\ pool' = "run" => GenAt(last_batch', Drawn(j)', it'[j])
               /\ \A n \in Nat : n < it'[j].sent => Counts(last_batch', Drawn(j)', n)
      BY Zenon, <1>6, <1>7, <1>8, <1>9, <2>2, <2>3 DEF GenAt
  <2> QED
      BY Zenon, <1>12, <2>1, <2>3 DEF Generators
<1>15. TasksHold'
  <2>1. ASSUME NEW t, TaskHolds(t, it, took, order)
        PROVE  TaskHolds(t, it', took', order')
      BY Zenon, <1>2, <1>7, <1>8, <1>9, <1>12, <2>1 DEF TaskHolds
  <2> QED
      BY Zenon, <1>1, <1>4, <2>1 DEF TasksHold
<1>16. HandedOut'
  <2>1. ASSUME NEW j \in 1 .. L
        PROVE  /\ it'[j].rcvd = Len(delivered'[j]) /\ it'[j].rcvd <= it'[j].sent
               /\ \A n \in Nat : n < Len(delivered'[j]) =>
                    delivered'[j][n + 1].samples = Cut(Drawn(j)', n)
               /\ BufferHolds(j, it'[j], bad', caller', pool')
    <3>1. it'[j] = it[j] /\ delivered'[j] = delivered[j] /\ Drawn(j)' = Drawn(j)
        BY Zenon, <1>7, <1>10, <1>13
    <3> QED
        BY Zenon, <1>1, <1>4, <1>12, <3>1 DEF HandedOut
  <2>2. /\ \A n \in Nat : ~(n < 0) /\ Len(<<>>) = 0 /\ 0 <= 0
      OBVIOUS
  <2>3. \A j, n : caller # <<j, n>>
      BY Zenon, <1>4 DEF Idle
  <2>4. ASSUME NEW j, j = L + 1
        PROVE  /\ it'[j].rcvd = Len(delivered'[j]) /\ it'[j].rcvd <= it'[j].sent
               /\ \A n \in Nat : n < Len(delivered'[j]) =>
                    delivered'[j][n + 1].samples = Cut(Drawn(j)', n)
               /\ BufferHolds(j, it'[j], bad', caller', pool')
    <3>1. it'[j] = y /\ delivered'[j] = <<>>
        BY Zenon, <1>7, <1>10, <2>4
    <3>2. BufferHolds(j, y, bad, caller, pool)
        BY Zenon, <1>6, <2>2, <2>3 DEF BufferHolds
    <3>3. y.rcvd = Len(<<>>) /\ y.rcvd <= y.sent
        BY <1>6
    <3> QED
        BY Zenon, <1>4, <2>2, <3>1, <3>2, <3>3
  <2>5. (failed' => bad' # {}) /\ caller' = Idle
      BY Zenon, <1>1, <1>4 DEF HandedOut
  <2> QED
      BY Zenon, <1>12, <2>1, <2>4, <2>5 DEF HandedOut
<1>17. ASSUME ~overlap', pool' = "run"
       PROVE  /\ Len(it') = 0 => prev' = <<>>
              /\ \A j \in Iterators' :
                   /\ j < Len(it') => it'[j].stopped
                   /\ it'[j].gen.st # "new" => took'[j] = Finds(j)'
                   /\ promised'[j] = SamplerLen(Finds(j))'
                   /\ j = Len(it') =>
                        prev' = IF it'[j].gen.st = "new" THEN Finds(j)'
                                ELSE IF it'[j].gen.st = "run" THEN <<>>
                                ELSE Leaves(j)'
  <2>1. ~overlap /\ \A j \in 1 .. L : it[j].stopped
      BY Zenon, <1>4, <1>12, <1>17
  <2>2. \A j \in 1 .. L : it[j].gen.st = "end"
      BY Zenon, <1>1, <1>4, <1>12, <2>1 DEF HandedOut, BufferHolds
  <2>3. /\ L = 0 => prev = <<>>
        /\ \A j \in 1 .. L :
             /\ it[j].gen.st # "new" => took[j] = Finds(j)
             /\ promised[j] = SamplerLen(Finds(j))
             /\ j = L => prev = IF it[j].gen.st = "new" THEN Finds(j)
                                ELSE IF it[j].gen.st = "run" THEN <<>>
                                ELSE Leaves(j)
      BY Zenon, <1>1, <1>2, <1>4, <1>12, <2>1 DEF RollsOver
  <2>4. Len(it') # 0
      BY <1>7
  <2>5. ASSUME NEW j \in 1 .. L
        PROVE  Finds(j)' = Finds(j)
    <3>1. j # 1 => j - 1 \in 1 .. L
        OBVIOUS
    <3> QED
        BY Zenon, <1>13, <3>1 DEF Finds
  <2>6. ASSUME NEW j \in 1 .. L
        PROVE  /\ it'[j].stopped
               /\ it'[j].gen.st # "new" => took'[j] = Finds(j)'
               /\ promised'[j] = SamplerLen(Finds(j))'
               /\ j # L + 1
    <3>1. SamplerLen(Finds(j))' = SamplerLen(Finds(j))
        BY Zenon, <1>4, <2>5 DEF SamplerLen
    <3>2. it'[j] = it[j] /\ took'[j] = took[j] /\ promised'[j] = promised[j]
        BY Zenon, <1>7, <1>9, <1>11
    <3>3. j # L + 1
        OBVIOUS
    <3> QED
        BY Zenon, <2>1, <2>3, <2>5, <3>1, <3>2, <3>3
  <2>7. ASSUME NEW j, j = L + 1
        PROVE  /\ ~(j < Len(it'))
               /\ it'[j].gen.st = "new"
               /\ promised'[j] = SamplerLen(Finds(j))'
               /\ prev' = Finds(j)'
    <3>1. ~(j < Len(it'))
        BY <1>7, <2>7
    <3>2. it'[j].gen.st = "new"
        BY Zenon, <1>6, <1>7, <2>7
    <3>3. prev = Finds(j)'
      <4>1. CASE L = 0
        <5>1. j = 1
            BY <2>7, <4>1
        <5> QED
            BY Zenon, <2>3, <4>1, <5>1 DEF Finds
      <4>2. CASE L # 0
        <5>1. j # 1 /\ j - 1 = L /\ L \in 1 .. L
            BY <2>7, <4>2
        <5>2. prev = Leaves(L)
            BY Zenon, <2>2, <2>3, <5>1, "end" # "new", "end" # "run"
        <5>3. Leaves(L)' = Leaves(L)
            BY Zenon, <1>13, <5>1
        <5> QED
            BY Zenon, <5>1, <5>2, <5>3 DEF Finds
      <4> QED
          BY Zenon, <4>1, <4>2
    <3>4. SamplerLen(Finds(j))' = SamplerLen(prev)
        BY Zenon, <1>4, <3>3 DEF SamplerLen
    <3> QED
        BY Zenon, <1>4, <1>11, <2>7, <3>1, <3>2, <3>3, <3>4
  <2>8. ASSUME NEW j \in 1 .. L + 1
        PROVE  /\ j < Len(it') => it'[j].stopped
               /\ it'[j].gen.st # "new" => took'[j] = Finds(j)'
               /\ promised'[j] = SamplerLen(Finds(j))'
               /\ j = Len(it') =>
                    prev' = IF it'[j].gen.st = "new" THEN Finds(j)'
                            ELSE IF it'[j].gen.st = "run" THEN <<>>
                            ELSE Leaves(j)'
      BY Zenon, <1>7, <1>12, <2>6, <2>7
  <2> QED
      BY Zenon, <1>12, <2>4, <2>8
<1>18. RollsOver'
    BY Zenon, <1>17 DEF RollsOver
<1>19. LoaderTyped'
  <2>1. opening' \in Nat /\ (opening' > 0 => Len(it') > 0)
      BY <1>4, <1>7, LoaderAssumption
  <2> QED
      BY Zenon, <1>1, <1>4, <1>7, <1>8, <1>9, <1>10, <1>11, <2>1 DEF LoaderTyped
<1> QED
    BY Zenon, <1>14, <1>15, <1>16, <1>18, <1>19 DEF LoaderInv

\* The steps of the workers and the destructor touch no iterator.
LEMMA WorkersKeep ==
    ASSUME LoaderInv,
           UNCHANGED <<last_batch, bad, prev, it, opening, caller, overlap, failed, order, took,
                       promised, delivered>>,
           pool' = pool \/ pool' = "terminated",
           queue' \in Seq(Task), running' \in [Worker -> Task \union {Idle}],
           done' \subseteq [task : Task, ok : BOOLEAN],
           \A j \in 1 .. Len(queue') : TaskHolds(queue'[j], it, took, order),
           \A w \in Worker : running'[w] # Idle => TaskHolds(running'[w], it, took, order),
           \A r \in done' : TaskHolds(r.task, it, took, order) /\ (bad = {} => r.ok = TRUE)
    PROVE  LoaderInv'
<1>1. LoaderTyped /\ Generators /\ TasksHold /\ HandedOut /\ RollsOver
    BY Zenon DEF LoaderInv
<1>2. LoaderTyped'
  <2>1. pool' \in {"run", "terminated"}
      BY Zenon, <1>1 DEF LoaderTyped
  <2> QED
      BY Zenon, <1>1, <2>1 DEF LoaderTyped
<1>3. TasksHold'
    BY Zenon DEF TasksHold
<1>4. Iterators' = Iterators /\ \A j : Drawn(j)' = Drawn(j)
    BY Zenon DEF Iterators, Drawn
<1>5. pool' = "run" => pool = "run"
    BY Zenon, "terminated" # "run"
<1>6. Generators'
    BY Zenon, <1>1, <1>4, <1>5 DEF Generators
<1>7. HandedOut'
  <2>1. \A j \in Iterators : BufferHolds(j, it[j], bad, caller, pool')
      BY Zenon, <1>1, <1>5 DEF HandedOut, BufferHolds
  <2> QED
      BY Zenon, <1>1, <1>4, <2>1 DEF HandedOut
<1>8. RollsOver'
  <2>1. \A j : Leaves(j)' = Leaves(j)
      BY Zenon, <1>4 DEF Leaves
  <2>2. \A j : Finds(j)' = Finds(j)
      BY Zenon, <2>1 DEF Finds
  <2>3. \A j : SamplerLen(Finds(j))' = SamplerLen(Finds(j))
      BY Zenon, <2>2 DEF SamplerLen
  <2> QED
      BY Zenon, <1>1, <1>4, <1>5, <2>1, <2>2, <2>3 DEF RollsOver
<1> QED
    BY Zenon, <1>2, <1>3, <1>6, <1>7, <1>8 DEF LoaderInv

\* A worker takes a task.
LEMMA TakeKeeps == ASSUME LoaderInv, NEW w \in Worker, Take(w) PROVE LoaderInv'
<1>1. /\ queue \in Seq(Task) /\ running \in [Worker -> Task \union {Idle}]
      /\ done \subseteq [task : Task, ok : BOOLEAN]
    BY Zenon DEF LoaderInv, LoaderTyped
<1>2. /\ \A j \in 1 .. Len(queue) : TaskHolds(queue[j], it, took, order)
      /\ \A v \in Worker : running[v] # Idle => TaskHolds(running[v], it, took, order)
      /\ \A r \in done : TaskHolds(r.task, it, took, order) /\ (bad = {} => r.ok = TRUE)
    BY Zenon DEF LoaderInv, TasksHold
<1>3. /\ queue # <<>> /\ running' = [running EXCEPT ![w] = Head(queue)] /\ queue' = Tail(queue)
      /\ done' = done /\ pool' = pool
      /\ UNCHANGED <<last_batch, bad, prev, it, opening, caller, overlap, failed, order, took,
                     promised, delivered>>
    BY Zenon DEF Take
<1>4. /\ Tail(queue) \in Seq(Task) /\ Head(queue) \in Task /\ Head(queue) = queue[1]
      /\ Len(queue) \in Nat /\ Len(queue) > 0 /\ Len(Tail(queue)) = Len(queue) - 1
      /\ \A j \in 1 .. Len(queue) - 1 : Tail(queue)[j] = queue[j + 1]
    BY <1>1, <1>3
<1>5. ASSUME NEW j \in 1 .. Len(queue')
      PROVE  TaskHolds(queue'[j], it, took, order)
  <2>1. j \in 1 .. Len(queue) - 1 /\ j + 1 \in 1 .. Len(queue)
      BY <1>3, <1>4
  <2> QED
      BY Zenon, <1>2, <1>3, <1>4, <2>1
<1>6. running' \in [Worker -> Task \union {Idle}]
    BY Zenon, <1>1, <1>3, <1>4
<1>7. ASSUME NEW v \in Worker, running'[v] # Idle
      PROVE  TaskHolds(running'[v], it, took, order)
  <2>1. 1 \in 1 .. Len(queue)
      BY <1>4
  <2>2. running'[v] = (IF v = w THEN Head(queue) ELSE running[v])
      BY Zenon, <1>1, <1>3
  <2> QED
      BY Zenon, <1>2, <1>4, <1>7, <2>1, <2>2
<1> QED
    BY Zenon, <1>1, <1>2, <1>3, <1>4, <1>5, <1>6, <1>7, WorkersKeep

\* A worker's function returns or raises.
LEMMA FinishKeeps == ASSUME LoaderInv, NEW w \in Worker, Finish(w) PROVE LoaderInv'
<1>1. /\ queue \in Seq(Task) /\ running \in [Worker -> Task \union {Idle}]
      /\ done \subseteq [task : Task, ok : BOOLEAN]
    BY Zenon DEF LoaderInv, LoaderTyped
<1>2. /\ \A j \in 1 .. Len(queue) : TaskHolds(queue[j], it, took, order)
      /\ \A v \in Worker : running[v] # Idle => TaskHolds(running[v], it, took, order)
      /\ \A r \in done : TaskHolds(r.task, it, took, order) /\ (bad = {} => r.ok = TRUE)
    BY Zenon DEF LoaderInv, TasksHold
<1>3. /\ running[w] # Idle /\ running' = [running EXCEPT ![w] = Idle]
      /\ done' = done \union {Outcome(running[w])}
      /\ queue' = queue /\ pool' = pool
      /\ UNCHANGED <<last_batch, bad, prev, it, opening, caller, overlap, failed, order, took,
                     promised, delivered>>
    BY Zenon DEF Finish, Post
<1>4. PICK b : b = Outcome(running[w])
    BY Zenon
<1>5. running[w] \in Task
    BY Zenon, <1>1, <1>3
<1>6. b \in [task : Task, ok : BOOLEAN] /\ b.task = running[w] /\ (bad = {} => b.ok = TRUE)
  <2>1. PICK c \in BOOLEAN :
          c = \A z \in DOMAIN running[w][3] : running[w][3][z] \notin bad
      BY Zenon
  <2>2. b = [task |-> running[w], ok |-> c]
      BY Zenon, <1>4, <2>1 DEF Outcome
  <2>3. bad = {} => c = TRUE
      BY Zenon, <2>1
  <2> QED
      BY Zenon, <1>5, <2>2, <2>3
<1>7. done' \subseteq [task : Task, ok : BOOLEAN]
    BY Zenon, <1>1, <1>3, <1>4, <1>6
<1>8. \A r \in done' : TaskHolds(r.task, it, took, order) /\ (bad = {} => r.ok = TRUE)
    BY Zenon, <1>2, <1>3, <1>4, <1>6
<1>9. running' \in [Worker -> Task \union {Idle}]
    BY Zenon, <1>1, <1>3
<1>10. ASSUME NEW v \in Worker, running'[v] # Idle
       PROVE  TaskHolds(running'[v], it, took, order)
  <2>1. running'[v] = (IF v = w THEN Idle ELSE running[v])
      BY Zenon, <1>1, <1>3
  <2> QED
      BY Zenon, <1>2, <1>10, <2>1
<1> QED
    BY Zenon, <1>1, <1>2, <1>3, <1>7, <1>8, <1>9, <1>10, WorkersKeep

\* DataLoader.__del__.
LEMMA LoaderDelKeeps == LoaderInv /\ LoaderDel => LoaderInv'
<1> SUFFICES ASSUME LoaderInv, LoaderDel PROVE LoaderInv'
    BY Zenon
<1>1. done \subseteq [task : Task, ok : BOOLEAN]
    BY Zenon DEF LoaderInv, LoaderTyped
<1>2. \A r \in done : TaskHolds(r.task, it, took, order) /\ (bad = {} => r.ok = TRUE)
    BY Zenon DEF LoaderInv, TasksHold
<1>3. /\ pool' = "terminated" /\ queue' = <<>> /\ running' = [w \in Worker |-> Idle]
      /\ done' = done
      /\ UNCHANGED <<last_batch, bad, prev, it, opening, caller, overlap, failed, order, took,
                     promised, delivered>>
    BY Zenon DEF LoaderDel
<1>4. queue' \in Seq(Task) /\ Len(queue') = 0 /\ \A j \in 1 .. Len(queue') : FALSE
    BY <1>3
<1>5. running' \in [Worker -> Task \union {Idle}] /\ \A w \in Worker : running'[w] = Idle
    BY Zenon, <1>3
<1> QED
    BY Zenon, <1>1, <1>2, <1>3, <1>4, <1>5, WorkersKeep

\* The invariant of a DataLoader and its iterators holds in every state.
THEOREM DataLoaderInvariance == LoaderSpec => []LoaderInv
<1>1. LoaderInit => LoaderInv
  <2> SUFFICES ASSUME LoaderInit PROVE LoaderInv
      BY Zenon
  <2>1. LoaderTyped
    <3>1. /\ last_batch \in {"keep", "discard", "rollover"} /\ opening \in Nat /\ ~(opening > 0)
          /\ pool \in {"run", "terminated"} /\ Len(it) = 0
        BY SamplerAssumption DEF LoaderInit
    <3>2. /\ \A S : <<>> \in Seq(S)
          /\ done \subseteq [task : Task, ok : BOOLEAN] /\ caller = Idle
        BY DEF LoaderInit
    <3>3. running \in [Worker -> Task \union {Idle}]
        BY Zenon DEF LoaderInit
    <3> QED
        BY Zenon, <3>1, <3>2, <3>3 DEF LoaderTyped, LoaderInit
  <2>2. Iterators = {} /\ 1 .. Len(queue) = {} /\ done = {} /\ caller = Idle /\ ~failed
        /\ prev = <<>>
      BY DEF LoaderInit, Iterators
  <2>3. \A w \in Worker : running[w] = Idle
      BY Zenon DEF LoaderInit
  <2>4. Generators /\ TasksHold /\ HandedOut /\ RollsOver
      BY Zenon, <2>2, <2>3 DEF Generators, TasksHold, HandedOut, RollsOver
  <2> QED
      BY Zenon, <2>1, <2>4 DEF LoaderInv
<1>2. LoaderInv /\ [LoaderNext]_loaderVars => LoaderInv'
  <2> SUFFICES ASSUME LoaderInv, [LoaderNext]_loaderVars PROVE LoaderInv'
      BY Zenon
  <2>1. CASE UNCHANGED loaderVars
    <3>1. /\ UNCHANGED <<last_batch, bad, prev, it, opening, caller, overlap, failed, order, took,
                         promised, delivered>>
          /\ pool' = pool /\ queue' = queue /\ running' = running /\ done' = done
        BY Zenon, <2>1 DEF loaderVars
    <3> QED
        BY Zenon, <3>1, WorkersKeep DEF LoaderInv, LoaderTyped, TasksHold
  <2>2. CASE LoaderNext
      BY Zenon, <2>2, IterKeeps, PreFetchKeeps, NextCallKeeps, NextReturnKeeps, LoaderDelKeeps,
         TakeKeeps, FinishKeeps DEF LoaderNext, User
  <2> QED
      BY Zenon, <2>1, <2>2
<1> QED
    BY <1>1, <1>2, PTL DEF LoaderSpec

\* The quotient that len(sampler) is.
LEMMA QuotientIs ==
    ASSUME NEW a \in Nat, NEW n \in Nat, At(n) <= a, a < At(n + 1)
    PROVE  a \div BatchSize = n
<1>1. BatchSize \in Nat /\ BatchSize > 0
    BY SamplerAssumption
<1>2. n * BatchSize <= a /\ a < (n + 1) * BatchSize
    BY Zenon DEF At
<1> QED
    BY <1>1, <1>2

\* The samples of iterator i: as many as it found in _prev, and all of the sampler's.
LEMMA DrawnFacts ==
    ASSUME LoaderTyped, Generators, NEW i \in Iterators
    PROVE  /\ it[i] \in LoaderIter /\ it[i].sent \in Nat /\ it[i].rcvd \in Nat
           /\ took[i] \in Seq(Sample) /\ Drawn(i) \in Seq(Sample) /\ Len(Drawn(i)) \in Nat
           /\ it[i].gen.st # "new" => Len(Drawn(i)) = Len(took[i]) + Length
           /\ delivered[i] \in Seq(Handed)
<1>1. /\ it[i] \in LoaderIter /\ took[i] \in Seq(Sample) /\ order[i] \in Seq(Sample)
      /\ delivered[i] \in Seq(Handed)
    BY Zenon, LoaderElems
<1>2. it[i].sent \in Nat /\ it[i].rcvd \in Nat
    BY Zenon, <1>1, IterFields
<1>3. Drawn(i) \in Seq(Sample) /\ Len(Drawn(i)) = Len(took[i]) + Len(order[i])
    BY Zenon, <1>1, ConcatFacts DEF Drawn
<1>4. it[i].gen.st # "new" => Len(order[i]) = Length
    BY Zenon DEF Generators
<1>5. Len(Drawn(i)) \in Nat
  <2>1. \A q \in Seq(Sample) : Len(q) \in Nat
      OBVIOUS
  <2> QED
      BY Zenon, <1>3, <2>1
<1> QED
    BY Zenon, <1>1, <1>2, <1>3, <1>4, <1>5

\* An iterator that has stopped is at the end, and has received all it sent.
LEMMA StoppedFacts ==
    ASSUME LoaderInv, NEW i \in Iterators, it[i].stopped, pool = "run"
    PROVE  /\ it[i].gen.st = "end" /\ it[i].sent = Len(delivered[i])
           /\ AtEnd(last_batch, Drawn(i), it[i].gen, it[i].sent)
<1>1. it[i].rcvd = Len(delivered[i]) /\ BufferHolds(i, it[i], bad, caller, pool)
    BY Zenon DEF LoaderInv, HandedOut
<1>2. it[i].rcvd = it[i].sent /\ it[i].gen.st = "end"
    BY Zenon, <1>1 DEF BufferHolds
<1>3. GenAt(last_batch, Drawn(i), it[i])
    BY Zenon DEF LoaderInv, Generators
<1>4. AtEnd(last_batch, Drawn(i), it[i].gen, it[i].sent)
    BY Zenon, <1>2, <1>3, "end" # "new", "end" # "run" DEF GenAt, InMiddle
<1> QED
    BY Zenon, <1>1, <1>2, <1>4

\* However the workers overtake each other, an iterator of a DataLoader hands out the
\* batches the sampler drew, in that order, and stops only when all were handed out;
\* no assertion of __next__ fails while every dataset[i] returns.
THEOREM HandsOutInOrder == LoaderSpec => []DeliversInOrder
<1>1. LoaderInv => DeliversInOrder
  <2> SUFFICES ASSUME LoaderInv PROVE DeliversInOrder
      BY Zenon
  <2>1. LoaderTyped /\ Generators /\ HandedOut
      BY Zenon DEF LoaderInv
  <2>2. ASSUME NEW i \in Iterators, NEW n \in DOMAIN delivered[i]
        PROVE  /\ delivered[i][n].samples = Portion(i, n)
               /\ \/ n * BatchSize <= Len(Drawn(i))
                  \/ last_batch = "keep" /\ (n - 1) * BatchSize < Len(Drawn(i))
    <3>1. delivered[i] \in Seq(Handed) /\ it[i].sent \in Nat /\ it[i].rcvd \in Nat
        BY Zenon, <2>1, DrawnFacts
    <3>2. n \in 1 .. Len(delivered[i])
        BY <2>2, <3>1
    <3>3. PICK b \in Nat : b = n - 1 /\ b + 1 = n /\ b < Len(delivered[i])
        BY <3>1, <3>2
    <3>4. it[i].rcvd = Len(delivered[i]) /\ it[i].rcvd <= it[i].sent
        BY Zenon, <2>1 DEF HandedOut
    <3>5. b < it[i].sent
        BY SMTT(40), <3>1, <3>3, <3>4
    <3>6. delivered[i][n].samples = Cut(Drawn(i), b)
        BY Zenon, <2>1, <3>3 DEF HandedOut
    <3>7. Counts(last_batch, Drawn(i), b)
        BY Zenon, <2>1, <3>5 DEF Generators
    <3>8. At(b) = (n - 1) * BatchSize /\ At(b + 1) = n * BatchSize
        BY Zenon, <3>3 DEF At
    <3>9. Cut(Drawn(i), b) = Portion(i, n)
        BY Zenon, <3>8 DEF Cut, Portion
    <3> QED
        BY Zenon, <3>6, <3>7, <3>8, <3>9 DEF Counts
  <2>3. ASSUME NEW i \in Iterators, it[i].stopped, pool = "run"
        PROVE  /\ Len(Drawn(i)) < (Len(delivered[i]) + 1) * BatchSize
               /\ last_batch = "keep" => Len(Drawn(i)) <= Len(delivered[i]) * BatchSize
      BY Zenon, <2>3, StoppedFacts DEF AtEnd, At
  <2>4. failed => bad # {}
      BY Zenon, <2>1 DEF HandedOut
  <2> QED
      BY Zenon, <2>2, <2>3, <2>4 DEF DeliversInOrder
<1> QED
    BY <1>1, DataLoaderInvariance, PTL

\* One iterator at a time, an epoch has as many batches as len(loader) said when it
\* started, and the samples 'rollover' holds back go to the next epoch, each once.
THEOREM EpochsAreComplete == LoaderSpec => []EpochsAddUp
<1>1. LoaderInv => EpochsAddUp
  <2> SUFFICES ASSUME LoaderInv, ~overlap, pool = "run", \A i \in Iterators : it[i].stopped
               PROVE  /\ \A i \in Iterators : Len(delivered[i]) = promised[i]
                      /\ last_batch = "rollover" =>
                           \A i \in Iterators :
                             /\ i = 1 => took[i] = <<>>
                             /\ Leftover(i) = IF i < Len(it) THEN took[i + 1] ELSE prev
      BY Zenon DEF EpochsAddUp
  <2>1. LoaderTyped /\ Generators /\ HandedOut /\ RollsOver
      BY Zenon DEF LoaderInv
  <2>2. \A i \in Iterators :
          /\ it[i].gen.st = "end" /\ it[i].sent = Len(delivered[i])
          /\ AtEnd(last_batch, Drawn(i), it[i].gen, it[i].sent)
      BY Zenon, StoppedFacts
  <2>3. \A i \in Iterators :
          /\ took[i] = Finds(i) /\ promised[i] = SamplerLen(Finds(i))
          /\ i = Len(it) => prev = Leaves(i)
      BY Zenon, <2>1, <2>2, "end" # "new", "end" # "run" DEF RollsOver
  <2>4. ASSUME NEW i \in Iterators
        PROVE  Len(delivered[i]) = promised[i]
    <3>1. PICK n \in Nat : n = it[i].sent
        BY Zenon, <2>1, DrawnFacts
    <3>2. PICK d \in Nat : d = Len(Drawn(i))
        BY Zenon, <2>1, DrawnFacts
    <3>3. PICK t : t = took[i]
        BY Zenon
    <3>4. t \in Seq(Sample) /\ d = Len(t) + Length
        BY Zenon, <2>1, <2>2, <3>2, <3>3, DrawnFacts, "end" # "new"
    <3>5. /\ d < At(n + 1)
          /\ last_batch = "keep" => d <= At(n)
          /\ last_batch # "keep" => At(n) <= d
        BY Zenon, <2>2, <3>1, <3>2 DEF AtEnd
    <3>6. /\ BatchSize \in Nat /\ BatchSize > 0 /\ At(n) \in Nat /\ At(n + 1) = At(n) + BatchSize
          /\ Length \in Nat
        BY Zenon, AtFacts, SamplerAssumption
    <3>7. last_batch # "rollover" => t = <<>>
        BY Zenon, <2>3, <3>3 DEF Finds, Leaves, LeavesOf
    <3>8. SamplerLen(t) = n
      <4>1. CASE last_batch = "rollover"
        <5>1. (Len(t) + Length) \div BatchSize = n
            BY <3>4, <3>5, <4>1, QuotientIs
        <5> QED
            BY Zenon, <4>1, <5>1 DEF SamplerLen
      <4>2. CASE last_batch = "discard"
        <5>1. d = Length /\ At(n) <= d
            BY SMTT(40), SMTT(40), <3>4, <3>5, <3>6, <3>7, <4>2
        <5>2. Length \div BatchSize = n
            BY Zenon, <3>5, <5>1, QuotientIs
        <5> QED
            BY Zenon, <4>2, <5>2 DEF SamplerLen
      <4>3. CASE last_batch = "keep"
        <5>1. d = Length /\ d <= At(n)
            BY SMTT(40), SMTT(40), <3>4, <3>5, <3>6, <3>7, <4>3
        <5>2. At(n) <= Length + BatchSize - 1
          <6>1. CASE n = 0
            <7>1. At(n) = 0
                BY Zenon, <6>1, AtFacts
            <7> QED
                BY <3>6, <7>1
          <6>2. CASE n # 0
            <7>1. PICK m \in Nat : n = m + 1 /\ m < n
              <8>1. n - 1 \in Nat /\ n = (n - 1) + 1 /\ n - 1 < n
                  BY <6>2
              <8> QED
                  BY Zenon, <8>1
            <7>2. Counts(last_batch, Drawn(i), m)
                BY Zenon, <2>1, <3>1, <7>1 DEF Generators
            <7>3. At(m + 1) <= d \/ At(m) < d
                BY Zenon, <3>2, <7>2 DEF Counts
            <7>4. At(m) \in Nat /\ At(n) = At(m) + BatchSize
                BY Zenon, <7>1, AtFacts
            <7> QED
                BY SMTT(40), SMTT(40), <3>6, <5>1, <7>1, <7>3, <7>4
          <6> QED
              BY Zenon, <6>1, <6>2
        <5>3. Length + BatchSize - 1 \in Nat /\ Length + BatchSize - 1 < At(n + 1)
            BY <3>6, <5>1
        <5>4. (Length + BatchSize - 1) \div BatchSize = n
            BY Zenon, <5>2, <5>3, QuotientIs
        <5> QED
            BY Zenon, <4>3, <5>4 DEF SamplerLen
      <4>4. last_batch \in {"keep", "discard", "rollover"}
          BY Zenon, <2>1 DEF LoaderTyped
      <4> QED
          BY <4>1, <4>2, <4>3, <4>4
    <3> QED
        BY Zenon, <2>2, <2>3, <3>1, <3>3, <3>8
  <2>5. ASSUME last_batch = "rollover", NEW i \in Iterators
        PROVE  /\ i = 1 => took[i] = <<>>
               /\ Leftover(i) = IF i < Len(it) THEN took[i + 1] ELSE prev
    <3>1. i = 1 => took[i] = <<>>
        BY Zenon, <2>3 DEF Finds
    <3>2. Leftover(i) = Leaves(i)
        BY Zenon, <2>2, <2>5 DEF Leftover, Leaves, LeavesOf, Rest, At
    <3>3. CASE i < Len(it)
      <4>1. i + 1 \in Iterators /\ i + 1 # 1 /\ (i + 1) - 1 = i
          BY <2>1, <3>3 DEF LoaderTyped, Iterators
      <4>2. took[i + 1] = Leaves(i)
          BY Zenon, <2>3, <4>1 DEF Finds
      <4> QED
          BY Zenon, <3>1, <3>2, <3>3, <4>2
    <3>4. CASE ~(i < Len(it))
      <4>1. i = Len(it)
          BY <2>1, <3>4 DEF LoaderTyped, Iterators
      <4> QED
          BY Zenon, <2>3, <3>1, <3>2, <3>4, <4>1
    <3> QED
        BY Zenon, <3>3, <3>4
  <2> QED
      BY Zenon, <2>4, <2>5
<1> QED
    BY <1>1, DataLoaderInvariance, PTL
=============================================================================
