--------------------------- MODULE IteratorProofs ---------------------------
(***************************************************************************)
(* Proofs about the iterators of io.py, for every value of the constants.  *)
(*                                                                         *)
(* PrefetchingIter: IInv adds to its properties how the two events and the *)
(* position of a thread go together (Handshake), what the user's thread    *)
(* knows in the middle of its loops (Phases), and which batch of which     *)
(* epoch every thread has fetched or is about to fetch (Contents,          *)
(* Current).                                                               *)
(*                                                                         *)
(* NDArrayIter: NDInv says how far the rows of this epoch have been read   *)
(* for every position of the cursor (ReadTo) and what the caches of        *)
(* 'roll_over' hold (NDHeld).                                              *)
(*                                                                         *)
(* ResizeIter: ResizeInv follows the rows from the native loader through   *)
(* the producer's queue and MXDataIter's first batch to the batch that     *)
(* comes next (Chained), and says which row that is after the batch given  *)
(* last (Standing).                                                        *)
(***************************************************************************)
EXTENDS PrefetchingIter, NDArrayIter, ResizeIter, TLAPS

-----------------------------------------------------------------------------
(* PrefetchingIter.                                                        *)


\* While the iterator is in use a ready batch means a parked thread, and only
\* a thread between Wake and ClearTaken sees data_taken set.
Handshake ==
    /\ started <=> upc \notin {"del", "join", "gone"}
    /\ started => \A i \in It :
         /\ data_ready[i] => tpc[i] = "wait" /\ ~data_taken[i]
         /\ tpc[i] \in {"next", "clear"} => data_taken[i]
         /\ tpc[i] = "ready" => ~data_taken[i]

\* In the loop over data_taken the threads not reached yet are parked; in the
\* loop over the iterators all threads are.
Phases ==
    /\ upc = "set" => \A i \in It : i >= k =>
         tpc[i] = "wait" /\ ~data_ready[i] /\ ~data_taken[i]
    /\ upc = "resetting" => \A i \in It : data_ready[i]

Fetched(i) == data_ready[i] \/ tpc[i] \in {"clear", "ready"}

\* What a thread holds, or where its iterator stands, for the current turn.
Contents ==
    /\ \A i \in It : epoch[i] >= 1
    /\ started /\ upc = "resetting" => \A i \in It :
         /\ i < k => pos[i] = 0
         /\ i < k => epoch[i] = epoch[k] + 1
         /\ i >= k => epoch[i] = epoch[k]
    /\ started /\ upc # "resetting" =>
         /\ \A i, j \in It : epoch[i] = epoch[j]
         /\ turn >= 1
         /\ \A i \in It :
              /\ turn <= Size[i] + 1
              /\ ~Fetched(i) => pos[i] = turn - 1
              /\ Fetched(i) =>
                   /\ next_batch[i] = (IF turn <= Size[i] THEN <<epoch[i], turn>> ELSE None)
                   /\ pos[i] = (IF turn <= Size[i] THEN turn ELSE Size[i])

\* The batch last returned is the one before the current turn.
Current ==
    /\ Aligned
    /\ \A i \in It : current_batch[i][1] <= epoch[i]
    /\ started /\ upc = "resetting" => \A i \in It : i < k => current_batch[i][1] < epoch[i]
    /\ started /\ upc # "resetting" => \A i \in It :
         /\ turn = 1 => current_batch[i][1] < epoch[i]
         /\ turn # 1 => current_batch[i] = <<epoch[i], turn - 1>>

IInv == TypeOK /\ Handshake /\ Phases /\ Contents /\ Current

\* The initial state satisfies the inductive invariant.
LEMMA InitIInv == Init => IInv
<1> USE PrefetchingIterAssumption
<1> SUFFICES ASSUME Init PROVE IInv
    BY Zenon
<1>1. TypeOK
    BY DEF Init, TypeOK, It, Batch, None
<1>2. Handshake /\ Phases
    BY Zenon DEF Init, Handshake, Phases, It
<1>3. Contents
    BY SMTT(40) DEF Init, Contents, Fetched, It, None
<1>4. Current
    BY DEF Init, Current, Aligned, It, None
<1> QED
    BY Zenon, <1>1, <1>2, <1>3, <1>4 DEF IInv

\* The loops over the iterators start, and stay, within their indices.
LEMMA LoopIndex ==
    /\ 1 \in It
    /\ \A j \in It : j < N => j + 1 \in It
BY PrefetchingIterAssumption DEF It

\* A step that moves no iterator and hands no batch over keeps Contents.
LEMMA ContentsKept ==
    ASSUME Contents, started' = started, epoch' = epoch, turn' = turn, pos' = pos,
           next_batch' = next_batch, \A i \in It : Fetched(i)' <=> Fetched(i),
           \/ upc # "resetting" /\ upc' # "resetting"
           \/ upc' = upc /\ k' = k
    PROVE  Contents'
<1>1. CASE upc # "resetting" /\ upc' # "resetting"
    BY Zenon, <1>1 DEF Contents
<1>2. CASE upc' = upc /\ k' = k
    BY Zenon, <1>2 DEF Contents
<1> QED
    BY Zenon, <1>1, <1>2

\* A step that returns no batch and resets no iterator keeps Current.
LEMMA CurrentKept ==
    ASSUME Current, started' = started, epoch' = epoch, turn' = turn,
           current_batch' = current_batch,
           \/ upc # "resetting" /\ upc' # "resetting"
           \/ upc' = upc /\ k' = k
    PROVE  Current'
<1>1. CASE upc # "resetting" /\ upc' # "resetting"
    BY Zenon, <1>1 DEF Current, Aligned
<1>2. CASE upc' = upc /\ k' = k
    BY Zenon, <1>2 DEF Current, Aligned
<1> QED
    BY Zenon, <1>1, <1>2

\* Wake preserves the inductive invariant.
LEMMA WakeStep ==
    ASSUME IInv, NEW i \in It, Wake(i)
    PROVE  IInv'
<1> USE PrefetchingIterAssumption
<1>1. TypeOK'
    BY Zenon, LoopIndex DEF IInv, TypeOK, Batch, None, Wake, userVars, threadVars
<1> USE DEF It
<1>2. Handshake'
    BY Zenon DEF IInv, TypeOK, Handshake, Phases, Wake, userVars, threadVars
<1>3. Phases'
    BY Zenon DEF IInv, TypeOK, Handshake, Phases, Wake, userVars, threadVars
<1>4. Contents'
  <2>1. \A j \in It : Fetched(j)' <=> Fetched(j)
      BY Zenon DEF IInv, TypeOK, Wake, Fetched
  <2>2. Contents /\ UNCHANGED <<started, epoch, turn, pos, next_batch, upc, k>>
      BY Zenon DEF IInv, Wake, userVars
  <2> QED
      BY Zenon, <2>1, <2>2, ContentsKept
<1>5. Current'
  <2>1. Current /\ UNCHANGED <<started, epoch, turn, current_batch, upc, k>>
      BY Zenon DEF IInv, Wake, userVars
  <2> QED
      BY Zenon, <2>1, CurrentKept
<1> QED
    BY Zenon, <1>1, <1>2, <1>3, <1>4, <1>5 DEF IInv

\* Fetch preserves the inductive invariant.
LEMMA FetchStep ==
    ASSUME IInv, NEW i \in It, Fetch(i)
    PROVE  IInv'
<1> USE PrefetchingIterAssumption
<1>1. TypeOK'
  <2>1. /\ None \in Batch
        /\ <<epoch[i], pos[i] + 1>> \in Batch
        /\ pos[i] + 1 \in Nat
      BY DEF IInv, TypeOK, Batch, None
  <2>2. /\ pos' \in [It -> Nat]
        /\ next_batch' \in [It -> Batch]
      BY <2>1 DEF IInv, TypeOK, Fetch
  <2> QED
      BY Zenon, <2>2 DEF IInv, TypeOK, Fetch, Follows, userVars
<1> USE DEF It
<1>2. Handshake'
    BY Zenon DEF IInv, TypeOK, Handshake, Phases, Fetch, Follows, userVars, threadVars
<1>3. Phases'
    BY Zenon DEF IInv, TypeOK, Handshake, Phases, Fetch, Follows, userVars, threadVars
<1>4. Contents'
  <2> USE DEF IInv, TypeOK, Fetch, Follows, userVars
  <2>1. started => upc # "resetting" /\ ~Fetched(i) /\ tpc[i] = "next"
      BY Zenon DEF Handshake, Phases, Fetched
  <2>2. started => /\ pos[i] = turn - 1
                   /\ turn >= 1
                   /\ turn <= Size[i] + 1
      BY Zenon, <2>1 DEF Contents
  <2>3. started => /\ next_batch'[i] = (IF turn <= Size[i] THEN <<epoch[i], turn>> ELSE None)
                   /\ pos'[i] = (IF turn <= Size[i] THEN turn ELSE Size[i])
    <3>1. CASE pos[i] < Size[i]
      <4>1. pos'[i] = pos[i] + 1 /\ next_batch'[i] = <<epoch[i], pos[i] + 1>>
          BY Zenon, <3>1
      <4>2. turn \in Nat /\ pos[i] \in Nat /\ Size[i] \in Nat
          BY Zenon
      <4>3. \A p, t, z \in Nat : p = t - 1 /\ p < z => p + 1 = t /\ t <= z
          OBVIOUS
      <4>4. started => pos[i] + 1 = turn /\ turn <= Size[i]
          BY ZenonT(20), <2>2, <3>1, <4>2, <4>3
      <4> QED
          BY Zenon, <4>1, <4>4
    <3>2. CASE ~(pos[i] < Size[i])
      <4>1. pos'[i] = pos[i] /\ next_batch'[i] = None
          BY Zenon, <3>2
      <4>2. turn \in Nat /\ pos[i] \in Nat /\ Size[i] \in Nat
          BY Zenon
      <4>3. \A p, t, z \in Nat : p = t - 1 /\ t <= z + 1 /\ ~(p < z) => p = z /\ ~(t <= z)
          OBVIOUS
      <4>4. started => pos[i] = Size[i] /\ ~(turn <= Size[i])
          BY Zenon, <2>2, <3>2, <4>2, <4>3
      <4> QED
          BY Zenon, <4>1, <4>4
    <3> QED
        BY Zenon, <3>1, <3>2
  <2>4. Fetched(i)'
      BY Zenon DEF Fetched
  <2>5. \A j \in It : j # i => /\ Fetched(j)' <=> Fetched(j)
                               /\ pos'[j] = pos[j]
                               /\ next_batch'[j] = next_batch[j]
      BY Zenon DEF Fetched
  <2> QED
      BY Zenon, <2>1, <2>2, <2>3, <2>4, <2>5 DEF Contents
<1>5. Current'
  <2>1. Current /\ UNCHANGED <<started, epoch, turn, current_batch, upc, k>>
      BY Zenon DEF IInv, Fetch, userVars
  <2> QED
      BY Zenon, <2>1, CurrentKept
<1> QED
    BY Zenon, <1>1, <1>2, <1>3, <1>4, <1>5 DEF IInv

\* Fail preserves the inductive invariant.
LEMMA FailStep ==
    ASSUME IInv, NEW i \in It, Fail(i)
    PROVE  IInv'
<1> USE PrefetchingIterAssumption
<1>1. TypeOK'
    BY Zenon, LoopIndex DEF IInv, TypeOK, Batch, None, Fail, userVars, threadVars
<1> USE DEF It
<1>2. Handshake'
    BY Zenon DEF IInv, TypeOK, Handshake, Phases, Fail, userVars, threadVars
<1>3. Phases'
    BY Zenon DEF IInv, TypeOK, Handshake, Phases, Fail, userVars, threadVars
<1>4. Contents'
  <2>1. \A j \in It : Fetched(j)' <=> Fetched(j)
      BY Zenon DEF IInv, TypeOK, Fail, Fetched
  <2>2. Contents /\ UNCHANGED <<started, epoch, turn, pos, next_batch, upc, k>>
      BY Zenon DEF IInv, Fail, userVars
  <2> QED
      BY Zenon, <2>1, <2>2, ContentsKept
<1>5. Current'
  <2>1. Current /\ UNCHANGED <<started, epoch, turn, current_batch, upc, k>>
      BY Zenon DEF IInv, Fail, userVars
  <2> QED
      BY Zenon, <2>1, CurrentKept
<1> QED
    BY Zenon, <1>1, <1>2, <1>3, <1>4, <1>5 DEF IInv

\* ClearTaken preserves the inductive invariant.
LEMMA ClearTakenStep ==
    ASSUME IInv, NEW i \in It, ClearTaken(i)
    PROVE  IInv'
<1> USE PrefetchingIterAssumption
<1>1. TypeOK'
    BY Zenon, LoopIndex DEF IInv, TypeOK, Batch, None, ClearTaken, Follows, userVars, threadVars
<1> USE DEF It
<1>2. Handshake'
    BY Zenon DEF IInv, TypeOK, Handshake, Phases, ClearTaken, Follows, userVars, threadVars
<1>3. Phases'
    BY Zenon DEF IInv, TypeOK, Handshake, Phases, ClearTaken, Follows, userVars, threadVars
<1>4. Contents'
  <2>1. \A j \in It : Fetched(j)' <=> Fetched(j)
      BY Zenon DEF IInv, TypeOK, ClearTaken, Follows, Fetched
  <2>2. Contents /\ UNCHANGED <<started, epoch, turn, pos, next_batch, upc, k>>
      BY Zenon DEF IInv, ClearTaken, userVars
  <2> QED
      BY Zenon, <2>1, <2>2, ContentsKept
<1>5. Current'
  <2>1. Current /\ UNCHANGED <<started, epoch, turn, current_batch, upc, k>>
      BY Zenon DEF IInv, ClearTaken, userVars
  <2> QED
      BY Zenon, <2>1, CurrentKept
<1> QED
    BY Zenon, <1>1, <1>2, <1>3, <1>4, <1>5 DEF IInv

\* SetReady preserves the inductive invariant.
LEMMA SetReadyStep ==
    ASSUME IInv, NEW i \in It, SetReady(i)
    PROVE  IInv'
<1> USE PrefetchingIterAssumption
<1>1. TypeOK'
    BY Zenon, LoopIndex DEF IInv, TypeOK, Batch, None, SetReady, Follows, userVars, threadVars
<1> USE DEF It
<1>2. Handshake'
    BY Zenon DEF IInv, TypeOK, Handshake, Phases, SetReady, Follows, userVars, threadVars
<1>3. Phases'
    BY Zenon DEF IInv, TypeOK, Handshake, Phases, SetReady, Follows, userVars, threadVars
<1>4. Contents'
  <2>1. \A j \in It : Fetched(j)' <=> Fetched(j)
      BY Zenon DEF IInv, TypeOK, SetReady, Follows, Fetched
  <2>2. Contents /\ UNCHANGED <<started, epoch, turn, pos, next_batch, upc, k>>
      BY Zenon DEF IInv, SetReady, userVars
  <2> QED
      BY Zenon, <2>1, <2>2, ContentsKept
<1>5. Current'
  <2>1. Current /\ UNCHANGED <<started, epoch, turn, current_batch, upc, k>>
      BY Zenon DEF IInv, SetReady, userVars
  <2> QED
      BY Zenon, <2>1, CurrentKept
<1> QED
    BY Zenon, <1>1, <1>2, <1>3, <1>4, <1>5 DEF IInv

\* NextStops preserves the inductive invariant.
LEMMA NextStopsStep ==
    ASSUME IInv, NextStops
    PROVE  IInv'
<1> USE PrefetchingIterAssumption
<1>1. TypeOK'
    BY Zenon, LoopIndex DEF IInv, TypeOK, Batch, None, NextStops, NextReady, AllReady, userVars, threadVars
<1> USE DEF It
<1>2. Handshake'
    BY Zenon DEF IInv, TypeOK, Handshake, Phases, NextStops, NextReady, AllReady, userVars, threadVars
<1>3. Phases'
    BY Zenon DEF IInv, TypeOK, Handshake, Phases, NextStops, NextReady, AllReady, userVars, threadVars
<1>4. Contents'
    BY Zenon DEF IInv, TypeOK, Handshake, Phases, Contents, Fetched, None, NextStops, NextReady, AllReady, userVars, threadVars
<1>5. Current'
    BY SMTT(40), SMTT(40), SMTT(40) DEF IInv, TypeOK, Handshake, Phases, Contents, Current, Aligned, None, NextStops, NextReady, AllReady, userVars, threadVars
<1> QED
    BY Zenon, <1>1, <1>2, <1>3, <1>4, <1>5 DEF IInv

\* NextTakes preserves the inductive invariant.
LEMMA NextTakesStep ==
    ASSUME IInv, NextTakes
    PROVE  IInv'
<1> USE PrefetchingIterAssumption
<1>1. TypeOK'
    BY LoopIndex DEF IInv, TypeOK, Batch, None, NextTakes, NextReady, AllReady, Mismatch, userVars, threadVars
<1> USE DEF It
<1>2. Handshake'
    BY Zenon DEF IInv, TypeOK, Handshake, Phases, NextTakes, NextReady, AllReady, Mismatch, userVars, threadVars
<1>3. Phases'
    BY Zenon DEF IInv, TypeOK, Handshake, Phases, NextTakes, NextReady, AllReady, Mismatch, userVars, threadVars
<1>4. /\ started /\ upc # "resetting"
      /\ \A i \in It : Fetched(i)
    BY Zenon DEF IInv, TypeOK, Handshake, Fetched, NextTakes, NextReady, AllReady
<1>5. \A i \in It : next_batch[i] # None
    BY Zenon DEF NextTakes, Mismatch
<1>6. \A i \in It : turn <= Size[i] /\ next_batch[i] = <<epoch[i], turn>> /\ pos[i] = turn
    BY Zenon, <1>4, <1>5 DEF IInv, Contents
<1>7. \A i \in It : ~Fetched(i)'
    BY Zenon DEF IInv, TypeOK, Handshake, Fetched, NextTakes, NextReady, AllReady, threadVars
<1>8. Contents'
  <2>1. \A i \in It : pos'[i] = turn' - 1 /\ turn' <= Size[i] + 1 /\ turn' >= 1
    <3>1. turn' = turn + 1 /\ turn \in Nat /\ pos' = pos /\ \A i \in It : Size[i] \in Nat
        BY Zenon DEF IInv, TypeOK, NextTakes, threadVars
    <3>2. \A i \in It : turn <= Size[i] /\ pos[i] = turn
        BY Zenon, <1>6
    <3> QED
        BY SMTT(40), SMTT(40), SMTT(40), <3>1, <3>2
  <2> QED
      BY Zenon, <1>4, <1>7, <2>1 DEF IInv, TypeOK, Contents, NextTakes, threadVars
<1>9. Current'
  <2>1. \A i \in It : current_batch'[i] = <<epoch'[i], turn' - 1>> /\ turn' # 1
      BY SMTT(40), SMTT(40), SMTT(40), <1>4, <1>6 DEF IInv, TypeOK, Contents, NextTakes, threadVars
  <2>2. \A i, j \in It : epoch'[i] = epoch'[j]
      BY Zenon, <1>4 DEF IInv, Contents, NextTakes
  <2>3. \A i \in It : current_batch'[i][1] = epoch'[i] /\ epoch'[i] \in Nat
    <3>1. \A a, b : <<a, b>>[1] = a
        BY Zenon
    <3> QED
        BY SMTT(40), SMTT(40), SMTT(40), <2>1, <3>1 DEF IInv, TypeOK, NextTakes
  <2>4. Aligned'
      BY Zenon, <2>1, <2>2 DEF Aligned
  <2>5. upc' # "resetting"
      BY Zenon DEF NextTakes
  <2> QED
      BY SMTT(40), SMTT(40), SMTT(40), <2>1, <2>3, <2>4, <2>5 DEF Current
<1> QED
    BY Zenon, <1>1, <1>2, <1>3, <1>8, <1>9 DEF IInv

\* SetTaken preserves the inductive invariant.
LEMMA SetTakenStep ==
    ASSUME IInv, SetTaken
    PROVE  IInv'
<1> USE PrefetchingIterAssumption
<1>1. TypeOK'
  <2>1. k' \in It
      BY Zenon, LoopIndex DEF IInv, TypeOK, SetTaken
  <2>2. QED
      BY Zenon, <2>1 DEF IInv, TypeOK, Batch, None, SetTaken, userVars, threadVars
<1> USE DEF It
<1>0. /\ tpc[k] = "wait" /\ ~data_ready[k]
      /\ \A i \in It : i # k => data_taken'[i] = data_taken[i]
      /\ \A i \in It : tpc'[i] = tpc[i] /\ data_ready'[i] = data_ready[i]
    BY DEF IInv, TypeOK, Phases, SetTaken, threadVars
<1>2. Handshake'
  <2>1. started' <=> upc' \notin {"del", "join", "gone"}
      BY Zenon DEF IInv, Handshake, SetTaken
  <2>2. ASSUME started, NEW i \in It
        PROVE  /\ data_ready'[i] => tpc'[i] = "wait" /\ ~data_taken'[i]
               /\ tpc'[i] \in {"next", "clear"} => data_taken'[i]
               /\ tpc'[i] = "ready" => ~data_taken'[i]
      BY Zenon, <1>0, <2>2 DEF IInv, TypeOK, Handshake
  <2> QED
      BY <2>1, <2>2 DEF Handshake, SetTaken
<1>3. Phases'
  <2>1. upc' # "resetting"
      BY Zenon DEF SetTaken
  <2>2. ASSUME upc' = "set", NEW i \in It, i >= k'
        PROVE  i >= k /\ i # k
      BY <2>2 DEF IInv, TypeOK, SetTaken
  <2> QED
      BY Zenon, <1>0, <2>1, <2>2 DEF IInv, Phases, SetTaken
<1>4. Contents'
  <2>1. /\ Contents /\ UNCHANGED <<started, epoch, turn, pos, next_batch, data_ready, tpc>>
        /\ upc # "resetting" /\ upc' # "resetting"
      BY Zenon DEF IInv, SetTaken, threadVars
  <2>2. \A j \in It : Fetched(j)' <=> Fetched(j)
      BY Zenon, <2>1 DEF Fetched
  <2> QED
      BY Zenon, <2>1, <2>2, ContentsKept
<1>5. Current'
  <2>1. /\ Current /\ UNCHANGED <<started, epoch, turn, current_batch>>
        /\ upc # "resetting" /\ upc' # "resetting"
      BY Zenon DEF IInv, SetTaken
  <2> QED
      BY Zenon, <2>1, CurrentKept
<1> QED
    BY Zenon, <1>1, <1>2, <1>3, <1>4, <1>5 DEF IInv

\* ResetWaits preserves the inductive invariant.
LEMMA ResetWaitsStep ==
    ASSUME IInv, ResetWaits
    PROVE  IInv'
<1> USE PrefetchingIterAssumption
<1>1. TypeOK'
    BY Zenon, LoopIndex DEF IInv, TypeOK, Batch, None, ResetWaits, ResetReady, AllReady, userVars, threadVars
<1> USE DEF It
<1>2. Handshake'
    BY Zenon DEF IInv, TypeOK, Handshake, Phases, ResetWaits, ResetReady, AllReady, userVars, threadVars
<1>3. Phases'
    BY Zenon DEF IInv, TypeOK, Handshake, Phases, ResetWaits, ResetReady, AllReady, userVars, threadVars
<1>4. Contents'
    BY SMTT(40), SMTT(40), SMTT(40) DEF IInv, TypeOK, Handshake, Phases, Contents, Fetched, None, ResetWaits, ResetReady, AllReady, userVars, threadVars
<1>5. Current'
    BY DEF IInv, TypeOK, Handshake, Phases, Contents, Current, Aligned, None, ResetWaits, ResetReady, AllReady, userVars, threadVars
<1> QED
    BY Zenon, <1>1, <1>2, <1>3, <1>4, <1>5 DEF IInv

\* ResetOne preserves the inductive invariant.
LEMMA ResetOneStep ==
    ASSUME IInv, ResetOne
    PROVE  IInv'
<1> USE PrefetchingIterAssumption
<1>1. TypeOK'
  <2>1. k' \in It
      BY Zenon, LoopIndex DEF IInv, TypeOK, ResetOne
  <2>2. /\ epoch' \in [It -> Nat]
        /\ pos' \in [It -> Nat]
        /\ data_ready' \in [It -> BOOLEAN]
        /\ turn' \in Nat
    <3>1. epoch' \in [It -> Nat] /\ pos' \in [It -> Nat]
        BY DEF IInv, TypeOK, ResetOne
    <3>2. data_ready' \in [It -> BOOLEAN]
        BY Zenon DEF IInv, TypeOK, ResetOne
    <3>3. turn' \in Nat
        BY DEF IInv, TypeOK, ResetOne
    <3> QED
        BY Zenon, <3>1, <3>2, <3>3
  <2> QED
      BY Zenon, <2>1, <2>2 DEF IInv, TypeOK, ResetOne
<1> USE DEF It
<1>2. Handshake'
    BY Zenon DEF IInv, TypeOK, Handshake, Phases, ResetOne, userVars, threadVars
<1>3. Phases'
  <2>1. started /\ \A i \in It : data_ready[i]
      BY Zenon DEF IInv, Handshake, Phases, ResetOne
  <2>2. \A i \in It : tpc[i] = "wait" /\ ~data_taken[i]
      BY Zenon, <2>1 DEF IInv, Handshake
  <2>3. /\ upc' \in {"resetting", "set"} /\ tpc' = tpc /\ data_taken' = data_taken
        /\ upc' = "resetting" => data_ready' = data_ready
        /\ upc' = "set" => data_ready' = [i \in It |-> FALSE]
      BY Zenon DEF ResetOne
  <2> QED
      BY Zenon, <2>1, <2>2, <2>3 DEF Phases
<1>0. /\ started /\ started' /\ k \in It
      /\ \A i \in It : epoch[i] \in Nat
      /\ epoch'[k] = epoch[k] + 1 /\ pos'[k] = 0
      /\ \A i \in It : i # k => epoch'[i] = epoch[i] /\ pos'[i] = pos[i]
    BY Zenon DEF IInv, TypeOK, Handshake, ResetOne
<1>4. Contents'
  <2>1. \A i \in It : epoch'[i] >= 1
    <3>1. \A i \in It : epoch[i] >= 1
        BY Zenon DEF IInv, Contents
    <3>2. ASSUME NEW i \in It PROVE epoch'[i] >= 1
      <4>1. epoch[i] \in Nat /\ epoch[i] >= 1 /\ (epoch'[i] = epoch[i] \/ epoch'[i] = epoch[i] + 1)
          BY Zenon, <1>0, <3>1
      <4> QED
          BY SMTT(40), SMTT(40), SMTT(40), <4>1
    <3> QED
        BY Zenon, <3>2
  <2>2. CASE k < N
    <3>1. upc' = "resetting" /\ k' = k + 1
        BY Zenon, <2>2 DEF ResetOne
    <3>2. k \in Nat /\ k + 1 \in It /\ epoch[k] \in Nat
        BY SMTT(40), <1>0, <2>2
    <3>3. \A i \in It : /\ i \in Nat
                        /\ i < k => pos[i] = 0 /\ epoch[i] = epoch[k] + 1
                        /\ i >= k => epoch[i] = epoch[k]
        BY SMTT(40), SMTT(40), SMTT(40), <1>0 DEF IInv, Contents, ResetOne
    <3>4. epoch'[k + 1] = epoch[k]
        BY <1>0, <3>2, <3>3
    <3>5. \A i \in It : /\ i < k + 1 => pos'[i] = 0 /\ epoch'[i] = epoch'[k + 1] + 1
                        /\ i >= k + 1 => epoch'[i] = epoch'[k + 1]
      <4> SUFFICES ASSUME NEW i \in It
                   PROVE  /\ i < k + 1 => pos'[i] = 0 /\ epoch'[i] = epoch'[k + 1] + 1
                          /\ i >= k + 1 => epoch'[i] = epoch'[k + 1]
          BY Zenon
      <4>1. CASE i = k
          BY <1>0, <3>2, <3>4, <4>1
      <4>2. CASE i # k
        <5>1. pos'[i] = pos[i] /\ epoch'[i] = epoch[i] /\ i \in Nat
            BY SMTT(40), SMTT(40), SMTT(40), <1>0, <4>2
        <5>2. (i < k + 1 => i < k) /\ (i >= k + 1 => i >= k)
            BY <3>2, <4>2, <5>1
        <5> QED
            BY Zenon, <3>3, <3>4, <5>1, <5>2
      <4> QED
          BY Zenon, <4>1, <4>2
    <3> QED
        BY Zenon, <2>1, <3>1, <3>5 DEF Contents
  <2>3. CASE ~(k < N)
    <3>1. upc' = "set" /\ k' = 1 /\ k = N /\ turn' = 1
        BY <2>3 DEF IInv, TypeOK, ResetOne
    <3>2. \A i \in It : pos'[i] = 0 /\ epoch'[i] = epoch'[N]
        BY SMTT(40), SMTT(40), <1>0, <3>1 DEF IInv, TypeOK, Contents, ResetOne
    <3>3. \A i \in It : ~Fetched(i)'
        BY SMTT(40), SMTT(40), SMTT(40), <2>3 DEF IInv, TypeOK, Handshake, Phases, Fetched, ResetOne
    <3> QED
        BY SMTT(40), SMTT(40), SMTT(40), <2>1, <3>1, <3>2, <3>3 DEF Contents
  <2> QED
      BY Zenon, <2>2, <2>3
<1>5. Current'
  <2>0. current_batch' = current_batch
      BY Zenon DEF ResetOne
  <2>1. \A i \in It : current_batch[i][1] <= epoch'[i] /\ (i <= k => current_batch[i][1] < epoch'[i])
    <3>1. \A i \in It : current_batch[i][1] <= epoch[i] /\ (i < k => current_batch[i][1] < epoch[i])
        BY Zenon, <1>0 DEF IInv, Current, ResetOne
    <3>2. \A i \in It : current_batch[i][1] \in Nat
        BY Zenon DEF IInv, TypeOK, Batch
    <3>3. ASSUME NEW i \in It
          PROVE  current_batch[i][1] <= epoch'[i] /\ (i <= k => current_batch[i][1] < epoch'[i])
      <4>1. CASE i = k
          BY <1>0, <3>1, <3>2, <4>1
      <4>2. CASE i # k
        <5>1. epoch'[i] = epoch[i] /\ (i <= k => i < k)
            BY SMTT(40), SMTT(40), SMTT(40), <1>0, <4>2
        <5> QED
            BY Zenon, <3>1, <5>1
      <4> QED
          BY Zenon, <4>1, <4>2
    <3> QED
        BY Zenon, <3>3
  <2>2. CASE k < N
    <3>1. upc' = "resetting" /\ k' = k + 1
        BY Zenon, <2>2 DEF ResetOne
    <3> QED
        BY SMTT(40), SMTT(40), SMTT(40), <2>0, <2>1, <3>1 DEF IInv, TypeOK, Current, Aligned
  <2>3. CASE ~(k < N)
    <3>1. upc' = "set" /\ turn' = 1 /\ k = N
        BY <2>3 DEF IInv, TypeOK, ResetOne
    <3> QED
        BY SMTT(40), <2>0, <2>1, <3>1 DEF IInv, TypeOK, Current, Aligned
  <2> QED
      BY Zenon, <2>2, <2>3
<1> QED
    BY Zenon, <1>1, <1>2, <1>3, <1>4, <1>5 DEF IInv

\* DelSet preserves the inductive invariant.
LEMMA DelSetStep ==
    ASSUME IInv, DelSet
    PROVE  IInv'
<1> USE PrefetchingIterAssumption
<1>1. TypeOK'
  <2>1. k' \in It
      BY Zenon, LoopIndex DEF IInv, TypeOK, DelSet
  <2>2. QED
      BY Zenon, <2>1 DEF IInv, TypeOK, Batch, None, DelSet, Released, userVars, threadVars
<1> USE DEF It
<1>2. Handshake'
    BY Zenon DEF IInv, TypeOK, Handshake, Phases, DelSet, Released, userVars, threadVars
<1>3. Phases'
    BY Zenon DEF IInv, TypeOK, Handshake, Phases, DelSet, Released, userVars, threadVars
<1>4. Contents'
    BY Zenon DEF IInv, TypeOK, Handshake, Phases, Contents, Fetched, None, DelSet, Released, userVars, threadVars
<1>5. Current'
    BY Zenon DEF IInv, TypeOK, Handshake, Phases, Contents, Current, Aligned, None, DelSet, Released, userVars, threadVars
<1> QED
    BY Zenon, <1>1, <1>2, <1>3, <1>4, <1>5 DEF IInv

\* Join preserves the inductive invariant.
LEMMA JoinStep ==
    ASSUME IInv, Join
    PROVE  IInv'
<1> USE PrefetchingIterAssumption
<1>1. TypeOK'
    BY Zenon, LoopIndex DEF IInv, TypeOK, Batch, None, Join, userVars, threadVars
<1> USE DEF It
<1>2. Handshake'
    BY Zenon DEF IInv, TypeOK, Handshake, Phases, Join, userVars, threadVars
<1>3. Phases'
    BY Zenon DEF IInv, TypeOK, Handshake, Phases, Join, userVars, threadVars
<1>4. Contents'
    BY Zenon DEF IInv, TypeOK, Handshake, Phases, Contents, Fetched, None, Join, userVars, threadVars
<1>5. Current'
    BY Zenon DEF IInv, TypeOK, Handshake, Phases, Contents, Current, Aligned, None, Join, userVars, threadVars
<1> QED
    BY Zenon, <1>1, <1>2, <1>3, <1>4, <1>5 DEF IInv

\* Call preserves the inductive invariant.
LEMMA CallStep ==
    ASSUME IInv, NEW op \in {"next", "reset"}, Call(op)
    PROVE  IInv'
<1> USE PrefetchingIterAssumption
<1>1. TypeOK'
    BY Zenon, LoopIndex DEF IInv, TypeOK, Batch, None, Call, userVars, threadVars
<1> USE DEF It
<1>2. Handshake'
    BY Zenon DEF IInv, TypeOK, Handshake, Phases, Call, userVars, threadVars
<1>3. Phases'
    BY Zenon DEF IInv, TypeOK, Handshake, Phases, Call, userVars, threadVars
<1>4. Contents'
  <2>1. /\ Contents /\ UNCHANGED <<started, epoch, turn, pos, next_batch, data_ready, tpc>>
        /\ upc # "resetting" /\ upc' # "resetting"
      BY Zenon DEF IInv, Call, threadVars
  <2>2. \A j \in It : Fetched(j)' <=> Fetched(j)
      BY Zenon, <2>1 DEF Fetched
  <2> QED
      BY Zenon, <2>1, <2>2, ContentsKept
<1>5. Current'
  <2>1. /\ Current /\ UNCHANGED <<started, epoch, turn, current_batch>>
        /\ upc # "resetting" /\ upc' # "resetting"
      BY Zenon DEF IInv, Call
  <2> QED
      BY Zenon, <2>1, CurrentKept
<1> QED
    BY Zenon, <1>1, <1>2, <1>3, <1>4, <1>5 DEF IInv

\* Del preserves the inductive invariant.
LEMMA DelStep ==
    ASSUME IInv, Del
    PROVE  IInv'
<1> USE PrefetchingIterAssumption
<1>1. TypeOK'
    BY Zenon, LoopIndex DEF IInv, TypeOK, Batch, None, Del, userVars, threadVars
<1> USE DEF It
<1>2. Handshake'
    BY Zenon DEF IInv, TypeOK, Handshake, Phases, Del, userVars, threadVars
<1>3. Phases'
    BY Zenon DEF IInv, TypeOK, Handshake, Phases, Del, userVars, threadVars
<1>4. Contents'
    BY Zenon DEF IInv, TypeOK, Handshake, Phases, Contents, Fetched, None, Del, userVars, threadVars
<1>5. Current'
    BY DEF IInv, TypeOK, Handshake, Phases, Contents, Current, Aligned, None, Del, userVars, threadVars
<1> QED
    BY Zenon, <1>1, <1>2, <1>3, <1>4, <1>5 DEF IInv

\* Every step of the iterator preserves the inductive invariant.
LEMMA NextIInv == IInv /\ [Next]_vars => IInv'
<1> SUFFICES ASSUME IInv, [Next]_vars PROVE IInv'
    BY Zenon
<1>1. CASE UNCHANGED vars
    BY <1>1 DEF IInv, TypeOK, Handshake, Phases, Contents, Fetched, Current, Aligned, vars
<1>2. CASE \E i \in It : Thread(i) \/ Fail(i)
    BY Zenon, <1>2, WakeStep, FetchStep, FailStep, ClearTakenStep, SetReadyStep DEF Thread
<1>3. CASE InCall
    BY Zenon, <1>3, NextStopsStep, NextTakesStep, SetTakenStep, ResetWaitsStep, ResetOneStep,
       DelSetStep, JoinStep DEF InCall
<1>4. CASE \E op \in {"next", "reset"} : Call(op)
    BY Zenon, <1>4, CallStep
<1>5. CASE Del
    BY Zenon, <1>5, DelStep
<1> QED
    BY Zenon, <1>1, <1>2, <1>3, <1>4, <1>5 DEF Next

\* IInv is an invariant of the iterator.
THEOREM PrefetchingIterInvariance == Spec => []IInv
BY InitIInv, NextIInv, PTL DEF Spec

\* Every variable keeps its type, for every N, Size and number of resets.
THEOREM PrefetchingIterTyped == Spec => []TypeOK
<1>1. IInv => TypeOK
    BY Zenon DEF IInv
<1> QED
    BY PrefetchingIterInvariance, <1>1, PTL

\* reset() never runs while a prefetch thread is inside next() of a wrapped
\* iterator.
THEOREM ResetSafe == Spec => []NoOverlap
<1>1. IInv => NoOverlap
    BY Zenon DEF IInv, TypeOK, Handshake, Phases, NoOverlap
<1> QED
    BY PrefetchingIterInvariance, <1>1, PTL

\* A joined batch takes the same batch of the same epoch from every iterator.
THEOREM JoinsAligned == Spec => []Aligned
<1>1. IInv => Aligned
    BY Zenon DEF IInv, Current
<1> QED
    BY PrefetchingIterInvariance, <1>1, PTL

\* next() returns the batches of each epoch in sequence from the first.
THEOREM ReturnsInSequence == Spec => InSequence
<1> DEFINE Step == current_batch' # current_batch =>
        \A i \in It : current_batch'[i] =
            <<epoch[i], IF current_batch[i][1] = epoch[i] THEN current_batch[i][2] + 1 ELSE 1>>
<1>1. IInv /\ [Next]_vars => [Step]_vars
  <2> SUFFICES ASSUME IInv, [Next]_vars, current_batch' # current_batch PROVE Step
      BY Zenon DEF vars
  <2>1. NextTakes
      BY Zenon DEF Next, Thread, InCall, Wake, Fetch, Fail, ClearTaken, SetReady, NextStops,
         SetTaken, ResetWaits, ResetOne, DelSet, Join, Call, Del, vars, userVars, threadVars
  <2>2. \A i \in It : next_batch[i] = <<epoch[i], turn>>
      BY Zenon, <2>1, PrefetchingIterAssumption
         DEF IInv, TypeOK, Handshake, Contents, Fetched, NextTakes, NextReady, AllReady,
             Mismatch, It
  <2>3. \A i \in It : turn = (IF current_batch[i][1] = epoch[i] THEN current_batch[i][2] + 1 ELSE 1)
      BY <2>1 DEF IInv, TypeOK, Batch, Handshake, Contents, Current, NextTakes, It
  <2> QED
      BY Zenon, <2>1, <2>2, <2>3 DEF NextTakes
<1> QED
    BY PrefetchingIterInvariance, <1>1, PTL DEF Spec, InSequence

-----------------------------------------------------------------------------
(* Sequences.                                                              *)


\* A function on 1 .. n is a sequence of length n.
LEMMA FunctionSeq ==
    ASSUME NEW S, NEW n \in Nat, NEW f \in [1 .. n -> S]
    PROVE  f \in Seq(S) /\ Len(f) = n
OBVIOUS

\* The type and the length of a part of a sequence.
LEMMA PartType ==
    ASSUME NEW S, NEW q \in Seq(S), NEW a \in Nat, NEW b \in Nat, b <= Len(q)
    PROVE  /\ SubSeq(q, a + 1, b) \in Seq(S)
           /\ Len(SubSeq(q, a + 1, b)) = IF a <= b THEN b - a ELSE 0
           /\ a <= b => \A j \in 1 .. b - a : SubSeq(q, a + 1, b)[j] = q[a + j]
OBVIOUS

\* The same for a part at the start.
LEMMA HeadPart ==
    ASSUME NEW S, NEW q \in Seq(S), NEW b \in Nat, b <= Len(q)
    PROVE  SubSeq(q, 1, b) \in Seq(S) /\ Len(SubSeq(q, 1, b)) = b
OBVIOUS

\* Two sequences with the same length and elements are the same.
LEMMA SameSeq ==
    ASSUME NEW S, NEW p \in Seq(S), NEW q \in Seq(S), Len(p) = Len(q),
           \A j \in 1 .. Len(p) : p[j] = q[j]
    PROVE  p = q
OBVIOUS

\* Two adjacent parts of a sequence make up the part they span.
LEMMA PartsJoin ==
    ASSUME NEW S, NEW q \in Seq(S), NEW a \in Nat, NEW m \in Nat, NEW b \in Nat,
           a <= m, m <= b, b <= Len(q)
    PROVE  SubSeq(q, a + 1, m) \o SubSeq(q, m + 1, b) = SubSeq(q, a + 1, b)
<1> DEFINE u == SubSeq(q, a + 1, m)
           v == SubSeq(q, m + 1, b)
           w == SubSeq(q, a + 1, b)
<1>1. m <= Len(q) /\ a <= b /\ m - a \in Nat /\ b - m \in Nat
    OBVIOUS
<1>0. ASSUME NEW x \in Nat, NEW y \in Nat, x <= y, y <= Len(q), NEW z, z = SubSeq(q, x + 1, y)
      PROVE  z \in Seq(S) /\ Len(z) = y - x /\ \A j \in 1 .. y - x : z[j] = q[x + j]
    BY <1>0
<1>u. u = SubSeq(q, a + 1, m) /\ v = SubSeq(q, m + 1, b) /\ w = SubSeq(q, a + 1, b)
    BY Zenon
<1> HIDE DEF u, v, w
<1>2. /\ u \in Seq(S) /\ Len(u) = m - a /\ \A j \in 1 .. m - a : u[j] = q[a + j]
      /\ v \in Seq(S) /\ Len(v) = b - m /\ \A j \in 1 .. b - m : v[j] = q[m + j]
      /\ w \in Seq(S) /\ Len(w) = b - a /\ \A j \in 1 .. b - a : w[j] = q[a + j]
  <2>1. u \in Seq(S) /\ Len(u) = m - a /\ \A j \in 1 .. m - a : u[j] = q[a + j]
      BY <1>0, <1>1, <1>u
  <2>2. v \in Seq(S) /\ Len(v) = b - m /\ \A j \in 1 .. b - m : v[j] = q[m + j]
      BY <1>0, <1>1, <1>u
  <2>3. w \in Seq(S) /\ Len(w) = b - a /\ \A j \in 1 .. b - a : w[j] = q[a + j]
      BY <1>0, <1>1, <1>u
  <2> QED
      BY Zenon, <2>1, <2>2, <2>3
<1>3. ASSUME NEW x \in Seq(S), NEW y \in Seq(S)
      PROVE  /\ x \o y \in Seq(S) /\ Len(x \o y) = Len(x) + Len(y)
             /\ \A j \in 1 .. Len(x) : (x \o y)[j] = x[j]
             /\ \A j \in 1 .. Len(y) : (x \o y)[Len(x) + j] = y[j]
    OBVIOUS
<1> DEFINE c == u \o v
<1>4. /\ c \in Seq(S) /\ Len(c) = (m - a) + (b - m)
      /\ \A j \in 1 .. m - a : c[j] = u[j]
      /\ \A j \in 1 .. b - m : c[(m - a) + j] = v[j]
  <2>1. /\ c \in Seq(S) /\ Len(c) = Len(u) + Len(v)
        /\ \A j \in 1 .. Len(u) : c[j] = u[j]
        /\ \A j \in 1 .. Len(v) : c[Len(u) + j] = v[j]
      BY Zenon, <1>2, <1>3
  <2>2. Len(u) = m - a /\ Len(v) = b - m
      BY Zenon, <1>2
  <2> HIDE DEF c
  <2> QED
      BY <2>1, <2>2
<1> HIDE DEF c
<1>5. Len(c) = Len(w) /\ Len(c) = b - a
    BY <1>2, <1>4
<1>6. ASSUME NEW j \in 1 .. b - a PROVE c[j] = w[j]
  <2>1. CASE j <= m - a
    <3>1. j \in 1 .. m - a
        BY <2>1
    <3>2. c[j] = u[j] /\ u[j] = q[a + j] /\ w[j] = q[a + j]
        BY Zenon, <1>2, <1>4, <3>1
    <3> QED
        BY Zenon, <3>2
  <2>2. CASE ~(j <= m - a)
    <3>1. PICK i \in 1 .. b - m : j = (m - a) + i /\ m + i = a + j
      <4>1. j - (m - a) \in 1 .. b - m
          BY <2>2
      <4> QED
          BY <4>1
    <3>2. c[(m - a) + i] = v[i] /\ v[i] = q[m + i] /\ w[j] = q[a + j]
        BY Zenon, <1>2, <1>4
    <3> QED
        BY Zenon, <3>1, <3>2
  <2> QED
      BY Zenon, <2>1, <2>2
<1>7. c = w
    BY Zenon, <1>2, <1>4, <1>5, <1>6, SameSeq
<1> QED
    BY Zenon, <1>7 DEF c, u, v, w

\* The same at the start of the sequence.
LEMMA HeadParts ==
    ASSUME NEW S, NEW q \in Seq(S), NEW m \in Nat, NEW b \in Nat, m <= b, b <= Len(q)
    PROVE  SubSeq(q, 1, m) \o SubSeq(q, m + 1, b) = SubSeq(q, 1, b)
<1>1. SubSeq(q, 0 + 1, m) \o SubSeq(q, m + 1, b) = SubSeq(q, 0 + 1, b)
    BY PartsJoin
<1>2. 0 + 1 = 1
    OBVIOUS
<1> QED
    BY Zenon, <1>1, <1>2

\* The whole and the empty part of a sequence.
LEMMA WholePart ==
    ASSUME NEW S, NEW q \in Seq(S)
    PROVE  /\ SubSeq(q, 1, Len(q)) = q
           /\ SubSeq(q, 1, 0) = <<>>
           /\ SubSeq(q, Len(q) + 1, Len(q)) = <<>>
           /\ q \o <<>> = q
           /\ <<>> \o q = q
OBVIOUS

\* What two sequences put together are; the first one can be read back.
LEMMA ConcatFacts ==
    ASSUME NEW S, NEW p \in Seq(S), NEW q \in Seq(S)
    PROVE  /\ p \o q \in Seq(S)
           /\ Len(p \o q) = Len(p) + Len(q)
           /\ SubSeq(p \o q, 1, Len(p)) = p
OBVIOUS

\* Appending sequences is associative.
LEMMA ConcatAssoc == \A p, q, r \in Seq(Int) : (p \o q) \o r = p \o (q \o r)
BY SMTT(40), SMTT(40), SMTT(40)

\* What appending an element does.
LEMMA AppendFacts ==
    ASSUME NEW S, NEW q \in Seq(S), NEW e \in S
    PROVE  /\ Append(q, e) \in Seq(S)
           /\ Len(Append(q, e)) = Len(q) + 1
           /\ DOMAIN Append(q, e) = 1 .. Len(q) + 1
           /\ \A j \in 1 .. Len(q) : Append(q, e)[j] = q[j]
           /\ Append(q, e)[Len(q) + 1] = e
OBVIOUS

-----------------------------------------------------------------------------
(* NDArrayIter.                                                            *)

NDBatch == [data : Seq(Int), label : Seq(Int), pad : Int]

\* Label and data hold the rows of the same samples, in the arrays, in the two
\* caches and in every batch returned.
NDTyped ==
    /\ conf \in Confs
    /\ data \in [1 .. num_data -> 1 .. num_data]
    /\ label = data
    /\ cursor \in Int
    /\ cache_data \in Seq(Int)
    /\ cache_label = cache_data
    /\ stopped \in BOOLEAN
    /\ out \in Seq(NDBatch)
    /\ LabelsMatch
    /\ read \in Seq(Int)
    /\ drawn \in Seq(Int)
    /\ given \in Seq(Int)

\* Where the cursor can be.  Only 'roll_over' leaves it between two batches.
NDCursor ==
    IF last_batch_handle = "roll_over" THEN cursor > -(2 * batch_size)
    ELSE cursor = -batch_size \/ cursor >= 0

\* 'roll_over': the cursor tells how many rows the cache holds, after the batch
\* that fell short and after the reset that follows.
NDHeld ==
    last_batch_handle = "roll_over" =>
      /\ cursor < -batch_size =>
           cache_data \in Seq(Nat) /\ Len(cache_data) = -(cursor + batch_size)
      /\ num_data - batch_size < cursor /\ cursor < num_data =>
           cache_data \in Seq(Nat) /\ Len(cache_data) = num_data - cursor

\* What has been read of the data in the middle of an epoch.
ReadTo == IF cursor + batch_size <= num_data THEN cursor + batch_size ELSE num_data

OncePad ==
    IF stopped THEN read = data ELSE read = SubSeq(data, 1, ReadTo)

OnceDiscard ==
    IF stopped THEN read = SubSeq(data, 1, Len(read)) /\ num_data - Len(read) < batch_size
    ELSE cursor + batch_size <= num_data /\ read = SubSeq(data, 1, cursor + batch_size)

OnceRollOver ==
    IF stopped
    THEN /\ cursor > -batch_size
         /\ cursor < num_data => num_data - batch_size < cursor
         /\ drawn = given \o (IF cursor < num_data THEN cache_data ELSE <<>>)
    ELSE IF cursor < -batch_size THEN drawn = given \o (cache_data \o data)
    ELSE /\ cursor + batch_size <= num_data
         /\ drawn = given \o SubSeq(data, (cursor + batch_size) + 1, num_data)

\* With one reset after every epoch.
NDOnce ==
    Calls = "once" =>
      /\ last_batch_handle = "pad" => OncePad
      /\ last_batch_handle = "discard" => OnceDiscard
      /\ last_batch_handle = "roll_over" => OnceRollOver

NDInv == NDTyped /\ NDCursor /\ NDHeld /\ NDOnce

\* What the constructor's arguments are.
LEMMA ConfFacts ==
    ASSUME conf \in Confs
    PROVE  /\ num_data \in Nat /\ num_data > 0
           /\ batch_size \in Nat /\ batch_size > 0
           /\ last_batch_handle \in {"pad", "discard", "roll_over"}
           /\ Calls \in {"once", "any"}
           /\ last_batch_handle = "pad" => batch_size <= 2 * num_data
BY NDArrayIterAssumption DEF num_data, batch_size, last_batch_handle, Calls

\* A permutation of the rows is one of 1 .. num_data.
LEMMA PermutationType ==
    ASSUME conf \in Confs, NEW idx \in Permutation
    PROVE  idx \in [1 .. num_data -> 1 .. num_data]
BY Zenon, ConfFacts DEF Permutation, Identity

\* The batch at a cursor of 'roll_over' before row 0: the cached rows and the
\* first rows of the data.
LEMMA BatchRollsIn ==
    ASSUME conf \in Confs, NEW src \in [1 .. num_data -> 1 .. num_data],
           NEW cache \in Seq(Nat), NEW c \in Int, RollsIn(c), Len(cache) = -c
    PROVE  LET m == IF c + batch_size <= num_data THEN c + batch_size ELSE num_data
           IN  /\ Batchify(src, c, cache) = cache \o SubSeq(src, 1, m)
               /\ Batchify(src, c, cache) \in Seq(Nat)
               /\ Len(Batchify(src, c, cache)) = m - c
<1> /\ num_data \in Nat /\ num_data > 0
    /\ batch_size \in Nat /\ batch_size > 0
    /\ last_batch_handle = "pad" => batch_size <= 2 * num_data
    BY Zenon, ConfFacts
<1> DEFINE m == IF c + batch_size <= num_data THEN c + batch_size ELSE num_data
<1>1. src \in Seq(1 .. num_data) /\ Len(src) = num_data
    BY Zenon, FunctionSeq
<1>2. m \in Nat /\ m <= num_data
    BY DEF RollsIn
<1>3. Slice(src, 0, c + batch_size) = SubSeq(src, 1, m)
    BY SMTT(40), SMTT(40), SMTT(40), <1>1 DEF Slice, RollsIn
<1> HIDE DEF m
<1>4. SubSeq(src, 1, m) \in Seq(1 .. num_data) /\ Len(SubSeq(src, 1, m)) = m
    BY Zenon, <1>1, <1>2, HeadPart
<1>5. SubSeq(src, 1, m) \in Seq(Nat)
  <2>1. Seq(1 .. num_data) \subseteq Seq(Nat)
      OBVIOUS
  <2> QED
      BY Zenon, <1>4, <2>1
<1> DEFINE h == SubSeq(src, 1, m)
           d == cache \o h
<1>6. Batchify(src, c, cache) = d
    BY Zenon, <1>3 DEF Batchify
<1>7. h \in Seq(Nat) /\ Len(h) = m
    BY Zenon, <1>4, <1>5
<1> HIDE DEF h
<1>8. d \in Seq(Nat) /\ Len(d) = Len(cache) + Len(h)
    BY Zenon, <1>7, ConcatFacts
<1> HIDE DEF d
<1>9. Len(d) = m - c
    BY <1>2, <1>7, <1>8
<1> QED
    BY Zenon, <1>6, <1>8, <1>9 DEF m, h, d

\* The batch at a cursor of 'pad' whose rows run out: the rest of the data and
\* its first rows again.
LEMMA BatchPads ==
    ASSUME conf \in Confs, NEW src \in [1 .. num_data -> 1 .. num_data],
           NEW cache, NEW c \in Nat, c < num_data, Pads(c), c = 0 \/ c >= batch_size
    PROVE  /\ Batchify(src, c, cache) =
                SubSeq(src, c + 1, num_data) \o SubSeq(src, 1, batch_size - num_data + c)
           /\ Batchify(src, c, cache) \in Seq(Int)
           /\ Len(Batchify(src, c, cache)) = batch_size
           /\ SubSeq(Batchify(src, c, cache), 1, num_data - c) = SubSeq(src, c + 1, num_data)
<1> /\ num_data \in Nat /\ num_data > 0
    /\ batch_size \in Nat /\ batch_size > 0
    /\ last_batch_handle = "pad" => batch_size <= 2 * num_data
    BY Zenon, ConfFacts
<1> DEFINE m == batch_size - num_data + c
           l == SubSeq(src, c + 1, num_data)
           r == SubSeq(src, 1, m)
<1>1. src \in Seq(1 .. num_data) /\ Len(src) = num_data
    BY Zenon, FunctionSeq
<1>2. m \in Nat /\ m <= num_data /\ ~RollsIn(c)
    BY DEF Pads, RollsIn
<1>3. Slice(src, c, num_data) = l /\ Slice(src, 0, m) = r
    BY SMTT(40), SMTT(40), SMTT(40), <1>1, <1>2 DEF Slice
<1>4. l \in Seq(1 .. num_data) /\ Len(l) = num_data - c
    BY SMTT(40), SMTT(40), SMTT(40), <1>1, PartType
<1>5. r \in Seq(1 .. num_data) /\ Len(r) = m
    BY Zenon, <1>1, <1>2, HeadPart
<1>6. Batchify(src, c, cache) = l \o r
    BY Zenon, <1>2, <1>3 DEF Batchify
<1> HIDE DEF l, r
<1>7. /\ l \o r \in Seq(1 .. num_data)
      /\ Len(l \o r) = Len(l) + Len(r)
      /\ SubSeq(l \o r, 1, Len(l)) = l
    BY Zenon, <1>4, <1>5, ConcatFacts
<1> DEFINE d == l \o r
<1> HIDE DEF d
<1>8. d \in Seq(Int) /\ Len(d) = batch_size
  <2>1. d \in Seq(1 .. num_data) /\ Len(d) = Len(l) + Len(r)
      BY Zenon, <1>7 DEF d
  <2>2. Len(d) = batch_size
      BY <1>4, <1>5, <2>1
  <2>3. d \in Seq(Int)
      BY <2>1
  <2> QED
      BY Zenon, <2>2, <2>3
<1>9. SubSeq(l \o r, 1, num_data - c) = l
    BY Zenon, <1>4, <1>7
<1> QED
    BY Zenon, <1>6, <1>8, <1>9 DEF d, l, r, m

\* The batch anywhere else: the rows from the cursor on.
LEMMA BatchPlain ==
    ASSUME conf \in Confs, NEW src \in [1 .. num_data -> 1 .. num_data],
           NEW cache, NEW c \in Nat, c < num_data, ~Pads(c)
    PROVE  LET m == IF c + batch_size <= num_data THEN c + batch_size ELSE num_data
           IN  /\ Batchify(src, c, cache) = SubSeq(src, c + 1, m)
               /\ Batchify(src, c, cache) \in Seq(Nat)
               /\ Len(Batchify(src, c, cache)) = m - c
<1> /\ num_data \in Nat /\ num_data > 0
    /\ batch_size \in Nat /\ batch_size > 0
    /\ last_batch_handle = "pad" => batch_size <= 2 * num_data
    BY Zenon, ConfFacts
<1> DEFINE m == IF c + batch_size <= num_data THEN c + batch_size ELSE num_data
<1>1. src \in Seq(1 .. num_data) /\ Len(src) = num_data
    BY Zenon, FunctionSeq
<1>2. m \in Nat /\ c <= m /\ m <= num_data /\ ~RollsIn(c)
    BY DEF RollsIn
<1>3. Batchify(src, c, cache) = SubSeq(src, c + 1, m)
  <2>1. Batchify(src, c, cache) = Slice(src, c, c + batch_size)
      BY Zenon, <1>2 DEF Batchify
  <2>2. (IF c + batch_size < Len(src) THEN c + batch_size ELSE Len(src)) = m
      BY SMTT(40), SMTT(40), SMTT(40), <1>1
  <2> QED
      BY Zenon, <2>1, <2>2 DEF Slice
<1>4. /\ SubSeq(src, c + 1, m) \in Seq(1 .. num_data)
      /\ Len(SubSeq(src, c + 1, m)) = m - c
    BY Zenon, <1>1, <1>2, PartType
<1>5. SubSeq(src, c + 1, m) \in Seq(Nat)
    BY SMTT(40), SMTT(40), SMTT(40), <1>4
<1> QED
    BY Zenon, <1>3, <1>4, <1>5

\* That batch when there are rows enough.
LEMMA BatchWhole ==
    ASSUME conf \in Confs, NEW src \in [1 .. num_data -> 1 .. num_data],
           NEW cache, NEW c \in Nat, c + batch_size <= num_data
    PROVE  /\ Batchify(src, c, cache) = SubSeq(src, c + 1, c + batch_size)
           /\ Batchify(src, c, cache) \in Seq(Nat)
           /\ Len(Batchify(src, c, cache)) = batch_size
<1> num_data \in Nat /\ batch_size \in Nat /\ batch_size > 0
    BY Zenon, ConfFacts
<1> DEFINE m == IF c + batch_size <= num_data THEN c + batch_size ELSE num_data
<1>1. ~Pads(c) /\ c < num_data
    BY DEF Pads
<1>2. m = c + batch_size /\ m - c = batch_size
    OBVIOUS
<1> HIDE DEF m
<1>3. /\ Batchify(src, c, cache) = SubSeq(src, c + 1, m)
      /\ Batchify(src, c, cache) \in Seq(Nat)
      /\ Len(Batchify(src, c, cache)) = m - c
    BY Zenon, <1>1, BatchPlain DEF m
<1> QED
    BY Zenon, <1>2, <1>3

\* That batch when the rows run out.
LEMMA BatchShort ==
    ASSUME conf \in Confs, NEW src \in [1 .. num_data -> 1 .. num_data],
           NEW cache, NEW c \in Nat, c < num_data, c + batch_size > num_data,
           last_batch_handle # "pad"
    PROVE  /\ Batchify(src, c, cache) = SubSeq(src, c + 1, num_data)
           /\ Batchify(src, c, cache) \in Seq(Nat)
           /\ Len(Batchify(src, c, cache)) = num_data - c
<1> num_data \in Nat /\ batch_size \in Nat /\ batch_size > 0
    BY Zenon, ConfFacts
<1> DEFINE m == IF c + batch_size <= num_data THEN c + batch_size ELSE num_data
<1>1. ~Pads(c)
    BY Zenon DEF Pads
<1>2. m = num_data
    OBVIOUS
<1> HIDE DEF m
<1>3. /\ Batchify(src, c, cache) = SubSeq(src, c + 1, m)
      /\ Batchify(src, c, cache) \in Seq(Nat)
      /\ Len(Batchify(src, c, cache)) = m - c
    BY Zenon, <1>1, BatchPlain DEF m
<1> QED
    BY Zenon, <1>2, <1>3

\* The initial state satisfies the invariant.
LEMMA NDInitInv == NDInit => NDInv
<1> SUFFICES ASSUME NDInit PROVE NDInv
    BY Zenon
<1>1. conf \in Confs
    BY Zenon DEF NDInit
<1> /\ num_data \in Nat /\ num_data > 0
    /\ batch_size \in Nat /\ batch_size > 0
    BY Zenon, <1>1, ConfFacts
<1>2. PICK idx \in Permutation : data = idx /\ label = idx /\ drawn = idx
    BY Zenon DEF NDInit
<1>3. data \in [1 .. num_data -> 1 .. num_data]
    BY Zenon, <1>1, <1>2, PermutationType
<1>4. data \in Seq(1 .. num_data) /\ Len(data) = num_data
    BY Zenon, <1>3, FunctionSeq
<1>5. data \in Seq(Int)
    BY <1>4
<1>6. NDTyped
  <2>1. /\ cursor = -batch_size /\ cache_data = <<-1>> /\ cache_label = <<-1>>
        /\ stopped = FALSE /\ out = <<>> /\ read = <<>> /\ given = <<>>
      BY Zenon DEF NDInit, NoCache
  <2>2. cursor \in Int /\ <<-1>> \in Seq(Int)
      BY <2>1
  <2>3. read \in Seq(Int) /\ given \in Seq(Int)
      BY <2>1
  <2>4. /\ cache_data \in Seq(Int) /\ cache_label = cache_data
        /\ drawn \in Seq(Int) /\ label = data /\ stopped \in BOOLEAN
      BY Zenon, <1>2, <1>5, <2>1, <2>2
  <2>5. out \in Seq(NDBatch) /\ LabelsMatch
      BY <2>1 DEF LabelsMatch
  <2> QED
      BY Zenon, <1>1, <1>3, <2>2, <2>3, <2>4, <2>5 DEF NDTyped
<1>7. NDCursor /\ NDHeld
    BY DEF NDInit, NDCursor, NDHeld
<1>8. cursor = -batch_size /\ ~stopped /\ read = <<>> /\ given = <<>> /\ drawn = data
    BY Zenon, <1>2 DEF NDInit
<1>9. cursor + batch_size = 0
    BY <1>8
<1>10. SubSeq(data, 1, 0) = <<>> /\ SubSeq(data, 1, num_data) = data /\ <<>> \o data = data
    BY Zenon, <1>4, WholePart
<1>11. OncePad /\ OnceDiscard
    BY SMTT(40), <1>8, <1>9, <1>10 DEF OncePad, OnceDiscard, ReadTo
<1>12. OnceRollOver
    BY <1>8, <1>9, <1>10 DEF OnceRollOver
<1> QED
    BY Zenon, <1>6, <1>7, <1>11, <1>12 DEF NDInv, NDOnce

\* A step keeps the constructor's arguments.
LEMMA ConfKept ==
    ASSUME conf' = conf
    PROVE  /\ num_data' = num_data /\ batch_size' = batch_size
           /\ last_batch_handle' = last_batch_handle /\ Calls' = Calls
BY Zenon DEF num_data, batch_size, last_batch_handle, Calls

\* The rows of a batch, whichever way it is made up.
LEMMA BatchTyped ==
    ASSUME NDInv, NEW c \in Int, c = cursor + batch_size, c < num_data
    PROVE  Batchify(data, c, cache_data) \in Seq(Int)
<1>1. conf \in Confs /\ data \in [1 .. num_data -> 1 .. num_data] /\ cursor \in Int
    BY Zenon DEF NDInv, NDTyped
<1> /\ num_data \in Nat /\ num_data > 0
    /\ batch_size \in Nat /\ batch_size > 0
    BY Zenon, <1>1, ConfFacts
<1>2. CASE RollsIn(c)
  <2>1. cache_data \in Seq(Nat) /\ Len(cache_data) = -c
      BY <1>1, <1>2 DEF NDInv, NDHeld, RollsIn
  <2>2. Batchify(data, c, cache_data) \in Seq(Nat)
      BY Zenon, <1>1, <1>2, <2>1, BatchRollsIn
  <2> QED
      BY <2>2
<1>3. CASE ~RollsIn(c)
  <2>1. c \in Nat
      BY <1>1, <1>3 DEF NDInv, NDCursor, RollsIn
  <2>2. CASE Pads(c)
    <3>1. c = 0 \/ c >= batch_size
        BY <1>1, <2>2 DEF NDInv, NDCursor, Pads
    <3> QED
        BY Zenon, <1>1, <2>1, <2>2, <3>1, BatchPads
  <2>3. CASE ~Pads(c)
    <3>1. Batchify(data, c, cache_data) \in Seq(Nat)
        BY Zenon, <1>1, <2>1, <2>3, BatchPlain
    <3> QED
        BY <3>1
  <2> QED
      BY Zenon, <2>2, <2>3
<1> QED
    BY Zenon, <1>2, <1>3

\* next() keeps the types, and joins data and label alike.
LEMMA NextBatchTyped == NDInv /\ NextBatch => NDTyped'
<1> SUFFICES ASSUME NDInv, NextBatch PROVE NDTyped'
    BY Zenon
<1>1. NDTyped
    BY Zenon DEF NDInv
<1>2. conf \in Confs /\ cursor \in Int
    BY Zenon, <1>1 DEF NDTyped
<1> /\ num_data \in Nat /\ num_data > 0
    /\ batch_size \in Nat /\ batch_size > 0
    BY Zenon, <1>2, ConfFacts
<1> DEFINE c == cursor + batch_size
           d == Batchify(data, c, cache_data)
           complete == Len(d) = batch_size
           batch == [data |-> d, label |-> d, pad |-> GetPad(c)]
<1>3. Batchify(label, c, cache_label) = d
    BY Zenon, <1>1 DEF NDTyped
<1>4. /\ conf' = conf /\ data' = data /\ label' = label /\ drawn' = drawn
      /\ cursor' = c
      /\ stopped' = ~(c < num_data /\ complete)
    BY Zenon DEF NextBatch
<1>5. c \in Int /\ (c < num_data => d \in Seq(Int))
    BY <1>2, BatchTyped
<1>6. /\ c < num_data /\ ~complete => cache_data' = d /\ cache_label' = d
      /\ c < num_data /\ complete /\ RollsIn(c) => cache_data' = NoCache /\ cache_label' = NoCache
      /\ c < num_data /\ complete /\ ~RollsIn(c) =>
            cache_data' = cache_data /\ cache_label' = cache_label
      /\ ~(c < num_data) => cache_data' = cache_data /\ cache_label' = cache_label
    BY Zenon, <1>3 DEF NextBatch
<1>7. /\ c < num_data /\ complete =>
            /\ out' = Append(out, batch)
            /\ read' = read \o Unpadded(batch)
            /\ given' = given \o d
      /\ ~(c < num_data /\ complete) => out' = out /\ read' = read /\ given' = given
    BY Zenon, <1>3 DEF NextBatch
<1> HIDE DEF c, d
<1>8. cache_data' \in Seq(Int) /\ cache_label' = cache_data'
  <2>1. cache_data \in Seq(Int) /\ cache_label = cache_data
      BY Zenon, <1>1 DEF NDTyped
  <2>2. NoCache \in Seq(Int)
      BY DEF NoCache
  <2> QED
      BY Zenon, <1>5, <1>6, <2>1, <2>2
<1>9. c < num_data => GetPad(c) \in Nat /\ GetPad(c) <= batch_size
    BY <1>5 DEF GetPad, Pads, RollsIn
<1>10. c < num_data /\ complete => Unpadded(batch) \in Seq(Int)
  <2> SUFFICES ASSUME c < num_data, complete PROVE Unpadded(batch) \in Seq(Int)
      BY Zenon
  <2>1. Unpadded(batch) = SubSeq(d, 1, Len(d) - GetPad(c))
      BY Zenon DEF Unpadded
  <2>2. Len(d) - GetPad(c) \in Nat /\ Len(d) - GetPad(c) <= Len(d)
      BY <1>9
  <2> QED
      BY Zenon, <1>5, <2>1, <2>2, HeadPart
<1>11. read' \in Seq(Int) /\ given' \in Seq(Int)
  <2>1. read \in Seq(Int) /\ given \in Seq(Int)
      BY Zenon, <1>1 DEF NDTyped
  <2>2. CASE ~(c < num_data /\ complete)
      BY Zenon, <1>7, <2>1, <2>2
  <2>3. CASE c < num_data /\ complete
    <3>1. /\ read' = read \o Unpadded(batch) /\ Unpadded(batch) \in Seq(Int)
          /\ given' = given \o d /\ d \in Seq(Int)
        BY Zenon, <1>5, <1>7, <1>10, <2>3
    <3> QED
        BY Zenon, <2>1, <3>1, ConcatFacts
  <2> QED
      BY Zenon, <2>2, <2>3
<1>12. out' \in Seq(NDBatch) /\ LabelsMatch'
  <2>1. out \in Seq(NDBatch) /\ LabelsMatch
      BY Zenon, <1>1 DEF NDTyped
  <2>2. CASE ~(c < num_data /\ complete)
      BY Zenon, <1>7, <2>1, <2>2 DEF LabelsMatch
  <2>3. CASE c < num_data /\ complete
    <3>1. batch \in NDBatch /\ batch.data = batch.label
        BY <1>5, <1>9, <2>3 DEF NDBatch
    <3>2. out' = Append(out, batch)
        BY Zenon, <1>7, <2>3
    <3> HIDE DEF batch
    <3> DEFINE o == Append(out, batch)
    <3>3. /\ o \in Seq(NDBatch)
          /\ DOMAIN o = 1 .. Len(out) + 1
          /\ \A j \in 1 .. Len(out) : o[j] = out[j]
          /\ o[Len(out) + 1] = batch
        BY SMTT(40), <2>1, <3>1, AppendFacts
    <3> HIDE DEF o
    <3>4. /\ out' \in Seq(NDBatch)
          /\ DOMAIN out' = 1 .. Len(out) + 1
          /\ \A j \in 1 .. Len(out) : out'[j] = out[j]
          /\ out'[Len(out) + 1] = batch
        BY Zenon, <3>2, <3>3 DEF o
    <3>5. DOMAIN out = 1 .. Len(out) /\ Len(out) \in Nat
        BY <2>1
    <3>6. ASSUME NEW j \in 1 .. Len(out) + 1 PROVE j \in 1 .. Len(out) \/ j = Len(out) + 1
        BY <3>5
    <3>7. ASSUME NEW j \in DOMAIN out' PROVE out'[j].data = out'[j].label
        BY Zenon, <2>1, <3>1, <3>4, <3>5, <3>6 DEF LabelsMatch
    <3> QED
        BY Zenon, <3>4, <3>7 DEF LabelsMatch
  <2> QED
      BY Zenon, <2>2, <2>3
<1>13. /\ data' \in [1 .. num_data' -> 1 .. num_data'] /\ label' = data'
       /\ conf' \in Confs /\ cursor' \in Int /\ drawn' \in Seq(Int)
    BY Zenon, <1>1, <1>4, <1>5, ConfKept DEF NDTyped
<1>14. stopped' \in BOOLEAN
    BY Zenon, <1>4
<1> QED
    BY Zenon, <1>8, <1>11, <1>12, <1>13, <1>14 DEF NDTyped

\* next() moves the cursor by a batch, and caches a batch that falls short.
LEMMA NextBatchHeld == NDInv /\ NextBatch => NDCursor' /\ NDHeld'
<1> SUFFICES ASSUME NDInv, NextBatch PROVE NDCursor' /\ NDHeld'
    BY Zenon
<1>1. /\ conf \in Confs /\ data \in [1 .. num_data -> 1 .. num_data] /\ cursor \in Int
      /\ cache_data \in Seq(Int)
    BY Zenon DEF NDInv, NDTyped
<1> /\ num_data \in Nat /\ num_data > 0
    /\ batch_size \in Nat /\ batch_size > 0
    BY Zenon, <1>1, ConfFacts
<1> DEFINE c == cursor + batch_size
           d == Batchify(data, c, cache_data)
<1>2. conf' = conf /\ cursor' = c
    BY Zenon DEF NextBatch
<1>3. c < num_data /\ Len(d) # batch_size => cache_data' = d
    BY Zenon DEF NextBatch
<1>4. c \in Int
    BY <1>1
<1>5. NDCursor'
  <2>1. IF last_batch_handle = "roll_over" THEN c > -(2 * batch_size)
        ELSE c = -batch_size \/ c >= 0
      BY SMTT(40), SMTT(40), <1>1 DEF NDInv, NDCursor
  <2> QED
      BY Zenon, <1>2, <2>1, ConfKept DEF NDCursor
<1>6. last_batch_handle = "roll_over" => ~(c < -batch_size)
    BY <1>1 DEF NDInv, NDCursor
<1>7. ASSUME last_batch_handle = "roll_over", num_data - batch_size < c, c < num_data
      PROVE  cache_data' \in Seq(Nat) /\ Len(cache_data') = num_data - c
  <2>1. d \in Seq(Nat) /\ Len(d) = num_data - c
    <3>1. CASE c < 0
      <4>1. RollsIn(c) /\ cache_data \in Seq(Nat) /\ Len(cache_data) = -c
          BY <1>1, <1>7, <3>1 DEF NDInv, NDHeld, NDCursor, RollsIn
      <4> DEFINE m == IF c + batch_size <= num_data THEN c + batch_size ELSE num_data
      <4>2. m = num_data
          BY <1>4, <1>7
      <4> HIDE DEF m
      <4>3. d \in Seq(Nat) /\ Len(d) = m - c
          BY Zenon, <1>1, <1>4, <4>1, BatchRollsIn DEF m
      <4> QED
          BY Zenon, <4>2, <4>3
    <3>2. CASE c >= 0
      <4>1. c \in Nat /\ c + batch_size > num_data
          BY <1>4, <1>7, <3>2
      <4> QED
          BY Zenon, <1>1, <1>7, <4>1, BatchShort
    <3> QED
        BY <1>4, <3>1, <3>2
  <2>2. Len(d) # batch_size
      BY <1>4, <1>7, <2>1
  <2> QED
      BY Zenon, <1>3, <1>7, <2>1, <2>2
<1>8. NDHeld'
    BY Zenon, <1>2, <1>6, <1>7, ConfKept DEF NDHeld
<1> QED
    BY Zenon, <1>5, <1>8

\* 'pad' and 'discard': an epoch reads the data from the first row on.
LEMMA NextBatchReads ==
    ASSUME NDInv, NextBatch, Calls = "once"
    PROVE  /\ last_batch_handle = "pad" => OncePad'
           /\ last_batch_handle = "discard" => OnceDiscard'
<1>1. /\ conf \in Confs /\ data \in [1 .. num_data -> 1 .. num_data] /\ cursor \in Int
    BY Zenon DEF NDInv, NDTyped
<1> /\ num_data \in Nat /\ num_data > 0
    /\ batch_size \in Nat /\ batch_size > 0
    BY Zenon, <1>1, ConfFacts
<1> DEFINE c == cursor + batch_size
           d == Batchify(data, c, cache_data)
           complete == Len(d) = batch_size
           p == Len(d) - GetPad(c)
<1>2. /\ conf' = conf /\ cursor' = c /\ data' = data /\ ~stopped
      /\ stopped' = ~(c < num_data /\ complete)
    BY Zenon DEF NextBatch
<1>3. /\ c < num_data /\ complete => read' = read \o SubSeq(d, 1, p)
      /\ ~(c < num_data /\ complete) => read' = read
    BY Zenon DEF NextBatch, Unpadded
<1>4. data \in Seq(1 .. num_data) /\ Len(data) = num_data
    BY Zenon, <1>1, FunctionSeq
<1>5. c \in Int
    BY <1>1
<1> HIDE DEF c, d, p
<1>6. ASSUME last_batch_handle = "pad" PROVE OncePad'
  <2>1. c \in Nat /\ (c = 0 \/ c >= batch_size)
      BY <1>1, <1>6 DEF NDInv, NDCursor, c
  <2>2. read = SubSeq(data, 1, IF c <= num_data THEN c ELSE num_data)
      BY Zenon, <1>2, <1>6 DEF NDInv, NDOnce, OncePad, ReadTo, c
  <2>3. CASE c >= num_data
    <3>1. ~(c < num_data)
        BY <1>5, <2>3
    <3>2. read = data
        BY <1>4, <2>1, <2>2, <2>3, WholePart
    <3> QED
        BY Zenon, <1>2, <1>3, <3>1, <3>2 DEF OncePad
  <2>4. CASE c < num_data /\ Pads(c)
    <3>1. complete /\ SubSeq(d, 1, num_data - c) = SubSeq(data, c + 1, num_data)
        BY Zenon, <1>1, <2>1, <2>4, BatchPads DEF d
    <3>2. p = num_data - c /\ c <= num_data
        BY <2>1, <2>4, <3>1 DEF GetPad, p
    <3>3. read = SubSeq(data, 1, c)
        BY Zenon, <2>2, <3>2
    <3>4. read' = SubSeq(data, 1, c) \o SubSeq(data, c + 1, num_data)
        BY Zenon, <1>3, <2>4, <3>1, <3>2, <3>3
    <3>5. SubSeq(data, 1, c) \o SubSeq(data, c + 1, num_data) = SubSeq(data, 1, num_data)
        BY SMTT(40), SMTT(40), SMTT(40), <1>4, <2>1, <3>2, HeadParts
    <3>6. ReadTo' = num_data
        BY <1>2, <2>1, <2>4, ConfKept DEF ReadTo, Pads
    <3> QED
        BY Zenon, <1>2, <2>4, <3>1, <3>4, <3>5, <3>6 DEF OncePad
  <2>5. CASE c < num_data /\ ~Pads(c)
    <3>1. c + batch_size <= num_data /\ ~RollsIn(c)
        BY <1>6, <2>1, <2>5 DEF Pads, RollsIn
    <3>2. d = SubSeq(data, c + 1, c + batch_size) /\ d \in Seq(Nat) /\ Len(d) = batch_size
        BY Zenon, <1>1, <2>1, <3>1, BatchWhole DEF d
    <3>3. p = Len(d)
        BY <2>5, <3>1, <3>2 DEF GetPad, p
    <3>4. SubSeq(d, 1, p) = d
        BY Zenon, <3>2, <3>3, WholePart
    <3>5. read = SubSeq(data, 1, c)
        BY <2>1, <2>2, <2>5
    <3>6. read' = SubSeq(data, 1, c) \o SubSeq(data, c + 1, c + batch_size)
        BY Zenon, <1>3, <2>5, <3>2, <3>4, <3>5
    <3>7. /\ c <= c + batch_size /\ c + batch_size \in Nat
        BY <2>1
    <3>8. SubSeq(data, 1, c) \o SubSeq(data, c + 1, c + batch_size)
            = SubSeq(data, 1, c + batch_size)
        BY Zenon, <1>4, <2>1, <3>1, <3>7, HeadParts
    <3>9. ReadTo' = c + batch_size
        BY Zenon, <1>2, <2>1, <3>1, ConfKept DEF ReadTo
    <3> QED
        BY Zenon, <1>2, <2>5, <3>2, <3>6, <3>8, <3>9 DEF OncePad
  <2> QED
      BY SMTT(40), <1>5, <2>3, <2>4, <2>5
<1>7. ASSUME last_batch_handle = "discard" PROVE OnceDiscard'
  <2>1. c \in Nat
      BY <1>1, <1>7 DEF NDInv, NDCursor, c
  <2>2. c <= num_data /\ read = SubSeq(data, 1, c)
      BY Zenon, <1>2, <1>7 DEF NDInv, NDOnce, OnceDiscard, c
  <2>3. Len(read) = c
      BY Zenon, <1>4, <2>1, <2>2, HeadPart
  <2>4. CASE c >= num_data \/ c + batch_size > num_data
    <3>1. ~(c < num_data /\ complete)
      <4>1. SUFFICES ASSUME c < num_data PROVE Len(d) # batch_size
          BY Zenon
      <4>2. c + batch_size > num_data
          BY <2>1, <2>4, <4>1
      <4>3. Len(d) = num_data - c
          BY Zenon, <1>1, <1>7, <2>1, <4>1, <4>2, BatchShort DEF d
      <4> QED
          BY <2>1, <4>2, <4>3
    <3>2. stopped' /\ read' = read
        BY Zenon, <1>2, <1>3, <3>1
    <3>3. num_data - Len(read) < batch_size
        BY <2>1, <2>2, <2>3, <2>4
    <3> QED
        BY Zenon, <1>2, <2>2, <2>3, <3>2, <3>3, ConfKept DEF OnceDiscard
  <2>5. CASE c < num_data /\ c + batch_size <= num_data
    <3>1. c + batch_size <= num_data /\ ~RollsIn(c) /\ ~Pads(c)
        BY Zenon, <1>7, <2>5 DEF Pads, RollsIn
    <3>2. d = SubSeq(data, c + 1, c + batch_size) /\ d \in Seq(Nat) /\ Len(d) = batch_size
        BY Zenon, <1>1, <2>1, <3>1, BatchWhole DEF d
    <3>3. p = Len(d)
        BY <2>5, <3>1, <3>2 DEF GetPad, p
    <3>4. SubSeq(d, 1, p) = d
        BY Zenon, <3>2, <3>3, WholePart
    <3>5. read = SubSeq(data, 1, c)
        BY Zenon, <2>1, <2>2, <2>5
    <3>6. read' = SubSeq(data, 1, c) \o SubSeq(data, c + 1, c + batch_size)
        BY Zenon, <1>3, <2>5, <3>2, <3>4, <3>5
    <3>7. /\ c <= c + batch_size /\ c + batch_size \in Nat
        BY <2>1
    <3>8. SubSeq(data, 1, c) \o SubSeq(data, c + 1, c + batch_size)
            = SubSeq(data, 1, c + batch_size)
        BY Zenon, <1>4, <2>1, <3>1, <3>7, HeadParts
    <3>9. ~stopped' /\ cursor' + batch_size' <= num_data'
        BY Zenon, <1>2, <2>5, <3>2, ConfKept
    <3> QED
        BY Zenon, <1>2, <3>6, <3>8, <3>9, ConfKept DEF OnceDiscard
  <2> QED
      BY SMTT(40), <1>5, <2>4, <2>5
<1> QED
    BY Zenon, <1>6, <1>7

\* 'roll_over': every row drawn was returned, is cached or is still to be read.
LEMMA NextBatchRolls ==
    ASSUME NDInv, NextBatch, Calls = "once", last_batch_handle = "roll_over"
    PROVE  OnceRollOver'
<1>1. /\ conf \in Confs /\ data \in [1 .. num_data -> 1 .. num_data] /\ cursor \in Int
      /\ given \in Seq(Int)
    BY Zenon DEF NDInv, NDTyped
<1> /\ num_data \in Nat /\ num_data > 0
    /\ batch_size \in Nat /\ batch_size > 0
    BY Zenon, <1>1, ConfFacts
<1> DEFINE c == cursor + batch_size
           d == Batchify(data, c, cache_data)
           complete == Len(d) = batch_size
<1>2. /\ conf' = conf /\ cursor' = c /\ data' = data /\ drawn' = drawn /\ ~stopped
      /\ stopped' = ~(c < num_data /\ complete)
    BY Zenon DEF NextBatch
<1>3. /\ c < num_data /\ complete => given' = given \o d
      /\ ~(c < num_data /\ complete) => given' = given
      /\ c < num_data /\ ~complete => cache_data' = d
    BY Zenon DEF NextBatch
<1>4. data \in Seq(1 .. num_data) /\ Len(data) = num_data
    BY Zenon, <1>1, FunctionSeq
<1>5. data \in Seq(Int) /\ c \in Int /\ c > -batch_size
    BY <1>1, <1>4 DEF NDInv, NDCursor
<1>6. /\ c < 0 => drawn = given \o (cache_data \o data)
      /\ c >= 0 => c <= num_data /\ drawn = given \o SubSeq(data, c + 1, num_data)
  <2>1. OnceRollOver
      BY Zenon DEF NDInv, NDOnce
  <2>2. (c < 0 => cursor < -batch_size) /\ (c >= 0 => ~(cursor < -batch_size))
      BY <1>1
  <2> QED
      BY Zenon, <1>2, <2>1, <2>2 DEF OnceRollOver
<1>7. ~(c < -batch_size)
    BY <1>5
<1>8. c < 0 => RollsIn(c) /\ cache_data \in Seq(Nat) /\ Len(cache_data) = -c
    BY <1>1, <1>5 DEF NDInv, NDHeld, RollsIn
<1> HIDE DEF c, d
<1>9. CASE c >= num_data
  <2>1. c = num_data /\ ~(c < num_data) /\ c >= 0
      BY <1>5, <1>6, <1>9
  <2>2. SubSeq(data, num_data + 1, num_data) = <<>>
      BY Zenon, <1>4, WholePart
  <2>3. drawn = given \o <<>>
      BY Zenon, <1>6, <1>9, <2>1, <2>2
  <2>4. c > -batch_size
      BY Zenon, <1>5
  <2> QED
      BY Zenon, <1>2, <1>3, <2>1, <2>3, <2>4, ConfKept DEF OnceRollOver
<1>10. CASE c < num_data /\ c + batch_size > num_data
  <2>1. Len(d) = num_data - c /\ drawn = given \o d
    <3>1. CASE c < 0
      <4> DEFINE m == IF c + batch_size <= num_data THEN c + batch_size ELSE num_data
      <4>1. m = num_data
          BY <1>5, <1>10
      <4> HIDE DEF m
      <4>2. d = cache_data \o SubSeq(data, 1, m) /\ Len(d) = m - c
          BY Zenon, <1>1, <1>5, <1>8, <3>1, BatchRollsIn DEF d, m
      <4>3. SubSeq(data, 1, num_data) = data
          BY Zenon, <1>4, WholePart
      <4> QED
          BY Zenon, <1>6, <3>1, <4>1, <4>2, <4>3
    <3>2. CASE c >= 0
      <4>1. c \in Nat /\ last_batch_handle # "pad"
          BY <1>5, <3>2
      <4>2. d = SubSeq(data, c + 1, num_data) /\ Len(d) = num_data - c
          BY Zenon, <1>1, <1>10, <4>1, BatchShort DEF d
      <4> QED
          BY Zenon, <1>6, <3>2, <4>2
    <3> QED
        BY <1>5, <3>1, <3>2
  <2>2. ~complete /\ num_data - batch_size < c
      BY SMTT(40), <1>5, <1>10, <2>1
  <2>3. c > -batch_size
      BY Zenon, <1>5
  <2> QED
      BY Zenon, <1>2, <1>3, <1>10, <2>1, <2>2, <2>3, ConfKept DEF OnceRollOver
<1>11. CASE c + batch_size <= num_data
  <2> DEFINE t == SubSeq(data, (c + batch_size) + 1, num_data)
  <2>1. c + batch_size \in Nat /\ c < num_data
      BY <1>5, <1>11
  <2>2. t \in Seq(Int)
    <3>1. t \in Seq(1 .. num_data)
        BY SMTT(40), SMTT(40), SMTT(40), <1>4, <2>1, PartType
    <3> QED
        BY SMTT(40), SMTT(40), <3>1
  <2>3. complete /\ d \in Seq(Int) /\ drawn = given \o (d \o t)
    <3>1. CASE c < 0
      <4> DEFINE m == IF c + batch_size <= num_data THEN c + batch_size ELSE num_data
                 h == SubSeq(data, 1, c + batch_size)
      <4>1. m = c + batch_size /\ m - c = batch_size
          BY <1>5, <1>11
      <4> HIDE DEF m
      <4>2. d = cache_data \o SubSeq(data, 1, m) /\ Len(d) = m - c /\ d \in Seq(Nat)
          BY Zenon, <1>1, <1>5, <1>8, <3>1, BatchRollsIn DEF d, m
      <4>3. h \o t = SubSeq(data, 1, num_data)
        <5>1. c + batch_size <= num_data /\ num_data <= Len(data)
            BY SMTT(40), SMTT(40), <1>4, <1>11
        <5> QED
            BY Zenon, <1>4, <2>1, <5>1, HeadParts
      <4>4. SubSeq(data, 1, num_data) = data
          BY Zenon, <1>4, WholePart
      <4>5. h \in Seq(Int) /\ cache_data \in Seq(Int)
        <5>1. h \in Seq(1 .. num_data)
            BY Zenon, <1>4, <1>11, <2>1, HeadPart
        <5>2. cache_data \in Seq(Nat)
            BY Zenon, <1>8, <3>1
        <5> QED
            BY <5>1, <5>2
      <4> HIDE DEF h, t
      <4>6. (cache_data \o h) \o t = cache_data \o (h \o t)
          BY Zenon, <2>2, <4>5, ConcatAssoc
      <4>7. d = cache_data \o h
          BY Zenon, <4>1, <4>2 DEF h
      <4>8. d \in Seq(Int)
          BY SMTT(40), <4>2
      <4> QED
          BY Zenon, <1>6, <3>1, <4>1, <4>2, <4>3, <4>4, <4>6, <4>7, <4>8
    <3>2. CASE c >= 0
      <4>1. c \in Nat
          BY <1>5, <3>2
      <4>2. d = SubSeq(data, c + 1, c + batch_size) /\ d \in Seq(Nat) /\ Len(d) = batch_size
          BY Zenon, <1>1, <1>11, <4>1, BatchWhole DEF d
      <4>3. SubSeq(data, c + 1, c + batch_size) \o t = SubSeq(data, c + 1, num_data)
        <5>1. c <= c + batch_size
            BY <4>1
        <5> QED
            BY SMTT(40), SMTT(40), SMTT(40), <1>4, <1>11, <2>1, <4>1, <5>1, PartsJoin
      <4>4. d \in Seq(Int)
          BY <4>2
      <4> HIDE DEF t
      <4> QED
          BY Zenon, <1>6, <3>2, <4>2, <4>3, <4>4
    <3> QED
        BY SMTT(40), SMTT(40), SMTT(40), <1>5, <3>1, <3>2
  <2> HIDE DEF t
  <2>4. (given \o d) \o t = given \o (d \o t)
      BY Zenon, <1>1, <2>2, <2>3, ConcatAssoc
  <2>5. drawn' = given' \o t
      BY Zenon, <1>2, <1>3, <2>1, <2>3, <2>4
  <2>6. ~stopped' /\ ~(cursor' < -(batch_size')) /\ cursor' + batch_size' <= num_data'
      BY Zenon, <1>2, <1>7, <1>11, <2>1, <2>3, ConfKept
  <2> QED
      BY Zenon, <1>2, <2>5, <2>6, ConfKept DEF OnceRollOver, t
<1> QED
    BY <1>5, <1>9, <1>10, <1>11

\* What reset and hard_reset do to the data: data and label are permuted alike.
LEMMA RestartFacts ==
    ASSUME NDInv, Restart
    PROVE  /\ conf' = conf /\ given' = given /\ read' = <<>> /\ out' = <<>> /\ ~stopped'
           /\ stopped' \in BOOLEAN
           /\ data' \in [1 .. num_data -> 1 .. num_data]
           /\ data' \in Seq(Int) /\ Len(data') = num_data
           /\ label' = data'
           /\ drawn' \in Seq(Int)
           /\ cursor > -batch_size => drawn' = drawn \o data'
           /\ stopped \/ Calls = "any"
<1>1. /\ conf \in Confs /\ data \in [1 .. num_data -> 1 .. num_data] /\ label = data
      /\ drawn \in Seq(Int) /\ cursor \in Int
    BY Zenon DEF NDInv, NDTyped
<1> /\ num_data \in Nat /\ num_data > 0
    /\ batch_size \in Nat /\ batch_size > 0
    BY Zenon, <1>1, ConfFacts
<1>2. /\ conf' = conf /\ given' = given /\ read' = <<>> /\ out' = <<>> /\ stopped' = FALSE
      /\ stopped \/ Calls = "any"
    BY Zenon DEF Restart
<1>3. PICK idx \in Permutation :
        /\ data' = Permute(data, idx)
        /\ label' = Permute(label, LabelIndex(idx))
        /\ drawn' = (IF Unread THEN SubSeq(drawn, 1, Len(drawn) - num_data) ELSE drawn)
                       \o Permute(data, idx)
    BY Zenon DEF Restart
<1>4. idx \in [1 .. num_data -> 1 .. num_data]
    BY Zenon, <1>1, PermutationType
<1>5. data' \in [1 .. num_data -> 1 .. num_data]
    BY Zenon, <1>1, <1>3, <1>4 DEF Permute
<1>6. data' \in Seq(1 .. num_data) /\ Len(data') = num_data
    BY Zenon, <1>5, FunctionSeq
<1>7. data' \in Seq(Int)
    BY <1>6
<1>8. label' = data'
    BY Zenon, <1>1, <1>3 DEF LabelIndex
<1>9. SubSeq(drawn, 1, Len(drawn) - num_data) \in Seq(Int)
    BY <1>1
<1>10. drawn' \in Seq(Int)
  <2>1. CASE Unread
      BY Zenon, <1>3, <1>7, <1>9, <2>1, ConcatFacts
  <2>2. CASE ~Unread
      BY Zenon, <1>1, <1>3, <1>7, <2>2, ConcatFacts
  <2> QED
      BY Zenon, <2>1, <2>2
<1>11. cursor > -batch_size => ~Unread
    BY <1>1 DEF Unread
<1> QED
    BY Zenon, <1>2, <1>3, <1>5, <1>6, <1>7, <1>8, <1>10, <1>11

\* reset() keeps the invariant: after an incomplete batch the cursor goes back by
\* as many rows as are cached.
LEMMA NDResetInv == NDInv /\ NDReset => NDInv'
<1> SUFFICES ASSUME NDInv, NDReset PROVE NDInv'
    BY Zenon
<1>1. Restart /\ cursor' = ResetCursor /\ cache_data' = cache_data /\ cache_label' = cache_label
    BY Zenon DEF NDReset
<1>2. /\ conf \in Confs /\ cursor \in Int /\ given \in Seq(Int) /\ cache_data \in Seq(Int)
      /\ cache_label = cache_data
    BY Zenon DEF NDInv, NDTyped
<1> /\ num_data \in Nat /\ num_data > 0
    /\ batch_size \in Nat /\ batch_size > 0
    BY Zenon, <1>2, ConfFacts
<1>3. /\ conf' = conf /\ given' = given /\ read' = <<>> /\ out' = <<>> /\ ~stopped'
      /\ stopped' \in BOOLEAN
      /\ data' \in [1 .. num_data -> 1 .. num_data]
      /\ data' \in Seq(Int) /\ Len(data') = num_data
      /\ label' = data'
      /\ drawn' \in Seq(Int)
      /\ cursor > -batch_size => drawn' = drawn \o data'
      /\ stopped \/ Calls = "any"
    BY Zenon, <1>1, RestartFacts
<1> DEFINE rolls == /\ last_batch_handle = "roll_over"
                    /\ num_data - batch_size < cursor /\ cursor < num_data
<1>4. /\ rolls => cursor' = cursor - num_data - batch_size
      /\ ~rolls => cursor' = -batch_size
    BY Zenon, <1>1 DEF ResetCursor
<1>5. NDTyped'
  <2>1. out' \in Seq(NDBatch) /\ LabelsMatch'
      BY SMTT(40), SMTT(40), <1>3 DEF LabelsMatch
  <2>2. cursor' \in Int /\ read' \in Seq(Int)
      BY SMTT(40), SMTT(40), SMTT(40), <1>2, <1>3, <1>4
  <2> QED
      BY Zenon, <1>1, <1>2, <1>3, <2>1, <2>2, ConfKept DEF NDTyped
<1>6. NDCursor'
  <2>1. IF last_batch_handle = "roll_over" THEN cursor' > -(2 * batch_size)
        ELSE cursor' = -batch_size \/ cursor' >= 0
      BY <1>2, <1>4
  <2> QED
      BY Zenon, <1>3, <2>1, ConfKept DEF NDCursor
<1>7. NDHeld'
  <2>1. ~(num_data - batch_size < cursor')
      BY <1>2, <1>4
  <2>2. ASSUME last_batch_handle = "roll_over", cursor' < -batch_size
        PROVE  cache_data' \in Seq(Nat) /\ Len(cache_data') = -(cursor' + batch_size)
    <3>1. rolls
        BY <1>4, <2>2
    <3>2. cache_data \in Seq(Nat) /\ Len(cache_data) = num_data - cursor
        BY Zenon, <3>1 DEF NDInv, NDHeld
    <3>3. num_data - cursor = -(cursor' + batch_size)
        BY <1>2, <1>4, <3>1
    <3> QED
        BY Zenon, <1>1, <3>2, <3>3
  <2> QED
      BY Zenon, <1>3, <2>1, <2>2, ConfKept DEF NDHeld
<1>8. NDOnce'
  <2> SUFFICES ASSUME Calls = "once"
               PROVE  /\ last_batch_handle = "pad" => OncePad'
                      /\ last_batch_handle = "discard" => OnceDiscard'
                      /\ last_batch_handle = "roll_over" => OnceRollOver'
      BY Zenon, <1>3, ConfKept DEF NDOnce
  <2>1. SubSeq(data', 1, 0) = <<>> /\ SubSeq(data', 1, num_data) = data'
      BY Zenon, <1>3, WholePart
  <2>2. ~rolls => cursor' + batch_size = 0
      BY <1>4
  <2>3. ASSUME last_batch_handle = "pad" PROVE OncePad'
    <3>1. ReadTo' = 0
        BY <1>3, <2>2, <2>3, ConfKept DEF ReadTo
    <3> QED
        BY Zenon, <1>3, <2>1, <3>1 DEF OncePad
  <2>4. ASSUME last_batch_handle = "discard" PROVE OnceDiscard'
    <3>1. ~rolls /\ 0 <= num_data
        BY <2>4
    <3> QED
        BY Zenon, <1>3, <2>1, <2>2, <3>1, ConfKept DEF OnceDiscard
  <2>5. ASSUME last_batch_handle = "roll_over" PROVE OnceRollOver'
    <3>1. stopped
        BY Zenon, <1>3
    <3>2. /\ cursor > -batch_size
          /\ cursor < num_data => num_data - batch_size < cursor
          /\ drawn = given \o (IF cursor < num_data THEN cache_data ELSE <<>>)
        BY Zenon, <2>5, <3>1 DEF NDInv, NDOnce, OnceRollOver
    <3>3. drawn' = drawn \o data'
        BY Zenon, <1>3, <3>2
    <3>4. CASE rolls
      <4>1. cursor' < -batch_size
          BY SMTT(40), <1>2, <1>4, <3>4
      <4>2. drawn = given \o cache_data
          BY Zenon, <3>2, <3>4
      <4>3. (given \o cache_data) \o data' = given \o (cache_data \o data')
          BY Zenon, <1>2, <1>3, ConcatAssoc
      <4>4. drawn' = given' \o (cache_data' \o data')
          BY Zenon, <1>1, <1>3, <3>3, <4>2, <4>3
      <4> QED
          BY Zenon, <1>3, <4>1, <4>4, ConfKept DEF OnceRollOver
    <3>5. CASE ~rolls
      <4>1. ~(cursor < num_data)
          BY Zenon, <1>2, <2>5, <3>2, <3>5
      <4>2. given \o <<>> = given
          BY Zenon, <1>2, WholePart
      <4>3. drawn' = given' \o data'
          BY Zenon, <1>3, <3>2, <3>3, <4>1, <4>2
      <4>4. cursor' + batch_size = 0 /\ ~(cursor' < -batch_size) /\ 0 <= num_data /\ 0 + 1 = 1
          BY SMTT(40), SMTT(40), SMTT(40), <1>4, <3>5
      <4> QED
          BY Zenon, <1>3, <2>1, <4>3, <4>4, ConfKept DEF OnceRollOver
    <3> QED
        BY Zenon, <3>4, <3>5
  <2> QED
      BY Zenon, <2>3, <2>4, <2>5
<1> QED
    BY Zenon, <1>5, <1>6, <1>7, <1>8 DEF NDInv

\* hard_reset() keeps the invariant: it drops the cache and starts at row 0.
LEMMA HardResetInv == NDInv /\ HardReset => NDInv'
<1> SUFFICES ASSUME NDInv, HardReset PROVE NDInv'
    BY Zenon
<1>1. /\ Restart /\ cursor' = -batch_size /\ cache_data' = <<-1>> /\ cache_label' = <<-1>>
      /\ Calls = "any"
    BY Zenon DEF HardReset, NoCache
<1>2. conf \in Confs /\ given \in Seq(Int)
    BY Zenon DEF NDInv, NDTyped
<1> /\ num_data \in Nat /\ num_data > 0
    /\ batch_size \in Nat /\ batch_size > 0
    BY Zenon, <1>2, ConfFacts
<1>3. /\ conf' = conf /\ given' = given /\ read' = <<>> /\ out' = <<>>
      /\ stopped' \in BOOLEAN
      /\ data' \in [1 .. num_data -> 1 .. num_data]
      /\ label' = data'
      /\ drawn' \in Seq(Int)
    BY Zenon, <1>1, RestartFacts
<1>4. NDTyped'
  <2>1. out' \in Seq(NDBatch) /\ LabelsMatch'
      BY SMTT(40), <1>3 DEF LabelsMatch
  <2>2. cursor' \in Int /\ read' \in Seq(Int) /\ <<-1>> \in Seq(Int)
      BY <1>1, <1>3
  <2> QED
      BY Zenon, <1>1, <1>2, <1>3, <2>1, <2>2, ConfKept DEF NDTyped
<1>5. NDCursor'
  <2>1. cursor' > -(2 * batch_size) /\ cursor' = -batch_size
      BY <1>1
  <2> QED
      BY Zenon, <1>3, <2>1, ConfKept DEF NDCursor
<1>6. NDHeld'
  <2>1. ~(num_data - batch_size < cursor') /\ ~(cursor' < -batch_size)
      BY <1>1
  <2> QED
      BY Zenon, <1>3, <2>1, ConfKept DEF NDHeld
<1>7. NDOnce'
  <2>1. Calls' # "once"
      BY Zenon, <1>1, <1>3, ConfKept
  <2> QED
      BY Zenon, <2>1 DEF NDOnce
<1> QED
    BY Zenon, <1>4, <1>5, <1>6, <1>7 DEF NDInv

\* Every step keeps the invariant.
LEMMA NDNextInv == NDInv /\ [NDNext]_ndVars => NDInv'
<1> SUFFICES ASSUME NDInv, [NDNext]_ndVars PROVE NDInv'
    BY Zenon
<1>1. CASE NextBatch
  <2>1. NDTyped' /\ NDCursor' /\ NDHeld'
      BY Zenon, <1>1, NextBatchTyped, NextBatchHeld
  <2>2. conf' = conf
      BY Zenon, <1>1 DEF NextBatch
  <2>3. NDOnce'
      BY Zenon, <1>1, <2>2, NextBatchReads, NextBatchRolls, ConfKept DEF NDOnce
  <2> QED
      BY Zenon, <2>1, <2>3 DEF NDInv
<1>2. CASE NDReset
    BY Zenon, <1>2, NDResetInv
<1>3. CASE HardReset
    BY Zenon, <1>3, HardResetInv
<1>4. CASE UNCHANGED ndVars
  <2>1. /\ conf' = conf /\ data' = data /\ label' = label /\ cursor' = cursor
        /\ cache_data' = cache_data /\ cache_label' = cache_label /\ stopped' = stopped
        /\ out' = out /\ read' = read /\ drawn' = drawn /\ given' = given
      BY Zenon, <1>4 DEF ndVars
  <2>2. num_data' = num_data /\ batch_size' = batch_size
        /\ last_batch_handle' = last_batch_handle /\ Calls' = Calls
      BY Zenon, <2>1, ConfKept
  <2>3. NDTyped'
      BY Zenon, <2>1, <2>2 DEF NDInv, NDTyped, LabelsMatch
  <2>4. NDCursor' /\ NDHeld'
      BY Zenon, <2>1, <2>2 DEF NDInv, NDCursor, NDHeld
  <2>5. NDOnce'
      BY Zenon, <2>1, <2>2 DEF NDInv, NDOnce, OncePad, OnceDiscard, OnceRollOver, ReadTo
  <2> QED
      BY Zenon, <2>3, <2>4, <2>5 DEF NDInv
<1> QED
    BY Zenon, <1>1, <1>2, <1>3, <1>4 DEF NDNext

\* The invariant gives what NothingLost states.
LEMMA NDInvLost == NDInv => NothingLost
<1> SUFFICES ASSUME NDInv PROVE NothingLost
    BY Zenon
<1>1. conf \in Confs /\ cursor \in Int /\ cache_label = cache_data
    BY Zenon DEF NDInv, NDTyped
<1> /\ num_data \in Nat /\ num_data > 0
    /\ batch_size \in Nat /\ batch_size > 0
    BY Zenon, <1>1, ConfFacts
<1>2. ASSUME RollsIn(cursor + batch_size)
      PROVE  /\ cache_data # NoCache /\ cache_label # NoCache
             /\ Len(cache_data) = -(cursor + batch_size)
  <2>1. /\ cache_data \in Seq(Nat) /\ Len(cache_data) = -(cursor + batch_size)
        /\ -(cursor + batch_size) > 0
      BY SMTT(40), <1>1, <1>2 DEF NDInv, NDHeld, RollsIn
  <2>2. cache_data[1] \in Nat
      BY SMTT(40), <1>1, <2>1
  <2>3. cache_data # <<-1>>
      BY <2>2
  <2> QED
      BY Zenon, <1>1, <2>1, <2>3 DEF NoCache
<1>3. ASSUME stopped, Calls = "once", last_batch_handle = "pad" PROVE read = data
    BY Zenon, <1>3 DEF NDInv, NDOnce, OncePad
<1>4. ASSUME stopped, Calls = "once", last_batch_handle = "discard"
      PROVE  read = SubSeq(data, 1, Len(read)) /\ num_data - Len(read) < batch_size
    BY Zenon, <1>4 DEF NDInv, NDOnce, OnceDiscard
<1>5. ASSUME stopped, Calls = "once", last_batch_handle = "roll_over"
      PROVE  drawn = given \o (IF cursor < num_data THEN cache_data ELSE <<>>)
    BY Zenon, <1>5 DEF NDInv, NDOnce, OnceRollOver
<1>6. last_batch_handle \in {"pad", "discard", "roll_over"}
    BY Zenon, <1>1, ConfFacts
<1>7. ASSUME stopped, Calls = "once"
      PROVE  CASE last_batch_handle = "pad" -> read = data
               [] last_batch_handle = "discard" ->
                    /\ read = SubSeq(data, 1, Len(read))
                    /\ num_data - Len(read) < batch_size
               [] last_batch_handle = "roll_over" ->
                    drawn = given \o (IF cursor < num_data THEN cache_data ELSE <<>>)
  <2>1. CASE last_batch_handle = "pad"
      BY Zenon, <1>3, <1>7, <2>1
  <2>2. CASE last_batch_handle = "discard"
      BY Zenon, <1>4, <1>7, <2>2
  <2>3. CASE last_batch_handle = "roll_over"
      BY Zenon, <1>5, <1>7, <2>3
  <2> QED
      BY Zenon, <1>6, <2>1, <2>2, <2>3
<1> QED
    BY Zenon, <1>2, <1>7 DEF NothingLost

\* The invariant of NDArrayIter, for every size of the data and of a batch, every
\* way of handling the last batch and every order of calls.
THEOREM NDArrayIterInvariance == NDSpec => []NDInv
<1>1. NDInit => NDInv
    BY Zenon, NDInitInv
<1>2. NDInv /\ [NDNext]_ndVars => NDInv'
    BY Zenon, NDNextInv
<1> QED
    BY <1>1, <1>2, PTL DEF NDSpec

\* A batch's labels belong to its data: getdata and getlabel join cached rows with
\* rows of arrays that were permuted alike.
THEOREM BatchesMatchLabels == NDSpec => []LabelsMatch
<1>1. NDInv => LabelsMatch
    BY Zenon DEF NDInv, NDTyped
<1> QED
    BY <1>1, NDArrayIterInvariance, PTL

\* No row is lost or returned twice by pad, discard or roll_over, and the cursor
\* always tells how many rows are cached.
THEOREM NoRowLost == NDSpec => []NothingLost
<1>1. NDInv => NothingLost
    BY Zenon, NDInvLost
<1> QED
    BY <1>1, NDArrayIterInvariance, PTL

-----------------------------------------------------------------------------
(* ResizeIter.                                                             *)

RowBatch == [row : Nat, n : Nat]

Latest == epochs[Len(epochs)]
Former == epochs[Len(epochs) - 1]

\* Where a BatchLoader can stand: it has not read beyond the rows, and after
\* filling up a batch it stands behind the rows it took for that.
Placed(x) ==
    /\ x \in [at : Nat, overflow : Nat]
    /\ x.at <= Rows
    /\ x.overflow # 0 => round_batch /\ x.at = x.overflow /\ x.overflow < LoadSize

\* The row that a loader reads next, after a reset if it is at its end.
NextRow(x) == IF x.at = Rows THEN 1 ELSE x.at + 1

\* The first row of the batches read ahead, and of the batch that comes next.
AheadRow == IF ahead # <<>> THEN ahead[1].row ELSE NextRow(loader)
ComingRow == IF first_batch # NoBatch THEN first_batch.row ELSE AheadRow

\* The batch kept, the batches read ahead and the loader follow one another.
Chained ==
    /\ \A j \in 1 .. Len(ahead) :
         /\ j > 1 => ahead[j].row = RowAfter(ahead[j - 1])
         /\ FilledUp(ahead[j]) => j = Len(ahead) /\ loader.overflow # 0
    /\ ahead # <<>> => RowAfter(LastOf(ahead)) = NextRow(loader)
    /\ first_batch # NoBatch => /\ RowAfter(first_batch) = AheadRow
                                /\ first_batch.row = 1 /\ ~FilledUp(first_batch)

\* What comes next, in relation to the batches given.
Standing ==
    /\ Latest # <<>> => first_batch = NoBatch /\ ComingRow = RowAfter(LastOf(Latest))
    /\ Latest # <<>> /\ FilledUp(LastOf(Latest)) /\ ~refilling =>
         ahead = <<>> /\ loader.overflow # 0
    /\ Latest = <<>> /\ reset_internal =>
         ComingRow = 1 \/ (round_batch /\ ComingRow <= LoadSize)
    /\ Latest = <<>> /\ Len(epochs) > 1 /\ Former # <<>>
         /\ (~reset_internal \/ FilledUp(LastOf(Former))) =>
           ComingRow = RowAfter(LastOf(Former))

ResizeTyped ==
    /\ rconf \in ResizeConfs
    /\ Placed(loader)
    /\ ahead \in Seq(RowBatch) /\ first_batch \in RowBatch
    /\ ended => loader.overflow # 0 \/ loader.at = Rows
    /\ epochs \in Seq(Seq(RowBatch)) /\ Len(epochs) > 0

ResizeInv == ResizeTyped /\ Chained /\ Standing /\ Cyclic

\* What Cyclic says of one of the epochs ep.
CyclicAt(ep, e) ==
    /\ \A j \in 2 .. Len(ep[e]) : ep[e][j].row = RowAfter(ep[e][j - 1])
    /\ ep[e] # <<>> /\ reset_internal =>
         ep[e][1].row = 1 \/ (round_batch /\ ep[e][1].row <= LoadSize)
    /\ e > 1 /\ ep[e] # <<>> /\ ep[e - 1] # <<>>
         /\ (~reset_internal \/ FilledUp(LastOf(ep[e - 1]))) =>
           ep[e][1].row = RowAfter(LastOf(ep[e - 1]))

\* Cyclic, and Cyclic after a step, epoch by epoch.
LEMMA CyclicEpochs ==
    /\ Cyclic <=> \A e \in DOMAIN epochs : CyclicAt(epochs, e)
    /\ rconf' = rconf => (Cyclic' <=> \A e \in DOMAIN epochs' : CyclicAt(epochs', e))
<1>1. Cyclic <=> \A e \in DOMAIN epochs : CyclicAt(epochs, e)
    BY Zenon DEF Cyclic, CyclicAt
<1>2. ASSUME rconf' = rconf
      PROVE  Cyclic' <=> \A e \in DOMAIN epochs' : CyclicAt(epochs', e)
    BY Zenon, <1>2 DEF Cyclic, CyclicAt, RowAfter, FilledUp, LastOf, Rows, LoadSize, round_batch,
                       reset_internal
<1> QED
    BY Zenon, <1>1, <1>2

\* What the arguments are.
LEMMA ResizeConfFacts ==
    ASSUME rconf \in ResizeConfs
    PROVE  /\ Rows \in Nat /\ Rows > 0 /\ LoadSize \in Nat /\ LoadSize > 0
           /\ round_batch \in BOOLEAN /\ reset_internal \in BOOLEAN
           /\ round_batch => LoadSize <= Rows
BY ResizeIterAssumption DEF Rows, LoadSize, round_batch, reset_internal

\* A step keeps the arguments, and what is defined from them alone.
LEMMA ResizeConfKept ==
    ASSUME rconf' = rconf
    PROVE  /\ Rows' = Rows /\ LoadSize' = LoadSize
           /\ round_batch' = round_batch /\ reset_internal' = reset_internal
BY Zenon DEF Rows, LoadSize, round_batch, reset_internal

\* The loader gives the batch at the row it stands before and moves behind it; a
\* batch is filled up when, and only when, it counts the overflow.
LEMMA LoaderGives ==
    ASSUME rconf \in ResizeConfs, NEW x, Placed(x), LoaderHas(x)
    PROVE  /\ LoaderBatch(x) \in RowBatch /\ LoaderBatch(x).row = NextRow(x)
           /\ LoaderBatch(x).row = x.at + 1
           /\ Placed(LoaderMoved(x))
           /\ RowAfter(LoaderBatch(x)) = NextRow(LoaderMoved(x))
           /\ FilledUp(LoaderBatch(x)) => LoaderMoved(x).overflow # 0
<1>1. /\ Rows \in Nat /\ Rows > 0 /\ LoadSize \in Nat /\ LoadSize > 0
      /\ round_batch \in BOOLEAN /\ (round_batch => LoadSize <= Rows)
    BY Zenon, ResizeConfFacts
<1>2. x \in [at : Nat, overflow : Nat] /\ x.at \in Nat /\ x.at < Rows /\ x.overflow = 0
  <2>1. x \in [at : Nat, overflow : Nat] /\ x.at \in Nat
      BY Zenon DEF Placed
  <2>2. x.overflow = 0 /\ Rows - x.at > 0
      BY Zenon DEF LoaderHas, Left
  <2> QED
      BY <1>1, <2>1, <2>2
<1> DEFINE left == Rows - x.at
<1>3. left \in Nat /\ left > 0 /\ x.at + left = Rows /\ Left(x) = left
    BY <1>1, <1>2 DEF Left
<1>4. NextRow(x) = x.at + 1 /\ x.at + 1 \in Nat
    BY <1>1, <1>2 DEF NextRow
<1> HIDE DEF left
<1>5. CASE LoadSize <= left
  <2>1. LoaderBatch(x) = [row |-> x.at + 1, n |-> LoadSize]
      BY Zenon, <1>3, <1>5 DEF LoaderBatch
  <2>2. LoaderMoved(x) = [x EXCEPT !.at = x.at + LoadSize]
      BY Zenon, <1>3, <1>5 DEF LoaderMoved
  <2>3. LoaderBatch(x) \in RowBatch /\ LoaderBatch(x).row = x.at + 1 /\ LoaderBatch(x).n = LoadSize
      BY <1>1, <1>4, <2>1 DEF RowBatch
  <2>4. x.at + LoadSize \in Nat /\ x.at + LoadSize <= Rows
      BY <1>1, <1>2, <1>3, <1>5
  <2>5. /\ LoaderMoved(x) \in [at : Nat, overflow : Nat]
        /\ LoaderMoved(x).at = x.at + LoadSize /\ LoaderMoved(x).overflow = 0
      BY <1>2, <2>2, <2>4
  <2>6. Placed(LoaderMoved(x))
      BY Zenon, <2>4, <2>5 DEF Placed
  <2>7. RowAfter(LoaderBatch(x)) = NextRow(LoaderMoved(x)) /\ ~FilledUp(LoaderBatch(x))
      BY <1>1, <1>2, <2>3, <2>4, <2>5 DEF RowAfter, NextRow, FilledUp
  <2> QED
      BY Zenon, <1>4, <2>3, <2>6, <2>7
<1>6. CASE ~(LoadSize <= left) /\ round_batch
  <2> DEFINE o == LoadSize - left
  <2>1. LoaderBatch(x) = [row |-> x.at + 1, n |-> LoadSize]
      BY Zenon, <1>3, <1>6 DEF LoaderBatch
  <2>2. LoaderMoved(x) = [at |-> o, overflow |-> o]
      BY Zenon, <1>3, <1>6 DEF LoaderMoved
  <2>3. LoaderBatch(x) \in RowBatch /\ LoaderBatch(x).row = x.at + 1 /\ LoaderBatch(x).n = LoadSize
      BY <1>1, <1>4, <2>1 DEF RowBatch
  <2>4. o \in Nat /\ o # 0 /\ o < LoadSize /\ o < Rows /\ (x.at + 1 + LoadSize) - Rows = o + 1
        /\ x.at + 1 + LoadSize > Rows
      BY <1>1, <1>2, <1>3, <1>6
  <2>5. LoaderMoved(x).at = o /\ LoaderMoved(x).overflow = o
        /\ LoaderMoved(x) \in [at : Nat, overflow : Nat]
    <3> HIDE DEF o
    <3> QED
        BY <2>2, <2>4
  <2> HIDE DEF o
  <2>6. Placed(LoaderMoved(x))
    <3>1. o <= Rows
        BY <1>1, <2>4
    <3> QED
        BY Zenon, <1>6, <2>4, <2>5, <3>1 DEF Placed
  <2>7. RowAfter(LoaderBatch(x)) = o + 1
      BY <1>1, <1>2, <2>3, <2>4 DEF RowAfter
  <2>8. NextRow(LoaderMoved(x)) = o + 1
      BY <1>1, <2>4, <2>5 DEF NextRow
  <2> QED
      BY Zenon, <1>4, <2>3, <2>4, <2>5, <2>6, <2>7, <2>8
<1>7. CASE ~(LoadSize <= left) /\ ~round_batch
  <2>1. LoaderBatch(x) = [row |-> x.at + 1, n |-> left]
      BY Zenon, <1>3, <1>7 DEF LoaderBatch
  <2>2. LoaderMoved(x) = [x EXCEPT !.at = Rows]
      BY Zenon, <1>3, <1>7 DEF LoaderMoved
  <2>3. LoaderBatch(x) \in RowBatch /\ LoaderBatch(x).row = x.at + 1 /\ LoaderBatch(x).n = left
      BY <1>3, <1>4, <2>1 DEF RowBatch
  <2>4. /\ LoaderMoved(x) \in [at : Nat, overflow : Nat]
        /\ LoaderMoved(x).at = Rows /\ LoaderMoved(x).overflow = 0
      BY <1>1, <1>2, <2>2
  <2>5. Placed(LoaderMoved(x))
    <3>1. Rows <= Rows
        BY <1>1
    <3> QED
        BY Zenon, <2>4, <3>1 DEF Placed
  <2>6. x.at + 1 + left = Rows + 1
      BY <1>1, <1>2, <1>3
  <2>7. RowAfter(LoaderBatch(x)) = 1 /\ ~FilledUp(LoaderBatch(x))
      BY <1>1, <2>3, <2>6 DEF RowAfter, FilledUp
  <2>8. NextRow(LoaderMoved(x)) = 1
      BY Zenon, <2>4 DEF NextRow
  <2> QED
      BY Zenon, <1>4, <2>3, <2>5, <2>7, <2>8
<1> QED
    BY Zenon, <1>5, <1>6, <1>7

\* BeforeFirst leaves the loader at the first row or behind the rows that filled
\* up a batch; at the end of an epoch the row that comes next is the same.
LEMMA LoaderRewinds ==
    ASSUME rconf \in ResizeConfs, NEW x, Placed(x)
    PROVE  /\ Placed(LoaderBeforeFirst(x))
           /\ \/ NextRow(LoaderBeforeFirst(x)) = 1
              \/ round_batch /\ NextRow(LoaderBeforeFirst(x)) <= LoadSize
           /\ x.overflow # 0 \/ x.at = Rows => NextRow(LoaderBeforeFirst(x)) = NextRow(x)
<1>1. /\ Rows \in Nat /\ Rows > 0 /\ LoadSize \in Nat /\ LoadSize > 0
      /\ round_batch \in BOOLEAN /\ (round_batch => LoadSize <= Rows)
    BY Zenon, ResizeConfFacts
<1>2. /\ x \in [at : Nat, overflow : Nat] /\ x.at \in Nat /\ x.overflow \in Nat /\ x.at <= Rows
      /\ x.overflow # 0 => round_batch /\ x.at = x.overflow /\ x.overflow < LoadSize
    BY Zenon DEF Placed
<1>3. CASE x.overflow = 0
  <2>1. LoaderBeforeFirst(x) = [x EXCEPT !.at = 0]
      BY Zenon, <1>3 DEF LoaderBeforeFirst
  <2>2. /\ LoaderBeforeFirst(x) \in [at : Nat, overflow : Nat]
        /\ LoaderBeforeFirst(x).at = 0 /\ LoaderBeforeFirst(x).overflow = 0
      BY <1>2, <1>3, <2>1
  <2>3. Placed(LoaderBeforeFirst(x)) /\ NextRow(LoaderBeforeFirst(x)) = 1
      BY <1>1, <2>2 DEF Placed, NextRow
  <2>4. x.at = Rows => NextRow(x) = 1
      BY Zenon DEF NextRow
  <2> QED
      BY Zenon, <1>3, <2>3, <2>4
<1>4. CASE x.overflow # 0
  <2>1. LoaderBeforeFirst(x) = [x EXCEPT !.overflow = 0]
      BY Zenon, <1>2, <1>4 DEF LoaderBeforeFirst
  <2>2. /\ LoaderBeforeFirst(x) \in [at : Nat, overflow : Nat]
        /\ LoaderBeforeFirst(x).at = x.at /\ LoaderBeforeFirst(x).overflow = 0
      BY <1>2, <2>1
  <2>3. Placed(LoaderBeforeFirst(x))
      BY Zenon, <1>2, <2>2 DEF Placed
  <2>4. NextRow(LoaderBeforeFirst(x)) = NextRow(x)
      BY Zenon, <2>2 DEF NextRow
  <2>5. NextRow(x) <= LoadSize
      BY <1>1, <1>2, <1>4 DEF NextRow
  <2> QED
      BY Zenon, <1>2, <1>4, <2>3, <2>4, <2>5
<1> QED
    BY Zenon, <1>3, <1>4

\* What taking the first element does.
LEMMA TailFacts ==
    ASSUME NEW S, NEW q \in Seq(S), q # <<>>
    PROVE  /\ Head(q) = q[1] /\ q[1] \in S
           /\ Tail(q) \in Seq(S) /\ Len(Tail(q)) = Len(q) - 1 /\ Len(q) \in Nat /\ Len(q) > 0
           /\ \A j \in 1 .. Len(q) - 1 : Tail(q)[j] = q[j + 1]
<1>1. Len(q) \in Nat /\ Len(q) > 0
    OBVIOUS
<1>2. Head(q) = q[1] /\ q[1] \in S
    BY <1>1
<1>3. Tail(q) \in Seq(S) /\ Len(Tail(q)) = Len(q) - 1
    BY <1>1
<1>4. \A j \in 1 .. Len(q) - 1 : Tail(q)[j] = q[j + 1]
    BY <1>1
<1> QED
    BY <1>1, <1>2, <1>3, <1>4

\* The initial state: the constructor of MXDataIter has read the first batch.
LEMMA ResizeInitInv == ResizeInit => ResizeInv
<1> SUFFICES ASSUME ResizeInit PROVE ResizeInv
    BY Zenon
<1> DEFINE x == [at |-> 0, overflow |-> 0]
<1>1. /\ rconf \in ResizeConfs /\ loader = LoaderMoved(x) /\ first_batch = LoaderBatch(x)
      /\ ahead = <<>> /\ ended = FALSE /\ epochs = <<<<>>>>
    BY Zenon DEF ResizeInit, MXInit
<1>2. /\ Rows \in Nat /\ Rows > 0 /\ LoadSize \in Nat /\ LoadSize > 0
      /\ round_batch \in BOOLEAN /\ (round_batch => LoadSize <= Rows)
    BY Zenon, <1>1, ResizeConfFacts
<1>3. Placed(x) /\ LoaderHas(x) /\ x.at = 0
    BY <1>2 DEF Placed, LoaderHas, Left
<1> HIDE DEF x
<1>4. /\ first_batch \in RowBatch /\ first_batch.row = 1
      /\ Placed(loader) /\ RowAfter(first_batch) = NextRow(loader)
  <2>1. x.at + 1 = 1
      BY <1>3
  <2> QED
      BY Zenon, <1>1, <1>3, <2>1, LoaderGives
<1>5. ~FilledUp(first_batch)
  <2>1. first_batch.n <= Rows /\ first_batch.n \in Nat
    <3>1. Left(x) = Rows
        BY <1>2, <1>3 DEF Left
    <3>2. first_batch.n = IF LoadSize <= Rows \/ round_batch THEN LoadSize ELSE Rows
        BY Zenon, <1>1, <3>1 DEF LoaderBatch
    <3> QED
        BY <1>2, <3>2
  <2> QED
      BY <1>2, <1>4, <2>1 DEF FilledUp
<1>6. first_batch # NoBatch /\ AheadRow = NextRow(loader) /\ ComingRow = 1
  <2>1. NoBatch.row = 0 /\ 0 # 1
      BY DEF NoBatch
  <2>2. first_batch # NoBatch
      BY Zenon, <1>4, <2>1
  <2> QED
      BY Zenon, <1>1, <1>4, <2>2 DEF AheadRow, ComingRow
<1>7. Len(ahead) = 0 /\ ahead \in Seq(RowBatch)
    BY <1>1
<1>8. epochs \in Seq(Seq(RowBatch)) /\ Len(epochs) = 1 /\ epochs[1] = <<>>
    BY <1>1
<1>9. ResizeTyped
    BY <1>1, <1>4, <1>7, <1>8 DEF ResizeTyped
<1>10. Chained
  <2>1. \A j \in 1 .. Len(ahead) : FALSE
      BY <1>7
  <2> QED
      BY Zenon, <1>1, <1>4, <1>5, <1>6, <2>1 DEF Chained
<1>11. Standing
  <2>1. ~(Len(epochs) > 1)
      BY <1>8
  <2>2. Latest = <<>>
      BY Zenon, <1>8 DEF Latest
  <2> QED
      BY Zenon, <1>6, <2>1, <2>2 DEF Standing
<1>12. Cyclic
    BY <1>8 DEF Cyclic
<1> QED
    BY Zenon, <1>9, <1>10, <1>11, <1>12 DEF ResizeInv

\* What a step that gives no batch has to keep.
LEMMA KeepsPlace ==
    ASSUME ResizeInv, rconf' = rconf, epochs' = epochs,
           first_batch' = NoBatch \/ first_batch' = first_batch,
           ComingRow' = ComingRow,
           ~refilling' => /\ ~refilling
                          /\ ahead = <<>> /\ loader.overflow # 0 =>
                               ahead' = <<>> /\ loader'.overflow # 0
    PROVE  Standing' /\ Cyclic'
<1>1. Standing /\ Cyclic
    BY Zenon DEF ResizeInv
<1>2. /\ Rows' = Rows /\ LoadSize' = LoadSize
      /\ round_batch' = round_batch /\ reset_internal' = reset_internal
    BY Zenon, ResizeConfKept
<1>3. Latest' = Latest /\ Former' = Former
    BY Zenon DEF Latest, Former
<1>4. /\ LastOf(Latest)' = LastOf(Latest) /\ LastOf(Former)' = LastOf(Former)
      /\ RowAfter(LastOf(Latest))' = RowAfter(LastOf(Latest))
      /\ RowAfter(LastOf(Former))' = RowAfter(LastOf(Former))
      /\ FilledUp(LastOf(Latest))' = FilledUp(LastOf(Latest))
      /\ FilledUp(LastOf(Former))' = FilledUp(LastOf(Former))
    BY Zenon, <1>2, <1>3 DEF LastOf, RowAfter, FilledUp
<1>5. Standing'
    BY Zenon, <1>1, <1>2, <1>3, <1>4 DEF Standing
<1>6. Cyclic'
    BY Zenon, <1>1, CyclicEpochs
<1> QED
    BY Zenon, <1>5, <1>6

\* The producer's step: the batch it appends is the one after the last.
LEMMA ProduceInv ==
    ASSUME ResizeInv, rconf' = rconf, Produce
    PROVE  ResizeInv'
<1>1. /\ rconf \in ResizeConfs /\ Placed(loader) /\ ahead \in Seq(RowBatch)
      /\ first_batch \in RowBatch /\ epochs \in Seq(Seq(RowBatch)) /\ Len(epochs) > 0
      /\ ended => loader.overflow # 0 \/ loader.at = Rows
      /\ Chained
    BY Zenon DEF ResizeInv, ResizeTyped
<1>2. /\ first_batch' = first_batch /\ epochs' = epochs /\ refilling' = refilling
      /\ Rows' = Rows /\ LoadSize' = LoadSize
      /\ round_batch' = round_batch /\ reset_internal' = reset_internal
    BY Zenon, ResizeConfKept DEF Produce
<1>3. Rows \in Nat /\ Rows > 0
    BY Zenon, <1>1, ResizeConfFacts
<1>4. CASE LoaderHas(loader)
  <2> DEFINE b == LoaderBatch(loader)
             z == Len(ahead)
  <2>1. ahead' = Append(ahead, b) /\ loader' = LoaderMoved(loader) /\ ended' = ended /\ ~ended
      BY Zenon, <1>4 DEF Produce
  <2>2. /\ b \in RowBatch /\ b.row = NextRow(loader)
        /\ Placed(loader') /\ RowAfter(b) = NextRow(loader')
        /\ FilledUp(b) => loader'.overflow # 0
      BY Zenon, <1>1, <1>4, <2>1, LoaderGives
  <2> HIDE DEF b
  <2>3. /\ ahead' \in Seq(RowBatch) /\ Len(ahead') = z + 1 /\ z \in Nat
        /\ \A j \in 1 .. z : ahead'[j] = ahead[j]
        /\ ahead'[z + 1] = b
    <3>1. z \in Nat
        BY <1>1
    <3> QED
        BY SMTT(40), <1>1, <2>1, <2>2, <3>1, AppendFacts
  <2>4. ahead' # <<>> /\ LastOf(ahead') = b
    <3>1. Len(ahead') # 0
        BY <2>3
    <3>2. ahead' # <<>>
        BY <3>1
    <3> QED
        BY Zenon, <2>3, <3>2 DEF LastOf
  <2>5. loader.overflow = 0
      BY Zenon, <1>4 DEF LoaderHas
  <2>6. ahead = <<>> => z = 0
      OBVIOUS
  <2>7. ahead # <<>> => z > 0 /\ z \in 1 .. z /\ 1 \in 1 .. z /\ LastOf(ahead) = ahead[z]
    <3>1. ahead # <<>> => z > 0
        BY <1>1
    <3> QED
        BY <2>3, <3>1 DEF LastOf
  <2> HIDE DEF z
  <2>8. AheadRow' = AheadRow
    <3>1. CASE ahead = <<>>
      <4>1. ahead'[1] = b
          BY <2>3, <2>6, <3>1
      <4> QED
          BY Zenon, <2>2, <2>4, <3>1, <4>1 DEF AheadRow
    <3>2. CASE ahead # <<>>
      <4>1. ahead'[1] = ahead[1]
          BY Zenon, <2>3, <2>7, <3>2
      <4> QED
          BY Zenon, <2>4, <3>2, <4>1 DEF AheadRow
    <3> QED
        BY Zenon, <3>1, <3>2
  <2>9. ComingRow' = ComingRow
      BY Zenon, <1>2, <2>8 DEF ComingRow, NoBatch
  <2>10. Chained'
    <3>1. ASSUME NEW j \in 1 .. Len(ahead'), j > 1 PROVE ahead'[j].row = RowAfter(ahead'[j - 1])
      <4>1. CASE j = z + 1
        <5>1. z > 0 /\ j - 1 = z /\ z \in 1 .. z
            BY <2>3, <3>1, <4>1
        <5>2. ahead # <<>>
            BY <2>6, <5>1
        <5>3. ahead'[j - 1] = LastOf(ahead)
            BY Zenon, <2>3, <2>7, <5>1, <5>2
        <5> QED
            BY Zenon, <1>1, <2>2, <2>3, <4>1, <5>2, <5>3 DEF Chained
      <4>2. CASE j # z + 1
        <5>1. j \in 1 .. z /\ j - 1 \in 1 .. z
            BY <2>3, <3>1, <4>2
        <5>2. ahead'[j] = ahead[j] /\ ahead'[j - 1] = ahead[j - 1]
            BY Zenon, <2>3, <5>1
        <5> QED
            BY Zenon, <1>1, <3>1, <5>1, <5>2 DEF Chained, z
      <4> QED
          BY Zenon, <4>1, <4>2
    <3>2. ASSUME NEW j \in 1 .. Len(ahead'), FilledUp(ahead'[j])
          PROVE  j = Len(ahead') /\ loader'.overflow # 0
      <4>1. CASE j = z + 1
          BY Zenon, <2>2, <2>3, <3>2, <4>1
      <4>2. CASE j # z + 1
        <5>1. j \in 1 .. z
            BY <2>3, <3>2, <4>2
        <5>2. ahead'[j] = ahead[j]
            BY Zenon, <2>3, <5>1
        <5> QED
            BY Zenon, <1>1, <2>5, <3>2, <5>1, <5>2 DEF Chained, z
      <4> QED
          BY Zenon, <4>1, <4>2
    <3>3. /\ RowAfter(LastOf(ahead))' = RowAfter(b) /\ NextRow(loader)' = NextRow(loader')
          /\ RowAfter(first_batch)' = RowAfter(first_batch)
          /\ FilledUp(first_batch)' = FilledUp(first_batch)
        BY Zenon, <1>2, <2>4 DEF RowAfter, NextRow, FilledUp, LastOf
    <3>4. \A j \in 1 .. Len(ahead') : /\ j > 1 => ahead'[j].row = RowAfter(ahead[j - 1])'
                                      /\ FilledUp(ahead[j])' => j = Len(ahead') /\ loader'.overflow # 0
      <4>1. \A j \in 1 .. Len(ahead') : /\ RowAfter(ahead[j - 1])' = RowAfter(ahead'[j - 1])
                                        /\ FilledUp(ahead[j])' = FilledUp(ahead'[j])
          BY Zenon, <1>2 DEF RowAfter, FilledUp
      <4> QED
          BY Zenon, <3>1, <3>2, <4>1
    <3>5. first_batch' # NoBatch' => /\ RowAfter(first_batch)' = AheadRow'
                                    /\ first_batch'.row = 1 /\ ~FilledUp(first_batch)'
        BY Zenon, <1>1, <1>2, <2>8, <3>3 DEF Chained, NoBatch
    <3> QED
        BY Zenon, <2>2, <3>3, <3>4, <3>5 DEF Chained
  <2>11. Placed(loader)'
      BY Zenon, <1>2, <2>2 DEF Placed
  <2>12. ResizeTyped'
      BY Zenon, <1>1, <1>2, <2>1, <2>3, <2>11 DEF ResizeTyped
  <2> QED
      BY Zenon, <1>2, <2>5, <2>9, <2>10, <2>12, KeepsPlace DEF ResizeInv
<1>5. CASE ~LoaderHas(loader)
  <2>1. ended' = TRUE /\ ahead' = ahead /\ loader' = loader
      BY Zenon, <1>5 DEF Produce
  <2>2. loader.overflow # 0 \/ loader.at = Rows
    <3>1. loader.at \in Nat /\ loader.at <= Rows
        BY Zenon, <1>1 DEF Placed
    <3>2. loader.overflow # 0 \/ ~(Rows - loader.at > 0)
        BY Zenon, <1>5 DEF LoaderHas, Left
    <3> QED
        BY <1>3, <3>1, <3>2
  <2>3. AheadRow' = AheadRow
      BY Zenon, <1>2, <2>1 DEF AheadRow, NextRow
  <2>4. ComingRow' = ComingRow
      BY Zenon, <1>2, <2>3 DEF ComingRow, NoBatch
  <2>5. Chained'
      BY Zenon, <1>1, <1>2, <2>1, <2>3 DEF Chained, RowAfter, FilledUp, LastOf, NextRow, NoBatch
  <2>6. ResizeTyped'
      BY Zenon, <1>1, <1>2, <2>1, <2>2 DEF ResizeTyped, Placed
  <2> QED
      BY Zenon, <1>2, <2>1, <2>4, <2>5, <2>6, KeepsPlace DEF ResizeInv
<1> QED
    BY Zenon, <1>4, <1>5

\* next() gives the batch that comes next, and the one after it comes next.
LEMMA NextGives ==
    ASSUME ResizeInv, rconf' = rconf, MXHas, MXNext
    PROVE  /\ MXBatch \in RowBatch /\ MXBatch.row = ComingRow
           /\ ahead' \in Seq(RowBatch) /\ first_batch' = NoBatch
           /\ ComingRow' = RowAfter(MXBatch)
           /\ FilledUp(MXBatch) => ahead' = <<>> /\ loader.overflow # 0
           /\ Chained'
<1>1. /\ ahead \in Seq(RowBatch) /\ first_batch \in RowBatch /\ Chained
    BY Zenon DEF ResizeInv, ResizeTyped
<1>2. /\ first_batch' = NoBatch /\ loader' = loader
      /\ ahead' = IF first_batch # NoBatch THEN ahead ELSE Tail(ahead)
      /\ Rows' = Rows /\ NoBatch' = NoBatch
    BY Zenon, ResizeConfKept DEF MXNext, NoBatch
<1>3. NextRow(loader)' = NextRow(loader) /\ ComingRow' = AheadRow'
    BY Zenon, <1>2 DEF NextRow, ComingRow
<1>4. CASE first_batch # NoBatch
  <2>1. ahead' = ahead /\ MXBatch = first_batch
      BY Zenon, <1>2, <1>4 DEF MXBatch
  <2>2. AheadRow' = AheadRow
      BY Zenon, <1>3, <2>1 DEF AheadRow
  <2>3. Chained'
      BY Zenon, <1>1, <1>2, <1>3, <2>1 DEF Chained, RowAfter, FilledUp, LastOf
  <2> QED
      BY Zenon, <1>1, <1>2, <1>3, <1>4, <2>1, <2>2, <2>3 DEF Chained, ComingRow
<1>5. CASE first_batch = NoBatch
  <2> DEFINE z == Len(ahead)
  <2>1. ahead # <<>> /\ ahead' = Tail(ahead) /\ MXBatch = Head(ahead)
      BY Zenon, <1>2, <1>5 DEF MXBatch, MXHas
  <2>2. /\ Head(ahead) = ahead[1] /\ ahead[1] \in RowBatch
        /\ ahead' \in Seq(RowBatch) /\ Len(ahead') = z - 1 /\ z \in Nat /\ z > 0
        /\ \A j \in 1 .. z - 1 : ahead'[j] = ahead[j + 1]
      BY <1>1, <2>1, TailFacts
  <2>3. ComingRow = ahead[1].row
      BY Zenon, <1>5, <2>1 DEF ComingRow, AheadRow
  <2>4. 1 \in 1 .. z /\ LastOf(ahead) = ahead[z]
      BY <2>2 DEF LastOf
  <2> HIDE DEF z
  <2>5. ASSUME NEW j \in 1 .. z - 1
        PROVE  /\ j + 1 \in 1 .. z /\ j + 1 > 1 /\ (j + 1) - 1 = j
               /\ j > 1 => j - 1 \in 1 .. z - 1 /\ (j - 1) + 1 = j /\ j \in 1 .. z
               /\ j + 1 = z => j = z - 1
      BY <2>2
  <2>6. ASSUME ahead' # <<>> PROVE z > 1 /\ z - 1 \in 1 .. z - 1 /\ 1 \in 1 .. z - 1
                                   /\ 1 + 1 = 2 /\ 2 \in 1 .. z /\ 2 > 1 /\ 2 - 1 = 1
                                   /\ (z - 1) + 1 = z
    <3>1. Len(ahead') # 0
        BY <2>2, <2>6
    <3> QED
        BY <2>2, <3>1
  <2>7. AheadRow' = RowAfter(ahead[1])
    <3>1. CASE ahead' # <<>>
      <4>1. ahead'[1] = ahead[2]
          BY Zenon, <2>2, <2>6, <3>1
      <4>2. ahead[2].row = RowAfter(ahead[1])
          BY Zenon, <1>1, <2>6, <3>1 DEF Chained, z
      <4> QED
          BY Zenon, <3>1, <4>1, <4>2 DEF AheadRow
    <3>2. CASE ahead' = <<>>
      <4>1. z = 1
          BY <2>2, <3>2
      <4>2. LastOf(ahead) = ahead[1]
          BY Zenon, <2>4, <4>1
      <4> QED
          BY Zenon, <1>1, <1>3, <2>1, <3>2, <4>2 DEF AheadRow, Chained
    <3> QED
        BY Zenon, <3>1, <3>2
  <2>8. ASSUME FilledUp(ahead[1]) PROVE ahead' = <<>> /\ loader.overflow # 0
    <3>1. 1 = z /\ loader.overflow # 0
        BY Zenon, <1>1, <2>4, <2>8 DEF Chained, z
    <3>2. ahead' = <<>>
        BY <2>2, <3>1
    <3> QED
        BY Zenon, <3>1, <3>2
  <2>9. Chained'
    <3>1. ASSUME NEW j \in 1 .. Len(ahead'), j > 1 PROVE ahead'[j].row = RowAfter(ahead'[j - 1])
      <4>1. j \in 1 .. z - 1
          BY Zenon, <2>2
      <4>2. ahead'[j] = ahead[j + 1] /\ ahead'[j - 1] = ahead[j]
        <5>1. ahead'[j] = ahead[j + 1]
            BY Zenon, <2>2, <4>1
        <5>2. ahead'[j - 1] = ahead[(j - 1) + 1]
            BY Zenon, <2>2, <2>5, <3>1, <4>1
        <5> QED
            BY Zenon, <2>5, <3>1, <4>1, <5>1, <5>2
      <4>3. ahead[j + 1].row = RowAfter(ahead[(j + 1) - 1])
          BY Zenon, <1>1, <2>5, <4>1 DEF Chained, z
      <4> QED
          BY Zenon, <2>5, <4>1, <4>2, <4>3
    <3>2. ASSUME NEW j \in 1 .. Len(ahead'), FilledUp(ahead'[j])
          PROVE  j = Len(ahead') /\ loader'.overflow # 0
      <4>1. j \in 1 .. z - 1
          BY Zenon, <2>2
      <4>2. FilledUp(ahead[j + 1])
          BY Zenon, <2>2, <3>2, <4>1
      <4>3. j + 1 = z /\ loader.overflow # 0
          BY Zenon, <1>1, <2>5, <4>1, <4>2 DEF Chained, z
      <4> QED
          BY Zenon, <1>2, <2>2, <2>5, <4>1, <4>3
    <3>3. ASSUME ahead' # <<>> PROVE RowAfter(LastOf(ahead')) = NextRow(loader)
      <4>1. LastOf(ahead') = ahead'[z - 1]
          BY Zenon, <2>2 DEF LastOf
      <4>2. ahead'[z - 1] = ahead[(z - 1) + 1]
          BY Zenon, <2>2, <2>6, <3>3
      <4>3. LastOf(ahead') = LastOf(ahead)
          BY Zenon, <2>4, <2>6, <3>3, <4>1, <4>2
      <4> QED
          BY Zenon, <1>1, <2>1, <4>3 DEF Chained
    <3>4. /\ \A j \in 1 .. Len(ahead') : /\ RowAfter(ahead[j - 1])' = RowAfter(ahead'[j - 1])
                                         /\ FilledUp(ahead[j])' = FilledUp(ahead'[j])
          /\ RowAfter(LastOf(ahead))' = RowAfter(LastOf(ahead'))
        BY Zenon, <1>2 DEF RowAfter, FilledUp, LastOf
    <3> QED
        BY Zenon, <1>2, <1>3, <3>1, <3>2, <3>3, <3>4 DEF Chained
  <2> QED
      BY Zenon, <1>2, <1>3, <2>1, <2>2, <2>3, <2>7, <2>8, <2>9
<1> QED
    BY Zenon, <1>4, <1>5

\* ResizeIter.iter_next gives the batch that comes next.
LEMMA IterNextInv ==
    ASSUME ResizeInv, rconf' = rconf, IterNext
    PROVE  ResizeInv'
<1>1. /\ rconf \in ResizeConfs /\ Placed(loader)
      /\ epochs \in Seq(Seq(RowBatch)) /\ Len(epochs) > 0
      /\ ended => loader.overflow # 0 \/ loader.at = Rows
      /\ Standing /\ Cyclic
    BY Zenon DEF ResizeInv, ResizeTyped
<1> DEFINE b == MXBatch
           z == Len(epochs)
<1>2. /\ MXHas /\ MXNext /\ refilling' = FALSE /\ loader' = loader /\ ended' = ended
      /\ epochs' = [epochs EXCEPT ![z] = Append(epochs[z], b)]
      /\ Rows' = Rows /\ LoadSize' = LoadSize
      /\ round_batch' = round_batch /\ reset_internal' = reset_internal
    BY Zenon, ResizeConfKept DEF IterNext, MXNext
<1>3. /\ b \in RowBatch /\ b.row = ComingRow
      /\ ahead' \in Seq(RowBatch) /\ first_batch' = NoBatch
      /\ ComingRow' = RowAfter(b)
      /\ FilledUp(b) => ahead' = <<>> /\ loader.overflow # 0
      /\ Chained'
    BY Zenon, <1>2, NextGives
<1> HIDE DEF b
<1>4. z \in Nat /\ z > 0 /\ epochs[z] \in Seq(RowBatch) /\ z \in 1 .. z
    BY <1>1
<1> DEFINE q == epochs[z]
           p == Append(q, b)
<1> HIDE DEF q
<1>5. /\ p \in Seq(RowBatch) /\ q \in Seq(RowBatch) /\ Len(q) \in Nat
      /\ Len(p) = Len(q) + 1
      /\ \A j \in 1 .. Len(q) : p[j] = q[j]
      /\ p[Len(q) + 1] = b
  <2>1. q \in Seq(RowBatch)
      BY Zenon, <1>4 DEF q
  <2>2. Len(q) \in Nat
      BY <2>1
  <2> QED
      BY SMTT(40), <1>3, <2>1, <2>2, AppendFacts
<1> HIDE DEF p
<1>6. /\ epochs' \in Seq(Seq(RowBatch)) /\ Len(epochs') = z /\ DOMAIN epochs' = 1 .. z
      /\ epochs'[z] = p
      /\ \A j \in 1 .. z : j # z => epochs'[j] = epochs[j]
  <2>1. epochs' = [epochs EXCEPT ![z] = p]
      BY Zenon, <1>2 DEF p, q
  <2> QED
      BY SMTT(40), <1>1, <1>4, <1>5, <2>1
<1>7. /\ Latest = q
      /\ z > 1 => Former = epochs[z - 1]
    BY Zenon DEF Latest, Former, q
<1>8. p # <<>> /\ LastOf(p) = b /\ Latest' = p
  <2>1. Len(p) # 0
      BY <1>5
  <2>2. p # <<>>
      BY <2>1
  <2>3. LastOf(p) = b
      BY Zenon, <1>5 DEF LastOf
  <2> QED
      BY Zenon, <1>6, <2>2, <2>3 DEF Latest
<1>9. DOMAIN epochs = 1 .. z
    BY <1>1
<1>10. z > 1 => z - 1 \in 1 .. z /\ z - 1 # z
    BY <1>4
<1>11. Standing /\ (Len(epochs) > 1 <=> z > 1)
    BY Zenon, <1>1
<1> HIDE DEF z
<1>12. Cyclic'
  <2> SUFFICES ASSUME NEW e \in 1 .. z PROVE CyclicAt(epochs', e)
      BY Zenon, <1>6, CyclicEpochs
  <2>1. CyclicAt(epochs, e)
      BY Zenon, <1>1, <1>9, CyclicEpochs
  <2>2. CASE e # z
    <3>1. epochs'[e] = epochs[e]
        BY Zenon, <1>6, <2>2
    <3>2. e > 1 => epochs'[e - 1] = epochs[e - 1]
      <4>1. e > 1 => e - 1 \in 1 .. z /\ e - 1 # z
          BY <1>4
      <4> QED
          BY Zenon, <1>6, <4>1
    <3> QED
        BY Zenon, <2>1, <3>1, <3>2 DEF CyclicAt
  <2>3. CASE e = z
    <3>1. z > 1 => epochs'[z - 1] = epochs[z - 1]
        BY Zenon, <1>6, <1>10
    <3>2. ASSUME NEW j \in 2 .. Len(p) PROVE p[j].row = RowAfter(p[j - 1])
      <4>1. CASE j <= Len(q)
        <5>1. j \in 2 .. Len(q) /\ j \in 1 .. Len(q) /\ j - 1 \in 1 .. Len(q)
            BY SMTT(40), <1>5, <4>1
        <5>2. p[j] = q[j] /\ p[j - 1] = q[j - 1]
            BY Zenon, <1>5, <5>1
        <5> QED
            BY Zenon, <2>1, <2>3, <5>1, <5>2 DEF q, CyclicAt
      <4>2. CASE ~(j <= Len(q))
        <5>1. j = Len(q) + 1 /\ j - 1 = Len(q) /\ Len(q) \in 1 .. Len(q)
            BY SMTT(40), <1>5, <4>2
        <5>2. p[j] = b /\ p[j - 1] = LastOf(q)
            BY Zenon, <1>5, <5>1 DEF LastOf
        <5>3. q # <<>>
            BY <5>1
        <5> QED
            BY Zenon, <1>3, <1>7, <1>11, <5>2, <5>3 DEF Standing
      <4> QED
          BY Zenon, <4>1, <4>2
    <3>3. q # <<>> => p[1] = q[1]
      <4>1. q # <<>> => 1 \in 1 .. Len(q)
          BY <1>5
      <4> QED
          BY Zenon, <1>5, <4>1
    <3>4. q = <<>> => p[1] = b
        BY <1>5
    <3>5. reset_internal => p[1].row = 1 \/ (round_batch /\ p[1].row <= LoadSize)
      <4>1. CASE q = <<>>
          BY Zenon, <1>3, <1>7, <1>11, <3>4, <4>1 DEF Standing
      <4>2. CASE q # <<>>
          BY Zenon, <2>1, <2>3, <3>3, <4>2 DEF q, CyclicAt
      <4> QED
          BY Zenon, <4>1, <4>2
    <3>6. ASSUME z > 1, epochs[z - 1] # <<>>, ~reset_internal \/ FilledUp(LastOf(epochs[z - 1]))
          PROVE  p[1].row = RowAfter(LastOf(epochs[z - 1]))
      <4>1. CASE q = <<>>
          BY Zenon, <1>3, <1>7, <1>11, <3>4, <3>6, <4>1 DEF Standing
      <4>2. CASE q # <<>>
          BY Zenon, <2>1, <2>3, <3>3, <3>6, <4>2 DEF q, CyclicAt
      <4> QED
          BY Zenon, <4>1, <4>2
    <3> QED
        BY Zenon, <1>6, <2>3, <3>1, <3>2, <3>5, <3>6 DEF CyclicAt
  <2> QED
      BY Zenon, <2>2, <2>3
<1>13. Standing'
  <2>1. /\ LastOf(Latest)' = b /\ RowAfter(LastOf(Latest))' = RowAfter(b)
        /\ FilledUp(LastOf(Latest))' = FilledUp(b) /\ NoBatch' = NoBatch
      BY Zenon, <1>2, <1>8 DEF LastOf, RowAfter, FilledUp, NoBatch
  <2> QED
      BY Zenon, <1>2, <1>3, <1>8, <2>1 DEF Standing
<1>14. ResizeTyped'
  <2>1. Placed(loader)'
      BY Zenon, <1>1, <1>2 DEF Placed
  <2>2. first_batch' \in RowBatch
      BY <1>3 DEF NoBatch, RowBatch
  <2>3. Len(epochs') > 0
      BY Zenon, <1>4, <1>6
  <2> QED
      BY Zenon, <1>1, <1>2, <1>3, <1>6, <2>1, <2>2, <2>3 DEF ResizeTyped
<1> QED
    BY Zenon, <1>3, <1>12, <1>13, <1>14 DEF ResizeInv

\* After MXDataIter.reset the loader's next row comes next.
LEMMA ResetRewinds ==
    ASSUME ResizeInv, rconf' = rconf, MXReset
    PROVE  /\ first_batch' = NoBatch /\ ahead' = <<>>
           /\ ComingRow' = 1 \/ (round_batch /\ ComingRow' <= LoadSize)
           /\ loader.overflow # 0 \/ loader.at = Rows => ComingRow' = NextRow(loader)
           /\ Placed(loader)' /\ Chained'
           /\ ahead' \in Seq(RowBatch) /\ first_batch' \in RowBatch /\ ended' = FALSE
<1>1. rconf \in ResizeConfs /\ Placed(loader)
    BY Zenon DEF ResizeInv, ResizeTyped
<1>2. /\ loader' = LoaderBeforeFirst(loader) /\ ahead' = <<>> /\ ended' = FALSE
      /\ first_batch' = NoBatch
      /\ Rows' = Rows /\ LoadSize' = LoadSize /\ round_batch' = round_batch /\ NoBatch' = NoBatch
    BY Zenon, ResizeConfKept DEF MXReset, BeforeFirst, NoBatch
<1>3. /\ Placed(loader')
      /\ NextRow(loader') = 1 \/ (round_batch /\ NextRow(loader') <= LoadSize)
      /\ loader.overflow # 0 \/ loader.at = Rows => NextRow(loader') = NextRow(loader)
    BY Zenon, <1>1, <1>2, LoaderRewinds
<1>4. ComingRow' = NextRow(loader')
    BY Zenon, <1>2 DEF ComingRow, AheadRow, NextRow
<1>5. Placed(loader)'
    BY Zenon, <1>2, <1>3 DEF Placed
<1>6. Chained'
  <2>1. \A j \in 1 .. Len(ahead') : FALSE
      BY <1>2
  <2> QED
      BY Zenon, <1>2, <2>1 DEF Chained
<1>7. ahead' \in Seq(RowBatch) /\ first_batch' \in RowBatch
    BY <1>2 DEF NoBatch, RowBatch
<1> QED
    BY Zenon, <1>2, <1>3, <1>4, <1>5, <1>6, <1>7

\* iter_next rewinds at the end; the same row comes next.
LEMMA RefillInv ==
    ASSUME ResizeInv, rconf' = rconf, Refill
    PROVE  ResizeInv'
<1>1. /\ MXReset /\ refilling' = TRUE /\ epochs' = epochs
      /\ first_batch = NoBatch /\ ahead = <<>> /\ ended
    BY Zenon DEF Refill, MXStops
<1>2. /\ first_batch' = NoBatch
      /\ loader.overflow # 0 \/ loader.at = Rows => ComingRow' = NextRow(loader)
      /\ Placed(loader)' /\ Chained'
      /\ ahead' \in Seq(RowBatch) /\ first_batch' \in RowBatch /\ ended' = FALSE
    BY Zenon, <1>1, ResetRewinds
<1>3. ResizeTyped
    BY Zenon DEF ResizeInv
<1>4. ComingRow' = ComingRow
    BY Zenon, <1>1, <1>2, <1>3 DEF ResizeTyped, ComingRow, AheadRow
<1>5. Standing' /\ Cyclic'
    BY Zenon, <1>1, <1>2, <1>4, KeepsPlace
<1>6. ResizeTyped'
    BY Zenon, <1>1, <1>2, <1>3 DEF ResizeTyped
<1> QED
    BY Zenon, <1>2, <1>5, <1>6 DEF ResizeInv

\* ResizeIter.reset starts an epoch, and rewinds the native iterator or does not.
LEMMA ResizeResetInv ==
    ASSUME ResizeInv, rconf' = rconf, ResizeReset
    PROVE  ResizeInv'
<1>1. /\ ResizeTyped /\ epochs \in Seq(Seq(RowBatch)) /\ Len(epochs) > 0
      /\ Chained /\ Standing /\ Cyclic
    BY Zenon DEF ResizeInv, ResizeTyped
<1>2. /\ Rows' = Rows /\ LoadSize' = LoadSize
      /\ round_batch' = round_batch /\ reset_internal' = reset_internal /\ NoBatch' = NoBatch
    BY Zenon, ResizeConfKept DEF NoBatch
<1> DEFINE z == Len(epochs)
<1>3. /\ ~refilling /\ refilling' = refilling /\ epochs' = Append(epochs, <<>>)
      /\ reset_internal => MXReset
      /\ ~reset_internal => UNCHANGED <<loader, ahead, ended, first_batch>>
    BY Zenon DEF ResizeReset, nativeVars
<1>4. /\ epochs' \in Seq(Seq(RowBatch)) /\ Len(epochs') = z + 1 /\ z \in Nat /\ z > 0
      /\ DOMAIN epochs' = 1 .. z + 1
      /\ epochs'[z + 1] = <<>>
      /\ \A j \in 1 .. z : epochs'[j] = epochs[j]
    BY <1>1, <1>3
<1>5. DOMAIN epochs = 1 .. z
    BY <1>1
<1>6. Latest' = <<>> /\ Former' = Latest
  <2>1. Len(epochs') - 1 = z /\ z \in 1 .. z
      BY <1>4
  <2> QED
      BY Zenon, <1>4, <2>1 DEF Latest, Former
<1>7. Len(epochs') > 0
    BY <1>4
<1> HIDE DEF z
<1>8. Cyclic'
  <2> SUFFICES ASSUME NEW e \in 1 .. z + 1 PROVE CyclicAt(epochs', e)
      BY Zenon, <1>4, CyclicEpochs
  <2>1. CASE e = z + 1
    <3>1. epochs'[e] = <<>>
        BY Zenon, <1>4, <2>1
    <3> QED
        BY SMTT(40), <3>1 DEF CyclicAt
  <2>2. CASE e # z + 1
    <3>1. e \in 1 .. z /\ (e > 1 => e - 1 \in 1 .. z)
        BY <1>4, <2>2
    <3>2. epochs'[e] = epochs[e] /\ (e > 1 => epochs'[e - 1] = epochs[e - 1])
        BY Zenon, <1>4, <3>1
    <3>3. CyclicAt(epochs, e)
        BY Zenon, <1>1, <1>5, <3>1, CyclicEpochs
    <3> QED
        BY Zenon, <3>2, <3>3 DEF CyclicAt
  <2> QED
      BY Zenon, <2>1, <2>2
<1>9. CASE reset_internal
  <2>1. /\ first_batch' = NoBatch /\ ahead' = <<>>
        /\ ComingRow' = 1 \/ (round_batch /\ ComingRow' <= LoadSize)
        /\ loader.overflow # 0 => ComingRow' = NextRow(loader)
        /\ Placed(loader)' /\ Chained'
        /\ ahead' \in Seq(RowBatch) /\ first_batch' \in RowBatch /\ ended' = FALSE
      BY Zenon, <1>3, <1>9, ResetRewinds
  <2>2. ASSUME Latest # <<>>, FilledUp(LastOf(Latest)) PROVE ComingRow' = RowAfter(LastOf(Latest))
    <3>1. /\ first_batch = NoBatch /\ ComingRow = RowAfter(LastOf(Latest))
          /\ ahead = <<>> /\ loader.overflow # 0
        BY Zenon, <1>1, <1>3, <2>2 DEF Standing
    <3>2. ComingRow = NextRow(loader)
        BY Zenon, <3>1 DEF ComingRow, AheadRow
    <3> QED
        BY Zenon, <2>1, <3>1, <3>2
  <2>3. /\ RowAfter(LastOf(Former))' = RowAfter(LastOf(Latest))
        /\ FilledUp(LastOf(Former))' = FilledUp(LastOf(Latest))
      BY Zenon, <1>2, <1>6 DEF LastOf, RowAfter, FilledUp
  <2>4. Standing'
      BY Zenon, <1>2, <1>6, <1>9, <2>1, <2>2, <2>3 DEF Standing
  <2>5. ResizeTyped'
      BY Zenon, <1>1, <1>4, <1>7, <2>1 DEF ResizeTyped
  <2> QED
      BY Zenon, <1>8, <2>1, <2>4, <2>5 DEF ResizeInv
<1>10. CASE ~reset_internal
  <2>1. loader' = loader /\ ahead' = ahead /\ ended' = ended /\ first_batch' = first_batch
      BY Zenon, <1>3, <1>10
  <2>2. NextRow(loader)' = NextRow(loader) /\ AheadRow' = AheadRow /\ ComingRow' = ComingRow
      BY Zenon, <1>2, <2>1 DEF NextRow, AheadRow, ComingRow
  <2>3. RowAfter(LastOf(Former))' = RowAfter(LastOf(Latest))
      BY Zenon, <1>2, <1>6 DEF LastOf, RowAfter
  <2>4. Standing'
      BY Zenon, <1>1, <1>2, <1>6, <1>10, <2>2, <2>3 DEF Standing
  <2>5. Chained'
      BY Zenon, <1>1, <1>2, <2>1, <2>2 DEF Chained, RowAfter, FilledUp, LastOf
  <2>6. ResizeTyped'
      BY Zenon, <1>1, <1>2, <1>4, <1>7, <2>1 DEF ResizeTyped, Placed
  <2> QED
      BY Zenon, <1>8, <2>4, <2>5, <2>6 DEF ResizeInv
<1> QED
    BY Zenon, <1>9, <1>10

\* The invariant of ResizeIter over a native iterator, for every number of rows,
\* every batch size and size, and however far the producer reads ahead.
THEOREM ResizeIterInvariance == ResizeSpec => []ResizeInv
<1>1. ResizeInit => ResizeInv
    BY Zenon, ResizeInitInv
<1>2. ResizeInv /\ [ResizeNext]_resizeVars => ResizeInv'
  <2> SUFFICES ASSUME ResizeInv, [ResizeNext]_resizeVars PROVE ResizeInv'
      BY Zenon
  <2>1. CASE ResizeNext
      BY Zenon, <2>1, ProduceInv, IterNextInv, RefillInv, ResizeResetInv DEF ResizeNext
  <2>2. CASE UNCHANGED resizeVars
    <3>1. /\ rconf' = rconf /\ loader' = loader /\ ahead' = ahead /\ ended' = ended
          /\ first_batch' = first_batch /\ refilling' = refilling /\ epochs' = epochs
        BY Zenon, <2>2 DEF resizeVars, nativeVars
    <3>2. Rows' = Rows /\ LoadSize' = LoadSize /\ round_batch' = round_batch /\ NoBatch' = NoBatch
        BY Zenon, <3>1, ResizeConfKept DEF NoBatch
    <3>3. NextRow(loader)' = NextRow(loader) /\ AheadRow' = AheadRow /\ ComingRow' = ComingRow
        BY Zenon, <3>1, <3>2 DEF NextRow, AheadRow, ComingRow
    <3>4. Standing' /\ Cyclic'
        BY Zenon, <3>1, <3>2, <3>3, KeepsPlace
    <3>5. Chained'
        BY Zenon, <3>1, <3>2, <3>3 DEF ResizeInv, Chained, RowAfter, FilledUp, LastOf
    <3>6. ResizeTyped'
        BY Zenon, <3>1, <3>2 DEF ResizeInv, ResizeTyped, Placed
    <3> QED
        BY Zenon, <3>4, <3>5, <3>6 DEF ResizeInv
  <2> QED
      BY Zenon, <2>1, <2>2
<1> QED
    BY <1>1, <1>2, PTL DEF ResizeSpec

\* The resized epochs walk round the rows without a gap or a repetition, across
\* native epochs, batches filled up or padded, resets that race the read-ahead,
\* and the batch read by the constructor.
THEOREM WalksRound == ResizeSpec => []Cyclic
<1>1. ResizeInv => Cyclic
    BY Zenon DEF ResizeInv
<1> QED
    BY <1>1, ResizeIterInvariance, PTL

=============================================================================
