------------------------ MODULE EngineClientTheorems ------------------------
(***************************************************************************)
(* What holds of EngineClient.  What a client may rely on when it waits is *)
(* proved for any number of clients; what the engine does with exceptions  *)
(* for one client of an engine that is not shut down.                      *)
(***************************************************************************)
EXTENDS EngineClientProofs

(***************************************************************************)
(* What the proofs know about cardinalities.  FiniteSetTheorems proves it  *)
(* (Counted, below); the lemmas assume it, so that the provers meet those  *)
(* theorems only where they are needed.                                    *)
(***************************************************************************)
CountNone ==
    /\ IsFiniteSet({}) /\ Cardinality({}) = 0
    /\ \A S : IsFiniteSet(S) => (Cardinality(S) = 0 <=> S = {})

CountOne == \A x : IsFiniteSet({x}) /\ Cardinality({x}) = 1

CountAdd ==
    \A S, x : IsFiniteSet(S) =>
       /\ IsFiniteSet(S \cup {x})
       /\ Cardinality(S \cup {x}) = IF x \in S THEN Cardinality(S) ELSE Cardinality(S) + 1

CountRemove ==
    \A S, x : IsFiniteSet(S) =>
       /\ IsFiniteSet(S \ {x})
       /\ Cardinality(S \ {x}) = IF x \in S THEN Cardinality(S) - 1 ELSE Cardinality(S)

Counting == CountNone /\ CountOne /\ CountAdd /\ CountRemove

(* The definitions in FiniteSets. *)
Listed(S) == \E seq \in Seq(S) : \A s \in S : \E n \in 1 .. Len(seq) : seq[n] = s
CountOf(S) ==
    LET CS[T \in SUBSET S] == IF T = {} THEN 0 ELSE 1 + CS[T \ {CHOOSE x : x \in T}]
    IN  CS[S]

(* Finite sets and cardinalities are the ones of FiniteSets. *)
LEMMA Cardinals == \A S : (IsFiniteSet(S) <=> Listed(S)) /\ Cardinality(S) = CountOf(S)
  BY Zenon DEF IsFiniteSet, Cardinality, Listed, CountOf

PendingInv == IsFiniteSet(Active) /\ pending = Cardinality(Active)

\* Nothing is pending at first.
LEMMA PendingInit ==
    ASSUME Counting, Init PROVE PendingInv
<1>1. Active = {} /\ pending = 0
  BY DEF Init, AInit, Active
<1> QED
  BY Zenon, <1>1 DEF Counting, CountNone, PendingInv

\* Push adds one.
LEMMA PendingIssue ==
    ASSUME Counting, ScheduleInv, PendingInv, NEW t \in Client, NEW b \in Blk, IssueNext(t, b)
    PROVE  PendingInv'
<1>1. stage[b] = "new" /\ stage' = [stage EXCEPT ![b] = "pushed"] /\ pending' = pending + 1
  BY Zenon DEF IssueNext, Issue
<1>2. b \notin Active /\ Active' = Active \cup {b}
  BY <1>1 DEF Active, ScheduleInv, Types
<1>3. IsFiniteSet(Active \cup {b}) /\ Cardinality(Active \cup {b}) = Cardinality(Active) + 1
  <2>1. IsFiniteSet(Active)
    BY Zenon DEF PendingInv
  <2> QED
    BY Zenon, <1>2, <2>1 DEF Counting, CountAdd
<1> QED
  BY SMTT(40), <1>1, <1>2, <1>3 DEF PendingInv

\* OnComplete takes one away.
LEMMA PendingEnd ==
    ASSUME Counting, ScheduleInv, PendingInv, NEW b \in Blk, CompleteEnd(b)
    PROVE  PendingInv'
<1>1. stage[b] = "started" /\ stage' = [stage EXCEPT ![b] = "finished"] /\ pending' = pending - 1
  BY Zenon DEF CompleteEnd, Finish
<1>2. b \in Active /\ Active' = Active \ {b}
  BY SMTT(40), <1>1 DEF Active, ScheduleInv, Types
<1>3. IsFiniteSet(Active \ {b}) /\ Cardinality(Active \ {b}) = Cardinality(Active) - 1
  <2>1. IsFiniteSet(Active)
    BY Zenon DEF PendingInv
  <2> QED
    BY Zenon, <1>2, <2>1 DEF Counting, CountRemove
<1> QED
  BY Zenon, <1>1, <1>2, <1>3 DEF PendingInv

\* Starting changes nothing in the count.
LEMMA PendingFrame ==
    ASSUME PendingInv, pending' = pending,
           \A c \in Blk : stage'[c] \in {"pushed", "started"} <=> stage[c] \in {"pushed", "started"}
    PROVE  PendingInv'
<1>1. Active' = Active
  BY DEF Active
<1> QED
  BY Zenon, <1>1 DEF PendingInv

\* Every step of a worker keeps the count.
LEMMA PendingWorker ==
    ASSUME Counting, ScheduleInv, PendingInv, NEW b \in Blk, WorkerStep(b)
    PROVE  PendingInv'
<1>1. \/ CompleteEnd(b)
      \/ pending' = pending /\ (Start(b) \/ (\E v \in Var : GiveUp(b, v)) \/ UNCHANGED avars)
  BY Zenon DEF WorkerStep, OnStart, SkipAtShutdown, ExecuteFn, FnReturns, FnThrows, WaitFnStore,
         WaitFnNotify, CompleteRead, MarkWrite, CompleteWrite, NotifyAll, wvars
<1>2. CASE pending' = pending /\ Start(b)
  <2>1. \A c \in Blk : stage'[c] \in {"pushed", "started"} <=> stage[c] \in {"pushed", "started"}
    BY <1>2 DEF Start, ScheduleInv, Types
  <2> QED
    BY Zenon, <1>2, <2>1, PendingFrame
<1>3. CASE pending' = pending /\ ((\E v \in Var : GiveUp(b, v)) \/ UNCHANGED avars)
  <2>1. stage' = stage
    BY <1>3 DEF GiveUp, avars
  <2> QED
    BY Zenon, <1>3, <2>1, PendingFrame
<1> QED
  BY Zenon, <1>1, <1>2, <1>3, PendingEnd

\* The rest of a call, its pushes aside.
LEMMA WaitGoesOn ==
    ASSUME ScheduleInv, CallInv, PushInv, WaitInv, NEW t \in Client,
           TestReady(t) \/ CheckPredicate(t) \/ ReadException(t) \/ ThrowException(t)
    PROVE  WaitInv'
<1>1. UNCHANGED <<avars, exec, caller, blk>>
  BY DEF TestReady, CheckPredicate, ReadException, ThrowException, evars
<1>2. UNCHANGED <<opr, stage, reached, held, ahead>>
  BY Zenon, <1>1 DEF avars
<1>3. /\ pc \in [Client -> {"idle", "test", "wait", "all", "throw", "clear"}]
      /\ DOMAIN out = Client /\ DOMAIN arg = Client /\ done \in [Client -> BOOLEAN]
      /\ Calling(t) /\ Waits(t)
  BY Zenon DEF CallInv, ClientTypes, WaitInv
<1>4. \A b \in Blk : WaitsFor(t, b)' <=> WaitsFor(t, b)
  BY Zenon, <1>1, <1>2 DEF WaitsFor
<1>5. ASSUME NEW s \in Client, s # t PROVE Waits(s)'
  <2>1. pc'[s] = pc[s] /\ out'[s] = out[s] /\ arg'[s] = arg[s] /\ done'[s] = done[s]
    BY Zenon, <1>3, <1>5 DEF TestReady, CheckPredicate, ReadException, ThrowException, wvars
  <2>2. Quiet(s)
    BY Zenon, <1>1, <2>1, QuietFrame
  <2> QED
    BY Zenon, <2>2, WaitQuiet DEF WaitInv
<1>6. arg'[t] = arg[t] /\ OwnDone(t) => OwnDone(t)'
  BY Zenon, <1>1, <1>2 DEF OwnDone, OwnWrite, On
<1>7. CASE TestReady(t)
  <2>1. /\ pc[t] = "test" /\ Pushed(t) /\ arg' = arg /\ done' = done
        /\ pc'[t] = IF ReadyToRead(arg[t]) THEN "throw" ELSE "wait"
        /\ out'[t] = IF ReadyToRead(arg[t]) THEN <<>> ELSE <<WaitOpr(arg[t])>>
    BY Zenon, <1>3, <1>7 DEF TestReady, wvars
  <2>2. ~done[t] /\ \A b \in Blk : ~WaitsFor(t, b)
    BY Zenon, <2>1, NotWaiting
  <2>3. ASSUME ReadyToRead(arg[t]) PROVE Waits(t)'
    <3>1. ASSUME NEW c \in Blk PROVE ~OwnWrite(t, c, arg[t])
      <4>1. SUFFICES ASSUME OwnWrite(t, c, arg[t]) PROVE FALSE
        BY Zenon
      <4>2. ~On(c, arg[t])
        BY Zenon, <2>3, <4>1 DEF ReadyToRead, OwnWrite
      <4>3. stage[c] = "pushed" /\ caller[c] = t /\ arg[t] \in Uses(c) /\ Caused(c)
        BY Zenon, <4>1, <4>2 DEF OwnWrite, Uses, PushInv
      <4>4. reached[c] = Uses(c)
        BY Zenon, <2>1, <4>3, ClientAssumption DEF Caused, Pushed
      <4> QED
        BY Zenon, <4>2, <4>3, <4>4 DEF On
    <3>2. OwnDone(t)'
      BY Zenon, <1>6, <2>1, <3>1 DEF OwnDone
    <3>3. Pushed(t)' /\ pc'[t] = "throw" /\ ~done'[t]
      BY Zenon, <1>1, <2>1, <2>2, <2>3 DEF Pushed
    <3> QED
      BY Zenon, <1>4, <2>2, <3>2, <3>3 DEF Waits
  <2>4. ASSUME ~ReadyToRead(arg[t]) PROVE Waits(t)'
    <3>1. pc'[t] = "wait" /\ ~done'[t] /\ blk'[t] = None
      BY Zenon, <1>1, <2>1, <2>2, <2>4 DEF Pushed
    <3>2. pc'[t] \notin {"throw", "clear"}
      BY <3>1
    <3> QED
      BY Zenon, <1>4, <2>2, <3>1, <3>2 DEF Waits
  <2>5. Waits(t)'
    BY Zenon, <2>3, <2>4
  <2> QED
    BY Zenon, <1>5, <2>5 DEF WaitInv
<1>8. CASE CheckPredicate(t)
  <2>1. pc[t] \in {"wait", "all"} /\ arg' = arg /\ out' = out /\ blk' = blk
    BY <1>8 DEF CheckPredicate
  <2>2. CASE pc' = pc /\ done' = done
    <3>1. Quiet(t)
      BY Zenon, <1>1, <2>1, <2>2, QuietFrame
    <3> QED
      BY Zenon, <1>5, <3>1, WaitQuiet DEF WaitInv
  <2>3. CASE Predicate(t) /\ pc[t] = "wait"
    <3>1. done[t] /\ pc'[t] = "throw" /\ ~done'[t]
      BY Zenon, <1>3, <1>8, <2>3 DEF CheckPredicate, Predicate
    <3>2. Pushed(t) /\ OwnDone(t) /\ \A b \in Blk : ~WaitsFor(t, b)
      BY Zenon, <1>3, <3>1 DEF Waits, Awaited
    <3>3. Pushed(t)' /\ OwnDone(t)'
      BY Zenon, <1>6, <2>1, <3>2 DEF Pushed
    <3>4. Waits(t)'
      BY Zenon, <1>4, <3>1, <3>2, <3>3 DEF Waits
    <3> QED
      BY Zenon, <1>5, <3>4 DEF WaitInv
  <2>4. CASE Predicate(t) /\ pc[t] = "all"
    <3>1. pc'[t] = "idle" /\ ~done'[t] /\ pc[t] # "wait"
      BY Zenon, <1>3, <1>8, <2>4 DEF CheckPredicate
    <3>2. \A b \in Blk : ~WaitsFor(t, b)'
      BY Zenon, <1>4, <3>1, NotWaiting
    <3>3. Waits(t)'
      BY Zenon, <3>1, <3>2, WaitNot
    <3> QED
      BY Zenon, <1>5, <3>3 DEF WaitInv
  <2> QED
    <3>1. Predicate(t) \/ (pc' = pc /\ done' = done)
      BY Zenon, <1>8 DEF CheckPredicate
    <3> QED
      BY Zenon, <2>1, <2>2, <2>3, <2>4, <3>1
<1>9. CASE ReadException(t) \/ ThrowException(t)
  <2>1. /\ pc[t] \in {"throw", "clear"} /\ out' = out /\ done' = done
        /\ pc'[t] = "idle" \/ (pc'[t] = "clear" /\ arg' = arg)
    BY Zenon, <1>3, <1>9 DEF ReadException, ThrowException, wvars
  <2>2. pc[t] # "wait"
    BY Zenon, <2>1
  <2>3. ~done[t] /\ \A b \in Blk : ~WaitsFor(t, b)
    BY Zenon, <2>2, NotWaiting
  <2>4. Pushed(t) /\ OwnDone(t)
    BY Zenon, <1>3, <2>1 DEF Waits
  <2>5. Waits(t)'
    <3>1. CASE pc'[t] = "idle"
      BY Zenon, <1>4, <2>1, <2>3, <3>1, WaitNot
    <3>2. CASE pc'[t] = "clear" /\ arg' = arg
      <4>1. Pushed(t)' /\ OwnDone(t)'
        BY Zenon, <1>1, <1>6, <2>1, <2>4, <3>2 DEF Pushed
      <4> QED
        BY Zenon, <1>4, <2>1, <2>3, <3>2, <4>1 DEF Waits
    <3> QED
      BY Zenon, <2>1, <3>1, <3>2
  <2> QED
    BY Zenon, <1>5, <2>5 DEF WaitInv
<1> QED
  BY Zenon, <1>7, <1>8, <1>9

\* Steps that leave calls, blocks and done alone.
LEMMA WaitFrame ==
    ASSUME CallInv, WaitInv, UNCHANGED <<avars, exec, caller, pc, out, arg, blk, done>>
    PROVE  WaitInv'
<1>1. ASSUME NEW t \in Client PROVE Waits(t)'
  <2>1. Quiet(t)
    BY Zenon, QuietFrame
  <2> QED
    BY Zenon, <2>1, WaitQuiet DEF WaitInv
<1> QED
  BY Zenon, <1>1 DEF WaitInv

-----------------------------------------------------------------------------
(* Any number of clients.                                                  *)

ClientInv == ScheduleInv /\ ExecInv /\ CallInv /\ PushInv /\ PendingInv /\ WaitInv

\* It holds at first.
LEMMA ClientInit ==
    ASSUME Counting, Init PROVE ClientInv
<1>1. AInit
  BY Zenon DEF Init
<1> QED
  BY Zenon, <1>1, ScheduleInit, ExecInit, CallInit, PushInit, PendingInit, WaitInit DEF ClientInv

\* Every step keeps it.
LEMMA ClientNext ==
    ASSUME Counting, ClientInv, [Next]_vars
    PROVE  ClientInv'
<1>1. ScheduleInv /\ ExecInv /\ ExecTypes /\ CallInv /\ PushInv /\ PendingInv /\ WaitInv
  BY Zenon DEF ClientInv, ExecInv
<1>2. ASSUME UNCHANGED <<avars, evars, pending, blk, caller>>
      PROVE  ScheduleInv' /\ ExecInv' /\ PushInv' /\ PendingInv'
  <2>1. ScheduleInv' /\ ExecInv'
    BY Zenon, <1>1, <1>2, ScheduleFrame, ExecFrame
  <2>2. UNCHANGED <<opr, reached>> /\ stage' = stage
    BY Zenon, <1>2 DEF avars
  <2>3. PushInv' /\ PendingInv'
    BY Zenon, <1>1, <1>2, <2>2, PushFrame, PendingFrame
  <2> QED
    BY Zenon, <2>1, <2>3
<1>3. ASSUME NEW t \in Client, ClientStep(t) PROVE ClientInv'
  <2>1. Starts(t)
    BY Zenon, <1>1, <1>3, CallStarts
  <2>2. UNCHANGED <<avars, evars, pending, blk, caller>>
    BY Zenon, <2>1 DEF Starts, wvars
  <2> QED
    BY Zenon, <1>1, <1>2, <2>1, <2>2, CallKept, WaitCall DEF ClientInv
<1>4. ASSUME NEW t \in Client, CallStep(t) PROVE ClientInv'
  <2>1. CallInv'
    BY Zenon, <1>1, <1>4, CallGoesOn
  <2>2. ASSUME NEW b \in Blk, IssueNext(t, b) PROVE ClientInv'
    <3>1. Issue(b, Head(out[t])) /\ UNCHANGED evars /\ out[t] # <<>>
      BY Zenon, <2>2 DEF IssueNext
    <3>2. Head(out[t]) \in Operators
      BY Zenon, <1>1, <3>1, NextOperator
    <3>3. ScheduleInv' /\ ExecInv'
      BY Zenon, <1>1, <3>1, <3>2, ScheduleIssue, ExecIssue
    <3> QED
      BY Zenon, <1>1, <2>1, <2>2, <3>3, PushIssue, PendingIssue, WaitIssue DEF ClientInv
  <2>3. ASSUME NEW v \in Var, ReachNext(t, v) PROVE ClientInv'
    <3>1. PICK b \in Blk : b = blk[t]
      BY Zenon, <1>1, <2>3 DEF ReachNext, PushInv, Pushing
    <3>2. Reach(b, v) /\ UNCHANGED evars /\ pending' = pending
      BY Zenon, <2>3, <3>1 DEF ReachNext, wvars
    <3>3. ScheduleInv' /\ ExecInv'
      BY Zenon, <1>1, <3>2, ScheduleReach, ExecReach
    <3>4. stage' = stage
      BY Zenon, <3>2 DEF Reach
    <3>5. PendingInv'
      BY Zenon, <1>1, <3>2, <3>4, PendingFrame
    <3> QED
      BY Zenon, <1>1, <2>1, <2>3, <3>3, <3>5, PushReach, WaitReach DEF ClientInv
  <2>4. CASE TestReady(t) \/ CheckPredicate(t) \/ ReadException(t)
    <3>1. UNCHANGED <<avars, evars, pending, blk, caller>>
      BY Zenon, <2>4 DEF TestReady, CheckPredicate, ReadException, wvars
    <3> QED
      BY Zenon, <1>1, <1>2, <2>1, <2>4, <3>1, WaitGoesOn DEF ClientInv
  <2>5. CASE Sleep(t)
    <3>1. UNCHANGED <<avars, evars, pending, blk, caller, exec, pc, out, arg, done>>
      BY Zenon, <2>5 DEF Sleep, cvars, evars
    <3> QED
      BY Zenon, <1>1, <1>2, <2>1, <3>1, WaitFrame DEF ClientInv
  <2>6. CASE ThrowException(t)
    <3>1. UNCHANGED <<avars, pending, blk, caller>>
      BY Zenon, <2>6 DEF ThrowException, wvars
    <3>2. ScheduleInv' /\ ExecInv'
      BY Zenon, <1>1, <2>6, <3>1, ScheduleFrame, ExecThrow
    <3>3. UNCHANGED <<opr, reached>> /\ stage' = stage
      BY Zenon, <3>1 DEF avars
    <3>4. PushInv' /\ PendingInv'
      BY Zenon, <1>1, <3>1, <3>3, PushFrame, PendingFrame
    <3> QED
      BY Zenon, <1>1, <2>1, <2>6, <3>2, <3>4, WaitGoesOn DEF ClientInv
  <2> QED
    BY Zenon, <1>4, <2>2, <2>3, <2>4, <2>5, <2>6 DEF CallStep
<1>5. ASSUME NEW t \in Client, SpuriousWakeup(t) PROVE ClientInv'
  <2>1. UNCHANGED <<avars, evars, pending, blk, caller, exec, pc, out, arg, done>>
    BY Zenon, <1>5 DEF SpuriousWakeup, cvars, evars
  <2> QED
    BY Zenon, <1>1, <1>2, <1>5, <2>1, CallSpurious, WaitFrame DEF ClientInv
<1>6. ASSUME NEW b \in Blk, WorkerStep(b) PROVE ClientInv'
  <2>1. ScheduleInv'
    BY Zenon, <1>1, <1>6, WorkerSchedule, ScheduleStart, ScheduleGiveUp, ScheduleFinish, ScheduleFrame
  <2> QED
    BY Zenon, <1>1, <1>6, <2>1, ExecWorker, CallWorker, PushWorker, PendingWorker, WaitWorker DEF ClientInv
<1>7. CASE NotifyShutdown
  <2>1. UNCHANGED <<avars, evars, pending, blk, caller, exec, pc, out, arg, done>>
    BY Zenon, <1>7 DEF NotifyShutdown, cvars, evars, wvars
  <2>2. CallInv'
    <3>1. UNCHANGED <<cvars, mutex, asleep, done>> /\ shutdown' = TRUE
      BY Zenon, <1>7 DEF NotifyShutdown, wvars
    <3>2. asleep' \subseteq asleep /\ done' \in [Client -> BOOLEAN] /\ shutdown' \in BOOLEAN
      BY Zenon, <1>1, <3>1 DEF CallInv, ClientTypes
    <3> QED
      BY Zenon, <1>1, <3>1, <3>2, CallFrame
  <2> QED
    BY Zenon, <1>1, <1>2, <2>1, <2>2, WaitFrame DEF ClientInv
<1>8. CASE UNCHANGED vars
  <2>1. UNCHANGED <<avars, evars, pending, blk, caller, exec, pc, out, arg, done, cvars, mutex, asleep, shutdown>>
    BY Zenon, <1>8 DEF vars, cvars, evars, wvars
  <2>2. asleep' \subseteq asleep /\ done' \in [Client -> BOOLEAN] /\ shutdown' \in BOOLEAN
    BY Zenon, <1>1, <2>1 DEF CallInv, ClientTypes
  <2> QED
    BY Zenon, <1>1, <1>2, <2>1, <2>2, CallFrame, WaitFrame DEF ClientInv
<1> QED
  BY Zenon, <1>3, <1>4, <1>5, <1>6, <1>7, <1>8 DEF Next

-----------------------------------------------------------------------------
(* Exceptions, with one client.                                            *)

SingleClient == \A s, t \in Client : s = t

(* The failure of b itself, if its function has thrown. *)
Failure(b) == {c \in {b} : cell[c] # "none"}
Known(c) == c = None \/ cell[c] # "none"

Clean(b) ==
    /\ stage[b] \in {"new", "pushed"} => opr_exception[b] = None
    /\ stage[b] \in {"new", "pushed"} \/ exec[b] \in {"marked", "running"} => cell[b] = "none"

(* A live cell on a variable is one of the failures behind its value, and   *)
(* without one, a client has been told of such a failure or there is none.  *)
VarFails(v) ==
    /\ Known(var_exception[v])
    /\ Live(var_exception[v]) => var_exception[v] \in taint[v]
    /\ ~Live(var_exception[v]) => Rethrown(taint[v])

(* The same for a block and what it reads and does. *)
BlkFails(b) ==
    /\ Live(opr_exception[b]) => opr_exception[b] \in sees[b] \cup Failure(b)
    /\ ~Live(opr_exception[b]) => Rethrown(sees[b] \cup Failure(b))
    /\ \A v \in held[b] : Live(var_exception[v]) => var_exception[v] \in sees[b]

Clearing(t) ==
    pc[t] = "clear" => tmp[t] = var_exception[arg[t]] /\ Live(tmp[t])

FailInv ==
    /\ thrown \in [Blk -> Nat] /\ shutdown = FALSE
    /\ \A b \in Blk : thrown[b] = IF cell[b] = "empty" THEN 1 ELSE 0
    /\ \A b \in Blk : Clean(b) /\ Known(opr_exception[b])
    /\ \A b \in Blk : stage[b] = "started" => BlkFails(b)
    /\ \A v \in Var : VarFails(v)
    /\ NoRunOnPoison
    /\ \A t \in Client : Clearing(t)

\* Nothing has failed at first.
LEMMA FailInit ==
    ASSUME Init PROVE FailInv
<1>1. /\ thrown \in [Blk -> Nat] /\ shutdown = FALSE
      /\ \A b \in Blk : thrown[b] = IF cell[b] = "empty" THEN 1 ELSE 0
      /\ NoRunOnPoison
      /\ \A t \in Client : Clearing(t)
  BY DEF Init, NoRunOnPoison, Clearing
<1>2. \A b \in Blk : /\ Clean(b) /\ Known(opr_exception[b])
                     /\ stage[b] # "started"
  BY Zenon DEF Init, AInit, Clean, Known
<1>3. \A v \in Var : VarFails(v)
  BY Zenon DEF Init, VarFails, Known, Live, Rethrown
<1> QED
  BY Zenon, <1>1, <1>2, <1>3 DEF FailInv

\* Steps that touch no cell, start no block and start no function that is not
\* known to read good values.
LEMMA FailFrame ==
    ASSUME FailInv,
           UNCHANGED <<cell, thrown, opr_exception, var_exception, sees, taint, shutdown>>,
           \A b \in Blk : stage'[b] \in {"new", "pushed"} => stage[b] \in {"new", "pushed"},
           \A b \in Blk : exec'[b] \in {"marked", "running"} => exec[b] \in {"marked", "running"},
           \A b \in Blk : stage'[b] = "started" => stage[b] = "started" /\ held'[b] \subseteq held[b],
           \A b \in Blk : exec'[b] = "running" /\ ~opr'[b].wait =>
                             (exec[b] = "running" /\ ~opr[b].wait) \/ Rethrown(sees[b]),
           \A t \in Client : Clearing(t)'
    PROVE  FailInv'
<1>1. ASSUME NEW c PROVE (Live(c)' <=> Live(c)) /\ (Known(c)' <=> Known(c))
  BY Zenon DEF Live, Known
<1>2. ASSUME NEW S PROVE Rethrown(S)' <=> Rethrown(S)
  BY Zenon DEF Rethrown
<1>3. ASSUME NEW b \in Blk PROVE Clean(b)' /\ Known(opr_exception[b])'
  BY Zenon DEF FailInv, Clean, Known
<1>4. ASSUME NEW v \in Var PROVE VarFails(v)'
  BY Zenon DEF FailInv, VarFails, Known, Live, Rethrown
<1>5. ASSUME NEW b \in Blk, stage'[b] = "started" PROVE BlkFails(b)'
  <2>1. BlkFails(b) /\ held'[b] \subseteq held[b]
    BY Zenon, <1>5 DEF FailInv
  <2> QED
    BY Zenon, <2>1 DEF BlkFails, Live, Rethrown, Failure
<1>6. NoRunOnPoison'
  <2>1. ASSUME NEW b \in Blk, exec'[b] = "running", ~opr'[b].wait PROVE Rethrown(sees[b])
    BY Zenon, <2>1 DEF FailInv, NoRunOnPoison
  <2> QED
    BY Zenon, <2>1 DEF NoRunOnPoison, Rethrown
<1> QED
  BY Zenon, <1>3, <1>4, <1>5, <1>6 DEF FailInv

\* The client empties the cell that it has read, and rethrows it: whoever shares
\* the cell loses it, and every failure it stood for has been told.
LEMMA FailThrow ==
    ASSUME ClientInv, FailInv, SingleClient, NEW t \in Client, ThrowException(t)
    PROVE  FailInv'
<1> DEFINE x == var_exception[arg[t]]
<1>1. Clearing(t) /\ Calling(t)
  BY Zenon DEF FailInv, ClientInv, CallInv
<1>2. pc[t] = "clear" /\ tmp[t] = x /\ Live(x) /\ arg[t] \in Var
  BY Zenon, <1>1 DEF ThrowException, Clearing, Calling
<1>3. x \in Blk /\ cell[x] = "live" /\ DOMAIN cell = Blk
  BY Zenon, <1>2 DEF ClientInv, ExecInv, ExecTypes, Live
<1>4. /\ cell' = [cell EXCEPT ![x] = "empty"]
      /\ thrown' = [thrown EXCEPT ![x] = thrown[x] + 1]
      /\ UNCHANGED <<stage, held, opr, exec, opr_exception, var_exception, sees, taint, shutdown>>
  BY Zenon, <1>2 DEF ThrowException, Cleared, avars
<1>5. /\ thrown \in [Blk -> Nat] /\ shutdown = FALSE
      /\ \A b \in Blk : thrown[b] = IF cell[b] = "empty" THEN 1 ELSE 0
  BY Zenon DEF FailInv
<1> HIDE DEF x
<1>6. /\ thrown' \in [Blk -> Nat]
      /\ \A b \in Blk : thrown'[b] = IF cell'[b] = "empty" THEN 1 ELSE 0
      /\ thrown'[x] > 0 /\ \A b \in Blk : thrown'[b] >= thrown[b]
  BY SMTT(40), <1>3, <1>4, <1>5
<1>7. ASSUME NEW c, c = None \/ c \in Blk
      PROVE  /\ Live(c)' => Live(c)
             /\ Live(c) /\ ~Live(c)' => c = x
             /\ Known(c) => Known(c)'
  BY Zenon, <1>3, <1>4, <1>7 DEF Live, Known
<1>8. ASSUME NEW S \in SUBSET Blk
      PROVE  (Rethrown(S) => Rethrown(S)') /\ (x \in S => Rethrown(S)')
  BY SMTT(40), <1>5, <1>6 DEF Rethrown
<1>9. ASSUME NEW b \in Blk PROVE Failure(b)' = Failure(b)
  BY Zenon, <1>3, <1>4 DEF Failure
<1>10. /\ opr_exception \in [Blk -> Blk \cup {None}] /\ var_exception \in [Var -> Blk \cup {None}]
       /\ sees \in [Blk -> SUBSET Blk] /\ taint \in [Var -> SUBSET Blk]
       /\ held \in [Blk -> SUBSET Var]
  BY Zenon DEF ClientInv, ExecInv, ExecTypes, ScheduleInv, Types
<1>11. ASSUME NEW b \in Blk PROVE Clean(b)' /\ Known(opr_exception[b])'
  <2>1. Clean(b) /\ Known(opr_exception[b])
    BY Zenon DEF FailInv
  <2>2. Known(opr_exception[b])'
    BY Zenon, <1>3, <1>4, <1>10, <2>1 DEF Known
  <2> QED
    BY Zenon, <1>3, <1>4, <2>1, <2>2 DEF Clean
<1>12. ASSUME NEW v \in Var PROVE VarFails(v)'
  <2>1. VarFails(v) /\ (var_exception[v] = None \/ var_exception[v] \in Blk) /\ taint[v] \in SUBSET Blk
    BY Zenon, <1>10 DEF FailInv
  <2>2. /\ Live(var_exception[v])' => Live(var_exception[v])
        /\ Live(var_exception[v]) /\ ~Live(var_exception[v])' => var_exception[v] = x
        /\ Known(var_exception[v]) => Known(var_exception[v])'
    BY Zenon, <1>3, <1>4, <2>1 DEF Live, Known
  <2>3. (Rethrown(taint[v]) => Rethrown(taint[v])') /\ (x \in taint[v] => Rethrown(taint[v])')
    BY Zenon, <1>4, <1>5, <1>6, <2>1 DEF Rethrown
  <2> QED
    BY Zenon, <1>4, <2>1, <2>2, <2>3 DEF VarFails
<1>13. ASSUME NEW b \in Blk, stage'[b] = "started" PROVE BlkFails(b)'
  <2>1. BlkFails(b) /\ (opr_exception[b] = None \/ opr_exception[b] \in Blk) /\ sees[b] \in SUBSET Blk
    BY Zenon, <1>4, <1>10, <1>13 DEF FailInv
  <2>2. /\ Live(opr_exception[b])' => Live(opr_exception[b])
        /\ Live(opr_exception[b]) /\ ~Live(opr_exception[b])' => opr_exception[b] = x
    BY Zenon, <1>3, <1>4, <2>1 DEF Live
  <2>3. Failure(b)' = Failure(b) /\ Failure(b) \in SUBSET Blk
    BY Zenon, <1>9 DEF Failure
  <2>4. /\ Rethrown(sees[b] \cup Failure(b)) => Rethrown(sees[b] \cup Failure(b))'
        /\ x \in sees[b] \cup Failure(b) => Rethrown(sees[b] \cup Failure(b))'
    BY Zenon, <1>4, <1>5, <1>6, <2>1, <2>3 DEF Rethrown
  <2>5. ASSUME NEW v \in held'[b], Live(var_exception[v])' PROVE var_exception'[v] \in sees'[b]
    <3>1. v \in held[b] /\ (var_exception[v] = None \/ var_exception[v] \in Blk)
      BY Zenon, <1>4, <1>10, <2>5
    <3>2. Live(var_exception[v])
      BY Zenon, <1>3, <1>4, <2>5, <3>1 DEF Live
    <3> QED
      BY Zenon, <1>4, <2>1, <3>1, <3>2 DEF BlkFails
  <2> QED
    BY Zenon, <1>4, <2>1, <2>2, <2>3, <2>4, <2>5 DEF BlkFails
<1>14. NoRunOnPoison'
  <2>1. ASSUME NEW b \in Blk, exec'[b] = "running", ~opr'[b].wait PROVE Rethrown(sees[b])'
    <3>1. Rethrown(sees[b]) /\ sees[b] \in SUBSET Blk
      BY Zenon, <1>4, <1>10, <2>1 DEF FailInv, NoRunOnPoison
    <3> QED
      BY Zenon, <1>4, <1>5, <1>6, <3>1 DEF Rethrown
  <2> QED
    BY Zenon, <2>1 DEF NoRunOnPoison
<1>15. ASSUME NEW s \in Client PROVE Clearing(s)'
  <2>1. s = t
    BY Zenon DEF SingleClient
  <2>2. pc'[t] = "idle"
    BY DEF ThrowException, ClientInv, CallInv, ClientTypes
  <2> QED
    BY Zenon, <2>1, <2>2 DEF Clearing
<1> QED
  BY Zenon, <1>4, <1>5, <1>6, <1>11, <1>12, <1>13, <1>14, <1>15 DEF FailInv

\* OnStart finds a live cell on one of the block's variables, or none of them has one.
LEMMA FailStart ==
    ASSUME ScheduleInv, ExecInv, FailInv, NEW b \in Blk, OnStart(b)
    PROVE  FailInv'
<1>1. stage[b] = "pushed" /\ stage[b] # "new" /\ ExecTypes /\ Types
  BY DEF OnStart, Start, ExecInv, ScheduleInv
<1>2. /\ Uses(b) \subseteq Var /\ Found(b) \subseteq Blk /\ Inputs(b) \subseteq Blk
      /\ \A c \in Found(b) : \E v \in Uses(b) : c = var_exception[v] /\ Live(c)
      /\ Found(b) = {} => \A v \in Uses(b) : ~Live(var_exception[v])
  BY Zenon, <1>1, Starting
<1>3. opr_exception[b] = None /\ cell[b] = "none"
  BY Zenon, <1>1 DEF FailInv, Clean
<1>4. /\ stage' = [stage EXCEPT ![b] = "started"]
      /\ held' = [held EXCEPT ![b] = Uses(b)]
      /\ exec' = [exec EXCEPT ![b] = "marked"]
      /\ sees' = [sees EXCEPT ![b] = Inputs(b)]
      /\ UNCHANGED <<opr, cell, thrown, var_exception, taint, shutdown>>
      /\ UNCHANGED <<pc, tmp, arg>>
      /\ \/ Found(b) = {} /\ opr_exception' = opr_exception
         \/ \E c \in Found(b) : opr_exception' = [opr_exception EXCEPT ![b] = c]
  BY DEF OnStart, Start, cvars
<1>5. ASSUME NEW v \in Uses(b)
      PROVE  /\ Live(var_exception[v]) => var_exception[v] \in Inputs(b)
             /\ ~Live(var_exception[v]) => Rethrown(taint[v])
             /\ taint[v] \subseteq Inputs(b)
  <2>1. VarFails(v) /\ taint[v] \subseteq Inputs(b)
    BY Zenon, <1>2 DEF FailInv, Inputs
  <2> QED
    BY Zenon, <2>1 DEF VarFails
<1>6. ASSUME NEW c \in Blk, c # b
      PROVE  /\ stage'[c] = stage[c] /\ held'[c] = held[c] /\ exec'[c] = exec[c]
             /\ sees'[c] = sees[c] /\ opr_exception'[c] = opr_exception[c]
  BY Zenon, <1>1, <1>4, <1>6 DEF ExecTypes, Types
<1>7. stage'[b] = "started" /\ held'[b] = Uses(b) /\ exec'[b] = "marked" /\ sees'[b] = Inputs(b)
  BY Zenon, <1>1, <1>4 DEF ExecTypes, Types
<1>8. \/ Found(b) = {} /\ opr_exception'[b] = None
      \/ \E c \in Found(b) : opr_exception'[b] = c
  BY Zenon, <1>1, <1>3, <1>4 DEF ExecTypes
<1>9. ASSUME NEW c PROVE (Live(c)' <=> Live(c)) /\ (Known(c)' <=> Known(c))
  BY Zenon, <1>4 DEF Live, Known
<1>10. ASSUME NEW c \in Blk PROVE Clean(c)' /\ Known(opr_exception[c])'
  <2>1. Clean(c) /\ Known(opr_exception[c])
    BY Zenon DEF FailInv
  <2>2. CASE c # b
    BY Zenon, <1>4, <1>6, <2>1, <2>2 DEF Clean, Known
  <2>3. CASE c = b
    <3>1. Clean(b)'
      BY Zenon, <1>3, <1>4, <1>7 DEF Clean
    <3>2. opr_exception'[b] = None \/ Live(opr_exception'[b])
      BY Zenon, <1>2, <1>8
    <3> QED
      BY Zenon, <1>4, <2>3, <3>1, <3>2 DEF Known, Live
  <2> QED
    BY Zenon, <2>2, <2>3
<1>11. ASSUME NEW v \in Var PROVE VarFails(v)'
  BY Zenon, <1>4 DEF FailInv, VarFails, Known, Live, Rethrown
<1>12. ASSUME NEW c \in Blk, c # b, stage'[c] = "started" PROVE BlkFails(c)'
  <2>1. BlkFails(c)
    BY Zenon, <1>6, <1>12 DEF FailInv
  <2> QED
    BY Zenon, <1>4, <1>6, <1>12, <2>1 DEF BlkFails, Live, Rethrown, Failure
<1>13. BlkFails(b)'
  <2>1. Failure(b)' = {}
    BY Zenon, <1>3, <1>4 DEF Failure
  <2>2. \A v \in held'[b] : Live(var_exception'[v]) => var_exception'[v] \in sees'[b]
    BY Zenon, <1>4, <1>5, <1>7
  <2>3. Live(opr_exception'[b]) => opr_exception'[b] \in Inputs(b)
    BY Zenon, <1>2, <1>5, <1>8 DEF Live
  <2>4. ~Live(opr_exception'[b]) => Rethrown(Inputs(b))
    <3>1. SUFFICES ASSUME ~Live(opr_exception'[b]) PROVE Rethrown(Inputs(b))
      OBVIOUS
    <3>2. Found(b) = {}
      BY Zenon, <1>2, <1>8, <3>1
    <3>3. \A v \in Uses(b) : Rethrown(taint[v]) /\ taint[v] \subseteq Inputs(b)
      BY Zenon, <1>2, <1>5, <3>2
    <3>4. CASE \A v \in Uses(b) : taint[v] = {}
      <4>1. Inputs(b) = {}
        BY Zenon, <3>4 DEF Inputs
      <4> QED
        BY Zenon, <4>1 DEF Rethrown
    <3>5. CASE \E v \in Uses(b) : taint[v] # {}
      BY Zenon, <3>3, <3>5 DEF Rethrown
    <3> QED
      BY Zenon, <3>4, <3>5
  <2> QED
    BY Zenon, <1>4, <1>7, <2>1, <2>2, <2>3, <2>4 DEF BlkFails, Live, Rethrown
<1>14. NoRunOnPoison'
  <2>1. ASSUME NEW c \in Blk, exec'[c] = "running", ~opr'[c].wait
        PROVE  Rethrown(sees[c]) /\ sees'[c] = sees[c]
    BY Zenon, <1>4, <1>6, <1>7, <2>1 DEF FailInv, NoRunOnPoison
  <2> QED
    BY Zenon, <1>4, <2>1 DEF NoRunOnPoison, Rethrown
<1>15. \A t \in Client : Clearing(t)'
  BY Zenon, <1>4 DEF FailInv, Clearing, Live
<1>16. /\ thrown' \in [Blk -> Nat] /\ shutdown' = FALSE
       /\ \A c \in Blk : thrown'[c] = IF cell'[c] = "empty" THEN 1 ELSE 0
  BY Zenon, <1>4 DEF FailInv
<1> QED
  BY Zenon, <1>10, <1>11, <1>12, <1>13, <1>14, <1>15, <1>16 DEF FailInv

\* A function throws: a cell that nobody has met appears.
LEMMA FailNew ==
    ASSUME ScheduleInv, ExecInv, FailInv, NEW b \in Blk, FnThrows(b)
    PROVE  FailInv'
<1>1. exec[b] = "running" /\ ExecTypes
  BY DEF FnThrows, ExecInv
<1>2. cell[b] = "none"
  BY Zenon, <1>1 DEF FailInv, Clean
<1>3. /\ cell' = [cell EXCEPT ![b] = "live"]
      /\ opr_exception' = [opr_exception EXCEPT ![b] = b]
      /\ exec' = [exec EXCEPT ![b] = "complete"]
      /\ UNCHANGED <<stage, held, opr, thrown, var_exception, sees, taint, shutdown>>
      /\ UNCHANGED <<pc, tmp, arg>>
  BY DEF FnThrows, cvars, avars
<1>4. /\ \A v \in Var : var_exception[v] # b
      /\ \A c \in Blk : opr_exception[c] # b
  BY Zenon, <1>2, ClientAssumption DEF FailInv, VarFails, Known
<1>5. ASSUME NEW c \in Blk, c # b
      PROVE  /\ cell'[c] = cell[c] /\ exec'[c] = exec[c] /\ opr_exception'[c] = opr_exception[c]
             /\ Failure(c)' = Failure(c)
  BY Zenon, <1>1, <1>3, <1>5 DEF ExecTypes, Failure
<1>6. cell'[b] = "live" /\ exec'[b] = "complete" /\ opr_exception'[b] = b /\ b # None
  BY Zenon, <1>1, <1>3, ClientAssumption DEF ExecTypes
<1>7. ASSUME NEW c, c = None \/ c \in Blk \ {b}
      PROVE  (Live(c)' <=> Live(c)) /\ (Known(c)' <=> Known(c))
  BY Zenon, <1>5, <1>7 DEF Live, Known
<1>8. ASSUME NEW c \in Blk PROVE Clean(c)' /\ Known(opr_exception[c])'
  <2>1. Clean(c) /\ Known(opr_exception[c]) /\ Executed(c)
    BY Zenon DEF FailInv, ExecInv
  <2>2. CASE c # b
    <3>1. opr_exception[c] = None \/ opr_exception[c] \in Blk \ {b}
      BY Zenon, <1>1, <1>4 DEF ExecTypes
    <3>2. Known(opr_exception[c])'
      BY Zenon, <1>5, <2>1, <2>2, <3>1 DEF Known
    <3> QED
      BY Zenon, <1>3, <1>5, <2>1, <2>2, <3>2 DEF Clean
  <2>3. CASE c = b
    <3>1. Executed(b) /\ Known(b)'
      BY Zenon, <1>6, <2>1, <2>3 DEF Known
    <3> QED
      BY Zenon, <1>1, <1>3, <1>6, <2>3, <3>1 DEF Clean, Executed, Known
  <2> QED
    BY Zenon, <2>2, <2>3
<1>9. ASSUME NEW v \in Var PROVE VarFails(v)'
  <2>1. var_exception[v] = None \/ var_exception[v] \in Blk \ {b}
    BY Zenon, <1>1, <1>4 DEF ExecTypes
  <2>2. VarFails(v)
    BY Zenon DEF FailInv
  <2> QED
    BY Zenon, <1>3, <1>5, <2>1, <2>2 DEF VarFails, Live, Known, Rethrown
<1>10. ASSUME NEW c \in Blk, stage'[c] = "started" PROVE BlkFails(c)'
  <2>1. BlkFails(c) /\ held'[c] = held[c] /\ held[c] \subseteq Var
    BY Zenon, <1>3, <1>10 DEF FailInv, ScheduleInv, Types
  <2>2. ASSUME NEW v \in held'[c], Live(var_exception[v])' PROVE var_exception'[v] \in sees'[c]
    <3>1. v \in held[c] /\ (var_exception[v] = None \/ var_exception[v] \in Blk \ {b})
      BY Zenon, <1>1, <1>4, <2>1, <2>2 DEF ExecTypes
    <3>2. Live(var_exception[v])
      BY Zenon, <1>3, <1>5, <2>2, <3>1 DEF Live
    <3> QED
      BY Zenon, <1>3, <2>1, <3>1, <3>2 DEF BlkFails
  <2>3. CASE c = b
    <3>1. Live(opr_exception[b])' /\ b \in Failure(b)'
      BY Zenon, <1>6 DEF Live, Failure
    <3> QED
      BY Zenon, <1>6, <2>2, <2>3, <3>1 DEF BlkFails
  <2>4. CASE c # b
    <3>1. opr_exception[c] = None \/ opr_exception[c] \in Blk \ {b}
      BY SMTT(40), <1>1, <1>4 DEF ExecTypes
    <3>2. Live(opr_exception[c])' <=> Live(opr_exception[c])
      BY Zenon, <1>5, <2>4, <3>1 DEF Live
    <3> QED
      BY Zenon, <1>3, <1>5, <2>1, <2>2, <2>4, <3>2 DEF BlkFails, Rethrown
  <2> QED
    BY Zenon, <2>3, <2>4
<1>11. NoRunOnPoison'
  <2>1. ASSUME NEW c \in Blk, exec'[c] = "running", ~opr'[c].wait PROVE Rethrown(sees[c])
    BY Zenon, <1>3, <1>5, <1>6, <2>1 DEF FailInv, NoRunOnPoison
  <2> QED
    BY Zenon, <1>3, <2>1 DEF NoRunOnPoison, Rethrown
<1>12. ASSUME NEW t \in Client PROVE Clearing(t)'
  <2>1. Clearing(t)
    BY Zenon DEF FailInv
  <2>2. Live(tmp[t]) => Live(tmp[t])'
    BY SMTT(40), SMTT(40), <1>1, <1>2, <1>3 DEF Live, ExecTypes
  <2> QED
    BY Zenon, <1>3, <2>1, <2>2 DEF Clearing
<1>13. /\ thrown' \in [Blk -> Nat] /\ shutdown' = FALSE
       /\ \A c \in Blk : thrown'[c] = IF cell'[c] = "empty" THEN 1 ELSE 0
  BY ZenonT(30), <1>2, <1>3, <1>5, <1>6 DEF FailInv
<1> QED
  BY Zenon, <1>8, <1>9, <1>10, <1>11, <1>12, <1>13 DEF FailInv

\* A block gives up a variable that it has written: what the variable holds comes out
\* of what the block saw and did, and no other block and no client looks at it.
LEMMA FailWrite ==
    ASSUME ClientInv, FailInv, SingleClient, NEW b \in Blk, NEW v \in Var, CompleteWrite(b, v)
    PROVE  FailInv'
<1>1. ScheduleInv /\ ExecTypes /\ Types /\ PushInv /\ WaitInv
  BY Zenon DEF ClientInv, ExecInv, ScheduleInv
<1>2. /\ stage[b] = "started" /\ v \in held[b] /\ v \in opr[b].mutable_vars
      /\ exec[b] = "complete"
      /\ held' = [held EXCEPT ![b] = @ \ {v}]
      /\ var_exception' = [var_exception EXCEPT ![v] = Handed(b, v)]
      /\ taint' = [taint EXCEPT ![v] = sees[b] \cup Failure(b)]
      /\ UNCHANGED <<opr, stage, exec, cell, opr_exception, sees, thrown, shutdown>>
      /\ UNCHANGED <<pc, tmp, arg>>
  BY Zenon DEF CompleteWrite, GiveUp, cvars, Failure
<1>3. BlkFails(b)
  BY Zenon, <1>2 DEF FailInv
<1>4. ASSUME NEW c PROVE (Live(c)' <=> Live(c)) /\ (Known(c)' <=> Known(c))
  BY Zenon, <1>2 DEF Live, Known
<1>5. ASSUME NEW u \in Var, u # v
      PROVE  var_exception'[u] = var_exception[u] /\ taint'[u] = taint[u]
  BY Zenon, <1>1, <1>2, <1>5 DEF ExecTypes
<1>6. var_exception'[v] = Handed(b, v) /\ taint'[v] = sees[b] \cup Failure(b)
  BY Zenon, <1>1, <1>2 DEF ExecTypes
<1>7. ASSUME NEW u \in Var PROVE VarFails(u)'
  <2>1. VarFails(u) /\ VarFails(v) /\ Known(opr_exception[b])
    BY Zenon DEF FailInv
  <2>2. CASE u # v
    BY Zenon, <1>2, <1>5, <2>1, <2>2 DEF VarFails, Known, Live, Rethrown
  <2>3. CASE u = v
    <3>1. Known(Handed(b, v))
      BY Zenon, <2>1 DEF VarFails, Handed
    <3>2. Live(Handed(b, v)) => Handed(b, v) \in sees[b] \cup Failure(b)
      <4>1. CASE v \in marked[b]
        BY Zenon, <1>3, <4>1 DEF BlkFails, Handed
      <4>2. CASE v \notin marked[b]
        BY Zenon, <1>2, <1>3, <4>2 DEF BlkFails, Handed
      <4> QED
        BY Zenon, <4>1, <4>2
    <3>3. ~Live(Handed(b, v)) => Rethrown(sees[b] \cup Failure(b))
      <4>1. marked[b] = {v} \/ ~Live(opr_exception[b])
        BY Zenon DEF CompleteWrite
      <4>2. CASE marked[b] = {v}
        <5>1. Handed(b, v) = opr_exception[b]
          BY Zenon, <4>2 DEF Handed
        <5> QED
          BY Zenon, <1>3, <5>1 DEF BlkFails
      <4>3. CASE ~Live(opr_exception[b])
        BY Zenon, <1>3, <4>3 DEF BlkFails
      <4> QED
        BY Zenon, <4>1, <4>2, <4>3
    <3> QED
      BY Zenon, <1>2, <1>6, <2>3, <3>1, <3>2, <3>3 DEF VarFails, Known, Live, Rethrown
  <2> QED
    BY Zenon, <2>2, <2>3
<1>8. ASSUME NEW c \in Blk, stage'[c] = "started" PROVE BlkFails(c)'
  <2>1. stage[c] = "started" /\ BlkFails(c) /\ held[c] \subseteq Var
    BY Zenon, <1>1, <1>2, <1>8 DEF FailInv, Types
  <2>2. ASSUME NEW u \in held'[c] PROVE u \in held[c] /\ u # v /\ u \in Var
    <3>1. u \in held[c] /\ (c = b => u # v)
      BY Zenon, <1>1, <1>2, <2>2 DEF Types
    <3>2. c # b => u # v
      <4>1. SUFFICES ASSUME c # b, u = v PROVE FALSE
        OBVIOUS
      <4>2. ~Conflict(b, c, v)
        BY Zenon, <1>1, <1>2, <2>1, <3>1, <4>1, Exclusive
      <4> QED
        BY Zenon, <1>2, <4>2 DEF Conflict
    <3> QED
      BY Zenon, <2>1, <3>1, <3>2
  <2>3. ASSUME NEW u \in held'[c], Live(var_exception[u])' PROVE var_exception'[u] \in sees'[c]
    <3>1. u \in held[c] /\ var_exception'[u] = var_exception[u] /\ Live(var_exception[u])
      BY Zenon, <1>2, <1>5, <2>2, <2>3 DEF Live
    <3> QED
      BY Zenon, <1>2, <2>1, <3>1 DEF BlkFails
  <2> QED
    BY Zenon, <1>2, <2>1, <2>3 DEF BlkFails, Live, Rethrown, Failure
<1>9. ASSUME NEW c \in Blk PROVE Clean(c)' /\ Known(opr_exception[c])'
  BY Zenon, <1>2 DEF FailInv, Clean, Known
<1>10. NoRunOnPoison'
  BY Zenon, <1>2 DEF FailInv, NoRunOnPoison, Rethrown
<1>11. ASSUME NEW t \in Client PROVE Clearing(t)'
  <2>1. SUFFICES ASSUME pc[t] = "clear" PROVE Clearing(t)'
    BY Zenon, <1>2 DEF Clearing
  <2>2. OwnDone(t) /\ arg[t] \in Var
    <3>1. Waits(t) /\ Calling(t)
      BY Zenon, <1>1 DEF ClientInv, CallInv, WaitInv
    <3> QED
      BY Zenon, <2>1, <3>1 DEF Waits, Calling
  <2>3. caller[b] = t
    BY Zenon, <1>1, <1>2 DEF PushInv, Caused, SingleClient
  <2>4. arg[t] # v
    BY Zenon, <1>2, <2>2, <2>3 DEF OwnDone, OwnWrite, On
  <2>5. Clearing(t) /\ var_exception'[arg[t]] = var_exception[arg[t]]
    BY Zenon, <1>5, <2>2, <2>4 DEF FailInv
  <2> QED
    BY Zenon, <1>2, <2>5 DEF Clearing, Live
<1>12. /\ thrown' \in [Blk -> Nat] /\ shutdown' = FALSE
       /\ \A c \in Blk : thrown'[c] = IF cell'[c] = "empty" THEN 1 ELSE 0
  BY Zenon, <1>2 DEF FailInv
<1> QED
  BY Zenon, <1>7, <1>8, <1>9, <1>10, <1>11, <1>12 DEF FailInv

\* The steps of workers.
LEMMA FailWorker ==
    ASSUME ClientInv, FailInv, SingleClient, NEW b \in Blk, WorkerStep(b)
    PROVE  FailInv'
<1>1. ScheduleInv /\ ExecInv /\ ExecTypes /\ Types /\ shutdown = FALSE
  BY Zenon DEF ClientInv, ExecInv, ScheduleInv, FailInv
<1>2. ASSUME UNCHANGED <<cell, thrown, opr_exception, var_exception, sees, taint, shutdown>>,
             UNCHANGED <<pc, arg, tmp>>, opr' = opr,
             \A c \in Blk : stage'[c] \in {"new", "pushed"} => stage[c] \in {"new", "pushed"},
             \A c \in Blk : exec'[c] \in {"marked", "running"} => exec[c] \in {"marked", "running"},
             \A c \in Blk : stage'[c] = "started" => stage[c] = "started" /\ held'[c] \subseteq held[c],
             \A c \in Blk : exec'[c] = "running" /\ ~opr[c].wait =>
                               exec[c] = "running" \/ Rethrown(sees[c])
      PROVE  FailInv'
  <2>1. \A t \in Client : Clearing(t)'
    BY Zenon, <1>2 DEF FailInv, Clearing, Live
  <2>2. \A c \in Blk : exec'[c] = "running" /\ ~opr'[c].wait =>
                          (exec[c] = "running" /\ ~opr[c].wait) \/ Rethrown(sees[c])
    BY Zenon, <1>2
  <2> QED
    BY Zenon, <1>2, <2>1, <2>2, FailFrame
<1>3. CASE ExecuteFn(b)
  <2>1. exec'[b] = "running" /\ ~opr[b].wait => Rethrown(sees[b])
    <3>1. SUFFICES ASSUME exec'[b] = "running", ~opr[b].wait PROVE Rethrown(sees[b])
      BY Zenon
    <3>2. exec[b] = "marked" /\ ~Live(opr_exception[b])
      BY Zenon, <1>1, <1>3, <3>1 DEF ExecuteFn, Runs, ExecTypes
    <3>3. cell[b] = "none" /\ BlkFails(b)
      BY Zenon, <1>1, <3>2 DEF FailInv, Clean, ExecInv, Executed
    <3>4. sees[b] \cup Failure(b) = sees[b]
      BY Zenon, <3>3 DEF Failure
    <3>5. Rethrown(sees[b] \cup Failure(b))
      BY Zenon, <3>2, <3>3 DEF BlkFails
    <3> QED
      BY Zenon, <3>4, <3>5
  <2>2. \A c \in Blk : /\ exec'[c] \in {"marked", "running"} => exec[c] \in {"marked", "running"}
                       /\ c # b => exec'[c] = exec[c]
    BY Zenon, <1>1, <1>3 DEF ExecuteFn, ExecTypes
  <2>3. /\ UNCHANGED <<cell, thrown, opr_exception, var_exception, sees, taint, shutdown>>
        /\ UNCHANGED <<pc, arg, tmp>> /\ opr' = opr /\ stage' = stage /\ held' = held
    BY Zenon, <1>3 DEF ExecuteFn, avars, xvars, cvars
  <2> QED
    BY Zenon, <1>2, <2>1, <2>2, <2>3
<1>4. CASE FnReturns(b) \/ WaitFnStore(b) \/ WaitFnNotify(b) \/ NotifyAll(b)
  <2>1. /\ UNCHANGED <<cell, thrown, opr_exception, var_exception, sees, taint, shutdown>>
        /\ UNCHANGED <<pc, arg, tmp>> /\ opr' = opr /\ stage' = stage /\ held' = held
    BY Zenon, <1>4 DEF FnReturns, WaitFnStore, WaitFnNotify, NotifyAll, avars, xvars, cvars
  <2>2. \A c \in Blk : exec'[c] \in {"marked", "running"} => exec'[c] = exec[c]
    BY Zenon, <1>1, <1>4 DEF FnReturns, WaitFnStore, WaitFnNotify, NotifyAll, ExecTypes
  <2>3. \A c \in Blk : /\ exec'[c] \in {"marked", "running"} => exec[c] \in {"marked", "running"}
                       /\ exec'[c] = "running" => exec[c] = "running"
    BY Zenon, <2>2
  <2> QED
    BY Zenon, <1>2, <2>1, <2>3
<1>5. ASSUME NEW v \in Var, CompleteRead(b, v) \/ MarkWrite(b, v) PROVE FailInv'
  <2>1. /\ UNCHANGED <<cell, thrown, opr_exception, var_exception, sees, taint, shutdown>>
        /\ UNCHANGED <<pc, arg, tmp>> /\ opr' = opr /\ stage' = stage /\ exec' = exec
    BY Zenon, <1>5 DEF CompleteRead, MarkWrite, GiveUp, avars, evars, xvars, cvars
  <2>2. \A c \in Blk : held'[c] \subseteq held[c]
    BY Zenon, <1>1, <1>5 DEF CompleteRead, MarkWrite, GiveUp, avars, Types
  <2> QED
    BY Zenon, <1>2, <2>1, <2>2
<1>6. CASE CompleteEnd(b)
  <2>1. /\ UNCHANGED <<cell, thrown, opr_exception, var_exception, sees, taint, shutdown>>
        /\ UNCHANGED <<pc, arg, tmp>> /\ opr' = opr /\ held' = held
    BY Zenon, <1>6 DEF CompleteEnd, Finish, xvars, cvars
  <2>2. \A c \in Blk : /\ stage'[c] \in {"new", "pushed", "started"} => stage'[c] = stage[c]
                       /\ exec'[c] \in {"marked", "running"} => exec'[c] = exec[c]
    BY Zenon, <1>1, <1>6 DEF CompleteEnd, Finish, ExecTypes, Types
  <2>3. \A c \in Blk : /\ stage'[c] \in {"new", "pushed"} => stage[c] \in {"new", "pushed"}
                       /\ stage'[c] = "started" => stage[c] = "started" /\ held'[c] \subseteq held[c]
                       /\ exec'[c] \in {"marked", "running"} => exec[c] \in {"marked", "running"}
                       /\ exec'[c] = "running" => exec[c] = "running"
    BY Zenon, <2>1, <2>2
  <2> QED
    BY Zenon, <1>2, <2>1, <2>3
<1>7. ~SkipAtShutdown(b)
  BY Zenon, <1>1 DEF SkipAtShutdown
<1> QED
  BY Zenon, <1>1, <1>3, <1>4, <1>5, <1>6, <1>7, FailStart, FailNew, FailWrite DEF WorkerStep

\* The steps of the client.
LEMMA FailClient ==
    ASSUME ClientInv, FailInv, SingleClient, NEW t \in Client,
           ClientStep(t) \/ CallStep(t) \/ SpuriousWakeup(t)
    PROVE  FailInv'
<1>1. ScheduleInv /\ ExecInv /\ Types /\ CallInv /\ PushInv /\ ClientTypes
  BY Zenon DEF ClientInv, ScheduleInv, CallInv
<1>2. ASSUME UNCHANGED <<evars, thrown, shutdown, held>>,
             \A c \in Blk : stage'[c] \in {"new", "pushed"} => stage[c] \in {"new", "pushed"},
             \A c \in Blk : stage'[c] = "started" => stage[c] = "started",
             \A c \in Blk : exec[c] = "running" => opr'[c] = opr[c],
             \A s \in Client : Clearing(s)'
      PROVE  FailInv'
  <2>1. UNCHANGED <<cell, thrown, opr_exception, var_exception, sees, taint, shutdown>> /\ exec' = exec
    BY Zenon, <1>2 DEF evars, xvars
  <2> QED
    BY Zenon, <1>2, <2>1, FailFrame
<1>3. ASSUME UNCHANGED <<var_exception, cell>>, \A s \in Client : pc'[s] = "clear" => pc[s] = "clear",
             UNCHANGED tmp, \A s \in Client : pc[s] = "clear" => arg'[s] = arg[s]
      PROVE  \A s \in Client : Clearing(s)'
  BY Zenon, <1>3 DEF FailInv, Clearing, Live
<1>4. CASE ClientStep(t)
  <2>1. Starts(t)
    BY Zenon, <1>1, <1>4, CallStarts
  <2>2. UNCHANGED <<avars, evars, thrown, shutdown, tmp>>
    BY Zenon, <2>1 DEF Starts
  <2>3. \A s \in Client : /\ pc'[s] = "clear" => pc[s] = "clear"
                          /\ pc[s] = "clear" => arg'[s] = arg[s]
    BY Zenon, <1>1, <2>1 DEF Starts, ClientTypes, Idle
  <2> QED
    BY Zenon, <1>2, <1>3, <2>2, <2>3 DEF avars, evars, xvars
<1>5. ASSUME NEW b \in Blk, IssueNext(t, b) PROVE FailInv'
  <2>1. /\ stage[b] = "new" /\ stage' = [stage EXCEPT ![b] = "pushed"]
        /\ opr' = [opr EXCEPT ![b] = Head(out[t])]
        /\ UNCHANGED <<held, evars, thrown, shutdown, pc, arg, tmp>>
    BY Zenon, <1>5 DEF IssueNext, Issue
  <2>2. exec[b] # "running"
    <3>1. Executed(b)
      BY Zenon, <1>1 DEF ExecInv
    <3> QED
      BY Zenon, <2>1, <3>1 DEF Executed
  <2>3. \A c \in Blk : /\ stage'[c] \in {"new", "pushed"} => stage[c] \in {"new", "pushed"}
                       /\ stage'[c] = "started" => stage[c] = "started"
                       /\ exec[c] = "running" => opr'[c] = opr[c]
    BY Zenon, <1>1, <2>1, <2>2 DEF Types
  <2>4. \A s \in Client : Clearing(s)'
    BY Zenon, <1>3, <2>1 DEF evars, xvars
  <2> QED
    BY Zenon, <1>2, <2>1, <2>3, <2>4
<1>6. ASSUME NEW v \in Var, ReachNext(t, v) PROVE FailInv'
  <2>1. UNCHANGED <<opr, stage, held, evars, thrown, shutdown, pc, arg, tmp>>
    BY SMTT(40), <1>6 DEF ReachNext, Reach
  <2>2. \A s \in Client : Clearing(s)'
    BY Zenon, <1>3, <2>1 DEF evars, xvars
  <2> QED
    BY Zenon, <1>2, <2>1, <2>2
<1>7. CASE TestReady(t) \/ CheckPredicate(t) \/ Sleep(t) \/ SpuriousWakeup(t)
  <2>1. UNCHANGED <<avars, evars, thrown, shutdown, arg, tmp>>
    BY Zenon, <1>7 DEF TestReady, CheckPredicate, Sleep, SpuriousWakeup, cvars
  <2>2. \A s \in Client : pc'[s] = "clear" => pc[s] = "clear"
    BY Zenon, <1>1, <1>7 DEF TestReady, CheckPredicate, Sleep, SpuriousWakeup, cvars, ClientTypes
  <2> QED
    BY Zenon, <1>2, <1>3, <2>1, <2>2 DEF avars, evars, xvars
<1>8. CASE ReadException(t)
  <2>1. UNCHANGED <<avars, evars, thrown, shutdown>>
    BY Zenon, <1>8 DEF ReadException
  <2>2. ASSUME NEW s \in Client PROVE Clearing(s)'
    <3>1. s = t
      BY Zenon DEF SingleClient
    <3>2. UNCHANGED <<var_exception, cell>>
      BY Zenon, <2>1 DEF evars, xvars
    <3>3. pc \in [Client -> {"idle", "test", "wait", "all", "throw", "clear"}]
          /\ tmp \in [Client -> Blk \cup {None}]
      BY Zenon, <1>1 DEF ClientTypes
    <3>4. CASE Live(var_exception[arg[t]])
      <4>1. tmp'[t] = var_exception[arg[t]] /\ arg' = arg
        BY Zenon, <1>8, <3>3, <3>4 DEF ReadException
      <4> QED
        BY Zenon, <3>1, <3>2, <3>4, <4>1 DEF Clearing, Live
    <3>5. CASE ~Live(var_exception[arg[t]])
      <4>1. pc'[t] = "idle"
        BY Zenon, <1>8, <3>3, <3>5 DEF ReadException
      <4> QED
        BY Zenon, <3>1, <4>1 DEF Clearing
    <3> QED
      BY Zenon, <3>4, <3>5
  <2> QED
    BY Zenon, <1>2, <2>1, <2>2 DEF avars
<1> QED
  BY Zenon, <1>4, <1>5, <1>6, <1>7, <1>8, FailThrow DEF CallStep

\* One client that never shuts the engine down: every step keeps the invariant.
LEMMA FailNext ==
    ASSUME SingleClient, ~MayShutDown, ClientInv, FailInv, [Next]_vars
    PROVE  FailInv'
<1>1. ~NotifyShutdown
  BY Zenon DEF NotifyShutdown
<1>2. CASE UNCHANGED vars
  <2>1. UNCHANGED <<avars, evars, cvars, thrown, shutdown>>
    BY Zenon, <1>2 DEF vars, cvars
  <2>2. UNCHANGED <<cell, thrown, opr_exception, var_exception, sees, taint, shutdown, exec>>
    BY Zenon, <2>1 DEF evars, xvars
  <2>3. UNCHANGED <<opr, stage, held, pc, arg, tmp>>
    BY Zenon, <2>1 DEF avars, cvars
  <2>4. \A t \in Client : Clearing(t)'
    BY Zenon, <2>2, <2>3 DEF FailInv, Clearing, Live
  <2> QED
    BY Zenon, <2>2, <2>3, <2>4, FailFrame
<1> QED
  BY Zenon, <1>1, <1>2, FailClient, FailWorker DEF Next

\* The invariant gives the types of every variable.
LEMMA ClientTyped ==
    ASSUME Counting, ClientInv PROVE TypeOK
<1>1. ScheduleInv /\ ExecInv /\ CallInv /\ PushInv /\ PendingInv
  BY Zenon DEF ClientInv
<1>2. \A b \in Blk : marked[b] \subseteq held[b] /\ Cardinality(marked[b]) <= 1
  <2>1. ASSUME NEW b \in Blk PROVE marked[b] \subseteq held[b] /\ Cardinality(marked[b]) <= 1
    <3>1. Executed(b)
      BY Zenon, <1>1 DEF ExecInv
    <3>2. marked[b] = {} \/ \E v \in Var : marked[b] = {v}
      BY Zenon, <3>1 DEF Executed
    <3>3. Cardinality(marked[b]) <= 1
      <4>1. CASE marked[b] = {}
        BY SMTT(40), <4>1 DEF Counting, CountNone
      <4>2. CASE \E v \in Var : marked[b] = {v}
        BY SMTT(40), <4>2 DEF Counting, CountOne
      <4> QED
        BY Zenon, <3>2, <4>1, <4>2
    <3> QED
      BY Zenon, <3>1, <3>3 DEF Executed
  <2> QED
    BY Zenon, <2>1
<1>3. pending = Cardinality({b \in Blk : stage[b] \in {"pushed", "started"}})
  BY Zenon, <1>1 DEF PendingInv, Active
<1>4. asleep \subseteq {t \in Client : pc[t] \in {"wait", "all"}}
  <2>1. \A t \in asleep : t \in Client /\ pc[t] \in {"wait", "all"}
    BY Zenon, <1>1 DEF CallInv, ClientTypes, Calling
  <2> QED
    BY Zenon, <2>1
<1>5. ASSUME NEW t \in Client PROVE Len(out[t]) <= 2
  <2>1. Calling(t)
    BY Zenon, <1>1 DEF CallInv
  <2>2. CASE pc[t] = "wait"
    <3>1. out[t] = <<>> \/ out[t] = <<WaitOpr(arg[t])>>
      BY Zenon, <2>1, <2>2 DEF Calling
    <3>2. Len(<<>>) <= 2 /\ Len(<<WaitOpr(arg[t])>>) <= 2
      OBVIOUS
    <3> QED
      BY Zenon, <3>1, <3>2
  <2>3. CASE pc[t] # "wait"
    BY Zenon, <2>1, <2>3 DEF Calling, Calls
  <2> QED
    BY Zenon, <2>2, <2>3
<1>6. \A b \in Blk : stage[b] # "new" => caller[b] \in Client
  BY Zenon, <1>1 DEF PushInv, Caused
<1>7. \A t \in Client : bulk[t].count > 0 => bulk[t].count < bulk[t].bulk_size
  BY Zenon, <1>1 DEF CallInv, Calling
<1> QED
  BY Zenon, <1>1, <1>2, <1>3, <1>4, <1>5, <1>6, <1>7 DEF TypeOK, ExecInv, ExecTypes, CallInv, ClientTypes

\* A WaitForVar that is about to return: its own writes are done.
LEMMA VarWaitReturns ==
    ASSUME ClientInv, ClientInv', [Next]_vars, NEW t \in Client, pc[t] # "throw", pc'[t] = "throw"
    PROVE  /\ arg[t] \notin bulk[t].mutable_vars
           /\ \A b \in Blk : caller[b] = t /\ arg[t] \in opr[b].mutable_vars
                                => stage[b] # "pushed" /\ ~On(b, arg[t])
<1>1. /\ CallInv /\ CallInv' /\ WaitInv' /\ ScheduleInv
      /\ DOMAIN pc = Client
  BY Zenon DEF ClientInv, CallInv, ClientTypes
<1>2. /\ pc[t] \in {"test", "wait"} /\ arg' = arg
      /\ UNCHANGED <<opr, stage, reached, held, caller, bulk>>
  <2>1. ASSUME NEW s \in Client, ClientStep(s) PROVE FALSE
    <3>1. Starts(s)
      BY Zenon, <1>1, <2>1, CallStarts
    <3> QED
      BY Zenon, <3>1 DEF Starts
  <2>2. ASSUME NEW s \in Client, SpuriousWakeup(s) PROVE FALSE
    BY Zenon, <2>2 DEF SpuriousWakeup, cvars
  <2>3. ASSUME NEW b \in Blk, WorkerStep(b) PROVE FALSE
    BY Zenon, <1>1, <2>3, CallWorker DEF cvars
  <2>4. ASSUME NotifyShutdown \/ UNCHANGED vars PROVE FALSE
    BY Zenon, <2>4 DEF NotifyShutdown, cvars, vars
  <2>5. PICK s \in Client : CallStep(s)
    BY Zenon, <2>1, <2>2, <2>3, <2>4 DEF Next
  <2>6. TestReady(s) \/ CheckPredicate(s)
    BY Zenon, <1>1, <2>5 DEF CallStep, IssueNext, ReachNext, Sleep, ReadException, ThrowException, cvars
  <2>7. s = t /\ pc[t] \in {"test", "wait"}
    BY Zenon, <1>1, <2>6 DEF TestReady, CheckPredicate
  <2> QED
    BY Zenon, <2>6, <2>7 DEF TestReady, CheckPredicate, avars
<1>3. bulk[t].mutable_vars = {}
  <2>1. Calling(t)
    BY Zenon, <1>1 DEF CallInv
  <2> QED
    BY SMTT(40), <1>2, <2>1 DEF Calling, EmptyBulk
<1>4. OwnDone(t)'
  BY Zenon, <1>1 DEF WaitInv, Waits
<1>5. ASSUME NEW b \in Blk, caller[b] = t, arg[t] \in opr[b].mutable_vars
      PROVE  stage[b] # "pushed" /\ ~On(b, arg[t])
  <2>1. ~OwnWrite(t, b, arg[t])
    BY Zenon, <1>2, <1>4 DEF OwnDone, OwnWrite, On
  <2> QED
    BY Zenon, <1>5, <2>1 DEF OwnWrite, On
<1> QED
  BY Zenon, <1>3, <1>5

\* A WaitForAll that returns: everything of its client is finished.
LEMMA AllReturns ==
    ASSUME Counting, ClientInv, [Next]_vars, NEW t \in Client, pc[t] = "all", pc'[t] = "idle"
    PROVE  bulk[t].count = 0 /\ \A b \in Blk : caller[b] = t => stage[b] = "finished"
<1>1. CallInv /\ PendingInv /\ DOMAIN pc = Client /\ Calling(t)
  BY Zenon DEF ClientInv, CallInv, ClientTypes
<1>2. pending = 0
  <2>1. ASSUME NEW s \in Client, ClientStep(s) PROVE FALSE
    <3>1. Starts(s)
      BY Zenon, <1>1, <2>1, CallStarts
    <3> QED
      BY Zenon, <3>1 DEF Starts, Idle
  <2>2. ASSUME NEW s \in Client, SpuriousWakeup(s) PROVE FALSE
    BY Zenon, <2>2 DEF SpuriousWakeup, cvars
  <2>3. ASSUME NEW b \in Blk, WorkerStep(b) PROVE FALSE
    BY Zenon, <1>1, <2>3, CallWorker DEF cvars
  <2>4. ASSUME NotifyShutdown \/ UNCHANGED vars PROVE FALSE
    BY Zenon, <2>4 DEF NotifyShutdown, cvars, vars
  <2>5. PICK s \in Client : CallStep(s)
    BY Zenon, <2>1, <2>2, <2>3, <2>4 DEF Next
  <2>6. CheckPredicate(s) \/ ReadException(s) \/ ThrowException(s) \/ TestReady(s)
    BY Zenon, <1>1, <2>5 DEF CallStep, IssueNext, ReachNext, Sleep, cvars
  <2>7. s = t
    BY Zenon, <1>1, <2>6 DEF CheckPredicate, ReadException, ThrowException, TestReady
  <2> QED
    BY Zenon, <1>1, <2>6, <2>7 DEF CheckPredicate, ReadException, ThrowException, TestReady, Predicate
<1>3. bulk[t].count = 0
  <2>1. pc[t] # "idle"
    BY Zenon
  <2>2. bulk[t] = EmptyBulk(bulk[t].bulk_size)
    BY Zenon, <1>1, <2>1 DEF Calling
  <2>3. EmptyBulk(bulk[t].bulk_size).count = 0
    BY DEF EmptyBulk
  <2> QED
    BY Zenon, <2>2, <2>3
<1>4. Active = {}
  <2>1. IsFiniteSet(Active) /\ Cardinality(Active) = 0
    BY Zenon, <1>1, <1>2 DEF PendingInv
  <2> QED
    BY Zenon, <2>1 DEF Counting, CountNone
<1>5. ASSUME NEW b \in Blk, caller[b] = t PROVE stage[b] = "finished"
  <2>1. stage[b] # "new"
    BY Zenon, <1>5, ClientAssumption DEF ClientInv, PushInv, Caused
  <2> QED
    BY Zenon, <1>4, <2>1 DEF Active, ClientInv, ScheduleInv, Types
<1> QED
  BY Zenon, <1>3, <1>5

-----------------------------------------------------------------------------
LOCAL INSTANCE FiniteSetTheorems

(* The facts about cardinalities hold. *)
LEMMA Counted == Counting
<1>1. \A S : (IsFiniteSet(S) <=> Listed(S)) /\ Cardinality(S) = CountOf(S)
  BY Zenon DEF IsFiniteSet, Cardinality, Listed, CountOf
<1>2. CountNone
  BY Zenon, <1>1, FS_EmptySet, Cardinals DEF CountNone
<1>3. CountOne
  <2>1. \A x : IsFiniteSet({x}) /\ Cardinality({x}) = 1
    BY Zenon, FS_Singleton
  <2> QED
    BY Zenon, <1>1, <2>1, Cardinals DEF CountOne
<1>4. CountAdd
  <2>1. \A S, x : IsFiniteSet(S) =>
          /\ IsFiniteSet(S \cup {x})
          /\ Cardinality(S \cup {x}) = IF x \in S THEN Cardinality(S) ELSE Cardinality(S) + 1
    BY Zenon, FS_AddElement
  <2> QED
    BY Zenon, <1>1, <2>1, Cardinals DEF CountAdd
<1>5. CountRemove
  <2>1. \A S, x : IsFiniteSet(S) =>
          /\ IsFiniteSet(S \ {x})
          /\ Cardinality(S \ {x}) = IF x \in S THEN Cardinality(S) - 1 ELSE Cardinality(S)
    BY Zenon, FS_RemoveElement
  <2> QED
    BY Zenon, <1>1, <2>1, Cardinals DEF CountRemove
<1> QED
  BY Zenon, <1>2, <1>3, <1>4, <1>5 DEF Counting

\* The invariant holds in every state, with any number of clients, also at and
\* after NotifyShutdown.
THEOREM ClientInvariance ==
    Spec => []ClientInv
<1>1. Init => ClientInv
  BY Zenon, Counted, ClientInit
<1>2. ClientInv /\ [Next]_vars => ClientInv'
  BY Zenon, Counted, ClientNext
<1> QED
  BY <1>1, <1>2, PTL DEF Spec

\* Type correctness.  In particular pending_ counts the blocks that have not
\* finished, a call pushes at most two operators, and a bulk stays below its size.
THEOREM TypeCorrect ==
    Spec => []TypeOK
<1>1. ClientInv => TypeOK
  BY Zenon, Counted, ClientTyped
<1> QED
  BY <1>1, ClientInvariance, PTL

\* WaitForVar does not return before every write of the variable that its client
\* pushed before it, in a bulk or not, and WaitForAll not before everything its
\* client pushed; for any number of clients that push, wait and shut down.
THEOREM WaitsSeeOwnWrites ==
    Spec => WaitSeesOwnWrites
<1>1. ClientInv /\ ClientInv' /\ [Next]_vars =>
        [\A t \in Client :
           /\ pc[t] # "throw" /\ pc'[t] = "throw" =>
                /\ arg[t] \notin bulk[t].mutable_vars
                /\ \A b \in Blk : caller[b] = t /\ arg[t] \in opr[b].mutable_vars
                                    => stage[b] # "pushed" /\ ~On(b, arg[t])
           /\ pc[t] = "all" /\ pc'[t] = "idle" =>
                /\ bulk[t].count = 0
                /\ \A b \in Blk : caller[b] = t => stage[b] = "finished"]_vars
  BY Zenon, Counted, VarWaitReturns, AllReturns
<1> QED
  BY <1>1, ClientInvariance, PTL DEF Spec, WaitSeesOwnWrites

\* The exceptions' part of the invariant, for one client and an engine that is not
\* shut down.
THEOREM ExceptionInvariance ==
    ASSUME SingleClient, ~MayShutDown
    PROVE  Spec => []FailInv
<1>1. Init => FailInv
  BY Zenon, FailInit
<1>2. ClientInv /\ FailInv /\ [Next]_vars => FailInv'
  BY Zenon, FailNext
<1> QED
  BY <1>1, <1>2, ClientInvariance, PTL DEF Spec

\* A WaitForVar that returns without an exception has no failure behind the value of
\* its variable, or the client has been told of one, however the failure got there:
\* through any chain of operators, bulks and variables.
THEOREM NothingIsSwallowed ==
    ASSUME SingleClient, ~MayShutDown
    PROVE  Spec => []NothingSwallowed
<1>1. ClientInv /\ FailInv => NothingSwallowed
  <2> SUFFICES ASSUME ClientInv, FailInv, NEW t \in Client, pc[t] = "throw",
                      ~Live(var_exception[arg[t]])
               PROVE  Rethrown(taint[arg[t]])
    BY Zenon DEF NothingSwallowed
  <2>1. Calling(t)
    BY Zenon DEF ClientInv, CallInv
  <2>2. arg[t] \in Var
    BY Zenon, <2>1 DEF Calling
  <2> QED
    BY Zenon, <2>2 DEF FailInv, VarFails
<1> QED
  BY <1>1, ClientInvariance, ExceptionInvariance, PTL

\* ExecuteOprBlock runs no function whose inputs come out of a failure, unless the
\* client has been told of one.
THEOREM NoFunctionRunsOnPoison ==
    ASSUME SingleClient, ~MayShutDown
    PROVE  Spec => []NoRunOnPoison
<1>1. FailInv => NoRunOnPoison
  BY Zenon DEF FailInv
<1> QED
  BY <1>1, ExceptionInvariance, PTL

\* No exception is rethrown twice, however many variables and operators share it.
THEOREM RethrownOnce ==
    ASSUME SingleClient, ~MayShutDown
    PROVE  Spec => []ThrownOnce
<1>1. FailInv => ThrownOnce
  <2>1. 0 <= 1 /\ 1 <= 1
    OBVIOUS
  <2> QED
    BY Zenon, <2>1 DEF FailInv, ThrownOnce
<1> QED
  BY <1>1, ExceptionInvariance, PTL
=============================================================================
