--------------------------- MODULE ThreadedEngine ---------------------------
(***************************************************************************)
(* The dependency tracking of mxnet::engine::ThreadedEngine                *)
(* (src/src/engine/threaded_engine.{h,cc}).                                *)
(*                                                                         *)
(* Client threads push operators that read some variables (const_vars) and *)
(* write others (mutable_vars).  Every push allocates an OprBlock with an  *)
(* atomic counter, wait, of the dependencies not yet satisfied.  Every     *)
(* ThreadedVar keeps, under its own mutex, a linked list of accesses that  *)
(* cannot proceed yet.  No lock spans two variables, and decr_wait and the *)
(* dispatch of a triggered block happen after the mutex is released, so    *)
(* each lock scope and each decr_wait outside one is an action of its own. *)
(*                                                                         *)
(* The linked list [pending_write_, head_) is the sequence queue[v]:       *)
(* pending_write_ is its first entry and is nullptr iff it is empty.  The  *)
(* vectors const_vars and mutable_vars are sets visited in any order.      *)
(***************************************************************************)
EXTENDS Integers, Sequences, FiniteSets

CONSTANTS
    Var,     \* ThreadedVars
    Blk,     \* OprBlocks: every push uses a fresh one, so Blk bounds the pushes
    Opr,     \* the operators clients may push, records (see OprAssumption)
    Thread,  \* client threads
    None     \* nullptr

(***************************************************************************)
(* CheckDuplicate: in debug builds the engine refuses an operator that     *)
(* names a variable twice, and clients deduplicate.  DeleteVariable pushes *)
(* an operator that mutates exactly the variable it deletes.               *)
(***************************************************************************)
ASSUME OprAssumption ==
    \A o \in Opr :
       /\ o.const_vars \subseteq Var /\ IsFiniteSet(o.const_vars)
       /\ o.mutable_vars \subseteq Var /\ IsFiniteSet(o.mutable_vars)
       /\ o.const_vars \cap o.mutable_vars = {}
       /\ o.prop \in {"kNormal", "kDeleteVar"}
       /\ o.prop = "kDeleteVar" =>
             o.const_vars = {} /\ \E v \in Var : o.mutable_vars = {v}

ASSUME NoneAssumption == None \notin Blk /\ None \notin Opr

VARIABLES
    (* ThreadedVar *)
    queue,              \* [pending_write_, head_): entries [blk, write]
    num_pending_reads,  \* kWriteTriggered when the pending write was triggered
    to_delete,
    version,
    alive,              \* not yet returned to the object pool
    (* OprBlock *)
    opr,                \* the operator of a pushed block
    wait,
    (* where the thread that handles a block is *)
    phase,
    todo,               \* variables the loop of Push or OnComplete has left
    trig,               \* <<block, variable>> still to be decremented by a
                        \* completing block, outside the lock
    pusher,             \* the block a client thread is pushing
    (* ThreadedEngine *)
    pending,
    (* history variables, read by no guard *)
    granted,            \* variables that have let a block through
    prior               \* prior[b][v]: blocks found on v when b reached it

varState == <<queue, num_pending_reads, to_delete, version, alive>>
history == <<granted, prior>>
vars == <<queue, num_pending_reads, to_delete, version, alive, opr, wait,
          phase, todo, trig, pusher, pending, granted, prior>>

kWriteTriggered == -1

Phase == {"new", "pushing", "waiting", "ready", "running", "completing", "done"}

(***************************************************************************)
(* Derived state.                                                          *)
(***************************************************************************)
CV(b) == opr[b].const_vars
MV(b) == opr[b].mutable_vars
Deps(b) == CV(b) \cup MV(b)
IsDelete(b) == opr[b].prop = "kDeleteVar"
Pushed == {b \in Blk : phase[b] # "new"}

(* b has been appended to v and has not completed its access to v *)
OnVar(b, v) ==
    /\ b \in Pushed
    /\ v \in Deps(b)
    /\ \/ phase[b] = "pushing" /\ v \notin todo[b]
       \/ phase[b] \in {"waiting", "ready", "running"}
       \/ phase[b] = "completing" /\ v \in todo[b]

(* v was handed to DeleteVariable *)
Condemned(v) == \E b \in Pushed : IsDelete(b) /\ v \in MV(b)

Entry(b, w) == [blk |-> b, write |-> w]

Init ==
    /\ queue = [v \in Var |-> <<>>]
    /\ num_pending_reads = [v \in Var |-> 0]
    /\ to_delete = [v \in Var |-> FALSE]
    /\ version = [v \in Var |-> 0]
    /\ alive = [v \in Var |-> TRUE]
    /\ opr = [b \in Blk |-> None]
    /\ wait = [b \in Blk |-> 0]
    /\ phase = [b \in Blk |-> "new"]
    /\ todo = [b \in Blk |-> {}]
    /\ trig = [b \in Blk |-> {}]
    /\ pusher = [t \in Thread |-> None]
    /\ pending = 0
    /\ granted = [b \in Blk |-> {}]
    /\ prior = [b \in Blk |-> [v \in Var |-> {}]]

(* OprBlock::wait of a new block: its dependencies and the push itself. *)
InitialWait(o) == Cardinality(o.const_vars) + Cardinality(o.mutable_vars) + 1

(***************************************************************************)
(* Push: allocate the block, count its dependencies plus one for the push  *)
(* itself.  Callers use no variable after they gave it to DeleteVariable,  *)
(* and give it up only when no push under way still refers to it.          *)
(***************************************************************************)
Push(t, b, o) ==
    /\ pusher[t] = None
    /\ phase[b] = "new"
    /\ \A v \in o.const_vars \cup o.mutable_vars : ~Condemned(v)
    /\ o.prop = "kDeleteVar" =>
          \A c \in Blk : phase[c] = "pushing" => o.mutable_vars \cap Deps(c) = {}
    /\ pusher' = [pusher EXCEPT ![t] = b]
    /\ opr' = [opr EXCEPT ![b] = o]
    /\ wait' = [wait EXCEPT ![b] = InitialWait(o)]
    /\ pending' = pending + 1
    /\ phase' = [phase EXCEPT ![b] = "pushing"]
    /\ todo' = [todo EXCEPT ![b] = o.const_vars \cup o.mutable_vars]
    /\ UNCHANGED <<varState, trig, history>>

(* History: the accesses b finds on v; whether v lets b through at once. *)
Arrive(b, v, through) ==
    /\ prior' = [prior EXCEPT ![b][v] = {c \in Blk : OnVar(c, v)}]
    /\ granted' = IF through THEN [granted EXCEPT ![b] = @ \cup {v}] ELSE granted

(* pending_write_ == nullptr.  A read that finds a write pending queues up  *)
(* behind it even when the write has not been triggered.                    *)
ReadyToReadOvertakes(v) == num_pending_reads[v] >= 0
ReadyToRead(v) == queue[v] = <<>>

AppendReadDependency(b, v) ==
    LET ready == ReadyToRead(v) IN
    /\ phase[b] = "pushing"
    /\ v \in todo[b] \cap CV(b)
    /\ todo' = [todo EXCEPT ![b] = @ \ {v}]
    /\ IF ready
       THEN /\ num_pending_reads' = [num_pending_reads EXCEPT ![v] = @ + 1]
            /\ wait' = [wait EXCEPT ![b] = @ - 1]
            /\ UNCHANGED queue
       ELSE /\ queue' = [queue EXCEPT ![v] = Append(@, Entry(b, FALSE))]
            /\ UNCHANGED <<num_pending_reads, wait>>
    /\ Arrive(b, v, ready)
    /\ UNCHANGED <<to_delete, version, alive, opr, phase, trig, pusher, pending>>

(* pending_write_ == nullptr and no read is under way. *)
ReadyToWriteAnyRead(v) == queue[v] = <<>>
ReadyToWrite(v) == queue[v] = <<>> /\ num_pending_reads[v] = 0

AppendWriteDependency(b, v) ==
    LET ready == ReadyToWrite(v) IN
    /\ phase[b] = "pushing"
    /\ todo[b] \cap CV(b) = {}
    /\ v \in todo[b]
    /\ todo' = [todo EXCEPT ![b] = @ \ {v}]
    /\ queue' = [queue EXCEPT ![v] = Append(@, Entry(b, TRUE))]
    /\ IF ready
       THEN /\ num_pending_reads' = [num_pending_reads EXCEPT ![v] = kWriteTriggered]
            /\ wait' = [wait EXCEPT ![b] = @ - 1]
       ELSE UNCHANGED <<num_pending_reads, wait>>
    /\ Arrive(b, v, ready)
    /\ UNCHANGED <<to_delete, version, alive, opr, phase, trig, pusher, pending>>

(* The last decr_wait of Push; PushToExecute when nothing is left to wait for. *)
PushEnd(t, b) ==
    /\ pusher[t] = b
    /\ phase[b] = "pushing"
    /\ todo[b] = {}
    /\ wait' = [wait EXCEPT ![b] = @ - 1]
    /\ phase' = [phase EXCEPT ![b] = IF wait[b] = 1 THEN "ready" ELSE "waiting"]
    /\ pusher' = [pusher EXCEPT ![t] = None]
    /\ UNCHANGED <<varState, opr, todo, trig, pending, history>>

(***************************************************************************)
(* ExecuteOprBlock starts the block.  Whether fn is called at all depends  *)
(* on shutdown_phase_ and on the exceptions of the variables, which this   *)
(* module leaves open (run); the function of DeleteVariable calls          *)
(* SetToDelete.                                                            *)
(***************************************************************************)
ExecuteOprBlock(b, run) ==
    /\ phase[b] = "ready"
    /\ phase' = [phase EXCEPT ![b] = "running"]
    /\ to_delete' = [v \in Var |->
                       to_delete[v] \/ (run /\ IsDelete(b) /\ v \in MV(b))]
    /\ UNCHANGED <<queue, num_pending_reads, version, alive, opr, wait, todo,
                   trig, pusher, pending, history>>

(* fn, or ExecuteOprBlock in its place, calls the on_complete callback. *)
OnComplete(b) ==
    /\ phase[b] = "running"
    /\ phase' = [phase EXCEPT ![b] = "completing"]
    /\ todo' = [todo EXCEPT ![b] = Deps(b)]
    /\ UNCHANGED <<varState, opr, wait, trig, pusher, pending, history>>

(* History: b gives v back and the blocks of S are let through. *)
Pass(b, v, S) ==
    granted' = [c \in Blk |-> IF c \in S THEN granted[c] \cup {v}
                              ELSE IF c = b THEN granted[c] \ {v}
                              ELSE granted[c]]

(* The read that completes is the last one a pending write waits for. *)
LastReadForgets(v) == num_pending_reads[v] = 1 /\ Len(queue[v]) > 1
LastRead(v) == num_pending_reads[v] = 1 /\ queue[v] # <<>>

CompleteReadDependency(b, v) ==
    LET last == LastRead(v)
        next == IF last THEN {Head(queue[v]).blk} ELSE {}
    IN
    /\ phase[b] = "completing"
    /\ trig[b] = {}
    /\ v \in todo[b] \cap CV(b)
    /\ todo' = [todo EXCEPT ![b] = @ \ {v}]
    /\ num_pending_reads' = [num_pending_reads EXCEPT ![v] =
                               IF last THEN kWriteTriggered ELSE @ - 1]
    /\ trig' = [trig EXCEPT ![b] = next \X {v}]
    /\ Pass(b, v, next)
    /\ UNCHANGED <<queue, to_delete, version, alive, opr, wait, phase, pusher,
                   pending, prior>>

(* k reads follow the first entry of q before the next write or the end. *)
ReadChainPastWrite(q, k) == k = Len(q) - 1
ReadChain(q, k) ==
    /\ k \in 0 .. Len(q) - 1
    /\ \A i \in 2 .. k + 1 : ~q[i].write
    /\ k + 2 <= Len(q) => q[k + 2].write

(* What is left of the list once the write and k reads are detached. *)
RestKeepsOne(q, k) == SubSeq(q, k + 1, Len(q))
Rest(q, k) == SubSeq(q, k + 2, Len(q))

(* The lock scope when to_delete_ is set, and ThreadedVar::Delete. *)
DeleteVar(b, v) ==
    /\ to_delete[v]
    /\ queue' = [queue EXCEPT ![v] = <<>>]
    /\ alive' = [alive EXCEPT ![v] = FALSE]
    /\ Pass(b, v, {})
    /\ UNCHANGED <<num_pending_reads, trig>>

(* Detach the write and the reads behind it; they, or else the next write,  *)
(* are triggered after the lock is released.                                *)
DetachChain(b, v, k) ==
    LET q == queue[v]
        reads == {q[i].blk : i \in 2 .. k + 1}
        write == IF k = 0 /\ Len(q) > 1 THEN {q[2].blk} ELSE {}
    IN
    /\ ~to_delete[v]
    /\ ReadChain(q, k)
    /\ queue' = [queue EXCEPT ![v] = Rest(q, k)]
    /\ num_pending_reads' = [num_pending_reads EXCEPT ![v] =
                               IF write # {} THEN kWriteTriggered ELSE k]
    /\ trig' = [trig EXCEPT ![b] = (reads \cup write) \X {v}]
    /\ Pass(b, v, reads \cup write)
    /\ UNCHANGED alive

CompleteWriteDependency(b, v) ==
    /\ phase[b] = "completing"
    /\ trig[b] = {}
    /\ todo[b] \cap CV(b) = {}
    /\ v \in todo[b]
    /\ todo' = [todo EXCEPT ![b] = @ \ {v}]
    /\ version' = [version EXCEPT ![v] = @ + 1]
    /\ DeleteVar(b, v) \/ \E k \in 0 .. Len(queue[v]) - 1 : DetachChain(b, v, k)
    /\ UNCHANGED <<to_delete, opr, wait, phase, pusher, pending, prior>>

(* decr_wait on a triggered block c, outside the lock; dispatch at zero. *)
Trigger(b, c, v) ==
    /\ <<c, v>> \in trig[b]
    /\ trig' = [trig EXCEPT ![b] = @ \ {<<c, v>>}]
    /\ wait' = [wait EXCEPT ![c] = @ - 1]
    /\ phase' = [phase EXCEPT ![c] = IF wait[c] = 1 THEN "ready" ELSE @]
    /\ UNCHANGED <<varState, opr, todo, pusher, pending, history>>

(* The end of OnComplete and OnCompleteStatic: the block is deleted. *)
OnCompleteEnd(b) ==
    /\ phase[b] = "completing"
    /\ todo[b] = {}
    /\ trig[b] = {}
    /\ pending' = pending - 1
    /\ phase' = [phase EXCEPT ![b] = "done"]
    /\ UNCHANGED <<varState, opr, wait, todo, trig, pusher, history>>

PushStep(b) ==
    \/ \E v \in Var : AppendReadDependency(b, v) \/ AppendWriteDependency(b, v)
    \/ \E t \in Thread : PushEnd(t, b)

RunStep(b) ==
    \/ \E run \in BOOLEAN : ExecuteOprBlock(b, run)
    \/ OnComplete(b)
    \/ \E v \in Var : CompleteReadDependency(b, v) \/ CompleteWriteDependency(b, v)
    \/ \E c \in Blk, v \in Var : Trigger(b, c, v)
    \/ OnCompleteEnd(b)

(* The clients push no more, and nothing is left to do. *)
Terminating ==
    /\ \A b \in Blk : phase[b] \in {"new", "done"}
    /\ UNCHANGED vars

Next ==
    \/ \E t \in Thread, b \in Blk, o \in Opr : Push(t, b, o)
    \/ \E b \in Blk : PushStep(b) \/ RunStep(b)
    \/ Terminating

(***************************************************************************)
(* A thread inside Push goes on; workers take dispatched blocks and run    *)
(* them; every function calls its on_complete.  No client need push again. *)
(***************************************************************************)
Fairness == \A b \in Blk : WF_vars(PushStep(b)) /\ WF_vars(RunStep(b))

Spec == Init /\ [][Next]_vars
FairSpec == Spec /\ Fairness

(***************************************************************************)
(* Properties.                                                             *)
(***************************************************************************)

(* Every field has a value of its C++ type; num_pending_reads_ is never    *)
(* below kWriteTriggered.                                                  *)
TypeOK ==
    /\ queue \in [Var -> Seq([blk : Blk, write : BOOLEAN])]
    /\ num_pending_reads \in [Var -> Nat \cup {kWriteTriggered}]
    /\ to_delete \in [Var -> BOOLEAN]
    /\ version \in [Var -> Nat]
    /\ alive \in [Var -> BOOLEAN]
    /\ opr \in [Blk -> Opr \cup {None}]
    /\ wait \in [Blk -> Int]
    /\ phase \in [Blk -> Phase]
    /\ todo \in [Blk -> SUBSET Var]
    /\ trig \in [Blk -> SUBSET (Blk \X Var)]
    /\ pusher \in [Thread -> Blk \cup {None}]
    /\ pending \in Int
    /\ granted \in [Blk -> SUBSET Var]
    /\ prior \in [Blk -> [Var -> SUBSET Blk]]
    /\ \A b \in Pushed : opr[b] \in Opr

(* b runs, or is completing and has not yet completed its access to v. *)
InUse(b, v) ==
    \/ phase[b] = "running" /\ v \in Deps(b)
    \/ phase[b] = "completing" /\ v \in todo[b]

Conflict(b, c, v) == v \in MV(b) \/ v \in MV(c)

(* Two blocks are never inside conflicting accesses to the same variable:  *)
(* readers share a ThreadedVar, a writer has it alone.                     *)
Exclusion ==
    \A b, c \in Pushed, v \in Var :
       b # c /\ InUse(b, v) /\ InUse(c, v) => ~Conflict(b, c, v)

(* A block that runs has waited for every conflicting access that reached  *)
(* the variable before it: execution is serialised in push order.          *)
PushOrder ==
    \A b \in Pushed, v \in Var :
       InUse(b, v) => \A c \in prior[b][v] : Conflict(b, c, v) => ~OnVar(c, v)

(* No CHECK_* or assert of ThreadedVar and OprBlock fails at the point     *)
(* where the code evaluates it, and CompleteWriteDependency always         *)
(* detaches the entry of the block that completes.                         *)
ChecksHold ==
    /\ \A b \in Blk : wait[b] >= 0
    /\ pending >= 0
    /\ \A b \in Pushed, v \in Var :
          /\ phase[b] = "pushing" /\ v \in todo[b] =>
                /\ queue[v] = <<>> => num_pending_reads[v] >= 0
                /\ queue[v] # <<>> => num_pending_reads[v] # 0
          /\ phase[b] = "completing" /\ v \in todo[b] \cap CV(b) =>
                num_pending_reads[v] > 0
          /\ phase[b] = "completing" /\ v \in todo[b] \cap MV(b) =>
                /\ num_pending_reads[v] = kWriteTriggered
                /\ queue[v] # <<>> /\ Head(queue[v]).blk = b
                /\ to_delete[v] => Len(queue[v]) = 1

(* No pointer is used after the object pool took the object back: queues   *)
(* and pending triggers name only blocks that have not been dispatched to  *)
(* their end, and no block still to access v outlives v.                   *)
NoDangling ==
    /\ \A v \in Var : \A i \in DOMAIN queue[v] : OnVar(queue[v][i].blk, v)
    /\ \A b \in Blk : \A p \in trig[b] : phase[p[1]] \in {"pushing", "waiting"}
    /\ \A b \in Pushed, v \in Var :
          OnVar(b, v) \/ (phase[b] = "pushing" /\ v \in todo[b]) => alive[v]

(* The "+ 1" of Push keeps a block from being dispatched before its pusher *)
(* is through with it, and decr_wait reaches zero once: a block is         *)
(* dispatched only from "waiting", or by its own pusher.                   *)
DispatchedOnce ==
    [][\A b \in Blk :
          phase'[b] = "ready" /\ phase[b] # "ready" =>
             \/ phase[b] = "waiting"
             \/ \E t \in Thread : pusher[t] = b /\ pusher'[t] = None]_vars

(* Every operator that was pushed is executed and completed. *)
EveryPushCompletes == \A b \in Blk : phase[b] = "pushing" ~> phase[b] = "done"

(***************************************************************************)
(* The engine implements the promise of DependencyEngine.                  *)
(***************************************************************************)
StageOf(p) ==
    CASE p = "new" -> "new"
      [] p \in {"pushing", "waiting", "ready"} -> "pushed"
      [] p \in {"running", "completing"} -> "started"
      [] p = "done" -> "finished"

Stages == [b \in Blk |-> StageOf(phase[b])]
Reached == [b \in Blk |-> IF phase[b] = "new" THEN {}
                          ELSE IF phase[b] = "pushing" THEN Deps(b) \ todo[b]
                          ELSE Deps(b)]
Held == [b \in Blk |-> IF phase[b] = "running" THEN Deps(b)
                       ELSE IF phase[b] = "completing" THEN todo[b]
                       ELSE {}]

Promise == INSTANCE DependencyEngine WITH
    stage <- Stages, reached <- Reached, held <- Held, ahead <- prior

(* Every step of the engine is a step DependencyEngine allows, or changes  *)
(* nothing there.                                                          *)
KeepsPromise == Promise!ASpec

(***************************************************************************)
(* The inductive invariant behind Exclusion, PushOrder, ChecksHold,        *)
(* NoDangling, DispatchedOnce and KeepsPromise.                            *)
(***************************************************************************)
Arrived(b, v) ==
    b \in Pushed /\ v \in Deps(b) /\ ~(phase[b] = "pushing" /\ v \in todo[b])
Readers(v) == {b \in Pushed : v \in granted[b] /\ v \in CV(b)}
Active == {b \in Blk : phase[b] \notin {"new", "done"}}
Owed(b, v) == \E c \in Blk : <<b, v>> \in trig[c]
(* the dependencies for which wait has not been decremented *)
Need(b) == {v \in Var : v \in Deps(b) /\ (v \in granted[b] => Owed(b, v))}

(* the loops of Push and OnComplete, and what variables have let through *)
BlockInv(b) ==
    /\ phase[b] \in {"pushing", "completing"} => todo[b] \subseteq Deps(b)
    /\ phase[b] \notin {"pushing", "completing"} => todo[b] = {}
    /\ phase[b] \in {"new", "done"} => granted[b] = {}
    /\ phase[b] = "pushing" => granted[b] \subseteq Deps(b) \ todo[b]
    /\ phase[b] = "waiting" => granted[b] \subseteq Deps(b)
    /\ phase[b] \in {"ready", "running"} => granted[b] = Deps(b)
    /\ phase[b] = "completing" => granted[b] = todo[b]

(* a decr_wait that a completing block still owes *)
TrigInv(b, c, v) ==
    <<c, v>> \in trig[b] =>
       /\ phase[b] = "completing"
       /\ phase[c] \in {"pushing", "waiting"}
       /\ v \in granted[c]
       /\ \A d \in Blk : <<c, v>> \in trig[d] => d = b

WaitInv(b) ==
    /\ phase[b] \in {"pushing", "waiting"} => IsFiniteSet(Need(b))
    /\ phase[b] = "pushing" => wait[b] = Cardinality(Need(b)) + 1
    /\ phase[b] = "waiting" => wait[b] = Cardinality(Need(b)) /\ Need(b) # {}
    /\ phase[b] \notin {"pushing", "waiting"} => wait[b] = 0

(* a queue holds the accesses that arrived and were not let through, and   *)
(* the write at its head, triggered or not                                 *)
QueueInv(v) ==
    /\ \A i \in 1 .. Len(queue[v]) :
          /\ OnVar(queue[v][i].blk, v)
          /\ queue[v][i].write <=> v \in MV(queue[v][i].blk)
          /\ v \in granted[queue[v][i].blk] =>
                i = 1 /\ num_pending_reads[v] = kWriteTriggered
    /\ \A i, j \in 1 .. Len(queue[v]) :
          queue[v][i].blk = queue[v][j].blk => i = j
    /\ Len(queue[v]) > 0 => queue[v][1].write
    /\ Len(queue[v]) > 0 /\ num_pending_reads[v] = kWriteTriggered =>
          v \in granted[queue[v][1].blk]
    /\ \A b \in Blk :
          OnVar(b, v) /\ (v \in MV(b) \/ v \notin granted[b]) =>
             \E i \in 1 .. Len(queue[v]) : queue[v][i].blk = b

CountInv(v) ==
    /\ IsFiniteSet(Readers(v))
    /\ alive[v] =>
          \/ /\ num_pending_reads[v] = kWriteTriggered
             /\ Readers(v) = {}
             /\ Len(queue[v]) > 0
          \/ /\ num_pending_reads[v] = Cardinality(Readers(v))
             /\ Len(queue[v]) > 0 => num_pending_reads[v] > 0

(* the block of DeleteVariable is the last one on its variable *)
DeleteInv(v) ==
    /\ \A b \in Pushed : IsDelete(b) /\ v \in MV(b) =>
          /\ \A c \in Pushed : phase[c] = "pushing" /\ v \in todo[c] => c = b
          /\ \A i \in 1 .. Len(queue[v]) :
                queue[v][i].blk = b => i = Len(queue[v])
    /\ to_delete[v] /\ alive[v] =>
          \E b \in Pushed : IsDelete(b) /\ v \in MV(b) /\ InUse(b, v)
    /\ ~alive[v] => Condemned(v)
    /\ ~alive[v] => \A b \in Pushed : ~OnVar(b, v)
    /\ ~alive[v] => \A b \in Pushed : ~(phase[b] = "pushing" /\ v \in todo[b])

OrderInv(v) ==
    /\ \A b \in Blk : phase[b] = "new" => prior[b][v] = {}
    /\ \A b, c \in Blk : c \in prior[b][v] => Arrived(c, v)
    /\ \A b, c \in Blk : b # c /\ OnVar(b, v) /\ OnVar(c, v) =>
          b \in prior[c][v] \/ c \in prior[b][v]
    /\ \A i, j \in 1 .. Len(queue[v]) :
          queue[v][i].blk \in prior[queue[v][j].blk][v] => i < j
    /\ \A b, c \in Blk :
          v \in granted[b] /\ c \in prior[b][v] /\ Conflict(b, c, v) => ~OnVar(c, v)

PendingInv == IsFiniteSet(Active) /\ pending = Cardinality(Active)

(* The strengthening of the properties above that every step preserves. *)
IInv ==
    /\ TypeOK
    /\ \A b \in Blk : BlockInv(b) /\ WaitInv(b)
    /\ \A b, c \in Blk, v \in Var : TrigInv(b, c, v)
    /\ \A v \in Var : QueueInv(v) /\ CountInv(v) /\ DeleteInv(v) /\ OrderInv(v)
    /\ PendingInv
=============================================================================
