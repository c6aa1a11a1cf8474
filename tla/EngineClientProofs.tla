------------------------- MODULE EngineClientProofs -------------------------
(***************************************************************************)
(* Proofs about EngineClient, for any variables, blocks and operators, any *)
(* sizes of bulks, any number of calls and any number of clients: the      *)
(* order of blocks on variables, the execution of a block, the calls of a  *)
(* client, its pushes and its waits.                                       *)
(***************************************************************************)
EXTENDS EngineClient, TLAPS

(* Operators a client pushes; those of calls other than WaitForVar.        *)
Operators ==
    [const_vars : SUBSET Var, mutable_vars : SUBSET Var,
     prop : {"kNormal", "kDeleteVar"}, wait : BOOLEAN]
Ordinary == {o \in Operators : ~o.wait}
Calls == {s \in Seq(Ordinary) : Len(s) <= 2}

Bulks == [bulk_size : Nat, count : Nat, const_vars : SUBSET Var, mutable_vars : SUBSET Var]

Active == {b \in Blk : stage[b] \in {"pushed", "started"}}

Types ==
    /\ opr \in [Blk -> Operators \cup {None}]
    /\ stage \in [Blk -> {"new", "pushed", "started", "finished"}]
    /\ reached \in [Blk -> SUBSET Var] /\ held \in [Blk -> SUBSET Var]
    /\ ahead \in [Blk -> [Var -> SUBSET Blk]]

ExecTypes ==
    /\ exec \in [Blk -> {"none", "marked", "running", "stored", "complete", "notify"}]
    /\ cell \in [Blk -> {"none", "live", "empty"}]
    /\ opr_exception \in [Blk -> Blk \cup {None}]
    /\ marked \in [Blk -> SUBSET Var]
    /\ var_exception \in [Var -> Blk \cup {None}]
    /\ sees \in [Blk -> SUBSET Blk] /\ taint \in [Var -> SUBSET Blk]

ClientTypes ==
    /\ mutex \in Client \cup {None}
    /\ asleep \subseteq Client
    /\ done \in [Client -> BOOLEAN]
    /\ pc \in [Client -> {"idle", "test", "wait", "all", "throw", "clear"}]
    /\ arg \in [Client -> Var \cup {None}]
    /\ DOMAIN out = Client
    /\ blk \in [Client -> Blk \cup {None}]
    /\ caller \in [Blk -> Client \cup {None}]
    /\ bulk \in [Client -> Bulks]
    /\ tmp \in [Client -> Blk \cup {None}]
    /\ shutdown \in BOOLEAN

-----------------------------------------------------------------------------
(* The schedule: who is on a variable, and who reached it first.           *)

Scheduled(b) ==
    /\ stage[b] = "new" => reached[b] = {} /\ held[b] = {}
    /\ stage[b] # "new" => opr[b] \in Operators /\ reached[b] \subseteq Uses(b)
    /\ stage[b] = "pushed" => held[b] = {}
    /\ stage[b] \in {"started", "finished"} => reached[b] = Uses(b) /\ held[b] \subseteq Uses(b)

Ordered(b, c, v) ==
    /\ c \in ahead[b][v] => c # b /\ stage[c] # "new" /\ v \in reached[c]
    /\ b # c /\ On(b, v) /\ On(c, v) => c \in ahead[b][v] \/ b \in ahead[c][v]
    /\ stage[b] = "started" /\ v \in held[b] /\ c \in ahead[b][v] /\ Conflict(b, c, v)
         => ~On(c, v)

ScheduleInv ==
    /\ Types
    /\ \A b \in Blk : Scheduled(b)
    /\ \A b, c \in Blk, v \in Var : Ordered(b, c, v)

\* A schedule of nothing.
LEMMA ScheduleInit ==
    ASSUME AInit PROVE ScheduleInv
BY DEF AInit, ScheduleInv, Types, Scheduled, Ordered, On

\* A block is issued: it is on no variable yet, and nobody has seen it.
LEMMA ScheduleIssue ==
    ASSUME ScheduleInv, NEW b \in Blk, NEW o \in Operators, Issue(b, o)
    PROVE  ScheduleInv'
<1>1. Types'
  BY DEF ScheduleInv, Types, Issue
<1>2. ASSUME NEW c \in Blk PROVE Scheduled(c)'
  BY Zenon, <1>2 DEF ScheduleInv, Types, Scheduled, Issue, Uses
<1>3. ASSUME NEW c \in Blk, NEW d \in Blk, NEW v \in Var PROVE Ordered(c, d, v)'
  <2>1. Scheduled(b) /\ Scheduled(c) /\ Scheduled(d) /\ Ordered(c, d, v)
    BY Zenon DEF ScheduleInv
  <2> QED
    BY <2>1 DEF ScheduleInv, Types, Scheduled, Ordered, Issue, On, Conflict
<1> QED
  BY Zenon, <1>1, <1>2, <1>3 DEF ScheduleInv

\* A block reaches a variable behind everybody that is on it.
LEMMA ScheduleReach ==
    ASSUME ScheduleInv, NEW b \in Blk, NEW u \in Var, Reach(b, u)
    PROVE  ScheduleInv'
<1>1. Types'
  BY DEF ScheduleInv, Types, Reach
<1>2. ASSUME NEW c \in Blk PROVE Scheduled(c)'
  BY Zenon, <1>2 DEF ScheduleInv, Types, Scheduled, Reach, Uses
<1>3. ASSUME NEW c \in Blk, NEW d \in Blk, NEW v \in Var PROVE Ordered(c, d, v)'
  <2>1. Scheduled(b) /\ Scheduled(c) /\ Scheduled(d) /\ Ordered(c, d, v) /\ Ordered(d, c, v)
    BY Zenon DEF ScheduleInv
  <2> QED
    BY <2>1 DEF ScheduleInv, Types, Scheduled, Ordered, Reach, On, Conflict
<1> QED
  BY Zenon, <1>1, <1>2, <1>3 DEF ScheduleInv

\* A block starts when nobody that it conflicts with is ahead of it.
LEMMA ScheduleStart ==
    ASSUME ScheduleInv, NEW b \in Blk, Start(b)
    PROVE  ScheduleInv'
<1>1. Types'
  BY DEF ScheduleInv, Types, Start, Scheduled, Uses, Operators
<1>2. ASSUME NEW c \in Blk PROVE Scheduled(c)'
  BY Zenon, <1>2 DEF ScheduleInv, Types, Scheduled, Start, Uses
<1>3. ASSUME NEW c \in Blk, NEW d \in Blk, NEW v \in Var PROVE Ordered(c, d, v)'
  <2>1. Scheduled(b) /\ Scheduled(c) /\ Scheduled(d) /\ Ordered(c, d, v) /\ Ordered(d, c, v)
    BY Zenon DEF ScheduleInv
  <2> QED
    BY <2>1 DEF ScheduleInv, Types, Scheduled, Ordered, Start, On, Conflict
<1> QED
  BY Zenon, <1>1, <1>2, <1>3 DEF ScheduleInv

\* A block gives up a variable.
LEMMA ScheduleGiveUp ==
    ASSUME ScheduleInv, NEW b \in Blk, NEW u \in Var, GiveUp(b, u)
    PROVE  ScheduleInv'
<1>1. Types'
  BY DEF ScheduleInv, Types, GiveUp
<1>2. ASSUME NEW c \in Blk PROVE Scheduled(c)'
  BY Zenon, <1>2 DEF ScheduleInv, Types, Scheduled, GiveUp, Uses
<1>3. ASSUME NEW c \in Blk, NEW d \in Blk, NEW v \in Var PROVE Ordered(c, d, v)'
  <2>1. Ordered(c, d, v) /\ Ordered(d, c, v)
    BY Zenon DEF ScheduleInv
  <2> QED
    BY <2>1 DEF ScheduleInv, Types, Ordered, GiveUp, On, Conflict
<1> QED
  BY Zenon, <1>1, <1>2, <1>3 DEF ScheduleInv

\* A block that holds nothing ends.
LEMMA ScheduleFinish ==
    ASSUME ScheduleInv, NEW b \in Blk, Finish(b)
    PROVE  ScheduleInv'
<1>1. Types'
  BY DEF ScheduleInv, Types, Finish
<1>2. ASSUME NEW c \in Blk PROVE Scheduled(c)'
  BY Zenon, <1>2 DEF ScheduleInv, Types, Scheduled, Finish, Uses
<1>3. ASSUME NEW c \in Blk, NEW d \in Blk, NEW v \in Var PROVE Ordered(c, d, v)'
  <2>1. Ordered(c, d, v) /\ Ordered(d, c, v)
    BY Zenon DEF ScheduleInv
  <2> QED
    BY <2>1 DEF ScheduleInv, Types, Ordered, Finish, On, Conflict
<1> QED
  BY Zenon, <1>1, <1>2, <1>3 DEF ScheduleInv

\* A step that is none of the engine's.
LEMMA ScheduleFrame ==
    ASSUME ScheduleInv, UNCHANGED avars
    PROVE  ScheduleInv'
BY DEF avars, ScheduleInv, Types, Scheduled, Ordered, On, Conflict, Uses

\* Blocks that hold a variable together do not conflict.
LEMMA Exclusive ==
    ASSUME ScheduleInv, NEW b \in Blk, NEW c \in Blk, NEW v \in Var, b # c,
           stage[b] = "started", stage[c] = "started", v \in held[b], v \in held[c]
    PROVE  ~Conflict(b, c, v)
<1>1. Ordered(b, c, v) /\ Ordered(c, b, v)
  BY Zenon DEF ScheduleInv
<1>2. On(b, v) /\ On(c, v) /\ (Conflict(b, c, v) <=> Conflict(c, b, v))
  BY SMTT(40) DEF On, Conflict
<1> QED
  BY Zenon, <1>1, <1>2 DEF Ordered

-----------------------------------------------------------------------------
(* Workers: how far the code is with a block, and what the block holds.    *)

Executed(b) ==
    /\ stage[b] \in {"new", "pushed"} => exec[b] = "none"
    /\ stage[b] = "started" => exec[b] \in {"marked", "running", "stored", "complete"}
    /\ exec[b] \in {"marked", "running", "stored"} => stage[b] = "started" /\ held[b] = Uses(b)
    /\ exec[b] = "complete" => stage[b] = "started"
    /\ marked[b] \subseteq held[b]
    /\ marked[b] = {} \/ \E v \in Var : marked[b] = {v}
    /\ marked[b] # {} => held[b] \cap opr[b].const_vars = {}

ExecInv == ExecTypes /\ \A b \in Blk : Executed(b)

\* Nothing is executed at first.
LEMMA ExecInit ==
    ASSUME Init PROVE ExecInv
BY SMTT(40), SMTT(40) DEF Init, AInit, ExecInv, ExecTypes, Executed

\* A step of clients that leaves blocks alone.
LEMMA ExecFrame ==
    ASSUME ExecInv, UNCHANGED <<avars, evars>>
    PROVE  ExecInv'
BY DEF avars, evars, xvars, ExecInv, ExecTypes, Executed, Uses

\* A client issues a block.
LEMMA ExecIssue ==
    ASSUME ScheduleInv, ExecInv, NEW b \in Blk, NEW o \in Operators, Issue(b, o), UNCHANGED evars
    PROVE  ExecInv'
<1>1. ExecTypes'
  BY Zenon DEF ExecInv, ExecTypes, evars, xvars
<1>2. ASSUME NEW c \in Blk PROVE Executed(c)'
  <2>1. Scheduled(c) /\ Executed(c)
    BY Zenon DEF ScheduleInv, ExecInv
  <2> QED
    BY <2>1 DEF ScheduleInv, Types, Scheduled, Executed, Issue, Uses, evars, xvars
<1> QED
  BY Zenon, <1>1, <1>2 DEF ExecInv

\* A block reaches a variable.
LEMMA ExecReach ==
    ASSUME ScheduleInv, ExecInv, NEW b \in Blk, NEW u \in Var, Reach(b, u), UNCHANGED evars
    PROVE  ExecInv'
BY Zenon DEF Reach, evars, xvars, ExecInv, ExecTypes, Executed, Uses

\* A client empties a cell.
LEMMA ExecThrow ==
    ASSUME ExecInv, NEW t \in Client, ThrowException(t)
    PROVE  ExecInv'
BY Zenon DEF ThrowException, Cleared, avars, ExecInv, ExecTypes, Executed, Uses

\* What OnStart meets are cells, and a failure is the failure of a block.
LEMMA Starting ==
    ASSUME ScheduleInv, ExecTypes, NEW b \in Blk, stage[b] # "new"
    PROVE  /\ opr[b] \in Operators /\ Uses(b) \subseteq Var
           /\ Found(b) \subseteq Blk /\ Inputs(b) \subseteq Blk
           /\ \A c \in Found(b) : \E v \in Uses(b) : c = var_exception[v] /\ Live(c)
           /\ Found(b) = {} => \A v \in Uses(b) : ~Live(var_exception[v])
<1>1. opr[b] \in Operators
  BY Zenon DEF ScheduleInv, Scheduled
<1>2. Uses(b) \subseteq Var
  BY <1>1 DEF Operators, Uses
<1>3. ASSUME NEW c \in Found(b) PROVE \E v \in Uses(b) : c = var_exception[v] /\ Live(c)
  BY <1>3 DEF Found, LiveCells, Uses
<1>4. Found(b) \subseteq Blk
  BY SMTT(40), <1>2, <1>3 DEF ExecTypes, Live
<1>5. Inputs(b) \subseteq Blk
  BY SMTT(40), <1>2 DEF Inputs, ExecTypes
<1>6. ASSUME Found(b) = {}, NEW v \in Uses(b) PROVE ~Live(var_exception[v])
  BY <1>6 DEF Found, LiveCells, Uses
<1> QED
  BY Zenon, <1>1, <1>2, <1>3, <1>4, <1>5, <1>6

\* A worker goes on with a block.
LEMMA ExecWorker ==
    ASSUME ScheduleInv, ExecInv, NEW b \in Blk, WorkerStep(b)
    PROVE  ExecInv'
<1>1. CASE OnStart(b)
  <2>1. ExecTypes'
    <3>1. stage[b] # "new"
      BY <1>1 DEF OnStart, Start
    <3>2. Found(b) \subseteq Blk /\ Inputs(b) \subseteq Blk
      BY Zenon, <3>1, Starting DEF ExecInv
    <3> QED
      BY SMTT(40), SMTT(40), <1>1, <3>2 DEF ExecInv, ExecTypes, OnStart
  <2>2. ASSUME NEW c \in Blk PROVE Executed(c)'
    <3>1. Scheduled(c) /\ Executed(c)
      BY Zenon DEF ScheduleInv, ExecInv
    <3> QED
      BY <1>1, <3>1 DEF ExecInv, ExecTypes, ScheduleInv, Types, Scheduled, Executed, Uses, OnStart, Start
  <2> QED
    BY Zenon, <2>1, <2>2 DEF ExecInv
<1>2. CASE SkipAtShutdown(b)
  <2>1. ExecTypes'
    <3>1. stage[b] # "new"
      BY <1>2 DEF SkipAtShutdown, Start
    <3>2. Inputs(b) \subseteq Blk
      BY Zenon, <3>1, Starting DEF ExecInv
    <3> QED
      BY Zenon, <1>2, <3>2 DEF ExecInv, ExecTypes, SkipAtShutdown
  <2>2. ASSUME NEW c \in Blk PROVE Executed(c)'
    <3>1. Scheduled(c) /\ Executed(c)
      BY Zenon DEF ScheduleInv, ExecInv
    <3> QED
      BY ZenonT(40), <1>2, <3>1 DEF ExecInv, ExecTypes, ScheduleInv, Types, Scheduled, Executed, Uses, SkipAtShutdown, Start
  <2> QED
    BY Zenon, <2>1, <2>2 DEF ExecInv
<1>3. CASE ExecuteFn(b)
  <2>1. ExecTypes'
    BY Zenon, <1>3 DEF ExecInv, ExecTypes, ScheduleInv, Types, ExecuteFn, avars, xvars
  <2>2. ASSUME NEW c \in Blk PROVE Executed(c)'
    <3>1. Scheduled(c) /\ Executed(c)
      BY Zenon DEF ScheduleInv, ExecInv
    <3> QED
      BY Zenon, <1>3, <3>1 DEF ExecInv, ExecTypes, ScheduleInv, Types, Scheduled, Executed, Uses, ExecuteFn, avars, xvars
  <2> QED
    BY Zenon, <2>1, <2>2 DEF ExecInv
<1>4. CASE FnReturns(b)
  <2>1. ExecTypes'
    BY Zenon, <1>4 DEF ExecInv, ExecTypes, ScheduleInv, Types, FnReturns, avars, xvars
  <2>2. ASSUME NEW c \in Blk PROVE Executed(c)'
    <3>1. Scheduled(c) /\ Executed(c)
      BY Zenon DEF ScheduleInv, ExecInv
    <3> QED
      BY Zenon, <1>4, <3>1 DEF ExecInv, ExecTypes, ScheduleInv, Types, Scheduled, Executed, Uses, FnReturns, avars, xvars
  <2> QED
    BY Zenon, <2>1, <2>2 DEF ExecInv
<1>5. CASE FnThrows(b)
  <2>1. ExecTypes'
    BY Zenon, <1>5 DEF ExecInv, ExecTypes, ScheduleInv, Types, FnThrows, avars
  <2>2. ASSUME NEW c \in Blk PROVE Executed(c)'
    <3>1. Scheduled(c) /\ Executed(c)
      BY Zenon DEF ScheduleInv, ExecInv
    <3> QED
      BY ZenonT(30), <1>5, <3>1 DEF ExecInv, ExecTypes, ScheduleInv, Types, Scheduled, Executed, Uses, FnThrows, avars
  <2> QED
    BY Zenon, <2>1, <2>2 DEF ExecInv
<1>6. CASE WaitFnStore(b)
  <2>1. ExecTypes'
    BY Zenon, <1>6 DEF ExecInv, ExecTypes, ScheduleInv, Types, WaitFnStore, avars, xvars
  <2>2. ASSUME NEW c \in Blk PROVE Executed(c)'
    <3>1. Scheduled(c) /\ Executed(c)
      BY Zenon DEF ScheduleInv, ExecInv
    <3> QED
      BY ZenonT(30), <1>6, <3>1 DEF ExecInv, ExecTypes, ScheduleInv, Types, Scheduled, Executed, Uses, WaitFnStore, avars, xvars
  <2> QED
    BY Zenon, <2>1, <2>2 DEF ExecInv
<1>7. CASE WaitFnNotify(b)
  <2>1. ExecTypes'
    BY Zenon, <1>7 DEF ExecInv, ExecTypes, ScheduleInv, Types, WaitFnNotify, avars, xvars
  <2>2. ASSUME NEW c \in Blk PROVE Executed(c)'
    <3>1. Scheduled(c) /\ Executed(c)
      BY Zenon DEF ScheduleInv, ExecInv
    <3> QED
      BY <1>7, <3>1 DEF ExecInv, ExecTypes, ScheduleInv, Types, Scheduled, Executed, Uses, WaitFnNotify, avars, xvars
  <2> QED
    BY Zenon, <2>1, <2>2 DEF ExecInv
<1>8. ASSUME NEW v \in Var, CompleteRead(b, v) PROVE ExecInv'
  <2>1. ExecTypes'
    BY Zenon, <1>8 DEF ExecInv, ExecTypes, ScheduleInv, Types, CompleteRead, GiveUp, evars, xvars
  <2>2. ASSUME NEW c \in Blk PROVE Executed(c)'
    <3>1. Scheduled(c) /\ Executed(c)
      BY Zenon DEF ScheduleInv, ExecInv
    <3> QED
      BY <1>8, <3>1 DEF ExecInv, ExecTypes, ScheduleInv, Types, Scheduled, Executed, Uses, CompleteRead, GiveUp, evars, xvars
  <2> QED
    BY Zenon, <2>1, <2>2 DEF ExecInv
<1>9. ASSUME NEW v \in Var, MarkWrite(b, v) PROVE ExecInv'
  <2>1. ExecTypes'
    BY Zenon, <1>9 DEF ExecInv, ExecTypes, ScheduleInv, Types, MarkWrite, avars
  <2>2. ASSUME NEW c \in Blk PROVE Executed(c)'
    <3>1. Scheduled(c) /\ Executed(c)
      BY Zenon DEF ScheduleInv, ExecInv
    <3> QED
      BY ZenonT(20), <1>9, <3>1 DEF ExecInv, ExecTypes, ScheduleInv, Types, Scheduled, Executed, Uses, MarkWrite, avars
  <2> QED
    BY Zenon, <2>1, <2>2 DEF ExecInv
<1>10. ASSUME NEW v \in Var, CompleteWrite(b, v) PROVE ExecInv'
  <2>1. ExecTypes'
    BY <1>10 DEF ExecInv, ExecTypes, ScheduleInv, Types, CompleteWrite, GiveUp, Handed
  <2>2. ASSUME NEW c \in Blk PROVE Executed(c)'
    <3>1. Scheduled(c) /\ Executed(c)
      BY Zenon DEF ScheduleInv, ExecInv
    <3> QED
      BY ZenonT(20), <1>10, <3>1 DEF ExecInv, ExecTypes, ScheduleInv, Types, Scheduled, Executed, Uses, CompleteWrite, GiveUp, Handed
  <2> QED
    BY Zenon, <2>1, <2>2 DEF ExecInv
<1>11. CASE CompleteEnd(b)
  <2>1. ExecTypes'
    BY Zenon, <1>11 DEF ExecInv, ExecTypes, ScheduleInv, Types, CompleteEnd, Finish, xvars
  <2>2. ASSUME NEW c \in Blk PROVE Executed(c)'
    <3>1. Scheduled(c) /\ Executed(c)
      BY Zenon DEF ScheduleInv, ExecInv
    <3> QED
      BY ZenonT(20), <1>11, <3>1 DEF ExecInv, ExecTypes, ScheduleInv, Types, Scheduled, Executed, Uses, CompleteEnd, Finish, xvars
  <2> QED
    BY Zenon, <2>1, <2>2 DEF ExecInv
<1>12. CASE NotifyAll(b)
  <2>1. ExecTypes'
    BY Zenon, <1>12 DEF ExecInv, ExecTypes, ScheduleInv, Types, NotifyAll, avars, xvars
  <2>2. ASSUME NEW c \in Blk PROVE Executed(c)'
    <3>1. Scheduled(c) /\ Executed(c)
      BY Zenon DEF ScheduleInv, ExecInv
    <3> QED
      BY <1>12, <3>1 DEF ExecInv, ExecTypes, ScheduleInv, Types, Scheduled, Executed, Uses, NotifyAll, avars, xvars
  <2> QED
    BY Zenon, <2>1, <2>2 DEF ExecInv
<1> QED
  BY Zenon, <1>1, <1>2, <1>3, <1>4, <1>5, <1>6, <1>7, <1>8, <1>9, <1>10, <1>11, <1>12, WorkerStep(b) DEF WorkerStep

-----------------------------------------------------------------------------
(* Clients: what a call still has to push, and what a bulk holds.          *)

Calling(t) ==
    /\ pc[t] \in {"test", "wait", "throw", "clear"} => arg[t] \in Var
    /\ pc[t] # "wait" => out[t] \in Calls
    /\ pc[t] = "wait" => out[t] = <<>> \/ out[t] = <<WaitOpr(arg[t])>>
    /\ pc[t] \in {"throw", "clear"} => out[t] = <<>>
    /\ pc[t] # "idle" => bulk[t] = EmptyBulk(bulk[t].bulk_size)
    /\ bulk[t].count > 0 => bulk[t].count < bulk[t].bulk_size
    /\ t \in asleep \/ mutex = t => pc[t] \in {"wait", "all"}

CallInv == ClientTypes /\ \A t \in Client : Calling(t)

\* Clients have made no calls at first.
LEMMA CallInit ==
    ASSUME Init PROVE CallInv
<1>1. EmptyBulk(0) \in Bulks /\ EmptyBulk(0).count = 0 /\ <<>> \in Calls
  BY DEF EmptyBulk, Bulks, Calls
<1>2. None \notin Client
  BY Zenon, ClientAssumption
<1>3. ClientTypes
  BY Zenon, <1>1 DEF Init, ClientTypes
<1>4. ASSUME NEW t \in Client PROVE Calling(t)
  BY <1>1, <1>2 DEF Init, Calling
<1> QED
  BY Zenon, <1>3, <1>4 DEF CallInv

\* The first of what a call has to push, and the rest.
LEMMA CallsHead ==
    ASSUME NEW s \in Calls, s # <<>>
    PROVE  Head(s) \in Ordinary /\ Tail(s) \in Calls
BY DEF Calls

\* A bulk is an operator, and so are waiting and deleting.
LEMMA OperatorTypes ==
    /\ \A k \in Bulks : BulkOpr(k) \in Ordinary
    /\ \A v \in Var : WaitOpr(v) \in Operators /\ DeleteOpr(v) \in Ordinary
    /\ \A o \in SyncOpr \cup AsyncOpr : o \in Ordinary
<1>1. ASSUME NEW k \in Bulks
      PROVE  BulkOpr(k) \in Ordinary
  BY DEF BulkOpr, Ordinary, Operators, Bulks
<1>2. ASSUME NEW v \in Var PROVE WaitOpr(v) \in Operators /\ DeleteOpr(v) \in Ordinary
  BY DEF WaitOpr, DeleteOpr, Ordinary, Operators
<1>3. ASSUME NEW o \in SyncOpr \cup AsyncOpr PROVE o \in Ordinary
  BY Zenon, ClientAssumption DEF Ordinary, Operators
<1> QED
  BY Zenon, <1>1, <1>2, <1>3

\* What a call pushes: the open bulk, and then its own operator.
LEMMA Joined ==
    ASSUME NEW b \in Seq(Ordinary), NEW r \in Seq(Ordinary), Len(b) <= 1, Len(r) <= 1
    PROVE  b \o r \in Calls
BY DEF Calls

\* Others' calls and bulks are not touched by what t does with its own.
Others(t) ==
    /\ DOMAIN out' = Client /\ bulk' \in [Client -> Bulks]
    /\ \A s \in Client \ {t} : out'[s] = out[s] /\ bulk'[s] = bulk[s]

\* BulkFlush leaves an empty bulk.
LEMMA Flushed ==
    ASSUME CallInv, NEW t \in Client, NEW rest \in Seq(Ordinary), Len(rest) <= 1,
           BulkFlush(t, rest)
    PROVE  /\ out'[t] \in Calls /\ bulk'[t] = EmptyBulk(bulk'[t].bulk_size)
           /\ Others(t)
<1>1. bulk[t] \in Bulks /\ bulk \in [Client -> Bulks] /\ DOMAIN out = Client
  BY Zenon DEF CallInv, ClientTypes, Bulks
<1>2. BulkOpr(bulk[t]) \in Ordinary
  BY Zenon, <1>1, OperatorTypes DEF Bulks
<1>3. /\ (IF bulk[t].count = 0 THEN <<>> ELSE <<BulkOpr(bulk[t])>>) \in Seq(Ordinary)
      /\ Len(IF bulk[t].count = 0 THEN <<>> ELSE <<BulkOpr(bulk[t])>>) <= 1
  BY <1>2
<1>4. (IF bulk[t].count = 0 THEN <<>> ELSE <<BulkOpr(bulk[t])>>) \o rest \in Calls
  BY Zenon, <1>3, Joined
<1>5. out'[t] \in Calls /\ DOMAIN out' = Client /\ \A s \in Client \ {t} : out'[s] = out[s]
  BY Zenon, <1>1, <1>4 DEF BulkFlush
<1>6. /\ bulk' \in [Client -> Bulks] /\ bulk'[t] = EmptyBulk(bulk'[t].bulk_size)
      /\ \A s \in Client \ {t} : bulk'[s] = bulk[s]
  BY <1>1 DEF BulkFlush, EmptyBulk, Bulks
<1> QED
  BY Zenon, <1>5, <1>6 DEF Others

\* BulkAppend leaves a bulk that is not full, or an empty one.
LEMMA Appended ==
    ASSUME CallInv, NEW t \in Client, NEW k \in Bulks, NEW o \in Ordinary,
           NEW before \in Seq(Ordinary), Len(before) <= 1, BulkAppend(t, k, o, before)
    PROVE  /\ out'[t] \in Calls
           /\ bulk'[t].count > 0 => bulk'[t].count < bulk'[t].bulk_size
           /\ Others(t)
<1> DEFINE j == [bulk_size |-> k.bulk_size, count |-> k.count + 1,
                 const_vars |-> k.const_vars \cup o.const_vars,
                 mutable_vars |-> k.mutable_vars \cup o.mutable_vars]
<1>1. bulk \in [Client -> Bulks] /\ DOMAIN out = Client
  BY Zenon DEF CallInv, ClientTypes, Bulks
<1>2. j \in Bulks
  <2>1. o.const_vars \subseteq Var /\ o.mutable_vars \subseteq Var
    BY DEF Ordinary, Operators
  <2>2. k.bulk_size \in Nat /\ k.count + 1 \in Nat /\ k.const_vars \subseteq Var
        /\ k.mutable_vars \subseteq Var
    BY DEF Bulks
  <2>3. k.const_vars \cup o.const_vars \subseteq Var /\ k.mutable_vars \cup o.mutable_vars \subseteq Var
    BY Zenon, <2>1, <2>2
  <2> QED
    BY <2>2, <2>3 DEF Bulks
<1>3. /\ out' = [out EXCEPT ![t] = before \o (IF Full(j) THEN <<BulkOpr(j)>> ELSE <<>>)]
      /\ bulk' = [bulk EXCEPT ![t] = IF Full(j) THEN EmptyBulk(j.bulk_size) ELSE j]
  BY Zenon DEF BulkAppend
<1> HIDE DEF j
<1>4. BulkOpr(j) \in Ordinary
  BY Zenon, <1>2, OperatorTypes DEF Bulks
<1>5. /\ (IF Full(j) THEN <<BulkOpr(j)>> ELSE <<>>) \in Seq(Ordinary)
      /\ Len(IF Full(j) THEN <<BulkOpr(j)>> ELSE <<>>) <= 1
  BY <1>4
<1>6. before \o (IF Full(j) THEN <<BulkOpr(j)>> ELSE <<>>) \in Calls
  BY Zenon, <1>5, Joined
<1>7. out'[t] \in Calls /\ DOMAIN out' = Client /\ \A s \in Client \ {t} : out'[s] = out[s]
  BY Zenon, <1>1, <1>3, <1>6
<1>8. EmptyBulk(j.bulk_size) \in Bulks
  BY <1>2 DEF EmptyBulk, Bulks
<1>9. bulk' \in [Client -> Bulks] /\ \A s \in Client \ {t} : bulk'[s] = bulk[s]
  BY Zenon, <1>1, <1>2, <1>3, <1>8
<1>10. bulk'[t] = IF Full(j) THEN EmptyBulk(j.bulk_size) ELSE j
  BY Zenon, <1>1, <1>3
<1>11. bulk'[t].count > 0 => bulk'[t].count < bulk'[t].bulk_size
  BY <1>2, <1>10 DEF Full, EmptyBulk, Bulks
<1> QED
  BY Zenon, <1>7, <1>9, <1>11 DEF Others

\* What the calls have in common: an idle client has something to push, maybe
\* something to wait for, and nothing else has happened.
Starts(t) ==
    /\ Idle(t)
    /\ pc' \in [Client -> {"idle", "test", "wait", "all", "throw", "clear"}]
    /\ pc'[t] \in {"idle", "test", "all"}
    /\ arg' \in [Client -> Var \cup {None}]
    /\ pc'[t] = "test" => arg'[t] \in Var
    /\ \A s \in Client \ {t} : pc'[s] = pc[s] /\ arg'[s] = arg[s]
    /\ out'[t] \in Calls
    /\ pc'[t] # "idle" => bulk'[t] = EmptyBulk(bulk'[t].bulk_size)
    /\ bulk'[t].count > 0 => bulk'[t].count < bulk'[t].bulk_size
    /\ Others(t)
    /\ UNCHANGED <<avars, evars, wvars, blk, caller, tmp, thrown, shutdown>>

\* Every call is of that form.
LEMMA CallStarts ==
    ASSUME CallInv, NEW t \in Client, ClientStep(t)
    PROVE  Starts(t)
<1>1. /\ pc \in [Client -> {"idle", "test", "wait", "all", "throw", "clear"}]
      /\ arg \in [Client -> Var \cup {None}]
      /\ DOMAIN out = Client /\ bulk \in [Client -> Bulks] /\ bulk[t] \in Bulks
  BY Zenon DEF CallInv, ClientTypes
<1>2. <<>> \in Seq(Ordinary) /\ Len(<<>>) <= 1
  OBVIOUS
<1>3. ASSUME NEW o \in Ordinary PROVE <<o>> \in Seq(Ordinary) /\ Len(<<o>>) <= 1
  OBVIOUS
<1>0. ~(0 > 0)
  OBVIOUS
<1>4. \A n : EmptyBulk(n).count = 0
  BY Zenon DEF EmptyBulk
<1>5. ASSUME NEW o \in Ordinary, PushAsync(t, o) PROVE Starts(t)
  <2>1. BulkFlush(t, <<o>>)
    BY Zenon, <1>5 DEF PushAsync
  <2>2. out'[t] \in Calls /\ bulk'[t] = EmptyBulk(bulk'[t].bulk_size) /\ Others(t)
    BY Zenon, <2>1, <1>3, Flushed
  <2>3. bulk'[t].count = 0
    BY Zenon, <2>2, <1>4
  <2>4. Idle(t) /\ UNCHANGED <<avars, evars, wvars, pc, arg, blk, caller, tmp, thrown, shutdown>>
    BY Zenon, <1>5 DEF PushAsync
  <2> QED
    BY SMTT(40), <1>1, <2>2, <2>3, <2>4 DEF Starts, Idle
<1>6. ASSUME NEW o \in SyncOpr, NEW same \in BOOLEAN, PushSync(t, o, same) PROVE Starts(t)
  <2>1. o \in Ordinary
    BY Zenon, OperatorTypes
  <2>2. EmptyBulk(bulk[t].bulk_size) \in Bulks /\ BulkOpr(bulk[t]) \in Ordinary
    BY Zenon, <1>1, OperatorTypes DEF EmptyBulk, Bulks
  <2>3. \/ BulkAppend(t, bulk[t], o, <<>>)
        \/ BulkAppend(t, EmptyBulk(bulk[t].bulk_size), o, <<BulkOpr(bulk[t])>>)
    BY Zenon, <1>6 DEF PushSync
  <2>4. /\ out'[t] \in Calls /\ Others(t)
        /\ bulk'[t].count > 0 => bulk'[t].count < bulk'[t].bulk_size
    <3>1. CASE BulkAppend(t, bulk[t], o, <<>>)
      BY Zenon, <1>1, <1>2, <2>1, <3>1, Appended
    <3>2. CASE BulkAppend(t, EmptyBulk(bulk[t].bulk_size), o, <<BulkOpr(bulk[t])>>)
      <4>1. <<BulkOpr(bulk[t])>> \in Seq(Ordinary) /\ Len(<<BulkOpr(bulk[t])>>) <= 1
        BY Zenon, <2>2, <1>3
      <4> QED
        BY Zenon, <2>1, <2>2, <3>2, <4>1, Appended
    <3> QED
      BY Zenon, <2>3, <3>1, <3>2
  <2>5. Idle(t) /\ UNCHANGED <<avars, evars, wvars, pc, arg, blk, caller, tmp, thrown, shutdown>>
    BY Zenon, <1>6 DEF PushSync
  <2> QED
    BY Zenon, <1>1, <2>4, <2>5 DEF Starts, Idle
<1>7. ASSUME NEW n \in BulkSizes, set_bulk_size(t, n) PROVE Starts(t)
  <2>1. Idle(t) /\ UNCHANGED <<avars, evars, wvars, pc, arg, blk, caller, tmp, thrown, shutdown>>
    BY Zenon, <1>7 DEF set_bulk_size
  <2>2. n \in Nat /\ EmptyBulk(n) \in Bulks /\ <<BulkOpr(bulk[t])>> \in Calls /\ <<>> \in Calls
    <3>1. n \in Nat /\ BulkOpr(bulk[t]) \in Ordinary
      BY Zenon, <1>1, ClientAssumption, OperatorTypes
    <3>2. EmptyBulk(n) \in Bulks
      BY <3>1 DEF EmptyBulk, Bulks
    <3>3. ASSUME NEW o \in Ordinary PROVE <<o>> \in Calls /\ <<>> \in Calls
      BY DEF Calls
    <3> QED
      BY Zenon, <3>1, <3>2, <3>3
  <2>3. CASE bulk[t].count >= n /\ bulk[t].count > 0
    <3>1. /\ out' = [out EXCEPT ![t] = <<BulkOpr(bulk[t])>>]
          /\ bulk' = [bulk EXCEPT ![t] = EmptyBulk(n)]
      BY Zenon, <1>7, <2>3 DEF set_bulk_size
    <3>2. out'[t] \in Calls /\ bulk'[t].count = 0
      BY Zenon, <1>1, <1>4, <2>2, <3>1
    <3>3. Others(t)
      BY Zenon, <1>1, <2>2, <3>1 DEF Others
    <3> QED
      BY Zenon, <1>0, <1>1, <2>1, <3>2, <3>3 DEF Starts, Idle
  <2>4. CASE ~(bulk[t].count >= n /\ bulk[t].count > 0)
    <3>1. bulk' = [bulk EXCEPT ![t].bulk_size = n] /\ out' = out
      BY Zenon, <1>7, <2>4 DEF set_bulk_size
    <3>2. bulk' \in [Client -> Bulks] /\ \A s \in Client \ {t} : bulk'[s] = bulk[s]
      BY Zenon, <1>1, <2>2, <3>1 DEF Bulks
    <3>3. bulk'[t].count = bulk[t].count /\ bulk'[t].bulk_size = n /\ bulk[t].count \in Nat
      BY SMTT(40), SMTT(40), <1>1, <3>1 DEF Bulks
    <3>4. bulk'[t].count > 0 => bulk'[t].count < bulk'[t].bulk_size
      BY <2>2, <2>4, <3>3
    <3>5. out'[t] \in Calls /\ Others(t)
      BY Zenon, <1>1, <2>1, <2>2, <3>1, <3>2 DEF Others, Idle, Pushed
    <3> QED
      BY Zenon, <1>1, <2>1, <3>4, <3>5 DEF Starts, Idle
  <2> QED
    BY Zenon, <2>3, <2>4
<1>8. ASSUME NEW v \in Var, WaitForVar(t, v) PROVE Starts(t)
  <2>1. BulkFlush(t, <<>>)
    BY Zenon, <1>8 DEF WaitForVar
  <2>2. out'[t] \in Calls /\ bulk'[t] = EmptyBulk(bulk'[t].bulk_size) /\ Others(t)
    BY Zenon, <2>1, <1>2, Flushed
  <2>3. bulk'[t].count = 0
    BY Zenon, <2>2, <1>4
  <2>4. /\ Idle(t) /\ UNCHANGED <<avars, evars, wvars, blk, caller, tmp, thrown, shutdown>>
        /\ pc' = [pc EXCEPT ![t] = "test"] /\ arg' = [arg EXCEPT ![t] = v]
    BY Zenon, <1>8 DEF WaitForVar
  <2> QED
    BY Zenon, <1>0, <1>1, <2>2, <2>3, <2>4 DEF Starts
<1>9. CASE WaitForAll(t)
  <2>1. BulkFlush(t, <<>>)
    BY Zenon, <1>9 DEF WaitForAll
  <2>2. out'[t] \in Calls /\ bulk'[t] = EmptyBulk(bulk'[t].bulk_size) /\ Others(t)
    BY Zenon, <2>1, <1>2, Flushed
  <2>3. bulk'[t].count = 0
    BY Zenon, <2>2, <1>4
  <2>4. /\ Idle(t) /\ UNCHANGED <<avars, evars, wvars, arg, blk, caller, tmp, thrown, shutdown>>
        /\ pc' = [pc EXCEPT ![t] = "all"]
    BY Zenon, <1>9 DEF WaitForAll
  <2> QED
    BY Zenon, <1>0, <1>1, <2>2, <2>3, <2>4 DEF Starts
<1> QED
  <2>1. \A v \in Deletable : DeleteOpr(v) \in Ordinary
    BY Zenon, OperatorTypes, ClientAssumption
  <2> QED
    BY Zenon, <2>1, <1>5, <1>6, <1>7, <1>8, <1>9, OperatorTypes DEF ClientStep, DeleteVariable

\* A call keeps what is said of clients.
LEMMA CallKept ==
    ASSUME CallInv, NEW t \in Client, Starts(t)
    PROVE  CallInv'
<1>1. ClientTypes'
  BY DEF CallInv, ClientTypes, Starts, Others, wvars
<1>2. ASSUME NEW s \in Client PROVE Calling(s)'
  <2>1. Calling(s) /\ asleep' = asleep /\ mutex' = mutex
    BY Zenon DEF CallInv, Starts, wvars
  <2>2. CASE s = t
    BY Zenon, <2>1, <2>2 DEF Calling, Starts, Idle
  <2>3. CASE s # t
    BY Zenon, <2>1, <2>3 DEF Calling, Starts, Others
  <2> QED
    BY Zenon, <2>2, <2>3
<1> QED
  BY Zenon, <1>1, <1>2 DEF CallInv

\* The operator a call pushes next.
LEMMA NextOperator ==
    ASSUME CallInv, NEW t \in Client, out[t] # <<>>
    PROVE  /\ Head(out[t]) \in Operators
           /\ pc[t] = "wait" => Head(out[t]) = WaitOpr(arg[t]) /\ Tail(out[t]) = <<>>
           /\ pc[t] # "wait" => Head(out[t]) \in Ordinary /\ Tail(out[t]) \in Calls
           /\ pc[t] \notin {"throw", "clear"}
<1>1. Calling(t)
  BY Zenon DEF CallInv
<1>2. CASE pc[t] = "wait"
  <2>1. out[t] = <<WaitOpr(arg[t])>> /\ arg[t] \in Var
    BY <1>1, <1>2 DEF Calling
  <2>2. WaitOpr(arg[t]) \in Operators
    BY Zenon, <2>1, OperatorTypes
  <2>3. Head(out[t]) = WaitOpr(arg[t]) /\ Tail(out[t]) = <<>>
    BY <2>1
  <2> QED
    BY Zenon, <1>2, <2>2, <2>3
<1>3. CASE pc[t] # "wait"
  <2>1. out[t] \in Calls /\ pc[t] \notin {"throw", "clear"}
    BY <1>1, <1>3 DEF Calling
  <2>2. Head(out[t]) \in Ordinary /\ Tail(out[t]) \in Calls
    BY Zenon, <2>1, CallsHead
  <2> QED
    BY Zenon, <1>3, <2>1, <2>2 DEF Ordinary
<1> QED
  BY Zenon, <1>2, <1>3

\* The rest of a call keeps what is said of clients.
LEMMA CallGoesOn ==
    ASSUME CallInv, ExecTypes, NEW t \in Client, CallStep(t)
    PROVE  CallInv'
<1>1. ASSUME NEW b \in Blk, IssueNext(t, b) PROVE CallInv'
  <2>1. /\ pc[t] = "wait" => Head(out[t]) = WaitOpr(arg[t]) /\ Tail(out[t]) = <<>>
        /\ pc[t] # "wait" => Head(out[t]) \in Ordinary /\ Tail(out[t]) \in Calls
        /\ pc[t] \notin {"throw", "clear"}
    BY Zenon, <1>1, NextOperator DEF IssueNext
  <2>2. ClientTypes'
    BY Zenon, <1>1 DEF CallInv, ClientTypes, IssueNext
  <2>3. ASSUME NEW s \in Client PROVE Calling(s)'
    BY Zenon, <1>1, <2>1 DEF CallInv, ClientTypes, Calling, IssueNext
  <2> QED
    BY Zenon, <2>2, <2>3 DEF CallInv
<1>2. ASSUME NEW v \in Var, ReachNext(t, v) PROVE CallInv'
  <2>1. ClientTypes'
    BY Zenon, <1>2 DEF CallInv, ClientTypes, ReachNext, wvars
  <2>2. ASSUME NEW s \in Client PROVE Calling(s)'
    BY Zenon, <1>2 DEF CallInv, Calling, ReachNext, wvars
  <2> QED
    BY Zenon, <2>1, <2>2 DEF CallInv
<1>3. CASE TestReady(t)
  <2>1. ClientTypes'
    BY <1>3 DEF CallInv, ClientTypes, TestReady, wvars
  <2>2. <<>> \in Calls
    BY DEF Calls
  <2>3. ASSUME NEW s \in Client PROVE Calling(s)'
    BY Zenon, <1>3, <2>2 DEF CallInv, ClientTypes, Calling, TestReady, wvars
  <2> QED
    BY Zenon, <2>1, <2>3 DEF CallInv
<1>4. CASE CheckPredicate(t)
  <2>1. ClientTypes'
    BY Zenon, <1>4 DEF CallInv, ClientTypes, CheckPredicate
  <2>2. <<>> \in Calls
    BY DEF Calls
  <2>3. ASSUME NEW s \in Client PROVE Calling(s)'
    <3>1. Calling(s) /\ DOMAIN pc = Client
      BY Zenon DEF CallInv, ClientTypes
    <3>2. /\ UNCHANGED <<arg, out, bulk, asleep>> /\ t \notin asleep /\ mutex = None
          /\ pc[t] \in {"wait", "all"} /\ out[t] = <<>>
      BY Zenon, <1>4 DEF CheckPredicate, Pushed
    <3>3. \/ mutex' = t /\ pc' = pc
          \/ mutex' = None /\ pc' = [pc EXCEPT ![t] = IF @ = "wait" THEN "throw" ELSE "idle"]
      BY Zenon, <1>4, <3>2 DEF CheckPredicate
    <3>4. s # None
      BY Zenon, ClientAssumption
    <3>5. CASE mutex' = t /\ pc' = pc
      BY Zenon, <3>1, <3>2, <3>5 DEF Calling
    <3>6. CASE mutex' = None /\ pc' = [pc EXCEPT ![t] = IF @ = "wait" THEN "throw" ELSE "idle"]
      <4>1. CASE s = t
        <5>1. /\ pc[s] = "wait" => pc'[s] = "throw"
              /\ pc[s] # "wait" => pc'[s] = "idle"
          BY Zenon, <3>1, <3>6, <4>1
        <5> QED
          BY Zenon, <2>2, <3>1, <3>2, <3>4, <3>6, <4>1, <5>1 DEF Calling
      <4>2. CASE s # t
        <5>1. pc'[s] = pc[s]
          BY Zenon, <3>1, <3>6, <4>2
        <5> QED
          BY Zenon, <3>1, <3>2, <3>4, <3>6, <5>1 DEF Calling
      <4> QED
        BY Zenon, <4>1, <4>2
    <3> QED
      BY Zenon, <3>3, <3>5, <3>6
  <2> QED
    BY Zenon, <2>1, <2>3 DEF CallInv
<1>5. CASE Sleep(t)
  <2>1. ClientTypes'
    BY Zenon, <1>5 DEF CallInv, ClientTypes, Sleep, cvars
  <2>2. ASSUME NEW s \in Client PROVE Calling(s)'
    BY Zenon, <1>5, ClientAssumption DEF CallInv, Calling, Sleep, cvars
  <2> QED
    BY Zenon, <2>1, <2>2 DEF CallInv
<1>6. CASE ReadException(t)
  <2>1. Live(var_exception[arg[t]]) => var_exception[arg[t]] \in Blk
    <3>1. pc[t] = "throw" /\ Calling(t)
      BY Zenon, <1>6 DEF ReadException, CallInv
    <3>2. arg[t] \in Var
      BY Zenon, <3>1 DEF Calling
    <3> QED
      BY Zenon, <3>2 DEF Live, ExecTypes
  <2>2. ClientTypes'
    BY Zenon, <1>6, <2>1 DEF CallInv, ClientTypes, ReadException, wvars
  <2>3. ASSUME NEW s \in Client PROVE Calling(s)'
    BY Zenon, <1>6 DEF CallInv, ClientTypes, Calling, ReadException, wvars
  <2> QED
    BY Zenon, <2>2, <2>3 DEF CallInv
<1>7. CASE ThrowException(t)
  <2>1. ClientTypes'
    BY Zenon, <1>7 DEF CallInv, ClientTypes, ThrowException, wvars
  <2>2. ASSUME NEW s \in Client PROVE Calling(s)'
    BY Zenon, <1>7 DEF CallInv, ClientTypes, Calling, ThrowException, wvars
  <2> QED
    BY Zenon, <2>1, <2>2 DEF CallInv
<1> QED
  BY Zenon, <1>1, <1>2, <1>3, <1>4, <1>5, <1>6, <1>7 DEF CallStep

\* A client wakes up for no reason.
LEMMA CallSpurious ==
    ASSUME CallInv, NEW t \in Client, SpuriousWakeup(t)
    PROVE  CallInv'
<1>1. ClientTypes'
  BY DEF CallInv, ClientTypes, SpuriousWakeup, cvars
<1>2. ASSUME NEW s \in Client PROVE Calling(s)'
  BY Zenon DEF CallInv, Calling, SpuriousWakeup, cvars
<1> QED
  BY Zenon, <1>1, <1>2 DEF CallInv

\* What workers and NotifyShutdown do to clients: they set done and wake them.
LEMMA CallFrame ==
    ASSUME CallInv, UNCHANGED <<cvars, mutex>>, asleep' \subseteq asleep,
           done' \in [Client -> BOOLEAN], shutdown' \in BOOLEAN
    PROVE  CallInv'
<1>1. ClientTypes'
  BY Zenon DEF CallInv, ClientTypes, cvars
<1>2. ASSUME NEW s \in Client PROVE Calling(s)'
  BY DEF CallInv, Calling, cvars
<1> QED
  BY Zenon, <1>1, <1>2 DEF CallInv

\* So do workers.
LEMMA CallWorker ==
    ASSUME CallInv, NEW b \in Blk, WorkerStep(b)
    PROVE  CallInv' /\ UNCHANGED <<cvars, mutex, shutdown>>
<1>1. /\ UNCHANGED <<cvars, mutex, shutdown>> /\ asleep' \subseteq asleep
      /\ done' = done \/ done' = [done EXCEPT ![caller[b]] = TRUE]
  BY Zenon DEF WorkerStep, OnStart, SkipAtShutdown, ExecuteFn, FnReturns, FnThrows, WaitFnStore,
         WaitFnNotify, CompleteRead, MarkWrite, CompleteWrite, CompleteEnd, NotifyAll, wvars
<1>2. done' \in [Client -> BOOLEAN] /\ shutdown' \in BOOLEAN
  BY Zenon, <1>1 DEF CallInv, ClientTypes
<1> QED
  BY Zenon, <1>1, <1>2, CallFrame

-----------------------------------------------------------------------------
(* Pushing: one block at a time reaches its variables, and pending_ counts *)
(* the blocks that have not finished.                                      *)

Pushing(t) ==
    blk[t] # None =>
       /\ blk[t] \in Blk /\ caller[blk[t]] = t
       /\ stage[blk[t]] = "pushed" /\ reached[blk[t]] # Uses(blk[t])

Caused(b) ==
    /\ stage[b] = "new" => caller[b] = None
    /\ stage[b] # "new" => caller[b] \in Client
    /\ stage[b] = "pushed" => blk[caller[b]] = b \/ reached[b] = Uses(b)

PushInv ==
    /\ \A t \in Client : Pushing(t)
    /\ \A b \in Blk : Caused(b)

\* Nothing is pushed at first.
LEMMA PushInit ==
    ASSUME Init PROVE PushInv
BY DEF Init, AInit, PushInv, Pushing, Caused

\* A client issues the next block: nobody else is pushing one.
LEMMA PushIssue ==
    ASSUME ScheduleInv, CallInv, PushInv, NEW t \in Client, NEW b \in Blk, IssueNext(t, b)
    PROVE  PushInv'
<1>1. /\ stage[b] = "new" /\ stage' = [stage EXCEPT ![b] = "pushed"]
      /\ opr' = [opr EXCEPT ![b] = Head(out[t])]
      /\ reached' = reached
      /\ \A s \in Client : blk[s] = None
      /\ blk' = [blk EXCEPT ![t] = IF Uses(b)' = {} THEN None ELSE b]
      /\ caller' = [caller EXCEPT ![b] = t]
  BY Zenon DEF IssueNext, Issue
<1>2. reached[b] = {} /\ reached'[b] = {}
  BY Zenon, <1>1 DEF ScheduleInv, Scheduled
<1>3. blk \in [Client -> Blk \cup {None}] /\ caller \in [Blk -> Client \cup {None}]
  BY Zenon DEF CallInv, ClientTypes
<1>4. stage \in [Blk -> {"new", "pushed", "started", "finished"}] /\ opr \in [Blk -> Operators \cup {None}]
  BY Zenon DEF ScheduleInv, Types
<1>5. ASSUME NEW s \in Client PROVE Pushing(s)'
  BY Zenon, <1>1, <1>2, <1>3, <1>4, ClientAssumption DEF Pushing
<1>6. ASSUME NEW c \in Blk PROVE Caused(c)'
  <2>1. CASE c = b
    BY Zenon, <1>1, <1>2, <1>3, <1>4, <2>1 DEF Caused
  <2>2. CASE c # b
    <3>1. Caused(c)
      BY Zenon DEF PushInv
    <3>2. stage[c] = "pushed" => reached[c] = Uses(c)
      BY Zenon, <1>1, <3>1, ClientAssumption DEF Caused
    <3>3. /\ stage'[c] = stage[c] /\ caller'[c] = caller[c] /\ opr'[c] = opr[c] /\ reached'[c] = reached[c]
      BY Zenon, <1>1, <1>3, <1>4, <2>2
    <3> QED
      BY <3>1, <3>2, <3>3 DEF Caused, Uses
  <2> QED
    BY Zenon, <2>1, <2>2
<1> QED
  BY Zenon, <1>5, <1>6 DEF PushInv

\* The block that is being pushed reaches a variable.
LEMMA PushReach ==
    ASSUME ScheduleInv, CallInv, PushInv, NEW t \in Client, NEW v \in Var, ReachNext(t, v)
    PROVE  PushInv'
<1> DEFINE b == blk[t]
<1>1. /\ b # None /\ v \in Uses(b) /\ reached' = [reached EXCEPT ![b] = @ \cup {v}]
      /\ blk' = [blk EXCEPT ![t] = IF reached'[b] = Uses(b) THEN None ELSE b]
      /\ UNCHANGED <<opr, stage, caller>>
  BY DEF ReachNext, Reach
<1>2. b \in Blk /\ caller[b] = t /\ stage[b] = "pushed" /\ reached[b] # Uses(b)
  BY Zenon, <1>1 DEF PushInv, Pushing
<1>3. blk \in [Client -> Blk \cup {None}] /\ reached \in [Blk -> SUBSET Var]
  BY Zenon DEF CallInv, ClientTypes, ScheduleInv, Types
<1> HIDE DEF b
<1>4. ASSUME NEW c \in Blk PROVE Uses(c)' = Uses(c)
  BY Zenon, <1>1 DEF Uses
<1>5. ASSUME NEW s \in Client PROVE Pushing(s)'
  <2>1. Pushing(s)
    BY Zenon DEF PushInv
  <2>2. CASE s = t
    BY Zenon, <1>1, <1>2, <1>3, <1>4, <2>2 DEF Pushing
  <2>3. CASE s # t
    <3>1. blk'[s] = blk[s] /\ blk[s] # b
      BY Zenon, <1>1, <1>2, <1>3, <2>1, <2>3 DEF Pushing
    <3> QED
      BY Zenon, <1>1, <1>3, <1>4, <2>1, <3>1 DEF Pushing
  <2> QED
    BY Zenon, <2>2, <2>3
<1>6. ASSUME NEW c \in Blk PROVE Caused(c)'
  <2>1. Caused(c)
    BY Zenon DEF PushInv
  <2>2. CASE c = b
    BY Zenon, <1>1, <1>2, <1>3, <1>4, <2>1, <2>2 DEF Caused
  <2>3. CASE c # b
    <3>1. stage[c] = "pushed" => blk'[caller[c]] = c \/ reached[c] = Uses(c)
      <4>1. CASE caller[c] = t
        BY Zenon, <1>1, <1>2, <2>1, <2>3, <4>1 DEF Caused, b
      <4>2. CASE caller[c] # t
        BY Zenon, <1>1, <1>2, <1>3, <2>1, <2>3, <4>2 DEF Caused
      <4> QED
        BY Zenon, <4>1, <4>2
    <3>2. reached'[c] = reached[c]
      BY SMTT(40), <1>1, <1>3, <2>3
    <3> QED
      BY Zenon, <1>1, <1>4, <2>1, <3>1, <3>2 DEF Caused
  <2> QED
    BY Zenon, <2>2, <2>3
<1> QED
  BY Zenon, <1>5, <1>6 DEF PushInv

\* Blocks start only when they have been pushed, and then only go forward.
LEMMA PushFrame ==
    ASSUME PushInv, UNCHANGED <<blk, caller, opr, reached>>,
           \A c \in Blk : \/ stage'[c] = stage[c]
                          \/ stage[c] = "pushed" /\ reached[c] = Uses(c) /\ stage'[c] = "started"
                          \/ stage[c] = "started" /\ stage'[c] = "finished"
    PROVE  PushInv'
<1>1. ASSUME NEW s \in Client PROVE Pushing(s)'
  BY Zenon DEF PushInv, Pushing, Uses
<1>2. ASSUME NEW c \in Blk PROVE Caused(c)'
  BY DEF PushInv, Caused, Uses
<1> QED
  BY Zenon, <1>1, <1>2 DEF PushInv

\* What a worker does to the schedule.
LEMMA WorkerSchedule ==
    ASSUME NEW b \in Blk, WorkerStep(b)
    PROVE  \/ Start(b)
           \/ \E v \in Var : GiveUp(b, v)
           \/ Finish(b)
           \/ UNCHANGED avars
BY Zenon DEF WorkerStep, OnStart, SkipAtShutdown, ExecuteFn, FnReturns, FnThrows, WaitFnStore,
       WaitFnNotify, CompleteRead, MarkWrite, CompleteWrite, CompleteEnd, NotifyAll

\* A worker keeps what is said of pushing.
LEMMA PushWorker ==
    ASSUME ScheduleInv, CallInv, PushInv, NEW b \in Blk, WorkerStep(b)
    PROVE  PushInv'
<1>1. UNCHANGED <<blk, caller>>
  BY Zenon, CallWorker DEF cvars
<1>2. stage \in [Blk -> {"new", "pushed", "started", "finished"}]
  BY Zenon DEF ScheduleInv, Types
<1>3. /\ UNCHANGED <<opr, reached>>
      /\ \A c \in Blk : \/ stage'[c] = stage[c]
                        \/ stage[c] = "pushed" /\ reached[c] = Uses(c) /\ stage'[c] = "started"
                        \/ stage[c] = "started" /\ stage'[c] = "finished"
  <2>1. CASE Start(b)
    BY Zenon, <1>2, <2>1 DEF Start
  <2>2. CASE \E v \in Var : GiveUp(b, v)
    BY Zenon, <2>2 DEF GiveUp
  <2>3. CASE Finish(b)
    BY Zenon, <1>2, <2>3 DEF Finish
  <2>4. CASE UNCHANGED avars
    BY <2>4 DEF avars
  <2> QED
    BY Zenon, <2>1, <2>2, <2>3, <2>4, WorkerSchedule
<1> QED
  BY Zenon, <1>1, <1>3, PushFrame

-----------------------------------------------------------------------------
(* Waiting: the block that sets done is behind every write of its client.  *)

(* A write of v that t pushed and that is not complete. *)
OwnWrite(t, c, v) ==
    /\ stage[c] # "new" /\ caller[c] = t /\ v \in opr[c].mutable_vars
    /\ stage[c] = "pushed" \/ On(c, v)
OwnDone(t) == \A c \in Blk : ~OwnWrite(t, c, arg[t])

(* b is the block of a WaitForVar of t, and has not set done. *)
WaitsFor(t, b) ==
    /\ stage[b] # "new" /\ caller[b] = t /\ opr[b].wait
    /\ stage[b] = "pushed" \/ exec[b] \in {"marked", "running"}

Awaited(t, b) ==
    /\ pc[t] = "wait" /\ out[t] = <<>> /\ ~done[t] /\ opr[b] = WaitOpr(arg[t])
    /\ blk[t] = None \/ blk[t] = b
    /\ \A c \in Blk : WaitsFor(t, c) => c = b
    /\ arg[t] \in reached[b] =>
         \A c \in Blk : OwnWrite(t, c, arg[t]) => c \in ahead[b][arg[t]]

Waits(t) ==
    /\ pc[t] = "wait" /\ out[t] # <<>> => ~done[t] /\ blk[t] = None /\ \A b \in Blk : ~WaitsFor(t, b)
    /\ pc[t] = "wait" /\ blk[t] # None => WaitsFor(t, blk[t])
    /\ done[t] => pc[t] = "wait" /\ Pushed(t) /\ OwnDone(t)
    /\ pc[t] \in {"throw", "clear"} => Pushed(t) /\ OwnDone(t)
    /\ \A b \in Blk : WaitsFor(t, b) => Awaited(t, b)

WaitInv == \A t \in Client : Waits(t)

\* Nobody waits at first.
LEMMA WaitInit ==
    ASSUME Init PROVE WaitInv
BY Zenon DEF Init, AInit, WaitInv, Waits, WaitsFor

\* A step that is none of t's: it starts no write and no wait of t, and lets none
\* of its waits reach a variable.
Quiet(t) ==
    /\ pc'[t] = pc[t] /\ out'[t] = out[t] /\ arg'[t] = arg[t] /\ blk'[t] = blk[t] /\ done'[t] = done[t]
    /\ \A c \in Blk, v \in Var : OwnWrite(t, c, v)' => OwnWrite(t, c, v)
    /\ \A b \in Blk : WaitsFor(t, b)' =>
          /\ WaitsFor(t, b) /\ opr'[b] = opr[b]
          /\ reached'[b] = reached[b] /\ ahead'[b] = ahead[b]
    /\ blk[t] # None /\ WaitsFor(t, blk[t]) => WaitsFor(t, blk[t])'

\* Such a step changes nothing for t.
LEMMA WaitQuiet ==
    ASSUME CallInv, NEW t \in Client, Waits(t), Quiet(t)
    PROVE  Waits(t)'
<1>1. Calling(t)
  BY Zenon DEF CallInv
<1>2. pc[t] \in {"wait", "throw", "clear"} => arg[t] \in Var
  BY Zenon, <1>1 DEF Calling
<1>3. OwnDone(t) /\ arg[t] \in Var => OwnDone(t)'
  BY Zenon DEF OwnDone, Quiet
<1>4. Pushed(t)' <=> Pushed(t)
  BY Zenon DEF Pushed, Quiet
<1>5. ASSUME NEW b \in Blk, WaitsFor(t, b)' PROVE Awaited(t, b)'
  <2>1. WaitsFor(t, b) /\ Awaited(t, b)
    BY Zenon, <1>5 DEF Quiet, Waits
  <2>2. pc[t] = "wait" /\ arg[t] \in Var
    BY Zenon, <1>2, <2>1 DEF Awaited
  <2>3. \A c \in Blk : WaitsFor(t, c)' => c = b
    BY Zenon, <2>1 DEF Quiet, Awaited
  <2>4. opr'[b] = opr[b] /\ reached'[b] = reached[b] /\ ahead'[b] = ahead[b] /\ arg'[t] = arg[t]
    BY Zenon, <1>5 DEF Quiet
  <2>5. ASSUME arg'[t] \in reached'[b], NEW c \in Blk, OwnWrite(t, c, arg[t])'
        PROVE  c \in ahead'[b][arg'[t]]
    <3>1. OwnWrite(t, c, arg[t])
      BY Zenon, <2>2, <2>4, <2>5 DEF Quiet
    <3> QED
      BY Zenon, <2>1, <2>4, <2>5, <3>1 DEF Awaited
  <2>6. /\ pc'[t] = "wait" /\ out'[t] = <<>> /\ ~done'[t] /\ opr'[b] = WaitOpr(arg'[t])
        /\ blk'[t] = None \/ blk'[t] = b
    BY Zenon, <2>1, <2>4 DEF Quiet, Awaited
  <2>7. opr'[b] = WaitOpr(arg[t])'
    BY Zenon, <2>6 DEF WaitOpr
  <2> QED
    BY Zenon, <2>3, <2>5, <2>6, <2>7 DEF Awaited
<1>6. pc'[t] = "wait" /\ out'[t] # <<>> => ~done'[t] /\ blk'[t] = None /\ \A b \in Blk : ~WaitsFor(t, b)'
  BY Zenon DEF Quiet, Waits
<1>7. pc'[t] = "wait" /\ blk'[t] # None => WaitsFor(t, blk[t])'
  BY Zenon DEF Quiet, Waits
<1>8. done'[t] => pc'[t] = "wait" /\ Pushed(t)' /\ OwnDone(t)'
  BY Zenon, <1>2, <1>3, <1>4 DEF Quiet, Waits
<1>9. pc'[t] \in {"throw", "clear"} => Pushed(t)' /\ OwnDone(t)'
  BY Zenon, <1>2, <1>3, <1>4 DEF Quiet, Waits
<1> QED
  BY Zenon, <1>5, <1>6, <1>7, <1>8, <1>9 DEF Waits

\* The steps of the engine, those that issue a block aside, only complete writes.
LEMMA OwnShrinks ==
    ASSUME ScheduleInv, NEW b \in Blk, caller' = caller,
           \/ Start(b)
           \/ \E v \in Var : GiveUp(b, v) \/ Reach(b, v)
           \/ Finish(b)
           \/ UNCHANGED avars,
           NEW t, NEW c \in Blk, NEW v \in Var, OwnWrite(t, c, v)'
    PROVE  OwnWrite(t, c, v)
<1>1. /\ stage \in [Blk -> {"new", "pushed", "started", "finished"}]
      /\ held \in [Blk -> SUBSET Var] /\ reached \in [Blk -> SUBSET Var]
  BY Zenon DEF ScheduleInv, Types
<1>2. CASE Start(b)
  BY Zenon, <1>1, <1>2 DEF Start, OwnWrite, On
<1>3. ASSUME NEW u \in Var, GiveUp(b, u) PROVE OwnWrite(t, c, v)
  BY Zenon, <1>1, <1>3 DEF GiveUp, OwnWrite, On
<1>4. ASSUME NEW u \in Var, Reach(b, u) PROVE OwnWrite(t, c, v)
  BY Zenon, <1>1, <1>4 DEF Reach, OwnWrite, On
<1>5. CASE Finish(b)
  BY Zenon, <1>1, <1>5 DEF Finish, OwnWrite, On
<1>6. CASE UNCHANGED avars
  BY Zenon, <1>6 DEF avars, OwnWrite, On
<1> QED
  BY Zenon, <1>2, <1>3, <1>4, <1>5, <1>6

\* Nor do workers start a wait, or touch one that is still being pushed.
LEMMA WaitsShrink ==
    ASSUME ScheduleInv, ExecInv, CallInv, PushInv, NEW b \in Blk, WorkerStep(b),
           NEW t \in Client, NEW c \in Blk
    PROVE  /\ opr' = opr /\ reached' = reached /\ ahead' = ahead
           /\ WaitsFor(t, c)' => WaitsFor(t, c)
           /\ blk[t] = c /\ WaitsFor(t, c) => WaitsFor(t, c)'
<1>1. opr' = opr /\ reached' = reached /\ ahead' = ahead /\ caller' = caller
  <2>1. opr' = opr /\ reached' = reached /\ ahead' = ahead
    BY Zenon, WorkerSchedule DEF Start, GiveUp, Finish, avars
  <2>2. caller' = caller
    BY Zenon, CallWorker DEF cvars
  <2> QED
    BY Zenon, <2>1, <2>2
<1>2. /\ stage \in [Blk -> {"new", "pushed", "started", "finished"}]
      /\ exec \in [Blk -> {"none", "marked", "running", "stored", "complete", "notify"}]
  BY Zenon DEF ScheduleInv, Types, ExecInv, ExecTypes
<1>3. c # b => stage'[c] = stage[c] /\ exec'[c] = exec[c]
  BY Zenon, <1>2 DEF WorkerStep, OnStart, SkipAtShutdown, ExecuteFn, FnReturns, FnThrows, WaitFnStore,
         WaitFnNotify, CompleteRead, MarkWrite, CompleteWrite, CompleteEnd, NotifyAll,
         Start, GiveUp, Finish, avars, evars, xvars
<1>4. /\ stage[b] # "new" /\ stage'[b] # "pushed"
      /\ exec'[b] \in {"marked", "running"} =>
           stage[b] = "pushed" \/ exec[b] \in {"marked", "running"}
  <2>1. Executed(b)
    BY Zenon DEF ExecInv
  <2> QED
    BY Zenon, <1>2, <2>1 DEF Executed, WorkerStep, OnStart, SkipAtShutdown, ExecuteFn, FnReturns, FnThrows,
         WaitFnStore, WaitFnNotify, CompleteRead, MarkWrite, CompleteWrite, CompleteEnd, NotifyAll,
         Start, GiveUp, Finish, avars, evars, xvars
<1>5. ASSUME blk[t] = c PROVE c # b
  <2>1. stage[c] = "pushed" /\ reached[c] # Uses(c) /\ Executed(c)
    BY Zenon, <1>5, ClientAssumption DEF PushInv, Pushing, ExecInv
  <2>2. exec[c] = "none"
    BY SMTT(40), <2>1 DEF Executed
  <2> QED
    BY Zenon, <1>2, <2>1, <2>2 DEF WorkerStep, OnStart, SkipAtShutdown, ExecuteFn, FnReturns, FnThrows,
         WaitFnStore, WaitFnNotify, CompleteRead, MarkWrite, CompleteWrite, CompleteEnd, NotifyAll,
         Start, GiveUp, Finish
<1>6. WaitsFor(t, c)' => WaitsFor(t, c)
  <2>1. CASE c = b
    BY Zenon, <1>1, <1>4, <2>1 DEF WaitsFor
  <2>2. CASE c # b
    BY Zenon, <1>1, <1>3, <2>2 DEF WaitsFor
  <2> QED
    BY Zenon, <2>1, <2>2
<1>7. blk[t] = c /\ WaitsFor(t, c) => WaitsFor(t, c)'
  BY Zenon, <1>1, <1>3, <1>5 DEF WaitsFor
<1> QED
  BY Zenon, <1>1, <1>6, <1>7

\* The function of a wait sets done: every write of its client that was ahead has
\* been completed, and the client has pushed none since.
LEMMA WaitStore ==
    ASSUME ScheduleInv, ExecInv, CallInv, PushInv, WaitInv, NEW b \in Blk, WaitFnStore(b),
           NEW t \in Client, caller[b] = t
    PROVE  Waits(t)'
<1>1. /\ exec[b] = "running" /\ opr[b].wait
      /\ done' = [done EXCEPT ![t] = TRUE] /\ exec' = [exec EXCEPT ![b] = "stored"]
      /\ UNCHANGED <<opr, stage, reached, held, ahead, pc, arg, out, blk, caller>>
  BY Zenon DEF WaitFnStore, avars, cvars
<1>2. stage[b] = "started" /\ held[b] = Uses(b)
  <2>1. Executed(b)
    BY Zenon DEF ExecInv
  <2> QED
    BY Zenon, <1>1, <2>1 DEF Executed
<1>3. WaitsFor(t, b)
  BY Zenon, <1>1, <1>2 DEF WaitsFor
<1>4. Waits(t) /\ Awaited(t, b) /\ Pushing(t) /\ Calling(t)
  BY Zenon, <1>3 DEF WaitInv, Waits, PushInv, CallInv
<1>5. pc[t] = "wait" /\ arg[t] \in Var /\ out[t] = <<>> /\ opr[b] = WaitOpr(arg[t])
  BY Zenon, <1>4 DEF Awaited, Calling
<1>6. blk[t] = None
  BY Zenon, <1>2, <1>4 DEF Awaited, Pushing
<1>7. Uses(b) = {arg[t]} /\ opr[b].mutable_vars = {}
  <2>1. WaitOpr(arg[t]).const_vars = {arg[t]} /\ WaitOpr(arg[t]).mutable_vars = {}
    BY Zenon DEF WaitOpr
  <2> QED
    BY Zenon, <1>5, <2>1 DEF Uses
<1>8. reached[b] = Uses(b)
  BY <1>2 DEF ScheduleInv, Scheduled
<1>9. ASSUME NEW c \in Blk PROVE ~OwnWrite(t, c, arg[t])
  <2>1. SUFFICES ASSUME OwnWrite(t, c, arg[t]) PROVE FALSE
    BY Zenon
  <2>2. c \in ahead[b][arg[t]]
    BY Zenon, <1>4, <1>7, <1>8, <2>1 DEF Awaited
  <2>3. Conflict(b, c, arg[t])
    BY Zenon, <2>1 DEF Conflict, OwnWrite
  <2>4. ~On(c, arg[t])
    <3>1. Ordered(b, c, arg[t])
      BY Zenon, <1>5 DEF ScheduleInv
    <3> QED
      BY Zenon, <1>2, <1>7, <2>2, <2>3, <3>1 DEF Ordered
  <2>5. stage[c] = "pushed" /\ caller[c] = t /\ arg[t] \in Uses(c)
    BY Zenon, <2>1, <2>4 DEF OwnWrite, Uses
  <2>6. reached[c] = Uses(c)
    <3>1. Caused(c) /\ blk[caller[c]] # c
      BY Zenon, <1>6, <2>5, ClientAssumption DEF PushInv
    <3> QED
      BY Zenon, <2>5, <3>1 DEF Caused
  <2> QED
    BY Zenon, <2>4, <2>5, <2>6 DEF On
<1>10. OwnDone(t)'
  BY Zenon, <1>1, <1>9 DEF OwnDone, OwnWrite, On
<1>11. \A c \in Blk : ~WaitsFor(t, c)'
  <2>1. \A c \in Blk : WaitsFor(t, c) => c = b
    BY Zenon, <1>4 DEF Awaited
  <2>2. DOMAIN exec = Blk
    BY DEF ExecInv, ExecTypes
  <2>3. ASSUME NEW c \in Blk PROVE ~WaitsFor(t, c)'
    <3>1. CASE c = b
      BY Zenon, <1>1, <1>2, <2>2, <3>1 DEF WaitsFor
    <3>2. CASE c # b
      <4>1. exec'[c] = exec[c] /\ ~WaitsFor(t, c)
        BY Zenon, <1>1, <2>1, <2>2, <3>2
      <4> QED
        BY Zenon, <1>1, <4>1 DEF WaitsFor
    <3> QED
      BY Zenon, <3>1, <3>2
  <2> QED
    BY Zenon, <2>3
<1>12. Pushed(t)' /\ pc'[t] = "wait"
  BY SMTT(40), SMTT(40), <1>1, <1>5, <1>6 DEF Pushed
<1> QED
  BY Zenon, <1>10, <1>11, <1>12 DEF Waits, Pushed

\* A worker keeps what is said of waiting.
LEMMA WaitWorker ==
    ASSUME ScheduleInv, ExecInv, CallInv, PushInv, WaitInv, NEW b \in Blk, WorkerStep(b)
    PROVE  WaitInv'
<1>1. /\ UNCHANGED cvars
      /\ done' = done \/ (WaitFnStore(b) /\ done' = [done EXCEPT ![caller[b]] = TRUE])
  <2>1. UNCHANGED cvars
    BY Zenon, CallWorker
  <2> QED
    BY Zenon, <2>1 DEF WorkerStep, OnStart, SkipAtShutdown, ExecuteFn, FnReturns, FnThrows, WaitFnStore,
         WaitFnNotify, CompleteRead, MarkWrite, CompleteWrite, CompleteEnd, NotifyAll, wvars
<1>2. /\ pc' = pc /\ out' = out /\ arg' = arg /\ blk' = blk /\ caller' = caller
      /\ done \in [Client -> BOOLEAN]
  BY Zenon, <1>1 DEF cvars, CallInv, ClientTypes
<1>3. ASSUME NEW t \in Client, done'[t] = done[t] PROVE Waits(t)'
  <2>1. ASSUME NEW c \in Blk, NEW v \in Var, OwnWrite(t, c, v)' PROVE OwnWrite(t, c, v)
    BY Zenon, <1>2, <2>1, WorkerSchedule, OwnShrinks
  <2>2. ASSUME NEW c \in Blk
        PROVE  /\ opr' = opr /\ reached' = reached /\ ahead' = ahead
               /\ WaitsFor(t, c)' => WaitsFor(t, c)
               /\ blk[t] = c /\ WaitsFor(t, c) => WaitsFor(t, c)'
    BY Zenon, WaitsShrink
  <2>3. blk[t] # None => blk[t] \in Blk
    BY Zenon DEF PushInv, Pushing
  <2>4. Quiet(t)
    BY Zenon, <1>2, <1>3, <2>1, <2>2, <2>3 DEF Quiet
  <2> QED
    BY Zenon, <2>4, WaitQuiet DEF WaitInv
<1>4. ASSUME NEW t \in Client, done'[t] # done[t] PROVE Waits(t)'
  <2>1. WaitFnStore(b) /\ caller[b] = t
    BY Zenon, <1>1, <1>2, <1>4
  <2> QED
    BY Zenon, <2>1, WaitStore
<1> QED
  BY Zenon, <1>3, <1>4 DEF WaitInv

\* A client that neither waits nor has waited.
LEMMA WaitNot ==
    ASSUME NEW t \in Client, pc'[t] \in {"idle", "test", "all"}, ~done'[t], \A b \in Blk : ~WaitsFor(t, b)'
    PROVE  Waits(t)'
BY DEF Waits

\* A client that is not in a wait has no block that waits.
LEMMA NotWaiting ==
    ASSUME WaitInv, NEW t \in Client, pc[t] # "wait"
    PROVE  ~done[t] /\ \A b \in Blk : ~WaitsFor(t, b)
BY Zenon DEF WaitInv, Waits, Awaited

\* Nothing of t's is changed by steps that leave blocks and t's call alone.
LEMMA QuietFrame ==
    ASSUME NEW t \in Client, UNCHANGED <<avars, exec, caller>>,
           pc'[t] = pc[t], out'[t] = out[t], arg'[t] = arg[t], blk'[t] = blk[t], done'[t] = done[t]
    PROVE  Quiet(t)
<1>1. UNCHANGED <<opr, stage, reached, held, ahead>>
  BY Zenon DEF avars
<1>2. ASSUME NEW c \in Blk PROVE WaitsFor(t, c)' <=> WaitsFor(t, c)
  BY Zenon, <1>1 DEF WaitsFor
<1>3. ASSUME NEW c \in Blk, NEW v \in Var PROVE OwnWrite(t, c, v)' <=> OwnWrite(t, c, v)
  BY Zenon, <1>1 DEF OwnWrite, On
<1>4. WaitsFor(t, blk[t])' <=> WaitsFor(t, blk[t])
  BY <1>1 DEF WaitsFor
<1> QED
  BY Zenon, <1>1, <1>2, <1>3, <1>4 DEF Quiet

\* A client makes a call.
LEMMA WaitCall ==
    ASSUME CallInv, WaitInv, NEW t \in Client, Starts(t)
    PROVE  WaitInv'
<1>1. UNCHANGED <<avars, exec, caller, blk, done>>
  BY Zenon DEF Starts, evars, wvars
<1>2. ASSUME NEW s \in Client, s # t PROVE Waits(s)'
  <2>1. pc'[s] = pc[s] /\ out'[s] = out[s] /\ arg'[s] = arg[s]
    BY <1>2 DEF Starts, Others
  <2>2. Quiet(s)
    BY Zenon, <1>1, <2>1, QuietFrame
  <2> QED
    BY Zenon, <2>2, WaitQuiet DEF WaitInv
<1>3. Waits(t)'
  <2>1. pc[t] = "idle" /\ pc'[t] \in {"idle", "test", "all"}
    BY Zenon DEF Starts, Idle
  <2>2. ~done[t] /\ \A b \in Blk : ~WaitsFor(t, b)
    BY Zenon, <2>1, NotWaiting
  <2>3. \A b \in Blk : ~WaitsFor(t, b)'
    BY SMTT(40), <1>1, <2>2 DEF WaitsFor, avars
  <2> QED
    BY Zenon, <1>1, <2>1, <2>2, <2>3, WaitNot
<1> QED
  BY Zenon, <1>2, <1>3 DEF WaitInv

\* A client issues a block: nobody has started to push another.
LEMMA WaitIssue ==
    ASSUME ScheduleInv, ExecInv, CallInv, PushInv, WaitInv, NEW t \in Client, NEW b \in Blk, IssueNext(t, b)
    PROVE  WaitInv'
<1>1. /\ stage[b] = "new" /\ stage' = [stage EXCEPT ![b] = "pushed"]
      /\ opr' = [opr EXCEPT ![b] = Head(out[t])]
      /\ out[t] # <<>> /\ out' = [out EXCEPT ![t] = Tail(out[t])]
      /\ \A s \in Client : blk[s] = None
      /\ blk' = [blk EXCEPT ![t] = IF Uses(b)' = {} THEN None ELSE b]
      /\ caller' = [caller EXCEPT ![b] = t]
      /\ UNCHANGED <<reached, held, ahead, exec, done, pc, arg>>
  BY DEF IssueNext, Issue, evars
<1>2. /\ stage \in [Blk -> {"new", "pushed", "started", "finished"}]
      /\ opr \in [Blk -> Operators \cup {None}]
      /\ blk \in [Client -> Blk \cup {None}] /\ caller \in [Blk -> Client \cup {None}]
      /\ DOMAIN out = Client
  BY Zenon DEF ScheduleInv, Types, CallInv, ClientTypes
<1>3. /\ stage'[b] = "pushed" /\ opr'[b] = Head(out[t]) /\ caller'[b] = t
      /\ blk'[t] = IF Uses(b)' = {} THEN None ELSE b
      /\ out'[t] = Tail(out[t])
  BY Zenon, <1>1, <1>2
<1>4. ASSUME NEW c \in Blk, c # b
      PROVE  stage'[c] = stage[c] /\ opr'[c] = opr[c] /\ caller'[c] = caller[c]
  BY Zenon, <1>1, <1>2, <1>4
<1>5. ASSUME NEW s \in Client, s # t PROVE Waits(s)'
  <2>1. ASSUME NEW c \in Blk, NEW v \in Var, OwnWrite(s, c, v)' PROVE OwnWrite(s, c, v)
    <3>1. c # b
      BY Zenon, <1>3, <1>5, <2>1 DEF OwnWrite
    <3> QED
      BY Zenon, <1>1, <1>4, <2>1, <3>1 DEF OwnWrite, On
  <2>2. ASSUME NEW c \in Blk, WaitsFor(s, c)' PROVE WaitsFor(s, c) /\ opr'[c] = opr[c]
    <3>1. c # b
      BY Zenon, <1>3, <1>5, <2>2 DEF WaitsFor
    <3> QED
      BY Zenon, <1>1, <1>4, <2>2, <3>1 DEF WaitsFor
  <2>3. blk[s] = None /\ blk'[s] = None /\ out'[s] = out[s]
    BY Zenon, <1>1, <1>2, <1>5
  <2>4. Quiet(s)
    BY Zenon, <1>1, <2>1, <2>2, <2>3 DEF Quiet
  <2> QED
    BY Zenon, <2>4, WaitQuiet DEF WaitInv
<1>6. CASE pc[t] = "wait"
  <2>1. Head(out[t]) = WaitOpr(arg[t]) /\ Tail(out[t]) = <<>>
    BY Zenon, <1>1, <1>6, NextOperator
  <2>2. ~done[t] /\ \A c \in Blk : ~WaitsFor(t, c)
    BY Zenon, <1>1, <1>6 DEF WaitInv, Waits
  <2>3. Uses(b)' # {} /\ arg[t] \notin reached[b]
    <3>1. opr'[b].const_vars = {arg[t]}
      BY SMTT(40), SMTT(40), <1>3, <2>1 DEF WaitOpr
    <3>2. reached[b] = {}
      BY Zenon, <1>1 DEF ScheduleInv, Scheduled
    <3> QED
      BY Zenon, <3>1, <3>2 DEF Uses
  <2>4. WaitsFor(t, b)'
    <3>1. WaitOpr(arg[t]).wait = TRUE /\ "pushed" # "finished" /\ "pushed" # "new"
      BY DEF WaitOpr
    <3> QED
      BY Zenon, <1>3, <2>1, <3>1 DEF WaitsFor
  <2>5. ASSUME NEW c \in Blk, WaitsFor(t, c)' PROVE c = b
    BY Zenon, <1>1, <1>4, <2>2, <2>5 DEF WaitsFor
  <2>6. pc'[t] = "wait" /\ out'[t] = <<>> /\ ~done'[t] /\ blk'[t] = b
    BY Zenon, <1>1, <1>3, <1>6, <2>1, <2>2, <2>3
  <2>7. opr'[b] = WaitOpr(arg[t])' /\ arg'[t] \notin reached'[b]
    BY Zenon, <1>1, <1>3, <2>1, <2>3 DEF WaitOpr
  <2>8. Awaited(t, b)'
    BY Zenon, <2>5, <2>6, <2>7 DEF Awaited
  <2>9. WaitsFor(t, blk[t])'
    BY Zenon, <2>4, <2>6 DEF WaitsFor
  <2>10. Waits(t)'
    <3>1. \A c \in Blk : WaitsFor(t, c)' => Awaited(t, c)'
      BY Zenon, <2>5, <2>8
    <3>2. pc'[t] \notin {"throw", "clear"}
      BY SMTT(40), <2>6
    <3> QED
      BY Zenon, <2>6, <2>9, <3>1, <3>2 DEF Waits
  <2> QED
    BY Zenon, <1>5, <2>10 DEF WaitInv
<1>7. CASE pc[t] # "wait"
  <2>1. Head(out[t]) \in Ordinary /\ pc[t] \notin {"throw", "clear"}
    BY Zenon, <1>1, <1>7, NextOperator
  <2>2. ~done[t] /\ \A c \in Blk : ~WaitsFor(t, c)
    BY SMTT(40), SMTT(40), <1>7, NotWaiting
  <2>3. ASSUME NEW c \in Blk PROVE ~WaitsFor(t, c)'
    <3>1. CASE c = b
      BY SMTT(40), SMTT(40), <1>3, <2>1, <3>1 DEF WaitsFor, Ordinary
    <3>2. CASE c # b
      BY SMTT(40), SMTT(40), <1>1, <1>4, <2>2, <3>2 DEF WaitsFor
    <3> QED
      BY Zenon, <3>1, <3>2
  <2>4. pc'[t] \in {"idle", "test", "all"} /\ ~done'[t]
    BY SMTT(40), SMTT(40), <1>1, <1>7, <2>1, <2>2 DEF CallInv, ClientTypes
  <2> QED
    BY Zenon, <1>5, <2>3, <2>4, WaitNot DEF WaitInv
<1> QED
  BY Zenon, <1>6, <1>7

\* A block that is being pushed reaches a variable; if it is a wait, it is then
\* behind every write of its client.
LEMMA WaitReach ==
    ASSUME ScheduleInv, ExecInv, CallInv, PushInv, WaitInv, NEW t \in Client, NEW v \in Var, ReachNext(t, v)
    PROVE  WaitInv'
<1>0. PICK b \in Blk : b = blk[t]
  BY Zenon DEF ReachNext, PushInv, Pushing
<1>1. /\ b # None /\ Reach(b, v) /\ v \in Uses(b)
      /\ reached' = [reached EXCEPT ![b] = @ \cup {v}]
      /\ ahead' = [ahead EXCEPT ![b][v] = {c \in Blk : On(c, v)}]
      /\ blk' = [blk EXCEPT ![t] = IF reached'[b] = Uses(b) THEN None ELSE b]
      /\ UNCHANGED <<opr, stage, held, exec, done, pc, arg, out, caller>>
  BY <1>0 DEF ReachNext, Reach, evars, wvars
<1>2. b \in Blk /\ caller[b] = t /\ stage[b] = "pushed" /\ Calling(t) /\ Waits(t)
  BY Zenon, <1>0, <1>1 DEF PushInv, Pushing, CallInv, WaitInv
<1>3. /\ blk \in [Client -> Blk \cup {None}] /\ reached \in [Blk -> SUBSET Var]
      /\ ahead \in [Blk -> [Var -> SUBSET Blk]]
  BY Zenon DEF CallInv, ClientTypes, ScheduleInv, Types
<1>4. ASSUME NEW s \in Client, NEW c \in Blk, NEW u \in Var, OwnWrite(s, c, u)' PROVE OwnWrite(s, c, u)
  BY Zenon, <1>1, <1>2, <1>4, OwnShrinks
<1>5. ASSUME NEW s \in Client, NEW c \in Blk PROVE WaitsFor(s, c)' <=> WaitsFor(s, c)
  BY <1>1 DEF WaitsFor
<1>6. ASSUME NEW s \in Client, s # t PROVE Waits(s)'
  <2>1. ASSUME NEW c \in Blk, WaitsFor(s, c)' PROVE reached'[c] = reached[c] /\ ahead'[c] = ahead[c]
    <3>1. c # b
      BY SMTT(40), SMTT(40), <1>1, <1>2, <1>6, <2>1 DEF WaitsFor
    <3> QED
      BY SMTT(40), SMTT(40), <1>1, <1>3, <3>1
  <2>2. blk'[s] = blk[s] /\ (blk[s] # None => blk[s] \in Blk)
    BY Zenon, <1>1, <1>3, <1>6
  <2>3. blk[s] # None /\ WaitsFor(s, blk[s]) => WaitsFor(s, blk[s])'
    BY SMTT(40), <1>1, <2>2 DEF WaitsFor
  <2>4. Quiet(s)
    BY Zenon, <1>1, <1>4, <1>5, <1>6, <2>1, <2>2, <2>3 DEF Quiet
  <2> QED
    BY Zenon, <2>4, WaitQuiet DEF WaitInv
<1>7. CASE pc[t] = "wait"
  <2>1. WaitsFor(t, b) /\ Awaited(t, b)
    BY Zenon, <1>0, <1>1, <1>2, <1>7 DEF Waits
  <2>2. opr[b] = WaitOpr(arg[t]) /\ arg[t] \in Var
    BY Zenon, <1>2, <1>7, <2>1 DEF Awaited, Calling
  <2>3. Uses(b) = {arg[t]} /\ v = arg[t]
    BY SMTT(40), SMTT(40), <1>1, <2>2 DEF Uses, WaitOpr
  <2>4. blk'[t] = None
    <3>1. reached[b] \subseteq Uses(b)
      BY Zenon, <1>2 DEF ScheduleInv, Scheduled
    <3>2. reached'[b] = Uses(b)
      BY Zenon, <1>1, <1>2, <1>3, <2>3, <3>1
    <3> QED
      BY Zenon, <1>1, <1>3, <3>2
  <2>5. ASSUME NEW c \in Blk, OwnWrite(t, c, arg[t])' PROVE c \in ahead'[b][arg'[t]]
    <3>1. OwnWrite(t, c, arg[t])
      BY SMTT(40), SMTT(40), <1>1, <1>4, <2>2, <2>5
    <3>2. c # b
      BY SMTT(40), <2>2, <3>1 DEF OwnWrite, WaitOpr
    <3>3. On(c, v)
      <4>1. CASE stage[c] = "pushed"
        <5>1. Caused(c) /\ caller[c] = t /\ v \in Uses(c)
          BY Zenon, <2>3, <3>1 DEF PushInv, OwnWrite, Uses
        <5>2. reached[c] = Uses(c)
          BY Zenon, <1>0, <3>2, <4>1, <5>1 DEF Caused
        <5> QED
          BY Zenon, <4>1, <5>1, <5>2 DEF On
      <4>2. CASE stage[c] # "pushed"
        BY Zenon, <2>3, <3>1, <4>2 DEF OwnWrite
      <4> QED
        BY Zenon, <4>1, <4>2
    <3>4. ahead'[b][v] = {d \in Blk : On(d, v)}
      BY SMTT(40), SMTT(40), <1>1, <1>2, <1>3
    <3> QED
      BY SMTT(40), SMTT(40), <1>1, <2>3, <3>3, <3>4
  <2>6. \A c \in Blk : WaitsFor(t, c)' => c = b
    BY Zenon, <1>5, <2>1 DEF Awaited
  <2>7. opr'[b] = WaitOpr(arg[t])'
    BY Zenon, <1>1, <2>2 DEF WaitOpr
  <2>8. pc'[t] = "wait" /\ out'[t] = <<>> /\ ~done'[t]
    BY Zenon, <1>1, <2>1 DEF Awaited
  <2>9. Awaited(t, b)'
    BY Zenon, <2>4, <2>5, <2>6, <2>7, <2>8 DEF Awaited
  <2>10. Waits(t)'
    BY Zenon, <2>4, <2>6, <2>8, <2>9 DEF Waits
  <2> QED
    BY Zenon, <1>6, <2>10 DEF WaitInv
<1>8. CASE pc[t] # "wait"
  <2>1. ~done[t] /\ \A c \in Blk : ~WaitsFor(t, c)
    BY SMTT(40), SMTT(40), <1>8, NotWaiting
  <2>2. pc[t] \notin {"throw", "clear"}
    BY Zenon, <1>0, <1>1, <1>2 DEF Waits, Pushed
  <2>3. pc'[t] \in {"idle", "test", "all"} /\ ~done'[t] /\ \A c \in Blk : ~WaitsFor(t, c)'
    BY SMTT(40), SMTT(40), <1>1, <1>5, <1>8, <2>1, <2>2 DEF CallInv, ClientTypes
  <2> QED
    BY Zenon, <1>6, <2>3, WaitNot DEF WaitInv
<1> QED
  BY Zenon, <1>7, <1>8

=============================================================================
