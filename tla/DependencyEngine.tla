-------------------------- MODULE DependencyEngine --------------------------
(***************************************************************************)
(* What the dependency engine promises, without saying how: "The execution *)
(* of any two functions when one of them modifies at least one common      *)
(* variable is serialized in their push order" (docs/architecture/         *)
(* overview.md).  A function reaches its variables one by one while it is  *)
(* pushed; it may start when every conflicting function that reached a     *)
(* shared variable before it has given that variable up.                   *)
(***************************************************************************)
CONSTANTS Var, Blk, Opr, None

VARIABLES
    opr,      \* the operator of a pushed function
    stage,    \* "new", "pushed", "started" or "finished"
    reached,  \* the variables a function has reached
    held,     \* the variables it has not given up since it started
    ahead     \* ahead[b][v]: who was on v when b reached it

avars == <<opr, stage, reached, held, ahead>>

Uses(b) == opr[b].const_vars \cup opr[b].mutable_vars
Conflict(b, c, v) == v \in opr[b].mutable_vars \/ v \in opr[c].mutable_vars

(* b has reached v and has not given it up *)
On(b, v) ==
    \/ stage[b] = "pushed" /\ v \in reached[b]
    \/ stage[b] = "started" /\ v \in held[b]

AInit ==
    /\ opr = [b \in Blk |-> None]
    /\ stage = [b \in Blk |-> "new"]
    /\ reached = [b \in Blk |-> {}]
    /\ held = [b \in Blk |-> {}]
    /\ ahead = [b \in Blk |-> [v \in Var |-> {}]]

Issue(b, o) ==
    /\ stage[b] = "new"
    /\ opr' = [opr EXCEPT ![b] = o]
    /\ stage' = [stage EXCEPT ![b] = "pushed"]
    /\ UNCHANGED <<reached, held, ahead>>

Reach(b, v) ==
    /\ stage[b] = "pushed"
    /\ v \in Uses(b) \ reached[b]
    /\ reached' = [reached EXCEPT ![b] = @ \cup {v}]
    /\ ahead' = [ahead EXCEPT ![b][v] = {c \in Blk : On(c, v)}]
    /\ UNCHANGED <<opr, stage, held>>

Start(b) ==
    /\ stage[b] = "pushed"
    /\ reached[b] = Uses(b)
    /\ \A v \in Uses(b) : \A c \in ahead[b][v] : Conflict(b, c, v) => ~On(c, v)
    /\ stage' = [stage EXCEPT ![b] = "started"]
    /\ held' = [held EXCEPT ![b] = Uses(b)]
    /\ UNCHANGED <<opr, reached, ahead>>

GiveUp(b, v) ==
    /\ stage[b] = "started"
    /\ v \in held[b]
    /\ held' = [held EXCEPT ![b] = @ \ {v}]
    /\ UNCHANGED <<opr, stage, reached, ahead>>

Finish(b) ==
    /\ stage[b] = "started"
    /\ held[b] = {}
    /\ stage' = [stage EXCEPT ![b] = "finished"]
    /\ UNCHANGED <<opr, reached, held, ahead>>

ANext ==
    \E b \in Blk :
       \/ \E o \in Opr : Issue(b, o)
       \/ \E v \in Var : Reach(b, v) \/ GiveUp(b, v)
       \/ Start(b)
       \/ Finish(b)

ASpec == AInit /\ [][ANext]_avars
=============================================================================
