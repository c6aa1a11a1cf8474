-------------------------- MODULE MCThreadedEngine --------------------------
(* Small instances of ThreadedEngine. *)
EXTENDS ThreadedEngine, TLC

(* Every operator on the variables of Var, and the deletion of each. *)
AllOprs(S) ==
    {[const_vars |-> p[1], mutable_vars |-> p[2], prop |-> "kNormal"] :
        p \in {q \in (SUBSET S) \X (SUBSET S) : q[1] \cap q[2] = {}}}
DeleteOprs(S) ==
    {[const_vars |-> {}, mutable_vars |-> {v}, prop |-> "kDeleteVar"] : v \in S}

MCOpr == AllOprs(Var) \cup DeleteOprs(Var)

(* Operators that use every variable, for the liveness run. *)
LiveOpr == {o \in AllOprs(Var) : o.const_vars \cup o.mutable_vars = Var}
               \cup DeleteOprs(Var)

(* Fresh blocks are alike: take them in order where symmetry cannot be used. *)
InOrder == \A b, c \in Blk : b < c /\ phase'[c] # "new" => phase'[b] # "new"
OrderedFairSpec == Init /\ [][Next /\ InOrder]_vars /\ Fairness

(* Each reads the variable the other one writes. *)
CrossOpr == {o \in AllOprs(Var) : Cardinality(o.const_vars) = 1
                                   /\ Cardinality(o.mutable_vars) = 1}

Symmetry == Permutations(Blk) \cup Permutations(Thread) \cup Permutations(Var)
=============================================================================
