--------------------------- MODULE MCEngineClient ---------------------------
(* Small instances of EngineClient. *)
EXTENDS EngineClient, TLC

Operator(r, w) ==
    [const_vars |-> r, mutable_vars |-> w, prop |-> "kNormal", wait |-> FALSE]

(* Produce a variable; compute one from another. *)
Writes == {Operator({}, {v}) : v \in Var}
Copies == {Operator({u}, {v}) : <<u, v>> \in {p \in Var \X Var : p[1] # p[2]}}
All == Writes \cup Copies

Symmetry == Permutations(Client) \cup Permutations(Var) \cup Permutations(Blk)
=============================================================================
