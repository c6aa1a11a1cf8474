--------------------------- MODULE MCKVStoreDist ----------------------------
(***************************************************************************)
(* Instances of KVStoreDist for TLC: one key, split over all servers.      *)
(***************************************************************************)
EXTENDS KVStoreDist

AllShards == [k \in Key |-> Server]

(* dist_sync and dist_async with an optimizer on the servers, and dist_sync *)
(* that only sums the gradients.  One server may have a set                 *)
(* multi_precision_ to begin with, and may get pushes without rows.         *)
AnyOne == CHOOSE s \in Server : TRUE
Conf(sync, opt, half, sparse, garbage) ==
    [sync |-> sync, opt |-> opt, half |-> half, sparse |-> sparse, garbage |-> garbage]
MCConfs ==
    {Conf(TRUE, TRUE, TRUE, {}, {AnyOne}), Conf(TRUE, TRUE, TRUE, {}, {}),
     Conf(TRUE, TRUE, FALSE, {AnyOne}, {AnyOne}), Conf(TRUE, FALSE, FALSE, {}, {}),
     Conf(TRUE, TRUE, TRUE, {AnyOne}, {}), Conf(TRUE, FALSE, TRUE, {}, {AnyOne}),
     Conf(FALSE, TRUE, TRUE, {}, {AnyOne}), Conf(FALSE, TRUE, FALSE, {AnyOne}, {})}
=============================================================================
