----------------------------- MODULE MCFailover -----------------------------
(* Failover on small instances.                                            *)
EXTENDS Failover, TLC

Two   == <<"a", "b">>
Three == <<"a", "b", "c">>

Unlimited == [e \in Members(Order) |-> 0]
OneEach   == [e \in Members(Order) |-> 1]

RequestSymmetry == Permutations(Requests)
=============================================================================
