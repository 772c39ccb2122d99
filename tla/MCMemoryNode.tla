---------------------------- MODULE MCMemoryNode ----------------------------
(* The /memory node with five addresses of memory, one of them the pool. *)
EXTENDS AllocProofs

MCRegion == [addr |-> 2, size |-> 5]
MCPool == [addr |-> 3, size |-> 1]

Within(lo, hi) == {r \in Block : r.size # 0 /\ lo <= r.addr /\ r.addr + r.size <= hi}

\* Claims may name the pool; releases never do.
MCFixedReqs == {r \in Within(2, 7) : r.size \in {1, 2, 3}}
MCFreeReqs == {r \in Within(2, 3) \union Within(4, 7) : r.size \in {1, 2}}
NoConstraints == {}

=============================================================================
