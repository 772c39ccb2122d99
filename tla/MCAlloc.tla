------------------------------ MODULE MCAlloc ------------------------------
(* Instances of Alloc for TLC: requests inside one region of addresses. *)
EXTENDS Alloc

CONSTANTS Base, Limit,      \* the region is Base .. Limit - 1
          SpanSizes         \* sizes of the spans that are named by address

\* Every span of the region.
Spans == {r \in Block : /\ r.size \in SpanSizes
                        /\ Base <= r.addr
                        /\ r.addr + r.size <= Limit}

\* Those, and the full size at an address that is not 0.
MCFixedReqs == Spans \union [addr : Base .. Limit - 1, size : {0}]

\* The constraints of alloc_aligned (min, max and mask are NULL), and some
\* that use all four.
MCConstraints ==
    {AlignOnly(al) : al \in {1, 2, 4}} \union
    [min : {0, 3}, max : {Limit - 1}, align : {1, 2}, mask : {{}, {2}}]

=============================================================================
