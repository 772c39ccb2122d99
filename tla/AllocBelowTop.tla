--------------------------- MODULE AllocBelowTop ---------------------------
(***************************************************************************)
(* How /memory uses the allocator on 32-bit boards: the memory that is     *)
(* managed ends below the last address, and both widths are equal.  The    *)
(* proofs about Alloc rest on this.                                        *)
(***************************************************************************)
EXTENDS Alloc

\* No request names the last address, none is of the full size, and both
\* widths are the same.
ASSUME BelowTop ==
    /\ SizeMod = AddrMod
    /\ \A r \in FixedReqs \union FreeReqs : r.addr + r.size < AddrMod
    /\ \A r \in FixedReqs : r.size = 0 => r.addr # 0
    /\ \A r \in FreeReqs : r.size # 0
    /\ 0 \notin SizeReqs

=============================================================================
