----------------------------- MODULE FreeSpace -----------------------------
(***************************************************************************)
(* What an address allocator promises, with no free list in sight: a set   *)
(* of free addresses, from which a successful call takes exactly the span  *)
(* it reports, or to which it gives back exactly a span that was not free. *)
(* A refused call changes nothing.                                         *)
(*                                                                         *)
(* Alloc (bin/of/alloc.c) is shown to implement this specification.        *)
(***************************************************************************)
EXTENDS Integers

CONSTANT Addresses          \* the addresses the allocator manages

VARIABLES free,             \* the addresses nobody holds
          outcome           \* what the last call reported

\* The outcome before the first call.
NoCall == [kind |-> "none", span |-> {}]

Init == /\ free = {}
        /\ outcome = NoCall

Take(S) == /\ outcome' = [kind |-> "taken", span |-> S]
           /\ S # {}
           /\ S \subseteq free
           /\ free' = free \ S

Give(S) == /\ outcome' = [kind |-> "given", span |-> S]
           /\ S # {}
           /\ S \cap free = {}
           /\ free' = free \union S

Refuse == /\ outcome' = [kind |-> "refused", span |-> {}]
          /\ free' = free

\* Spans are runs of consecutive addresses.
Next == \/ \E lo, hi \in Addresses : Take(lo .. hi) \/ Give(lo .. hi)
        \/ Refuse

vars == <<free, outcome>>

Spec == Init /\ [][Next]_vars
=============================================================================
