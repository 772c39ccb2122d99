------------------------------- MODULE Alloc -------------------------------
(***************************************************************************)
(* The general purpose address allocator of SmartFirmware                  *)
(* (src/bin/of/alloc.c), used by the /memory, /mmu and PCI nodes.          *)
(*                                                                         *)
(* An allocator is a list of free blocks kept in address order.  Addresses *)
(* have "acells" 32-bit cells and sizes "scells" of them; the model keeps  *)
(* the two widths as AddrMod and SizeMod, and every addition and           *)
(* subtraction wraps as the cell arithmetic of the code does.  A size of 0 *)
(* stands for a block of SizeMod addresses (a "full size" block).          *)
(***************************************************************************)
EXTENDS Integers, Sequences, SequencesExt

CONSTANTS
    AddrMod,        \* number of addresses: 2^(32 * acells)
    SizeMod,        \* number of sizes: 2^(32 * scells)
    FixedReqs,      \* [addr, size] of the calls of alloc_fixed
    FreeReqs,       \* [addr, size] of the calls of free_block
    SizeReqs,       \* sizes of the other allocation calls
    Constraints,    \* [min, max, align, mask] of alloc_constrained
    CarefulCallers  \* callers give back only what is not free already

ASSUME WidthAssumption ==
    /\ SizeMod \in Nat /\ SizeMod > 1
    /\ AddrMod \in Nat /\ SizeMod <= AddrMod

Addr == 0 .. AddrMod - 1
Size == 0 .. SizeMod - 1
Block == [addr : Addr, size : Size]

\* NULL for "min", "max" and "mask" is the value that constrains nothing; a
\* mask is the set of its bits, and an alignment is a power of two.
Constraint == [min : Addr, max : 0 .. AddrMod, align : 1 .. AddrMod,
               mask : SUBSET (1 .. AddrMod)]
AlignOnly(al) == [min |-> 0, max |-> AddrMod, align |-> al, mask |-> {}]
NoConstraint == AlignOnly(1)

ASSUME RequestAssumption ==
    /\ FixedReqs \subseteq Block
    /\ FreeReqs \subseteq Block
    /\ SizeReqs \subseteq Size
    /\ Constraints \subseteq Constraint
    /\ CarefulCallers \in BOOLEAN

VARIABLES list,     \* a->list, the free blocks
          res       \* the call that returned last, and what it returned

vars == <<list, res>>

Retcodes == {"NO_ERROR", "E_BAD_ARGUMENT", "E_OUT_OF_STORAGE", "E_OUT_OF_MEMORY"}
Ops == {"init", "fixed", "constrained", "block", "free"}

TypeOK == /\ list \in Seq(Block)
          /\ res \in [op : Ops, ret : Retcodes, addr : Addr, size : Size,
                      want : Constraint]

-----------------------------------------------------------------------------
(* Cell arithmetic.  One addition or subtraction of in-range numbers leaves *)
(* the range by less than one modulus, so one correction is the wrap.       *)

Wrap(x, m) == IF x < 0 THEN x + m ELSE IF x >= m THEN x - m ELSE x

\* The low "scells" cells of an address-wide number.
Low(x) == x % SizeMod

\* The address after a block, in the arithmetic of add() and addcmp().
End(b) == Wrap(b.addr + b.size, AddrMod)

-----------------------------------------------------------------------------
(* What the list means. *)

Length(size) == IF size = 0 THEN SizeMod ELSE size
Span(addr, size) == addr .. addr + Length(size) - 1
FreeIn(s) == {x \in Addr : \E i \in 1 .. Len(s) :
                              x \in Span(s[i].addr, s[i].size)}
FreeAddrs == FreeIn(list)

-----------------------------------------------------------------------------
(* The calls. *)

\* alloc_init: an empty list.
Init == /\ list = <<>>
        /\ res = [op |-> "init", ret |-> "NO_ERROR", addr |-> 0, size |-> 0,
                  want |-> NoConstraint]

\* The loop of alloc_fixed and of free_block stops at the first block that
\* does not start below addr; position Len(list) + 1 is "b == NULL".
StopsAt(n, addr) == /\ \A i \in 1 .. n - 1 : list[i].addr < addr
                    /\ n <= Len(list) => addr <= list[n].addr

Return(op, want, ret, addr, size) ==
    res' = [op |-> op, ret |-> ret, addr |-> addr, size |-> size, want |-> want]

Refused(op, want, ret, addr, size) ==
    /\ Return(op, want, ret, addr, size)
    /\ UNCHANGED list

\* Mutant: the size of the block is not compared with the request.
trim_unchecked(n, op, want, addr, size) ==
    LET b == list[n] IN
    /\ list' = IF b.size = size THEN RemoveAt(list, n)
               ELSE ReplaceAt(list, n, [addr |-> Wrap(b.addr + size, AddrMod),
                                        size |-> b.size - size])
    /\ Return(op, want, "NO_ERROR", addr, size)

\* alloc_fixed when addr is where block n starts.
AllocAtStart(n, op, want, addr, size) ==
    LET b == list[n] IN
    \/ /\ b.size # 0
       /\ b.size < size
       /\ Refused(op, want, "E_OUT_OF_STORAGE", addr, size)
    \/ /\ b.size = size
       /\ list' = RemoveAt(list, n)
       /\ Return(op, want, "NO_ERROR", addr, size)
    \/ /\ b.size = 0 \/ b.size > size
       /\ b.size # size
       /\ list' = ReplaceAt(list, n, [addr |-> Wrap(b.addr + size, AddrMod),
                                      size |-> Wrap(b.size - size, SizeMod)])
       /\ Return(op, want, "NO_ERROR", addr, size)

\* Mutant: a block is not shortened when its tail is taken.
take_tail_but_keep_it(n, op, want, addr, size) ==
    LET p == list[n]
        end == Wrap(addr + size, AddrMod)
        rest == Low(Wrap(End(p) - end, AddrMod))
        head == Wrap(Wrap(p.size - size, SizeMod) - rest, SizeMod)
    IN
    \/ /\ p.size # 0
       /\ End(p) < end
       /\ Refused(op, want, "E_OUT_OF_STORAGE", addr, size)
    \/ /\ End(p) = end
       /\ UNCHANGED list
       /\ Return(op, want, "NO_ERROR", addr, size)
    \/ /\ p.size = 0 \/ End(p) > end
       /\ End(p) # end
       /\ \/ Refused(op, want, "E_OUT_OF_MEMORY", addr, size)
          \/ /\ list' = InsertAt(ReplaceAt(list, n, [p EXCEPT !.size = head]),
                                 n + 1, [addr |-> end, size |-> rest])
             /\ Return(op, want, "NO_ERROR", addr, size)

\* alloc_fixed when block n starts below addr and no later block does.
AllocInside(n, op, want, addr, size) ==
    LET p == list[n]
        end == Wrap(addr + size, AddrMod)
        rest == Low(Wrap(End(p) - end, AddrMod))
        head == Wrap(Wrap(p.size - size, SizeMod) - rest, SizeMod)
    IN
    \/ /\ p.size # 0
       /\ End(p) < end
       /\ Refused(op, want, "E_OUT_OF_STORAGE", addr, size)
    \/ /\ End(p) = end
       /\ list' = ReplaceAt(list, n, [p EXCEPT !.size = Wrap(@ - size, SizeMod)])
       /\ Return(op, want, "NO_ERROR", addr, size)
    \/ /\ p.size = 0 \/ End(p) > end
       /\ End(p) # end
       /\ \/ Refused(op, want, "E_OUT_OF_MEMORY", addr, size)
          \/ /\ list' = InsertAt(ReplaceAt(list, n, [p EXCEPT !.size = head]),
                                 n + 1, [addr |-> end, size |-> rest])
             /\ Return(op, want, "NO_ERROR", addr, size)

\* The body of alloc_fixed, which every allocation call ends in.
AllocAt(op, want, addr, size) ==
    \/ /\ size = 0 /\ Low(addr) # 0
       /\ Refused(op, want, "E_BAD_ARGUMENT", addr, size)
    \/ /\ size # 0 \/ Low(addr) = 0
       /\ \E n \in 1 .. Len(list) + 1 :
             /\ StopsAt(n, addr)
             /\ \/ /\ n <= Len(list) /\ list[n].addr = addr
                   /\ AllocAtStart(n, op, want, addr, size)
                \/ /\ ~(n <= Len(list) /\ list[n].addr = addr)
                   /\ n = 1
                   /\ Refused(op, want, "E_OUT_OF_STORAGE", addr, size)
                \/ /\ ~(n <= Len(list) /\ list[n].addr = addr)
                   /\ n > 1
                   /\ AllocInside(n - 1, op, want, addr, size)

alloc_fixed(addr, size) == AllocAt("fixed", NoConstraint, addr, size)

-----------------------------------------------------------------------------
(* alloc_constrained walks the list with a window on each block, moved up   *)
(* by the minimum and then by the alignment.                                *)

Window(b) == [addr |-> b.addr, size |-> b.size, full |-> b.size = 0]

Outgrows(w, off) == off # 0 /\ ~w.full /\ Low(off) >= w.size

MoveUp(w, off) ==
    IF off = 0 THEN w
    ELSE [addr |-> Wrap(w.addr + Low(off), AddrMod),
          size |-> Wrap(w.size - Low(off), SizeMod), full |-> FALSE]

MinOff(w, c) == IF w.addr < c.min THEN c.min - w.addr ELSE 0
AlignOff(w, c) == IF w.addr % c.align = 0 THEN 0 ELSE c.align - (w.addr % c.align)

AboveMin(b, c) == MoveUp(Window(b), MinOff(Window(b), c))
\* Mutant: the window is not moved up to the alignment.
unaligned(b, c) == AboveMin(b, c)

Aligned(b, c) == MoveUp(AboveMin(b, c), AlignOff(AboveMin(b, c), c))

NoRoom(b, c) == \/ Outgrows(Window(b), MinOff(Window(b), c))
                \/ Outgrows(AboveMin(b, c), AlignOff(AboveMin(b, c), c))
AboveMax(b, c, size) ==
    ~NoRoom(b, c) /\ Wrap(Aligned(b, c).addr + size, AddrMod) > c.max
Masked(w, c) == \E bit \in c.mask : (w.addr \div bit) % 2 = 1
\* Mutant: a window of just the size that is asked for is passed by.
TooSmallOrEqual(w, size) == ~w.full /\ (size = 0 \/ w.size <= size)

TooSmall(w, size) == ~w.full /\ (size = 0 \/ w.size < size)

Fits(b, c, size) ==
    /\ ~NoRoom(b, c)
    /\ ~AboveMax(b, c, size)
    /\ ~Masked(Aligned(b, c), c)
    /\ ~TooSmall(Aligned(b, c), size)

\* The walk ends at the first block that fits, or at one past the maximum.
alloc_constrained(c, size) ==
    LET ends(i) == Fits(list[i], c, size) \/ AboveMax(list[i], c, size) IN
    \/ \E n \in 1 .. Len(list) :
          /\ Fits(list[n], c, size)
          /\ \A i \in 1 .. n - 1 : ~ends(i)
          /\ AllocAt("constrained", c, Aligned(list[n], c).addr, size)
    \/ /\ \A n \in 1 .. Len(list) :
             Fits(list[n], c, size) => \E i \in 1 .. n - 1 : ends(i)
       /\ Refused("constrained", c, "E_OUT_OF_STORAGE", 0, size)

alloc_aligned(al, size) == alloc_constrained(AlignOnly(al), size)

-----------------------------------------------------------------------------
\* First fit.  A full size request is met only by a full size block.
Holds(b, size) == b.size = 0 \/ (size # 0 /\ b.size >= size)

alloc_block(size) ==
    \/ \E n \in 1 .. Len(list) :
          /\ Holds(list[n], size)
          /\ \A i \in 1 .. n - 1 : ~Holds(list[i], size)
          /\ AllocAt("block", NoConstraint, list[n].addr, size)
    \/ /\ \A n \in 1 .. Len(list) : ~Holds(list[n], size)
       /\ Refused("block", NoConstraint, "E_OUT_OF_STORAGE", 0, size)

-----------------------------------------------------------------------------
\* Mutant: the span is not merged with the block below it.
free_no_merge_below(addr, size) ==
    \E n \in 1 .. Len(list) + 1 :
       LET hasP == n > 1
           hasB == n <= Len(list)
           end == Wrap(addr + size, AddrMod)
           overP == hasP /\ End(list[n - 1]) > addr
           overB == hasB /\ end > list[n].addr
           meetsP == FALSE
           meetsB == hasB /\ end = list[n].addr
           grown == [list[n - 1] EXCEPT !.size = Wrap(@ + size, SizeMod)]
           both == [grown EXCEPT !.size = Wrap(@ + list[n].size, SizeMod)]
       IN
       /\ StopsAt(n, addr)
       /\ \/ /\ overP \/ overB
             /\ Refused("free", NoConstraint, "E_BAD_ARGUMENT", addr, size)
          \/ /\ ~overP /\ ~overB
             /\ meetsP /\ ~meetsB
             /\ list' = ReplaceAt(list, n - 1, grown)
             /\ Return("free", NoConstraint, "NO_ERROR", addr, size)
          \/ /\ ~overP /\ ~overB
             /\ meetsP /\ meetsB
             /\ list' = ReplaceAt(RemoveAt(list, n), n - 1, both)
             /\ Return("free", NoConstraint, "NO_ERROR", addr, size)
          \/ /\ ~overP /\ ~overB
             /\ ~meetsP /\ meetsB
             /\ list' = ReplaceAt(list, n,
                           [addr |-> addr,
                            size |-> Wrap(list[n].size + size, SizeMod)])
             /\ Return("free", NoConstraint, "NO_ERROR", addr, size)
          \/ /\ ~overP /\ ~overB
             /\ ~meetsP /\ ~meetsB
             /\ \/ Refused("free", NoConstraint, "E_OUT_OF_MEMORY", addr, size)
                \/ /\ list' = InsertAt(list, n, [addr |-> addr, size |-> size])
                   /\ Return("free", NoConstraint, "NO_ERROR", addr, size)

\* free_block: p is block n - 1, b is block n.
free_block(addr, size) ==
    \E n \in 1 .. Len(list) + 1 :
       LET hasP == n > 1
           hasB == n <= Len(list)
           end == Wrap(addr + size, AddrMod)
           overP == hasP /\ End(list[n - 1]) > addr
           overB == hasB /\ end > list[n].addr
           meetsP == hasP /\ End(list[n - 1]) = addr
           meetsB == hasB /\ end = list[n].addr
           grown == [list[n - 1] EXCEPT !.size = Wrap(@ + size, SizeMod)]
           both == [grown EXCEPT !.size = Wrap(@ + list[n].size, SizeMod)]
       IN
       /\ StopsAt(n, addr)
       /\ \/ /\ overP \/ overB
             /\ Refused("free", NoConstraint, "E_BAD_ARGUMENT", addr, size)
          \/ /\ ~overP /\ ~overB
             /\ meetsP /\ ~meetsB
             /\ list' = ReplaceAt(list, n - 1, grown)
             /\ Return("free", NoConstraint, "NO_ERROR", addr, size)
          \/ /\ ~overP /\ ~overB
             /\ meetsP /\ meetsB
             /\ list' = ReplaceAt(RemoveAt(list, n), n - 1, both)
             /\ Return("free", NoConstraint, "NO_ERROR", addr, size)
          \/ /\ ~overP /\ ~overB
             /\ ~meetsP /\ meetsB
             /\ list' = ReplaceAt(list, n,
                           [addr |-> addr,
                            size |-> Wrap(list[n].size + size, SizeMod)])
             /\ Return("free", NoConstraint, "NO_ERROR", addr, size)
          \/ /\ ~overP /\ ~overB
             /\ ~meetsP /\ ~meetsB
             /\ \/ Refused("free", NoConstraint, "E_OUT_OF_MEMORY", addr, size)
                \/ /\ list' = InsertAt(list, n, [addr |-> addr, size |-> size])
                   /\ Return("free", NoConstraint, "NO_ERROR", addr, size)

-----------------------------------------------------------------------------
\* A careful caller gives back addresses it holds, none of which is free.
Release(r) == /\ CarefulCallers => Span(r.addr, r.size) \cap FreeAddrs = {}
              /\ free_block(r.addr, r.size)

Next == \/ \E r \in FixedReqs : alloc_fixed(r.addr, r.size)
        \/ \E size \in SizeReqs : alloc_block(size)
        \/ \E c \in Constraints, size \in SizeReqs : alloc_constrained(c, size)
        \/ \E r \in FreeReqs : Release(r)

Spec == Init /\ [][Next]_vars

-----------------------------------------------------------------------------
(* Properties. *)

\* Blocks are in address order, do not overlap and do not touch: neighbours
\* were merged by free_block, and a split leaves the allocated span between.
Coalesced == \A i, j \in 1 .. Len(list) :
    i < j => list[i].addr + Length(list[i].size) < list[j].addr

\* No block runs past the last address.
InSpace == \A i \in 1 .. Len(list) :
    list[i].addr + Length(list[i].size) <= AddrMod

\* The free list of alloc.c is a canonical picture of a set of addresses.
ListOK == Coalesced /\ InSpace

\* An address at which a span of this size could be handed out.
Suitable(a, size, c, freeSet) ==
    /\ Span(a, size) \subseteq freeSet
    /\ a % c.align = 0
    /\ c.min <= a
    /\ a + Length(size) <= c.max
    /\ \A bit \in c.mask : (a \div bit) % 2 = 0

\* alloc.c returns E_OUT_OF_STORAGE only when the request cannot be met, and
\* free_block returns E_BAD_ARGUMENT only when part of the span is free
\* already.  (A mask is excepted: alloc_constrained tries one address in each
\* block.)
HonestRefusal ==
    /\ res.op = "fixed" /\ res.ret = "E_OUT_OF_STORAGE" =>
          ~(Span(res.addr, res.size) \subseteq FreeAddrs)
    /\ res.op \in {"block", "constrained"} /\ res.ret = "E_OUT_OF_STORAGE"
          /\ res.want.mask = {} =>
          \A a \in Addr : ~Suitable(a, res.size, res.want, FreeAddrs)
    /\ res.op = "free" /\ res.ret = "E_BAD_ARGUMENT" =>
          Span(res.addr, res.size) \cap FreeAddrs # {}

\* What alloc_constrained and alloc_block hand out meets the constraints, and
\* (a mask apart) it is the lowest address that does: the free list is in
\* address order and each block is tried at its lowest suitable address.
LowestFit ==
    res.op \in {"block", "constrained"} /\ res.ret = "NO_ERROR" =>
        LET before == FreeAddrs \union Span(res.addr, res.size) IN
        /\ Suitable(res.addr, res.size, res.want, before)
        /\ res.want.mask = {} =>
              \A a \in 0 .. res.addr - 1 :
                 ~Suitable(a, res.size, res.want, before)

\* Refinement mapping to FreeSpace.
Outcome == IF res.op = "init" THEN [kind |-> "none", span |-> {}]
           ELSE IF res.ret # "NO_ERROR" THEN [kind |-> "refused", span |-> {}]
           ELSE [kind |-> IF res.op = "free" THEN "given" ELSE "taken",
                 span |-> Span(res.addr, res.size)]

Abstract == INSTANCE FreeSpace
            WITH Addresses <- Addr, free <- FreeAddrs, outcome <- Outcome

\* Every call of alloc.c takes or gives exactly the span it reports, whatever
\* splitting, trimming and merging of blocks that needs; a refused call and a
\* failed malloc() leave the free space as it was.
ImplementsFreeSpace == Abstract!Spec

=============================================================================
