------------------------------ MODULE PciAlloc ------------------------------
(***************************************************************************)
(* The free lists of the PCI address pools (src/bin/of/pci/pcialloc.c), as *)
(* operators on the list: a sequence of blocks in order of their bases.    *)
(*                                                                         *)
(* The pools of every board lie below Top, which stands for 4 GB, so that  *)
(* of an address of two words the upper one is zero unless the address is  *)
(* Top.  A size can be negative: a bridge with nothing behind it takes     *)
(* such a block.  Addresses count smallest BARs; Low stands for 1 MB.      *)
(***************************************************************************)
EXTENDS Integers, Sequences, SequencesExt

CONSTANTS Top, Low

ASSUME PciAddressAssumption == Top \in Nat /\ Low \in 1 .. Top - 1

Block(base, size) == [base |-> base, size |-> size]
Limit(b) == b.base + b.size

\* The addresses of a list.
Covered(blocks) == UNION {blocks[i].base .. Limit(blocks[i]) - 1 : i \in DOMAIN blocks}

RoundUp(a, align) == ((a + align - 1) \div align) * align

\* Mutant: a block that is given back is put in front of a neighbour it joins.
free_block_unmerged(blocks, base, size, mem) ==
    IF size = 0 \/ ~mem THEN blocks
    ELSE SelectSeq(blocks, LAMBDA b : b.base <= base) \o <<Block(base, size)>>
            \o SelectSeq(blocks, LAMBDA b : b.base > base)

Earliest(S) == CHOOSE i \in S : \A j \in S : i <= j

\* How many blocks start at the address or below it.
Before(blocks, base) ==
    LET above == {i \in DOMAIN blocks : base < blocks[i].base}
    IN IF above = {} THEN Len(blocks) ELSE Earliest(above) - 1

JoinsPrev(blocks, p, base) == p > 0 /\ Limit(blocks[p]) = base
JoinsNext(blocks, p, limit) == p < Len(blocks) /\ blocks[p + 1].base = limit

\* The addresses base .. limit - 1 go behind the first p blocks, and join their
\* neighbours where they touch them.
Inserted(blocks, p, base, limit) ==
    LET low == IF JoinsPrev(blocks, p, base) THEN blocks[p].base ELSE base
        high == IF JoinsNext(blocks, p, limit) THEN Limit(blocks[p + 1]) ELSE limit
    IN SubSeq(blocks, 1, IF JoinsPrev(blocks, p, base) THEN p - 1 ELSE p)
            \o <<Block(low, high - low)>>
            \o SubSeq(blocks, IF JoinsNext(blocks, p, limit) THEN p + 2 ELSE p + 1, Len(blocks))

\* "mem": whether malloc() gives the new element.
pci_free_block(blocks, base, size, mem) ==
    LET p == Before(blocks, base) IN
    IF size = 0 \/ (~JoinsNext(blocks, p, base + size) /\ ~mem) THEN blocks
    ELSE Inserted(blocks, p, base, base + size)

Without(blocks, i) == RemoveAt(blocks, i)

Refused(blocks) == [ok |-> FALSE, blocks |-> blocks, base |-> 0]
Granted(blocks, base) == [ok |-> TRUE, blocks |-> blocks, base |-> base]

\* Where a block starts that is rounded up to the alignment and to the minimum.
StartIn(b, align, min) ==
    LET up == RoundUp(b.base, align) IN IF up < min THEN min ELSE up

Fits(b, size, align, min, mask) ==
    LET s == StartIn(b, align, min) IN s <= mask /\ s + size <= Limit(b)

\* Mutant: the part of the block below the address is not given back.
allocate_without_lead(blocks, size, align, min, mask, mem) ==
    LET fit == {i \in DOMAIN blocks : Fits(blocks[i], size, align, min, mask)}
        b == blocks[Earliest(fit)]
        s == StartIn(b, align, min)
    IN IF size = 0 \/ fit = {} THEN Refused(blocks)
       ELSE Granted(pci_free_block(Without(blocks, Earliest(fit)),
                                   s + size, Limit(b) - (s + size), mem), s)

pci_allocate_block(blocks, size, align, min, mask, mem) ==
    LET fit == {i \in DOMAIN blocks : Fits(blocks[i], size, align, min, mask)}
        b == blocks[Earliest(fit)]
        s == StartIn(b, align, min)
        lead == pci_free_block(Without(blocks, Earliest(fit)), b.base, s - b.base, mem)
    IN IF size = 0 \/ fit = {} THEN Refused(blocks)
       ELSE Granted(pci_free_block(lead, s + size, Limit(b) - (s + size), mem), s)

\* Takes addr .. addr + size - 1 from the first block that reaches the end.
pci_allocate_fixed_block(blocks, addr, size, mem) ==
    LET limit == addr + size
        reach == {i \in DOMAIN blocks : limit <= Limit(blocks[i])}
        b == blocks[Earliest(reach)]
        lead == pci_free_block(Without(blocks, Earliest(reach)), b.base, addr - b.base, mem)
    IN IF size = 0 \/ reach = {} \/ b.base > addr THEN Refused(blocks)
       ELSE Granted(pci_free_block(lead, limit, Limit(b) - limit, mem), addr)

\* What a block has to offer for a window.  A window that ends above the mask
\* loses its last address.
Offer(b, align, min, mask) ==
    LET s == StartIn(b, align, min)
        n == ((Limit(b) - s) \div align) * align
    IN IF s > Limit(b) \/ s > mask \/ n = 0 THEN Block(0, 0)
       ELSE Block(s, IF s + n > mask THEN mask - s ELSE n)

\* The largest of them, the first of equals; of size 0 if there is none.
pci_find_largest_block(blocks, align, min, mask) ==
    LET offers == [i \in DOMAIN blocks |-> Offer(blocks[i], align, min, mask)]
        largest == {i \in DOMAIN blocks : \A j \in DOMAIN blocks : offers[j].size <= offers[i].size}
    IN IF \A i \in DOMAIN blocks : offers[i].size = 0 THEN Block(0, 0)
       ELSE offers[Earliest(largest)]

\* Anywhere but the low part, or else there; blocks are aligned to their size.
pci_allocate_mem32(blocks, size, mem) ==
    LET high == pci_allocate_block(blocks, size, size, Low, Top - 1, mem)
    IN IF high.ok THEN high
       ELSE pci_allocate_block(blocks, size, size, 0, Low - 1, mem)

\* One bus number.
pci_allocate_buses(blocks, max, mem) == pci_allocate_block(blocks, 1, 1, 0, max, mem)
=============================================================================
