---------------------------- MODULE PageTables -----------------------------
(***************************************************************************)
(* The page tables of the EDB7312 board (src/bin/of/edb7312/mmu.c), as     *)
(* operators on the value of the tables.                                   *)
(*                                                                         *)
(* The first level has an entry for each section of the address space: it  *)
(* faults, or maps the whole section, or points at a table of its pages.   *)
(* Addresses are counted in pages.  The access bits of a mode are kept as  *)
(* one value, its domain is left out.                                      *)
(***************************************************************************)
EXTENDS Integers

CONSTANTS
    SectionPages,   \* pages in a section: 256 on the board
    NSections,      \* sections in the address space: 4096 on the board
    NFrames,        \* physical pages
    Modes           \* access modes

ASSUME TableAssumption ==
    /\ SectionPages \in Nat /\ SectionPages > 1
    /\ NSections \in Nat /\ NSections > 0
    /\ NFrames \in Nat

Sections == 0 .. NSections - 1
Indexes == 0 .. SectionPages - 1
NPages == NSections * SectionPages
Pages == 0 .. NPages - 1
Frames == 0 .. NFrames - 1

Section(v) == v \div SectionPages
Index(v) == v % SectionPages

\* A page table entry, or what a page is translated to.
Unmapped == [phys |-> -1, mode |-> "none"]
SmallPage(p, m) == [phys |-> p, mode |-> m]
Pte == [phys : Frames, mode : Modes] \union {Unmapped}

NoPages == [i \in Indexes |-> Unmapped]
\* A first level entry.  "base" and "mode" count for sections, "pte" for tables.
FaultEntry == [type |-> "fault", base |-> 0, mode |-> "none", pte |-> NoPages]
SectionEntry(p, m) == [type |-> "section", base |-> p, mode |-> m, pte |-> NoPages]
TableEntry(t) == [type |-> "page", base |-> 0, mode |-> "none", pte |-> t]

Entry == [type : {"fault", "section", "page"}, base : Frames \union {0},
          mode : Modes \union {"none"}, pte : [Indexes -> Pte]]

-----------------------------------------------------------------------------
\* Mutant: the other pages of a section are lost when one of them is remapped.
convert_to_empty(e) == IF e.type = "page" THEN e.pte ELSE NoPages

\* The page table that cvt_section_to_pages makes of a section; the callers
\* go on with the table that is there already, or start an empty one.
cvt_section_to_pages(e) ==
    CASE e.type = "section" -> [i \in Indexes |-> SmallPage(e.base + i, e.mode)]
      [] e.type = "page" -> e.pte
      [] e.type = "fault" -> NoPages

\* map_page for each page of a section whose index is in I: the one of index i
\* becomes frame p + i.
map_page(e, I, p, m) ==
    TableEntry([i \in Indexes |-> IF i \in I THEN SmallPage(p + i, m)
                                  ELSE cvt_section_to_pages(e)[i]])

map_section(p, m) == SectionEntry(p, m)

\* unmap_page for each page of a section whose index is in I, not all of them
\* if it is mapped as a section.  A table is given up with its last page.
unmap_page(e, I) ==
    LET left == [i \in Indexes |-> IF i \in I THEN Unmapped
                                   ELSE cvt_section_to_pages(e)[i]] IN
    IF e.type = "fault" \/ left = NoPages THEN FaultEntry ELSE TableEntry(left)

unmap_section(e) == FaultEntry

-----------------------------------------------------------------------------
(* The loops over a region of n pages from page v.  They go page by page up *)
(* to the next section, section by section while a whole one is left, and   *)
(* page by page to the end, so that each entry sees one kind of step.       *)

First(s) == s * SectionPages
Whole(s, v, n) == v <= First(s) /\ First(s) + SectionPages <= v + n
Touched(s, v, n) == {i \in Indexes : v <= First(s) + i /\ First(s) + i < v + n}

\* Mutant: a section is mapped though its frames do not start at one.
map_region_unaligned(t, v, p, n, m) ==
    [s \in Sections |->
        IF Whole(s, v, n)
        THEN map_section(((p + First(s) - v) \div SectionPages) * SectionPages, m)
        ELSE IF Touched(s, v, n) = {} THEN t[s]
        ELSE map_page(t[s], Touched(s, v, n), p + First(s) - v, m)]

map_region(t, v, p, n, m) ==
    [s \in Sections |->
        IF Whole(s, v, n) /\ (p + First(s) - v) % SectionPages = 0
        THEN map_section(p + First(s) - v, m)
        ELSE IF Touched(s, v, n) = {} THEN t[s]
        ELSE map_page(t[s], Touched(s, v, n), p + First(s) - v, m)]

unmap_region(t, v, n) ==
    [s \in Sections |->
        IF Whole(s, v, n) THEN unmap_section(t[s])
        ELSE IF Touched(s, v, n) = {} THEN t[s]
        ELSE unmap_page(t[s], Touched(s, v, n))]

\* mmu_translate for page v.
mmu_translate(t, v) ==
    LET e == t[Section(v)] IN
    CASE e.type = "fault" -> Unmapped
      [] e.type = "section" -> SmallPage(e.base + Index(v), e.mode)
      [] e.type = "page" -> e.pte[Index(v)]

\* All of the space.
Translation(t) == [v \in Pages |-> mmu_translate(t, v)]
=============================================================================
