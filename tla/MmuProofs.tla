----------------------------- MODULE MmuProofs -----------------------------
(***************************************************************************)
(* What is proved of Mmu for address spaces, sections and regions of any   *)
(* size, and any number of calls.                                          *)
(***************************************************************************)
EXTENDS Mmu, SequenceTheorems, FiniteSetTheorems, TLAPS

\* Regions lie in the two address spaces and do not end with them.
ASSUME RegionsFit ==
    /\ MaxFailures \in Nat /\ MaxDamage \in Nat
    /\ \A r \in MapReqs :
          /\ r \in [virt : Nat, size : Nat, phys : Nat, mode : Modes]
          /\ r.virt + r.size < NPages
          /\ r.phys + r.size < NPages /\ r.phys + r.size <= NFrames
    /\ \A r \in UnmapReqs :
          r \in [virt : Nat, size : Nat] /\ r.virt + r.size < NPages

\* The first level entries have the types that the code gives them.
TablesTyped(t) ==
    /\ t \in [Sections -> Entry]
    /\ \A s \in Sections : t[s].type = "section" =>
          t[s].base + SectionPages <= NFrames /\ t[s].mode \in Modes

\* The tables a board starts with leave the last page unmapped (init_virtual),
\* and map consecutive frames in one mode.
BoardTable(t) ==
    /\ TablesTyped(t)
    /\ mmu_translate(t, NPages - 1) = Unmapped
    /\ \A v \in Pages : mmu_translate(t, v).phys + 1 < NPages
    /\ \A v, w \in Pages :
          /\ w = v + 1 /\ mmu_translate(t, v) # Unmapped
          /\ mmu_translate(t, w).phys = mmu_translate(t, v).phys + 1
          => mmu_translate(t, w).mode = mmu_translate(t, v).mode

ASSUME BoardTables == \A t \in InitialTables : BoardTable(t)

-----------------------------------------------------------------------------
(* Pages and sections. *)

LEMMA Products ==
    ASSUME NEW a \in Nat, NEW b \in Nat, NEW k \in Nat, a < b
    PROVE  a * k + k <= b * k
<1>1. a + 1 <= b
    OBVIOUS
<1>2. (a + 1) * k <= b * k
    BY <1>1
<1> QED
    BY <1>2

LEMMA Division ==
    ASSUME NEW v \in Nat
    PROVE  /\ Section(v) \in Nat /\ Index(v) \in Indexes
           /\ v = First(Section(v)) + Index(v)
<1>1. SectionPages \in Nat /\ SectionPages > 0
    BY TableAssumption
<1>2. \A k \in Nat : k > 0 =>
          /\ v \div k \in Nat /\ v % k \in 0 .. k - 1
          /\ v = k * (v \div k) + (v % k)
    OBVIOUS
<1> QED
    BY <1>1, <1>2 DEF Section, Index, First, Indexes

LEMMA PageFacts ==
    ASSUME NEW v \in Pages
    PROVE  /\ v \in Nat /\ Section(v) \in Sections /\ Index(v) \in Indexes
           /\ v = First(Section(v)) + Index(v) /\ First(Section(v)) \in Nat
<1>1. v \in Nat /\ v < NPages /\ NSections \in Nat /\ SectionPages \in Nat
    BY TableAssumption DEF Pages, NPages
<1>2. /\ Section(v) \in Nat /\ Index(v) \in Indexes
      /\ v = First(Section(v)) + Index(v)
    BY <1>1, Division
<1>3. ASSUME NSections <= Section(v)
      PROVE  FALSE
    <2>1. NSections * SectionPages <= Section(v) * SectionPages
        BY <1>1, <1>2, <1>3, Products
    <2> QED
        BY <1>1, <1>2, <2>1 DEF First, NPages, Indexes
<1> QED
    BY <1>1, <1>2, <1>3 DEF Sections, First

-----------------------------------------------------------------------------
(* What a change of the tables does to each page. *)

\* What the processor makes of index i of an entry.
Meaning(e, i) == CASE e.type = "fault" -> Unmapped
                   [] e.type = "section" -> SmallPage(e.base + i, e.mode)
                   [] e.type = "page" -> e.pte[i]

LEMMA ConvertedMeaning ==
    ASSUME NEW e \in Entry, NEW i \in Indexes
    PROVE  cvt_section_to_pages(e)[i] = Meaning(e, i)
<1>1. e.type \in {"fault", "section", "page"}
    BY DEF Entry
<1> QED
    BY <1>1 DEF cvt_section_to_pages, Meaning, NoPages

LEMMA MappedMeaning ==
    ASSUME NEW e \in Entry, NEW i \in Indexes, NEW I, NEW p, NEW m
    PROVE  /\ Meaning(map_page(e, I, p, m), i) =
                 IF i \in I THEN SmallPage(p + i, m) ELSE Meaning(e, i)
           /\ Meaning(map_section(p, m), i) = SmallPage(p + i, m)
           /\ Meaning(unmap_page(e, I), i) = IF i \in I THEN Unmapped ELSE Meaning(e, i)
           /\ Meaning(unmap_section(e), i) = Unmapped
<1>1. Meaning(map_page(e, I, p, m), i) = IF i \in I THEN SmallPage(p + i, m) ELSE Meaning(e, i)
    <2>1. Meaning(map_page(e, I, p, m), i) = map_page(e, I, p, m).pte[i]
        BY DEF Meaning, map_page, TableEntry
    <2>2. map_page(e, I, p, m).pte[i] = IF i \in I THEN SmallPage(p + i, m)
                                        ELSE cvt_section_to_pages(e)[i]
        BY DEF map_page, TableEntry
    <2> QED
        BY <2>1, <2>2, ConvertedMeaning
<1>2. Meaning(map_section(p, m), i) = SmallPage(p + i, m)
    BY DEF Meaning, map_section, SectionEntry
<1>3. Meaning(FaultEntry, i) = Unmapped
    BY DEF Meaning, FaultEntry
<1>4. Meaning(unmap_page(e, I), i) = IF i \in I THEN Unmapped ELSE Meaning(e, i)
    <2> DEFINE left == [j \in Indexes |-> IF j \in I THEN Unmapped
                                          ELSE cvt_section_to_pages(e)[j]]
    <2>1. left[i] = IF i \in I THEN Unmapped ELSE Meaning(e, i)
        BY ConvertedMeaning
    <2>2. CASE e.type = "fault"
        <3>1. Meaning(e, i) = Unmapped
            BY <2>2 DEF Meaning
        <3> QED
            BY <1>3, <2>2, <3>1 DEF unmap_page
    <2>3. CASE left = NoPages
        <3>1. left[i] = Unmapped
            BY <2>3 DEF NoPages
        <3>2. unmap_page(e, I) = FaultEntry
            BY <2>3 DEF unmap_page
        <3> QED
            BY <1>3, <2>1, <3>1, <3>2
    <2>4. CASE e.type # "fault" /\ left # NoPages
        <3>1. unmap_page(e, I) = TableEntry(left)
            BY <2>4 DEF unmap_page
        <3> HIDE DEF left
        <3>2. Meaning(TableEntry(left), i) = left[i]
            BY DEF Meaning, TableEntry
        <3> QED
            BY <2>1, <3>1, <3>2
    <2> QED
        BY <2>2, <2>3, <2>4
<1> QED
    BY <1>1, <1>2, <1>3, <1>4 DEF unmap_section

LEMMA TranslateMeaning ==
    ASSUME NEW t, NEW v
    PROVE  mmu_translate(t, v) = Meaning(t[Section(v)], Index(v))
BY DEF mmu_translate, Meaning

\* map_region changes the pages of the region and no others, by whatever mixture
\* of sections and tables.
LEMMA MapEffect ==
    ASSUME NEW t \in [Sections -> Entry], NEW v \in Nat, NEW p \in Nat, NEW n \in Nat, NEW m,
           NEW x \in Pages
    PROVE  mmu_translate(map_region(t, v, p, n, m), x) =
               IF v <= x /\ x < v + n THEN SmallPage(p + x - v, m) ELSE mmu_translate(t, x)
<1> DEFINE s == Section(x)
           i == Index(x)
           T == map_region(t, v, p, n, m)
<1>1. /\ x \in Nat /\ s \in Sections /\ i \in Indexes /\ x = First(s) + i
      /\ First(s) \in Nat
    BY PageFacts
<1>2. SectionPages \in Nat /\ i \in Nat /\ i < SectionPages
    BY <1>1, TableAssumption DEF Indexes
<1>3. t[s] \in Entry
    BY <1>1
<1>4. T[s] = IF Whole(s, v, n) /\ (p + First(s) - v) % SectionPages = 0
             THEN map_section(p + First(s) - v, m)
             ELSE IF Touched(s, v, n) = {} THEN t[s]
             ELSE map_page(t[s], Touched(s, v, n), p + First(s) - v, m)
    BY <1>1 DEF map_region
<1>5. i \in Touched(s, v, n) <=> v <= x /\ x < v + n
    BY <1>1 DEF Touched
<1>6. Whole(s, v, n) => v <= x /\ x < v + n
    BY <1>1, <1>2 DEF Whole
<1>7. p + First(s) - v + i = p + x - v
    BY <1>1, <1>2
<1> HIDE DEF s, i, T
<1>8. Meaning(T[s], i) = IF v <= x /\ x < v + n THEN SmallPage(p + x - v, m)
                         ELSE Meaning(t[s], i)
    <2>1. CASE Whole(s, v, n) /\ (p + First(s) - v) % SectionPages = 0
        <3>1. T[s] = map_section(p + First(s) - v, m)
            BY <1>4, <2>1
        <3>2. Meaning(T[s], i) = SmallPage(p + First(s) - v + i, m)
            BY <1>1, <1>3, <3>1, MappedMeaning
        <3> QED
            BY <1>6, <1>7, <2>1, <3>2
    <2>2. CASE /\ ~(Whole(s, v, n) /\ (p + First(s) - v) % SectionPages = 0)
               /\ Touched(s, v, n) = {}
        BY <1>4, <1>5, <2>2
    <2>3. CASE /\ ~(Whole(s, v, n) /\ (p + First(s) - v) % SectionPages = 0)
               /\ Touched(s, v, n) # {}
        <3>1. T[s] = map_page(t[s], Touched(s, v, n), p + First(s) - v, m)
            BY <1>4, <2>3
        <3> QED
            BY <1>1, <1>3, <1>5, <1>7, <3>1, MappedMeaning
    <2> QED
        BY <2>1, <2>2, <2>3
<1> QED
    BY <1>8, TranslateMeaning DEF s, i, T

LEMMA UnmapEffect ==
    ASSUME NEW t \in [Sections -> Entry], NEW v \in Nat, NEW n \in Nat, NEW x \in Pages
    PROVE  mmu_translate(unmap_region(t, v, n), x) =
               IF v <= x /\ x < v + n THEN Unmapped ELSE mmu_translate(t, x)
<1> DEFINE s == Section(x)
           i == Index(x)
           T == unmap_region(t, v, n)
<1>1. /\ x \in Nat /\ s \in Sections /\ i \in Indexes /\ x = First(s) + i
      /\ First(s) \in Nat
    BY PageFacts
<1>2. SectionPages \in Nat /\ i \in Nat /\ i < SectionPages
    BY <1>1, TableAssumption DEF Indexes
<1>3. t[s] \in Entry
    BY <1>1
<1>4. T[s] = IF Whole(s, v, n) THEN unmap_section(t[s])
             ELSE IF Touched(s, v, n) = {} THEN t[s]
             ELSE unmap_page(t[s], Touched(s, v, n))
    BY <1>1 DEF unmap_region
<1>5. i \in Touched(s, v, n) <=> v <= x /\ x < v + n
    BY <1>1 DEF Touched
<1>6. Whole(s, v, n) => v <= x /\ x < v + n
    BY <1>1, <1>2 DEF Whole
<1> HIDE DEF s, i, T
<1>7. Meaning(T[s], i) = IF v <= x /\ x < v + n THEN Unmapped ELSE Meaning(t[s], i)
    <2>1. CASE Whole(s, v, n)
        BY <1>1, <1>3, <1>4, <1>6, <2>1, MappedMeaning
    <2>2. CASE ~Whole(s, v, n) /\ Touched(s, v, n) = {}
        BY <1>4, <1>5, <2>2
    <2>3. CASE ~Whole(s, v, n) /\ Touched(s, v, n) # {}
        BY <1>1, <1>3, <1>4, <1>5, <2>3, MappedMeaning
    <2> QED
        BY <2>1, <2>2, <2>3
<1> QED
    BY <1>7, TranslateMeaning DEF s, i, T

-----------------------------------------------------------------------------
(* Induction over bounded naturals. *)

\* A non-empty set of naturals has a least element: intervals that start at 0
\* are finite, and the strict subset ordering of finite sets is well founded.
LEMMA Least ==
    ASSUME NEW T, T \subseteq Nat, T # {}
    PROVE  \E m \in T : \A k \in T : m <= k
<1> DEFINE R == StrictSubsetOrdering(Nat)
           F == {0 .. k : k \in T}
<1>1. IsWellFoundedOn(R, FiniteSubsetsOf(Nat))
    BY FS_StrictSubsetOrderingWellFounded
<1>2. F \subseteq FiniteSubsetsOf(Nat) /\ F # {}
    <2>1. ASSUME NEW k \in T
          PROVE  0 .. k \in FiniteSubsetsOf(Nat)
        BY FS_Interval DEF FiniteSubsetsOf
    <2> QED
        BY <2>1
<1>3. PICK X \in F : \A Y \in F : ~(<<Y, X>> \in R)
    <2> HIDE DEF R, F
    <2> QED
        BY <1>1, <1>2, WFMin
<1>4. PICK m \in T : X = 0 .. m
    OBVIOUS
<1>5. ASSUME NEW k \in T, k < m
      PROVE  FALSE
    <2>1. 0 .. k \subseteq 0 .. m /\ 0 .. k \subseteq Nat /\ 0 .. m \subseteq Nat
        BY <1>5
    <2>2. m \in 0 .. m /\ ~(m \in 0 .. k)
        BY <1>5
    <2>3. <<0 .. k, 0 .. m>> \in R
        BY <2>1, <2>2 DEF StrictSubsetOrdering
    <2> QED
        BY <1>3, <1>4, <2>3
<1> QED
    BY <1>5

LEMMA Induction ==
    ASSUME NEW n \in Nat, NEW T, 0 \in T, \A k \in 0 .. n - 1 : k \in T => k + 1 \in T
    PROVE  \A k \in 0 .. n : k \in T
<1> DEFINE B == {k \in 0 .. n : k \notin T}
<1>1. ASSUME B # {}
      PROVE  FALSE
    <2>1. B \subseteq Nat
        OBVIOUS
    <2>2. PICK m \in B : \A k \in B : m <= k
        <3> HIDE DEF B
        <3> QED
            BY <1>1, <2>1, Least
    <2>3. m \in 0 .. n /\ m \notin T /\ m # 0
        OBVIOUS
    <2>4. m - 1 \in 0 .. n - 1 /\ m - 1 \in 0 .. n /\ ~(m <= m - 1) /\ (m - 1) + 1 = m
        BY <2>3
    <2>5. m - 1 \in T
        BY <2>2, <2>4
    <2> QED
        BY <2>3, <2>4, <2>5
<1> QED
    BY <1>1

-----------------------------------------------------------------------------
(* Lists of translations. *)

Fits(t) == /\ t \in [virt : Nat, size : Nat, phys : Nat, mode : Modes]
           /\ t.virt + t.size < NPages /\ t.phys + t.size < NPages
Covers(t, x) == t.virt <= x /\ x < t.virt + t.size
Image(t, x) == SmallPage(t.phys + x - t.virt, t.mode)

\* In order, and without overlaps; without empty translations.
InOrder(l) ==
    /\ l \in Seq(Elements)
    /\ \A i \in 1 .. Len(l) : Fits(l[i])
    /\ \A i, j \in 1 .. Len(l) : i < j => l[i].virt + l[i].size <= l[j].virt
Proper(l) == InOrder(l) /\ \A i \in 1 .. Len(l) : l[i].size > 0

\* What the list says of page x: nothing or one image, if it is in order.
Shows(l, x) == {Image(l[i], x) : i \in {j \in 1 .. Len(l) : Covers(l[j], x)}}
Below(l, y) == \A i \in 1 .. Len(l) : l[i].virt + l[i].size <= y
Beyond(l, y) == \A i \in 1 .. Len(l) : y <= l[i].virt

LEMMA FitsFacts ==
    ASSUME NEW t, Fits(t)
    PROVE  /\ t \in Elements
           /\ t.virt \in Nat /\ t.size \in Nat /\ t.phys \in Nat /\ t.mode \in Modes
           /\ t.virt + t.size < NPages /\ t.phys + t.size < NPages
<1>1. NPages \in Nat
    BY TableAssumption DEF NPages
<1> QED
    BY <1>1 DEF Fits, Elements, Pages

LEMMA EmptyList ==
    Proper(<<>>) /\ Len(<<>>) = 0 /\ \A x : Shows(<<>>, x) = {} /\ Below(<<>>, x) /\ Beyond(<<>>, x)
<1>1. Len(<<>>) = 0 /\ <<>> \in Seq(Elements)
    BY EmptySeq
<1> QED
    BY <1>1 DEF Proper, InOrder, Shows, Below, Beyond

LEMMA OneElement ==
    ASSUME NEW t, Fits(t), t.size > 0
    PROVE  /\ Proper(<<t>>)
           /\ \A y : t.virt + t.size <= y => Below(<<t>>, y)
           /\ \A y : y <= t.virt => Beyond(<<t>>, y)
           /\ \A x : Shows(<<t>>, x) = IF Covers(t, x) THEN {Image(t, x)} ELSE {}
<1>1. t \in Elements
    BY FitsFacts
<1>2. <<t>> \in Seq(Elements) /\ Len(<<t>>) = 1 /\ <<t>>[1] = t /\ 1 .. 1 = {1}
    BY <1>1
<1>3. Proper(<<t>>)
    BY <1>2 DEF Proper, InOrder
<1>4. ASSUME NEW x
      PROVE  Shows(<<t>>, x) = IF Covers(t, x) THEN {Image(t, x)} ELSE {}
    BY <1>2 DEF Shows
<1> QED
    BY <1>2, <1>3, <1>4 DEF Below, Beyond

LEMMA ListFacts ==
    ASSUME NEW l, InOrder(l), NEW i \in 1 .. Len(l)
    PROVE  /\ Len(l) \in Nat /\ DOMAIN l = 1 .. Len(l) /\ l[i] \in Elements /\ Fits(l[i])
           /\ l[i].virt \in Nat /\ l[i].size \in Nat /\ l[i].phys \in Nat
           /\ l[i].mode \in Modes
           /\ l[i].virt + l[i].size < NPages /\ l[i].phys + l[i].size < NPages
<1>1. Fits(l[i]) /\ Len(l) \in Nat /\ DOMAIN l = 1 .. Len(l)
    BY LenProperties DEF InOrder
<1> QED
    BY <1>1, FitsFacts

LEMMA Joined ==
    ASSUME NEW a, NEW b, InOrder(a), InOrder(b), NEW y \in Nat, Below(a, y), Beyond(b, y)
    PROVE  /\ InOrder(a \o b)
           /\ Proper(a) /\ Proper(b) => Proper(a \o b)
           /\ Len(a \o b) = Len(a) + Len(b)
           /\ \A x : Shows(a \o b, x) = Shows(a, x) \union Shows(b, x)
           /\ \A z : Below(a, z) /\ Below(b, z) => Below(a \o b, z)
           /\ \A z : Beyond(a, z) /\ Beyond(b, z) => Beyond(a \o b, z)
<1> DEFINE m == Len(a)
           n == Len(b)
           c == a \o b
<1>1. m \in Nat /\ n \in Nat /\ a \in Seq(Elements) /\ b \in Seq(Elements)
    BY LenProperties DEF InOrder
<1>2. /\ c \in Seq(Elements) /\ Len(c) = m + n
      /\ \A i \in 1 .. m + n : c[i] = IF i <= m THEN a[i] ELSE b[i - m]
    BY <1>1, ConcatProperties
<1>3. ASSUME NEW i \in 1 .. m + n
      PROVE  \/ i \in 1 .. m /\ c[i] = a[i]
             \/ i - m \in 1 .. n /\ i > m /\ c[i] = b[i - m]
    BY <1>1, <1>2
<1>4. /\ \A i \in 1 .. m : i \in 1 .. m + n /\ c[i] = a[i]
      /\ \A i \in 1 .. n : i + m \in 1 .. m + n /\ c[i + m] = b[i]
    <2>1. ASSUME NEW i \in 1 .. m
          PROVE  i \in 1 .. m + n /\ c[i] = a[i]
        BY <1>1, <1>2
    <2>2. ASSUME NEW i \in 1 .. n
          PROVE  i + m \in 1 .. m + n /\ c[i + m] = b[i]
        <3>1. i + m \in 1 .. m + n /\ ~(i + m <= m) /\ (i + m) - m = i
            BY <1>1
        <3> QED
            BY <1>2, <3>1
    <2> QED
        BY <2>1, <2>2
<1> HIDE DEF m, n, c
<1>5. InOrder(c)
    <2>1. \A i \in 1 .. m + n : Fits(c[i])
        BY <1>3 DEF InOrder, m, n
    <2>2. ASSUME NEW i \in 1 .. m + n, NEW j \in 1 .. m + n, i < j
          PROVE  c[i].virt + c[i].size <= c[j].virt
        <3>1. CASE j \in 1 .. m /\ c[j] = a[j]
            <4>1. i \in 1 .. m /\ c[i] = a[i]
                BY <1>1, <1>3, <2>2, <3>1
            <4> QED
                BY <2>2, <3>1, <4>1 DEF InOrder, m
        <3>2. CASE /\ j - m \in 1 .. n /\ j > m /\ c[j] = b[j - m]
                   /\ i \in 1 .. m /\ c[i] = a[i]
            <4>1. a[i].virt + a[i].size <= y /\ y <= b[j - m].virt
                BY <3>2 DEF Below, Beyond, m, n
            <4>2. a[i].virt \in Nat /\ a[i].size \in Nat /\ b[j - m].virt \in Nat
                BY <3>2, ListFacts DEF m, n
            <4> QED
                BY <3>2, <4>1, <4>2
        <3>3. CASE /\ j - m \in 1 .. n /\ j > m /\ c[j] = b[j - m]
                   /\ i - m \in 1 .. n /\ i > m /\ c[i] = b[i - m]
            <4>1. i - m < j - m
                BY <1>1, <2>2
            <4> QED
                BY <3>3, <4>1 DEF InOrder, n
        <3> QED
            BY <1>3, <3>1, <3>2, <3>3
    <2> QED
        BY <1>2, <2>1, <2>2 DEF InOrder
<1>6. ASSUME Proper(a), Proper(b)
      PROVE  Proper(c)
    <2>1. \A i \in 1 .. m + n : c[i].size > 0
        BY <1>3, <1>6 DEF Proper, m, n
    <2> QED
        BY <1>2, <1>5, <2>1 DEF Proper
<1>7. ASSUME NEW x
      PROVE  Shows(c, x) = Shows(a, x) \union Shows(b, x)
    <2>1. ASSUME NEW z \in Shows(c, x)
          PROVE  z \in Shows(a, x) \union Shows(b, x)
        <3>1. PICK i \in 1 .. m + n : Covers(c[i], x) /\ z = Image(c[i], x)
            BY <1>2 DEF Shows
        <3> QED
            BY <1>3, <3>1 DEF Shows, m, n
    <2>2. ASSUME NEW z \in Shows(a, x)
          PROVE  z \in Shows(c, x)
        <3>1. PICK i \in 1 .. m : Covers(a[i], x) /\ z = Image(a[i], x)
            BY DEF Shows, m
        <3> QED
            BY <1>2, <1>4, <3>1 DEF Shows
    <2>3. ASSUME NEW z \in Shows(b, x)
          PROVE  z \in Shows(c, x)
        <3>1. PICK i \in 1 .. n : Covers(b[i], x) /\ z = Image(b[i], x)
            BY DEF Shows, n
        <3>2. i + m \in 1 .. m + n /\ c[i + m] = b[i]
            BY <1>4
        <3> QED
            BY <1>2, <3>1, <3>2 DEF Shows
    <2> QED
        BY <2>1, <2>2, <2>3
<1>8. ASSUME NEW z, Below(a, z), Below(b, z)
      PROVE  Below(c, z)
    BY <1>2, <1>3, <1>8 DEF Below, m, n
<1>9. ASSUME NEW z, Beyond(a, z), Beyond(b, z)
      PROVE  Beyond(c, z)
    BY <1>2, <1>3, <1>9 DEF Beyond, m, n
<1> QED
    BY <1>2, <1>5, <1>6, <1>7, <1>8, <1>9 DEF c, m, n

\* What elements lo .. hi show.
PartShows(l, lo, hi, x) == {Image(l[i], x) : i \in {j \in lo .. hi : Covers(l[j], x)}}

LEMMA Parted ==
    ASSUME NEW l, InOrder(l), NEW lo \in 1 .. Len(l) + 1, NEW hi \in 0 .. Len(l), lo <= hi + 1
    PROVE  /\ InOrder(SubSeq(l, lo, hi)) /\ (Proper(l) => Proper(SubSeq(l, lo, hi)))
           /\ Len(SubSeq(l, lo, hi)) = hi - lo + 1
           /\ \A i \in 1 .. hi - lo + 1 : SubSeq(l, lo, hi)[i] = l[lo + i - 1]
           /\ \A x : Shows(SubSeq(l, lo, hi), x) = PartShows(l, lo, hi, x)
<1> DEFINE s == SubSeq(l, lo, hi)
           n == hi - lo + 1
<1>1. Len(l) \in Nat /\ l \in Seq(Elements) /\ lo \in Int /\ hi \in Int /\ n \in Nat
    BY LenProperties DEF InOrder
<1>2. \A i \in lo .. hi : i \in 1 .. Len(l)
    BY <1>1
<1>3. /\ s \in Seq(Elements) /\ Len(s) = n
      /\ \A i \in 1 .. n : s[i] = l[lo + i - 1]
    <2>1. \A i \in lo .. hi : l[i] \in Elements
        BY <1>2, ListFacts
    <2>2. /\ s \in Seq(Elements) /\ Len(s) = IF lo <= hi THEN n ELSE 0
          /\ \A i \in 1 .. n : s[i] = l[lo + i - 1]
        BY <1>1, <2>1, SubSeqProperties
    <2>3. lo <= hi \/ n = 0
        BY <1>1
    <2> QED
        BY <2>2, <2>3
<1>4. ASSUME NEW i \in 1 .. n
      PROVE  s[i] = l[lo + i - 1] /\ lo + i - 1 \in 1 .. Len(l) /\ lo + i - 1 \in lo .. hi
    BY <1>1, <1>3
<1> HIDE DEF s
<1>5. InOrder(s)
    <2>1. \A i \in 1 .. n : Fits(s[i])
        BY <1>4 DEF InOrder
    <2>2. ASSUME NEW i \in 1 .. n, NEW j \in 1 .. n, i < j
          PROVE  s[i].virt + s[i].size <= s[j].virt
        <3>1. lo + i - 1 < lo + j - 1
            BY <1>1, <2>2
        <3> QED
            BY <1>4, <3>1 DEF InOrder
    <2> QED
        BY <1>3, <2>1, <2>2 DEF InOrder
<1>6. ASSUME Proper(l)
      PROVE  Proper(s)
    BY <1>3, <1>4, <1>5, <1>6 DEF Proper
<1>7. ASSUME NEW x
      PROVE  Shows(s, x) = PartShows(l, lo, hi, x)
    <2>1. ASSUME NEW z \in Shows(s, x)
          PROVE  z \in PartShows(l, lo, hi, x)
        <3>1. PICK i \in 1 .. n : Covers(s[i], x) /\ z = Image(s[i], x)
            BY <1>3 DEF Shows
        <3> QED
            BY <1>4, <3>1 DEF PartShows
    <2>2. ASSUME NEW i \in lo .. hi, Covers(l[i], x)
          PROVE  Image(l[i], x) \in Shows(s, x)
        <3>1. i - lo + 1 \in 1 .. n /\ lo + (i - lo + 1) - 1 = i
            BY <1>1
        <3>2. s[i - lo + 1] = l[i]
            BY <1>4, <3>1
        <3> QED
            BY <1>3, <2>2, <3>1, <3>2 DEF Shows
    <2> QED
        BY <2>1, <2>2 DEF PartShows
<1> QED
    BY <1>3, <1>5, <1>6, <1>7 DEF s

LEMMA Prefix ==
    ASSUME NEW l, InOrder(l), NEW p \in 0 .. Len(l)
    PROVE  /\ InOrder(SubSeq(l, 1, p)) /\ (Proper(l) => Proper(SubSeq(l, 1, p)))
           /\ Len(SubSeq(l, 1, p)) = p
           /\ \A i \in 1 .. p : SubSeq(l, 1, p)[i] = l[i]
           /\ \A x : Shows(SubSeq(l, 1, p), x) = PartShows(l, 1, p, x)
<1>1. /\ 1 \in 1 .. Len(l) + 1 /\ p \in 0 .. Len(l) /\ 1 <= p + 1 /\ p - 1 + 1 = p
      /\ \A i \in 1 .. p : 1 + i - 1 = i
    BY LenProperties DEF InOrder
<1>2. /\ InOrder(SubSeq(l, 1, p)) /\ (Proper(l) => Proper(SubSeq(l, 1, p)))
      /\ Len(SubSeq(l, 1, p)) = p - 1 + 1
      /\ \A i \in 1 .. p - 1 + 1 : SubSeq(l, 1, p)[i] = l[1 + i - 1]
      /\ \A x : Shows(SubSeq(l, 1, p), x) = PartShows(l, 1, p, x)
    BY <1>1, Parted
<1> QED
    BY <1>1, <1>2

LEMMA Suffix ==
    ASSUME NEW l, InOrder(l), NEW q \in 1 .. Len(l) + 1
    PROVE  /\ InOrder(SubSeq(l, q, Len(l))) /\ (Proper(l) => Proper(SubSeq(l, q, Len(l))))
           /\ Len(SubSeq(l, q, Len(l))) = Len(l) - q + 1
           /\ \A i \in 1 .. Len(l) - q + 1 : SubSeq(l, q, Len(l))[i] = l[q + i - 1]
           /\ \A x : Shows(SubSeq(l, q, Len(l)), x) = PartShows(l, q, Len(l), x)
<1>1. Len(l) \in Nat
    BY LenProperties DEF InOrder
<1>2. q \in 1 .. Len(l) + 1 /\ Len(l) \in 0 .. Len(l) /\ q <= Len(l) + 1
    BY <1>1
<1> QED
    BY <1>2, Parted

-----------------------------------------------------------------------------
(* remove_translation. *)

LEMMA NoWrap ==
    /\ NPages \in Nat
    /\ \A x \in Nat : x < NPages => WrapPage(x) = x
<1>1. NPages \in Nat
    BY TableAssumption DEF NPages
<1>2. \A k, x \in Nat : x < k => x % k = x
    OBVIOUS
<1> QED
    BY <1>1, <1>2 DEF WrapPage

\* A translation that starts in the region reaches its end.
Reaches(t, v, n) == v <= t.virt /\ t.virt < v + n => v + n <= t.virt + t.size

\* What is cut off of one translation.
LEMMA CutEffect ==
    ASSUME NEW t, Fits(t), t.size > 0, NEW v \in Nat, NEW n \in Nat, n > 0, v + n < NPages,
           Reaches(t, v, n), ~EndsTheWalk(t, v, n)
    PROVE  /\ Fits(Cut(t, v, n)) /\ t.virt <= Cut(t, v, n).virt
           /\ Cut(t, v, n).virt + Cut(t, v, n).size <= t.virt + t.size
           /\ \A x \in Nat :
                 /\ Covers(Cut(t, v, n), x) <=> Covers(t, x) /\ ~(v <= x /\ x < v + n)
                 /\ Covers(Cut(t, v, n), x) => Image(Cut(t, v, n), x) = Image(t, x)
<1> DEFINE c == Cut(t, v, n)
           tv == t.virt
           ts == t.size
           tp == t.phys
<1>1. /\ tv \in Nat /\ ts \in Nat /\ tp \in Nat /\ t.mode \in Modes
      /\ tv + ts < NPages /\ tp + ts < NPages /\ NPages \in Nat
      /\ t \in [virt : Nat, size : Nat, phys : Nat, mode : Modes]
    BY FitsFacts, NoWrap DEF Fits
<1>2. End(t) = tv + ts /\ WrapPage(v + n) = v + n
    BY <1>1, NoWrap DEF End
<1>3. CASE v <= tv /\ tv < v + n
    <2>1. StartsIn(t, v, n)
        BY <1>2, <1>3 DEF StartsIn
    <2>2. v + n <= tv + ts
        BY <1>3 DEF Reaches
    <2> DEFINE over == v + n - tv
    <2>3. over \in Nat /\ over <= ts /\ over < NPages /\ ts - over \in Nat /\ ts - over < NPages
        BY <1>1, <1>3, <2>2
    <2>4. tv + over = v + n /\ tv + over \in Nat /\ tp + over \in Nat /\ tp + over < NPages
        BY <1>1, <2>3
    <2>5. /\ WrapPage(over) = over /\ WrapPage(ts - over) = ts - over
          /\ WrapPage(tv + over) = v + n /\ WrapPage(tp + over) = tp + over
        BY <2>3, <2>4, NoWrap
    <2>6. c = [t EXCEPT !.size = ts - over, !.virt = v + n, !.phys = tp + over]
        BY <2>1, <2>5 DEF Cut
    <2>7. /\ c.virt = v + n /\ c.size = ts - over /\ c.phys = tp + over /\ c.mode = t.mode
          /\ c \in [virt : Nat, size : Nat, phys : Nat, mode : Modes]
        BY <1>1, <2>3, <2>4, <2>6
    <2> HIDE DEF c, tv, ts, tp, over
    <2>8. c.virt + c.size = tv + ts /\ c.phys + c.size = tp + ts
        BY <1>1, <2>3, <2>4, <2>7
    <2>9. Fits(c) /\ tv <= c.virt /\ c.virt + c.size <= tv + ts
        BY <1>1, <1>3, <2>7, <2>8 DEF Fits
    <2>10. ASSUME NEW x \in Nat
           PROVE  /\ Covers(c, x) <=> Covers(t, x) /\ ~(v <= x /\ x < v + n)
                  /\ Covers(c, x) => Image(c, x) = Image(t, x)
        <3>1. c.phys + x - c.virt = tp + x - tv
            BY <1>1, <2>3, <2>4, <2>7
        <3>2. Image(c, x) = Image(t, x)
            BY <2>7, <3>1 DEF Image, tv, tp
        <3>3. Covers(c, x) <=> v + n <= x /\ x < tv + ts
            BY <2>7, <2>8 DEF Covers
        <3>4. Covers(t, x) <=> tv <= x /\ x < tv + ts
            BY DEF Covers, tv, ts
        <3>5. Covers(c, x) <=> Covers(t, x) /\ ~(v <= x /\ x < v + n)
            BY <1>1, <1>3, <3>3, <3>4
        <3> QED
            BY <3>2, <3>5
    <2> QED
        BY <2>9, <2>10 DEF c, tv, ts
<1>4. CASE ~(v <= tv /\ tv < v + n)
    <2>1. ~StartsIn(t, v, n)
        BY <1>2, <1>4 DEF StartsIn
    <2>2. Holds(t, v) <=> tv < v /\ v < tv + ts
        BY <1>2 DEF Holds
    <2>3. CASE Holds(t, v)
        <3>1. tv < v /\ v < tv + ts /\ tv + ts < v + n
            BY <1>1, <1>2, <2>1, <2>2, <2>3 DEF EndsTheWalk
        <3>2. c = [t EXCEPT !.size = v - tv]
            BY <2>1, <2>3 DEF Cut
        <3>3. /\ c.virt = tv /\ c.size = v - tv /\ c.phys = tp /\ c.mode = t.mode
              /\ c \in [virt : Nat, size : Nat, phys : Nat, mode : Modes]
            BY <1>1, <3>1, <3>2
        <3> HIDE DEF c, tv, ts, tp
        <3>4. Fits(c) /\ tv <= c.virt /\ c.virt + c.size <= tv + ts
            BY <1>1, <3>1, <3>3 DEF Fits
        <3>5. ASSUME NEW x \in Nat
              PROVE  /\ Covers(c, x) <=> Covers(t, x) /\ ~(v <= x /\ x < v + n)
                     /\ Image(c, x) = Image(t, x)
            <4>1. Image(c, x) = Image(t, x)
                BY <3>3 DEF Image, tv, tp
            <4>2. Covers(c, x) <=> tv <= x /\ x < tv + (v - tv)
                BY <3>3 DEF Covers
            <4>3. Covers(t, x) <=> tv <= x /\ x < tv + ts
                BY DEF Covers, tv, ts
            <4>4. Covers(c, x) <=> Covers(t, x) /\ ~(v <= x /\ x < v + n)
                BY <1>1, <3>1, <4>2, <4>3
            <4> QED
                BY <4>1, <4>4
        <3> QED
            BY <3>4, <3>5 DEF c, tv, ts
    <2>4. CASE ~Holds(t, v)
        <3>1. c = t
            BY <2>1, <2>4 DEF Cut
        <3>2. tv + ts <= v \/ v + n <= tv
            BY <1>1, <1>4, <2>2, <2>4
        <3> HIDE DEF c, tv, ts, tp
        <3>3. ASSUME NEW x \in Nat
              PROVE  Covers(t, x) => ~(v <= x /\ x < v + n)
            <4>1. Covers(t, x) <=> tv <= x /\ x < tv + ts
                BY DEF Covers, tv, ts
            <4> QED
                BY <1>1, <3>2, <4>1
        <3>4. tv <= c.virt /\ c.virt + c.size <= tv + ts
            <4>1. c.virt = tv /\ c.size = ts
                BY <3>1 DEF tv, ts
            <4> QED
                BY <1>1, <4>1
        <3> QED
            BY <3>1, <3>3, <3>4 DEF c, tv, ts
    <2> QED
        BY <2>3, <2>4
<1> QED
    BY <1>3, <1>4

\* The recursion of NonEmpty has a solution.
LEMMA NonEmptyEquation ==
    ASSUME NEW l, Len(l) \in Nat
    PROVE  \E kept : /\ NonEmpty(l) = kept[Len(l)] /\ kept[0] = <<>>
                     /\ \A k \in 1 .. Len(l) :
                           kept[k] = IF l[k].size = 0 THEN kept[k - 1]
                                     ELSE Append(kept[k - 1], l[k])
<1> DEFINE n == Len(l)
           Grow(g, k) == IF k = 0 THEN <<>>
                         ELSE IF l[k].size = 0 THEN g[k - 1] ELSE Append(g[k - 1], l[k])
           T == {k \in 0 .. n : \E g : g = [i \in 0 .. k |-> Grow(g, i)]}
           kept == CHOOSE g : g = [k \in 0 .. n |-> Grow(g, k)]
<1>1. 0 \in T
    <2> DEFINE g == [i \in 0 .. 0 |-> <<>>]
    <2>1. \A i \in 0 .. 0 : Grow(g, i) = <<>>
        OBVIOUS
    <2> HIDE DEF Grow
    <2>2. g = [i \in 0 .. 0 |-> Grow(g, i)]
        BY <2>1
    <2> QED
        BY <2>2
<1>2. ASSUME NEW k \in 0 .. n - 1, k \in T
      PROVE  k + 1 \in T
    <2>1. PICK g : g = [i \in 0 .. k |-> Grow(g, i)]
        BY <1>2
    <2> DEFINE h == [i \in 0 .. k + 1 |-> IF i = k + 1 THEN Grow(g, k + 1) ELSE g[i]]
    <2>2. ASSUME NEW i \in 0 .. k + 1
          PROVE  h[i] = Grow(h, i)
        <3>1. CASE i = 0
            <4>1. h[i] = g[0] /\ g[0] = Grow(g, 0) /\ Grow(g, 0) = <<>> /\ Grow(h, i) = <<>>
                BY <2>1, <3>1
            <4> QED
                BY <4>1
        <3>2. CASE i # 0
            <4>1. i - 1 \in 0 .. k /\ i - 1 \in 0 .. k + 1 /\ i - 1 # k + 1
                BY <3>2
            <4>2. h[i - 1] = g[i - 1]
                BY <4>1
            <4> HIDE DEF h
            <4>3. Grow(h, i) = Grow(g, i)
                BY <3>2, <4>2
            <4>4. h[i] = Grow(g, i)
                <5>1. CASE i = k + 1
                    BY <5>1 DEF h
                <5>2. CASE i # k + 1
                    <6>1. i \in 0 .. k
                        BY <5>2
                    <6> HIDE DEF Grow
                    <6> QED
                        BY <2>1, <5>2, <6>1 DEF h
                <5> QED
                    BY <5>1, <5>2
            <4> QED
                BY <4>3, <4>4
        <3> QED
            BY <3>1, <3>2
    <2> HIDE DEF Grow
    <2>3. h = [i \in 0 .. k + 1 |-> h[i]]
        OBVIOUS
    <2>4. h = [i \in 0 .. k + 1 |-> Grow(h, i)]
        <3> HIDE DEF h
        <3> QED
            BY <2>2, <2>3
    <2> HIDE DEF h
    <2> QED
        BY <2>4
<1>3. n \in T
    <2>1. \A k \in 0 .. n : k \in T
        <3> HIDE DEF T
        <3> QED
            BY <1>1, <1>2, Induction
    <2> HIDE DEF T
    <2>2. n \in 0 .. n
        OBVIOUS
    <2> QED
        BY <2>1, <2>2
<1>4. kept = [k \in 0 .. n |-> Grow(kept, k)]
    <2> DEFINE All(g) == [k \in 0 .. n |-> Grow(g, k)]
    <2>1. \E g : g = All(g)
        BY <1>3
    <2>2. kept = CHOOSE g : g = All(g)
        OBVIOUS
    <2>3. kept = All(kept)
        <3> HIDE DEF All, kept
        <3> QED
            BY <2>1, <2>2
    <2> QED
        BY <2>3
<1>5. NonEmpty(l) = kept[n]
    BY DEF NonEmpty
<1> HIDE DEF kept
<1>6. ASSUME NEW k \in 0 .. n
      PROVE  kept[k] = Grow(kept, k)
    <2> HIDE DEF Grow
    <2> QED
        BY <1>4
<1> QED
    BY <1>5, <1>6

\* Taking empty translations out of a list changes nothing that it shows.
LEMMA NonEmptyEffect ==
    ASSUME NEW l, InOrder(l)
    PROVE  /\ Proper(NonEmpty(l))
           /\ \A x \in Nat : Shows(NonEmpty(l), x) = Shows(l, x)
<1> DEFINE n == Len(l)
           To(k, x) == {Image(l[i], x) : i \in {j \in 1 .. k : Covers(l[j], x)}}
<1>1. n \in Nat /\ \A i \in 1 .. n : /\ Fits(l[i]) /\ l[i].virt \in Nat /\ l[i].size \in Nat
                                     /\ l[i] \in Elements
    BY ListFacts, LenProperties DEF InOrder
<1>2. PICK kept : /\ NonEmpty(l) = kept[n] /\ kept[0] = <<>>
                  /\ \A k \in 1 .. n : kept[k] = IF l[k].size = 0 THEN kept[k - 1]
                                                 ELSE Append(kept[k - 1], l[k])
    BY <1>1, NonEmptyEquation
<1> DEFINE Right(k) ==
               /\ Proper(kept[k])
               /\ \A y \in Nat : (\A i \in 1 .. k : l[i].virt + l[i].size <= y)
                                 => Below(kept[k], y)
               /\ \A x \in Nat : Shows(kept[k], x) = To(k, x)
           T == {k \in 0 .. n : Right(k)}
<1>3. 0 \in T
    <2>1. \A x : To(0, x) = {}
        OBVIOUS
    <2> HIDE DEF To
    <2>2. Right(0)
        BY <1>2, <2>1, EmptyList
    <2> HIDE DEF Right
    <2> QED
        BY <1>1, <2>2
<1>4. ASSUME NEW k \in 0 .. n - 1, k \in T
      PROVE  k + 1 \in T
    <2> DEFINE t == l[k + 1]
               s == kept[k]
    <2>1. /\ k + 1 \in 1 .. n /\ (k + 1) - 1 = k /\ k + 1 \in 0 .. n
          /\ 1 .. k \subseteq 1 .. k + 1 /\ k + 1 \in 1 .. k + 1
          /\ 1 .. k + 1 = 1 .. k \union {k + 1}
        BY <1>1
    <2>2. /\ Proper(s)
          /\ \A y \in Nat : (\A i \in 1 .. k : l[i].virt + l[i].size <= y) => Below(s, y)
          /\ \A x \in Nat : Shows(s, x) = To(k, x)
        BY <1>4
    <2>3. Fits(t) /\ t.virt \in Nat /\ t.size \in Nat /\ t \in Elements
        BY <1>1, <2>1
    <2>4. ASSUME NEW x \in Nat
          PROVE  To(k + 1, x) = To(k, x) \union IF Covers(t, x) THEN {Image(t, x)} ELSE {}
        <3>1. CASE Covers(t, x)
            BY <2>1, <3>1
        <3>2. CASE ~Covers(t, x)
            BY <2>1, <3>2
        <3> QED
            BY <3>1, <3>2
    <2>5. kept[k + 1] = IF t.size = 0 THEN s ELSE Append(s, t)
        BY <1>2, <2>1
    <2> HIDE DEF To, t, s
    <2>6. CASE t.size = 0
        <3>1. \A x \in Nat : ~Covers(t, x)
            BY <2>3, <2>6 DEF Covers
        <3>2. Right(k + 1)
            BY <2>1, <2>2, <2>4, <2>5, <2>6, <3>1
        <3> HIDE DEF Right
        <3> QED
            BY <2>1, <3>2
    <2>7. CASE t.size # 0
        <3>1. InOrder(s) /\ s \in Seq(Elements)
            BY <2>2 DEF Proper, InOrder
        <3>2. kept[k + 1] = s \o <<t>>
            BY <2>3, <2>5, <2>7, <3>1, AppendIsConcat
        <3>3. Below(s, t.virt)
            <4>1. \A i \in 1 .. k : i \in 1 .. n /\ i < k + 1
                BY <1>1
            <4>2. \A i \in 1 .. k : l[i].virt + l[i].size <= t.virt
                BY <2>1, <4>1 DEF InOrder, t
            <4> QED
                BY <2>2, <2>3, <4>2
        <3>4. /\ Proper(<<t>>) /\ Beyond(<<t>>, t.virt) /\ InOrder(<<t>>)
              /\ \A y : t.virt + t.size <= y => Below(<<t>>, y)
              /\ \A x : Shows(<<t>>, x) = IF Covers(t, x) THEN {Image(t, x)} ELSE {}
            <4>1. t.size > 0 /\ t.virt <= t.virt
                BY <2>3, <2>7
            <4> QED
                BY <2>3, <4>1, OneElement DEF Proper
        <3>5. /\ Proper(s \o <<t>>)
              /\ \A x : Shows(s \o <<t>>, x) = Shows(s, x) \union Shows(<<t>>, x)
              /\ \A z : Below(s, z) /\ Below(<<t>>, z) => Below(s \o <<t>>, z)
            BY <2>2, <2>3, <3>1, <3>3, <3>4, Joined
        <3>6. ASSUME NEW y \in Nat, \A i \in 1 .. k + 1 : l[i].virt + l[i].size <= y
              PROVE  Below(s \o <<t>>, y)
            <4>1. Below(s, y)
                BY <2>1, <2>2, <3>6
            <4>2. t.virt + t.size <= y
                BY <2>1, <3>6 DEF t
            <4> QED
                BY <3>4, <3>5, <4>1, <4>2
        <3>7. ASSUME NEW x \in Nat
              PROVE  Shows(s \o <<t>>, x) = To(k + 1, x)
            BY <2>2, <2>4, <3>4, <3>5
        <3>8. Right(k + 1)
            BY <3>2, <3>5, <3>6, <3>7
        <3> HIDE DEF Right
        <3> QED
            BY <2>1, <3>8
    <2> QED
        BY <2>6, <2>7
<1>5. Right(n)
    <2>1. \A k \in 0 .. n : k \in T
        <3> HIDE DEF T, n
        <3> QED
            BY <1>1, <1>3, <1>4, Induction
    <2> HIDE DEF Right
    <2> QED
        BY <1>1, <2>1
<1> QED
    BY <1>2, <1>5 DEF Shows

-----------------------------------------------------------------------------
(* The effect of remove_translation. *)

Inside(x, v, n) == v <= x /\ x < v + n
AllReach(l, v, n) == \A i \in 1 .. Len(l) : Reaches(l[i], v, n)

\* The list r.list shows nothing in the region, and else what l shows; if memory
\* ran out, it shows what l shows.
Removed(l, r, v, n) ==
    /\ Proper(r.list) /\ r.ok \in BOOLEAN
    /\ \A x \in Nat : Shows(r.list, x) =
          IF r.ok /\ Inside(x, v, n) THEN {} ELSE Shows(l, x)

LEMMA Between ==
    ASSUME NEW a \in Nat, NEW b \in Nat, NEW p \in Nat, NEW q \in Nat, NEW c \in Nat, NEW d \in Nat,
           a + b <= p + q, p + q <= c, c <= d
    PROVE  a + b <= d
OBVIOUS

LEMMA CutAll ==
    ASSUME NEW l, Proper(l), NEW v \in Nat, NEW n \in Nat, n > 0, v + n < NPages,
           AllReach(l, v, n), \A i \in 1 .. Len(l) : ~EndsTheWalk(l[i], v, n)
    PROVE  Removed(l, Done(NonEmpty([i \in DOMAIN l |-> Cut(l[i], v, n)])), v, n)
<1> DEFINE c == [i \in DOMAIN l |-> Cut(l[i], v, n)]
           m == Len(l)
<1>1. m \in Nat /\ DOMAIN l = 1 .. m /\ l \in Seq(Elements) /\ InOrder(l)
    BY LenProperties DEF Proper, InOrder
<1>2. ASSUME NEW i \in 1 .. m
      PROVE  /\ Fits(c[i]) /\ l[i].virt <= c[i].virt /\ c[i] \in Elements
             /\ c[i].virt + c[i].size <= l[i].virt + l[i].size
             /\ c[i].virt \in Nat /\ c[i].size \in Nat /\ l[i].virt \in Nat /\ l[i].size \in Nat
             /\ \A x \in Nat :
                   /\ Covers(c[i], x) <=> Covers(l[i], x) /\ ~Inside(x, v, n)
                   /\ Covers(c[i], x) => Image(c[i], x) = Image(l[i], x)
    <2>1. Fits(l[i]) /\ l[i].size > 0 /\ Reaches(l[i], v, n) /\ ~EndsTheWalk(l[i], v, n)
        BY DEF Proper, InOrder, AllReach
    <2>2. c[i] = Cut(l[i], v, n)
        BY <1>1
    <2> HIDE DEF c
    <2>3. /\ Fits(c[i]) /\ l[i].virt <= c[i].virt
          /\ c[i].virt + c[i].size <= l[i].virt + l[i].size
          /\ \A x \in Nat :
                /\ Covers(c[i], x) <=> Covers(l[i], x) /\ ~(v <= x /\ x < v + n)
                /\ Covers(c[i], x) => Image(c[i], x) = Image(l[i], x)
        BY <2>1, <2>2, CutEffect
    <2> QED
        BY <2>1, <2>3, FitsFacts DEF Inside
<1>3. c \in Seq(Elements) /\ Len(c) = m
    <2>1. c \in [1 .. m -> Elements]
        <3>1. \A i \in 1 .. m : Cut(l[i], v, n) \in Elements
            BY <1>1, <1>2
        <3> QED
            BY <1>1, <3>1
    <2> HIDE DEF c
    <2>2. c \in Seq(Elements)
        BY <1>1, <2>1, SeqDef
    <2>3. DOMAIN c = 1 .. m /\ DOMAIN c = 1 .. Len(c) /\ Len(c) \in Nat
        BY <2>1, <2>2, LenProperties
    <2> QED
        BY <1>1, <2>2, <2>3
<1> HIDE DEF c
<1>4. InOrder(c)
    <2>1. ASSUME NEW i \in 1 .. m, NEW j \in 1 .. m, i < j
          PROVE  c[i].virt + c[i].size <= c[j].virt
        <3>1. l[i].virt + l[i].size <= l[j].virt
            BY <1>1, <2>1 DEF InOrder
        <3>2. /\ c[i].virt + c[i].size <= l[i].virt + l[i].size /\ l[j].virt <= c[j].virt
              /\ c[i].virt \in Nat /\ c[i].size \in Nat /\ c[j].virt \in Nat
              /\ l[i].virt \in Nat /\ l[i].size \in Nat /\ l[j].virt \in Nat
            BY <1>2
        <3> QED
            BY <3>1, <3>2, Between
    <2> QED
        BY <1>2, <1>3, <2>1 DEF InOrder
<1>5. ASSUME NEW x \in Nat
      PROVE  Shows(c, x) = IF Inside(x, v, n) THEN {} ELSE Shows(l, x)
    <2>1. CASE Inside(x, v, n)
        BY <1>2, <1>3, <2>1 DEF Shows
    <2>2. CASE ~Inside(x, v, n)
        <3>1. \A i \in 1 .. m : /\ Covers(c[i], x) <=> Covers(l[i], x)
                                /\ Covers(c[i], x) => Image(c[i], x) = Image(l[i], x)
            BY <1>2, <2>2
        <3> QED
            BY <1>3, <2>2, <3>1 DEF Shows
    <2> QED
        BY <2>1, <2>2
<1>6. Done(NonEmpty(c)).list = NonEmpty(c) /\ Done(NonEmpty(c)).ok = TRUE
    BY DEF Done
<1>7. Proper(NonEmpty(c)) /\ \A x \in Nat : Shows(NonEmpty(c), x) = Shows(c, x)
    BY <1>4, NonEmptyEffect
<1>8. Removed(l, Done(NonEmpty(c)), v, n)
    BY <1>5, <1>6, <1>7 DEF Removed
<1> QED
    BY <1>8 DEF c

\* Translations in order do not overlap.
LEMMA Alone ==
    ASSUME NEW l, InOrder(l), NEW k \in 1 .. Len(l), NEW x \in Nat, Covers(l[k], x)
    PROVE  /\ Shows(l, x) = {Image(l[k], x)}
           /\ \A i \in 1 .. Len(l) : Covers(l[i], x) => i = k
<1>1. ASSUME NEW i \in 1 .. Len(l), Covers(l[i], x), i # k
      PROVE  FALSE
    <2>1. \/ l[i].virt + l[i].size <= l[k].virt
          \/ l[k].virt + l[k].size <= l[i].virt
        <3>1. i < k \/ k < i
            BY <1>1
        <3> QED
            BY <3>1 DEF InOrder
    <2>2. /\ l[i].virt \in Nat /\ l[i].size \in Nat
          /\ l[k].virt \in Nat /\ l[k].size \in Nat
        BY ListFacts
    <2>3. /\ l[i].virt <= x /\ x < l[i].virt + l[i].size
          /\ l[k].virt <= x /\ x < l[k].virt + l[k].size
        BY <1>1 DEF Covers
    <2> QED
        BY <2>1, <2>2, <2>3
<1> QED
    BY <1>1 DEF Shows

\* Other translations take the place of one, inside its pages.
LEMMA Around ==
    ASSUME NEW l, Proper(l), NEW k \in 1 .. Len(l), NEW m, Proper(m),
           Beyond(m, l[k].virt), Below(m, l[k].virt + l[k].size)
    PROVE  /\ Proper(SubSeq(l, 1, k - 1) \o m \o SubSeq(l, k + 1, Len(l)))
           /\ \A x \in Nat : Shows(SubSeq(l, 1, k - 1) \o m \o SubSeq(l, k + 1, Len(l)), x) =
                 Shows(m, x) \union (IF Covers(l[k], x) THEN {} ELSE Shows(l, x))
<1> DEFINE n == Len(l)
           a == SubSeq(l, 1, k - 1)
           b == SubSeq(l, k + 1, n)
           lo == l[k].virt
           hi == l[k].virt + l[k].size
<1>1. n \in Nat /\ InOrder(l) /\ k \in 1 .. n
    BY LenProperties DEF Proper, InOrder
<1>2. l[k].virt \in Nat /\ l[k].size \in Nat /\ lo \in Nat /\ hi \in Nat
    <2>1. l[k].virt \in Nat /\ l[k].size \in Nat
        BY <1>1, ListFacts
    <2>2. \A p, q \in Nat : p + q \in Nat
        OBVIOUS
    <2> QED
        BY <2>1, <2>2
<1>3. /\ k - 1 \in 0 .. n /\ k + 1 \in 1 .. n + 1 /\ n - (k + 1) + 1 = n - k
    BY <1>1
<1>4. /\ InOrder(a) /\ Proper(a) /\ Len(a) = k - 1
      /\ \A i \in 1 .. k - 1 : a[i] = l[i]
      /\ \A x : Shows(a, x) = PartShows(l, 1, k - 1, x)
    BY <1>1, <1>3, Prefix
<1>5. /\ InOrder(b) /\ Proper(b) /\ Len(b) = n - k
      /\ \A i \in 1 .. n - k : b[i] = l[(k + 1) + i - 1]
      /\ \A x : Shows(b, x) = PartShows(l, k + 1, n, x)
    BY <1>1, <1>3, Suffix
<1> HIDE DEF a, b
<1>6. Below(a, lo)
    <2>1. ASSUME NEW i \in 1 .. k - 1
          PROVE  a[i].virt + a[i].size <= lo
        <3>1. i \in 1 .. n /\ i < k
            BY <1>1
        <3>2. a[i] = l[i]
            BY <1>4, <3>1
        <3> QED
            BY <1>1, <3>1, <3>2 DEF InOrder
    <2> QED
        BY <1>4, <2>1 DEF Below
<1>7. Beyond(b, hi)
    <2>1. ASSUME NEW i \in 1 .. n - k
          PROVE  hi <= b[i].virt
        <3>1. (k + 1) + i - 1 = k + i /\ k + i \in 1 .. n /\ k < k + i
            BY <1>1
        <3>2. b[i] = l[k + i]
            BY <1>5, <3>1
        <3> QED
            BY <1>1, <3>1, <3>2 DEF InOrder
    <2> QED
        BY <1>5, <2>1 DEF Beyond
<1> HIDE DEF n
<1>8. /\ InOrder(m) /\ Beyond(m, lo) /\ Below(m, hi)
    BY DEF Proper
<1>9. /\ Proper(a \o m) /\ InOrder(a \o m)
      /\ \A x : Shows(a \o m, x) = Shows(a, x) \union Shows(m, x)
      /\ \A z : Below(a, z) /\ Below(m, z) => Below(a \o m, z)
    <2>1. lo \in Nat
        BY <1>2
    <2> HIDE DEF lo
    <2> QED
        BY <1>4, <1>6, <1>8, <2>1, Joined
<1>10. Below(a \o m, hi)
    <2>1. Below(a, hi)
        <3>1. \A i \in 1 .. Len(a) : a[i].virt \in Nat /\ a[i].size \in Nat
            BY <1>4, ListFacts
        <3>2. \A i \in 1 .. Len(a) : a[i].virt + a[i].size <= lo
            BY <1>6 DEF Below
        <3>3. \A p, q \in Nat : p + q <= lo => p + q <= hi
            BY <1>2
        <3> HIDE DEF lo, hi
        <3> QED
            BY <3>1, <3>2, <3>3 DEF Below
    <2> QED
        BY <1>8, <1>9, <2>1
<1>11. /\ Proper((a \o m) \o b)
       /\ \A x : Shows((a \o m) \o b, x) = Shows(a \o m, x) \union Shows(b, x)
    <2>1. hi \in Nat
        BY <1>2
    <2> HIDE DEF hi
    <2> QED
        BY <1>5, <1>7, <1>9, <1>10, <2>1, Joined
<1>12. ASSUME NEW x \in Nat
       PROVE  Shows(a, x) \union Shows(b, x) = IF Covers(l[k], x) THEN {} ELSE Shows(l, x)
    <2>1. \A i : /\ i \in 1 .. k - 1 => i \in 1 .. n /\ i # k
                 /\ i \in k + 1 .. n => i \in 1 .. n /\ i # k
                 /\ i \in 1 .. n /\ i # k => i \in 1 .. k - 1 \/ i \in k + 1 .. n
        BY <1>1
    <2>2. CASE Covers(l[k], x)
        <3>1. \A i \in 1 .. n : Covers(l[i], x) => i = k
            BY <1>1, <2>2, Alone DEF n
        <3>2. /\ \A i \in 1 .. k - 1 : ~Covers(l[i], x)
              /\ \A i \in k + 1 .. n : ~Covers(l[i], x)
            BY <2>1, <3>1
        <3>3. Shows(a, x) = {} /\ Shows(b, x) = {}
            BY <1>4, <1>5, <3>2 DEF PartShows
        <3> QED
            BY <2>2, <3>3
    <2>3. CASE ~Covers(l[k], x)
        <3>1. Shows(l, x) = {Image(l[i], x) : i \in {j \in 1 .. n : Covers(l[j], x)}}
            BY DEF Shows, n
        <3> QED
            BY <1>4, <1>5, <2>1, <2>3, <3>1 DEF PartShows
    <2> QED
        BY <2>2, <2>3
<1>13. ASSUME NEW x \in Nat
       PROVE  Shows((a \o m) \o b, x)
                 = Shows(m, x) \union (IF Covers(l[k], x) THEN {} ELSE Shows(l, x))
    BY <1>9, <1>11, <1>12
<1> QED
    BY <1>11, <1>13 DEF a, b, n

\* Where the walk ends, nothing has been cut before.
LEMMA CutBefore ==
    ASSUME NEW l, InOrder(l), NEW v \in Nat, NEW n \in Nat, NEW k \in 1 .. Len(l),
           l[k].virt < v
    PROVE  SubSeq([i \in DOMAIN l |-> Cut(l[i], v, n)], 1, k - 1) = SubSeq(l, 1, k - 1)
<1> DEFINE c == [i \in DOMAIN l |-> Cut(l[i], v, n)]
<1>1. Len(l) \in Nat /\ DOMAIN l = 1 .. Len(l)
    BY LenProperties DEF InOrder
<1>2. ASSUME NEW i \in 1 .. k - 1
      PROVE  c[i] = l[i] /\ l[i] \in Elements
    <2>1. i \in 1 .. Len(l) /\ i < k
        BY <1>1
    <2>2. l[i].virt + l[i].size <= l[k].virt
        BY <2>1 DEF InOrder
    <2>3. /\ l[i].virt \in Nat /\ l[i].size \in Nat /\ l[k].virt \in Nat /\ l[i] \in Elements
          /\ l[i].virt + l[i].size < NPages
        BY <2>1, ListFacts
    <2>4. End(l[i]) = l[i].virt + l[i].size
        BY <2>3, NoWrap DEF End
    <2>5. ~StartsIn(l[i], v, n) /\ ~Holds(l[i], v)
        BY <2>2, <2>3, <2>4 DEF StartsIn, Holds
    <2> QED
        BY <1>1, <2>1, <2>3, <2>5 DEF Cut
<1> HIDE DEF c
<1>3. /\ SubSeq(c, 1, k - 1) \in Seq(Elements) /\ Len(SubSeq(c, 1, k - 1)) = k - 1
      /\ \A i \in 1 .. k - 1 : SubSeq(c, 1, k - 1)[i] = c[i]
    <2>1. \A i \in 1 .. k - 1 : c[i] \in Elements
        BY <1>2
    <2>2. /\ SubSeq(c, 1, k - 1) \in Seq(Elements)
          /\ Len(SubSeq(c, 1, k - 1)) = IF 1 <= k - 1 THEN (k - 1) - 1 + 1 ELSE 0
          /\ \A i \in 1 .. (k - 1) - 1 + 1 : SubSeq(c, 1, k - 1)[i] = c[1 + i - 1]
        BY <1>1, <2>1, SubSeqProperties
    <2> QED
        BY <1>1, <2>2
<1>4. /\ SubSeq(l, 1, k - 1) \in Seq(Elements) /\ Len(SubSeq(l, 1, k - 1)) = k - 1
      /\ \A i \in 1 .. k - 1 : SubSeq(l, 1, k - 1)[i] = l[i]
    <2>1. k - 1 \in 0 .. Len(l)
        BY <1>1
    <2> QED
        BY <2>1, Prefix DEF InOrder
<1>5. SubSeq(c, 1, k - 1) = SubSeq(l, 1, k - 1)
    BY <1>2, <1>3, <1>4, SeqEqual
<1> QED
    BY <1>5 DEF c

LEMMA TwoElements ==
    ASSUME NEW a, NEW b
    PROVE  <<a, b>> = <<a>> \o <<b>>
<1> DEFINE S == {a, b}
           s == <<a>>
           t == <<b>>
           u == <<a, b>>
<1>1. /\ s \in Seq(S) /\ Len(s) = 1 /\ s[1] = a
      /\ t \in Seq(S) /\ Len(t) = 1 /\ t[1] = b
      /\ u \in Seq(S) /\ Len(u) = 2 /\ u[1] = a /\ u[2] = b
    OBVIOUS
<1> HIDE DEF s, t, u, S
<1>2. /\ s \o t \in Seq(S) /\ Len(s \o t) = 2
      /\ (s \o t)[1] = a /\ (s \o t)[2] = b
    BY <1>1, ConcatProperties
<1>3. u = s \o t
    <2>1. \A i \in 1 .. 2 : u[i] = (s \o t)[i]
        BY <1>1, <1>2
    <2> QED
        BY <1>1, <1>2, <2>1, SeqEqual
<1> QED
    BY <1>3 DEF s, t, u

\* The parts of one translation around a region inside it.
Parts(t, v, n) == IF Splits(t, v, n) THEN Pieces(t, v, n) ELSE <<[t EXCEPT !.size = WrapPage(@ - n)]>>

LEMMA PiecesEffect ==
    ASSUME NEW t, Fits(t), NEW v \in Nat, NEW n \in Nat, n > 0, v + n < NPages,
           EndsTheWalk(t, v, n)
    PROVE  /\ Proper(Parts(t, v, n)) /\ Beyond(Parts(t, v, n), t.virt)
           /\ Below(Parts(t, v, n), t.virt + t.size)
           /\ \A x \in Nat : /\ Inside(x, v, n) => Covers(t, x)
                             /\ Shows(Parts(t, v, n), x) =
                                   IF Inside(x, v, n) \/ ~Covers(t, x) THEN {} ELSE {Image(t, x)}
<1> DEFINE m == Parts(t, v, n)
           tv == t.virt
           ts == t.size
           tp == t.phys
           low == [t EXCEPT !.size = v - tv]
           over == v + n - tv
           high == [t EXCEPT !.virt = v + n, !.size = ts - over, !.phys = tp + over]
<1>1. /\ tv \in Nat /\ ts \in Nat /\ tp \in Nat /\ t.mode \in Modes
      /\ tv + ts < NPages /\ tp + ts < NPages /\ NPages \in Nat
      /\ t \in [virt : Nat, size : Nat, phys : Nat, mode : Modes]
    BY FitsFacts, NoWrap DEF Fits
<1>2. End(t) = tv + ts /\ WrapPage(v + n) = v + n
    BY <1>1, NoWrap DEF End
<1>3. tv < v /\ v < tv + ts /\ v + n <= tv + ts
    BY <1>2 DEF EndsTheWalk, Holds
<1>4. /\ Fits(low) /\ low.virt = tv /\ low.size = v - tv /\ low.size > 0
      /\ low.phys = tp /\ low.mode = t.mode
    BY <1>1, <1>3 DEF Fits
<1> HIDE DEF m, tv, ts, tp, low, high
<1>5. ASSUME NEW x \in Nat
      PROVE  /\ Covers(low, x) <=> tv <= x /\ x < v
             /\ Covers(t, x) <=> tv <= x /\ x < tv + ts
             /\ Inside(x, v, n) => Covers(t, x)
             /\ Image(low, x) = Image(t, x)
    <2>1. Covers(low, x) <=> tv <= x /\ x < v
        BY <1>1, <1>3, <1>4 DEF Covers
    <2>2. Covers(t, x) <=> tv <= x /\ x < tv + ts
        BY DEF Covers, tv, ts
    <2>3. Image(low, x) = Image(t, x)
        BY <1>4 DEF Image, tv, tp
    <2>4. Inside(x, v, n) => Covers(t, x)
        BY <1>1, <1>3, <2>2 DEF Inside
    <2> QED
        BY <2>1, <2>2, <2>3, <2>4
<1>6. /\ Proper(<<low>>) /\ Beyond(<<low>>, tv) /\ Below(<<low>>, v) /\ Below(<<low>>, tv + ts)
      /\ \A x : Shows(<<low>>, x) = IF Covers(low, x) THEN {Image(low, x)} ELSE {}
    <2>1. low.virt + low.size <= v /\ low.virt + low.size <= tv + ts /\ tv <= low.virt
        BY <1>1, <1>3, <1>4
    <2> QED
        BY <1>4, <2>1, OneElement
<1>7. CASE ~Splits(t, v, n)
    <2>1. v + n = tv + ts
        BY <1>1, <1>2, <1>3, <1>7 DEF Splits
    <2>2. m = <<low>>
        <3>1. ts - n = v - tv /\ v - tv \in Nat /\ v - tv < NPages
            BY <1>1, <1>3, <2>1
        <3>2. WrapPage(ts - n) = v - tv
            BY <3>1, NoWrap
        <3> QED
            BY <1>7, <3>2 DEF m, Parts, low, ts
    <2>3. ASSUME NEW x \in Nat
          PROVE  Shows(m, x) = IF Inside(x, v, n) \/ ~Covers(t, x) THEN {} ELSE {Image(t, x)}
        <3>1. Covers(low, x) <=> ~(Inside(x, v, n) \/ ~Covers(t, x))
            BY <1>1, <1>3, <1>5, <2>1 DEF Inside
        <3> QED
            BY <1>5, <1>6, <2>2, <3>1
    <2> QED
        BY <1>5, <1>6, <2>2, <2>3 DEF m, tv, ts
<1>8. CASE Splits(t, v, n)
    <2>1. v + n < tv + ts
        BY <1>2, <1>8 DEF Splits
    <2>2. /\ over \in Nat /\ over < ts /\ ts - over \in Nat /\ ts - over < NPages
          /\ tv + over = v + n /\ (tv + ts) - (v + n) = ts - over
          /\ tp + over \in Nat /\ tp + over < NPages
          /\ tp + ts - (ts - over) = tp + over /\ ts - (ts - over) - n = v - tv
          /\ v - tv \in Nat /\ v - tv < NPages
        BY <1>1, <1>3, <2>1
    <2>3. /\ WrapPage(ts - over) = ts - over /\ WrapPage(tp + over) = tp + over
          /\ WrapPage(v - tv) = v - tv
        BY <2>2, NoWrap
    <2>4. m = <<low, high>>
        <3> HIDE DEF over
        <3>1. WrapPage(End(t) - (v + n)) = ts - over
            BY <1>2, <2>2, <2>3
        <3>2. m = <<[t EXCEPT !.size = WrapPage(ts - (ts - over) - n)],
                    [t EXCEPT !.virt = v + n, !.size = ts - over,
                              !.phys = WrapPage(tp + ts - (ts - over))]>>
            BY <1>2, <1>8, <3>1 DEF m, Parts, Pieces, ts, tp
        <3> QED
            BY <2>2, <2>3, <3>2 DEF low, high
    <2>5. /\ high.virt = v + n /\ high.size = ts - over /\ high.phys = tp + over
          /\ high.mode = t.mode /\ high \in [virt : Nat, size : Nat, phys : Nat, mode : Modes]
        <3>1. v + n \in Nat /\ ts - over \in Nat /\ tp + over \in Nat
            BY <2>2
        <3> HIDE DEF over
        <3> QED
            BY <1>1, <3>1 DEF high
    <2>6. Fits(high) /\ high.size > 0 /\ high.virt + high.size = tv + ts
        <3>1. high.virt + high.size = tv + ts /\ high.phys + high.size = tp + ts /\ high.size > 0
            BY <1>1, <2>2, <2>5
        <3> QED
            BY <1>1, <2>5, <3>1 DEF Fits
    <2>7. /\ Proper(<<high>>) /\ Beyond(<<high>>, v) /\ Beyond(<<high>>, tv)
          /\ Below(<<high>>, tv + ts)
          /\ \A x : Shows(<<high>>, x) = IF Covers(high, x) THEN {Image(high, x)} ELSE {}
        <3>1. v <= high.virt /\ tv <= high.virt /\ high.virt + high.size <= tv + ts
            BY <1>1, <1>3, <2>5, <2>6
        <3> QED
            BY <2>6, <3>1, OneElement
    <2>8. /\ Proper(<<low>> \o <<high>>)
          /\ \A x : Shows(<<low>> \o <<high>>, x) = Shows(<<low>>, x) \union Shows(<<high>>, x)
          /\ Beyond(<<low>> \o <<high>>, tv) /\ Below(<<low>> \o <<high>>, tv + ts)
        <3>1. InOrder(<<low>>) /\ InOrder(<<high>>)
            BY <1>6, <2>7 DEF Proper
        <3>2. /\ Proper(<<low>> \o <<high>>)
              /\ \A x : Shows(<<low>> \o <<high>>, x) = Shows(<<low>>, x) \union Shows(<<high>>, x)
              /\ \A z : Below(<<low>>, z) /\ Below(<<high>>, z) => Below(<<low>> \o <<high>>, z)
              /\ \A z : Beyond(<<low>>, z) /\ Beyond(<<high>>, z) => Beyond(<<low>> \o <<high>>, z)
            BY <1>6, <2>7, <3>1, Joined
        <3> QED
            BY <1>6, <2>7, <3>2
    <2>9. m = <<low>> \o <<high>>
        BY <2>4, TwoElements
    <2>10. ASSUME NEW x \in Nat
           PROVE  Shows(m, x) = IF Inside(x, v, n) \/ ~Covers(t, x) THEN {} ELSE {Image(t, x)}
        <3>1. Covers(high, x) <=> v + n <= x /\ x < tv + ts
            BY <2>5, <2>6 DEF Covers
        <3>2. Image(high, x) = Image(t, x)
            <4>1. high.phys + x - high.virt = tp + x - tv
                BY <1>1, <2>2, <2>5
            <4> QED
                BY <2>5, <4>1 DEF Image, tv, tp
        <3>3. Covers(low, x) \/ Covers(high, x) <=> ~(Inside(x, v, n) \/ ~Covers(t, x))
            BY <1>1, <1>3, <1>5, <2>1, <3>1 DEF Inside
        <3> QED
            BY <1>5, <1>6, <2>7, <2>8, <2>9, <3>2, <3>3
    <2> QED
        BY <1>5, <2>8, <2>9, <2>10 DEF m, tv, ts
<1> QED
    BY <1>7, <1>8

LEMMA RemoveEffect ==
    ASSUME NEW l, Proper(l), NEW v \in Nat, NEW n \in Nat, v + n < NPages, AllReach(l, v, n),
           NEW mem
    PROVE  /\ Removed(l, remove_translation(l, v, n, "split" \in mem), v, n)
           /\ "split" \in mem => remove_translation(l, v, n, "split" \in mem).ok
<1> DEFINE r == remove_translation(l, v, n, "split" \in mem)
           stops == {i \in DOMAIN l : EndsTheWalk(l[i], v, n)}
           k == CHOOSE i \in stops : \A j \in stops : i <= j
           cut == [i \in DOMAIN l |-> Cut(l[i], v, n)]
           before == SubSeq(cut, 1, k - 1)
           after == SubSeq(l, k + 1, Len(l))
<1>1. Len(l) \in Nat /\ DOMAIN l = 1 .. Len(l) /\ l \in Seq(Elements) /\ InOrder(l)
    BY LenProperties DEF Proper, InOrder
<1>2. \A a : /\ Done(a).list = a /\ Done(a).ok = TRUE
             /\ Failed(a).list = a /\ Failed(a).ok = FALSE
    BY DEF Done, Failed
<1>3. CASE n = 0
    <2>1. r = Done(l)
        BY <1>3 DEF remove_translation
    <2>2. \A x \in Nat : ~Inside(x, v, n)
        BY <1>3 DEF Inside
    <2> HIDE DEF r
    <2> QED
        BY <1>2, <2>1, <2>2 DEF Removed, r
<1>4. CASE n # 0 /\ stops = {}
    <2>1. r = Done(NonEmpty(cut))
        BY <1>4 DEF remove_translation
    <2>2. \A i \in 1 .. Len(l) : ~EndsTheWalk(l[i], v, n)
        BY <1>1, <1>4
    <2>3. n > 0
        BY <1>4
    <2>4. Removed(l, Done(NonEmpty(cut)), v, n)
        BY <2>2, <2>3, CutAll
    <2> HIDE DEF r, cut
    <2> QED
        BY <1>2, <2>1, <2>4 DEF r
<1>5. CASE n # 0 /\ stops # {}
    <2>1. k \in stops
        <3>1. stops \subseteq Nat
            BY <1>1
        <3>2. \E i \in stops : \A j \in stops : i <= j
            <4> HIDE DEF stops
            <4> QED
                BY <1>5, <3>1, Least
        <3> HIDE DEF stops
        <3> QED
            BY <3>2
    <2>2. k \in 1 .. Len(l) /\ EndsTheWalk(l[k], v, n)
        BY <1>1, <2>1
    <2>3. r = IF ~Splits(l[k], v, n)
              THEN Done(before \o <<[l[k] EXCEPT !.size = WrapPage(@ - n)]>> \o after)
              ELSE IF "split" \in mem THEN Done(before \o Pieces(l[k], v, n) \o after)
              ELSE Failed(before \o <<l[k]>> \o after)
        BY <1>5 DEF remove_translation
    <2> HIDE DEF k, r
    <2>4. Fits(l[k]) /\ l[k].size > 0 /\ l[k].virt \in Nat /\ l[k].size \in Nat /\ n > 0
        BY <1>1, <1>5, <2>2, ListFacts DEF Proper, InOrder
    <2>5. l[k].virt < v
        BY <2>2 DEF EndsTheWalk, Holds
    <2>6. before = SubSeq(l, 1, k - 1)
        BY <1>1, <2>2, <2>5, CutBefore
    <2> HIDE DEF before, after, cut, stops
    <2> DEFINE part == Parts(l[k], v, n)
    <2>7. CASE Splits(l[k], v, n) /\ "split" \notin mem
        <3>1. r = Failed(before \o <<l[k]>> \o after)
            BY <2>3, <2>7
        <3>2. /\ Proper(<<l[k]>>) /\ Beyond(<<l[k]>>, l[k].virt)
              /\ Below(<<l[k]>>, l[k].virt + l[k].size)
              /\ \A x : Shows(<<l[k]>>, x) = IF Covers(l[k], x) THEN {Image(l[k], x)} ELSE {}
            <4>1. l[k].virt <= l[k].virt /\ l[k].virt + l[k].size <= l[k].virt + l[k].size
                BY <2>4
            <4> QED
                BY <2>4, <4>1, OneElement
        <3>3. /\ Proper(SubSeq(l, 1, k - 1) \o <<l[k]>> \o SubSeq(l, k + 1, Len(l)))
              /\ \A x \in Nat : Shows(SubSeq(l, 1, k - 1) \o <<l[k]>> \o SubSeq(l, k + 1, Len(l)), x)
                     = Shows(<<l[k]>>, x) \union (IF Covers(l[k], x) THEN {} ELSE Shows(l, x))
            BY <2>2, <3>2, Around
        <3>4. r.ok = FALSE /\ r.list = SubSeq(l, 1, k - 1) \o <<l[k]>> \o SubSeq(l, k + 1, Len(l))
            BY <1>2, <2>6, <3>1 DEF after
        <3>5. ASSUME NEW x \in Nat
              PROVE  Shows(r.list, x) = Shows(l, x)
            <4>1. CASE Covers(l[k], x)
                <5>1. Shows(l, x) = {Image(l[k], x)}
                    BY <1>1, <2>2, <4>1, Alone
                <5> QED
                    BY <3>2, <3>3, <3>4, <4>1, <5>1
            <4>2. CASE ~Covers(l[k], x)
                BY <3>2, <3>3, <3>4, <4>2
            <4> QED
                BY <4>1, <4>2
        <3> QED
            BY <2>7, <3>3, <3>4, <3>5 DEF Removed, r
    <2>8. CASE ~Splits(l[k], v, n) \/ "split" \in mem
        <3>1. r = Done(before \o part \o after)
            BY <2>3, <2>8 DEF Parts
        <3>2. /\ Proper(part) /\ Beyond(part, l[k].virt) /\ Below(part, l[k].virt + l[k].size)
              /\ \A x \in Nat : /\ Inside(x, v, n) => Covers(l[k], x)
                                /\ Shows(part, x) = IF Inside(x, v, n) \/ ~Covers(l[k], x) THEN {}
                                                    ELSE {Image(l[k], x)}
            <4>1. PICK t : t = l[k]
                OBVIOUS
            <4>2. Fits(t) /\ n > 0 /\ EndsTheWalk(t, v, n)
                BY <2>2, <2>4, <4>1
            <4>3. /\ Proper(Parts(t, v, n)) /\ Beyond(Parts(t, v, n), t.virt)
                  /\ Below(Parts(t, v, n), t.virt + t.size)
                  /\ \A x \in Nat : /\ Inside(x, v, n) => Covers(t, x)
                                    /\ Shows(Parts(t, v, n), x) =
                                          IF Inside(x, v, n) \/ ~Covers(t, x) THEN {}
                                          ELSE {Image(t, x)}
                BY <4>2, PiecesEffect
            <4> QED
                BY <4>1, <4>3
        <3> HIDE DEF part
        <3>3. /\ Proper(SubSeq(l, 1, k - 1) \o part \o SubSeq(l, k + 1, Len(l)))
              /\ \A x \in Nat : Shows(SubSeq(l, 1, k - 1) \o part \o SubSeq(l, k + 1, Len(l)), x)
                     = Shows(part, x) \union (IF Covers(l[k], x) THEN {} ELSE Shows(l, x))
            BY <2>2, <3>2, Around
        <3>4. r.ok = TRUE /\ r.list = SubSeq(l, 1, k - 1) \o part \o SubSeq(l, k + 1, Len(l))
            BY <1>2, <2>6, <3>1 DEF after
        <3>5. ASSUME NEW x \in Nat
              PROVE  Shows(r.list, x) = IF Inside(x, v, n) THEN {} ELSE Shows(l, x)
            <4>1. CASE Covers(l[k], x)
                <5>1. Shows(l, x) = {Image(l[k], x)}
                    BY <1>1, <2>2, <4>1, Alone
                <5> QED
                    BY <3>2, <3>3, <3>4, <4>1, <5>1
            <4>2. CASE ~Covers(l[k], x)
                BY <3>2, <3>3, <3>4, <4>2
            <4> QED
                BY <4>1, <4>2
        <3> QED
            BY <3>3, <3>4, <3>5 DEF Removed, r
    <2> QED
        BY <2>7, <2>8
<1> QED
    BY <1>3, <1>4, <1>5

-----------------------------------------------------------------------------
(* add_translation. *)

LEMMA FrontAndLast ==
    ASSUME NEW a, a \in Seq(Elements), NEW e \in Elements
    PROVE  Front(a \o <<e>>) = a /\ Last(a \o <<e>>) = e
<1> DEFINE n == Len(a)
           s == a \o <<e>>
<1>1. /\ n \in Nat /\ <<e>> \in Seq(Elements) /\ Len(<<e>>) = 1 /\ <<e>>[1] = e
      /\ \A i \in 1 .. n : a[i] \in Elements
    BY LenProperties, ElementOfSeq
<1>2. /\ s \in Seq(Elements) /\ Len(s) = n + 1
      /\ \A i \in 1 .. n + 1 : s[i] = IF i <= n THEN a[i] ELSE <<e>>[i - n]
    BY <1>1, ConcatProperties
<1>3. /\ s[n + 1] = e /\ \A i \in 1 .. n : s[i] = a[i] /\ s[i] \in Elements
    <2>1. n + 1 \in 1 .. n + 1 /\ ~(n + 1 <= n) /\ (n + 1) - n = 1
        BY <1>1
    <2>2. \A i \in 1 .. n : i \in 1 .. n + 1 /\ i <= n
        BY <1>1
    <2> HIDE DEF n, s
    <2> QED
        BY <1>1, <1>2, <2>1, <2>2
<1> HIDE DEF s
<1>4. /\ SubSeq(s, 1, n) \in Seq(Elements) /\ Len(SubSeq(s, 1, n)) = n
      /\ \A i \in 1 .. n : SubSeq(s, 1, n)[i] = s[i]
    <2>1. n - 1 + 1 = n /\ (1 <= n \/ n = 0) /\ 1 \in Int /\ n \in Int
          /\ \A i \in 1 .. n : 1 + i - 1 = i
        BY <1>1
    <2> HIDE DEF n
    <2>2. /\ SubSeq(s, 1, n) \in Seq(Elements)
          /\ Len(SubSeq(s, 1, n)) = IF 1 <= n THEN n - 1 + 1 ELSE 0
          /\ \A i \in 1 .. n - 1 + 1 : SubSeq(s, 1, n)[i] = s[1 + i - 1]
        BY <1>3, <2>1, SubSeqProperties
    <2> QED
        BY <2>1, <2>2
<1>5. SubSeq(s, 1, n) = a
    BY <1>3, <1>4, SeqEqual
<1>6. Len(s) - 1 = n
    BY <1>1, <1>2
<1> QED
    BY <1>2, <1>3, <1>5, <1>6 DEF s, Front, Last

LEMMA Ends ==
    ASSUME NEW l, Proper(l), l # <<>>
    PROVE  /\ Proper(Front(l)) /\ Fits(Last(l)) /\ Last(l).size > 0
           /\ Below(Front(l), Last(l).virt)
           /\ \A y : Below(l, y) => Last(l).virt + Last(l).size <= y
           /\ l = Front(l) \o <<Last(l)>>
           /\ \A x : Shows(l, x) = Shows(Front(l), x) \union Shows(<<Last(l)>>, x)
<1> DEFINE n == Len(l)
<1>1. /\ InOrder(l) /\ l \in Seq(Elements) /\ n \in Nat /\ n # 0 /\ n \in 1 .. n
      /\ n - 1 \in 0 .. n /\ \A i \in 1 .. n - 1 : i \in 1 .. n /\ i < n
    BY LenProperties, EmptySeq DEF Proper, InOrder
<1>2. Front(l) = SubSeq(l, 1, n - 1) /\ Last(l) = l[n]
    BY DEF Front, Last
<1>3. /\ Fits(l[n]) /\ l[n].size > 0 /\ l[n] \in Elements /\ l[n].virt \in Nat
    BY <1>1, ListFacts DEF Proper
<1>4. /\ InOrder(Front(l)) /\ Proper(Front(l)) /\ Len(Front(l)) = n - 1
      /\ \A i \in 1 .. n - 1 : Front(l)[i] = l[i]
    BY <1>1, <1>2, Prefix
<1>5. Below(Front(l), l[n].virt)
    BY <1>1, <1>4 DEF Below, InOrder
<1>6. Proper(<<l[n]>>) /\ Beyond(<<l[n]>>, l[n].virt)
    <2>1. l[n].virt <= l[n].virt
        BY <1>3
    <2> QED
        BY <1>3, <2>1, OneElement
<1>7. l = Front(l) \o <<l[n]>>
    <2>1. SubSeq(l, 1, n) = SubSeq(l, 1, n - 1) \o <<l[n]>>
        BY <1>1, SubSeqRecursiveSecond
    <2>2. SubSeq(l, 1, n) = l
        BY <1>1, SubSeqFull
    <2> QED
        BY <1>2, <2>1, <2>2
<1>8. \A x : Shows(Front(l) \o <<l[n]>>, x) = Shows(Front(l), x) \union Shows(<<l[n]>>, x)
    <2>1. InOrder(<<l[n]>>)
        BY <1>6 DEF Proper
    <2> QED
        BY <1>3, <1>4, <1>5, <1>6, <2>1, Joined
<1>9. \A y : Below(l, y) => l[n].virt + l[n].size <= y
    BY <1>1 DEF Below
<1> QED
    BY <1>2, <1>3, <1>4, <1>5, <1>7, <1>8, <1>9

LEMMA Begins ==
    ASSUME NEW l, Proper(l), l # <<>>
    PROVE  /\ Proper(Tail(l)) /\ Fits(Head(l)) /\ Head(l).size > 0
           /\ Beyond(Tail(l), Head(l).virt + Head(l).size)
           /\ \A y : Beyond(l, y) => y <= Head(l).virt
           /\ l = <<Head(l)>> \o Tail(l)
           /\ \A x : Shows(l, x) = Shows(<<Head(l)>>, x) \union Shows(Tail(l), x)
<1> DEFINE n == Len(l)
           y == l[1].virt + l[1].size
<1>1. /\ InOrder(l) /\ l \in Seq(Elements) /\ n \in Nat /\ n # 0 /\ 1 \in 1 .. n
      /\ 1 + 1 = 2 /\ 2 \in 1 .. n + 1 /\ n - 2 + 1 = n - 1 /\ n \in 1 .. n
      /\ \A i \in 1 .. n - 1 : 2 + i - 1 = i + 1 /\ i + 1 \in 1 .. n /\ 1 < i + 1
    BY LenProperties, EmptySeq DEF Proper, InOrder
<1>2. Tail(l) = SubSeq(l, 2, n) /\ Head(l) = l[1]
    BY <1>1, TailIsSubSeq
<1>3. /\ Fits(l[1]) /\ l[1].size > 0 /\ l[1] \in Elements /\ l[1].virt \in Nat
      /\ l[1].size \in Nat
    BY <1>1, ListFacts DEF Proper
<1>4. /\ InOrder(Tail(l)) /\ Proper(Tail(l)) /\ Len(Tail(l)) = n - 1
      /\ \A i \in 1 .. n - 1 : Tail(l)[i] = l[i + 1]
    <2>1. /\ InOrder(SubSeq(l, 2, n)) /\ (Proper(l) => Proper(SubSeq(l, 2, n)))
          /\ Len(SubSeq(l, 2, n)) = n - 2 + 1
          /\ \A i \in 1 .. n - 2 + 1 : SubSeq(l, 2, n)[i] = l[2 + i - 1]
        BY <1>1, Suffix
    <2> HIDE DEF n
    <2> QED
        BY <1>1, <1>2, <2>1
<1>5. Beyond(Tail(l), y)
    BY <1>1, <1>4 DEF Beyond, InOrder
<1>6. Proper(<<l[1]>>) /\ Below(<<l[1]>>, y) /\ y \in Nat
    <2>1. y <= y /\ y \in Nat
        BY <1>3
    <2> QED
        BY <1>3, <2>1, OneElement
<1>7. l = <<l[1]>> \o Tail(l)
    <2>1. SubSeq(l, 1, n) = <<l[1]>> \o SubSeq(l, 2, n)
        BY <1>1, SubSeqRecursiveFirst
    <2>2. SubSeq(l, 1, n) = l
        BY <1>1, SubSeqFull
    <2> QED
        BY <1>2, <2>1, <2>2
<1>8. \A x : Shows(<<l[1]>> \o Tail(l), x) = Shows(<<l[1]>>, x) \union Shows(Tail(l), x)
    <2>1. InOrder(<<l[1]>>)
        BY <1>6 DEF Proper
    <2> HIDE DEF y
    <2> QED
        BY <1>4, <1>5, <1>6, <2>1, Joined
<1>9. \A z : Beyond(l, z) => z <= l[1].virt
    BY <1>1 DEF Beyond
<1> QED
    BY <1>2, <1>3, <1>4, <1>5, <1>7, <1>8, <1>9

\* Two translations that adjoin, as one.
Both(t, u) == [t EXCEPT !.size = @ + u.size]
\* What one translation shows.
Image1(t, x) == IF Covers(t, x) THEN {Image(t, x)} ELSE {}

LEMMA ShowsOne ==
    ASSUME NEW t, Fits(t), t.size > 0
    PROVE  /\ Proper(<<t>>) /\ InOrder(<<t>>) /\ t \in Elements
           /\ Beyond(<<t>>, t.virt) /\ Below(<<t>>, t.virt + t.size)
           /\ t.virt \in Nat /\ t.virt + t.size \in Nat /\ t.virt < t.virt + t.size
           /\ \A x : Shows(<<t>>, x) = Image1(t, x)
<1>1. t.virt \in Nat /\ t.size \in Nat /\ t \in Elements
    BY FitsFacts
<1>2. t.virt <= t.virt /\ t.virt + t.size <= t.virt + t.size
    BY <1>1
<1> QED
    <2>1. /\ Proper(<<t>>) /\ Beyond(<<t>>, t.virt) /\ Below(<<t>>, t.virt + t.size)
          /\ \A x : Shows(<<t>>, x) = Image1(t, x)
        BY <1>2, OneElement DEF Image1
    <2>2. t.virt + t.size \in Nat /\ t.virt < t.virt + t.size
        BY <1>1
    <2> QED
        BY <1>1, <2>1, <2>2 DEF Proper

LEMMA MergeEffect ==
    ASSUME NEW t, Fits(t), NEW u, Fits(u), Adjoin(t, u), t.size > 0
    PROVE  /\ Merged(t, u) = <<Both(t, u)>>
           /\ Fits(Both(t, u)) /\ Both(t, u).size > 0 /\ Both(t, u).virt = t.virt
           /\ Both(t, u).virt + Both(t, u).size = u.virt + u.size
           /\ \A x \in Nat : Image1(Both(t, u), x) = Image1(t, x) \union Image1(u, x)
<1> DEFINE m == Both(t, u)
           tv == t.virt
           ts == t.size
           tp == t.phys
           us == u.size
<1>1. /\ tv \in Nat /\ ts \in Nat /\ tp \in Nat /\ t.mode \in Modes
      /\ tv + ts < NPages /\ tp + ts < NPages /\ NPages \in Nat
      /\ t \in [virt : Nat, size : Nat, phys : Nat, mode : Modes]
      /\ u.virt \in Nat /\ us \in Nat /\ u.phys \in Nat
      /\ u.virt + us < NPages /\ u.phys + us < NPages
    BY FitsFacts, NoWrap DEF Fits
<1>2. u.virt = tv + ts /\ u.phys = tp + ts /\ u.mode = t.mode
    <2>1. WrapPage(tv + ts) = tv + ts /\ WrapPage(tp + ts) = tp + ts
        BY <1>1, NoWrap
    <2> QED
        BY <2>1 DEF Adjoin
<1>3. /\ m.virt = tv /\ m.size = ts + us /\ m.phys = tp /\ m.mode = t.mode
      /\ m \in [virt : Nat, size : Nat, phys : Nat, mode : Modes]
    BY <1>1 DEF Both
<1>4. Merged(t, u) = <<m>>
    <2>1. ts + us \in Nat /\ ts + us < NPages
        BY <1>1, <1>2
    <2>2. WrapPage(t.size + u.size) = t.size + u.size
        BY <2>1, NoWrap
    <2> QED
        BY <2>2 DEF Merged, Both
<1> HIDE DEF m, tv, ts, tp, us
<1>5. m.virt + m.size = u.virt + us /\ m.phys + m.size = u.phys + us /\ m.size > 0
    BY <1>1, <1>2, <1>3 DEF ts
<1>6. Fits(m)
    BY <1>1, <1>3, <1>5 DEF Fits
<1>7. ASSUME NEW x \in Nat
      PROVE  Image1(m, x) = Image1(t, x) \union Image1(u, x)
    <2>1. Covers(t, x) <=> tv <= x /\ x < tv + ts
        BY DEF Covers, tv, ts
    <2>2. Covers(u, x) <=> tv + ts <= x /\ x < (tv + ts) + us
        BY <1>2 DEF Covers, us
    <2>3. Covers(m, x) <=> tv <= x /\ x < tv + (ts + us)
        BY <1>3 DEF Covers
    <2>4. Covers(m, x) <=> Covers(t, x) \/ Covers(u, x)
        BY <1>1, <2>1, <2>2, <2>3
    <2>5. Image(m, x) = Image(t, x)
        BY <1>3 DEF Image, tv, tp
    <2>6. Image(u, x) = Image(t, x)
        <3>1. u.phys + x - u.virt = tp + x - tv
            BY <1>1, <1>2
        <3> QED
            BY <1>2, <3>1 DEF Image, tv, tp
    <2> QED
        BY <2>4, <2>5, <2>6 DEF Image1
<1> QED
    BY <1>3, <1>4, <1>5, <1>6, <1>7 DEF m, tv, us

\* Joining two lists, as a fact about proper ones.
LEMMA JoinedProper ==
    ASSUME NEW a, NEW b, Proper(a), Proper(b), NEW y \in Nat, Below(a, y), Beyond(b, y)
    PROVE  /\ Proper(a \o b)
           /\ \A x : Shows(a \o b, x) = Shows(a, x) \union Shows(b, x)
           /\ \A z : Below(a, z) /\ Below(b, z) => Below(a \o b, z)
           /\ \A z : Beyond(a, z) /\ Beyond(b, z) => Beyond(a \o b, z)
BY Joined DEF Proper

LEMMA ListKind ==
    ASSUME NEW l, Proper(l)
    PROVE  l \in Seq(Elements) /\ InOrder(l)
BY DEF Proper, InOrder

\* The list up to the new translation, which may have been merged with the one
\* before it.
LEMMA LowEffect ==
    ASSUME NEW l, Proper(l), NEW t, Fits(t), t.size > 0, Below(l, t.virt)
    PROVE  /\ Proper(Front(MergedWithLast(l, t)))
           /\ Fits(Last(MergedWithLast(l, t))) /\ Last(MergedWithLast(l, t)).size > 0
           /\ Below(Front(MergedWithLast(l, t)), Last(MergedWithLast(l, t)).virt)
           /\ Last(MergedWithLast(l, t)).virt + Last(MergedWithLast(l, t)).size = t.virt + t.size
           /\ \A x \in Nat : Shows(Front(MergedWithLast(l, t)), x)
                               \union Image1(Last(MergedWithLast(l, t)), x)
                             = Shows(l, x) \union Image1(t, x)
<1> DEFINE low == MergedWithLast(l, t)
           e == Last(l)
<1>1. t \in Elements /\ l \in Seq(Elements)
    BY ShowsOne, ListKind
<1>2. CASE l = <<>> \/ ~Adjoin(e, t)
    <2>1. low = l \o <<t>>
        <3>1. CASE l = <<>>
            <4>1. low = <<t>>
                BY <3>1 DEF MergedWithLast
            <4>2. <<t>> \in Seq(Elements)
                BY <1>1
            <4>3. <<>> \o <<t>> = <<t>>
                BY <4>2, ConcatEmptySeq
            <4> QED
                BY <3>1, <4>1, <4>3
        <3>2. CASE l # <<>>
            <4>1. l = Front(l) \o <<e>> /\ Proper(Front(l)) /\ Fits(e) /\ e.size > 0
                BY <3>2, Ends
            <4>2. e \in Elements /\ Front(l) \in Seq(Elements)
                BY <4>1, ShowsOne, ListKind
            <4>3. low = Front(l) \o <<e, t>>
                BY <1>2, <3>2 DEF MergedWithLast, Merged
            <4>4. <<e, t>> = <<e>> \o <<t>>
                BY TwoElements
            <4>5. <<e>> \in Seq(Elements) /\ <<t>> \in Seq(Elements)
                BY <1>1, <4>2
            <4>6. (Front(l) \o <<e>>) \o <<t>> = Front(l) \o (<<e>> \o <<t>>)
                BY <4>2, <4>5, ConcatAssociative
            <4> QED
                BY <4>1, <4>3, <4>4, <4>6
        <3> QED
            BY <3>1, <3>2
    <2>2. Front(low) = l /\ Last(low) = t
        BY <1>1, <2>1, FrontAndLast
    <2> HIDE DEF low
    <2> QED
        BY <2>2 DEF low
<1>3. CASE l # <<>> /\ Adjoin(e, t)
    <2>1. /\ Proper(Front(l)) /\ Fits(e) /\ e.size > 0
          /\ Below(Front(l), e.virt)
          /\ \A x : Shows(l, x) = Shows(Front(l), x) \union Shows(<<e>>, x)
        BY <1>3, Ends
    <2>2. /\ Merged(e, t) = <<Both(e, t)>>
          /\ Fits(Both(e, t)) /\ Both(e, t).size > 0 /\ Both(e, t).virt = e.virt
          /\ Both(e, t).virt + Both(e, t).size = t.virt + t.size
          /\ \A x \in Nat : Image1(Both(e, t), x) = Image1(e, x) \union Image1(t, x)
        BY <1>3, <2>1, MergeEffect
    <2>3. low = Front(l) \o <<Both(e, t)>>
        BY <1>3, <2>2 DEF MergedWithLast
    <2>4. Both(e, t) \in Elements /\ Front(l) \in Seq(Elements)
        BY <2>1, <2>2, ShowsOne, ListKind
    <2>5. Front(low) = Front(l) /\ Last(low) = Both(e, t)
        BY <2>3, <2>4, FrontAndLast
    <2>6. \A x : Shows(<<e>>, x) = Image1(e, x)
        BY <2>1, ShowsOne
    <2> HIDE DEF low, e
    <2>7. ASSUME NEW x \in Nat
          PROVE  Shows(Front(low), x) \union Image1(Last(low), x) = Shows(l, x) \union Image1(t, x)
        BY <2>1, <2>2, <2>5, <2>6
    <2>8. /\ Proper(Front(low)) /\ Fits(Last(low)) /\ Last(low).size > 0
          /\ Below(Front(low), Last(low).virt) /\ Last(low).virt + Last(low).size = t.virt + t.size
        BY <2>1, <2>2, <2>5
    <2> QED
        BY <2>7, <2>8 DEF low
<1> QED
    BY <1>2, <1>3

\* The list from the new translation on.
LEMMA HighEffect ==
    ASSUME NEW l, Proper(l), NEW t, Fits(t), t.size > 0, Beyond(l, t.virt + t.size)
    PROVE  /\ Proper(MergedWithFirst(t, l)) /\ Beyond(MergedWithFirst(t, l), t.virt)
           /\ \A x \in Nat : Shows(MergedWithFirst(t, l), x) = Image1(t, x) \union Shows(l, x)
<1> DEFINE high == MergedWithFirst(t, l)
           h == Head(l)
           y == t.virt + t.size
<1>1. /\ t \in Elements /\ l \in Seq(Elements) /\ Proper(<<t>>) /\ Beyond(<<t>>, t.virt)
      /\ Below(<<t>>, y) /\ t.virt \in Nat /\ y \in Nat /\ t.virt < y
      /\ \A x : Shows(<<t>>, x) = Image1(t, x)
    BY ShowsOne, ListKind
<1>2. CASE l = <<>> \/ ~Adjoin(t, h)
    <2>1. high = <<t>> \o l
        <3>1. CASE l = <<>>
            <4>1. high = <<t>>
                BY <3>1 DEF MergedWithFirst
            <4>2. <<t>> \in Seq(Elements)
                BY <1>1
            <4>3. <<t>> \o <<>> = <<t>>
                BY <4>2, ConcatEmptySeq
            <4> QED
                BY <3>1, <4>1, <4>3
        <3>2. CASE l # <<>>
            <4>1. l = <<h>> \o Tail(l) /\ Proper(Tail(l)) /\ Fits(h) /\ h.size > 0
                BY <3>2, Begins
            <4>2. h \in Elements /\ Tail(l) \in Seq(Elements)
                BY <4>1, ShowsOne, ListKind
            <4>3. high = <<t, h>> \o Tail(l)
                BY <1>2, <3>2 DEF MergedWithFirst, Merged
            <4>4. <<t, h>> = <<t>> \o <<h>>
                BY TwoElements
            <4>5. <<h>> \in Seq(Elements) /\ <<t>> \in Seq(Elements)
                BY <1>1, <4>2
            <4>6. (<<t>> \o <<h>>) \o Tail(l) = <<t>> \o (<<h>> \o Tail(l))
                BY <4>2, <4>5, ConcatAssociative
            <4> QED
                BY <4>1, <4>3, <4>4, <4>6
        <3> QED
            BY <3>1, <3>2
    <2>2. Beyond(l, t.virt)
        <3>1. \A i \in 1 .. Len(l) : l[i].virt \in Nat /\ y <= l[i].virt
            BY ListKind, ListFacts DEF Beyond
        <3>2. \A z \in Nat : y <= z => t.virt <= z
            BY <1>1
        <3> HIDE DEF y
        <3> QED
            BY <3>1, <3>2 DEF Beyond
    <2> HIDE DEF high, y
    <2>3. Beyond(l, y)
        BY DEF y
    <2>4. /\ Proper(<<t>> \o l)
          /\ \A x : Shows(<<t>> \o l, x) = Shows(<<t>>, x) \union Shows(l, x)
          /\ \A z : Beyond(<<t>>, z) /\ Beyond(l, z) => Beyond(<<t>> \o l, z)
        BY <1>1, <2>3, JoinedProper
    <2> QED
        BY <1>1, <2>1, <2>2, <2>4 DEF high
<1>3. CASE l # <<>> /\ Adjoin(t, h)
    <2>1. /\ Proper(Tail(l)) /\ Fits(h) /\ h.size > 0
          /\ Beyond(Tail(l), h.virt + h.size)
          /\ y <= h.virt
          /\ \A x : Shows(l, x) = Shows(<<h>>, x) \union Shows(Tail(l), x)
        BY <1>3, Begins
    <2> DEFINE m == Both(t, h)
    <2>2. /\ Merged(t, h) = <<m>>
          /\ Fits(m) /\ m.size > 0 /\ m.virt = t.virt
          /\ m.virt + m.size = h.virt + h.size
          /\ \A x \in Nat : Image1(m, x) = Image1(t, x) \union Image1(h, x)
        BY <1>3, <2>1, MergeEffect
    <2>3. high = <<m>> \o Tail(l)
        BY <1>3, <2>2 DEF MergedWithFirst
    <2> HIDE DEF high, h, m
    <2>4. /\ Proper(<<m>>) /\ Beyond(<<m>>, m.virt) /\ Below(<<m>>, m.virt + m.size)
          /\ m.virt + m.size \in Nat /\ m.virt < m.virt + m.size /\ m.virt \in Nat
          /\ \A x : Shows(<<m>>, x) = Image1(m, x)
        BY <2>2, ShowsOne
    <2> DEFINE z == m.virt + m.size
    <2>5. Below(<<m>>, z) /\ Beyond(Tail(l), z) /\ z \in Nat /\ m.virt < z
        BY <2>1, <2>2, <2>4
    <2> HIDE DEF z
    <2>6. /\ Proper(<<m>> \o Tail(l))
          /\ \A x : Shows(<<m>> \o Tail(l), x) = Shows(<<m>>, x) \union Shows(Tail(l), x)
          /\ \A w : Beyond(<<m>>, w) /\ Beyond(Tail(l), w) => Beyond(<<m>> \o Tail(l), w)
        BY <2>1, <2>4, <2>5, JoinedProper
    <2>7. Beyond(Tail(l), m.virt)
        <3>1. \A i \in 1 .. Len(Tail(l)) : Tail(l)[i].virt \in Nat /\ z <= Tail(l)[i].virt
            BY <2>1, <2>5, ListKind, ListFacts DEF Beyond
        <3>2. \A w \in Nat : z <= w => m.virt <= w
            BY <2>4, <2>5
        <3> QED
            BY <3>1, <3>2 DEF Beyond
    <2>8. Beyond(high, t.virt)
        BY <2>2, <2>3, <2>4, <2>6, <2>7
    <2>9. \A x : Shows(<<h>>, x) = Image1(h, x)
        BY <2>1, ShowsOne
    <2>10. ASSUME NEW x \in Nat
           PROVE  Shows(high, x) = Image1(t, x) \union Shows(l, x)
        BY <2>1, <2>2, <2>3, <2>4, <2>6, <2>9
    <2> QED
        BY <2>3, <2>6, <2>8, <2>10 DEF high
<1> QED
    BY <1>2, <1>3

\* The list r.list shows the region as t, and else what l shows; if memory ran
\* out, nothing is known of the region.
Added(l, r, t) ==
    /\ Proper(r.list) /\ r.ok \in BOOLEAN
    /\ \A x \in Nat : ~Inside(x, t.virt, t.size) => Shows(r.list, x) = Shows(l, x)
    /\ r.ok => \A x \in Nat : Inside(x, t.virt, t.size) => Shows(r.list, x) = {Image(t, x)}

\* The list around a new translation in pages that it does not show.
LEMMA InsertEffect ==
    ASSUME NEW l, Proper(l), NEW t, Fits(t), t.size > 0,
           \A x \in Nat : Inside(x, t.virt, t.size) => Shows(l, x) = {},
           NEW p \in 0 .. Len(l), \A i \in 1 .. p : l[i].virt <= t.virt,
           p < Len(l) => t.virt < l[p + 1].virt,
           NEW low, low = MergedWithLast(SubSeq(l, 1, p), t)
    PROVE  /\ Proper(Front(low) \o MergedWithFirst(Last(low), SubSeq(l, p + 1, Len(l))))
           /\ \A x \in Nat :
                 Shows(Front(low) \o MergedWithFirst(Last(low), SubSeq(l, p + 1, Len(l))), x)
                    = Shows(l, x) \union Image1(t, x)
<1> DEFINE n == Len(l)
           a == SubSeq(l, 1, p)
           b == SubSeq(l, p + 1, n)
           e == Last(low)
           y == t.virt + t.size
<1>1. /\ InOrder(l) /\ n \in Nat /\ p + 1 \in 1 .. n + 1 /\ n - (p + 1) + 1 = n - p
      /\ \A i \in 1 .. p : i \in 1 .. n
      /\ \A i \in 1 .. n - p : (p + 1) + i - 1 = p + i /\ p + i \in 1 .. n /\ p < n
    BY LenProperties, ListKind
<1>2. t.virt \in Nat /\ t.size \in Nat /\ y \in Nat
    <2>1. t.virt \in Nat /\ t.size \in Nat
        BY FitsFacts
    <2> QED
        BY <2>1
<1>3. ASSUME NEW i \in 1 .. n
      PROVE  /\ l[i].virt \in Nat /\ l[i].size \in Nat /\ l[i].size > 0
             /\ \A x \in Nat : Inside(x, t.virt, t.size) => ~Covers(l[i], x)
    <2>1. l[i].virt \in Nat /\ l[i].size \in Nat /\ l[i].size > 0
        BY <1>1, ListFacts DEF Proper
    <2>2. ASSUME NEW x \in Nat, Inside(x, t.virt, t.size)
          PROVE  ~Covers(l[i], x)
        <3>1. Shows(l, x) = {}
            BY <2>2
        <3> QED
            BY <3>1 DEF Shows
    <2> QED
        BY <2>1, <2>2
<1>4. ASSUME NEW i \in 1 .. p
      PROVE  l[i].virt + l[i].size <= t.virt
    <2>1. i \in 1 .. n /\ l[i].virt <= t.virt
        BY <1>1
    <2>2. Inside(t.virt, t.virt, t.size)
        BY <1>2 DEF Inside
    <2>3. ~Covers(l[i], t.virt)
        BY <1>2, <1>3, <2>1, <2>2
    <2>4. l[i].virt \in Nat /\ l[i].size \in Nat
        BY <1>3, <2>1
    <2> QED
        BY <1>2, <2>1, <2>3, <2>4 DEF Covers
<1>5. ASSUME NEW i \in 1 .. n - p
      PROVE  y <= l[p + i].virt
    <2>1. p + i \in 1 .. n /\ p < n /\ p + 1 \in 1 .. n
        BY <1>1
    <2>2. t.virt < l[p + 1].virt
        BY <2>1
    <2>3. /\ l[p + i].virt \in Nat /\ l[p + i].size \in Nat /\ l[p + i].size > 0
          /\ l[p + 1].virt \in Nat /\ l[p + 1].size \in Nat
        BY <1>3, <2>1
    <2>4. l[p + 1].virt <= l[p + i].virt
        <3>1. CASE i = 1
            BY <2>3, <3>1
        <3>2. CASE i # 1
            <4>1. p + 1 < p + i
                BY <1>1, <3>2
            <4>2. l[p + 1].virt + l[p + 1].size <= l[p + i].virt
                BY <1>1, <2>1, <4>1 DEF InOrder
            <4> QED
                BY <2>3, <4>2
        <3> QED
            BY <3>1, <3>2
    <2>5. Covers(l[p + i], l[p + i].virt)
        BY <2>3 DEF Covers
    <2>6. ~Inside(l[p + i].virt, t.virt, t.size)
        BY <1>3, <2>1, <2>3, <2>5
    <2> QED
        BY <1>2, <2>2, <2>3, <2>4, <2>6 DEF Inside
<1>6. /\ Proper(a) /\ Len(a) = p /\ \A i \in 1 .. p : a[i] = l[i]
      /\ \A x : Shows(a, x) = PartShows(l, 1, p, x)
    BY <1>1, Prefix
<1>7. /\ Proper(b) /\ Len(b) = n - p /\ \A i \in 1 .. n - p : b[i] = l[p + i]
      /\ \A x : Shows(b, x) = PartShows(l, p + 1, n, x)
    <2>1. /\ Proper(l) => Proper(b)
          /\ Len(b) = n - (p + 1) + 1
          /\ \A i \in 1 .. n - (p + 1) + 1 : b[i] = l[(p + 1) + i - 1]
          /\ \A x : Shows(b, x) = PartShows(l, p + 1, n, x)
        BY <1>1, Suffix
    <2> HIDE DEF n, b
    <2> QED
        BY <1>1, <2>1
<1>8. Below(a, t.virt) /\ Beyond(b, y)
    <2> HIDE DEF a, b, n, y
    <2> QED
        BY <1>4, <1>5, <1>6, <1>7 DEF Below, Beyond
<1> HIDE DEF a, b
<1>9. ASSUME NEW x
      PROVE  Shows(l, x) = Shows(a, x) \union Shows(b, x)
    <2>1. \A i : i \in 1 .. n <=> i \in 1 .. p \/ i \in p + 1 .. n
        BY <1>1
    <2>2. Shows(l, x) = PartShows(l, 1, n, x)
        BY DEF Shows, PartShows
    <2> HIDE DEF n
    <2>3. PartShows(l, 1, n, x) = PartShows(l, 1, p, x) \union PartShows(l, p + 1, n, x)
        BY <2>1 DEF PartShows
    <2> QED
        BY <1>6, <1>7, <2>2, <2>3
<1>10. /\ Proper(Front(low)) /\ Fits(e) /\ e.size > 0 /\ Below(Front(low), e.virt)
       /\ e.virt + e.size = y
       /\ \A x \in Nat : Shows(Front(low), x) \union Image1(e, x) = Shows(a, x) \union Image1(t, x)
    <2>1. low = MergedWithLast(a, t)
        BY DEF a
    <2> QED
        BY <1>6, <1>8, <2>1, LowEffect
<1> DEFINE high == MergedWithFirst(e, b)
<1>11. /\ Proper(high) /\ Beyond(high, e.virt)
       /\ \A x \in Nat : Shows(high, x) = Image1(e, x) \union Shows(b, x)
    <2>1. Beyond(b, e.virt + e.size)
        BY <1>8, <1>10
    <2> HIDE DEF e
    <2> QED
        BY <1>7, <1>10, <2>1, HighEffect
<1>12. e.virt \in Nat
    BY <1>10, FitsFacts
<1> HIDE DEF e, high
<1>13. /\ Proper(Front(low) \o high)
       /\ \A x : Shows(Front(low) \o high, x) = Shows(Front(low), x) \union Shows(high, x)
    BY <1>10, <1>11, <1>12, JoinedProper
<1>14. ASSUME NEW x \in Nat
       PROVE  Shows(Front(low) \o high, x) = Shows(l, x) \union Image1(t, x)
    <2>1. /\ Shows(Front(low) \o high, x) = Shows(Front(low), x) \union Shows(high, x)
          /\ Shows(Front(low), x) \union Image1(e, x) = Shows(a, x) \union Image1(t, x)
          /\ Shows(high, x) = Image1(e, x) \union Shows(b, x)
          /\ Shows(l, x) = Shows(a, x) \union Shows(b, x)
        BY <1>9, <1>10, <1>11, <1>13
    <2> QED
        BY <2>1
<1> QED
    BY <1>13, <1>14 DEF high, e, b, n

LEMMA AddEffect ==
    ASSUME NEW l, Proper(l), NEW t, Fits(t), AllReach(l, t.virt, t.size), NEW mem
    PROVE  /\ Added(l, add_translation(l, t, mem), t)
           /\ "split" \in mem /\ "new" \in mem => add_translation(l, t, mem).ok
<1> DEFINE removed == remove_translation(l, t.virt, t.size, "split" \in mem)
           rest == removed.list
           above == {i \in DOMAIN rest : t.virt < rest[i].virt}
           p == IF above = {} THEN Len(rest)
                ELSE (CHOOSE i \in above : \A j \in above : i <= j) - 1
           low == MergedWithLast(SubSeq(rest, 1, p), t)
           r == add_translation(l, t, mem)
           new == Front(low) \o MergedWithFirst(Last(low), SubSeq(rest, p + 1, Len(rest)))
<1>1. r = IF t.size = 0 THEN Done(l)
          ELSE IF ~removed.ok THEN removed
          ELSE IF "new" \notin mem THEN Failed(rest)
          ELSE Done(new)
    BY DEF add_translation
<1>2. \A a : /\ Done(a).list = a /\ Done(a).ok = TRUE
             /\ Failed(a).list = a /\ Failed(a).ok = FALSE
    BY DEF Done, Failed
<1>3. t.virt \in Nat /\ t.size \in Nat /\ t.virt + t.size < NPages
    BY FitsFacts
<1>4. Removed(l, removed, t.virt, t.size) /\ ("split" \in mem => removed.ok)
    BY <1>3, RemoveEffect
<1> HIDE DEF removed
<1>5. /\ Proper(rest) /\ removed.ok \in BOOLEAN
      /\ \A x \in Nat : Shows(rest, x) =
            IF removed.ok /\ Inside(x, t.virt, t.size) THEN {} ELSE Shows(l, x)
    BY <1>4 DEF Removed
<1> HIDE DEF r, rest
<1>6. CASE t.size = 0
    <2>1. \A x \in Nat : ~Inside(x, t.virt, t.size)
        BY <1>3, <1>6 DEF Inside
    <2> QED
        BY <1>1, <1>2, <1>6, <2>1 DEF Added, r
<1>7. CASE t.size # 0 /\ ~removed.ok
    <2>1. r = removed
        BY <1>1, <1>7
    <2>2. r.list = rest /\ ~r.ok
        BY <1>7, <2>1 DEF rest
    <2> QED
        BY <1>4, <1>5, <1>7, <2>1, <2>2 DEF Added, r
<1>8. CASE t.size # 0 /\ removed.ok /\ "new" \notin mem
    <2>1. r = Failed(rest)
        BY <1>1, <1>8
    <2> QED
        BY <1>2, <1>5, <1>8, <2>1 DEF Added, r
<1>9. CASE t.size # 0 /\ removed.ok /\ "new" \in mem
    <2>1. r = Done(new)
        BY <1>1, <1>9
    <2>2. r.ok = TRUE /\ r.list = new
        BY <1>2, <2>1
    <2>3. Len(rest) \in Nat /\ DOMAIN rest = 1 .. Len(rest)
        BY <1>5, ListKind, LenProperties
    <2>4. \A i \in 1 .. Len(rest) : rest[i].virt \in Nat
        BY <1>5, ListKind, ListFacts
    <2>5. /\ p \in 0 .. Len(rest) /\ \A i \in 1 .. p : rest[i].virt <= t.virt
          /\ p < Len(rest) => t.virt < rest[p + 1].virt
        <3>1. CASE above = {}
            <4>1. p = Len(rest)
                BY <3>1
            <4>2. \A i \in 1 .. Len(rest) : ~(t.virt < rest[i].virt)
                BY <2>3, <3>1
            <4> HIDE DEF p
            <4> QED
                BY <1>3, <2>3, <2>4, <4>1, <4>2
        <3>2. CASE above # {}
            <4> DEFINE first == CHOOSE i \in above : \A j \in above : i <= j
            <4>1. above \subseteq Nat
                BY <2>3
            <4>2. first \in above /\ \A j \in above : first <= j
                <5>1. \E i \in above : \A j \in above : i <= j
                    <6> HIDE DEF above
                    <6> QED
                        BY <3>2, <4>1, Least
                <5> HIDE DEF above
                <5> QED
                    BY <5>1
            <4>3. p = first - 1
                BY <3>2
            <4> HIDE DEF first, p
            <4>4. first \in 1 .. Len(rest) /\ t.virt < rest[first].virt
                BY <2>3, <4>2
            <4>5. ASSUME NEW i \in 1 .. p
                  PROVE  rest[i].virt <= t.virt
                <5>1. i \in 1 .. Len(rest) /\ ~(first <= i)
                    BY <2>3, <4>3, <4>4
                <5>2. i \notin above
                    BY <4>2, <5>1
                <5>3. ~(t.virt < rest[i].virt)
                    BY <2>3, <5>1, <5>2
                <5> QED
                    BY <1>3, <2>4, <5>1, <5>3
            <4>6. p \in 0 .. Len(rest) /\ p + 1 = first
                BY <2>3, <4>3, <4>4
            <4> QED
                BY <4>4, <4>5, <4>6
        <3> QED
            BY <3>1, <3>2
    <2>6. t.size > 0
        BY <1>3, <1>9
    <2>7. \A x \in Nat : Inside(x, t.virt, t.size) => Shows(rest, x) = {}
        BY <1>5, <1>9
    <2>8. low = MergedWithLast(SubSeq(rest, 1, p), t)
        OBVIOUS
    <2> HIDE DEF p, low
    <2>9. /\ Proper(new) /\ \A x \in Nat : Shows(new, x) = Shows(rest, x) \union Image1(t, x)
        BY <1>5, <2>5, <2>6, <2>7, <2>8, InsertEffect
    <2> HIDE DEF new
    <2>10. ASSUME NEW x \in Nat
           PROVE  /\ ~Inside(x, t.virt, t.size) => Shows(new, x) = Shows(l, x)
                  /\ Inside(x, t.virt, t.size) => Shows(new, x) = {Image(t, x)}
        <3>1. Covers(t, x) <=> Inside(x, t.virt, t.size)
            BY DEF Covers, Inside
        <3> QED
            BY <1>5, <1>9, <2>9, <3>1 DEF Image1
    <2> QED
        BY <1>9, <2>2, <2>9, <2>10 DEF Added, r
<1> QED
    BY <1>5, <1>6, <1>7, <1>8, <1>9

-----------------------------------------------------------------------------
(* The types of the tables. *)

LEMMA ConvertedTyped ==
    ASSUME NEW t, TablesTyped(t), NEW s \in Sections, NEW i \in Indexes
    PROVE  cvt_section_to_pages(t[s])[i] \in Pte
<1>1. t[s] \in Entry /\ t[s].type \in {"fault", "section", "page"}
    BY DEF TablesTyped, Entry
<1>2. CASE t[s].type = "section"
    <2>1. t[s].base + SectionPages <= NFrames /\ t[s].mode \in Modes
        BY <1>2 DEF TablesTyped
    <2>2. t[s].base \in Nat /\ NFrames \in Nat /\ SectionPages \in Nat
        BY <1>1, TableAssumption DEF Entry, Frames
    <2>3. t[s].base + i \in Frames
        BY <2>1, <2>2 DEF Frames, Indexes
    <2>4. cvt_section_to_pages(t[s])[i] = SmallPage(t[s].base + i, t[s].mode)
        BY <1>2 DEF cvt_section_to_pages
    <2> QED
        BY <2>1, <2>3, <2>4 DEF SmallPage, Pte
<1>3. CASE t[s].type = "page"
    BY <1>1, <1>3 DEF cvt_section_to_pages, Entry
<1>4. CASE t[s].type = "fault"
    BY <1>4 DEF cvt_section_to_pages, NoPages, Pte
<1> QED
    BY <1>1, <1>2, <1>3, <1>4

LEMMA TranslateTyped ==
    ASSUME NEW t, TablesTyped(t), NEW x \in Pages
    PROVE  mmu_translate(t, x) \in Pte
<1>1. Section(x) \in Sections /\ Index(x) \in Indexes
    BY PageFacts
<1>2. t[Section(x)] \in Entry
    BY <1>1 DEF TablesTyped
<1> QED
    BY <1>1, <1>2, ConvertedTyped, ConvertedMeaning, TranslateMeaning

LEMMA EntryKinds ==
    ASSUME NEW f, f \in [Indexes -> Pte]
    PROVE  /\ TableEntry(f) \in Entry /\ TableEntry(f).type = "page"
           /\ FaultEntry \in Entry /\ FaultEntry.type = "fault"
<1>1. NoPages \in [Indexes -> Pte]
    BY DEF NoPages, Pte
<1> QED
    BY <1>1 DEF TableEntry, FaultEntry, Entry

LEMMA MapTyped ==
    ASSUME NEW t, TablesTyped(t), NEW v \in Nat, NEW p \in Nat, NEW n \in Nat, NEW m \in Modes,
           p + n <= NFrames
    PROVE  TablesTyped(map_region(t, v, p, n, m))
<1> DEFINE T == map_region(t, v, p, n, m)
<1>1. ASSUME NEW s \in Sections
      PROVE  /\ T[s] \in Entry
             /\ T[s].type = "section" => T[s].base + SectionPages <= NFrames /\ T[s].mode \in Modes
    <2> DEFINE q == p + First(s) - v
    <2>1. T[s] = IF Whole(s, v, n) /\ q % SectionPages = 0 THEN map_section(q, m)
                 ELSE IF Touched(s, v, n) = {} THEN t[s]
                 ELSE map_page(t[s], Touched(s, v, n), q, m)
        BY DEF map_region
    <2>2. /\ First(s) \in Nat /\ SectionPages \in Nat /\ SectionPages > 1 /\ NFrames \in Nat
        BY TableAssumption DEF Sections, First
    <2> HIDE DEF T
    <2>3. CASE Whole(s, v, n) /\ q % SectionPages = 0
        <3>1. v <= First(s) /\ First(s) + SectionPages <= v + n
            BY <2>3 DEF Whole
        <3>2. q \in Nat /\ q + SectionPages <= NFrames /\ q \in Frames
            BY <2>2, <3>1 DEF Frames
        <3>3. T[s] = SectionEntry(q, m)
            BY <2>1, <2>3 DEF map_section
        <3> HIDE DEF q
        <3>4. NoPages \in [Indexes -> Pte]
            BY DEF NoPages, Pte
        <3> QED
            BY <3>2, <3>3, <3>4 DEF SectionEntry, Entry
    <2>4. CASE ~(Whole(s, v, n) /\ q % SectionPages = 0) /\ Touched(s, v, n) = {}
        <3>1. T[s] = t[s]
            BY <2>1, <2>4
        <3> QED
            BY <3>1 DEF TablesTyped
    <2>5. CASE ~(Whole(s, v, n) /\ q % SectionPages = 0) /\ Touched(s, v, n) # {}
        <3> DEFINE f == [i \in Indexes |-> IF i \in Touched(s, v, n) THEN SmallPage(q + i, m)
                                           ELSE cvt_section_to_pages(t[s])[i]]
        <3>1. T[s] = TableEntry(f)
            BY <2>1, <2>5 DEF map_page
        <3>2. ASSUME NEW i \in Indexes
              PROVE  f[i] \in Pte
            <4>1. CASE i \in Touched(s, v, n)
                <5>1. v <= First(s) + i /\ First(s) + i < v + n /\ i \in Nat
                    BY <2>2, <4>1 DEF Touched, Indexes
                <5>2. q + i \in Frames
                    BY <2>2, <5>1 DEF Frames
                <5>3. f[i] = SmallPage(q + i, m)
                    BY <4>1
                <5> QED
                    BY <5>2, <5>3 DEF SmallPage, Pte
            <4>2. CASE i \notin Touched(s, v, n)
                BY <4>2, ConvertedTyped
            <4> QED
                BY <4>1, <4>2
        <3>3. f \in [Indexes -> Pte]
            BY <3>2
        <3> HIDE DEF f
        <3> QED
            BY <3>1, <3>3, EntryKinds
    <2> QED
        BY <2>3, <2>4, <2>5
<1>2. T = [s \in Sections |-> T[s]]
    BY DEF map_region
<1> HIDE DEF T
<1>3. T \in [Sections -> Entry]
    BY <1>1, <1>2
<1>4. TablesTyped(T)
    BY <1>1, <1>3 DEF TablesTyped
<1> QED
    BY <1>4 DEF T

LEMMA UnmapTyped ==
    ASSUME NEW t, TablesTyped(t), NEW v \in Nat, NEW n \in Nat
    PROVE  TablesTyped(unmap_region(t, v, n))
<1> DEFINE T == unmap_region(t, v, n)
<1>1. ASSUME NEW s \in Sections
      PROVE  /\ T[s] \in Entry
             /\ T[s].type = "section" => T[s].base + SectionPages <= NFrames /\ T[s].mode \in Modes
    <2>1. T[s] = IF Whole(s, v, n) THEN FaultEntry
                 ELSE IF Touched(s, v, n) = {} THEN t[s]
                 ELSE unmap_page(t[s], Touched(s, v, n))
        BY DEF unmap_region, unmap_section
    <2> HIDE DEF T
    <2> DEFINE f == [i \in Indexes |-> IF i \in Touched(s, v, n) THEN Unmapped
                                       ELSE cvt_section_to_pages(t[s])[i]]
    <2>2. T[s] \in {FaultEntry, t[s], TableEntry(f)}
        BY <2>1 DEF unmap_page
    <2>3. f \in [Indexes -> Pte]
        <3>1. \A i \in Indexes : f[i] \in Pte
            BY ConvertedTyped DEF Pte
        <3> QED
            BY <3>1
    <2> HIDE DEF f
    <2> QED
        BY <2>2, <2>3, EntryKinds DEF TablesTyped
<1>2. T = [s \in Sections |-> T[s]]
    BY DEF unmap_region
<1> HIDE DEF T
<1>3. T \in [Sections -> Entry]
    BY <1>1, <1>2
<1>4. TablesTyped(T)
    BY <1>1, <1>3 DEF TablesTyped
<1> QED
    BY <1>4 DEF T

-----------------------------------------------------------------------------
(* The page tables implement Mapping. *)

TablesOK == TablesTyped(tables)

LEMMA TablesKept ==
    ASSUME TablesOK, MmuNext
    PROVE  TablesOK'
<1>1. CASE tables' = tables
    BY <1>1 DEF TablesOK
<1>2. ASSUME NEW r \in MapReqs,
             tables' = map_region(tables, r.virt, r.phys, r.size, r.mode)
      PROVE  TablesOK'
    <2>1. /\ r.virt \in Nat /\ r.phys \in Nat /\ r.size \in Nat /\ r.mode \in Modes
          /\ r.phys + r.size <= NFrames
        BY RegionsFit
    <2>2. TablesTyped(map_region(tables, r.virt, r.phys, r.size, r.mode))
        BY <2>1, MapTyped DEF TablesOK
    <2> QED
        BY <1>2, <2>2 DEF TablesOK
<1>3. ASSUME NEW r \in UnmapReqs, tables' = unmap_region(tables, r.virt, r.size)
      PROVE  TablesOK'
    <2>1. r.virt \in Nat /\ r.size \in Nat
        BY RegionsFit
    <2>2. TablesTyped(unmap_region(tables, r.virt, r.size))
        BY <2>1, UnmapTyped DEF TablesOK
    <2> QED
        BY <1>3, <2>2 DEF TablesOK
<1> QED
    BY <1>1, <1>2, <1>3 DEF MmuNext, f_mmu_map, f_mmu_unmap, SetCallback, mmuVars

\* The tables stay well typed: each entry is a fault, a section of frames that
\* exist, or a table of pages (map_region, unmap_region).
THEOREM TablesInvariance == MmuSpec => []TablesOK
<1>1. MmuInit => TablesOK
    BY BoardTables DEF MmuInit, TablesOK, BoardTable
<1>2. TablesOK /\ [MmuNext]_mmuVars => TablesOK'
    <2>1. TablesOK /\ UNCHANGED mmuVars => TablesOK'
        BY DEF TablesOK, mmuVars
    <2> QED
        BY <2>1, TablesKept
<1> QED
    BY <1>1, <1>2, PTL DEF MmuSpec

LEMMA RegionPages ==
    ASSUME NEW v \in Nat, NEW n \in Nat, v + n < NPages
    PROVE  /\ v .. v + n - 1 \subseteq Pages
           /\ \A x \in Nat : x \in v .. v + n - 1 <=> v <= x /\ x < v + n
           /\ n # 0 => v \in Pages /\ v + n - 1 \in Pages /\ v <= v + n - 1
           /\ n = 0 => v .. v + n - 1 = {}
<1>1. NPages \in Nat
    BY NoWrap
<1> QED
    BY <1>1 DEF Pages

LEMMA MapImplements ==
    ASSUME TablesOK, NEW r \in MapReqs,
           tables' = map_region(tables, r.virt, r.phys, r.size, r.mode)
    PROVE  [TablesMap!MapNext]_(Translation(tables))
<1> DEFINE v == r.virt
           n == r.size
           lo == v
           hi == v + n - 1
           now == Translation(tables)
           new == Translation(tables')
<1>1. /\ v \in Nat /\ r.phys \in Nat /\ n \in Nat /\ r.mode \in Modes /\ v + n < NPages
    BY RegionsFit
<1>2. /\ \A x \in Nat : x \in lo .. hi <=> v <= x /\ x < v + n
      /\ n # 0 => lo \in Pages /\ hi \in Pages /\ lo <= hi /\ lo \in lo .. hi
    BY <1>1, RegionPages
<1>3. ASSUME NEW x \in Pages
      PROVE  new[x] = IF x \in lo .. hi THEN SmallPage(r.phys + x - lo, r.mode) ELSE now[x]
    <2>1. x \in Nat
        BY PageFacts
    <2>2. mmu_translate(tables', x) =
              IF v <= x /\ x < v + n THEN SmallPage(r.phys + x - v, r.mode)
              ELSE mmu_translate(tables, x)
        BY <1>1, MapEffect DEF TablesOK, TablesTyped
    <2> QED
        BY <1>2, <2>1, <2>2 DEF Translation
<1>4. now = [x \in Pages |-> now[x]] /\ new = [x \in Pages |-> new[x]]
    BY DEF Translation
<1> HIDE DEF now, new
<1>5. CASE n = 0
    <2>1. \A x \in Pages : x \notin lo .. hi
        BY <1>1, <1>5, RegionPages, PageFacts
    <2>2. new = now
        BY <1>3, <1>4, <2>1
    <2> QED
        BY <2>2 DEF now, new
<1>6. CASE n # 0
    <2>1. lo \in Pages /\ hi \in Pages /\ lo <= hi /\ lo \in lo .. hi
        BY <1>2, <1>6
    <2>2. new[lo] = SmallPage(r.phys, r.mode)
        BY <1>1, <1>3, <2>1
    <2>3. new[lo] # Unmapped /\ new[lo].phys = r.phys /\ new[lo].mode = r.mode
        BY <1>1, <2>2 DEF SmallPage, Unmapped
    <2> HIDE DEF lo, hi
    <2>4. new = [x \in Pages |-> IF x \in lo .. hi
                                 THEN [phys |-> new[lo].phys + x - lo, mode |-> new[lo].mode]
                                 ELSE now[x]]
        BY <1>3, <1>4, <2>3 DEF SmallPage
    <2>5. TablesMap!MapIn(lo, hi, new[lo].phys, new[lo].mode)
        BY <2>1, <2>4 DEF TablesMap!MapIn, now, new
    <2> QED
        BY <2>1, <2>3, <2>5 DEF TablesMap!MapNext, new
<1> QED
    BY <1>5, <1>6

LEMMA UnmapImplements ==
    ASSUME TablesOK, NEW r \in UnmapReqs, tables' = unmap_region(tables, r.virt, r.size)
    PROVE  [TablesMap!MapNext]_(Translation(tables))
<1> DEFINE v == r.virt
           n == r.size
           lo == v
           hi == v + n - 1
           now == Translation(tables)
           new == Translation(tables')
<1>1. v \in Nat /\ n \in Nat /\ v + n < NPages
    BY RegionsFit
<1>2. /\ \A x \in Nat : x \in lo .. hi <=> v <= x /\ x < v + n
      /\ n # 0 => lo \in Pages /\ hi \in Pages /\ lo <= hi /\ lo \in lo .. hi
    BY <1>1, RegionPages
<1>3. ASSUME NEW x \in Pages
      PROVE  new[x] = IF x \in lo .. hi THEN Unmapped ELSE now[x]
    <2>1. x \in Nat
        BY PageFacts
    <2>2. mmu_translate(tables', x) =
              IF v <= x /\ x < v + n THEN Unmapped ELSE mmu_translate(tables, x)
        BY <1>1, UnmapEffect DEF TablesOK, TablesTyped
    <2> QED
        BY <1>2, <2>1, <2>2 DEF Translation
<1>4. now = [x \in Pages |-> now[x]] /\ new = [x \in Pages |-> new[x]]
    BY DEF Translation
<1> HIDE DEF now, new
<1>5. CASE n = 0
    <2>1. \A x \in Pages : x \notin lo .. hi
        BY <1>1, <1>5, RegionPages, PageFacts
    <2>2. new = now
        BY <1>3, <1>4, <2>1
    <2> QED
        BY <2>2 DEF now, new
<1>6. CASE n # 0
    <2>1. lo \in Pages /\ hi \in Pages /\ lo <= hi
        BY <1>2, <1>6
    <2> HIDE DEF lo, hi
    <2>2. new = [x \in Pages |-> IF x \in lo .. hi THEN Unmapped ELSE now[x]]
        BY <1>3, <1>4
    <2>3. TablesMap!MapOut(lo, hi)
        BY <2>1, <2>2 DEF TablesMap!MapOut, now, new
    <2> QED
        BY <2>1, <2>3 DEF TablesMap!MapNext
<1> QED
    BY <1>5, <1>6

\* Whatever sections and tables a region goes over, a call changes the pages of
\* the region and no others (map_region, unmap_region).
THEOREM Refinement == MmuSpec => ImplementsMapping
<1>1. MmuInit => TablesMap!MapInit
    <2> SUFFICES ASSUME MmuInit
                 PROVE  Translation(tables) \in [Pages -> Pte]
        BY DEF TablesMap!MapInit, Pte
    <2>1. TablesTyped(tables)
        BY BoardTables DEF MmuInit, BoardTable
    <2>2. \A x \in Pages : mmu_translate(tables, x) \in Pte
        BY <2>1, TranslateTyped
    <2> QED
        BY <2>2 DEF Translation
<1>2. TablesOK /\ [MmuNext]_mmuVars => [TablesMap!MapNext]_(Translation(tables))
    <2> SUFFICES ASSUME TablesOK, [MmuNext]_mmuVars
                 PROVE  [TablesMap!MapNext]_(Translation(tables))
        OBVIOUS
    <2>1. CASE tables' = tables
        BY <2>1
    <2>2. CASE \E r \in MapReqs : tables' = map_region(tables, r.virt, r.phys, r.size, r.mode)
        BY <2>2, MapImplements
    <2>3. CASE \E r \in UnmapReqs : tables' = unmap_region(tables, r.virt, r.size)
        BY <2>3, UnmapImplements
    <2> QED
        BY <2>1, <2>2, <2>3 DEF MmuNext, f_mmu_map, f_mmu_unmap, SetCallback, mmuVars
<1> QED
    BY <1>1, <1>2, TablesInvariance, PTL DEF MmuSpec, ImplementsMapping, TablesMap!MapSpec

-----------------------------------------------------------------------------
(* Whatever calls there have been, the list is one of translations whose    *)
(* numbers fit their fields.                                                *)

LEMMA Wrapped ==
    \A x \in Int : WrapPage(x) \in Pages
<1>1. NPages \in Nat /\ NPages > 0
    BY TableAssumption DEF NPages
<1>2. \A k \in Nat, x \in Int : k > 0 => x % k \in 0 .. k - 1
    OBVIOUS
<1> QED
    BY <1>1, <1>2 DEF WrapPage, Pages

LEMMA ElementFields ==
    ASSUME NEW t \in Elements
    PROVE  /\ t.virt \in Pages /\ t.size \in Pages /\ t.phys \in Pages /\ t.mode \in Modes
           /\ t.virt \in Nat /\ t.size \in Nat /\ t.phys \in Nat
           /\ \A a \in Pages : [t EXCEPT !.size = a] \in Elements
           /\ \A a, b, c \in Pages :
                 [t EXCEPT !.size = a, !.virt = b, !.phys = c] \in Elements
           /\ \A a, b, c \in Pages :
                 [t EXCEPT !.virt = a, !.size = b, !.phys = c] \in Elements
<1>1. Pages \subseteq Nat
    BY PageFacts
<1> QED
    BY <1>1 DEF Elements

LEMMA CutTyped ==
    ASSUME NEW t \in Elements, NEW v \in Nat, NEW n \in Nat
    PROVE  Cut(t, v, n) \in Elements
<1>1. t.virt \in Nat /\ t.size \in Nat /\ t.phys \in Nat
    BY ElementFields
<1>2. CASE StartsIn(t, v, n)
    <2> DEFINE over == WrapPage(v + n - t.virt)
    <2>1. over \in Int
        <3>1. v + n - t.virt \in Int
            BY <1>1
        <3> QED
            BY <3>1, Wrapped, PageFacts
    <2> HIDE DEF over
    <2>2. /\ WrapPage(t.size - over) \in Pages /\ WrapPage(t.virt + over) \in Pages
          /\ WrapPage(t.phys + over) \in Pages
        <3>1. t.size - over \in Int /\ t.virt + over \in Int /\ t.phys + over \in Int
            BY <1>1, <2>1
        <3> QED
            BY <3>1, Wrapped
    <2>3. Cut(t, v, n) = [t EXCEPT !.size = WrapPage(t.size - over),
                                   !.virt = WrapPage(t.virt + over),
                                   !.phys = WrapPage(t.phys + over)]
        BY <1>2 DEF Cut, over
    <2>4. PICK a \in Pages, b \in Pages, c \in Pages :
              /\ a = WrapPage(t.size - over) /\ b = WrapPage(t.virt + over)
              /\ c = WrapPage(t.phys + over)
        BY <2>2
    <2>5. Cut(t, v, n) = [t EXCEPT !.size = a, !.virt = b, !.phys = c]
        BY <2>3, <2>4
    <2> QED
        BY <2>5 DEF Elements
<1>3. CASE ~StartsIn(t, v, n) /\ Holds(t, v)
    <2>1. v - t.virt \in Pages
        <3>1. End(t) \in Pages
            BY <1>1, Wrapped DEF End
        <3>2. t.virt < v /\ v < End(t)
            BY <1>3 DEF Holds
        <3>3. NPages \in Nat
            BY NoWrap
        <3> QED
            BY <1>1, <3>1, <3>2, <3>3 DEF Pages
    <2>2. Cut(t, v, n) = [t EXCEPT !.size = v - t.virt]
        BY <1>3 DEF Cut
    <2> QED
        BY <2>1, <2>2, ElementFields
<1>4. CASE ~StartsIn(t, v, n) /\ ~Holds(t, v)
    BY <1>4 DEF Cut
<1> QED
    BY <1>2, <1>3, <1>4

LEMMA PiecesTyped ==
    ASSUME NEW t \in Elements, NEW v \in Nat, NEW n \in Nat
    PROVE  Parts(t, v, n) \in Seq(Elements)
<1>1. t.virt \in Nat /\ t.size \in Nat /\ t.phys \in Nat
    BY ElementFields
<1>2. CASE Splits(t, v, n)
    <2> DEFINE size == WrapPage(End(t) - (v + n))
    <2>1. size \in Pages /\ size \in Int
        <3>1. End(t) \in Int
            BY <1>1, Wrapped, PageFacts DEF End
        <3>2. End(t) - (v + n) \in Int
            BY <3>1
        <3> QED
            BY <3>2, Wrapped, PageFacts
    <2> HIDE DEF size
    <2>2. /\ WrapPage(t.size - size - n) \in Pages /\ WrapPage(v + n) \in Pages
          /\ WrapPage(t.phys + t.size - size) \in Pages
        <3>1. t.size - size - n \in Int /\ v + n \in Int /\ t.phys + t.size - size \in Int
            BY <1>1, <2>1
        <3> QED
            BY <3>1, Wrapped
    <2> DEFINE low == [t EXCEPT !.size = WrapPage(t.size - size - n)]
               high == [t EXCEPT !.virt = WrapPage(v + n), !.size = size,
                                 !.phys = WrapPage(t.phys + t.size - size)]
    <2>3. low \in Elements /\ high \in Elements
        BY <2>1, <2>2, ElementFields
    <2>4. Parts(t, v, n) = <<low, high>>
        BY <1>2 DEF Parts, Pieces, size
    <2> HIDE DEF low, high
    <2> QED
        BY <2>3, <2>4
<1>3. CASE ~Splits(t, v, n)
    <2>1. WrapPage(t.size - n) \in Pages
        <3>1. t.size - n \in Int
            BY <1>1
        <3> QED
            BY <3>1, Wrapped
    <2> DEFINE low == [t EXCEPT !.size = WrapPage(t.size - n)]
    <2>2. low \in Elements
        BY <2>1, ElementFields
    <2>3. Parts(t, v, n) = <<low>>
        BY <1>3 DEF Parts
    <2> HIDE DEF low
    <2> QED
        BY <2>2, <2>3
<1> QED
    BY <1>2, <1>3

LEMMA NonEmptyTyped ==
    ASSUME NEW l \in Seq(Elements)
    PROVE  NonEmpty(l) \in Seq(Elements)
<1> DEFINE n == Len(l)
<1>1. n \in Nat /\ \A i \in 1 .. n : l[i] \in Elements
    BY LenProperties, ElementOfSeq
<1>2. PICK kept : /\ NonEmpty(l) = kept[n] /\ kept[0] = <<>>
                  /\ \A k \in 1 .. n : kept[k] = IF l[k].size = 0 THEN kept[k - 1]
                                                 ELSE Append(kept[k - 1], l[k])
    BY <1>1, NonEmptyEquation
<1> DEFINE T == {k \in 0 .. n : kept[k] \in Seq(Elements)}
<1>3. 0 \in T
    <2>1. 0 \in 0 .. n
        BY <1>1
    <2>2. kept[0] \in Seq(Elements)
        <3>1. <<>> \in Seq(Elements)
            OBVIOUS
        <3> QED
            BY <1>2, <3>1
    <2> QED
        BY <2>1, <2>2
<1>4. ASSUME NEW k \in 0 .. n - 1, k \in T
      PROVE  k + 1 \in T
    <2>1. k + 1 \in 1 .. n /\ (k + 1) - 1 = k /\ k + 1 \in 0 .. n
        BY <1>1
    <2>2. kept[k] \in Seq(Elements) /\ l[k + 1] \in Elements
        BY <1>1, <1>4, <2>1
    <2>3. Append(kept[k], l[k + 1]) \in Seq(Elements)
        BY <2>2
    <2> QED
        BY <1>2, <2>1, <2>2, <2>3
<1> HIDE DEF T, n
<1>5. \A k \in 0 .. n : k \in T
    BY <1>1, <1>3, <1>4, Induction
<1>6. n \in 0 .. n
    BY <1>1
<1>7. kept[n] \in Seq(Elements)
    BY <1>5, <1>6 DEF T
<1> QED
    BY <1>2, <1>7 DEF n

\* Elements before an index of a list and after it.
LEMMA PartsTyped ==
    ASSUME NEW l \in Seq(Elements), NEW k \in 0 .. Len(l)
    PROVE  /\ SubSeq(l, 1, k) \in Seq(Elements)
           /\ SubSeq(l, k + 1, Len(l)) \in Seq(Elements)
<1>1. Len(l) \in Nat /\ \A i \in 1 .. Len(l) : l[i] \in Elements
    BY LenProperties, ElementOfSeq
<1>2. \A i \in 1 .. k : l[i] \in Elements
    BY <1>1
<1>3. \A i \in k + 1 .. Len(l) : l[i] \in Elements
    BY <1>1
<1>4. k \in Int /\ k + 1 \in Int /\ Len(l) \in Int /\ 1 \in Int
    BY <1>1
<1> QED
    BY <1>2, <1>3, <1>4, SubSeqProperties

LEMMA RemoveTyped ==
    ASSUME NEW l \in Seq(Elements), NEW v \in Nat, NEW n \in Nat, NEW mem \in BOOLEAN
    PROVE  /\ remove_translation(l, v, n, mem).list \in Seq(Elements)
           /\ remove_translation(l, v, n, mem).ok \in BOOLEAN
           /\ mem => remove_translation(l, v, n, mem).ok
<1> DEFINE r == remove_translation(l, v, n, mem)
           stops == {i \in DOMAIN l : EndsTheWalk(l[i], v, n)}
           k == CHOOSE i \in stops : \A j \in stops : i <= j
           cut == [i \in DOMAIN l |-> Cut(l[i], v, n)]
           before == SubSeq(cut, 1, k - 1)
           after == SubSeq(l, k + 1, Len(l))
<1>1. /\ Len(l) \in Nat /\ DOMAIN l = 1 .. Len(l)
      /\ \A i \in 1 .. Len(l) : l[i] \in Elements
    BY LenProperties, ElementOfSeq
<1>2. \A a : /\ Done(a).list = a /\ Done(a).ok = TRUE
             /\ Failed(a).list = a /\ Failed(a).ok = FALSE
    BY DEF Done, Failed
<1>3. cut \in Seq(Elements) /\ Len(cut) = Len(l)
    <2>1. \A i \in 1 .. Len(l) : Cut(l[i], v, n) \in Elements
        BY <1>1, CutTyped
    <2> QED
        BY <1>1, <2>1
<1>4. CASE n = 0
    <2>1. r = Done(l)
        BY <1>4 DEF remove_translation
    <2> HIDE DEF r
    <2> QED
        BY <1>2, <2>1 DEF r
<1>5. CASE n # 0 /\ stops = {}
    <2>1. r = Done(NonEmpty(cut))
        BY <1>5 DEF remove_translation
    <2>2. NonEmpty(cut) \in Seq(Elements)
        BY <1>3, NonEmptyTyped
    <2> HIDE DEF r, cut
    <2> QED
        BY <1>2, <2>1, <2>2 DEF r
<1>6. CASE n # 0 /\ stops # {}
    <2>1. k \in stops
        <3>1. stops \subseteq Nat
            BY <1>1
        <3>2. \E i \in stops : \A j \in stops : i <= j
            <4> HIDE DEF stops
            <4> QED
                BY <1>6, <3>1, Least
        <3> HIDE DEF stops
        <3> QED
            BY <3>2
    <2>2. k \in 1 .. Len(l) /\ k - 1 \in 0 .. Len(l) /\ k \in 0 .. Len(l)
        BY <1>1, <2>1
    <2>3. r = IF ~Splits(l[k], v, n)
              THEN Done(before \o <<[l[k] EXCEPT !.size = WrapPage(@ - n)]>> \o after)
              ELSE IF mem THEN Done(before \o Pieces(l[k], v, n) \o after)
              ELSE Failed(before \o <<l[k]>> \o after)
        BY <1>6 DEF remove_translation
    <2> HIDE DEF k, r, cut, stops
    <2>4. before \in Seq(Elements) /\ after \in Seq(Elements)
        BY <1>3, <2>2, PartsTyped
    <2>5. l[k] \in Elements /\ <<l[k]>> \in Seq(Elements)
        BY <1>1, <2>2
    <2>6. Parts(l[k], v, n) \in Seq(Elements)
        BY <2>5, PiecesTyped
    <2> HIDE DEF before, after
    <2>7. \A m \in Seq(Elements) : before \o m \o after \in Seq(Elements)
        BY <2>4, ConcatProperties
    <2>8. r \in {Done(before \o Parts(l[k], v, n) \o after), Failed(before \o <<l[k]>> \o after)}
          /\ (mem => r = Done(before \o Parts(l[k], v, n) \o after))
        BY <2>3 DEF Parts
    <2>9. before \o Parts(l[k], v, n) \o after \in Seq(Elements)
          /\ before \o <<l[k]>> \o after \in Seq(Elements)
        BY <2>5, <2>6, <2>7
    <2> QED
        BY <1>2, <2>8, <2>9 DEF r
<1> QED
    BY <1>4, <1>5, <1>6

LEMMA MergedTyped ==
    ASSUME NEW t \in Elements, NEW u \in Elements
    PROVE  \/ \E m \in Elements : Merged(t, u) = <<m>>
           \/ Merged(t, u) = <<t>> \o <<u>>
<1>1. t.size \in Nat /\ u.size \in Nat
    BY ElementFields
<1>2. t.size + u.size \in Int
    BY <1>1
<1>3. WrapPage(t.size + u.size) \in Pages
    BY <1>2, Wrapped
<1>4. [t EXCEPT !.size = WrapPage(t.size + u.size)] \in Elements
    BY <1>3, ElementFields
<1>5. CASE Adjoin(t, u)
    BY <1>4, <1>5 DEF Merged
<1>6. CASE ~Adjoin(t, u)
    BY <1>6, TwoElements DEF Merged
<1> QED
    BY <1>5, <1>6

LEMMA LowTyped ==
    ASSUME NEW l \in Seq(Elements), NEW t \in Elements
    PROVE  \E a \in Seq(Elements), e \in Elements : MergedWithLast(l, t) = a \o <<e>>
<1>1. <<t>> \in Seq(Elements) /\ <<>> \in Seq(Elements)
    OBVIOUS
<1>2. CASE l = <<>>
    <2>1. <<>> \o <<t>> = <<t>>
        BY <1>1, ConcatEmptySeq
    <2>2. MergedWithLast(l, t) = <<>> \o <<t>>
        BY <1>2, <2>1 DEF MergedWithLast
    <2> QED
        BY <1>1, <2>2
<1>3. CASE l # <<>>
    <2> DEFINE f == Front(l)
               e == Last(l)
    <2>1. Len(l) \in Nat /\ Len(l) \in 1 .. Len(l) /\ Len(l) - 1 \in 0 .. Len(l)
        BY <1>3, LenProperties, EmptySeq
    <2>2. f \in Seq(Elements)
        BY <2>1, PartsTyped DEF Front
    <2>3. e \in Elements /\ <<e>> \in Seq(Elements)
        BY <2>1, ElementOfSeq DEF Last
    <2>4. MergedWithLast(l, t) = f \o Merged(e, t)
        BY <1>3 DEF MergedWithLast
    <2> HIDE DEF f, e
    <2>5. CASE Merged(e, t) = <<e>> \o <<t>>
        <3>1. f \o <<e>> \in Seq(Elements)
            BY <2>2, <2>3, ConcatProperties
        <3>2. (f \o <<e>>) \o <<t>> = f \o (<<e>> \o <<t>>)
            BY <1>1, <2>2, <2>3, ConcatAssociative
        <3>3. MergedWithLast(l, t) = (f \o <<e>>) \o <<t>>
            BY <2>4, <2>5, <3>2
        <3> QED
            BY <3>1, <3>3
    <2>6. CASE \E m \in Elements : Merged(e, t) = <<m>>
        BY <2>2, <2>4, <2>6
    <2> QED
        BY <2>3, <2>5, <2>6, MergedTyped
<1> QED
    BY <1>2, <1>3

LEMMA HighTyped ==
    ASSUME NEW l \in Seq(Elements), NEW t \in Elements
    PROVE  MergedWithFirst(t, l) \in Seq(Elements)
<1>1. <<t>> \in Seq(Elements)
    OBVIOUS
<1>2. CASE l = <<>>
    BY <1>1, <1>2 DEF MergedWithFirst
<1>3. CASE l # <<>>
    <2> DEFINE f == Tail(l)
               e == Head(l)
    <2>1. e \in Elements /\ f \in Seq(Elements)
        BY <1>3, HeadTailProperties
    <2>2. MergedWithFirst(t, l) = Merged(t, e) \o f
        BY <1>3 DEF MergedWithFirst
    <2> HIDE DEF f, e
    <2>3. Merged(t, e) \in Seq(Elements)
        <3>1. <<e>> \in Seq(Elements)
            BY <2>1
        <3>2. <<t>> \o <<e>> \in Seq(Elements)
            BY <1>1, <3>1, ConcatProperties
        <3>3. \A m \in Elements : <<m>> \in Seq(Elements)
            OBVIOUS
        <3> QED
            BY <2>1, <3>2, <3>3, MergedTyped
    <2> QED
        BY <2>1, <2>2, <2>3, ConcatProperties
<1> QED
    BY <1>2, <1>3

LEMMA AddTyped ==
    ASSUME NEW l \in Seq(Elements), NEW t \in Elements, NEW mem
    PROVE  /\ add_translation(l, t, mem).list \in Seq(Elements)
           /\ add_translation(l, t, mem).ok \in BOOLEAN
           /\ "split" \in mem /\ "new" \in mem => add_translation(l, t, mem).ok
<1> DEFINE removed == remove_translation(l, t.virt, t.size, "split" \in mem)
           rest == removed.list
           above == {i \in DOMAIN rest : t.virt < rest[i].virt}
           p == IF above = {} THEN Len(rest)
                ELSE (CHOOSE i \in above : \A j \in above : i <= j) - 1
           low == MergedWithLast(SubSeq(rest, 1, p), t)
           r == add_translation(l, t, mem)
           new == Front(low) \o MergedWithFirst(Last(low), SubSeq(rest, p + 1, Len(rest)))
<1>1. r = IF t.size = 0 THEN Done(l)
          ELSE IF ~removed.ok THEN removed
          ELSE IF "new" \notin mem THEN Failed(rest)
          ELSE Done(new)
    BY DEF add_translation
<1>2. \A a : /\ Done(a).list = a /\ Done(a).ok = TRUE
             /\ Failed(a).list = a /\ Failed(a).ok = FALSE
    BY DEF Done, Failed
<1>3. /\ rest \in Seq(Elements) /\ removed.ok \in BOOLEAN
      /\ "split" \in mem => removed.ok
    <2>1. t.virt \in Nat /\ t.size \in Nat
        BY ElementFields
    <2>2. ("split" \in mem) \in BOOLEAN
        OBVIOUS
    <2> QED
        BY <2>1, <2>2, RemoveTyped
<1> HIDE DEF removed
<1>4. Len(rest) \in Nat /\ DOMAIN rest = 1 .. Len(rest)
    BY <1>3, LenProperties
<1>5. p \in 0 .. Len(rest)
    <2>1. CASE above = {}
        BY <1>4, <2>1
    <2>2. CASE above # {}
        <3> DEFINE q == CHOOSE i \in above : \A j \in above : i <= j
        <3>1. above \subseteq Nat /\ above \subseteq 1 .. Len(rest)
            BY <1>4
        <3>2. q \in above
            <4>1. \E i \in above : \A j \in above : i <= j
                <5> HIDE DEF above
                <5> QED
                    BY <2>2, <3>1, Least
            <4> HIDE DEF above
            <4> QED
                BY <4>1
        <3>3. p = q - 1
            BY <2>2
        <3> HIDE DEF q, p, above
        <3> QED
            BY <1>4, <3>1, <3>2, <3>3
    <2> QED
        BY <2>1, <2>2
<1> HIDE DEF p, rest, above
<1>6. SubSeq(rest, 1, p) \in Seq(Elements) /\ SubSeq(rest, p + 1, Len(rest)) \in Seq(Elements)
    BY <1>3, <1>5, PartsTyped
<1>7. PICK a \in Seq(Elements), e \in Elements : low = a \o <<e>>
    BY <1>6, LowTyped
<1>8. Front(low) = a /\ Last(low) = e
    BY <1>7, FrontAndLast
<1>9. MergedWithFirst(e, SubSeq(rest, p + 1, Len(rest))) \in Seq(Elements)
    BY <1>6, HighTyped
<1>10. new \in Seq(Elements)
    BY <1>7, <1>8, <1>9, ConcatProperties
<1> HIDE DEF new, r
<1>11. r \in {Done(l), removed, Failed(rest), Done(new)}
    BY <1>1
<1>12. r.list \in Seq(Elements)
    BY <1>2, <1>3, <1>10, <1>11 DEF rest
<1>13. r.ok \in BOOLEAN
    BY <1>2, <1>3, <1>11
<1>14. "split" \in mem /\ "new" \in mem => r.ok
    BY <1>1, <1>2, <1>3
<1> QED
    BY <1>12, <1>13, <1>14 DEF r

-----------------------------------------------------------------------------
(* The list and the tables agree, until a call reaches past the end of a    *)
(* translation: the inductive invariant.                                    *)

\* What the tables say of page x, as a list would show it.
InTables(tbl, x) ==
    IF mmu_translate(tbl, x) = Unmapped THEN {} ELSE {mmu_translate(tbl, x)}

Agree(l, tbl, but) == \A x \in Pages \ but : Shows(l, x) = InTables(tbl, x)

MmuInv ==
    /\ TablesOK
    /\ callback \in BOOLEAN
    /\ lost \subseteq Pages
    /\ failures \in 0 .. MaxFailures
    /\ damage \in 0 .. MaxDamage
    /\ translations \in Seq(Elements)
    /\ published \subseteq {translations}
    /\ damage = 0 => Proper(translations) /\ Agree(translations, tables, lost)

\* The result shows what is to be shown of the pages v .. v + n - 1, and what
\* the list shows of the others.
Follows(result, v, n) ==
    /\ Proper(result.list)
    /\ \A x \in Pages : ~Inside(x, v, n) =>
          /\ Shows(result.list, x) = Shows(translations, x)
          /\ mmu_translate(tables', x) = mmu_translate(tables, x)
    /\ result.ok => \A x \in Pages : Inside(x, v, n) =>
          Shows(result.list, x) = InTables(tables', x)

LEMMA MemoryFacts ==
    ASSUME MmuInv, NEW mem \in Memory, failures = MaxFailures
    PROVE  mem = Allocations
<1>1. Cardinality(Allocations \ mem) <= 0 /\ mem \subseteq Allocations
    BY RegionsFit DEF Memory, MmuInv
<1>2. IsFiniteSet(Allocations)
    <2>1. IsFiniteSet({"split"} \union {"new"} \union {"property"})
        BY FS_Singleton, FS_Union
    <2>2. Allocations = {"split"} \union {"new"} \union {"property"}
        BY DEF Allocations
    <2> QED
        BY <2>1, <2>2
<1>3. IsFiniteSet(Allocations \ mem)
    BY <1>2, FS_Subset
<1>4. Cardinality(Allocations \ mem) = 0
    BY <1>1, <1>3, FS_CardinalityType
<1>5. Allocations \ mem = {}
    BY <1>3, <1>4, FS_EmptySet
<1> QED
    BY <1>1, <1>5

\* A result of the list whose region has the pages of r.
LEMMA RememberKeeps ==
    ASSUME MmuInv, NEW r, NEW v, v = r.virt, NEW n, n = r.size, v \in Nat, n \in Nat, v + n < NPages,
           NEW result, NEW mem \in Memory, Remember(r, result, mem), damage < MaxDamage,
           callback' \in BOOLEAN, TablesOK',
           result.list \in Seq(Elements), result.ok \in BOOLEAN,
           failures = MaxFailures => result.ok,
           damage = 0 /\ ~Swallows(r) => Follows(result, v, n)
    PROVE  MmuInv'
<1>1. /\ translations' = result.list
      /\ published' = IF published = {} /\ "property" \notin mem THEN {} ELSE {result.list}
      /\ lost' = IF result.ok THEN lost \ Region(r) ELSE lost \union Region(r)
      /\ damage' = IF damage > 0 \/ Swallows(r) THEN damage + 1 ELSE 0
      /\ failures' = IF result.ok /\ published' # {} THEN failures ELSE failures + 1
    BY DEF Remember, make_translations
<1>2. Region(r) \subseteq Pages /\ \A x \in Nat : x \in Region(r) <=> Inside(x, v, n)
    BY RegionPages DEF Region, Inside
<1>3. \A x \in Pages : x \in Nat
    BY PageFacts
<1>4. failures' \in 0 .. MaxFailures
    <2>1. failures \in 0 .. MaxFailures /\ MaxFailures \in Nat
        BY RegionsFit DEF MmuInv
    <2>2. failures = MaxFailures => published' # {}
        <3>1. failures = MaxFailures => "property" \in mem
            BY MemoryFacts DEF Allocations
        <3> QED
            BY <1>1, <3>1
    <2> QED
        BY <1>1, <2>1, <2>2
<1>5. damage' \in 0 .. MaxDamage
    <2>1. damage \in 0 .. MaxDamage /\ MaxDamage \in Nat
        BY RegionsFit DEF MmuInv
    <2> QED
        BY <1>1, <2>1
<1>6. ASSUME damage' = 0, NEW x \in Pages \ lost'
      PROVE  Shows(translations', x) = InTables(tables', x)
    <2>1. damage = 0 /\ ~Swallows(r)
        BY <1>1, <1>6, RegionsFit DEF MmuInv
    <2>2. Follows(result, v, n)
        BY <2>1
    <2>3. CASE Inside(x, v, n)
        <3>1. result.ok
            BY <1>1, <1>2, <1>3, <1>6, <2>3
        <3> QED
            BY <1>1, <2>2, <2>3, <3>1 DEF Follows
    <2>4. CASE ~Inside(x, v, n)
        <3>1. x \notin lost
            BY <1>1, <1>2, <1>3, <1>6, <2>4
        <3>2. Shows(translations, x) = InTables(tables, x)
            BY <2>1, <3>1 DEF MmuInv, Agree
        <3>3. /\ Shows(result.list, x) = Shows(translations, x)
              /\ mmu_translate(tables', x) = mmu_translate(tables, x)
            BY <2>2, <2>4 DEF Follows
        <3> QED
            BY <1>1, <3>2, <3>3 DEF InTables
    <2> QED
        BY <2>3, <2>4
<1>7. damage' = 0 => Proper(translations')
    BY <1>1, RegionsFit DEF MmuInv, Follows
<1>8. lost' \subseteq Pages
    BY <1>1, <1>2 DEF MmuInv
<1>9. translations' \in Seq(Elements) /\ published' \subseteq {translations'}
    BY <1>1
<1> QED
    BY <1>4, <1>5, <1>6, <1>7, <1>8, <1>9 DEF MmuInv, Agree

\* If a call swallows no translation, those that start in its region reach the
\* region's end.
LEMMA ReachesUnlessSwallowed ==
    ASSUME MmuInv, NEW r, r.virt \in Nat, r.size \in Nat, r.virt + r.size < NPages, ~Swallows(r)
    PROVE  AllReach(translations, r.virt, r.size)
<1>1. DOMAIN translations = 1 .. Len(translations)
    BY LenProperties DEF MmuInv
<1>2. ASSUME NEW i \in 1 .. Len(translations)
      PROVE  Reaches(translations[i], r.virt, r.size)
    <2> DEFINE t == translations[i]
               v == r.virt
               n == r.size
    <2>1. t \in Elements
        BY ElementOfSeq DEF MmuInv
    <2>2. t.virt \in Nat /\ t.size \in Nat
        BY <2>1, ElementFields
    <2>3. ~(StartsIn(t, v, n) /\ t.size < WrapPage(v + n - t.virt))
        BY <1>1 DEF Swallows
    <2> HIDE DEF t, v, n
    <2>4. v \in Nat /\ n \in Nat /\ v + n < NPages /\ NPages \in Nat
        BY NoWrap DEF v, n
    <2>5. ASSUME v <= t.virt, t.virt < v + n
          PROVE  v + n <= t.virt + t.size
        <3>1. v + n \in Nat /\ v + n - t.virt \in Nat /\ v + n - t.virt < NPages
            BY <2>2, <2>4, <2>5
        <3>2. WrapPage(v + n) = v + n /\ WrapPage(v + n - t.virt) = v + n - t.virt
            BY <2>4, <3>1, NoWrap
        <3>3. ~(t.size < v + n - t.virt)
            BY <2>3, <2>5, <3>2 DEF StartsIn
        <3> QED
            BY <2>2, <2>4, <3>3
    <2> QED
        BY <2>5 DEF Reaches, t, v, n
<1> QED
    BY <1>2 DEF AllReach

LEMMA MapKeeps ==
    ASSUME MmuInv, NEW r \in MapReqs, NEW mem \in Memory, damage < MaxDamage, ~callback,
           f_mmu_map(r, mem), TablesOK'
    PROVE  MmuInv'
<1> DEFINE v == r.virt
           n == r.size
           result == add_translation(translations, r, mem)
<1>1. /\ v \in Nat /\ n \in Nat /\ r.phys \in Nat /\ r.mode \in Modes
      /\ v + n < NPages /\ Fits(r) /\ r \in Elements
    <2>1. Fits(r)
        BY RegionsFit DEF Fits
    <2> QED
        BY <2>1, FitsFacts
<1>2. /\ Remember(r, result, mem) /\ callback' \in BOOLEAN
      /\ tables' = map_region(tables, v, r.phys, n, r.mode)
    BY DEF f_mmu_map, MmuInv
<1>3. /\ result.list \in Seq(Elements) /\ result.ok \in BOOLEAN
      /\ "split" \in mem /\ "new" \in mem => result.ok
    BY <1>1, AddTyped DEF MmuInv
<1>4. failures = MaxFailures => result.ok
    BY <1>3, MemoryFacts DEF Allocations
<1>5. ASSUME NEW x \in Pages
      PROVE  mmu_translate(tables', x) =
                 IF Inside(x, v, n) THEN Image(r, x) ELSE mmu_translate(tables, x)
    BY <1>1, <1>2, MapEffect DEF MmuInv, TablesOK, TablesTyped, Inside, Image
<1>6. \A x \in Pages : x \in Nat
    BY PageFacts
<1>7. ASSUME damage = 0, ~Swallows(r)
      PROVE  Follows(result, v, n)
    <2>1. Proper(translations) /\ AllReach(translations, v, n)
        BY <1>1, <1>7, ReachesUnlessSwallowed DEF MmuInv
    <2>2. Added(translations, result, r)
        BY <1>1, <2>1, AddEffect
    <2> HIDE DEF result
    <2>3. /\ Proper(result.list)
          /\ \A x \in Pages : ~Inside(x, v, n) => Shows(result.list, x) = Shows(translations, x)
          /\ result.ok => \A x \in Pages : Inside(x, v, n) => Shows(result.list, x) = {Image(r, x)}
        BY <1>6, <2>2 DEF Added
    <2>4. \A x \in Pages : ~Inside(x, v, n) =>
              /\ Shows(result.list, x) = Shows(translations, x)
              /\ mmu_translate(tables', x) = mmu_translate(tables, x)
        BY <1>5, <2>3
    <2>5. result.ok => \A x \in Pages : Inside(x, v, n) => Shows(result.list, x) = InTables(tables', x)
        <3>1. ASSUME NEW x \in Pages, Inside(x, v, n)
              PROVE  Image(r, x) # Unmapped
            BY <1>1, <1>6, <3>1 DEF Image, Inside, SmallPage, Unmapped
        <3> QED
            BY <1>5, <2>3, <3>1 DEF InTables
    <2> QED
        BY <2>3, <2>4, <2>5 DEF Follows
<1> HIDE DEF result
<1> QED
    BY <1>1, <1>2, <1>3, <1>4, <1>7, RememberKeeps

LEMMA UnmapKeeps ==
    ASSUME MmuInv, NEW r \in UnmapReqs, NEW mem \in Memory, damage < MaxDamage, ~callback,
           f_mmu_unmap(r, mem), TablesOK'
    PROVE  MmuInv'
<1> DEFINE v == r.virt
           n == r.size
           result == remove_translation(translations, v, n, "split" \in mem)
<1>1. v \in Nat /\ n \in Nat /\ v + n < NPages
    BY RegionsFit
<1>2. /\ Remember(r, result, mem) /\ callback' \in BOOLEAN
      /\ tables' = unmap_region(tables, v, n)
    BY DEF f_mmu_unmap, MmuInv
<1>3. /\ result.list \in Seq(Elements) /\ result.ok \in BOOLEAN
      /\ "split" \in mem => result.ok
    <2>1. ("split" \in mem) \in BOOLEAN
        OBVIOUS
    <2> QED
        BY <1>1, <2>1, RemoveTyped DEF MmuInv
<1>4. failures = MaxFailures => result.ok
    BY <1>3, MemoryFacts DEF Allocations
<1>5. ASSUME NEW x \in Pages
      PROVE  mmu_translate(tables', x) =
                 IF Inside(x, v, n) THEN Unmapped ELSE mmu_translate(tables, x)
    BY <1>1, <1>2, UnmapEffect DEF MmuInv, TablesOK, TablesTyped, Inside
<1>6. \A x \in Pages : x \in Nat
    BY PageFacts
<1>7. ASSUME damage = 0, ~Swallows(r)
      PROVE  Follows(result, v, n)
    <2>1. Proper(translations) /\ AllReach(translations, v, n)
        BY <1>1, <1>7, ReachesUnlessSwallowed DEF MmuInv
    <2>2. Removed(translations, result, v, n)
        BY <1>1, <2>1, RemoveEffect
    <2> HIDE DEF result
    <2>3. /\ Proper(result.list)
          /\ \A x \in Pages : ~Inside(x, v, n) => Shows(result.list, x) = Shows(translations, x)
          /\ result.ok => \A x \in Pages : Inside(x, v, n) => Shows(result.list, x) = {}
        BY <1>6, <2>2 DEF Removed
    <2>4. \A x \in Pages : ~Inside(x, v, n) =>
              /\ Shows(result.list, x) = Shows(translations, x)
              /\ mmu_translate(tables', x) = mmu_translate(tables, x)
        BY <1>5, <2>3
    <2>5. result.ok => \A x \in Pages : Inside(x, v, n) => Shows(result.list, x) = InTables(tables', x)
        BY <1>5, <2>3 DEF InTables
    <2> QED
        BY <2>3, <2>4, <2>5 DEF Follows
<1> HIDE DEF result
<1> QED
    BY <1>1, <1>2, <1>3, <1>4, <1>7, RememberKeeps

LEMMA MmuInvKept ==
    ASSUME MmuInv, [MmuNext]_mmuVars
    PROVE  MmuInv'
<1>1. CASE UNCHANGED mmuVars
    BY <1>1 DEF MmuInv, TablesOK, Agree, mmuVars
<1>2. CASE SetCallback
    BY <1>2 DEF MmuInv, TablesOK, Agree, SetCallback
<1>3. ASSUME NEW r \in MapReqs, NEW mem \in Memory, damage < MaxDamage, f_mmu_map(r, mem)
      PROVE  MmuInv'
    <2>1. CASE callback
        BY <1>1, <1>3, <2>1 DEF f_mmu_map
    <2>2. CASE ~callback
        <3>1. TablesOK'
            BY <1>3, TablesKept DEF MmuNext, MmuInv
        <3> QED
            BY <1>3, <2>2, <3>1, MapKeeps
    <2> QED
        BY <2>1, <2>2
<1>4. ASSUME NEW r \in UnmapReqs, NEW mem \in Memory, damage < MaxDamage, f_mmu_unmap(r, mem)
      PROVE  MmuInv'
    <2>1. CASE callback
        BY <1>1, <1>4, <2>1 DEF f_mmu_unmap
    <2>2. CASE ~callback
        <3>1. TablesOK'
            BY <1>4, TablesKept DEF MmuNext, MmuInv
        <3> QED
            BY <1>4, <2>2, <3>1, UnmapKeeps
    <2> QED
        BY <2>1, <2>2
<1> QED
    BY <1>1, <1>2, <1>3, <1>4 DEF MmuNext

-----------------------------------------------------------------------------
(* mmu_init_translations. *)

LEMMA RunEndFacts ==
    ASSUME NEW tbl, NEW v \in Pages
    PROVE  /\ RunEnd(tbl, v) \in v + 1 .. NPages
           /\ RunEnd(tbl, v) = NPages \/ ~Continues(tbl, v, RunEnd(tbl, v))
           /\ \A x \in v + 1 .. RunEnd(tbl, v) - 1 : Continues(tbl, v, x)
<1> DEFINE ends == {w \in v + 1 .. NPages : w = NPages \/ ~Continues(tbl, v, w)}
           w == CHOOSE x \in ends : \A y \in ends : x <= y
<1>1. v \in Nat /\ NPages \in Nat /\ v < NPages
    BY NoWrap DEF Pages
<1>2. ends \subseteq Nat /\ NPages \in ends
    BY <1>1
<1>3. w \in ends /\ \A y \in ends : w <= y
    <2>1. \E x \in ends : \A y \in ends : x <= y
        <3> HIDE DEF ends
        <3> QED
            BY <1>2, Least
    <2> HIDE DEF ends
    <2> QED
        BY <2>1
<1>4. RunEnd(tbl, v) = w
    BY DEF RunEnd
<1> HIDE DEF w
<1>5. ASSUME NEW x \in v + 1 .. w - 1
      PROVE  Continues(tbl, v, x)
    <2>1. w \in v + 1 .. NPages
        BY <1>3
    <2>2. x \in v + 1 .. NPages /\ ~(w <= x)
        BY <1>1, <2>1
    <2>3. x \notin ends
        BY <1>3, <2>2
    <2> QED
        BY <2>2, <2>3
<1> QED
    BY <1>3, <1>4, <1>5

\* A run maps its pages as the tables do.
LEMMA RunEffect ==
    ASSUME NEW tbl, BoardTable(tbl), NEW v \in Pages, mmu_translate(tbl, v) # Unmapped
    PROVE  /\ RunEnd(tbl, v) \in v + 1 .. NPages - 1
           /\ Fits(Run(tbl, v)) /\ Run(tbl, v).size > 0 /\ Run(tbl, v).virt = v
           /\ Run(tbl, v).virt + Run(tbl, v).size = RunEnd(tbl, v)
           /\ \A x \in v .. RunEnd(tbl, v) - 1 :
                 mmu_translate(tbl, x) = Image(Run(tbl, v), x) /\ mmu_translate(tbl, x) # Unmapped
<1> DEFINE w == RunEnd(tbl, v)
           first == mmu_translate(tbl, v)
           n == w - 1 - v
           T == {k \in 0 .. n : mmu_translate(tbl, v + k) = SmallPage(first.phys + k, first.mode)}
<1>1. /\ v \in Nat /\ NPages \in Nat /\ v < NPages /\ w \in v + 1 .. NPages
      /\ \A x \in v + 1 .. w - 1 : Continues(tbl, v, x)
    BY NoWrap, RunEndFacts DEF Pages
<1>2. \A x \in Pages : mmu_translate(tbl, x) # Unmapped =>
          /\ mmu_translate(tbl, x).phys \in Nat /\ mmu_translate(tbl, x).mode \in Modes
          /\ mmu_translate(tbl, x) = SmallPage(mmu_translate(tbl, x).phys, mmu_translate(tbl, x).mode)
    <2>1. ASSUME NEW y \in Pte, y # Unmapped
          PROVE  y.phys \in Nat /\ y.mode \in Modes /\ y = SmallPage(y.phys, y.mode)
        BY <2>1, TableAssumption DEF Pte, SmallPage, Frames
    <2> QED
        BY <2>1, TranslateTyped DEF BoardTable
<1>3. first.phys \in Nat /\ first.mode \in Modes /\ first = SmallPage(first.phys, first.mode)
    BY <1>2
<1> HIDE DEF w
<1>4. n \in Nat
    BY <1>1
<1>5. 0 \in T
    <2>1. v + 0 = v /\ first.phys + 0 = first.phys /\ 0 \in 0 .. n
        BY <1>1, <1>3, <1>4
    <2>2. mmu_translate(tbl, v + 0) = SmallPage(first.phys + 0, first.mode)
        BY <1>3, <2>1
    <2> QED
        BY <2>1, <2>2
<1>6. ASSUME NEW k \in 0 .. n - 1, k \in T
      PROVE  k + 1 \in T
    <2> DEFINE x == v + k
               y == v + (k + 1)
    <2>1. /\ x \in Pages /\ y \in Pages /\ y = x + 1 /\ y - 1 = x /\ y \in v + 1 .. w - 1
          /\ k \in Nat /\ k + 1 \in 0 .. n
        BY <1>1, <1>4 DEF Pages
    <2>2. mmu_translate(tbl, x) = SmallPage(first.phys + k, first.mode)
        BY <1>6
    <2>3. /\ mmu_translate(tbl, x).phys = first.phys + k
          /\ mmu_translate(tbl, x).mode = first.mode /\ mmu_translate(tbl, x) # Unmapped
        BY <1>3, <2>1, <2>2 DEF SmallPage, Unmapped
    <2>4. Continues(tbl, v, y)
        BY <1>1, <2>1
    <2> HIDE DEF x, y
    <2>5. /\ mmu_translate(tbl, y) # Unmapped
          /\ mmu_translate(tbl, y).phys = mmu_translate(tbl, x).phys + 1
        BY <2>1, <2>4 DEF Continues
    <2>6. mmu_translate(tbl, y).mode = first.mode
        BY <2>1, <2>3, <2>5 DEF BoardTable
    <2>7. mmu_translate(tbl, y).phys = first.phys + (k + 1)
        BY <1>3, <2>1, <2>3, <2>5
    <2>8. mmu_translate(tbl, y) = SmallPage(first.phys + (k + 1), first.mode)
        BY <1>2, <2>1, <2>5, <2>6, <2>7
    <2> QED
        BY <2>1, <2>8 DEF y
<1>7. ASSUME NEW x \in v .. w - 1
      PROVE  /\ x \in Pages
             /\ mmu_translate(tbl, x) = SmallPage(first.phys + x - v, first.mode)
             /\ mmu_translate(tbl, x) # Unmapped
             /\ mmu_translate(tbl, x).phys = first.phys + x - v
    <2>1. \A k \in 0 .. n : k \in T
        <3> HIDE DEF T, n
        <3> QED
            BY <1>4, <1>5, <1>6, Induction
    <2>2. x - v \in 0 .. n /\ v + (x - v) = x /\ x \in Pages /\ first.phys + (x - v) = first.phys + x - v
        BY <1>1, <1>3 DEF Pages
    <2>3. x - v \in T
        BY <2>1, <2>2
    <2>4. mmu_translate(tbl, x) = SmallPage(first.phys + x - v, first.mode)
        BY <2>2, <2>3
    <2>5. first.phys + x - v \in Nat
        BY <1>3, <2>2
    <2> QED
        BY <2>2, <2>4, <2>5 DEF SmallPage, Unmapped
<1>8. w \in v + 1 .. NPages - 1
    <2>1. ASSUME w = NPages
          PROVE  FALSE
        <3>1. NPages - 1 \in v .. w - 1
            BY <1>1, <2>1
        <3> QED
            BY <1>7, <3>1 DEF BoardTable
    <2> QED
        BY <1>1, <2>1
<1>9. first.phys + (w - v) < NPages
    <2>1. w - 1 \in v .. w - 1
        BY <1>1
    <2>2. mmu_translate(tbl, w - 1).phys + 1 < NPages
        BY <1>7, <2>1 DEF BoardTable
    <2>3. mmu_translate(tbl, w - 1).phys = first.phys + (w - 1) - v
        BY <1>7, <2>1
    <2> QED
        BY <1>1, <1>3, <2>2, <2>3
<1> DEFINE r == Run(tbl, v)
<1>10. /\ r = [virt |-> v, size |-> w - v, phys |-> first.phys, mode |-> first.mode]
    BY DEF Run, w
<1> HIDE DEF r, first
<1>11. /\ r.virt = v /\ r.size = w - v /\ r.phys = first.phys /\ r.mode = first.mode
       /\ w - v \in Nat /\ w - v > 0 /\ v + (w - v) = w
    BY <1>1, <1>8, <1>10
<1>12. Fits(r)
    <2>1. r \in [virt : Nat, size : Nat, phys : Nat, mode : Modes]
        BY <1>1, <1>3, <1>10, <1>11
    <2>2. r.virt + r.size < NPages /\ r.phys + r.size < NPages
        BY <1>1, <1>8, <1>9, <1>11
    <2> QED
        BY <2>1, <2>2 DEF Fits
<1>13. \A x \in v .. w - 1 : mmu_translate(tbl, x) = Image(r, x) /\ mmu_translate(tbl, x) # Unmapped
    BY <1>7, <1>11 DEF Image
<1> QED
    BY <1>8, <1>11, <1>12, <1>13 DEF w, r

\* The recursion of AllRuns, which goes down the pages, has a solution.
LEMMA AllRunsEquation ==
    ASSUME NEW tbl
    PROVE  \E runs : /\ AllRuns(tbl) = runs[0] /\ runs[NPages] = <<>>
                     /\ \A v \in Pages :
                           runs[v] = IF mmu_translate(tbl, v) = Unmapped THEN runs[v + 1]
                                     ELSE <<Run(tbl, v)>> \o runs[RunEnd(tbl, v)]
<1> DEFINE Grow(g, v) == IF v = NPages THEN <<>>
                         ELSE IF mmu_translate(tbl, v) = Unmapped THEN g[v + 1]
                         ELSE <<Run(tbl, v)>> \o g[RunEnd(tbl, v)]
           T == {k \in 0 .. NPages : \E g : g = [v \in NPages - k .. NPages |-> Grow(g, v)]}
           runs == CHOOSE g : g = [v \in 0 .. NPages |-> Grow(g, v)]
<1>0. NPages \in Nat /\ \A v \in 0 .. NPages : v # NPages => v \in Pages
    BY NoWrap DEF Pages
<1>1. 0 \in T
    <2> DEFINE g == [v \in NPages - 0 .. NPages |-> <<>>]
    <2>1. \A v \in NPages - 0 .. NPages : Grow(g, v) = <<>>
        BY <1>0
    <2> HIDE DEF Grow
    <2>2. g = [v \in NPages - 0 .. NPages |-> Grow(g, v)]
        BY <2>1
    <2> HIDE DEF g, Grow
    <2>3. 0 \in 0 .. NPages /\ \E f : f = [v \in NPages - 0 .. NPages |-> Grow(f, v)]
        BY <1>0, <2>2
    <2> QED
        BY <2>3
<1>2. ASSUME NEW k \in 0 .. NPages - 1, k \in T
      PROVE  k + 1 \in T
    <2> DEFINE D == NPages - k .. NPages
               u == NPages - (k + 1)
               E == u .. NPages
    <2>1. PICK g : g = [v \in D |-> Grow(g, v)]
        BY <1>2
    <2>2. /\ u \in E /\ u \notin D /\ u \in Pages /\ u # NPages /\ u + 1 \in D
          /\ \A v \in E : v # u => v \in D
          /\ \A v \in D : v \in E /\ v # u
          /\ \A v \in D : v # NPages => v \in Pages /\ v + 1 \in D
          /\ \A v \in D : \A w \in v + 1 .. NPages : w \in D
          /\ \A w \in u + 1 .. NPages : w \in D
        BY <1>0 DEF Pages
    <2>3. \A v \in Pages : RunEnd(tbl, v) \in v + 1 .. NPages
        BY RunEndFacts
    <2> HIDE DEF D, E, u
    <2> DEFINE h == [v \in E |-> IF v = u THEN Grow(g, u) ELSE g[v]]
    <2>4. \A v \in D : h[v] = g[v]
        BY <2>2
    <2>5. ASSUME NEW v \in E
          PROVE  Grow(h, v) = Grow(g, v)
        <3> HIDE DEF h
        <3>1. CASE v = NPages
            BY <3>1
        <3>2. CASE v # NPages
            <4>1. v \in Pages /\ v + 1 \in D /\ RunEnd(tbl, v) \in D
                BY <2>2, <2>3, <3>2
            <4> QED
                BY <2>4, <3>2, <4>1
        <3> QED
            BY <3>1, <3>2
    <2> HIDE DEF Grow
    <2>6. ASSUME NEW v \in E
          PROVE  h[v] = Grow(h, v)
        <3>1. CASE v = u
            BY <2>5, <3>1
        <3>2. CASE v # u
            <4>1. v \in D
                BY <2>2, <3>2
            <4>2. h[v] = g[v] /\ g[v] = Grow(g, v)
                BY <2>1, <2>4, <4>1
            <4> QED
                BY <2>5, <4>2
        <3> QED
            BY <3>1, <3>2
    <2>7. h = [v \in E |-> h[v]]
        OBVIOUS
    <2>8. h = [v \in E |-> Grow(h, v)]
        <3> HIDE DEF h
        <3> QED
            BY <2>6, <2>7
    <2>9. k + 1 \in 0 .. NPages
        BY <1>0
    <2> HIDE DEF h
    <2> QED
        BY <2>8, <2>9 DEF E, u
<1>3. NPages \in T
    <2>1. \A k \in 0 .. NPages : k \in T
        <3> HIDE DEF T
        <3> QED
            BY <1>0, <1>1, <1>2, Induction
    <2> HIDE DEF T
    <2>2. NPages \in 0 .. NPages
        BY <1>0
    <2> QED
        BY <2>1, <2>2
<1>4. runs = [v \in 0 .. NPages |-> Grow(runs, v)]
    <2> DEFINE All(g) == [v \in 0 .. NPages |-> Grow(g, v)]
    <2>1. \E g : g = All(g)
        <3>1. NPages - NPages = 0
            BY <1>0
        <3> HIDE DEF Grow
        <3> QED
            BY <1>3, <3>1
    <2>2. runs = CHOOSE g : g = All(g)
        OBVIOUS
    <2>3. runs = All(runs)
        <3> HIDE DEF All, runs
        <3> QED
            BY <2>1, <2>2
    <2> HIDE DEF Grow, runs
    <2> QED
        BY <2>3
<1>5. AllRuns(tbl) = runs[0]
    BY DEF AllRuns
<1> HIDE DEF runs
<1>6. ASSUME NEW v \in 0 .. NPages
      PROVE  runs[v] = Grow(runs, v)
    <2> HIDE DEF Grow
    <2> QED
        BY <1>4
<1>7. NPages \in 0 .. NPages /\ \A v \in Pages : v \in 0 .. NPages /\ v # NPages
    BY <1>0 DEF Pages
<1> QED
    BY <1>5, <1>6, <1>7

\* The runs are in order and show what the tables do.
LEMMA AllRunsEffect ==
    ASSUME NEW tbl, BoardTable(tbl)
    PROVE  /\ Proper(AllRuns(tbl))
           /\ \A x \in Pages : Shows(AllRuns(tbl), x) = InTables(tbl, x)
<1>1. PICK runs : /\ AllRuns(tbl) = runs[0] /\ runs[NPages] = <<>>
                  /\ \A v \in Pages :
                        runs[v] = IF mmu_translate(tbl, v) = Unmapped THEN runs[v + 1]
                                  ELSE <<Run(tbl, v)>> \o runs[RunEnd(tbl, v)]
    BY AllRunsEquation
<1> DEFINE Right(v) == /\ Proper(runs[v]) /\ Beyond(runs[v], v)
                       /\ \A x \in Pages : Shows(runs[v], x) =
                             IF x < v THEN {} ELSE InTables(tbl, x)
           T == {k \in 0 .. NPages : \A v \in NPages - k .. NPages : Right(v)}
<1>2. NPages \in Nat /\ \A x \in Pages : x \in Nat /\ x < NPages
    BY NoWrap DEF Pages
<1>3. 0 \in T
    <2>1. Right(NPages)
        BY <1>1, <1>2, EmptyList
    <2>2. \A v \in NPages - 0 .. NPages : v = NPages
        BY <1>2
    <2> HIDE DEF Right
    <2> QED
        BY <1>2, <2>1, <2>2
<1>4. ASSUME NEW k \in 0 .. NPages - 1, k \in T
      PROVE  k + 1 \in T
    <2> DEFINE v == NPages - (k + 1)
    <2>1. /\ v \in Pages /\ v \in Nat /\ v + 1 \in NPages - k .. NPages /\ k + 1 \in 0 .. NPages
          /\ \A w \in v + 1 .. NPages : w \in NPages - k .. NPages /\ w \in Nat
          /\ \A w \in NPages - (k + 1) .. NPages : w = v \/ w \in NPages - k .. NPages
        BY <1>2 DEF Pages
    <2>2. \A w \in v + 1 .. NPages : Right(w)
        <3> HIDE DEF Right, v
        <3> QED
            BY <1>4, <2>1
    <2> HIDE DEF v
    <2>3. CASE mmu_translate(tbl, v) = Unmapped
        <3>1. runs[v] = runs[v + 1] /\ v + 1 \in v + 1 .. NPages
            <4>1. v + 1 \in v + 1 .. NPages
                BY <1>2, <2>1
            <4>2. v \in Pages
                BY <2>1
            <4> QED
                BY <1>1, <2>3, <4>1, <4>2
        <3>2. Right(v + 1)
            BY <2>2, <3>1
        <3>3. Beyond(runs[v], v)
            <4>1. \A i \in 1 .. Len(runs[v]) : runs[v][i].virt \in Nat /\ v + 1 <= runs[v][i].virt
                BY <3>1, <3>2, ListKind, ListFacts DEF Beyond
            <4> QED
                BY <2>1, <4>1 DEF Beyond
        <3>4. ASSUME NEW x \in Pages
              PROVE  Shows(runs[v], x) = IF x < v THEN {} ELSE InTables(tbl, x)
            <4>1. Shows(runs[v], x) = IF x < v + 1 THEN {} ELSE InTables(tbl, x)
                BY <3>1, <3>2
            <4>2. x = v => InTables(tbl, x) = {}
                BY <2>3 DEF InTables
            <4>3. x < v + 1 <=> x < v \/ x = v
                BY <1>2, <2>1
            <4> QED
                BY <4>1, <4>2, <4>3
        <3>5. Right(v)
            BY <3>1, <3>2, <3>3, <3>4
        <3> HIDE DEF Right
        <3> QED
            BY <2>1, <2>2, <3>5, <1>4
    <2>4. CASE mmu_translate(tbl, v) # Unmapped
        <3> DEFINE w == RunEnd(tbl, v)
                   r == Run(tbl, v)
                   rest == runs[w]
        <3>1. /\ w \in v + 1 .. NPages - 1
              /\ Fits(r) /\ r.size > 0 /\ r.virt = v /\ r.virt + r.size = w
              /\ \A x \in v .. w - 1 :
                    mmu_translate(tbl, x) = Image(r, x) /\ mmu_translate(tbl, x) # Unmapped
            BY <2>1, <2>4, RunEffect
        <3>2. runs[v] = <<r>> \o rest
            BY <1>1, <2>1, <2>4
        <3> HIDE DEF r, w
        <3>3. w \in v + 1 .. NPages /\ w \in Nat
            BY <1>2, <2>1, <3>1
        <3>4. Right(w)
            BY <2>2, <3>3
        <3>5. /\ Proper(rest) /\ Beyond(rest, w)
              /\ \A x \in Pages : Shows(rest, x) = IF x < w THEN {} ELSE InTables(tbl, x)
            BY <3>4
        <3> HIDE DEF rest
        <3>6. /\ Proper(<<r>>) /\ Below(<<r>>, w) /\ Beyond(<<r>>, v)
              /\ \A x : Shows(<<r>>, x) = Image1(r, x)
            BY <3>1, ShowsOne
        <3>7. /\ Proper(<<r>> \o rest)
              /\ \A x : Shows(<<r>> \o rest, x) = Shows(<<r>>, x) \union Shows(rest, x)
              /\ \A z : Beyond(<<r>>, z) /\ Beyond(rest, z) => Beyond(<<r>> \o rest, z)
            BY <3>3, <3>5, <3>6, JoinedProper
        <3>8. Beyond(rest, v)
            <4>1. \A i \in 1 .. Len(rest) : rest[i].virt \in Nat /\ w <= rest[i].virt
                BY <3>5, ListKind, ListFacts DEF Beyond
            <4> QED
                BY <2>1, <3>3, <4>1 DEF Beyond
        <3>9. ASSUME NEW x \in Pages
              PROVE  Shows(runs[v], x) = IF x < v THEN {} ELSE InTables(tbl, x)
            <4>1. Shows(runs[v], x) = Image1(r, x) \union (IF x < w THEN {} ELSE InTables(tbl, x))
                BY <3>2, <3>5, <3>6, <3>7
            <4>2. Covers(r, x) <=> v <= x /\ x < w
                BY <3>1 DEF Covers
            <4>3. x \in Nat /\ v \in Nat /\ w \in Nat /\ v < w
                BY <1>2, <2>1, <3>3
            <4>4. CASE x < v
                <5>1. ~Covers(r, x) /\ x < w
                    BY <4>2, <4>3, <4>4
                <5> QED
                    BY <4>1, <4>4, <5>1 DEF Image1
            <4>5. CASE v <= x /\ x < w
                <5>1. x \in v .. w - 1 /\ ~(x < v)
                    BY <4>3, <4>5
                <5>2. InTables(tbl, x) = {Image(r, x)}
                    BY <3>1, <5>1 DEF InTables
                <5> QED
                    BY <4>1, <4>2, <4>5, <5>1, <5>2 DEF Image1
            <4>6. CASE w <= x
                <5>1. ~Covers(r, x) /\ ~(x < w) /\ ~(x < v)
                    BY <4>2, <4>3, <4>6
                <5> QED
                    BY <4>1, <5>1 DEF Image1
            <4> QED
                BY <4>3, <4>4, <4>5, <4>6
        <3>10. Right(v)
            BY <3>2, <3>6, <3>7, <3>8, <3>9
        <3> HIDE DEF Right
        <3> QED
            BY <2>1, <2>2, <3>10, <1>4
    <2> QED
        BY <2>3, <2>4
<1>5. Right(0)
    <2>1. \A k \in 0 .. NPages : k \in T
        <3> HIDE DEF T
        <3> QED
            BY <1>2, <1>3, <1>4, Induction
    <2>2. NPages \in 0 .. NPages /\ 0 \in NPages - NPages .. NPages
        BY <1>2
    <2> HIDE DEF Right
    <2>3. NPages \in T
        <3> HIDE DEF T
        <3> QED
            BY <2>1, <2>2
    <2> QED
        BY <2>2, <2>3
<1>6. \A x \in Pages : ~(x < 0)
    BY <1>2
<1> QED
    BY <1>1, <1>5, <1>6

\* The recursion of mmu_init_translations has a solution.
LEMMA InitEquation ==
    ASSUME NEW tbl, NEW l, l = AllRuns(tbl), Len(l) \in Nat
    PROVE  \E list : /\ mmu_init_translations(tbl) = list[Len(l)] /\ list[0] = <<>>
                     /\ \A k \in 1 .. Len(l) :
                           list[k] = add_translation(list[k - 1], l[k], {"split", "new"}).list
<1> DEFINE n == Len(l)
           Grow(g, k) == IF k = 0 THEN <<>>
                         ELSE add_translation(g[k - 1], l[k], {"split", "new"}).list
           T == {k \in 0 .. n : \E g : g = [i \in 0 .. k |-> Grow(g, i)]}
           list == CHOOSE g : g = [k \in 0 .. n |-> Grow(g, k)]
<1>1. 0 \in T
    <2> DEFINE g == [i \in 0 .. 0 |-> <<>>]
    <2>1. \A i \in 0 .. 0 : Grow(g, i) = <<>>
        OBVIOUS
    <2> HIDE DEF Grow
    <2>2. g = [i \in 0 .. 0 |-> Grow(g, i)]
        BY <2>1
    <2> QED
        BY <2>2
<1>2. ASSUME NEW k \in 0 .. n - 1, k \in T
      PROVE  k + 1 \in T
    <2>1. PICK g : g = [i \in 0 .. k |-> Grow(g, i)]
        BY <1>2
    <2> DEFINE h == [i \in 0 .. k + 1 |-> IF i = k + 1 THEN Grow(g, k + 1) ELSE g[i]]
    <2>2. ASSUME NEW i \in 0 .. k + 1
          PROVE  h[i] = Grow(h, i)
        <3>1. CASE i = 0
            <4>1. h[i] = g[0] /\ g[0] = Grow(g, 0) /\ Grow(g, 0) = <<>> /\ Grow(h, i) = <<>>
                BY <2>1, <3>1
            <4> QED
                BY <4>1
        <3>2. CASE i # 0
            <4>1. i - 1 \in 0 .. k /\ i - 1 \in 0 .. k + 1 /\ i - 1 # k + 1
                BY <3>2
            <4>2. h[i - 1] = g[i - 1]
                BY <4>1
            <4> HIDE DEF h
            <4>3. Grow(h, i) = Grow(g, i)
                BY <3>2, <4>2
            <4>4. h[i] = Grow(g, i)
                <5>1. CASE i = k + 1
                    BY <5>1 DEF h
                <5>2. CASE i # k + 1
                    <6>1. i \in 0 .. k
                        BY <5>2
                    <6> HIDE DEF Grow
                    <6> QED
                        BY <2>1, <5>2, <6>1 DEF h
                <5> QED
                    BY <5>1, <5>2
            <4> QED
                BY <4>3, <4>4
        <3> QED
            BY <3>1, <3>2
    <2> HIDE DEF Grow
    <2>3. h = [i \in 0 .. k + 1 |-> h[i]]
        OBVIOUS
    <2>4. h = [i \in 0 .. k + 1 |-> Grow(h, i)]
        <3> HIDE DEF h
        <3> QED
            BY <2>2, <2>3
    <2> HIDE DEF h
    <2> QED
        BY <2>4
<1>3. n \in T
    <2>1. \A k \in 0 .. n : k \in T
        <3> HIDE DEF T
        <3> QED
            BY <1>1, <1>2, Induction
    <2> HIDE DEF T
    <2>2. n \in 0 .. n
        OBVIOUS
    <2> QED
        BY <2>1, <2>2
<1>4. list = [k \in 0 .. n |-> Grow(list, k)]
    <2> DEFINE All(g) == [k \in 0 .. n |-> Grow(g, k)]
    <2>1. \E g : g = All(g)
        BY <1>3
    <2>2. list = CHOOSE g : g = All(g)
        OBVIOUS
    <2>3. list = All(list)
        <3> HIDE DEF All, list
        <3> QED
            BY <2>1, <2>2
    <2> HIDE DEF Grow, list
    <2> QED
        BY <2>3
<1>5. mmu_init_translations(tbl) = list[n]
    BY DEF mmu_init_translations
<1> HIDE DEF list
<1>6. ASSUME NEW k \in 0 .. n
      PROVE  list[k] = Grow(list, k)
    <2> HIDE DEF Grow
    <2> QED
        BY <1>4
<1> QED
    BY <1>5, <1>6

\* What the first k translations of a list show.
LEMMA PartGrows ==
    ASSUME NEW l, Proper(l), NEW k \in 1 .. Len(l), NEW x \in Nat
    PROVE  PartShows(l, 1, k, x) = IF Covers(l[k], x) THEN {Image(l[k], x)}
                                   ELSE PartShows(l, 1, k - 1, x)
<1>1. ASSUME Covers(l[k], x), NEW j \in 1 .. k, Covers(l[j], x)
      PROVE  j = k
    <2>1. ASSUME j < k
          PROVE  FALSE
        <3>1. l[j].virt + l[j].size <= l[k].virt
            BY <2>1, ListKind DEF InOrder
        <3>2. /\ l[j].virt \in Nat /\ l[j].size \in Nat /\ l[k].virt \in Nat
              /\ l[k].virt <= x /\ x < l[j].virt + l[j].size
            BY <1>1, ListKind, ListFacts DEF Covers
        <3>3. PICK a : a = l[j].virt + l[j].size
            OBVIOUS
        <3>4. PICK b : b = l[k].virt
            OBVIOUS
        <3>5. a \in Nat /\ b \in Nat /\ x < a
            BY <3>2, <3>3, <3>4
        <3>6. a <= b /\ b <= x
            BY <3>1, <3>2, <3>3, <3>4
        <3> QED
            BY <3>5, <3>6
    <2> QED
        BY <2>1
<1>2. /\ k \in 1 .. k /\ \A j \in 1 .. k - 1 : j \in 1 .. k
      /\ \A j \in 1 .. k : j = k \/ j \in 1 .. k - 1
    OBVIOUS
<1>3. CASE Covers(l[k], x)
    <2>1. {j \in 1 .. k : Covers(l[j], x)} = {k}
        BY <1>1, <1>2, <1>3
    <2> QED
        BY <1>3, <2>1 DEF PartShows
<1>4. CASE ~Covers(l[k], x)
    <2>1. {j \in 1 .. k : Covers(l[j], x)} = {j \in 1 .. k - 1 : Covers(l[j], x)}
        BY <1>2, <1>4
    <2> QED
        BY <1>4, <2>1 DEF PartShows
<1> QED
    BY <1>3, <1>4

\* The list a board starts with says what its tables do.
LEMMA InitEffect ==
    ASSUME NEW tbl, BoardTable(tbl)
    PROVE  /\ Proper(mmu_init_translations(tbl))
           /\ Agree(mmu_init_translations(tbl), tbl, {})
<1>1. PICK l : l = AllRuns(tbl)
    OBVIOUS
<1>2. Proper(l) /\ \A x \in Pages : Shows(l, x) = InTables(tbl, x)
    BY <1>1, AllRunsEffect
<1>3. Len(l) \in Nat /\ l \in Seq(Elements)
    BY <1>2, ListKind, LenProperties
<1>4. PICK list : /\ mmu_init_translations(tbl) = list[Len(l)] /\ list[0] = <<>>
                  /\ \A k \in 1 .. Len(l) :
                        list[k] = add_translation(list[k - 1], l[k], {"split", "new"}).list
    BY <1>1, <1>3, InitEquation
<1> DEFINE n == Len(l)
           Right(k) == /\ Proper(list[k])
                       /\ \A x \in Nat : Shows(list[k], x) = PartShows(l, 1, k, x)
           T == {k \in 0 .. n : Right(k)}
<1>5. 0 \in T
    <2>1. \A x \in Nat : PartShows(l, 1, 0, x) = {}
        BY DEF PartShows
    <2>2. Proper(list[0]) /\ \A x \in Nat : Shows(list[0], x) = {}
        BY <1>4, EmptyList
    <2> QED
        <3>1. 0 \in 0 .. n
            BY <1>3
        <3>2. Right(0)
            BY <2>1, <2>2
        <3> HIDE DEF Right
        <3> QED
            BY <3>1, <3>2
<1>6. ASSUME NEW k \in 0 .. n - 1, k \in T
      PROVE  k + 1 \in T
    <2>1. PICK m : m = k + 1
        OBVIOUS
    <2>2. m \in 1 .. n /\ m - 1 = k /\ k \in Nat /\ m \in 0 .. n
        BY <1>3, <2>1
    <2>3. PICK before : before = list[k]
        OBVIOUS
    <2>4. Proper(before) /\ \A x \in Nat : Shows(before, x) = PartShows(l, 1, k, x)
        BY <1>6, <2>3
    <2>5. PICK t : t = l[m]
        OBVIOUS
    <2>6. Fits(t) /\ t.size > 0 /\ t.virt \in Nat /\ t.size \in Nat
        BY <1>2, <2>2, <2>5, ListKind, ListFacts DEF Proper
    <2>7. AllReach(before, t.virt, t.size)
        <3>1. ASSUME NEW i \in 1 .. Len(before)
              PROVE  before[i].virt < t.virt
            <4>1. PICK x : x = before[i].virt
                OBVIOUS
            <4>2. /\ x \in Nat /\ before[i].size \in Nat /\ before[i].size > 0
                BY <2>4, <4>1, ListKind, ListFacts DEF Proper
            <4>3. Covers(before[i], x)
                BY <4>1, <4>2 DEF Covers
            <4>4. PartShows(l, 1, k, x) # {}
                <5>1. Image(before[i], x) \in Shows(before, x)
                    BY <4>3 DEF Shows
                <5> QED
                    BY <2>4, <4>2, <5>1
            <4>5. PICK j \in 1 .. k : Covers(l[j], x)
                BY <4>4 DEF PartShows
            <4>6. j \in 1 .. n /\ j < m
                BY <2>1, <2>2
            <4>7. l[j].virt + l[j].size <= t.virt
                BY <1>2, <2>2, <2>5, <4>6, ListKind DEF InOrder
            <4>8. x < l[j].virt + l[j].size /\ l[j].virt \in Nat /\ l[j].size \in Nat
                BY <1>2, <4>5, <4>6, ListKind, ListFacts DEF Covers
            <4>9. PICK a : a = l[j].virt + l[j].size
                OBVIOUS
            <4>10. x < a /\ a \in Nat
                BY <4>8, <4>9
            <4>11. a <= t.virt
                BY <4>7, <4>9
            <4> QED
                BY <2>6, <4>1, <4>2, <4>10, <4>11
        <3>2. \A i \in 1 .. Len(before) : before[i].virt \in Nat
            BY <2>4, ListKind, ListFacts
        <3>3. ASSUME NEW i \in 1 .. Len(before)
              PROVE  ~(t.virt <= before[i].virt)
            BY <2>6, <3>1, <3>2
        <3> QED
            BY <3>3 DEF AllReach, Reaches
    <2>8. PICK r : r = add_translation(before, t, {"split", "new"})
        OBVIOUS
    <2>9. Added(before, r, t) /\ r.ok
        BY <2>4, <2>6, <2>7, <2>8, AddEffect
    <2>10. list[m] = r.list
        BY <1>4, <2>2, <2>3, <2>5, <2>8
    <2>11. ASSUME NEW x \in Nat
           PROVE  Shows(list[m], x) = PartShows(l, 1, m, x)
        <3>1. PartShows(l, 1, m, x) = IF Covers(t, x) THEN {Image(t, x)} ELSE PartShows(l, 1, k, x)
            BY <1>2, <2>2, <2>5, PartGrows
        <3>2. Covers(t, x) <=> Inside(x, t.virt, t.size)
            BY DEF Covers, Inside
        <3> QED
            BY <2>4, <2>9, <2>10, <3>1, <3>2 DEF Added
    <2>12. Proper(list[m])
        BY <2>9, <2>10 DEF Added
    <2> QED
        BY <2>1, <2>2, <2>11, <2>12
<1>7. Right(n)
    <2>1. \A k \in 0 .. n : k \in T
        <3> HIDE DEF T, n
        <3> QED
            BY <1>3, <1>5, <1>6, Induction DEF n
    <2>2. n \in 0 .. n
        BY <1>3
    <2>3. n \in T
        <3> HIDE DEF T
        <3> QED
            BY <2>1, <2>2
    <2> HIDE DEF Right
    <2> QED
        BY <2>3
<1>8. \A x : PartShows(l, 1, n, x) = Shows(l, x)
    BY DEF PartShows, Shows
<1>9. \A x \in Pages : x \in Nat
    BY PageFacts
<1> QED
    BY <1>2, <1>4, <1>7, <1>8, <1>9 DEF Agree

-----------------------------------------------------------------------------
(* The theorems. *)

\* Every state of the list and the tables that calls of map and unmap reach.
THEOREM Invariance == MmuSpec => []MmuInv
<1>1. MmuInit => MmuInv
    <2> SUFFICES ASSUME MmuInit
                 PROVE  MmuInv
        OBVIOUS
    <2>1. BoardTable(tables)
        BY BoardTables DEF MmuInit
    <2>2. Proper(translations) /\ Agree(translations, tables, {})
        BY <2>1, InitEffect DEF MmuInit
    <2>3. TablesOK
        BY <2>1 DEF BoardTable, TablesOK
    <2>4. /\ callback \in BOOLEAN /\ lost = {} /\ published \subseteq {translations}
          /\ failures = 0 /\ damage = 0
        BY DEF MmuInit
    <2>5. 0 \in 0 .. MaxFailures /\ 0 \in 0 .. MaxDamage
        BY RegionsFit
    <2> QED
        BY <2>2, <2>3, <2>4, <2>5, ListKind DEF MmuInv
<1>2. MmuInv /\ [MmuNext]_mmuVars => MmuInv'
    BY MmuInvKept
<1> QED
    BY <1>1, <1>2, PTL DEF MmuSpec

\* Whatever is mapped over what, the fields of the translations hold their
\* values; and until a call reaches past the end of a translation that starts
\* in its region, the list stays in order, without overlaps and inside the
\* address space, whichever allocations fail (add_translation,
\* remove_translation).
THEOREM ListOrder == MmuSpec => []ListInOrder
<1>1. ASSUME MmuInv
      PROVE  ListInOrder
    <2>1. MmuTypeOK
        BY <1>1 DEF MmuInv, MmuTypeOK, TablesOK, TablesTyped
    <2>2. ASSUME damage = 0
          PROVE  /\ \A i \in DOMAIN translations : translations[i].size > 0
                 /\ \A i \in 1 .. Len(translations) - 1 :
                       translations[i].virt + translations[i].size <= translations[i + 1].virt
        <3>1. /\ InOrder(translations) /\ translations \in Seq(Elements)
              /\ \A i \in 1 .. Len(translations) : translations[i].size > 0
            BY <1>1, <2>2, ListKind DEF MmuInv, Proper
        <3>2. Len(translations) \in Nat /\ DOMAIN translations = 1 .. Len(translations)
            BY <3>1, LenProperties
        <3>3. \A i \in 1 .. Len(translations) - 1 :
                  /\ i \in 1 .. Len(translations) /\ i + 1 \in 1 .. Len(translations) /\ i < i + 1
            BY <3>2
        <3>4. \A i \in 1 .. Len(translations) - 1 :
                  translations[i].virt + translations[i].size <= translations[i + 1].virt
            BY <3>1, <3>3 DEF InOrder
        <3> QED
            BY <3>1, <3>2, <3>4
    <2> QED
        BY <2>1, <2>2 DEF ListInOrder
<1>2. MmuInv => ListInOrder
    BY <1>1
<1> QED
    BY <1>2, Invariance, PTL

\* Until a call reaches past the end of a translation, the list that the loaded
\* program gets says of each page what the processor does with it, but for the
\* pages of calls that ran out of memory (f_mmu_map, f_mmu_unmap,
\* make_translations, mmu_init_translations).
THEOREM ListTruth == MmuSpec => []ListMatchesTables
<1>1. ASSUME MmuInv, damage = 0, NEW l \in published, NEW v \in Pages \ lost
      PROVE  Listed(l, v) = mmu_translate(tables, v)
    <2> DEFINE at == {i \in DOMAIN l : l[i].virt <= v /\ v < l[i].virt + l[i].size}
               i == CHOOSE x \in at : \A y \in at : x <= y
    <2>1. l = translations
        BY <1>1 DEF MmuInv
    <2>2. Shows(l, v) = InTables(tables, v)
        BY <1>1, <2>1 DEF MmuInv, Agree
    <2>3. Len(l) \in Nat /\ DOMAIN l = 1 .. Len(l)
        BY <1>1, <2>1, LenProperties DEF MmuInv
    <2>4. Listed(l, v) = IF at = {} THEN Unmapped ELSE Image(l[i], v)
        BY DEF Listed, Image
    <2>5. CASE at = {}
        <3>1. Shows(l, v) = {}
            BY <2>3, <2>5 DEF Shows, Covers
        <3> QED
            BY <2>2, <2>4, <2>5, <3>1 DEF InTables
    <2>6. CASE at # {}
        <3>1. at \subseteq Nat
            BY <2>3
        <3>2. i \in at
            <4> HIDE DEF at
            <4> QED
                BY <2>6, <3>1, Least
        <3>3. i \in 1 .. Len(l) /\ Covers(l[i], v)
            BY <2>3, <3>2 DEF Covers
        <3> HIDE DEF i
        <3>4. Image(l[i], v) \in Shows(l, v)
            BY <3>3 DEF Shows
        <3> QED
            BY <2>2, <2>4, <2>6, <3>4 DEF InTables
    <2> QED
        BY <2>5, <2>6
<1>2. MmuInv => ListMatchesTables
    BY <1>1 DEF ListMatchesTables
<1> QED
    BY <1>2, Invariance, PTL
=============================================================================
