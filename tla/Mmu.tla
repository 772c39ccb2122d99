-------------------------------- MODULE Mmu --------------------------------
(***************************************************************************)
(* Mapping and unmapping in the MMU node of the ARM boards                 *)
(* (src/bin/of/edb7312/cpu-arm.c).  The node keeps what is mapped twice: a *)
(* list of translations, which it publishes for the program it loads, and  *)
(* the page tables, which the processor uses.  The two are updated one     *)
(* after the other, by unrelated code, and a failure of the first is not   *)
(* looked at.                                                              *)
(*                                                                         *)
(* A call may reach past the end of a translation that starts in its       *)
(* region.  remove_translation does not foresee it: the size of that       *)
(* translation wraps.  Such calls are part of the model, and damage counts  *)
(* the calls from the first of them on.                                    *)
(*                                                                         *)
(* Once the loaded program has taken over the MMU and set a callback that  *)
(* knows the firmware's own address, the calls go to it instead.           *)
(***************************************************************************)
EXTENDS PageTables, Sequences, SequencesExt

CONSTANTS
    MapReqs,        \* [virt, phys, size, mode] of the calls of map
    UnmapReqs,      \* [virt, size] of the calls of unmap
    InitialTables,  \* page tables the board starts with
    MaxDamage,      \* bound: calls from one on that has swallowed a translation
    MaxFailures     \* bound: allocations that fail

VARIABLES
    translations,   \* g_translations
    published,      \* the values of the property "translations": none or one
    tables,         \* the page tables
    callback,       \* e->callback answers for the firmware's address
    lost,           \* pages of calls whose change of the list has failed
    damage,         \* calls since one reached past the end of a translation
    failures        \* calls in which an allocation has failed

mmuVars == <<translations, published, tables, callback, lost, damage, failures>>

\* Addresses wrap at the end of the space.
WrapPage(x) == x % NPages
End(t) == WrapPage(t.virt + t.size)

Elements == [virt : Pages, size : Pages, phys : Pages, mode : Modes]

MmuTypeOK ==
    /\ translations \in Seq(Elements)
    /\ published \subseteq Seq(Elements) /\ published \subseteq {translations}
    /\ tables \in [Sections -> Entry]
    /\ callback \in BOOLEAN
    /\ lost \subseteq Pages
    /\ damage \in 0 .. MaxDamage
    /\ failures \in 0 .. MaxFailures

-----------------------------------------------------------------------------
(* remove_translation.  One element of the list at a time is cut; a region  *)
(* that lies inside an element, or ends with it, ends the walk.             *)

StartsIn(t, v, n) == v <= t.virt /\ t.virt < WrapPage(v + n)
Holds(t, v) == t.virt < v /\ v < End(t)
EndsTheWalk(t, v, n) == ~StartsIn(t, v, n) /\ Holds(t, v) /\ WrapPage(v + n) <= End(t)
Splits(t, v, n) == EndsTheWalk(t, v, n) /\ WrapPage(v + n) < End(t)

Cut(t, v, n) ==
    LET over == WrapPage(v + n - t.virt) IN
    IF StartsIn(t, v, n)
    THEN [t EXCEPT !.size = WrapPage(@ - over), !.virt = WrapPage(@ + over),
                   !.phys = WrapPage(@ + over)]
    ELSE IF Holds(t, v) THEN [t EXCEPT !.size = v - t.virt] ELSE t

\* The two parts of an element around the region.
Pieces(t, v, n) ==
    LET size == WrapPage(End(t) - (v + n)) IN
    <<[t EXCEPT !.size = WrapPage(@ - size - n)],
      [t EXCEPT !.virt = WrapPage(v + n), !.size = size,
                !.phys = WrapPage(@ + t.size - size)]>>

Done(l) == [ok |-> TRUE, list |-> l]
Failed(l) == [ok |-> FALSE, list |-> l]

\* The walk that takes elements of size 0 out of the list.
NonEmpty(l) ==
    LET kept[k \in 0 .. Len(l)] ==
            IF k = 0 THEN <<>>
            ELSE IF l[k].size = 0 THEN kept[k - 1] ELSE Append(kept[k - 1], l[k])
    IN kept[Len(l)]

\* "mem": whether malloc() gives the element that a split needs.
remove_translation(l, v, n, mem) ==
    LET stops == {i \in DOMAIN l : EndsTheWalk(l[i], v, n)}
        k == CHOOSE i \in stops : \A j \in stops : i <= j
        cut == [i \in DOMAIN l |-> Cut(l[i], v, n)]
        before == SubSeq(cut, 1, k - 1)
        after == SubSeq(l, k + 1, Len(l))
    IN
    IF n = 0 THEN Done(l)
    ELSE IF stops = {} THEN Done(NonEmpty(cut))
    ELSE IF ~Splits(l[k], v, n)
         THEN Done(before \o <<[l[k] EXCEPT !.size = WrapPage(@ - n)]>> \o after)
    ELSE IF mem THEN Done(before \o Pieces(l[k], v, n) \o after)
    ELSE Failed(before \o <<l[k]>> \o after)

-----------------------------------------------------------------------------
(* add_translation. *)

Adjoin(t, u) ==
    /\ WrapPage(t.virt + t.size) = u.virt
    /\ t.mode = u.mode
    /\ WrapPage(t.phys + t.size) = u.phys

\* Two neighbours that adjoin become one.
Merged(t, u) == IF Adjoin(t, u) THEN <<[t EXCEPT !.size = WrapPage(@ + u.size)]>> ELSE <<t, u>>
MergedWithLast(l, t) ==
    IF l = <<>> THEN <<t>> ELSE Front(l) \o Merged(Last(l), t)
MergedWithFirst(t, l) ==
    IF l = <<>> THEN <<t>> ELSE Merged(t, Head(l)) \o Tail(l)

\* Mutant: what was mapped there before stays in the list.
add_over(l, t, mem) ==
    LET p == Cardinality({i \in DOMAIN l : l[i].virt <= t.virt})
        low == MergedWithLast(SubSeq(l, 1, p), t)
    IN IF t.size = 0 THEN Done(l)
       ELSE IF "new" \notin mem THEN Failed(l)
       ELSE Done(Front(low) \o MergedWithFirst(Last(low), SubSeq(l, p + 1, Len(l))))

\* "mem": the calls of malloc() that succeed.
add_translation(l, t, mem) ==
    LET removed == remove_translation(l, t.virt, t.size, "split" \in mem)
        rest == removed.list
        \* the walk stops at the first element above t
        above == {i \in DOMAIN rest : t.virt < rest[i].virt}
        p == IF above = {} THEN Len(rest)
             ELSE (CHOOSE i \in above : \A j \in above : i <= j) - 1
        low == MergedWithLast(SubSeq(rest, 1, p), t)
    IN
    IF t.size = 0 THEN Done(l)
    ELSE IF ~removed.ok THEN removed
    ELSE IF "new" \notin mem THEN Failed(rest)
    ELSE Done(Front(low) \o MergedWithFirst(Last(low), SubSeq(rest, p + 1, Len(rest))))

-----------------------------------------------------------------------------
(* mmu_init_translations: read_mapping finds the runs of pages that are     *)
(* mapped to consecutive frames.  A section joins a run only if its mode is *)
(* the run's, a page whatever its mode is.                                  *)

Continues(tbl, s, v) ==
    LET here == mmu_translate(tbl, v)
        last == mmu_translate(tbl, v - 1)
    IN /\ here # Unmapped /\ last # Unmapped
       /\ here.phys = last.phys + 1
       /\ tbl[Section(v)].type = "section" =>
             here.mode = mmu_translate(tbl, s).mode

\* The run that begins at page v, and the page after it.
RunEnd(tbl, v) ==
    LET ends == {w \in v + 1 .. NPages : w = NPages \/ ~Continues(tbl, v, w)}
    IN CHOOSE w \in ends : \A x \in ends : w <= x

Run(tbl, v) == [virt |-> v, size |-> RunEnd(tbl, v) - v,
                phys |-> mmu_translate(tbl, v).phys,
                mode |-> mmu_translate(tbl, v).mode]

\* The runs in the order of their pages.
AllRuns(tbl) ==
    LET runs[v \in 0 .. NPages] ==
            IF v = NPages THEN <<>>
            ELSE IF mmu_translate(tbl, v) = Unmapped THEN runs[v + 1]
            ELSE <<Run(tbl, v)>> \o runs[RunEnd(tbl, v)]
    IN runs[0]

mmu_init_translations(tbl) ==
    LET runs == AllRuns(tbl)
        list[k \in 0 .. Len(runs)] ==
            IF k = 0 THEN <<>>
            ELSE add_translation(list[k - 1], runs[k], {"split", "new"}).list
    IN list[Len(runs)]

\* The node may not be there yet when the list is made.
MmuInit ==
    /\ tables \in InitialTables
    /\ translations = mmu_init_translations(tables)
    /\ published \in {{}, {translations}}
    /\ callback = FALSE
    /\ lost = {}
    /\ damage = 0
    /\ failures = 0

-----------------------------------------------------------------------------
(* The methods.  mem is the set of allocations that succeed.                *)

Region(r) == r.virt .. r.virt + r.size - 1

\* An element of the list starts in the region and ends inside it.
Swallows(r) ==
    \E i \in DOMAIN translations :
        LET t == translations[i] IN
        StartsIn(t, r.virt, r.size) /\ t.size < WrapPage(r.virt + r.size - t.virt)

\* make_translations.  Once the property is there it takes each new list; an
\* allocation that fails before that leaves it out.
make_translations(list, mem) ==
    published' = IF published = {} /\ "property" \notin mem THEN {} ELSE {list}

Remember(r, result, mem) ==
    /\ translations' = result.list
    /\ make_translations(result.list, mem)
    /\ lost' = IF result.ok THEN lost \ Region(r) ELSE lost \union Region(r)
    /\ damage' = IF damage > 0 \/ Swallows(r) THEN damage + 1 ELSE 0
    /\ failures' = IF result.ok /\ published' # {} THEN failures ELSE failures + 1

f_mmu_map(r, mem) ==
    \/ /\ callback
       /\ UNCHANGED mmuVars
    \/ /\ ~callback
       /\ Remember(r, add_translation(translations, r, mem), mem)
       /\ tables' = map_region(tables, r.virt, r.phys, r.size, r.mode)
       /\ UNCHANGED callback

f_mmu_unmap(r, mem) ==
    \/ /\ callback
       /\ UNCHANGED mmuVars
    \/ /\ ~callback
       /\ Remember(r, remove_translation(translations, r.virt, r.size, "split" \in mem), mem)
       /\ tables' = unmap_region(tables, r.virt, r.size)
       /\ UNCHANGED callback

\* The program that was loaded sets its callback.
SetCallback == /\ callback' = TRUE
               /\ UNCHANGED <<translations, published, tables, lost, damage, failures>>

Allocations == {"split", "new", "property"}
Memory == {mem \in SUBSET Allocations :
              Cardinality(Allocations \ mem) <= MaxFailures - failures}

MmuNext ==
    \/ \E r \in MapReqs, mem \in Memory : damage < MaxDamage /\ f_mmu_map(r, mem)
    \/ \E r \in UnmapReqs, mem \in Memory : damage < MaxDamage /\ f_mmu_unmap(r, mem)
    \/ SetCallback

MmuSpec == MmuInit /\ [][MmuNext]_mmuVars

-----------------------------------------------------------------------------
(* Properties. *)

\* What a list says of page v.
Listed(l, v) ==
    LET at == {i \in DOMAIN l : l[i].virt <= v /\ v < l[i].virt + l[i].size}
        i == CHOOSE x \in at : \A y \in at : x <= y
    IN IF at = {} THEN Unmapped
       ELSE SmallPage(l[i].phys + v - l[i].virt, l[i].mode)

\* Until a call reaches past the end of a translation that starts in its
\* region, the translations lie in the space, are in order and do not overlap,
\* whichever allocations failed (add_translation and remove_translation).
ListInOrder ==
    /\ MmuTypeOK
    /\ damage = 0 =>
          /\ \A i \in DOMAIN translations : translations[i].size > 0
          /\ \A i \in 1 .. Len(translations) - 1 :
                translations[i].virt + translations[i].size <= translations[i + 1].virt

\* Until then, the list that the loaded program gets, if it gets one, says of
\* each page what the processor does with it, but for the pages of calls that
\* ran out of memory, of which the two methods do not tell their caller.
ListMatchesTables ==
    damage = 0 =>
        \A l \in published, v \in Pages \ lost : Listed(l, v) = mmu_translate(tables, v)

\* The page tables are a mapping of pages in which each call changes the pages
\* of its region and no others, through all conversions between sections and
\* tables (map_region, unmap_region).
TablesMap == INSTANCE Mapping WITH map <- Translation(tables)
ImplementsMapping == TablesMap!MapSpec

\* The comment in remove_translation, "reduce the size of t so that it no
\* longer intersects": what is not mapped any more is in no translation.
RemovedIsGone ==
    \A v \in Pages \ lost :
        mmu_translate(tables, v) = Unmapped => Listed(translations, v) = Unmapped
=============================================================================
