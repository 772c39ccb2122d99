---------------------------- MODULE AllocProofs ----------------------------
(***************************************************************************)
(* What is proved of Alloc for every width of addresses and every set of   *)
(* requests, when the memory that is managed ends below the last address   *)
(* (as /memory's does) and both widths are equal (as on every port); and   *)
(* of MemoryNode, from the effects of the allocator's calls, for any       *)
(* memory.                                                                 *)
(***************************************************************************)
EXTENDS MemoryNode, AllocBelowTop, SequenceTheorems, FiniteSetTheorems, TLAPS

-----------------------------------------------------------------------------
(* Lists of blocks, as mathematical objects. *)

\* A block that is neither of the full size nor at the end of the space.
Plain(b) == b.size # 0 /\ b.addr + b.size < AddrMod

\* Block a ends before block b starts, with a gap between them.
Apart(a, b) == a.addr + a.size < b.addr

\* The inductive invariant: every block is plain and the list is in order.
Good(s) == /\ s \in Seq(Block)
           /\ \A i \in 1 .. Len(s) : Plain(s[i])
           /\ \A i, j \in 1 .. Len(s) : i < j => Apart(s[i], s[j])

\* x is in block b; x is free in s.
In(x, b) == b.addr <= x /\ x < b.addr + b.size
IsFree(x, s) == \E i \in 1 .. Len(s) : In(x, s[i])

-----------------------------------------------------------------------------
(* Positions of a list after one element was replaced, removed or inserted. *)

LEMMA ReplaceFacts ==
    ASSUME NEW s \in Seq(Block), NEW n \in 1 .. Len(s), NEW b \in Block
    PROVE  /\ ReplaceAt(s, n, b) \in Seq(Block)
           /\ Len(ReplaceAt(s, n, b)) = Len(s)
           /\ \A i \in 1 .. Len(s) :
                 ReplaceAt(s, n, b)[i] = IF i = n THEN b ELSE s[i]
BY ExceptSeq DEF ReplaceAt

LEMMA RemoveFacts ==
    ASSUME NEW s \in Seq(Block), NEW n \in 1 .. Len(s)
    PROVE  /\ RemoveAt(s, n) \in Seq(Block)
           /\ Len(RemoveAt(s, n)) = Len(s) - 1
           /\ \A i \in 1 .. Len(s) - 1 :
                 RemoveAt(s, n)[i] = IF i < n THEN s[i] ELSE s[i + 1]
<1> DEFINE u == SubSeq(s, 1, n - 1)
           v == SubSeq(s, n + 1, Len(s))
<1>1. Len(s) \in Nat /\ \A i \in 1 .. Len(s) : s[i] \in Block
    BY LenProperties, ElementOfSeq
<1>2. /\ u \in Seq(Block) /\ Len(u) = n - 1
      /\ \A i \in 1 .. n - 1 : u[i] = s[i]
    <2>1. \A i \in 1 .. n - 1 : s[i] \in Block
        BY <1>1
    <2>2. /\ u \in Seq(Block)
          /\ Len(u) = IF 1 <= n - 1 THEN n - 1 - 1 + 1 ELSE 0
          /\ \A i \in 1 .. n - 1 - 1 + 1 : u[i] = s[1 + i - 1]
        BY <2>1, SubSeqProperties
    <2> QED
        BY <2>2
<1>3. /\ v \in Seq(Block) /\ Len(v) = Len(s) - n
      /\ \A i \in 1 .. Len(s) - n : v[i] = s[n + i]
    <2>1. \A i \in n + 1 .. Len(s) : s[i] \in Block
        BY <1>1
    <2>2. /\ v \in Seq(Block)
          /\ Len(v) = IF n + 1 <= Len(s) THEN Len(s) - (n + 1) + 1 ELSE 0
          /\ \A i \in 1 .. Len(s) - (n + 1) + 1 : v[i] = s[(n + 1) + i - 1]
        BY <1>1, <2>1, SubSeqProperties
    <2> QED
        BY <1>1, <2>2
<1>4. /\ u \o v \in Seq(Block)
      /\ Len(u \o v) = Len(u) + Len(v)
      /\ \A i \in 1 .. Len(u) + Len(v) :
            (u \o v)[i] = IF i <= Len(u) THEN u[i] ELSE v[i - Len(u)]
    BY <1>2, <1>3, ConcatProperties
<1>5. RemoveAt(s, n) = u \o v
    BY DEF RemoveAt
<1> HIDE DEF u, v
<1>6. \A i \in 1 .. Len(s) - 1 : (u \o v)[i] = IF i < n THEN s[i] ELSE s[i + 1]
    <2> TAKE i \in 1 .. Len(s) - 1
    <2>1. CASE i < n
        BY <1>1, <1>2, <1>3, <1>4, <2>1
    <2>2. CASE ~(i < n)
        <3> DEFINE k == i - Len(u)
        <3>1. /\ k \in 1 .. Len(s) - n
              /\ n + k = i + 1
              /\ i \in 1 .. Len(u) + Len(v) /\ ~(i <= Len(u))
            BY <1>1, <1>2, <1>3, <2>2
        <3>2. (u \o v)[i] = v[k]
            BY <1>4, <3>1
        <3> HIDE DEF k
        <3>3. v[k] = s[n + k]
            BY <1>3, <3>1
        <3> QED
            BY <2>2, <3>1, <3>2, <3>3
    <2> QED
        BY <1>1, <2>1, <2>2
<1>7. Len(u \o v) = Len(s) - 1
    BY <1>1, <1>2, <1>3, <1>4
<1> QED
    BY <1>4, <1>5, <1>6, <1>7

LEMMA InsertFacts ==
    ASSUME NEW s \in Seq(Block), NEW n \in 1 .. Len(s) + 1, NEW b \in Block
    PROVE  /\ InsertAt(s, n, b) \in Seq(Block)
           /\ Len(InsertAt(s, n, b)) = Len(s) + 1
           /\ \A i \in 1 .. Len(s) + 1 :
                 InsertAt(s, n, b)[i] = IF i < n THEN s[i]
                                        ELSE IF i = n THEN b ELSE s[i - 1]
<1> DEFINE u == SubSeq(s, 1, n - 1)
           v == SubSeq(s, n, Len(s))
<1>1. Len(s) \in Nat /\ \A i \in 1 .. Len(s) : s[i] \in Block
    BY LenProperties, ElementOfSeq
<1>2. /\ u \in Seq(Block) /\ Len(u) = n - 1
      /\ \A i \in 1 .. n - 1 : u[i] = s[i]
    <2>1. \A i \in 1 .. n - 1 : s[i] \in Block
        BY <1>1
    <2>2. /\ u \in Seq(Block)
          /\ Len(u) = IF 1 <= n - 1 THEN n - 1 - 1 + 1 ELSE 0
          /\ \A i \in 1 .. n - 1 - 1 + 1 : u[i] = s[1 + i - 1]
        BY <1>1, <2>1, SubSeqProperties
    <2> QED
        BY <1>1, <2>2
<1>3. /\ v \in Seq(Block) /\ Len(v) = Len(s) - n + 1
      /\ \A i \in 1 .. Len(s) - n + 1 : v[i] = s[n + i - 1]
    <2>1. \A i \in n .. Len(s) : s[i] \in Block
        BY <1>1
    <2>2. /\ v \in Seq(Block)
          /\ Len(v) = IF n <= Len(s) THEN Len(s) - n + 1 ELSE 0
          /\ \A i \in 1 .. Len(s) - n + 1 : v[i] = s[n + i - 1]
        BY <1>1, <2>1, SubSeqProperties
    <2> QED
        BY <1>1, <2>2
<1>4. <<b>> \in Seq(Block) /\ Len(<<b>>) = 1 /\ <<b>>[1] = b
    OBVIOUS
<1>5. /\ u \o <<b>> \in Seq(Block)
      /\ Len(u \o <<b>>) = n
      /\ \A i \in 1 .. n :
            (u \o <<b>>)[i] = IF i < n THEN s[i] ELSE b
    <2>1. /\ u \o <<b>> \in Seq(Block)
          /\ Len(u \o <<b>>) = Len(u) + Len(<<b>>)
          /\ \A i \in 1 .. Len(u) + Len(<<b>>) :
                (u \o <<b>>)[i] = IF i <= Len(u) THEN u[i] ELSE <<b>>[i - Len(u)]
        BY <1>2, <1>4, ConcatProperties, Zenon
    <2> HIDE DEF u
    <2>2. ASSUME NEW i \in 1 .. n
          PROVE  (u \o <<b>>)[i] = IF i < n THEN s[i] ELSE b
        <3>1. CASE i < n
            BY <1>1, <1>2, <1>4, <2>1, <3>1
        <3>2. CASE ~(i < n)
            <4>1. /\ i - Len(u) = 1
                  /\ i \in 1 .. Len(u) + Len(<<b>>) /\ ~(i <= Len(u))
                BY <1>1, <1>2, <1>4, <3>2
            <4>2. (u \o <<b>>)[i] = <<b>>[i - Len(u)]
                BY <2>1, <4>1
            <4> QED
                BY <1>4, <3>2, <4>1, <4>2
        <3> QED
            BY <3>1, <3>2
    <2> QED
        BY <1>1, <1>2, <1>4, <2>1, <2>2
<1> DEFINE w == u \o <<b>>
<1>6. /\ w \o v \in Seq(Block)
      /\ Len(w \o v) = Len(w) + Len(v)
      /\ \A i \in 1 .. Len(w) + Len(v) :
            (w \o v)[i] = IF i <= Len(w) THEN w[i] ELSE v[i - Len(w)]
    BY <1>3, <1>5, ConcatProperties
<1>7. InsertAt(s, n, b) = w \o v
    BY DEF InsertAt
<1> HIDE DEF u, v, w
<1>8. Len(w) = n /\ \A i \in 1 .. n : w[i] = IF i < n THEN s[i] ELSE b
    BY <1>5 DEF w
<1>9. ASSUME NEW i \in 1 .. Len(s) + 1
      PROVE  (w \o v)[i] = IF i < n THEN s[i] ELSE IF i = n THEN b ELSE s[i - 1]
    <2>1. CASE i <= n
        BY <1>1, <1>3, <1>6, <1>8, <2>1
    <2>2. CASE ~(i <= n)
        <3> DEFINE k == i - Len(w)
        <3>1. /\ k \in 1 .. Len(s) - n + 1
              /\ n + k - 1 = i - 1
              /\ i \in 1 .. Len(w) + Len(v) /\ ~(i <= Len(w))
              /\ ~(i < n) /\ i # n
            BY <1>1, <1>3, <1>8, <2>2
        <3>2. (w \o v)[i] = v[k]
            BY <1>6, <3>1
        <3> HIDE DEF k
        <3>3. v[k] = s[n + k - 1]
            BY <1>3, <3>1
        <3> QED
            BY <3>1, <3>2, <3>3
    <2> QED
        BY <1>1, <2>1, <2>2
<1> QED
    BY <1>1, <1>3, <1>6, <1>7, <1>8, <1>9

-----------------------------------------------------------------------------
(* The same three edits on a good list: when the list stays good, and which *)
(* addresses they free or take.                                             *)

LEMMA BlockFacts ==
    ASSUME NEW b \in Block
    PROVE  b.addr \in Nat /\ b.size \in Nat /\ b.addr < AddrMod /\ b.size < SizeMod
BY WidthAssumption DEF Block, Addr, Size

LEMMA ListFacts ==
    ASSUME NEW s, Good(s)
    PROVE  /\ s \in Seq(Block)
           /\ Len(s) \in Nat
           /\ \A i \in 1 .. Len(s) :
                 /\ s[i] \in Block
                 /\ s[i].addr \in Nat /\ s[i].size \in Nat \ {0}
                 /\ s[i].addr + s[i].size < AddrMod
           /\ \A i, j \in 1 .. Len(s) : i < j => Apart(s[i], s[j])
<1>1. s \in Seq(Block)
    BY DEF Good
<1>2. Len(s) \in Nat /\ \A i \in 1 .. Len(s) : s[i] \in Block
    BY <1>1, LenProperties, ElementOfSeq
<1> QED
    BY <1>1, <1>2, BlockFacts DEF Good, Plain

\* Two blocks of a good list have no address in common.
LEMMA BlocksDisjoint ==
    ASSUME NEW s, Good(s), NEW i \in 1 .. Len(s), NEW j \in 1 .. Len(s),
           NEW x \in Int, In(x, s[i]), In(x, s[j])
    PROVE  i = j
<1>1. ~(i < j) /\ ~(j < i)
    BY ListFacts DEF In, Apart
<1> QED
    BY <1>1, ListFacts

LEMMA GoodReplace ==
    ASSUME NEW s, Good(s), NEW n \in 1 .. Len(s), NEW b \in Block, Plain(b),
           \A i \in 1 .. Len(s) : i < n => Apart(s[i], b),
           \A i \in 1 .. Len(s) : n < i => Apart(b, s[i])
    PROVE  /\ Good(ReplaceAt(s, n, b))
           /\ \A x \in Int : IsFree(x, ReplaceAt(s, n, b)) <=>
                 (IsFree(x, s) /\ ~In(x, s[n])) \/ In(x, b)
<1> DEFINE t == ReplaceAt(s, n, b)
<1>1. /\ t \in Seq(Block) /\ Len(t) = Len(s)
      /\ \A i \in 1 .. Len(s) : t[i] = IF i = n THEN b ELSE s[i]
    BY ListFacts, ReplaceFacts
<1> HIDE DEF t
<1>2. Good(t)
    <2>1. ASSUME NEW i \in 1 .. Len(t)
          PROVE  Plain(t[i])
        BY <1>1 DEF Good
    <2>2. ASSUME NEW i \in 1 .. Len(t), NEW j \in 1 .. Len(t), i < j
          PROVE  Apart(t[i], t[j])
        BY <1>1, <2>2, ListFacts
    <2> QED
        BY <1>1, <2>1, <2>2 DEF Good
<1>3. ASSUME NEW x \in Int
      PROVE  IsFree(x, t) <=> (IsFree(x, s) /\ ~In(x, s[n])) \/ In(x, b)
    <2>1. ASSUME IsFree(x, t), ~In(x, b)
          PROVE  IsFree(x, s) /\ ~In(x, s[n])
        <3>1. PICK i \in 1 .. Len(s) : In(x, s[i]) /\ i # n
            BY <1>1, <2>1 DEF IsFree
        <3> QED
            BY <3>1, BlocksDisjoint DEF IsFree
    <2>2. ASSUME IsFree(x, s), ~In(x, s[n])
          PROVE  IsFree(x, t)
        <3>1. PICK i \in 1 .. Len(s) : In(x, s[i]) /\ i # n
            BY <2>2 DEF IsFree
        <3> QED
            BY <1>1, <3>1 DEF IsFree
    <2>3. ASSUME In(x, b)
          PROVE  IsFree(x, t)
        BY <1>1, <2>3 DEF IsFree
    <2> QED
        BY <2>1, <2>2, <2>3
<1> QED
    BY <1>2, <1>3 DEF t

LEMMA GoodRemove ==
    ASSUME NEW s, Good(s), NEW n \in 1 .. Len(s)
    PROVE  /\ Good(RemoveAt(s, n))
           /\ \A x \in Int : IsFree(x, RemoveAt(s, n)) <=>
                 IsFree(x, s) /\ ~In(x, s[n])
<1> DEFINE t == RemoveAt(s, n)
<1>1. /\ t \in Seq(Block) /\ Len(t) = Len(s) - 1
      /\ \A i \in 1 .. Len(s) - 1 : t[i] = IF i < n THEN s[i] ELSE s[i + 1]
    BY ListFacts, RemoveFacts
<1> HIDE DEF t
<1>2. Good(t)
    <2>1. ASSUME NEW i \in 1 .. Len(t)
          PROVE  Plain(t[i])
        BY <1>1, ListFacts DEF Good
    <2>2. ASSUME NEW i \in 1 .. Len(t), NEW j \in 1 .. Len(t), i < j
          PROVE  Apart(t[i], t[j])
        <3> DEFINE k == IF i < n THEN i ELSE i + 1
                   l == IF j < n THEN j ELSE j + 1
        <3>0. Len(s) \in Nat /\ i \in 1 .. Len(s) - 1 /\ j \in 1 .. Len(s) - 1
            BY <1>1, ListFacts
        <3>1. k \in 1 .. Len(s) /\ l \in 1 .. Len(s) /\ k < l
            BY <2>2, <3>0
        <3>2. t[i] = s[k] /\ t[j] = s[l]
            BY <1>1, <3>0
        <3> HIDE DEF k, l
        <3>3. Apart(s[k], s[l])
            BY <3>1, ListFacts
        <3> QED
            BY <3>2, <3>3
    <2> QED
        BY <1>1, <2>1, <2>2 DEF Good
<1>3. ASSUME NEW x \in Int
      PROVE  IsFree(x, t) <=> IsFree(x, s) /\ ~In(x, s[n])
    <2>1. ASSUME IsFree(x, t)
          PROVE  IsFree(x, s) /\ ~In(x, s[n])
        <3>1. PICK j \in 1 .. Len(t) : In(x, t[j])
            BY <2>1 DEF IsFree
        <3>2. PICK i \in 1 .. Len(s) : In(x, s[i]) /\ i # n
            <4>1. CASE j < n
                BY <1>1, <3>1, <4>1, ListFacts
            <4>2. CASE ~(j < n)
                <5>1. j + 1 \in 1 .. Len(s) /\ j + 1 # n /\ t[j] = s[j + 1]
                    BY <1>1, <4>2, ListFacts
                <5> QED
                    BY <3>1, <5>1
            <4> QED
                BY <4>1, <4>2
        <3> QED
            BY <3>2, BlocksDisjoint DEF IsFree
    <2>2. ASSUME IsFree(x, s), ~In(x, s[n])
          PROVE  IsFree(x, t)
        <3>1. PICK i \in 1 .. Len(s) : In(x, s[i]) /\ i # n
            BY <2>2 DEF IsFree
        <3>2. PICK j \in 1 .. Len(t) : t[j] = s[i]
            <4>1. CASE i < n
                <5>1. i \in 1 .. Len(s) - 1
                    BY <4>1, ListFacts
                <5> QED
                    BY <1>1, <4>1, <5>1
            <4>2. CASE n < i
                <5>1. /\ i - 1 \in 1 .. Len(s) - 1 /\ ~(i - 1 < n)
                      /\ (i - 1) + 1 = i
                    BY <4>2, ListFacts
                <5> QED
                    BY <1>1, <5>1
            <4> QED
                BY <3>1, <4>1, <4>2, ListFacts
        <3> QED
            BY <3>1, <3>2 DEF IsFree
    <2> QED
        BY <2>1, <2>2
<1> QED
    BY <1>2, <1>3 DEF t

LEMMA GoodInsert ==
    ASSUME NEW s, Good(s), NEW n \in 1 .. Len(s) + 1, NEW b \in Block, Plain(b),
           \A i \in 1 .. Len(s) : i < n => Apart(s[i], b),
           \A i \in 1 .. Len(s) : n <= i => Apart(b, s[i])
    PROVE  /\ Good(InsertAt(s, n, b))
           /\ \A x \in Int : IsFree(x, InsertAt(s, n, b)) <=>
                 IsFree(x, s) \/ In(x, b)
<1> DEFINE t == InsertAt(s, n, b)
<1>1. /\ t \in Seq(Block) /\ Len(t) = Len(s) + 1
      /\ \A i \in 1 .. Len(s) + 1 :
            t[i] = IF i < n THEN s[i] ELSE IF i = n THEN b ELSE s[i - 1]
    BY ListFacts, InsertFacts
<1> HIDE DEF t
<1>2. Good(t)
    <2>1. ASSUME NEW i \in 1 .. Len(t)
          PROVE  Plain(t[i])
        BY <1>1, ListFacts DEF Good
    <2>2. ASSUME NEW i \in 1 .. Len(t), NEW j \in 1 .. Len(t), i < j
          PROVE  Apart(t[i], t[j])
        <3>1. CASE j < n
            BY <1>1, <2>2, <3>1, ListFacts
        <3>2. CASE i < n /\ j = n
            BY <1>1, <3>2, ListFacts
        <3>3. CASE i < n /\ n < j
            <4>1. j - 1 \in 1 .. Len(s) /\ i \in 1 .. Len(s) /\ i < j - 1
                BY <1>1, <3>3, ListFacts
            <4>2. t[i] = s[i] /\ t[j] = s[j - 1]
                BY <1>1, <3>3, ListFacts
            <4> QED
                BY <4>1, <4>2, ListFacts
        <3>4. CASE i = n /\ n < j
            <4>1. j - 1 \in 1 .. Len(s) /\ n <= j - 1
                BY <1>1, <3>4, ListFacts
            <4>2. t[i] = b /\ t[j] = s[j - 1]
                BY <1>1, <3>4, ListFacts
            <4> QED
                BY <4>1, <4>2
        <3>5. CASE n < i
            <4>1. /\ i - 1 \in 1 .. Len(s) /\ j - 1 \in 1 .. Len(s)
                  /\ i - 1 < j - 1
                BY <1>1, <2>2, <3>5, ListFacts
            <4>2. t[i] = s[i - 1] /\ t[j] = s[j - 1]
                BY <1>1, <2>2, <3>5, ListFacts
            <4> QED
                BY <4>1, <4>2, ListFacts
        <3> QED
            BY <1>1, <2>2, <3>1, <3>2, <3>3, <3>4, <3>5, ListFacts
    <2> QED
        BY <1>1, <2>1, <2>2 DEF Good
<1>3. ASSUME NEW x \in Int
      PROVE  IsFree(x, t) <=> IsFree(x, s) \/ In(x, b)
    <2>1. ASSUME IsFree(x, t), ~In(x, b)
          PROVE  IsFree(x, s)
        <3>1. PICK j \in 1 .. Len(t) : In(x, t[j])
            BY <2>1 DEF IsFree
        <3>2. CASE j < n
            BY <1>1, <3>1, <3>2, ListFacts DEF IsFree
        <3>3. CASE n < j
            <4>1. j - 1 \in 1 .. Len(s) /\ t[j] = s[j - 1]
                BY <1>1, <3>3, ListFacts
            <4> QED
                BY <3>1, <4>1 DEF IsFree
        <3> QED
            BY <1>1, <2>1, <3>1, <3>2, <3>3, ListFacts
    <2>2. ASSUME IsFree(x, s)
          PROVE  IsFree(x, t)
        <3>1. PICK i \in 1 .. Len(s) : In(x, s[i])
            BY <2>2 DEF IsFree
        <3>2. CASE i < n
            BY <1>1, <3>1, <3>2, ListFacts DEF IsFree
        <3>3. CASE ~(i < n)
            <4>1. /\ i + 1 \in 1 .. Len(s) + 1 /\ ~(i + 1 < n) /\ i + 1 # n
                  /\ (i + 1) - 1 = i
                BY <3>3, ListFacts
            <4>2. t[i + 1] = s[i]
                BY <1>1, <4>1
            <4> QED
                BY <1>1, <3>1, <4>1, <4>2 DEF IsFree
        <3> QED
            BY <3>2, <3>3
    <2>3. ASSUME In(x, b)
          PROVE  IsFree(x, t)
        <3>1. n \in 1 .. Len(t) /\ t[n] = b
            BY <1>1, ListFacts
        <3> QED
            BY <2>3, <3>1 DEF IsFree
    <2> QED
        BY <2>1, <2>2, <2>3
<1> QED
    BY <1>2, <1>3 DEF t

-----------------------------------------------------------------------------
(* Cell arithmetic that stays in range. *)

LEMMA WrapId ==
    ASSUME NEW x \in Int, NEW m \in Nat, 0 <= x, x < m
    PROVE  Wrap(x, m) = x
BY DEF Wrap

LEMMA ModFacts ==
    ASSUME NEW x \in Nat, NEW m \in Nat \ {0}
    PROVE  /\ x % m \in 0 .. m - 1
           /\ x < m => x % m = x
OBVIOUS

LEMMA LowId ==
    ASSUME NEW x \in Nat, x < SizeMod
    PROVE  Low(x) = x
BY ModFacts, WidthAssumption DEF Low

LEMMA EndFacts ==
    ASSUME NEW s, Good(s), NEW i \in 1 .. Len(s)
    PROVE  End(s[i]) = s[i].addr + s[i].size
<1>1. s[i].addr + s[i].size \in Int /\ 0 <= s[i].addr + s[i].size
    BY ListFacts
<1> QED
    BY <1>1, ListFacts, WrapId, WidthAssumption DEF End

-----------------------------------------------------------------------------
(* The calls. *)

\* The list after a span was taken from it.
Took(addr, size) ==
    /\ Good(list')
    /\ \A x \in Int :
          /\ addr <= x /\ x < addr + size => IsFree(x, list)
          /\ IsFree(x, list') <=>
                IsFree(x, list) /\ ~(addr <= x /\ x < addr + size)

\* The list after a span was given back to it.
Gave(addr, size) ==
    /\ Good(list')
    /\ \A x \in Int :
          /\ addr <= x /\ x < addr + size => ~IsFree(x, list)
          /\ IsFree(x, list') <=>
                IsFree(x, list) \/ (addr <= x /\ x < addr + size)

\* What any call of the allocator may do.
Effect(op, want, addr, size, Change) ==
    \/ /\ Change
       /\ Return(op, want, "NO_ERROR", addr, size)
    \/ /\ UNCHANGED list
       /\ \E code \in Retcodes \ {"NO_ERROR"} : Return(op, want, code, addr, size)

LEMMA AtStartEffect ==
    ASSUME Good(list), NEW n \in 1 .. Len(list), NEW op, NEW want,
           NEW addr \in Addr, NEW size \in Size,
           size # 0, addr + size < AddrMod, list[n].addr = addr,
           AllocAtStart(n, op, want, addr, size)
    PROVE  Effect(op, want, addr, size, Took(addr, size))
<1> DEFINE b == list[n]
<1>1. /\ b \in Block /\ b.addr = addr /\ b.size \in Nat \ {0}
      /\ b.addr + b.size < AddrMod
      /\ addr \in Nat /\ size \in Nat
    BY ListFacts, WidthAssumption DEF Addr, Size
<1>2. CASE Refused(op, want, "E_OUT_OF_STORAGE", addr, size)
    BY <1>2 DEF Effect, Refused, Retcodes
<1>3. CASE /\ b.size = size
           /\ list' = RemoveAt(list, n)
           /\ Return(op, want, "NO_ERROR", addr, size)
    <2>1. Took(addr, size)
        <3>1. /\ Good(list')
              /\ \A x \in Int : IsFree(x, list') <=> IsFree(x, list) /\ ~In(x, b)
            BY <1>3, GoodRemove
        <3>2. \A x \in Int : In(x, b) <=> addr <= x /\ x < addr + size
            BY <1>1, <1>3 DEF In
        <3>3. \A x \in Int : In(x, b) => IsFree(x, list)
            BY DEF IsFree
        <3> QED
            BY <3>1, <3>2, <3>3 DEF Took
    <2> QED
        BY <1>3, <2>1 DEF Effect
<1>4. CASE /\ b.size > size
           /\ list' = ReplaceAt(list, n, [addr |-> Wrap(b.addr + size, AddrMod),
                                          size |-> Wrap(b.size - size, SizeMod)])
           /\ Return(op, want, "NO_ERROR", addr, size)
    <2> DEFINE c == [addr |-> addr + size, size |-> b.size - size]
    <2>1. /\ Wrap(b.addr + size, AddrMod) = addr + size
          /\ Wrap(b.size - size, SizeMod) = b.size - size
        <3>1. /\ b.addr + size \in Int /\ 0 <= b.addr + size
              /\ b.addr + size < AddrMod
              /\ b.size - size \in Int /\ 0 <= b.size - size
              /\ b.size - size < SizeMod
              /\ AddrMod \in Nat /\ SizeMod \in Nat
            BY <1>1, <1>4, BlockFacts, WidthAssumption
        <3> QED
            BY <3>1, WrapId
    <2>2. c \in Block /\ Plain(c)
        BY <1>1, <1>4, BlockFacts, WidthAssumption DEF Block, Addr, Size, Plain
    <2>3. /\ \A i \in 1 .. Len(list) : i < n => Apart(list[i], c)
          /\ \A i \in 1 .. Len(list) : n < i => Apart(c, list[i])
        <3>1. /\ c.addr = addr + size /\ c.addr + c.size = b.addr + b.size
              /\ b.addr < c.addr
            BY <1>1, <1>4
        <3> HIDE DEF c
        <3>2. ASSUME NEW i \in 1 .. Len(list), i < n
              PROVE  Apart(list[i], c)
            <4>1. list[i].addr + list[i].size < b.addr
                BY <3>2, ListFacts DEF Apart
            <4>2. list[i].addr + list[i].size \in Int /\ b.addr \in Int /\ c.addr \in Int
                BY <1>1, <3>1, ListFacts
            <4> QED
                BY <3>1, <4>1, <4>2 DEF Apart
        <3>3. ASSUME NEW i \in 1 .. Len(list), n < i
              PROVE  Apart(c, list[i])
            BY <3>1, <3>3, ListFacts DEF Apart
        <3> QED
            BY <3>2, <3>3
    <2>4. /\ Good(list')
          /\ \A x \in Int : IsFree(x, list') <=>
                (IsFree(x, list) /\ ~In(x, b)) \/ In(x, c)
        <3> HIDE DEF c
        <3>1. list' = ReplaceAt(list, n, c)
            BY <1>4, <2>1 DEF c
        <3> QED
            BY <2>2, <2>3, <3>1, GoodReplace
    <2>5. \A x \in Int : /\ In(x, c) <=> addr + size <= x /\ x < addr + b.size
                         /\ In(x, b) <=> addr <= x /\ x < addr + b.size
        BY <1>1 DEF In
    <2>6. \A x \in Int : In(x, b) => IsFree(x, list)
        BY DEF IsFree
    <2>7. Took(addr, size)
        <3> HIDE DEF b, c
        <3> QED
            BY <1>1, <1>4, <2>4, <2>5, <2>6 DEF Took
    <2> QED
        BY <1>4, <2>7 DEF Effect
<1> QED
    BY <1>1, <1>2, <1>3, <1>4 DEF AllocAtStart

\* The sizes when [x, x + z) is cut out of [a, a + s), both ends staying.
LEMMA SplitArithmetic ==
    ASSUME NEW a \in Nat, NEW s \in Nat, NEW x \in Nat, NEW z \in Nat \ {0},
           NEW m \in Nat, a + s < m, a < x, x + z < a + s
    PROVE  /\ a + s - (x + z) \in Nat \ {0} /\ a + s - (x + z) < m
           /\ s - z \in Nat /\ s - z < m
           /\ (s - z) - (a + s - (x + z)) = x - a
           /\ x - a \in Nat /\ x - a < m
           /\ a + (x - a) = x
           /\ (x + z) + (a + s - (x + z)) = a + s
           /\ x < x + z /\ x + z <= a + s
OBVIOUS

LEMMA InsideEffect ==
    ASSUME Good(list), NEW n \in 1 .. Len(list), NEW op, NEW want,
           NEW addr \in Addr, NEW size \in Size,
           size # 0, addr + size < AddrMod, SizeMod = AddrMod,
           list[n].addr < addr,
           \A i \in 1 .. Len(list) : n < i => addr < list[i].addr,
           AllocInside(n, op, want, addr, size)
    PROVE  Effect(op, want, addr, size, Took(addr, size))
<1> DEFINE p == list[n]
           end == addr + size
           rest == p.addr + p.size - end
           c == [addr |-> p.addr, size |-> addr - p.addr]
           d == [addr |-> end, size |-> rest]
<1>1. /\ p \in Block /\ p.addr \in Nat /\ p.size \in Nat \ {0}
      /\ p.addr + p.size < AddrMod /\ p.size < SizeMod
      /\ addr \in Nat /\ size \in Nat \ {0} /\ end \in Nat /\ end < AddrMod
      /\ AddrMod \in Nat /\ SizeMod \in Nat
      /\ p = [addr |-> p.addr, size |-> p.size]
    <2>1. /\ p \in Block /\ p.addr \in Nat /\ p.size \in Nat \ {0}
          /\ p.addr + p.size < AddrMod /\ p.size < SizeMod
        BY ListFacts, BlockFacts
    <2>2. p = [addr |-> p.addr, size |-> p.size]
        BY <2>1, BlockFacts DEF Block
    <2>3. AddrMod \in Nat /\ SizeMod \in Nat
        BY WidthAssumption
    <2>4. addr \in Nat /\ size \in Nat \ {0} /\ end \in Nat /\ end < AddrMod
        BY <2>3 DEF Addr, Size
    <2> QED
        BY <2>1, <2>2, <2>3, <2>4
<1>2. End(p) = p.addr + p.size /\ Wrap(addr + size, AddrMod) = end
    BY <1>1, EndFacts, WrapId
<1>3. CASE Refused(op, want, "E_OUT_OF_STORAGE", addr, size)
    BY <1>3 DEF Effect, Refused, Retcodes
<1>4. CASE Refused(op, want, "E_OUT_OF_MEMORY", addr, size)
    BY <1>4 DEF Effect, Refused, Retcodes
\* The part of p below addr, which stays in the list in both other cases.
<1>5. ASSUME end <= p.addr + p.size
      PROVE  /\ c \in Block /\ Plain(c) /\ c.addr = p.addr /\ c.size = addr - p.addr
             /\ Good(ReplaceAt(list, n, c))
             /\ \A x \in Int : IsFree(x, ReplaceAt(list, n, c)) <=>
                   (IsFree(x, list) /\ ~In(x, p)) \/ In(x, c)
    <2>1. c \in Block /\ Plain(c) /\ c.addr = p.addr /\ c.size = addr - p.addr
        BY <1>1, <1>5 DEF Block, Addr, Size, Plain
    <2> HIDE DEF c
    <2>2. /\ \A i \in 1 .. Len(list) : i < n => Apart(list[i], c)
          /\ \A i \in 1 .. Len(list) : n < i => Apart(c, list[i])
        <3>1. ASSUME NEW i \in 1 .. Len(list), i < n
              PROVE  Apart(list[i], c)
            BY <2>1, <3>1, ListFacts DEF Apart
        <3>2. ASSUME NEW i \in 1 .. Len(list), n < i
              PROVE  Apart(c, list[i])
            <4>1. c.addr + c.size = addr
                BY <1>1, <2>1
            <4> QED
                BY <3>2, <4>1, ListFacts DEF Apart
        <3> QED
            BY <3>1, <3>2
    <2> QED
        BY <2>1, <2>2, GoodReplace
<1>6. \A x \in Int : In(x, p) => IsFree(x, list)
    BY DEF IsFree
<1>7. CASE /\ End(p) = end
           /\ list' = ReplaceAt(list, n, [p EXCEPT !.size = Wrap(@ - size, SizeMod)])
           /\ Return(op, want, "NO_ERROR", addr, size)
    <2>1. p.size - size = addr - p.addr /\ end <= p.addr + p.size
        BY <1>1, <1>2, <1>7
    <2>2. Wrap(p.size - size, SizeMod) = addr - p.addr
        BY <1>1, <2>1, WrapId
    <2>3. list' = ReplaceAt(list, n, c)
        BY <1>1, <1>7, <2>2
    <2>4. \A x \in Int : In(x, p) <=> In(x, c) \/ (addr <= x /\ x < addr + size)
        BY <1>1, <1>2, <1>5, <1>7, <2>1 DEF In
    <2>5. \A x \in Int : In(x, c) => ~(addr <= x /\ x < addr + size)
        BY <1>1, <1>5, <2>1 DEF In
    <2>6. Took(addr, size)
        <3> HIDE DEF c, p, end
        <3> QED
            BY <1>5, <1>6, <2>1, <2>3, <2>4, <2>5 DEF Took
    <2> QED
        BY <1>7, <2>6 DEF Effect
<1>8. CASE /\ End(p) > end
           /\ list' = InsertAt(
                 ReplaceAt(list, n, [p EXCEPT
                    !.size = Wrap(Wrap(p.size - size, SizeMod)
                                  - Low(Wrap(End(p) - end, AddrMod)), SizeMod)]),
                 n + 1, [addr |-> end, size |-> Low(Wrap(End(p) - end, AddrMod))])
           /\ Return(op, want, "NO_ERROR", addr, size)
    <2> DEFINE t == ReplaceAt(list, n, c)
    <2>1. /\ rest \in Nat \ {0} /\ rest < AddrMod /\ end <= p.addr + p.size
          /\ p.size - size \in Nat /\ p.size - size < SizeMod
          /\ (p.size - size) - rest = addr - p.addr
          /\ addr - p.addr \in Nat /\ addr - p.addr < SizeMod
        <3>1. end < p.addr + p.size /\ p.addr < addr
            BY <1>1, <1>2, <1>8
        <3>2. /\ p.addr \in Nat /\ p.size \in Nat /\ addr \in Nat
              /\ size \in Nat \ {0} /\ AddrMod \in Nat /\ p.addr + p.size < AddrMod
            BY <1>1
        <3>3. /\ rest \in Nat \ {0} /\ rest < AddrMod
              /\ p.size - size \in Nat /\ p.size - size < AddrMod
              /\ (p.size - size) - rest = addr - p.addr
              /\ addr - p.addr \in Nat /\ addr - p.addr < AddrMod
              /\ end <= p.addr + p.size
            <4> HIDE DEF p
            <4>1. rest \in Nat \ {0}
                BY <3>1, <3>2
            <4>2. rest < AddrMod
                BY <3>1, <3>2
            <4>3. p.size - size \in Nat /\ p.size - size < AddrMod
                BY <3>1, <3>2
            <4>4. addr - p.addr \in Nat
                BY <3>1, <3>2
            <4>5. addr - p.addr < AddrMod
                BY <3>1, <3>2
            <4>6. (p.size - size) - rest = addr - p.addr
                BY <3>1, <3>2
            <4>7. end <= p.addr + p.size
                BY <3>1, <3>2
            <4> QED
                BY <4>1, <4>2, <4>3, <4>4, <4>5, <4>6, <4>7
        <3> HIDE DEF p, rest, end
        <3> QED
            BY <3>3
    <2>2. Low(Wrap(End(p) - end, AddrMod)) = rest
        <3>1. Wrap(End(p) - end, AddrMod) = rest
            BY <1>1, <1>2, <2>1, WrapId
        <3> QED
            BY <2>1, <3>1, LowId
    <2>3. Wrap(Wrap(p.size - size, SizeMod) - rest, SizeMod) = addr - p.addr
        <3>1. Wrap(p.size - size, SizeMod) = p.size - size
            BY <1>1, <2>1, WrapId
        <3> QED
            BY <1>1, <2>1, <3>1, WrapId
    <2>4. list' = InsertAt(t, n + 1, d)
        <3>1. [p EXCEPT !.size = addr - p.addr] = c
            BY <1>1
        <3> HIDE DEF rest, c, p, end
        <3>2. list' = InsertAt(ReplaceAt(list, n, [p EXCEPT !.size = addr - p.addr]),
                               n + 1, [addr |-> end, size |-> rest])
            BY <1>8, <2>2, <2>3
        <3> QED
            BY <3>1, <3>2
    <2>5. /\ t \in Seq(Block) /\ Len(t) = Len(list)
          /\ \A i \in 1 .. Len(list) : t[i] = IF i = n THEN c ELSE list[i]
        <3>1. c \in Block
            BY <1>5, <2>1
        <3>2. list \in Seq(Block)
            BY ListFacts
        <3>3. n \in 1 .. Len(list)
            OBVIOUS
        <3> HIDE DEF c
        <3> QED
            BY ONLY <3>1, <3>2, <3>3, ReplaceFacts
    <2>6. d \in Block /\ Plain(d) /\ d.addr = end /\ d.size = rest
        <3>1. end + rest = p.addr + p.size
            BY <1>1
        <3>2. end \in Addr /\ rest \in Size
            BY <1>1, <2>1 DEF Addr, Size
        <3>3. rest # 0 /\ end + rest < AddrMod
            BY <1>1, <2>1, <3>1
        <3> HIDE DEF end, rest, p
        <3> QED
            BY <3>2, <3>3 DEF Block, Plain
    <2>7. /\ Good(t)
          /\ \A x \in Int : IsFree(x, t) <=>
                (IsFree(x, list) /\ ~In(x, p)) \/ In(x, c)
        BY <1>5, <2>1
    <2>8. /\ Good(list')
          /\ \A x \in Int : IsFree(x, list') <=> IsFree(x, t) \/ In(x, d)
        <3>1. ASSUME NEW i \in 1 .. Len(t), i < n + 1
              PROVE  Apart(t[i], d)
            <4>0. p.addr < addr /\ addr < end /\ c.addr + c.size = addr
                BY <1>1, <1>5, <2>1
            <4>1. CASE i = n
                <5>1. t[i] = c
                    BY <2>5, <4>1
                <5> HIDE DEF t, c, d, end
                <5> QED
                    BY <2>6, <4>0, <5>1 DEF Apart
            <4>2. CASE i < n
                <5>1. t[i] = list[i] /\ list[i].addr + list[i].size < p.addr
                    BY <2>5, <4>2, ListFacts DEF Apart
                <5>2. /\ list[i].addr + list[i].size \in Int
                      /\ p.addr \in Int /\ addr \in Int /\ end \in Int
                    <6>1. i \in 1 .. Len(list)
                        BY <2>5
                    <6>2. list[i].addr \in Nat /\ list[i].size \in Nat
                        BY <6>1, ListFacts
                    <6>3. p.addr \in Int /\ addr \in Int /\ end \in Int
                        BY <1>1
                    <6> QED
                        BY <6>2, <6>3
                <5> HIDE DEF t, d, p, end
                <5> QED
                    BY <2>6, <4>0, <5>1, <5>2 DEF Apart
            <4> QED
                BY <3>1, <4>1, <4>2, ListFacts, <2>5
        <3>2. ASSUME NEW i \in 1 .. Len(t), n + 1 <= i
              PROVE  Apart(d, t[i])
            <4>1. n < i /\ t[i] = list[i] /\ i \in 1 .. Len(list)
                BY <2>5, <3>2, ListFacts
            <4>2. p.addr + p.size < list[i].addr
                BY <4>1, ListFacts DEF Apart
            <4>3. d.addr + d.size = p.addr + p.size
                BY <1>1, <2>6
            <4> QED
                BY <4>1, <4>2, <4>3 DEF Apart
        <3>3. n + 1 \in 1 .. Len(t) + 1
            BY <2>5, ListFacts
        <3> HIDE DEF t, d
        <3> QED
            BY <2>4, <2>6, <2>7, <3>1, <3>2, <3>3, GoodInsert
    <2>9. \A x \in Int : /\ In(x, p) <=> \/ In(x, c) \/ In(x, d)
                                        \/ (addr <= x /\ x < addr + size)
                         /\ In(x, c) \/ In(x, d) => ~(addr <= x /\ x < addr + size)
        <3>1. /\ p.addr \in Nat /\ addr \in Nat /\ end \in Nat /\ p.addr + p.size \in Nat
              /\ p.addr < addr /\ addr < end /\ end < p.addr + p.size
              /\ c.addr = p.addr /\ c.addr + c.size = addr
              /\ d.addr = end /\ d.addr + d.size = p.addr + p.size
              /\ addr + size = end
            <4>1. /\ p.addr \in Nat /\ addr \in Nat /\ end \in Nat
                  /\ p.addr + p.size \in Nat
                BY <1>1
            <4>2. end < p.addr + p.size /\ p.addr < addr
                BY <1>1, <1>2, <1>8
            <4>3. /\ p.addr \in Nat /\ p.size \in Nat /\ size \in Nat \ {0}
                  /\ AddrMod \in Nat /\ p.addr + p.size < AddrMod
                BY <1>1
            <4>4. /\ p.addr + (addr - p.addr) = addr
                  /\ end + rest = p.addr + p.size
                  /\ addr < end
                <5> HIDE DEF p
                <5> QED
                    BY <4>1, <4>2, <4>3, SplitArithmetic
            <4> HIDE DEF c, d, p, rest
            <4> QED
                BY <1>5, <2>1, <2>6, <4>1, <4>2, <4>4
        <3> HIDE DEF c, d, p, end
        <3> QED
            BY <3>1 DEF In
    <2>10. Took(addr, size)
        <3> HIDE DEF c, d, p, t
        <3> QED
            BY <1>6, <2>7, <2>8, <2>9 DEF Took
    <2> QED
        BY <1>8, <2>10 DEF Effect
<1> QED
    BY <1>1, <1>2, <1>3, <1>4, <1>7, <1>8 DEF AllocInside

LEMMA AllocAtEffect ==
    ASSUME Good(list), NEW op, NEW want, NEW addr \in Addr, NEW size \in Size,
           size # 0, addr + size < AddrMod,
           AllocAt(op, want, addr, size)
    PROVE  Effect(op, want, addr, size, Took(addr, size))
<1>1. PICK n \in 1 .. Len(list) + 1 :
         /\ StopsAt(n, addr)
         /\ \/ /\ n <= Len(list) /\ list[n].addr = addr
               /\ AllocAtStart(n, op, want, addr, size)
            \/ /\ ~(n <= Len(list) /\ list[n].addr = addr)
               /\ n = 1
               /\ Refused(op, want, "E_OUT_OF_STORAGE", addr, size)
            \/ /\ ~(n <= Len(list) /\ list[n].addr = addr)
               /\ n > 1
               /\ AllocInside(n - 1, op, want, addr, size)
    BY DEF AllocAt
<1>2. Len(list) \in Nat /\ addr \in Int
    BY ListFacts, WidthAssumption DEF Addr
<1>3. CASE /\ n <= Len(list) /\ list[n].addr = addr
           /\ AllocAtStart(n, op, want, addr, size)
    <2>1. n \in 1 .. Len(list)
        BY <1>2, <1>3
    <2> QED
        BY <1>3, <2>1, AtStartEffect
<1>4. CASE Refused(op, want, "E_OUT_OF_STORAGE", addr, size)
    BY <1>4 DEF Effect, Refused, Retcodes
<1>5. CASE /\ ~(n <= Len(list) /\ list[n].addr = addr)
           /\ n > 1
           /\ AllocInside(n - 1, op, want, addr, size)
    <2>1. n - 1 \in 1 .. Len(list) /\ n - 1 \in 1 .. n - 1
        BY <1>2, <1>5
    <2>2. list[n - 1].addr < addr
        BY <1>1, <2>1 DEF StopsAt
    <2>3. ASSUME NEW i \in 1 .. Len(list), n - 1 < i
          PROVE  addr < list[i].addr
        <3>1. n <= i /\ n \in 1 .. Len(list)
            BY <1>2, <2>3
        <3>2. addr < list[n].addr
            BY <1>1, <1>2, <1>5, <3>1, ListFacts DEF StopsAt
        <3>3. CASE i = n
            BY <3>2, <3>3
        <3>4. CASE n < i
            <4>1. Apart(list[n], list[i])
                <5>1. \A a, b \in 1 .. Len(list) : a < b => Apart(list[a], list[b])
                    BY ListFacts
                <5> QED
                    BY <2>3, <3>1, <3>4, <5>1
            <4>2. list[n].addr \in Nat /\ list[n].size \in Nat /\ list[i].addr \in Nat
                BY <2>3, <3>1, ListFacts
            <4> DEFINE a == list[n].addr
                       z == list[n].size
                       b == list[i].addr
            <4>3. a + z < b
                BY <4>1 DEF Apart
            <4>4. addr < a /\ addr \in Int /\ a \in Nat /\ z \in Nat /\ b \in Nat
                BY <1>2, <3>2, <4>2
            <4> HIDE DEF a, z, b
            <4>5. addr < b
                BY ONLY <4>3, <4>4
            <4> QED
                BY <4>5 DEF b
        <3> QED
            BY <1>2, <3>1, <3>3, <3>4
    <2>4. SizeMod = AddrMod
        BY BelowTop
    <2> QED
        BY <1>5, <2>1, <2>2, <2>3, <2>4, InsideEffect
<1> QED
    BY <1>1, <1>3, <1>4, <1>5

-----------------------------------------------------------------------------
(* free_block.  Position n is the first block that does not start below     *)
(* addr; "over" tests compare the span with the two blocks around it.       *)

LEMMA FreeInsert ==
    ASSUME Good(list), NEW n \in 1 .. Len(list) + 1,
           NEW addr \in Addr, NEW size \in Size, size # 0, addr + size < AddrMod,
           \A i \in 1 .. Len(list) : i < n => list[i].addr + list[i].size < addr,
           \A i \in 1 .. Len(list) : n <= i => addr + size < list[i].addr,
           list' = InsertAt(list, n, [addr |-> addr, size |-> size])
    PROVE  Gave(addr, size)
<1> DEFINE b == [addr |-> addr, size |-> size]
<1>1. addr \in Nat /\ size \in Nat
    BY WidthAssumption DEF Addr, Size
<1>2. b \in Block /\ Plain(b) /\ b.addr = addr /\ b.size = size
    BY DEF Block, Plain
<1>3. /\ Good(list')
      /\ \A x \in Int : IsFree(x, list') <=> IsFree(x, list) \/ In(x, b)
    <2>1. list' = InsertAt(list, n, b)
        OBVIOUS
    <2> HIDE DEF b
    <2>2. /\ \A i \in 1 .. Len(list) : i < n => Apart(list[i], b)
          /\ \A i \in 1 .. Len(list) : n <= i => Apart(b, list[i])
        BY <1>2 DEF Apart
    <2>3. /\ Good(InsertAt(list, n, b))
          /\ \A x \in Int : IsFree(x, InsertAt(list, n, b)) <=>
                IsFree(x, list) \/ In(x, b)
        BY <1>2, <2>2, GoodInsert
    <2> QED
        BY <2>1, <2>3
<1>4. ASSUME NEW x \in Int, addr <= x, x < addr + size
      PROVE  ~IsFree(x, list)
    <2>1. SUFFICES ASSUME NEW i \in 1 .. Len(list), In(x, list[i])
                   PROVE  FALSE
        BY DEF IsFree
    <2>2. /\ list[i].addr \in Int /\ list[i].addr + list[i].size \in Int
          /\ list[i].addr <= x /\ x < list[i].addr + list[i].size
        BY <2>1, ListFacts DEF In
    <2>3. i < n \/ n <= i
        BY ListFacts
    <2>4. CASE i < n
        BY <1>1, <1>4, <2>2, <2>4
    <2>5. CASE n <= i
        BY <1>1, <1>4, <2>2, <2>5
    <2> QED
        BY <2>3, <2>4, <2>5
<1>5. \A x \in Int : In(x, b) <=> addr <= x /\ x < addr + size
    BY <1>2 DEF In
<1> HIDE DEF b
<1> QED
    BY <1>3, <1>4, <1>5 DEF Gave

\* A block that grows over a span next to it, with no block in between.
LEMMA FreeGrow ==
    ASSUME NEW s, Good(s), NEW n \in 1 .. Len(s), NEW b \in Block, Plain(b),
           NEW addr \in Addr, NEW size \in Size, size # 0,
           \/ b.addr = s[n].addr /\ s[n].addr + s[n].size = addr
           \/ b.addr = addr /\ addr + size = s[n].addr,
           b.size = s[n].size + size,
           \A i \in 1 .. Len(s) : i < n => s[i].addr + s[i].size < b.addr,
           \A i \in 1 .. Len(s) : n < i => b.addr + b.size < s[i].addr
    PROVE  /\ Good(ReplaceAt(s, n, b))
           /\ \A x \in Int :
                 /\ addr <= x /\ x < addr + size => ~IsFree(x, s)
                 /\ IsFree(x, ReplaceAt(s, n, b)) <=>
                       IsFree(x, s) \/ (addr <= x /\ x < addr + size)
<1> DEFINE p == s[n]
<1>1. /\ addr \in Nat /\ size \in Nat /\ b.addr \in Nat /\ b.size \in Nat
      /\ p.addr \in Nat /\ p.size \in Nat
    BY ListFacts, BlockFacts, WidthAssumption DEF Addr, Size
<1>2. /\ \A i \in 1 .. Len(s) : i < n => Apart(s[i], b)
      /\ \A i \in 1 .. Len(s) : n < i => Apart(b, s[i])
    BY DEF Apart
<1>3. /\ Good(ReplaceAt(s, n, b))
      /\ \A x \in Int : IsFree(x, ReplaceAt(s, n, b)) <=>
            (IsFree(x, s) /\ ~In(x, p)) \/ In(x, b)
    BY <1>2, GoodReplace
<1>4. \A x \in Int : /\ In(x, b) <=> In(x, p) \/ (addr <= x /\ x < addr + size)
                     /\ In(x, p) => ~(addr <= x /\ x < addr + size)
    <2>1. CASE b.addr = p.addr /\ p.addr + p.size = addr
        <3>1. b.addr + b.size = addr + size
            BY <1>1, <2>1
        <3> HIDE DEF p
        <3> QED
            BY <1>1, <2>1, <3>1 DEF In
    <2>2. CASE b.addr = addr /\ addr + size = p.addr
        <3>1. b.addr + b.size = p.addr + p.size
            BY <1>1, <2>2
        <3> HIDE DEF p
        <3> QED
            BY <1>1, <2>2, <3>1 DEF In
    <2> QED
        BY <2>1, <2>2
<1>5. ASSUME NEW x \in Int, addr <= x, x < addr + size
      PROVE  ~IsFree(x, s)
    <2>1. SUFFICES ASSUME NEW i \in 1 .. Len(s), In(x, s[i])
                   PROVE  FALSE
        BY DEF IsFree
    <2>2. /\ s[i].addr \in Int /\ s[i].addr + s[i].size \in Int
          /\ s[i].addr <= x /\ x < s[i].addr + s[i].size
        BY <2>1, ListFacts DEF In
    <2>3. /\ b.addr <= x /\ x < b.addr + b.size
        BY <1>4, <1>5 DEF In
    <2>4. i < n \/ i = n \/ n < i
        BY ListFacts
    <2>5. CASE i < n
        BY <1>1, <2>2, <2>3, <2>5
    <2>6. CASE i = n
        BY <1>4, <1>5, <2>1, <2>6
    <2>7. CASE n < i
        <3>1. b.addr + b.size < s[i].addr /\ b.addr + b.size \in Int
            BY <1>1, <2>7
        <3> QED
            BY <2>2, <2>3, <3>1
    <2> QED
        BY <2>4, <2>5, <2>6, <2>7
<1>6. \A x \in Int : In(x, p) => IsFree(x, s)
    BY DEF IsFree
<1> HIDE DEF p
<1> QED
    BY <1>3, <1>4, <1>5, <1>6

\* Two spans that touch make one as long as both.
LEMMA TouchArithmetic ==
    ASSUME NEW a \in Nat, NEW k \in Nat \ {0}, NEW b \in Nat, NEW l \in Nat \ {0},
           NEW m \in Nat, a + k = b, b + l < m
    PROVE  /\ k + l \in Nat \ {0} /\ k + l < m
           /\ a + (k + l) = b + l
OBVIOUS

LEMMA FreeEffect ==
    ASSUME Good(list), NEW addr \in Addr, NEW size \in Size,
           size # 0, addr + size < AddrMod,
           free_block(addr, size)
    PROVE  Effect("free", NoConstraint, addr, size, Gave(addr, size))
<1> DEFINE end == addr + size
           op == "free"
           want == NoConstraint
<1>1. /\ addr \in Nat /\ size \in Nat \ {0} /\ end \in Nat /\ end < AddrMod
      /\ AddrMod \in Nat /\ SizeMod = AddrMod /\ Len(list) \in Nat
    BY WidthAssumption, BelowTop, ListFacts DEF Addr, Size
<1>2. Wrap(addr + size, AddrMod) = end
    BY <1>1, WrapId
<1>3. PICK n \in 1 .. Len(list) + 1 :
        LET overP == n > 1 /\ End(list[n - 1]) > addr
            overB == n <= Len(list) /\ end > list[n].addr
            meetsP == n > 1 /\ End(list[n - 1]) = addr
            meetsB == n <= Len(list) /\ end = list[n].addr
            grown == [list[n - 1] EXCEPT !.size = Wrap(@ + size, SizeMod)]
            both == [grown EXCEPT !.size = Wrap(@ + list[n].size, SizeMod)]
        IN
        /\ StopsAt(n, addr)
        /\ \/ Refused(op, want, "E_BAD_ARGUMENT", addr, size)
           \/ Refused(op, want, "E_OUT_OF_MEMORY", addr, size)
           \/ /\ ~overP /\ ~overB /\ meetsP /\ ~meetsB
              /\ list' = ReplaceAt(list, n - 1, grown)
              /\ Return(op, want, "NO_ERROR", addr, size)
           \/ /\ ~overP /\ ~overB /\ meetsP /\ meetsB
              /\ list' = ReplaceAt(RemoveAt(list, n), n - 1, both)
              /\ Return(op, want, "NO_ERROR", addr, size)
           \/ /\ ~overP /\ ~overB /\ ~meetsP /\ meetsB
              /\ list' = ReplaceAt(list, n,
                            [addr |-> addr,
                             size |-> Wrap(list[n].size + size, SizeMod)])
              /\ Return(op, want, "NO_ERROR", addr, size)
           \/ /\ ~overP /\ ~overB /\ ~meetsP /\ ~meetsB
              /\ list' = InsertAt(list, n, [addr |-> addr, size |-> size])
              /\ Return(op, want, "NO_ERROR", addr, size)
    BY <1>2 DEF free_block
<1> DEFINE overP == n > 1 /\ End(list[n - 1]) > addr
           overB == n <= Len(list) /\ end > list[n].addr
           meetsP == n > 1 /\ End(list[n - 1]) = addr
           meetsB == n <= Len(list) /\ end = list[n].addr
           grown == [list[n - 1] EXCEPT !.size = Wrap(@ + size, SizeMod)]
           both == [grown EXCEPT !.size = Wrap(@ + list[n].size, SizeMod)]
           after == [addr |-> addr, size |-> Wrap(list[n].size + size, SizeMod)]
\* Blocks before n end at or below addr; blocks from n on start at or above end.
<1>4. ASSUME ~overP, NEW i \in 1 .. Len(list), i < n
      PROVE  /\ n > 1 /\ n - 1 \in 1 .. Len(list)
             /\ list[i].addr + list[i].size <= addr
             /\ i < n - 1 => list[i].addr + list[i].size < list[n - 1].addr
             /\ i < n - 1 \/ ~meetsP => list[i].addr + list[i].size < addr
    <2>1. n > 1 /\ n - 1 \in 1 .. Len(list) /\ (i = n - 1 \/ i < n - 1)
        BY <1>1, <1>4
    <2>2. End(list[n - 1]) = list[n - 1].addr + list[n - 1].size
        BY <2>1, EndFacts
    <2>3. /\ list[n - 1].addr \in Nat /\ list[n - 1].size \in Nat \ {0}
          /\ list[i].addr \in Nat /\ list[i].size \in Nat
        BY <2>1, ListFacts
    <2>4. list[n - 1].addr + list[n - 1].size <= addr
        BY <1>1, <1>4, <2>1, <2>2, <2>3
    <2>5. i < n - 1 => list[i].addr + list[i].size < list[n - 1].addr
        BY <2>1, ListFacts DEF Apart
    <2>6. i < n - 1 => list[i].addr + list[i].size < addr
        <3>1. list[n - 1].addr < addr
            <4> HIDE DEF end
            <4>1. addr \in Nat
                BY <1>1
            <4> QED
                BY <2>3, <2>4, <4>1
        <3> QED
            BY <1>1, <2>3, <2>5, <3>1
    <2>7. ~meetsP => list[n - 1].addr + list[n - 1].size < addr
        BY <1>1, <2>1, <2>2, <2>3, <2>4
    <2> HIDE DEF meetsP
    <2>8. CASE i = n - 1
        BY <1>1, <2>1, <2>3, <2>4, <2>7, <2>8
    <2>9. CASE i < n - 1
        BY <1>1, <2>1, <2>3, <2>5, <2>6, <2>9
    <2> QED
        BY <2>1, <2>8, <2>9
<1>5. ASSUME ~overB, NEW i \in 1 .. Len(list), n <= i
      PROVE  /\ n \in 1 .. Len(list)
             /\ end <= list[i].addr
             /\ n < i => list[n].addr + list[n].size < list[i].addr
             /\ n < i \/ ~meetsB => end < list[i].addr
    <2>1. n \in 1 .. Len(list) /\ n <= Len(list) /\ (i = n \/ n < i)
        BY <1>1, <1>5
    <2>2. /\ list[n].addr \in Nat /\ list[n].size \in Nat \ {0}
          /\ list[i].addr \in Nat /\ list[i].size \in Nat
        BY <2>1, ListFacts
    <2>3. end <= list[n].addr
        BY <1>1, <1>5, <2>1, <2>2
    <2>4. n < i => list[n].addr + list[n].size < list[i].addr
        BY <2>1, ListFacts DEF Apart
    <2>5. ~meetsB => end < list[n].addr
        BY <1>1, <2>1, <2>2, <2>3
    <2> HIDE DEF meetsB, end
    <2>6. CASE i = n
        BY <1>1, <2>1, <2>2, <2>3, <2>5, <2>6
    <2>7. CASE n < i
        BY <1>1, <2>1, <2>2, <2>3, <2>4, <2>7
    <2> QED
        BY <2>1, <2>6, <2>7
<1>6. CASE \/ Refused(op, want, "E_BAD_ARGUMENT", addr, size)
           \/ Refused(op, want, "E_OUT_OF_MEMORY", addr, size)
    BY <1>6 DEF Effect, Refused, Retcodes
\* The span only touches the block before it.
<1>7. CASE /\ ~overP /\ ~overB /\ meetsP /\ ~meetsB
           /\ list' = ReplaceAt(list, n - 1, grown)
           /\ Return(op, want, "NO_ERROR", addr, size)
    <2> DEFINE p == list[n - 1]
               b == [addr |-> p.addr, size |-> p.size + size]
    <2>1. n - 1 \in 1 .. Len(list) /\ End(p) = addr
        BY <1>1, <1>7
    <2>2. /\ p.addr + p.size = addr /\ p \in Block
          /\ p.addr \in Nat /\ p.size \in Nat \ {0}
        BY <2>1, EndFacts, ListFacts
    <2>3. p.size + size \in Nat \ {0} /\ p.size + size < AddrMod
          /\ p.addr + (p.size + size) = end
        <3> HIDE DEF p
        <3>1. ASSUME NEW a \in Nat, NEW k \in Nat \ {0}, a + k = addr
              PROVE  /\ k + size \in Nat \ {0} /\ k + size < AddrMod
                     /\ a + (k + size) = end
            BY <1>1, <3>1
        <3> QED
            BY <2>2, <3>1
    <2>4. grown = b
        <3>1. Wrap(p.size + size, SizeMod) = p.size + size
            BY <1>1, <2>3, WrapId
        <3> QED
            BY <2>2, <3>1 DEF Block
    <2>5. /\ b \in Block /\ Plain(b) /\ b.addr = p.addr
          /\ b.size = p.size + size /\ b.addr + b.size = end
        <3> HIDE DEF p
        <3> QED
            BY <1>1, <2>2, <2>3 DEF Block, Plain, Addr, Size
    <2>6. ASSUME NEW i \in 1 .. Len(list), i < n - 1
          PROVE  list[i].addr + list[i].size < b.addr
        <3>1. i < n
            BY <1>1, <2>6
        <3> QED
            BY <1>4, <1>7, <2>5, <2>6, <3>1
    <2>7. ASSUME NEW i \in 1 .. Len(list), n - 1 < i
          PROVE  b.addr + b.size < list[i].addr
        <3>1. n <= i
            BY <1>1, <2>7
        <3> QED
            BY <1>5, <1>7, <2>5, <3>1
    <2> HIDE DEF b
    <2>8. Gave(addr, size)
        BY <1>7, <2>1, <2>2, <2>4, <2>5, <2>6, <2>7, FreeGrow DEF Gave
    <2> QED
        BY <1>7, <2>8 DEF Effect
\* The span only touches the block after it.
<1>9. CASE /\ ~overP /\ ~overB /\ ~meetsP /\ meetsB
           /\ list' = ReplaceAt(list, n, after)
           /\ Return(op, want, "NO_ERROR", addr, size)
    <2> DEFINE p == list[n]
               b == [addr |-> addr, size |-> p.size + size]
    <2>1. n \in 1 .. Len(list) /\ end = p.addr
        BY <1>1, <1>9
    <2>2. /\ p \in Block /\ p.addr \in Nat /\ p.size \in Nat \ {0}
          /\ p.addr + p.size < AddrMod
        BY <2>1, ListFacts
    <2>3. p.size + size \in Nat \ {0} /\ p.size + size < AddrMod
          /\ addr + (p.size + size) = p.addr + p.size
        <3> HIDE DEF p
        <3> QED
            BY <1>1, <2>1, <2>2
    <2>4. after = b
        BY <1>1, <2>3, WrapId
    <2>5. /\ b \in Block /\ Plain(b) /\ b.addr = addr
          /\ b.size = p.size + size /\ b.addr + b.size = p.addr + p.size
        <3> HIDE DEF p
        <3> QED
            BY <1>1, <2>2, <2>3 DEF Block, Plain, Size
    <2>6. ASSUME NEW i \in 1 .. Len(list), i < n
          PROVE  list[i].addr + list[i].size < b.addr
        BY <1>4, <1>9, <2>5, <2>6
    <2>7. ASSUME NEW i \in 1 .. Len(list), n < i
          PROVE  b.addr + b.size < list[i].addr
        <3>1. n <= i
            BY <1>1, <2>7
        <3> QED
            BY <1>5, <1>9, <2>5, <2>7, <3>1
    <2> HIDE DEF b
    <2>8. Gave(addr, size)
        BY <1>9, <2>1, <2>4, <2>5, <2>6, <2>7, FreeGrow DEF Gave
    <2> QED
        BY <1>9, <2>8 DEF Effect
\* The span touches neither.
<1>10. CASE /\ ~overP /\ ~overB /\ ~meetsP /\ ~meetsB
            /\ list' = InsertAt(list, n, [addr |-> addr, size |-> size])
            /\ Return(op, want, "NO_ERROR", addr, size)
    <2>1. ASSUME NEW i \in 1 .. Len(list), i < n
          PROVE  list[i].addr + list[i].size < addr
        BY <1>4, <1>10, <2>1
    <2>2. ASSUME NEW i \in 1 .. Len(list), n <= i
          PROVE  addr + size < list[i].addr
        BY <1>5, <1>10, <2>2
    <2>3. Gave(addr, size)
        BY <1>10, <2>1, <2>2, FreeInsert
    <2> QED
        BY <1>10, <2>3 DEF Effect
\* The span fills the gap between two blocks: they become one.
<1>8. CASE /\ ~overP /\ ~overB /\ meetsP /\ meetsB
           /\ list' = ReplaceAt(RemoveAt(list, n), n - 1, both)
           /\ Return(op, want, "NO_ERROR", addr, size)
    <2> DEFINE p == list[n - 1]
               q == list[n]
               t == RemoveAt(list, n)
               b == [addr |-> p.addr, size |-> p.size + (size + q.size)]
    <2>1. /\ n - 1 \in 1 .. Len(list) /\ n \in 1 .. Len(list)
          /\ End(p) = addr /\ end = q.addr
        BY <1>1, <1>8
    <2>2. /\ p.addr + p.size = addr /\ p \in Block /\ q \in Block
          /\ p.addr \in Nat /\ p.size \in Nat \ {0}
          /\ q.addr \in Nat /\ q.size \in Nat \ {0}
          /\ q.addr + q.size < AddrMod
        BY <2>1, EndFacts, ListFacts
    <2>3. /\ size + q.size \in Size /\ size + q.size # 0
          /\ p.size + (size + q.size) \in Size /\ p.size + (size + q.size) # 0
          /\ p.addr + (p.size + (size + q.size)) = q.addr + q.size
          /\ addr + (size + q.size) = q.addr + q.size
          /\ p.size + size \in Nat /\ p.size + size < AddrMod
        <3> HIDE DEF p, q
        <3>1. /\ size + q.size \in Nat \ {0} /\ size + q.size < AddrMod
              /\ addr + (size + q.size) = q.addr + q.size
            <4>1. /\ addr \in Nat /\ size \in Nat /\ size # 0 /\ q.addr \in Nat
                  /\ q.size \in Nat /\ AddrMod \in Nat
                BY <1>1, <2>2
            <4>2. addr + size = q.addr
                BY <2>1
            <4>3. q.addr + q.size < AddrMod
                BY <2>2
            <4> HIDE DEF end
            <4> QED
                BY <4>1, <4>2, <4>3
        <3>2. ASSUME NEW l \in Nat \ {0}, addr + l < AddrMod
              PROVE  /\ p.size + l \in Nat \ {0} /\ p.size + l < AddrMod
                     /\ p.addr + (p.size + l) = addr + l
            <4>1. /\ p.addr \in Nat /\ p.size \in Nat \ {0} /\ addr \in Nat
                  /\ AddrMod \in Nat /\ p.addr + p.size = addr
                BY <1>1, <2>2
            <4> HIDE DEF end
            <4> QED
                BY <3>2, <4>1, TouchArithmetic
        <3>3. /\ size + q.size \in Size /\ size + q.size # 0
            BY <1>1, <3>1 DEF Size
        <3>4. /\ p.size + (size + q.size) \in Nat \ {0}
              /\ p.size + (size + q.size) < AddrMod
              /\ p.addr + (p.size + (size + q.size)) = addr + (size + q.size)
            BY <2>2, <3>1, <3>2
        <3>5. /\ p.size + (size + q.size) \in Size
              /\ p.size + (size + q.size) # 0
            BY <1>1, <3>4 DEF Size
        <3>6. p.size + size \in Nat /\ p.size + size < AddrMod
            BY <1>1, <3>2
        <3> QED
            BY <3>1, <3>3, <3>4, <3>5, <3>6
    <2>4. both = b
        <3>1. p.size + size \in Nat /\ p.size + size < SizeMod
            BY <1>1, <2>3
        <3>2. Wrap(p.size + size, SizeMod) = p.size + size
            BY <1>1, <3>1, WrapId
        <3>3. grown = [addr |-> p.addr, size |-> p.size + size]
            BY <2>2, <3>2 DEF Block
        <3>4. (p.size + size) + q.size = p.size + (size + q.size)
            <4> HIDE DEF p, q
            <4> QED
                BY <1>1, <2>2
        <3>5. Wrap(p.size + (size + q.size), SizeMod) = p.size + (size + q.size)
            BY <1>1, <2>3, WrapId DEF Size
        <3> HIDE DEF p, grown
        <3> QED
            BY <3>3, <3>4, <3>5
    <2>5. /\ b \in Block /\ Plain(b) /\ b.addr = p.addr
          /\ b.size = p.size + (size + q.size) /\ b.addr + b.size = q.addr + q.size
        <3> HIDE DEF p, q
        <3> QED
            BY <1>1, <2>2, <2>3 DEF Block, Plain
    <2>6. /\ Good(t) /\ Len(t) = Len(list) - 1
          /\ \A x \in Int : IsFree(x, t) <=> IsFree(x, list) /\ ~In(x, q)
          /\ \A i \in 1 .. Len(list) - 1 :
                t[i] = IF i < n THEN list[i] ELSE list[i + 1]
        BY <2>1, GoodRemove, RemoveFacts, ListFacts
    <2> HIDE DEF t
    <2>7. n - 1 \in 1 .. Len(t) /\ t[n - 1] = p
        BY <1>1, <2>1, <2>6
    <2>8. ASSUME NEW i \in 1 .. Len(t), i < n - 1
          PROVE  t[i].addr + t[i].size < b.addr
        <3>1. i \in 1 .. Len(list) /\ i < n /\ t[i] = list[i]
            BY <1>1, <2>6, <2>8
        <3> QED
            BY <1>4, <1>8, <2>5, <2>8, <3>1
    <2>9. ASSUME NEW i \in 1 .. Len(t), n - 1 < i
          PROVE  b.addr + b.size < t[i].addr
        <3>1. i + 1 \in 1 .. Len(list) /\ n < i + 1 /\ n <= i + 1
              /\ i \in 1 .. Len(list) - 1 /\ ~(i < n)
            BY <1>1, <2>6, <2>9
        <3>2. t[i] = list[i + 1]
            BY <2>6, <3>1
        <3> QED
            BY <1>5, <1>8, <2>5, <3>1, <3>2
    <2> DEFINE l == size + q.size
    <2> HIDE DEF b, p, q, l
    <2>10. /\ Good(ReplaceAt(t, n - 1, b))
           /\ \A x \in Int :
                 /\ addr <= x /\ x < addr + l => ~IsFree(x, t)
                 /\ IsFree(x, ReplaceAt(t, n - 1, b)) <=>
                       IsFree(x, t) \/ (addr <= x /\ x < addr + l)
        <3>1. /\ l \in Size /\ l # 0 /\ b \in Block /\ Plain(b) /\ Good(t)
              /\ n - 1 \in 1 .. Len(t)
              /\ b.size = t[n - 1].size + l
              /\ b.addr = t[n - 1].addr /\ t[n - 1].addr + t[n - 1].size = addr
            BY <2>2, <2>3, <2>5, <2>6, <2>7 DEF l
        <3> QED
            BY <2>8, <2>9, <3>1, FreeGrow
    <2>11. ASSUME NEW x \in Int
           PROVE  /\ addr <= x /\ x < addr + l <=>
                        (addr <= x /\ x < addr + size) \/ In(x, q)
                  /\ In(x, q) => ~(addr <= x /\ x < addr + size)
                  /\ In(x, q) => IsFree(x, list)
        <3>1. In(x, q) => IsFree(x, list)
            BY <2>1 DEF IsFree, q
        <3>2. /\ addr + l = q.addr + q.size /\ addr + size = q.addr
              /\ q.addr \in Nat /\ q.addr + q.size \in Nat
              /\ addr < q.addr /\ q.addr < q.addr + q.size
            <4>1. addr + l = q.addr + q.size /\ addr + size = q.addr
                BY <2>1, <2>3 DEF l
            <4>2. q.addr \in Nat /\ q.size \in Nat \ {0}
                BY <2>2
            <4>3. addr < q.addr
                BY <1>1, <4>1, <4>2
            <4> QED
                BY <4>1, <4>2, <4>3
        <3>3. In(x, q) <=> q.addr <= x /\ x < q.addr + q.size
            BY DEF In
        <3> HIDE DEF end
        <3>4. addr <= x /\ x < addr + l <=> (addr <= x /\ x < addr + size) \/ In(x, q)
            BY <1>1, <3>2, <3>3
        <3>5. In(x, q) => ~(addr <= x /\ x < addr + size)
            BY <1>1, <3>2, <3>3
        <3> QED
            BY <3>1, <3>4, <3>5
    <2>12. Gave(addr, size)
        <3> HIDE DEF end
        <3> QED
            BY <1>8, <2>4, <2>6, <2>10, <2>11 DEF Gave, t
    <2> QED
        BY <1>8, <2>12 DEF Effect
<1> HIDE DEF overP, overB, meetsP, meetsB, grown, both, after
<1> QED
    BY <1>3, <1>6, <1>7, <1>8, <1>9, <1>10 DEF overP, overB, meetsP, meetsB, grown, both, after

-----------------------------------------------------------------------------
(* alloc_constrained and alloc_block: the span they settle on lies in a      *)
(* free block, wherever the minimum and the alignment have moved it.         *)

\* w is the upper part of block b that is left after moving up.
UpperPart(w, b) == /\ ~w.full
                   /\ w.addr \in Nat /\ w.size \in Nat \ {0}
                   /\ b.addr <= w.addr
                   /\ w.addr + w.size = b.addr + b.size

LEMMA MoveUpFacts ==
    ASSUME NEW b \in Block, Plain(b), NEW w, UpperPart(w, b),
           NEW off \in Nat, ~Outgrows(w, off)
    PROVE  UpperPart(MoveUp(w, off), b)
<1> DEFINE e == b.addr + b.size
<1>1. /\ b.addr \in Nat /\ b.size \in Nat /\ e \in Nat /\ e < AddrMod
      /\ AddrMod \in Nat /\ SizeMod = AddrMod /\ SizeMod \in Nat \ {0}
    BY BlockFacts, WidthAssumption, BelowTop DEF Plain
<1>2. /\ w.addr \in Nat /\ w.size \in Nat \ {0} /\ b.addr <= w.addr
      /\ w.addr + w.size = e /\ ~w.full
    BY DEF UpperPart
<1>3. CASE off = 0
    BY <1>3 DEF MoveUp
<1>4. CASE off # 0
    <2> DEFINE o == Low(off)
    <2>1. o \in Nat
        BY <1>1, ModFacts DEF Low
    <2>2. o < w.size
        <3>1. ~(o >= w.size)
            BY <1>2, <1>4 DEF Outgrows
        <3> HIDE DEF o
        <3> QED
            BY <1>2, <2>1, <3>1
    <2> HIDE DEF o
    <2>3. w.addr + o \in Int /\ 0 <= w.addr + o /\ w.addr + o < AddrMod
        <3> HIDE DEF e
        <3> QED
            BY <1>1, <1>2, <2>1, <2>2
    <2>4. w.size - o \in Int /\ 0 < w.size - o /\ w.size - o < SizeMod
        <3> HIDE DEF e
        <3> QED
            BY <1>1, <1>2, <2>1, <2>2
    <2>5. /\ Wrap(w.addr + o, AddrMod) = w.addr + o
          /\ Wrap(w.size - o, SizeMod) = w.size - o
        BY <1>1, <2>3, <2>4, WrapId
    <2>6. MoveUp(w, off) = [addr |-> w.addr + o, size |-> w.size - o, full |-> FALSE]
        BY <1>4, <2>5 DEF MoveUp, o
    <2>7. (w.addr + o) + (w.size - o) = e /\ b.addr <= w.addr + o
        <3> HIDE DEF e
        <3> QED
            BY <1>1, <1>2, <2>1
    <2> QED
        BY <2>3, <2>4, <2>6, <2>7 DEF UpperPart
<1> QED
    BY <1>3, <1>4

LEMMA FitFacts ==
    ASSUME Good(list), NEW n \in 1 .. Len(list), NEW c \in Constraint,
           NEW size \in Size, size # 0, Fits(list[n], c, size)
    PROVE  /\ Aligned(list[n], c).addr \in Addr
           /\ Aligned(list[n], c).addr + size < AddrMod
           /\ list[n].addr <= Aligned(list[n], c).addr
           /\ Aligned(list[n], c).addr + size <= list[n].addr + list[n].size
<1> DEFINE b == list[n]
           u == Window(b)
           v == AboveMin(b, c)
           w == Aligned(b, c)
<1>1. /\ b \in Block /\ Plain(b) /\ b.addr \in Nat /\ b.size \in Nat \ {0}
      /\ b.addr + b.size < AddrMod
    BY ListFacts DEF Plain
<1>2. AddrMod \in Nat /\ size \in Nat \ {0}
    BY WidthAssumption DEF Size
<1>3. c.min \in Nat /\ c.align \in Nat \ {0}
    BY <1>2 DEF Constraint, Addr
<1>4. UpperPart(u, b)
    <2>1. u.addr = b.addr /\ u.size = b.size
        BY DEF Window
    <2>2. u.full = (b.size = 0)
        BY Zenon DEF Window
    <2>3. ~u.full
        BY <1>1, <2>2
    <2> HIDE DEF u, b
    <2> QED
        BY <1>1, <2>1, <2>3 DEF UpperPart
<1>5. ~Outgrows(u, MinOff(u, c)) /\ ~Outgrows(v, AlignOff(v, c))
    BY DEF Fits, NoRoom
<1>6. MinOff(u, c) \in Nat
    BY <1>3, <1>4 DEF MinOff, UpperPart
<1>7. UpperPart(v, b)
    BY <1>1, <1>4, <1>5, <1>6, MoveUpFacts DEF AboveMin
<1>8. AlignOff(v, c) \in Nat
    <2>1. v.addr % c.align \in 0 .. c.align - 1
        BY <1>3, <1>7, ModFacts DEF UpperPart
    <2> HIDE DEF v
    <2> QED
        BY <1>3, <2>1 DEF AlignOff
<1>9. UpperPart(w, b)
    BY <1>1, <1>5, <1>7, <1>8, MoveUpFacts DEF Aligned
<1>10. ~TooSmall(w, size)
    BY DEF Fits
<1> HIDE DEF b, u, v, w
<1>11. size <= w.size
    BY <1>2, <1>9, <1>10 DEF UpperPart, TooSmall
<1>12. /\ w.addr \in Nat /\ w.size \in Nat /\ b.addr <= w.addr
       /\ w.addr + w.size = b.addr + b.size
    BY <1>9 DEF UpperPart
<1>13. w.addr + size <= b.addr + b.size
    BY <1>1, <1>2, <1>11, <1>12
<1>14. w.addr + size < AddrMod /\ w.addr < AddrMod
    BY <1>1, <1>2, <1>12, <1>13
<1> QED
    BY <1>2, <1>12, <1>13, <1>14 DEF Addr, b, w

LEMMA ConstrainedEffect ==
    ASSUME Good(list), NEW c \in Constraint, NEW size \in Size, size # 0,
           alloc_constrained(c, size)
    PROVE  \E addr \in Addr :
              /\ addr + size < AddrMod
              /\ Effect("constrained", c, addr, size, Took(addr, size))
<1>1. CASE Refused("constrained", c, "E_OUT_OF_STORAGE", 0, size)
    <2>1. 0 \in Addr /\ 0 + size < AddrMod
        BY WidthAssumption, BelowTop DEF Addr, Size
    <2> QED
        BY <1>1, <2>1 DEF Effect, Refused, Retcodes
<1>2. ASSUME NEW n \in 1 .. Len(list), Fits(list[n], c, size),
             AllocAt("constrained", c, Aligned(list[n], c).addr, size)
      PROVE  \E addr \in Addr :
                /\ addr + size < AddrMod
                /\ Effect("constrained", c, addr, size, Took(addr, size))
    BY <1>2, FitFacts, AllocAtEffect
<1> QED
    BY <1>1, <1>2 DEF alloc_constrained

LEMMA BlockEffect ==
    ASSUME Good(list), NEW size \in Size, size # 0, alloc_block(size)
    PROVE  \E addr \in Addr :
              /\ addr + size < AddrMod
              /\ Effect("block", NoConstraint, addr, size, Took(addr, size))
<1>1. CASE Refused("block", NoConstraint, "E_OUT_OF_STORAGE", 0, size)
    <2>1. 0 \in Addr /\ 0 + size < AddrMod
        BY WidthAssumption, BelowTop DEF Addr, Size
    <2> QED
        BY <1>1, <2>1 DEF Effect, Refused, Retcodes
<1>2. ASSUME NEW n \in 1 .. Len(list), Holds(list[n], size),
             AllocAt("block", NoConstraint, list[n].addr, size)
      PROVE  \E addr \in Addr :
                /\ addr + size < AddrMod
                /\ Effect("block", NoConstraint, addr, size, Took(addr, size))
    <2>1. /\ list[n] \in Block /\ list[n].size \in Nat \ {0}
          /\ list[n].addr \in Nat /\ list[n].addr + list[n].size < AddrMod
          /\ size \in Nat /\ AddrMod \in Nat
        BY ListFacts, WidthAssumption DEF Size
    <2>2. list[n].addr \in Addr /\ list[n].addr + size < AddrMod
        BY <1>2, <2>1 DEF Holds, Block
    <2> QED
        BY <1>2, <2>2, AllocAtEffect
<1> QED
    BY <1>1, <1>2 DEF alloc_block

-----------------------------------------------------------------------------
(* One call, whichever it is. *)

\* A call that takes, and a call that gives.
TakingStep == \E op \in {"fixed", "constrained", "block"}, want \in Constraint,
                 addr \in Addr, size \in Size \ {0} :
                 /\ addr + size < AddrMod
                 /\ Effect(op, want, addr, size, Took(addr, size))
GivingStep == \E addr \in Addr, size \in Size \ {0} :
                 /\ addr + size < AddrMod
                 /\ Effect("free", NoConstraint, addr, size, Gave(addr, size))

\* A call for the full size, which alloc_fixed refuses anywhere but at 0.
FullSizeStep == \E addr \in Addr : Effect("fixed", NoConstraint, addr, 0, FALSE)

LEMMA NoConstraintFacts == NoConstraint \in Constraint
BY WidthAssumption DEF NoConstraint, AlignOnly, Constraint, Addr

LEMMA FullSizeEffect ==
    ASSUME NEW op, NEW want, NEW addr \in Addr, addr # 0,
           AllocAt(op, want, addr, 0)
    PROVE  Effect(op, want, addr, 0, FALSE)
<1>1. Low(addr) # 0
    BY WidthAssumption, BelowTop, ModFacts DEF Addr, Low
<1> QED
    BY <1>1 DEF AllocAt, Refused, Effect, Retcodes

LEMMA StepEffect ==
    ASSUME Good(list), Next
    PROVE  TakingStep \/ GivingStep \/ FullSizeStep
<1>1. ASSUME NEW r \in FixedReqs, alloc_fixed(r.addr, r.size)
      PROVE  TakingStep \/ FullSizeStep
    <2>1. /\ r.addr \in Addr /\ r.size \in Size
          /\ r.addr + r.size < AddrMod
          /\ r.size = 0 => r.addr # 0
        BY RequestAssumption, BelowTop DEF Block
    <2>2. CASE r.size # 0
        <3>1. Effect("fixed", NoConstraint, r.addr, r.size, Took(r.addr, r.size))
            BY <1>1, <2>1, <2>2, AllocAtEffect DEF alloc_fixed
        <3> QED
            BY <2>1, <2>2, <3>1, NoConstraintFacts DEF TakingStep
    <2>3. CASE r.size = 0
        <3>1. Effect("fixed", NoConstraint, r.addr, 0, FALSE)
            BY <1>1, <2>1, <2>3, FullSizeEffect DEF alloc_fixed
        <3> QED
            BY <2>1, <3>1 DEF FullSizeStep
    <2> QED
        BY <2>2, <2>3
<1>2. ASSUME NEW size \in SizeReqs, alloc_block(size)
      PROVE  TakingStep
    <2>1. size \in Size \ {0}
        BY RequestAssumption, BelowTop
    <2> QED
        BY <1>2, <2>1, BlockEffect, NoConstraintFacts DEF TakingStep
<1>3. ASSUME NEW c \in Constraints, NEW size \in SizeReqs,
             alloc_constrained(c, size)
      PROVE  TakingStep
    <2>1. size \in Size \ {0} /\ c \in Constraint
        BY RequestAssumption, BelowTop
    <2> QED
        BY <1>3, <2>1, ConstrainedEffect DEF TakingStep
<1>4. ASSUME NEW r \in FreeReqs, Release(r)
      PROVE  GivingStep
    <2>1. /\ r.addr \in Addr /\ r.size \in Size /\ r.size # 0
          /\ r.addr + r.size < AddrMod
        BY RequestAssumption, BelowTop DEF Block
    <2>2. Effect("free", NoConstraint, r.addr, r.size, Gave(r.addr, r.size))
        BY <1>4, <2>1, FreeEffect DEF Release
    <2> QED
        BY <2>1, <2>2 DEF GivingStep
<1> QED
    BY <1>1, <1>2, <1>3, <1>4 DEF Next

-----------------------------------------------------------------------------
(* The inductive invariant.  ListOK alone is not inductive: a block of the   *)
(* full size, or one that ends at the last address, satisfies it, and the    *)
(* comparisons of alloc_fixed and free_block then wrap.                      *)

IInv == Good(list) /\ res \in [op : Ops, ret : Retcodes, addr : Addr,
                               size : Size, want : Constraint]

LEMMA IInvInit == Init => IInv
<1> SUFFICES ASSUME Init
             PROVE  IInv
    OBVIOUS
<1>1. Good(list)
    BY EmptySeq DEF Init, Good
<1>2. 0 \in Addr /\ 0 \in Size
    BY WidthAssumption DEF Addr, Size
<1> QED
    BY <1>1, <1>2, NoConstraintFacts DEF Init, IInv, Ops, Retcodes

LEMMA IInvNext == IInv /\ [Next]_vars => IInv'
<1> SUFFICES ASSUME IInv, [Next]_vars
             PROVE  IInv'
    OBVIOUS
<1> USE DEF IInv
<1>1. ASSUME NEW op \in Ops, NEW want \in Constraint, NEW addr \in Addr,
             NEW size \in Size, NEW Change, Change => Good(list'),
             Effect(op, want, addr, size, Change)
      PROVE  IInv'
    <2>1. Good(list')
        BY <1>1 DEF Effect
    <2>2. \E code \in Retcodes : Return(op, want, code, addr, size)
        BY <1>1 DEF Effect, Retcodes
    <2> QED
        BY <2>1, <2>2 DEF Return
<1>2. CASE TakingStep
    <2>1. PICK op \in {"fixed", "constrained", "block"}, want \in Constraint,
               addr \in Addr, size \in Size \ {0} :
               Effect(op, want, addr, size, Took(addr, size))
        BY <1>2 DEF TakingStep
    <2>2. op \in Ops /\ (Took(addr, size) => Good(list'))
        BY DEF Ops, Took
    <2> QED
        BY <1>1, <2>1, <2>2
<1>3. CASE GivingStep
    <2>1. PICK addr \in Addr, size \in Size \ {0} :
               Effect("free", NoConstraint, addr, size, Gave(addr, size))
        BY <1>3 DEF GivingStep
    <2>2. "free" \in Ops /\ (Gave(addr, size) => Good(list'))
        BY DEF Ops, Gave
    <2> QED
        BY <1>1, <2>1, <2>2, NoConstraintFacts
<1>4. CASE FullSizeStep
    <2>1. PICK addr \in Addr : Effect("fixed", NoConstraint, addr, 0, FALSE)
        BY <1>4 DEF FullSizeStep
    <2>2. "fixed" \in Ops /\ 0 \in Size
        BY WidthAssumption DEF Ops, Size
    <2> QED
        BY <1>1, <2>1, <2>2, NoConstraintFacts
<1>5. CASE UNCHANGED vars
    BY <1>5 DEF vars
<1> QED
    BY <1>2, <1>3, <1>4, <1>5, StepEffect

LEMMA Invariance == Spec => []IInv
BY IInvInit, IInvNext, PTL DEF Spec

\* The state of the allocator and its answers have their types: sizes and
\* addresses never leave their widths, whatever alloc.c adds and subtracts.
THEOREM TypeCorrect == Spec => []TypeOK
<1>1. IInv => TypeOK
    BY DEF IInv, TypeOK, Good
<1> QED
    BY <1>1, Invariance, PTL

\* The free list stays in address order, without overlaps, with neighbours
\* merged, inside the address space, through every split and merge.
THEOREM Canonical == Spec => []ListOK
<1>1. IInv => ListOK
    <2> SUFFICES ASSUME Good(list)
                 PROVE  ListOK
        BY DEF IInv
    <2>1. \A i \in 1 .. Len(list) : Length(list[i].size) = list[i].size
        BY ListFacts DEF Length
    <2>2. Coalesced
        BY <2>1, ListFacts DEF Coalesced, Apart
    <2>3. InSpace
        BY <2>1, ListFacts, WidthAssumption DEF InSpace
    <2> QED
        BY <2>2, <2>3 DEF ListOK
<1> QED
    BY <1>1, Invariance, PTL

-----------------------------------------------------------------------------
(* alloc.c implements FreeSpace. *)

\* Under the invariant FreeAddrs is what IsFree says.
LEMMA FreeAddrsFacts ==
    ASSUME NEW s, Good(s)
    PROVE  FreeIn(s) = {x \in Addr : IsFree(x, s)}
<1>1. ASSUME NEW x \in Addr, NEW i \in 1 .. Len(s)
      PROVE  x \in Span(s[i].addr, s[i].size) <=> In(x, s[i])
    <2>1. /\ s[i].addr \in Nat /\ s[i].size \in Nat \ {0} /\ x \in Nat
        BY ListFacts, WidthAssumption DEF Addr
    <2>2. x \in s[i].addr .. s[i].addr + s[i].size - 1 <=>
             s[i].addr <= x /\ x < s[i].addr + s[i].size
        BY <2>1
    <2> QED
        BY <2>1, <2>2 DEF Span, Length, In
<1> QED
    BY <1>1 DEF FreeIn, IsFree

\* The addresses of a span that ends below the last address.
LEMMA SpanFacts ==
    ASSUME NEW addr \in Addr, NEW size \in Size \ {0}, addr + size < AddrMod
    PROVE  /\ Span(addr, size) \subseteq Addr
           /\ Span(addr, size) # {}
           /\ addr + size - 1 \in Addr
           /\ Span(addr, size) = addr .. addr + size - 1
           /\ \A x \in Addr : x \in Span(addr, size) <=>
                                 addr <= x /\ x < addr + size
<1>1. addr \in Nat /\ size \in Nat \ {0} /\ AddrMod \in Nat
    BY WidthAssumption DEF Addr, Size
<1>2. Span(addr, size) = addr .. addr + size - 1
    BY <1>1 DEF Span, Length
<1>3. addr + size - 1 \in Addr /\ addr \in Span(addr, size)
    BY <1>1, <1>2 DEF Addr
<1>4. \A x \in Int : x \in Span(addr, size) <=> addr <= x /\ x < addr + size
    BY <1>1, <1>2
<1>5. Span(addr, size) \subseteq Addr
    BY <1>1, <1>2 DEF Addr
<1>6. Addr \subseteq Int
    BY DEF Addr
<1>7. \A x \in Addr : x \in Span(addr, size) <=> addr <= x /\ x < addr + size
    BY <1>4, <1>6
<1> QED
    BY <1>2, <1>3, <1>5, <1>7

LEMMA AbstractInit == Init => Abstract!Init
<1> SUFFICES ASSUME Init
             PROVE  FreeAddrs = {} /\ Outcome = Abstract!NoCall
    BY DEF Abstract!Init
<1>1. FreeAddrs = {}
    BY DEF Init, FreeAddrs, FreeIn
<1>2. Outcome = Abstract!NoCall
    BY DEF Init, Outcome, Abstract!NoCall
<1> QED
    BY <1>1, <1>2

LEMMA AbstractNext == IInv /\ [Next]_vars => [Abstract!Next]_(Abstract!vars)
<1> SUFFICES ASSUME IInv, [Next]_vars
             PROVE  [Abstract!Next]_(Abstract!vars)
    OBVIOUS
<1>1. FreeAddrs = {x \in Addr : IsFree(x, list)}
    BY FreeAddrsFacts DEF IInv, FreeAddrs
<1>2. ASSUME UNCHANGED list, NEW op, NEW want, NEW addr, NEW size,
             NEW code \in Retcodes \ {"NO_ERROR"}, op # "init",
             Return(op, want, code, addr, size)
      PROVE  Abstract!Next
    <2>1. Outcome' = [kind |-> "refused", span |-> {}]
        BY <1>2 DEF Outcome, Return
    <2>2. FreeAddrs' = FreeAddrs
        BY <1>2 DEF FreeAddrs
    <2> QED
        BY <2>1, <2>2 DEF Abstract!Next, Abstract!Refuse
<1>3. CASE TakingStep
    <2>1. PICK op \in {"fixed", "constrained", "block"}, want \in Constraint,
               addr \in Addr, size \in Size \ {0} :
               /\ addr + size < AddrMod
               /\ Effect(op, want, addr, size, Took(addr, size))
        BY <1>3 DEF TakingStep
    <2>2. CASE Took(addr, size) /\ Return(op, want, "NO_ERROR", addr, size)
        <3> DEFINE S == Span(addr, size)
        <3>1. Outcome' = [kind |-> "taken", span |-> S]
            BY <2>2 DEF Outcome, Return
        <3>2. FreeAddrs' = {x \in Addr : IsFree(x, list')}
            BY <2>2, FreeAddrsFacts DEF Took, FreeAddrs
        <3>3. \A x \in Addr : /\ x \in S => IsFree(x, list)
                              /\ IsFree(x, list') <=> IsFree(x, list) /\ x \notin S
            BY <2>1, <2>2, SpanFacts, WidthAssumption DEF Took, Addr
        <3>4. S \subseteq Addr /\ S # {} /\ S = addr .. addr + size - 1
              /\ addr + size - 1 \in Addr
            BY <2>1, SpanFacts
        <3> HIDE DEF S
        <3>5. S \subseteq FreeAddrs /\ FreeAddrs' = FreeAddrs \ S
            BY <1>1, <3>2, <3>3, <3>4
        <3>6. Abstract!Take(S)
            BY <3>1, <3>4, <3>5 DEF Abstract!Take
        <3> QED
            BY <3>4, <3>6 DEF Abstract!Next
    <2>3. CASE /\ UNCHANGED list
               /\ \E code \in Retcodes \ {"NO_ERROR"} :
                     Return(op, want, code, addr, size)
        BY <1>2, <2>3
    <2> QED
        BY <2>1, <2>2, <2>3 DEF Effect
<1>4. CASE GivingStep
    <2>1. PICK addr \in Addr, size \in Size \ {0} :
               /\ addr + size < AddrMod
               /\ Effect("free", NoConstraint, addr, size, Gave(addr, size))
        BY <1>4 DEF GivingStep
    <2>2. CASE Gave(addr, size) /\ Return("free", NoConstraint, "NO_ERROR", addr, size)
        <3> DEFINE S == Span(addr, size)
        <3>1. Outcome' = [kind |-> "given", span |-> S]
            BY <2>2 DEF Outcome, Return
        <3>2. FreeAddrs' = {x \in Addr : IsFree(x, list')}
            BY <2>2, FreeAddrsFacts DEF Gave, FreeAddrs
        <3>3. \A x \in Addr : /\ x \in S => ~IsFree(x, list)
                              /\ IsFree(x, list') <=> IsFree(x, list) \/ x \in S
            BY <2>1, <2>2, SpanFacts, WidthAssumption DEF Gave, Addr
        <3>4. S \subseteq Addr /\ S # {} /\ S = addr .. addr + size - 1
              /\ addr + size - 1 \in Addr
            BY <2>1, SpanFacts
        <3> HIDE DEF S
        <3>5. S \cap FreeAddrs = {} /\ FreeAddrs' = FreeAddrs \union S
            BY <1>1, <3>2, <3>3, <3>4
        <3>6. Abstract!Give(S)
            BY <3>1, <3>4, <3>5 DEF Abstract!Give
        <3> QED
            BY <3>4, <3>6 DEF Abstract!Next
    <2>3. CASE /\ UNCHANGED list
               /\ \E code \in Retcodes \ {"NO_ERROR"} :
                     Return("free", NoConstraint, code, addr, size)
        BY <1>2, <2>3
    <2> QED
        BY <2>1, <2>2, <2>3 DEF Effect
<1>5. CASE FullSizeStep
    <2>1. PICK addr \in Addr : Effect("fixed", NoConstraint, addr, 0, FALSE)
        BY <1>5 DEF FullSizeStep
    <2>2. PICK code \in Retcodes \ {"NO_ERROR"} :
             UNCHANGED list /\ Return("fixed", NoConstraint, code, addr, 0)
        BY <2>1 DEF Effect
    <2> QED
        BY <1>2, <2>2
<1>6. CASE UNCHANGED vars
    BY <1>6 DEF vars, Abstract!vars, FreeAddrs, Outcome
<1> QED
    BY <1>3, <1>4, <1>5, <1>6, StepEffect DEF IInv

\* Every call takes from the free space, or gives back to it, exactly the span
\* it reports; a refused call leaves it alone.
THEOREM Refinement == Spec => ImplementsFreeSpace
<1> QED
    BY Invariance, AbstractInit, AbstractNext, PTL
    DEF Spec, ImplementsFreeSpace, Abstract!Spec

-----------------------------------------------------------------------------
(* What the calls answer, from the same invariant: a request is refused     *)
(* only when it cannot be met, and alloc_block and alloc_constrained hand    *)
(* out the lowest address that meets it.                                     *)

\* The span lies inside block b.
SpanWithin(addr, size, b) == b.addr <= addr /\ addr + size <= b.addr + b.size

-----------------------------------------------------------------------------
(* Numbers. *)

\* A non-empty set of naturals has a least element: intervals that start at 0
\* are finite, and the strict subset ordering of finite sets is well founded.
LEMMA Least ==
    ASSUME NEW T, T \subseteq Nat, T # {}
    PROVE  \E m \in T : \A k \in T : m <= k
<1> DEFINE R == StrictSubsetOrdering(Nat)
           F == {0 .. k : k \in T}
<1>1. IsWellFoundedOn(R, FiniteSubsetsOf(Nat))
    BY FS_StrictSubsetOrderingWellFounded
<1>2. F \subseteq FiniteSubsetsOf(Nat) /\ F # {}
    <2>1. ASSUME NEW k \in T
          PROVE  0 .. k \in FiniteSubsetsOf(Nat)
        BY FS_Interval DEF FiniteSubsetsOf
    <2> QED
        BY <2>1
<1>3. PICK X \in F : \A Y \in F : ~(<<Y, X>> \in R)
    <2> HIDE DEF R, F
    <2> QED
        BY <1>1, <1>2, WFMin
<1>4. PICK m \in T : X = 0 .. m
    OBVIOUS
<1>5. ASSUME NEW k \in T, k < m
      PROVE  FALSE
    <2>1. 0 .. k \subseteq 0 .. m /\ 0 .. k \subseteq Nat /\ 0 .. m \subseteq Nat
        BY <1>5
    <2>2. m \in 0 .. m /\ ~(m \in 0 .. k)
        BY <1>5
    <2>3. <<0 .. k, 0 .. m>> \in R
        BY <2>1, <2>2 DEF StrictSubsetOrdering
    <2> QED
        BY <1>3, <1>4, <2>3
<1> QED
    BY <1>5

\* Rounding up: w + m - (w % m) is a multiple of m, and no multiple of m lies
\* between it and w.
LEMMA RoundUp ==
    ASSUME NEW m \in Nat \ {0}, NEW w \in Nat, w % m # 0
    PROVE  /\ w % m \in 1 .. m - 1
           /\ (w + (m - (w % m))) % m = 0
           /\ \A a \in Nat : a % m = 0 /\ w <= a => w + (m - (w % m)) <= a
<1> DEFINE q == w \div m
           r == w % m
<1>1. w = m * q + r /\ q \in Nat /\ r \in 1 .. m - 1
    OBVIOUS
<1>2. w + (m - r) = m * (q + 1)
    <2> HIDE DEF q, r
    <2> QED
        BY <1>1
<1>3. (m * (q + 1)) % m = 0
    <2> HIDE DEF q
    <2> QED
        BY <1>1
<1>4. ASSUME NEW a \in Nat, a % m = 0, w <= a
      PROVE  w + (m - r) <= a
    <2> DEFINE k == a \div m
    <2>1. a = m * k /\ k \in Nat
        BY <1>4
    <2> HIDE DEF k, q, r
    <2>2. k > q
        <3> SUFFICES ASSUME k <= q
                     PROVE  FALSE
            BY <1>1, <2>1
        <3>1. m * k <= m * q
            BY <1>1, <2>1
        <3> QED
            BY <1>1, <1>4, <2>1, <3>1
    <2>3. m * (q + 1) <= m * k
        BY <1>1, <2>1, <2>2
    <2> QED
        BY <1>2, <2>1, <2>3
<1> QED
    BY <1>1, <1>2, <1>3, <1>4

-----------------------------------------------------------------------------
(* Spans of free addresses. *)

\* Neighbours of a good list do not touch, so that a span of free addresses
\* lies in one block.
LEMMA SpanInBlock ==
    ASSUME Good(list), NEW addr \in Nat, NEW size \in Nat \ {0},
           \A x \in Int : addr <= x /\ x < addr + size => IsFree(x, list)
    PROVE  \E n \in 1 .. Len(list) : SpanWithin(addr, size, list[n])
<1>1. PICK n \in 1 .. Len(list) : In(addr, list[n])
    BY DEF IsFree
<1> DEFINE e == list[n].addr + list[n].size
<1>2. e \in Nat /\ list[n].addr \in Nat /\ list[n].addr <= addr /\ addr < e
    BY <1>1, ListFacts DEF In
<1>3. addr + size <= e
    <2> SUFFICES ASSUME e < addr + size
                 PROVE  FALSE
        BY <1>2
    <2>1. PICK m \in 1 .. Len(list) : In(e, list[m])
        BY <1>2 DEF IsFree
    <2>2. m # n
        BY <1>2, <2>1 DEF In
    <2>3. n < m \/ m < n
        BY <2>2, ListFacts
    <2>4. ~(n < m)
        BY <1>2, <2>1, ListFacts DEF In, Apart
    <2>5. ~(m < n)
        BY <1>2, <2>1, ListFacts DEF In, Apart
    <2> QED
        BY <2>3, <2>4, <2>5
<1> QED
    BY <1>2, <1>3 DEF SpanWithin

\* The same for a span of FreeAddrs.
LEMMA SuitableInBlock ==
    ASSUME Good(list), NEW a \in Addr, NEW size \in Size \ {0}, NEW c,
           Suitable(a, size, c, FreeAddrs)
    PROVE  \E n \in 1 .. Len(list) : SpanWithin(a, size, list[n])
<1>1. a \in Nat /\ size \in Nat \ {0}
    BY WidthAssumption DEF Addr, Size
<1>2. Span(a, size) \subseteq FreeAddrs /\ Span(a, size) = a .. a + size - 1
    BY <1>1 DEF Suitable, Span, Length
<1>3. \A x \in FreeAddrs : IsFree(x, list)
    BY FreeAddrsFacts DEF FreeAddrs
<1>4. \A x \in Int : a <= x /\ x < a + size => IsFree(x, list)
    BY <1>1, <1>2, <1>3
<1> QED
    BY <1>1, <1>4, SpanInBlock

\* Blocks are in the order of their addresses.
LEMMA BlockOrder ==
    ASSUME Good(list), NEW i \in 1 .. Len(list), NEW j \in 1 .. Len(list)
    PROVE  /\ list[i].addr < list[j].addr => i < j
           /\ i < j => list[i].addr + list[i].size < list[j].addr
<1>1. /\ i \in Int /\ j \in Int
      /\ list[i].addr \in Nat /\ list[j].addr \in Nat
      /\ list[i].size \in Nat /\ list[j].size \in Nat
    BY ListFacts
<1>2. /\ i < j => list[i].addr + list[i].size < list[j].addr
      /\ j < i => list[j].addr + list[j].size < list[i].addr
    BY ListFacts DEF Apart
<1>3. i = j \/ i < j \/ j < i
    BY <1>1
<1> QED
    BY <1>1, <1>2, <1>3

-----------------------------------------------------------------------------
(* alloc_fixed and free_block refuse with a reason. *)

\* A span inside a free block is never answered with E_OUT_OF_STORAGE.
LEMMA AllocAtHonest ==
    ASSUME Good(list), NEW op, NEW want, NEW addr \in Addr, NEW size \in Size,
           size # 0, addr + size < AddrMod,
           NEW k \in 1 .. Len(list), SpanWithin(addr, size, list[k]),
           AllocAt(op, want, addr, size)
    PROVE  res'.ret # "E_OUT_OF_STORAGE"
<1>1. /\ addr \in Nat /\ size \in Nat \ {0} /\ Len(list) \in Nat
      /\ AddrMod \in Nat /\ Wrap(addr + size, AddrMod) = addr + size
    <2>1. /\ addr \in Nat /\ size \in Nat \ {0} /\ Len(list) \in Nat
          /\ AddrMod \in Nat /\ addr + size \in Int /\ 0 <= addr + size
        BY WidthAssumption, ListFacts DEF Addr, Size
    <2> QED
        BY <2>1, WrapId
<1>2. /\ list[k].addr \in Nat /\ list[k].size \in Nat
      /\ list[k].addr <= addr /\ addr + size <= list[k].addr + list[k].size
    BY ListFacts DEF SpanWithin
<1>3. PICK n \in 1 .. Len(list) + 1 :
         /\ StopsAt(n, addr)
         /\ \/ /\ n <= Len(list) /\ list[n].addr = addr
               /\ AllocAtStart(n, op, want, addr, size)
            \/ /\ ~(n <= Len(list) /\ list[n].addr = addr)
               /\ n = 1
               /\ Refused(op, want, "E_OUT_OF_STORAGE", addr, size)
            \/ /\ ~(n <= Len(list) /\ list[n].addr = addr)
               /\ n > 1
               /\ AllocInside(n - 1, op, want, addr, size)
    BY DEF AllocAt
<1>4. CASE /\ n <= Len(list) /\ list[n].addr = addr
           /\ AllocAtStart(n, op, want, addr, size)
    <2>1. n \in 1 .. Len(list)
        BY <1>1, <1>4
    <2>2. list[n].size \in Nat \ {0} /\ k \in Int /\ n \in Int
        BY <2>1, ListFacts
    <2>3. k = n
        <3>1. /\ k < n => list[k].addr + list[k].size < list[n].addr
              /\ n < k => list[n].addr + list[n].size < list[k].addr
            BY <2>1, BlockOrder
        <3>2. ~(k < n) /\ ~(n < k)
            BY <1>1, <1>2, <1>4, <2>2, <3>1
        <3> QED
            BY <2>2, <3>2
    <2>4. ~(list[n].size < size)
        BY <1>1, <1>2, <1>4, <2>2, <2>3
    <2> QED
        BY <1>4, <2>4 DEF AllocAtStart, Return, Refused
<1>5. ASSUME ~(n <= Len(list) /\ list[n].addr = addr)
      PROVE  k < n
    <2>1. CASE n = Len(list) + 1
        BY <1>1, <2>1
    <2>2. CASE n \in 1 .. Len(list)
        <3>1. addr < list[n].addr /\ list[n].addr \in Nat
            BY <1>1, <1>3, <1>5, <2>2, ListFacts DEF StopsAt
        <3> QED
            BY <1>1, <1>2, <2>2, <3>1, BlockOrder
    <2> QED
        BY <1>1, <2>1, <2>2
<1>6. CASE ~(n <= Len(list) /\ list[n].addr = addr) /\ n = 1
    BY <1>1, <1>5, <1>6
<1>7. CASE /\ ~(n <= Len(list) /\ list[n].addr = addr)
           /\ n > 1
           /\ AllocInside(n - 1, op, want, addr, size)
    <2> DEFINE p == list[n - 1]
    <2>1. n - 1 \in 1 .. Len(list) /\ n - 1 \in 1 .. n - 1 /\ k <= n - 1
        BY <1>1, <1>5, <1>7
    <2>2. p.addr < addr /\ p.addr \in Nat
        BY <1>3, <2>1, ListFacts DEF StopsAt
    <2>3. k = n - 1
        <3>1. k < n - 1 => list[k].addr + list[k].size < p.addr
            BY <2>1, BlockOrder
        <3> HIDE DEF p
        <3> QED
            BY <1>1, <1>2, <2>1, <2>2, <3>1
    <2>4. ~(End(p) < addr + size)
        BY <1>1, <1>2, <2>1, <2>3, EndFacts
    <2> QED
        BY <1>1, <1>7, <2>4 DEF AllocInside, Return, Refused
<1> QED
    BY <1>3, <1>4, <1>6, <1>7

LEMMA FixedHonest ==
    ASSUME Good(list), NEW addr \in Addr, NEW size \in Size,
           addr + size < AddrMod, size = 0 => addr # 0,
           alloc_fixed(addr, size)
    PROVE  HonestRefusal' /\ LowestFit'
<1>1. res'.op = "fixed" /\ res'.addr = addr /\ res'.size = size
    <2>1. CASE size = 0
        BY <2>1, FullSizeEffect DEF alloc_fixed, Effect, Return
    <2>2. CASE size # 0
        BY <2>2, AllocAtEffect DEF alloc_fixed, Effect, Return
    <2> QED
        BY <2>1, <2>2
<1>2. ASSUME res'.ret = "E_OUT_OF_STORAGE", Span(addr, size) \subseteq FreeAddrs'
      PROVE  FALSE
    <2>1. size # 0
        <3> SUFFICES ASSUME size = 0
                     PROVE  FALSE
            OBVIOUS
        <3>1. Low(addr) # 0
            BY WidthAssumption, BelowTop, ModFacts DEF Addr, Low
        <3> QED
            BY <1>2, <3>1 DEF alloc_fixed, AllocAt, Refused, Return
    <2>2. UNCHANGED list
        BY <1>2, <2>1, AllocAtEffect DEF alloc_fixed, Effect, Return
    <2>3. /\ size \in Size \ {0} /\ addr \in Nat /\ size \in Nat \ {0}
          /\ Span(addr, size) = addr .. addr + size - 1
        BY <2>1, WidthAssumption DEF Size, Addr, Span, Length
    <2>4. \A x \in FreeAddrs : IsFree(x, list)
        BY FreeAddrsFacts DEF FreeAddrs
    <2>5. FreeAddrs' = FreeAddrs
        BY <2>2 DEF FreeAddrs
    <2>6. \A x \in Int : addr <= x /\ x < addr + size => IsFree(x, list)
        BY <1>2, <2>3, <2>4, <2>5
    <2>7. PICK k \in 1 .. Len(list) : SpanWithin(addr, size, list[k])
        BY <2>3, <2>6, SpanInBlock
    <2> QED
        BY <1>2, <2>1, <2>7, AllocAtHonest DEF alloc_fixed
<1> QED
    BY <1>1, <1>2 DEF HonestRefusal, LowestFit

LEMMA FreeHonest ==
    ASSUME Good(list), NEW addr \in Addr, NEW size \in Size, size # 0,
           addr + size < AddrMod, free_block(addr, size)
    PROVE  HonestRefusal' /\ LowestFit'
<1>1. res'.op = "free" /\ res'.addr = addr /\ res'.size = size
    BY FreeEffect DEF Effect, Return
<1>2. ASSUME res'.ret = "E_BAD_ARGUMENT"
      PROVE  Span(addr, size) \cap FreeAddrs' # {}
    <2> DEFINE end == addr + size
    <2>1. /\ addr \in Nat /\ size \in Nat \ {0} /\ Len(list) \in Nat
          /\ AddrMod \in Nat /\ Wrap(addr + size, AddrMod) = end
          /\ Span(addr, size) = addr .. end - 1
        <3>1. /\ addr \in Nat /\ size \in Nat \ {0} /\ Len(list) \in Nat
              /\ AddrMod \in Nat /\ end \in Int /\ 0 <= end
            BY WidthAssumption, ListFacts DEF Addr, Size
        <3> QED
            BY <3>1, WrapId DEF Span, Length
    <2>2. UNCHANGED list
        BY <1>2, FreeEffect DEF Effect, Return
    <2>3. PICK n \in 1 .. Len(list) + 1 :
            /\ StopsAt(n, addr)
            /\ \/ n > 1 /\ End(list[n - 1]) > addr
               \/ n <= Len(list) /\ end > list[n].addr
        BY <1>2, <2>1 DEF free_block, Return, Refused
    <2>4. FreeAddrs' = {x \in Addr : IsFree(x, list)}
        BY <2>2, FreeAddrsFacts DEF FreeAddrs
    <2>5. CASE n > 1 /\ End(list[n - 1]) > addr
        <3>1. n - 1 \in 1 .. Len(list) /\ n - 1 \in 1 .. n - 1
            BY <2>1, <2>5
        <3>2. list[n - 1].addr < addr
            BY <2>3, <3>1 DEF StopsAt
        <3>3. In(addr, list[n - 1])
            BY <2>1, <2>5, <3>1, <3>2, EndFacts, ListFacts DEF In
        <3>4. addr \in FreeAddrs' /\ addr \in Span(addr, size)
            BY <2>1, <2>4, <3>1, <3>3 DEF IsFree
        <3> QED
            BY <3>4
    <2>6. CASE n <= Len(list) /\ end > list[n].addr
        <3> DEFINE x == list[n].addr
        <3>1. /\ n \in 1 .. Len(list) /\ x \in Nat /\ addr <= x /\ x < end
              /\ list[n].size \in Nat \ {0} /\ x \in Addr
            BY <2>1, <2>3, <2>6, ListFacts DEF StopsAt, Block
        <3>2. In(x, list[n])
            BY <3>1 DEF In
        <3>3. x \in FreeAddrs' /\ x \in Span(addr, size)
            BY <2>1, <2>4, <3>1, <3>2 DEF IsFree
        <3> QED
            BY <3>3
    <2> QED
        BY <2>3, <2>5, <2>6
<1> QED
    BY <1>1, <1>2 DEF HonestRefusal, LowestFit

-----------------------------------------------------------------------------
(* alloc_block. *)

\* A call that takes a span leaves, with the span put back, what was free.
LEMMA TookBack ==
    ASSUME Good(list), NEW addr \in Addr, NEW size \in Size \ {0},
           addr + size < AddrMod, Took(addr, size)
    PROVE  /\ FreeAddrs' \union Span(addr, size) = FreeAddrs
           /\ Span(addr, size) \subseteq FreeAddrs
<1> DEFINE S == Span(addr, size)
<1>1. /\ FreeAddrs = {x \in Addr : IsFree(x, list)}
      /\ FreeAddrs' = {x \in Addr : IsFree(x, list')}
    BY FreeAddrsFacts DEF Took, FreeAddrs
<1>2. \A x \in Addr : /\ x \in S => IsFree(x, list)
                      /\ IsFree(x, list') <=> IsFree(x, list) /\ x \notin S
    BY SpanFacts, WidthAssumption DEF Took, Addr
<1>3. S \subseteq Addr
    BY SpanFacts
<1> HIDE DEF S
<1>4. FreeAddrs' \union S = FreeAddrs /\ S \subseteq FreeAddrs
    BY <1>1, <1>2, <1>3
<1> QED
    BY <1>4 DEF S

LEMMA BlockHonest ==
    ASSUME Good(list), NEW size \in Size, size # 0, alloc_block(size)
    PROVE  HonestRefusal' /\ LowestFit'
<1>1. size \in Nat \ {0} /\ AddrMod \in Nat /\ Len(list) \in Nat
    BY WidthAssumption, ListFacts DEF Size
\* A span that would do lies in a block that holds the size.
<1>2. ASSUME NEW a \in Addr, Suitable(a, size, NoConstraint, FreeAddrs)
      PROVE  \E k \in 1 .. Len(list) : Holds(list[k], size) /\ list[k].addr <= a
    <2>1. PICK k \in 1 .. Len(list) : SpanWithin(a, size, list[k])
        BY <1>2, SuitableInBlock
    <2>2. /\ list[k].addr \in Nat /\ list[k].size \in Nat /\ a \in Nat
          /\ list[k].addr <= a /\ a + size <= list[k].addr + list[k].size
        BY <2>1, ListFacts, WidthAssumption DEF SpanWithin, Addr
    <2> QED
        BY <1>1, <2>2 DEF Holds
<1>3. CASE /\ \A n \in 1 .. Len(list) : ~Holds(list[n], size)
           /\ Refused("block", NoConstraint, "E_OUT_OF_STORAGE", 0, size)
    <2>1. /\ FreeAddrs' = FreeAddrs /\ res'.op = "block" /\ res'.size = size
          /\ res'.want = NoConstraint /\ res'.ret = "E_OUT_OF_STORAGE"
        BY <1>3 DEF Refused, Return, FreeAddrs
    <2>2. \A a \in Addr : ~Suitable(a, size, NoConstraint, FreeAddrs)
        BY <1>2, <1>3
    <2> QED
        BY <2>1, <2>2 DEF HonestRefusal, LowestFit
<1>4. ASSUME NEW n \in 1 .. Len(list), Holds(list[n], size),
             \A i \in 1 .. n - 1 : ~Holds(list[i], size),
             AllocAt("block", NoConstraint, list[n].addr, size)
      PROVE  HonestRefusal' /\ LowestFit'
    <2> DEFINE addr == list[n].addr
    <2>1. /\ addr \in Nat /\ list[n].size \in Nat \ {0} /\ addr \in Addr
          /\ addr + list[n].size < AddrMod
        BY ListFacts DEF Block
    <2>2. size <= list[n].size
        BY <1>1, <1>4, <2>1 DEF Holds
    <2>3. addr + size < AddrMod /\ SpanWithin(addr, size, list[n])
        BY <1>1, <2>1, <2>2 DEF SpanWithin
    <2> HIDE DEF addr
    <2>4. AllocAt("block", NoConstraint, addr, size)
        BY <1>4 DEF addr
    <2>5. /\ res'.op = "block" /\ res'.addr = addr /\ res'.size = size
          /\ res'.want = NoConstraint
        BY <2>1, <2>3, <2>4, AllocAtEffect DEF Effect, Return
    <2>6. res'.ret # "E_OUT_OF_STORAGE"
        BY <2>1, <2>3, <2>4, AllocAtHonest
    <2>7. ASSUME res'.ret = "NO_ERROR"
          PROVE  LET before == FreeAddrs' \union Span(addr, size) IN
                 /\ Suitable(addr, size, NoConstraint, before)
                 /\ \A a \in 0 .. addr - 1 :
                       ~Suitable(a, size, NoConstraint, before)
        <3>1. Took(addr, size)
            BY <2>1, <2>3, <2>4, <2>7, AllocAtEffect DEF Effect, Return, Retcodes
        <3>2. /\ FreeAddrs' \union Span(addr, size) = FreeAddrs
              /\ Span(addr, size) \subseteq FreeAddrs
            BY <1>1, <2>1, <2>3, <3>1, TookBack
        <3>3. Suitable(addr, size, NoConstraint, FreeAddrs)
            BY <1>1, <2>1, <2>3, <3>2
               DEF Suitable, NoConstraint, AlignOnly, Length
        <3>4. ASSUME NEW a \in 0 .. addr - 1,
                     Suitable(a, size, NoConstraint, FreeAddrs)
              PROVE  FALSE
            <4>1. a \in Addr /\ a \in Nat /\ a < addr
                BY <2>1, WidthAssumption DEF Addr
            <4>2. PICK k \in 1 .. Len(list) :
                          Holds(list[k], size) /\ list[k].addr <= a
                BY <1>2, <3>4, <4>1
            <4>3. list[k].addr < list[n].addr
                BY <2>1, <4>1, <4>2, ListFacts DEF addr
            <4>4. k < n
                BY <4>3, BlockOrder
            <4>5. k \in 1 .. n - 1
                BY <1>1, <4>4
            <4> QED
                BY <1>4, <4>2, <4>5
        <3> QED
            BY <3>2, <3>3, <3>4
    <2> QED
        BY <2>5, <2>6, <2>7 DEF HonestRefusal, LowestFit
<1> QED
    BY <1>3, <1>4 DEF alloc_block

-----------------------------------------------------------------------------
(* alloc_constrained. *)

\* What moving a window up does, as long as the window is not left.
LEMMA MoveUpAddr ==
    ASSUME NEW b \in Block, Plain(b), NEW w, UpperPart(w, b),
           NEW off \in Nat, off < AddrMod
    PROVE  /\ Outgrows(w, off) <=> off >= w.size
           /\ ~Outgrows(w, off) => /\ MoveUp(w, off).addr = w.addr + off
                                   /\ UpperPart(MoveUp(w, off), b)
<1>1. /\ AddrMod \in Nat /\ SizeMod = AddrMod /\ Low(off) = off
      /\ w.addr \in Nat /\ w.size \in Nat \ {0} /\ ~w.full
      /\ b.addr \in Nat /\ b.size \in Nat /\ b.addr + b.size < AddrMod
      /\ w.addr + w.size = b.addr + b.size
    BY WidthAssumption, BelowTop, LowId, BlockFacts DEF UpperPart, Plain
<1>2. Outgrows(w, off) <=> off >= w.size
    BY <1>1 DEF Outgrows
<1>3. ASSUME ~Outgrows(w, off)
      PROVE  MoveUp(w, off).addr = w.addr + off /\ UpperPart(MoveUp(w, off), b)
    <2>1. w.addr + off \in Int /\ 0 <= w.addr + off /\ w.addr + off < AddrMod
        BY <1>1, <1>2, <1>3
    <2>2. Wrap(w.addr + off, AddrMod) = w.addr + off
        BY <1>1, <2>1, WrapId
    <2>3. MoveUp(w, off).addr = w.addr + off
        <3>1. CASE off = 0
            BY <1>1, <3>1 DEF MoveUp
        <3>2. CASE off # 0
            BY <1>1, <2>2, <3>2 DEF MoveUp
        <3> QED
            BY <3>1, <3>2
    <2> QED
        BY <1>3, <2>3, MoveUpFacts
<1> QED
    BY <1>2, <1>3

\* The window after the minimum: it starts at the lowest address of the block
\* that is not below the minimum, or there is no such address.
LEMMA AboveMinFacts ==
    ASSUME NEW b \in Block, Plain(b), NEW c \in Constraint
    PROVE  /\ Outgrows(Window(b), MinOff(Window(b), c)) =>
                 b.addr + b.size <= c.min
           /\ ~Outgrows(Window(b), MinOff(Window(b), c)) =>
                 /\ UpperPart(AboveMin(b, c), b)
                 /\ AboveMin(b, c).addr = IF b.addr < c.min THEN c.min ELSE b.addr
<1> DEFINE u == Window(b)
           off == MinOff(u, c)
<1>1. /\ b.addr \in Nat /\ b.size \in Nat \ {0} /\ b.addr + b.size < AddrMod
      /\ AddrMod \in Nat /\ c.min \in Nat /\ c.min < AddrMod
    BY BlockFacts, WidthAssumption DEF Plain, Constraint, Addr
<1>2. UpperPart(u, b) /\ u.addr = b.addr /\ u.size = b.size
    <2>1. u.addr = b.addr /\ u.size = b.size
        BY DEF Window
    <2>2. u.full = (b.size = 0)
        BY Zenon DEF Window
    <2>3. ~u.full
        BY <1>1, <2>2
    <2> HIDE DEF u
    <2> QED
        BY <1>1, <2>1, <2>3 DEF UpperPart
<1> HIDE DEF u
<1>3. /\ off \in Nat /\ off < AddrMod
      /\ off = IF b.addr < c.min THEN c.min - b.addr ELSE 0
    BY <1>1, <1>2 DEF MinOff
<1> HIDE DEF off
<1>4. /\ Outgrows(u, off) <=> off >= b.size
      /\ ~Outgrows(u, off) => /\ AboveMin(b, c).addr = b.addr + off
                              /\ UpperPart(AboveMin(b, c), b)
    BY <1>2, <1>3, MoveUpAddr DEF AboveMin, u, off
<1>5. Outgrows(u, off) => b.addr + b.size <= c.min
    BY <1>1, <1>3, <1>4
<1>6. ~Outgrows(u, off) =>
         AboveMin(b, c).addr = IF b.addr < c.min THEN c.min ELSE b.addr
    BY <1>1, <1>3, <1>4
<1> QED
    BY <1>4, <1>5, <1>6 DEF u, off

\* The window after the alignment: it starts at the lowest aligned address that
\* is not below the window before, or the block has no such address.
LEMMA AlignedFacts ==
    ASSUME NEW b \in Block, Plain(b), NEW c \in Constraint,
           UpperPart(AboveMin(b, c), b)
    PROVE  LET v == AboveMin(b, c)
               off == AlignOff(v, c)
           IN  /\ off \in Nat
               /\ (v.addr + off) % c.align = 0
               /\ \A a \in Nat : a % c.align = 0 /\ v.addr <= a =>
                                    v.addr + off <= a
               /\ Outgrows(v, off) => b.addr + b.size <= v.addr + off
               /\ ~Outgrows(v, off) => /\ UpperPart(Aligned(b, c), b)
                                       /\ Aligned(b, c).addr = v.addr + off
<1> DEFINE v == AboveMin(b, c)
           off == AlignOff(v, c)
<1>1. /\ v.addr \in Nat /\ v.size \in Nat \ {0} /\ UpperPart(v, b)
      /\ v.addr + v.size = b.addr + b.size
      /\ AddrMod \in Nat /\ c.align \in Nat \ {0} /\ c.align <= AddrMod
    BY WidthAssumption DEF UpperPart, Constraint
<1>2. Aligned(b, c) = MoveUp(v, off)
    BY DEF Aligned
<1> HIDE DEF v
<1>3. /\ off \in Nat /\ off < AddrMod
      /\ (v.addr + off) % c.align = 0
      /\ \A a \in Nat : a % c.align = 0 /\ v.addr <= a => v.addr + off <= a
    <2>1. CASE v.addr % c.align = 0
        <3>1. off = 0 /\ off \in Nat /\ off < AddrMod
            BY <2>1, WidthAssumption DEF AlignOff
        <3> HIDE DEF off
        <3>2. v.addr + off = v.addr
            BY <1>1, <3>1
        <3>3. (v.addr + off) % c.align = 0
            BY <2>1, <3>2, Zenon
        <3>4. \A a \in Nat : a % c.align = 0 /\ v.addr <= a => v.addr + off <= a
            BY <3>2, Zenon
        <3> QED
            BY <3>1, <3>3, <3>4, Zenon
    <2>2. CASE v.addr % c.align # 0
        <3>1. off = c.align - (v.addr % c.align)
            BY <2>2 DEF AlignOff
        <3>2. /\ v.addr % c.align \in 1 .. c.align - 1
              /\ (v.addr + (c.align - (v.addr % c.align))) % c.align = 0
              /\ \A a \in Nat : a % c.align = 0 /\ v.addr <= a =>
                    v.addr + (c.align - (v.addr % c.align)) <= a
            BY <1>1, <2>2, RoundUp
        <3> HIDE DEF off
        <3>3. off \in Nat /\ off < AddrMod
            <4> DEFINE r == v.addr % c.align
            <4> HIDE DEF r
            <4> QED
                BY <1>1, <3>1, <3>2 DEF r
        <3> QED
            BY <3>1, <3>2, <3>3
    <2> QED
        BY <2>1, <2>2
<1> HIDE DEF off
<1>4. /\ Outgrows(v, off) <=> off >= v.size
      /\ ~Outgrows(v, off) => /\ MoveUp(v, off).addr = v.addr + off
                              /\ UpperPart(MoveUp(v, off), b)
    BY <1>1, <1>3, MoveUpAddr
<1>5. Outgrows(v, off) => b.addr + b.size <= v.addr + off
    BY <1>1, <1>3, <1>4
<1> QED
    BY <1>2, <1>3, <1>4, <1>5 DEF v, off

\* When the block has room, the window meets the minimum and the alignment.
LEMMA RoomFacts ==
    ASSUME NEW b \in Block, Plain(b), NEW c \in Constraint, ~NoRoom(b, c)
    PROVE  /\ UpperPart(Aligned(b, c), b)
           /\ Aligned(b, c).addr % c.align = 0
           /\ c.min <= Aligned(b, c).addr
<1> DEFINE v == AboveMin(b, c)
           off == AlignOff(v, c)
<1>1. c.min \in Nat /\ b.addr \in Nat
    BY BlockFacts, WidthAssumption DEF Constraint, Addr
<1>2. UpperPart(v, b) /\ c.min <= v.addr /\ v.addr \in Nat
    BY <1>1, AboveMinFacts DEF NoRoom, UpperPart
<1>3. /\ UpperPart(Aligned(b, c), b) /\ Aligned(b, c).addr = v.addr + off
      /\ off \in Nat /\ (v.addr + off) % c.align = 0
    BY <1>2, AlignedFacts DEF NoRoom
<1> HIDE DEF v, off
<1> QED
    BY <1>1, <1>2, <1>3

\* When some address of the block meets the minimum and the alignment, the
\* block has room, and the window starts at or below that address.
LEMMA LeastFit ==
    ASSUME NEW b \in Block, Plain(b), NEW c \in Constraint,
           NEW a \in Nat, b.addr <= a, a < b.addr + b.size,
           c.min <= a, a % c.align = 0
    PROVE  ~NoRoom(b, c) /\ Aligned(b, c).addr <= a
<1> DEFINE v == AboveMin(b, c)
           off == AlignOff(v, c)
<1>1. c.min \in Nat /\ b.addr \in Nat /\ b.size \in Nat
    BY BlockFacts, WidthAssumption DEF Constraint, Addr
<1>2. ~Outgrows(Window(b), MinOff(Window(b), c))
    BY <1>1, AboveMinFacts
<1>3. UpperPart(v, b) /\ v.addr <= a /\ v.addr \in Nat
    BY <1>1, <1>2, AboveMinFacts DEF UpperPart
<1>4. /\ off \in Nat /\ v.addr + off <= a
      /\ Outgrows(v, off) => b.addr + b.size <= v.addr + off
      /\ ~Outgrows(v, off) => Aligned(b, c).addr = v.addr + off
    BY <1>3, AlignedFacts
<1>5. ~Outgrows(v, off)
    <2> HIDE DEF v, off
    <2> QED
        BY <1>1, <1>3, <1>4
<1> QED
    BY <1>2, <1>4, <1>5 DEF NoRoom

\* Arithmetic of a span that moves down inside a block.
LEMMA SpanMovesDown ==
    ASSUME NEW x \in Nat, NEW y \in Nat, NEW size \in Nat, NEW e \in Nat,
           NEW m \in Nat, x <= y, y + size <= e, e < m
    PROVE  x + size \in Int /\ 0 <= x + size /\ x + size < m
OBVIOUS

LEMMA ConstraintFacts ==
    ASSUME NEW c \in Constraint
    PROVE  /\ c.min \in Nat /\ c.max \in Nat
           /\ c.mask \subseteq Nat \ {0}
<1>1. c.max \in 0 .. AddrMod /\ c.min \in 0 .. AddrMod - 1
    BY DEF Constraint, Addr
<1>2. c.mask \subseteq 1 .. AddrMod
    BY DEF Constraint
<1> QED
    BY <1>1, <1>2, WidthAssumption

\* A block with a suitable span ends the walk at or before that span.
LEMMA SuitableFits ==
    ASSUME Good(list), NEW k \in 1 .. Len(list), NEW c \in Constraint,
           NEW size \in Size \ {0}, NEW a \in Addr, SpanWithin(a, size, list[k]),
           Suitable(a, size, c, FreeAddrs), c.mask = {}
    PROVE  /\ Aligned(list[k], c).addr <= a
           /\ Fits(list[k], c, size)
<1> DEFINE b == list[k]
           w == Aligned(b, c)
<1>1. /\ b \in Block /\ Plain(b) /\ b.addr \in Nat /\ b.size \in Nat \ {0}
      /\ b.addr + b.size < AddrMod /\ AddrMod \in Nat
      /\ a \in Nat /\ size \in Nat \ {0} /\ c.max \in Nat
    BY ListFacts, ConstraintFacts, WidthAssumption DEF Plain, Addr, Size
<1>2. b.addr <= a /\ a + size <= b.addr + b.size
    BY DEF SpanWithin
<1>3. a % c.align = 0 /\ c.min <= a /\ a + size <= c.max
    BY <1>1 DEF Suitable, Length
<1> HIDE DEF b, w
<1>4. a < b.addr + b.size
    BY <1>1, <1>2
<1>5. ~NoRoom(b, c) /\ w.addr <= a
    BY <1>1, <1>2, <1>3, <1>4, LeastFit DEF w
<1>6. UpperPart(w, b)
    BY <1>1, <1>5, RoomFacts DEF w
<1>7. /\ w.addr \in Nat /\ w.size \in Nat /\ w.addr <= a
      /\ w.addr + w.size = b.addr + b.size
    BY <1>5, <1>6 DEF UpperPart
<1>8. Wrap(w.addr + size, AddrMod) = w.addr + size
    <2>1. w.addr + size \in Int /\ 0 <= w.addr + size /\ w.addr + size < AddrMod
        <3>1. b.addr + b.size \in Nat
            BY <1>1
        <3> QED
            BY <1>1, <1>2, <1>7, <3>1, SpanMovesDown, Zenon
    <2> QED
        BY <1>1, <2>1, WrapId
<1>9. ~AboveMax(b, c, size)
    <2>1. ~(w.addr + size > c.max)
        BY <1>1, <1>3, <1>7
    <2> QED
        BY <1>8, <2>1 DEF AboveMax, w
<1>10. ~TooSmall(w, size)
    BY <1>1, <1>2, <1>7 DEF TooSmall
<1>11. ~Masked(w, c)
    BY DEF Masked
<1> QED
    BY <1>5, <1>9, <1>10, <1>11 DEF Fits, b, w

\* What alloc_constrained settles on meets the constraints.
LEMMA FitIsSuitable ==
    ASSUME Good(list), NEW n \in 1 .. Len(list), NEW c \in Constraint,
           NEW size \in Size \ {0}, Fits(list[n], c, size),
           NEW S, Span(Aligned(list[n], c).addr, size) \subseteq S
    PROVE  Suitable(Aligned(list[n], c).addr, size, c, S)
<1> DEFINE b == list[n]
           w == Aligned(b, c)
<1>1. /\ b \in Block /\ Plain(b) /\ size \in Nat \ {0} /\ AddrMod \in Nat
      /\ w.addr \in Nat /\ w.addr + size < AddrMod
    BY ListFacts, FitFacts, WidthAssumption DEF Plain, Size, Addr
<1>2. w.addr % c.align = 0 /\ c.min <= w.addr
    BY <1>1, RoomFacts DEF Fits
<1>3. w.addr + size <= c.max
    <2>1. Wrap(w.addr + size, AddrMod) = w.addr + size
        <3>1. w.addr + size \in Int /\ 0 <= w.addr + size
            BY <1>1
        <3> QED
            BY <1>1, <3>1, WrapId
    <2>2. ~(w.addr + size > c.max)
        BY <2>1 DEF Fits, AboveMax
    <2>3. c.max \in Nat
        BY <1>1 DEF Constraint
    <2> HIDE DEF w
    <2> QED
        BY <1>1, <2>2, <2>3
<1>4. \A bit \in c.mask : (w.addr \div bit) % 2 = 0
    <2> TAKE bit \in c.mask
    <2>1. bit \in Nat \ {0}
        BY ConstraintFacts
    <2>2. (w.addr \div bit) % 2 # 1
        BY DEF Fits, Masked
    <2> HIDE DEF w
    <2>3. w.addr \div bit \in Nat
        <3> DEFINE x == w.addr
        <3>1. x \in Nat
            BY <1>1
        <3> HIDE DEF x
        <3>2. x \div bit \in Nat
            BY <2>1, <3>1
        <3> QED
            BY <3>2 DEF x
    <2> DEFINE d == w.addr \div bit
    <2> HIDE DEF d
    <2>4. d \in Nat /\ d % 2 # 1
        BY <2>2, <2>3 DEF d
    <2>5. d % 2 = 0
        BY <2>4
    <2> QED
        BY <2>5 DEF d
<1>5. Length(size) = size
    BY <1>1 DEF Length
<1> QED
    BY <1>2, <1>3, <1>4, <1>5 DEF Suitable

LEMMA ConstrainedHonest ==
    ASSUME Good(list), NEW c \in Constraint, NEW size \in Size, size # 0,
           alloc_constrained(c, size)
    PROVE  HonestRefusal' /\ LowestFit'
<1> DEFINE ends(i) == Fits(list[i], c, size) \/ AboveMax(list[i], c, size)
<1>1. size \in Nat \ {0} /\ AddrMod \in Nat /\ Len(list) \in Nat
    BY WidthAssumption, ListFacts DEF Size
\* The walk does not pass block k by because of a block below it.
<1>2. ASSUME NEW k \in 1 .. Len(list), NEW a \in Addr, SpanWithin(a, size, list[k]),
             Suitable(a, size, c, FreeAddrs), NEW i \in 1 .. Len(list), i < k
      PROVE  ~AboveMax(list[i], c, size)
    <2> SUFFICES ASSUME AboveMax(list[i], c, size)
                 PROVE  FALSE
        OBVIOUS
    <2> DEFINE w == Aligned(list[i], c)
    <2>1. /\ list[i] \in Block /\ Plain(list[i]) /\ list[i].addr \in Nat
          /\ list[i].size \in Nat /\ list[k].addr \in Nat /\ list[k].addr <= a
          /\ a \in Nat /\ c.max \in Nat /\ a + size <= c.max
        BY <1>1, <1>2, ListFacts, ConstraintFacts
           DEF Plain, SpanWithin, Suitable, Length, Addr
    <2>2. list[i].addr + list[i].size < list[k].addr
        BY <1>2, BlockOrder
    <2>3. UpperPart(w, list[i])
        BY <2>1, RoomFacts DEF AboveMax
    <2>4. Wrap(w.addr + size, AddrMod) > c.max
        BY DEF AboveMax
    <2> HIDE DEF w
    <2>5. w.addr \in Nat /\ w.addr < list[i].addr + list[i].size
        BY <2>1, <2>3 DEF UpperPart
    <2>6. Wrap(w.addr + size, AddrMod) <= w.addr + size
        BY <1>1, <2>5 DEF Wrap
    <2>7. Wrap(w.addr + size, AddrMod) \in Int
        BY <1>1, <2>5 DEF Wrap
    <2>8. c.max < w.addr + size
        BY <1>1, <2>1, <2>4, <2>5, <2>6, <2>7
    <2>9. a + size < w.addr + size
        BY <1>1, <2>1, <2>5, <2>8
    <2>10. w.addr < a
        <3>1. list[i].addr + list[i].size < a
            BY <2>1, <2>2
        <3> QED
            BY <2>1, <2>5, <3>1
    <2> QED
        BY <1>1, <2>1, <2>5, <2>9, <2>10
<1>3. CASE /\ \A n \in 1 .. Len(list) :
                 Fits(list[n], c, size) => \E i \in 1 .. n - 1 : ends(i)
           /\ Refused("constrained", c, "E_OUT_OF_STORAGE", 0, size)
    <2>1. /\ FreeAddrs' = FreeAddrs /\ res'.op = "constrained" /\ res'.size = size
          /\ res'.want = c /\ res'.ret = "E_OUT_OF_STORAGE"
        BY <1>3 DEF Refused, Return, FreeAddrs
    <2>2. ASSUME c.mask = {}, NEW a \in Addr, Suitable(a, size, c, FreeAddrs)
          PROVE  FALSE
        <3>1. PICK k \in 1 .. Len(list) : SpanWithin(a, size, list[k])
            BY <1>1, <2>2, SuitableInBlock
        <3>2. Fits(list[k], c, size)
            BY <1>1, <2>2, <3>1, SuitableFits
        <3> DEFINE T == {n \in 1 .. Len(list) : Fits(list[n], c, size)}
        <3>3. T \subseteq Nat /\ T # {}
            BY <3>2
        <3>4. PICK m \in T : \A n \in T : m <= n
            <4> HIDE DEF T
            <4> QED
                BY <3>3, Least
        <3>5. m \in 1 .. Len(list) /\ m <= k /\ Fits(list[m], c, size)
            BY <3>2, <3>4
        <3>6. PICK i \in 1 .. m - 1 : ends(i)
            BY <1>3, <3>5
        <3>7. i \in 1 .. Len(list) /\ i < m /\ i < k
            BY <1>1, <3>5, <3>6
        <3>8. ~Fits(list[i], c, size)
            BY <3>4, <3>5, <3>7
        <3>9. ~AboveMax(list[i], c, size)
            BY <1>2, <2>2, <3>1, <3>7
        <3> QED
            BY <3>6, <3>8, <3>9
    <2> QED
        BY <2>1, <2>2 DEF HonestRefusal, LowestFit
<1>4. ASSUME NEW n \in 1 .. Len(list), Fits(list[n], c, size),
             \A i \in 1 .. n - 1 : ~ends(i),
             AllocAt("constrained", c, Aligned(list[n], c).addr, size)
      PROVE  HonestRefusal' /\ LowestFit'
    <2> DEFINE addr == Aligned(list[n], c).addr
    <2>1. /\ addr \in Addr /\ addr \in Nat /\ addr + size < AddrMod
          /\ list[n].addr <= addr /\ addr + size <= list[n].addr + list[n].size
        BY <1>1, <1>4, FitFacts DEF Addr
    <2>2. SpanWithin(addr, size, list[n])
        BY <2>1 DEF SpanWithin
    <2>3. AllocAt("constrained", c, addr, size)
        BY <1>4
    <2>4. \A S : Span(addr, size) \subseteq S => Suitable(addr, size, c, S)
        BY <1>1, <1>4, FitIsSuitable
    <2>5. ASSUME NEW k \in 1 .. Len(list), NEW a \in Addr, a < addr, c.mask = {},
                 SpanWithin(a, size, list[k]), Suitable(a, size, c, FreeAddrs)
          PROVE  FALSE
        <3>1. Fits(list[k], c, size) /\ Aligned(list[k], c).addr <= a
            BY <1>1, <2>5, SuitableFits
        <3>2. a \in Nat /\ list[k].addr \in Nat /\ list[n].addr \in Nat
              /\ list[n].size \in Nat /\ list[k].addr <= a /\ k \in Int /\ n \in Int
            BY <1>1, <2>5, ListFacts DEF Addr, SpanWithin
        <3>3. k # n
            BY <2>1, <2>5, <3>1, <3>2
        <3>4. ~(n < k)
            <4>1. n < k => list[n].addr + list[n].size < list[k].addr
                BY BlockOrder
            <4> HIDE DEF addr
            <4> QED
                BY <1>1, <2>1, <2>5, <3>2, <4>1
        <3>5. k \in 1 .. n - 1
            BY <3>2, <3>3, <3>4
        <3> QED
            BY <1>4, <3>1, <3>5
    <2> HIDE DEF addr
    <2>6. /\ res'.op = "constrained" /\ res'.addr = addr /\ res'.size = size
          /\ res'.want = c
        BY <2>1, <2>3, AllocAtEffect DEF Effect, Return
    <2>7. res'.ret # "E_OUT_OF_STORAGE"
        BY <2>1, <2>2, <2>3, AllocAtHonest
    <2>8. ASSUME res'.ret = "NO_ERROR"
          PROVE  LET before == FreeAddrs' \union Span(addr, size) IN
                 /\ Suitable(addr, size, c, before)
                 /\ c.mask = {} =>
                       \A a \in 0 .. addr - 1 : ~Suitable(a, size, c, before)
        <3>1. Took(addr, size)
            BY <2>1, <2>3, <2>8, AllocAtEffect DEF Effect, Return, Retcodes
        <3>2. /\ FreeAddrs' \union Span(addr, size) = FreeAddrs
              /\ Span(addr, size) \subseteq FreeAddrs
            BY <1>1, <2>1, <3>1, TookBack
        <3>3. Suitable(addr, size, c, FreeAddrs)
            BY <2>4, <3>2
        <3>4. ASSUME c.mask = {}, NEW a \in 0 .. addr - 1,
                     Suitable(a, size, c, FreeAddrs)
              PROVE  FALSE
            <4>1. a \in Addr /\ a < addr
                BY <2>1, WidthAssumption DEF Addr
            <4>2. PICK k \in 1 .. Len(list) : SpanWithin(a, size, list[k])
                BY <1>1, <3>4, <4>1, SuitableInBlock
            <4> QED
                BY <2>5, <3>4, <4>1, <4>2
        <3> QED
            BY <3>2, <3>3, <3>4
    <2> QED
        BY <2>6, <2>7, <2>8 DEF HonestRefusal, LowestFit
<1> QED
    BY <1>3, <1>4 DEF alloc_constrained

-----------------------------------------------------------------------------
(* Every call. *)

LEMMA HonestInit == Init => HonestRefusal /\ LowestFit
BY DEF Init, HonestRefusal, LowestFit

LEMMA HonestNext ==
    IInv /\ HonestRefusal /\ LowestFit /\ [Next]_vars =>
        HonestRefusal' /\ LowestFit'
<1> SUFFICES ASSUME IInv, HonestRefusal, LowestFit, [Next]_vars
             PROVE  HonestRefusal' /\ LowestFit'
    OBVIOUS
<1>1. Good(list)
    BY DEF IInv
<1>2. ASSUME NEW r \in FixedReqs, alloc_fixed(r.addr, r.size)
      PROVE  HonestRefusal' /\ LowestFit'
    <2>1. /\ r.addr \in Addr /\ r.size \in Size
          /\ r.addr + r.size < AddrMod
          /\ r.size = 0 => r.addr # 0
        BY RequestAssumption, BelowTop DEF Block
    <2> QED
        BY <1>1, <1>2, <2>1, FixedHonest
<1>3. ASSUME NEW size \in SizeReqs, alloc_block(size)
      PROVE  HonestRefusal' /\ LowestFit'
    <2>1. size \in Size /\ size # 0
        BY RequestAssumption, BelowTop
    <2> QED
        BY <1>1, <1>3, <2>1, BlockHonest
<1>4. ASSUME NEW c \in Constraints, NEW size \in SizeReqs,
             alloc_constrained(c, size)
      PROVE  HonestRefusal' /\ LowestFit'
    <2>1. size \in Size /\ size # 0 /\ c \in Constraint
        BY RequestAssumption, BelowTop
    <2> QED
        BY <1>1, <1>4, <2>1, ConstrainedHonest
<1>5. ASSUME NEW r \in FreeReqs, Release(r)
      PROVE  HonestRefusal' /\ LowestFit'
    <2>1. /\ r.addr \in Addr /\ r.size \in Size /\ r.size # 0
          /\ r.addr + r.size < AddrMod
        BY RequestAssumption, BelowTop DEF Block
    <2> QED
        BY <1>1, <1>5, <2>1, FreeHonest DEF Release
<1>6. CASE UNCHANGED vars
    BY <1>6 DEF vars, HonestRefusal, LowestFit, FreeAddrs
<1> QED
    BY <1>2, <1>3, <1>4, <1>5, <1>6 DEF Next

\* alloc.c says E_OUT_OF_STORAGE only when no suitable span is free, and
\* free_block says E_BAD_ARGUMENT only when part of the span is free already.
THEOREM RefusalsAreHonest == Spec => []HonestRefusal
BY Invariance, HonestInit, HonestNext, PTL DEF Spec

\* alloc_block and alloc_constrained hand out a span that meets the request,
\* at the lowest address that does.
THEOREM FitIsLowest == Spec => []LowestFit
BY Invariance, HonestInit, HonestNext, PTL DEF Spec

-----------------------------------------------------------------------------
(* The /memory node. *)

\* Nobody gives back the memory of malloc().
ASSUME ClientsKeepOff ==
    /\ Region.addr + Region.size < AddrMod
    /\ Pool.addr + Pool.size < AddrMod
    /\ \A r \in FreeReqs : Span(r.addr, r.size) \cap Span(Pool.addr, Pool.size) = {}

-----------------------------------------------------------------------------
(* The inductive invariant.  PoolReserved needs the free list to be Good,   *)
(* and SuccessIsPublished needs to know which span the last call was about. *)

FreeOf(addr, size, s) ==
    \A x \in Int : addr <= x /\ x < addr + size => ~IsFree(x, s)

AllFree(addr, size, s) ==
    \A x \in Int : addr <= x /\ x < addr + size => IsFree(x, s)

Published ==
    ret = "NO_ERROR" /\ phase = "up" =>
        /\ avail = list
        /\ res.op \in {"fixed", "constrained", "free"}
        /\ res.size # 0 /\ res.addr + res.size < AddrMod
        /\ res.op = "free" => AllFree(res.addr, res.size, list)
        /\ res.op # "free" => base = res.addr /\ FreeOf(res.addr, res.size, list)

NodeTypes ==
    /\ phase \in Phases
    /\ avail \in Seq(Block)
    /\ proplen \in 0 .. PropMem
    /\ base \in Addr
    /\ ret \in Retcodes

NodeInv ==
    /\ IInv
    /\ NodeTypes
    /\ phase = "up" => FreeOf(Pool.addr, Pool.size, list)
    /\ Published

-----------------------------------------------------------------------------
(* The two halves of a method: the call and make_available.                 *)

\* A span is taken, or the call is refused.
ClaimEffect ==
    \E op \in {"fixed", "constrained"}, want \in Constraint, addr \in Addr, size \in Size :
        /\ size # 0 => addr + size < AddrMod
        /\ Effect(op, want, addr, size, size # 0 /\ Took(addr, size))

ReleaseEffect ==
    \E addr \in Addr, size \in Size \ {0} :
        /\ addr + size < AddrMod
        /\ Span(addr, size) \cap Span(Pool.addr, Pool.size) = {}
        /\ Effect("free", NoConstraint, addr, size, Gave(addr, size))

LEMMA PublishFacts ==
    ASSUME NodeTypes, Good(list'), NEW r \in Retcodes, make_available(r)
    PROVE  /\ avail' \in Seq(Block) /\ proplen' \in 0 .. PropMem /\ ret' \in Retcodes
           /\ ret' = "NO_ERROR" => r = "NO_ERROR" /\ avail' = list'
<1>1. list' \in Seq(Block) /\ Len(list') \in Nat
    BY LenProperties DEF Good
<1>2. Reserved(Len(list')) \in Nat
    BY <1>1 DEF Reserved
<1>3. PropMem \in Nat /\ proplen \in 0 .. PropMem
    BY NodeAssumption DEF NodeTypes
<1> QED
    BY <1>1, <1>2, <1>3 DEF make_available, NodeTypes, Retcodes

LEMMA EffectTypes ==
    ASSUME IInv, NEW op \in Ops, NEW want \in Constraint, NEW addr \in Addr,
           NEW size \in Size, NEW Change, Change => Good(list'),
           Effect(op, want, addr, size, Change)
    PROVE  /\ IInv'
           /\ res'.ret \in Retcodes /\ res'.op = op
           /\ res'.addr = addr /\ res'.size = size
           /\ res'.ret = "NO_ERROR" => Change
           /\ res'.ret # "NO_ERROR" => UNCHANGED list
<1>1. Good(list')
    BY DEF Effect, IInv
<1>2. CASE Change /\ Return(op, want, "NO_ERROR", addr, size)
    BY <1>1, <1>2 DEF Return, IInv, Retcodes
<1>3. ASSUME UNCHANGED list, NEW r \in Retcodes \ {"NO_ERROR"},
             Return(op, want, r, addr, size)
      PROVE  /\ IInv'
             /\ res'.ret \in Retcodes /\ res'.op = op
             /\ res'.addr = addr /\ res'.size = size
             /\ res'.ret # "NO_ERROR" /\ UNCHANGED list
    BY <1>1, <1>3 DEF Return, IInv
<1> QED
    BY <1>2, <1>3 DEF Effect

LEMMA AlignOnlyFacts ==
    ASSUME NEW al \in 1 .. AddrMod
    PROVE  AlignOnly(al) \in Constraint
BY WidthAssumption DEF AlignOnly, Constraint, Addr

\* Whichever allocation claim makes.
LEMMA ClaimCalls ==
    ASSUME Good(list), NEW align, align = 0 \/ align \in Aligns,
           NEW addr \in Addr, NEW size \in Size,
           size # 0 => addr + size < AddrMod \/ align # 0,
           size = 0 => align = 0 /\ addr # 0,
           f_memory_claim(align, addr, size)
    PROVE  ClaimEffect
<1>1. CASE align = 0 /\ alloc_fixed(addr, size) /\ size # 0
    <2>1. Effect("fixed", NoConstraint, addr, size, Took(addr, size))
        BY <1>1, AllocAtEffect DEF alloc_fixed
    <2> QED
        BY <1>1, <2>1, NoConstraintFacts DEF ClaimEffect, Effect
<1>2. CASE align = 0 /\ alloc_fixed(addr, size) /\ size = 0
    <2>1. Effect("fixed", NoConstraint, addr, 0, FALSE)
        BY <1>2, FullSizeEffect DEF alloc_fixed
    <2> QED
        BY <1>2, <2>1, NoConstraintFacts DEF ClaimEffect, Effect
<1>3. CASE align # 0 /\ alloc_aligned(align, size)
    <2>1. AlignOnly(align) \in Constraint
        BY <1>3, NodeAssumption, AlignOnlyFacts
    <2>2. PICK a \in Addr : /\ a + size < AddrMod
                            /\ Effect("constrained", AlignOnly(align), a, size, Took(a, size))
        BY <1>3, <2>1, ConstrainedEffect DEF alloc_aligned
    <2> QED
        BY <1>3, <2>1, <2>2 DEF ClaimEffect, Effect
<1> QED
    BY <1>1, <1>2, <1>3 DEF f_memory_claim

\* What claim leaves, whatever phase the node is in.
LEMMA ClaimLeaves ==
    ASSUME IInv, NodeTypes, ClaimEffect,
           base' = IF res'.ret = "NO_ERROR" THEN res'.addr ELSE 0,
           make_available(res'.ret)
    PROVE  /\ IInv'
           /\ avail' \in Seq(Block) /\ proplen' \in 0 .. PropMem
           /\ base' \in Addr /\ ret' \in Retcodes
           /\ \A x \in Int : IsFree(x, list') => IsFree(x, list)
           /\ ret' = "NO_ERROR" =>
                 /\ avail' = list' /\ base' = res'.addr
                 /\ res'.op \in {"fixed", "constrained"}
                 /\ res'.size # 0 /\ res'.addr + res'.size < AddrMod
                 /\ FreeOf(res'.addr, res'.size, list')
<1>1. PICK op \in {"fixed", "constrained"}, want \in Constraint, addr \in Addr, size \in Size :
         /\ size # 0 => addr + size < AddrMod
         /\ Effect(op, want, addr, size, size # 0 /\ Took(addr, size))
    BY DEF ClaimEffect
<1> DEFINE Change == size # 0 /\ Took(addr, size)
<1>2. op \in Ops /\ (Change => Good(list'))
    BY DEF Ops, Took
<1>3. /\ IInv' /\ res'.ret \in Retcodes /\ res'.op = op
      /\ res'.addr = addr /\ res'.size = size
      /\ res'.ret = "NO_ERROR" => Change
      /\ res'.ret # "NO_ERROR" => UNCHANGED list
    <2> HIDE DEF Change
    <2>1. Effect(op, want, addr, size, Change)
        BY <1>1 DEF Change
    <2> QED
        BY <1>2, <2>1, EffectTypes
<1>4. /\ avail' \in Seq(Block) /\ proplen' \in 0 .. PropMem /\ ret' \in Retcodes
      /\ ret' = "NO_ERROR" => res'.ret = "NO_ERROR" /\ avail' = list'
    <2>1. Good(list')
        BY <1>3 DEF IInv
    <2> QED
        BY <1>3, <2>1, PublishFacts
<1>5. base' \in Addr
    BY <1>3, WidthAssumption DEF Addr
<1>6. \A x \in Int : IsFree(x, list') => IsFree(x, list)
    BY <1>3 DEF Took
<1>7. res'.ret = "NO_ERROR" => size # 0 /\ FreeOf(addr, size, list')
    BY <1>3 DEF Took, FreeOf
<1> QED
    BY <1>1, <1>3, <1>4, <1>5, <1>6, <1>7

LEMMA ReleaseLeaves ==
    ASSUME IInv, NodeTypes, ReleaseEffect, make_available(res'.ret)
    PROVE  /\ IInv'
           /\ avail' \in Seq(Block) /\ proplen' \in 0 .. PropMem /\ ret' \in Retcodes
           /\ FreeOf(Pool.addr, Pool.size, list) => FreeOf(Pool.addr, Pool.size, list')
           /\ ret' = "NO_ERROR" =>
                 /\ avail' = list' /\ res'.op = "free"
                 /\ res'.size # 0 /\ res'.addr + res'.size < AddrMod
                 /\ AllFree(res'.addr, res'.size, list')
<1>1. PICK addr \in Addr, size \in Size \ {0} :
         /\ addr + size < AddrMod
         /\ Span(addr, size) \cap Span(Pool.addr, Pool.size) = {}
         /\ Effect("free", NoConstraint, addr, size, Gave(addr, size))
    BY DEF ReleaseEffect
<1>2. "free" \in Ops /\ (Gave(addr, size) => Good(list'))
    BY DEF Ops, Gave
<1>3. /\ IInv' /\ res'.ret \in Retcodes /\ res'.op = "free"
      /\ res'.addr = addr /\ res'.size = size
      /\ res'.ret = "NO_ERROR" => Gave(addr, size)
      /\ res'.ret # "NO_ERROR" => UNCHANGED list
    BY <1>1, <1>2, NoConstraintFacts, EffectTypes
<1>4. /\ avail' \in Seq(Block) /\ proplen' \in 0 .. PropMem /\ ret' \in Retcodes
      /\ ret' = "NO_ERROR" => res'.ret = "NO_ERROR" /\ avail' = list'
    <2>1. Good(list')
        BY <1>3 DEF IInv
    <2> QED
        BY <1>3, <2>1, PublishFacts
<1>5. FreeOf(Pool.addr, Pool.size, list) => FreeOf(Pool.addr, Pool.size, list')
    <2>1. Pool.addr \in Addr /\ Pool.size \in Size \ {0} /\ Pool.addr + Pool.size < AddrMod
        BY NodeAssumption, ClientsKeepOff DEF Block
    <2>2. \A x \in Int : ~(/\ addr <= x /\ x < addr + size
                           /\ Pool.addr <= x /\ x < Pool.addr + Pool.size)
        <3> SUFFICES ASSUME NEW x \in Int,
                            addr <= x, x < addr + size,
                            Pool.addr <= x, x < Pool.addr + Pool.size
                     PROVE  FALSE
            OBVIOUS
        <3>1. x \in Addr
            BY <1>1, WidthAssumption DEF Addr, Size
        <3>2. x \in Span(addr, size)
            BY <1>1, <3>1, SpanFacts
        <3>3. x \in Span(Pool.addr, Pool.size)
            BY <2>1, <3>1, SpanFacts
        <3> QED
            BY <1>1, <3>2, <3>3
    <2>3. CASE Gave(addr, size)
        BY <2>2, <2>3 DEF Gave, FreeOf
    <2>4. CASE UNCHANGED list
        BY <2>4 DEF FreeOf
    <2> QED
        BY <1>3, <2>3, <2>4
<1>6. res'.ret = "NO_ERROR" => AllFree(addr, size, list')
    BY <1>3 DEF Gave, AllFree
<1> QED
    BY <1>1, <1>3, <1>4, <1>5, <1>6
-----------------------------------------------------------------------------
(* Every action keeps the invariant. *)

LEMMA NodeInvInit == NodeInit => NodeInv
<1> SUFFICES ASSUME NodeInit
             PROVE  NodeInv
    OBVIOUS
<1>1. IInv
    BY IInvInit DEF NodeInit
<1>2. NodeTypes
    BY NodeAssumption, WidthAssumption, EmptySeq
    DEF NodeInit, NodeTypes, Phases, Retcodes, Addr
<1>3. phase # "up"
    BY DEF NodeInit
<1> QED
    BY <1>1, <1>2, <1>3 DEF NodeInv, Published

\* The region and the pool are like any client's requests.
LEMMA SpansFit ==
    /\ Region.addr \in Addr /\ Region.size \in Size \ {0}
    /\ Region.addr + Region.size < AddrMod
    /\ Pool.addr \in Addr /\ Pool.size \in Size \ {0}
    /\ Pool.addr + Pool.size < AddrMod
BY NodeAssumption, ClientsKeepOff DEF Block

LEMMA InstallKeeps ==
    ASSUME NodeInv, InstallRegion
    PROVE  NodeInv'
<1> USE DEF NodeInv
<1>1. Effect("free", NoConstraint, Region.addr, Region.size,
             Gave(Region.addr, Region.size))
    BY SpansFit, FreeEffect DEF InstallRegion, IInv
<1>2. "free" \in Ops /\ (Gave(Region.addr, Region.size) => Good(list'))
    BY DEF Ops, Gave
<1>3. IInv' /\ res'.ret \in Retcodes
    BY <1>1, <1>2, SpansFit, NoConstraintFacts, EffectTypes
<1>4. Good(list') /\ "NO_ERROR" \in Retcodes
    BY <1>3 DEF IInv, Retcodes
<1>5. avail' \in Seq(Block) /\ proplen' \in 0 .. PropMem /\ ret' \in Retcodes
    <2>1. CASE res'.ret = "NO_ERROR"
        BY <1>4, <2>1, PublishFacts DEF InstallRegion
    <2>2. CASE res'.ret # "NO_ERROR"
        BY <1>3, <2>2 DEF InstallRegion, NodeTypes
    <2> QED
        BY <2>1, <2>2
<1>6. phase' \in {"reserve", "failed"} /\ base' \in Addr
    BY DEF InstallRegion, NodeTypes
<1>7. NodeTypes'
    BY <1>5, <1>6 DEF NodeTypes, Phases
<1> QED
    BY <1>3, <1>6, <1>7 DEF Published

LEMMA ReserveKeeps ==
    ASSUME NodeInv, ReservePool
    PROVE  NodeInv'
<1> USE DEF NodeInv
<1>1. f_memory_claim(0, Pool.addr, Pool.size)
    BY DEF ReservePool
<1>2. ClaimEffect
    BY <1>1, SpansFit, ClaimCalls DEF IInv
<1>3. /\ base' = IF res'.ret = "NO_ERROR" THEN res'.addr ELSE 0
      /\ make_available(res'.ret)
    BY <1>1 DEF f_memory_claim
<1>4. /\ IInv'
      /\ avail' \in Seq(Block) /\ proplen' \in 0 .. PropMem
      /\ base' \in Addr /\ ret' \in Retcodes
      /\ ret' = "NO_ERROR" =>
            /\ avail' = list' /\ base' = res'.addr
            /\ res'.op \in {"fixed", "constrained"}
            /\ res'.size # 0 /\ res'.addr + res'.size < AddrMod
            /\ FreeOf(res'.addr, res'.size, list')
    BY <1>2, <1>3, ClaimLeaves
<1>5. phase' \in {"up", "failed"} /\ (phase' = "up" => ret' = "NO_ERROR")
    BY DEF ReservePool
<1>6. res'.addr = Pool.addr /\ res'.size = Pool.size
    <2>1. AllocAt("fixed", NoConstraint, Pool.addr, Pool.size)
        BY <1>1 DEF f_memory_claim, alloc_fixed
    <2>2. Effect("fixed", NoConstraint, Pool.addr, Pool.size,
                 Took(Pool.addr, Pool.size))
        BY <2>1, SpansFit, AllocAtEffect DEF IInv
    <2> QED
        BY <2>2 DEF Effect, Return
<1>7. NodeTypes'
    BY <1>4, <1>5 DEF NodeTypes, Phases
<1>8. phase' = "up" => FreeOf(Pool.addr, Pool.size, list')
    BY <1>4, <1>5, <1>6
<1>9. Published'
    BY <1>4 DEF Published, FreeOf
<1> QED
    BY <1>4, <1>7, <1>8, <1>9 DEF FreeOf

LEMMA ClaimKeeps ==
    ASSUME NodeInv, ClaimEffect, phase = "up", UNCHANGED phase,
           base' = IF res'.ret = "NO_ERROR" THEN res'.addr ELSE 0,
           make_available(res'.ret)
    PROVE  NodeInv'
<1> USE DEF NodeInv
<1>1. /\ IInv'
      /\ avail' \in Seq(Block) /\ proplen' \in 0 .. PropMem
      /\ base' \in Addr /\ ret' \in Retcodes
      /\ \A x \in Int : IsFree(x, list') => IsFree(x, list)
      /\ ret' = "NO_ERROR" =>
            /\ avail' = list' /\ base' = res'.addr
            /\ res'.op \in {"fixed", "constrained"}
            /\ res'.size # 0 /\ res'.addr + res'.size < AddrMod
            /\ FreeOf(res'.addr, res'.size, list')
    BY ClaimLeaves
<1>2. FreeOf(Pool.addr, Pool.size, list')
    BY <1>1 DEF FreeOf
<1>3. NodeTypes'
    BY <1>1 DEF NodeTypes
<1>4. Published'
    BY <1>1 DEF Published, FreeOf
<1> QED
    BY <1>1, <1>2, <1>3, <1>4 DEF FreeOf

LEMMA ReleaseKeeps ==
    ASSUME NodeInv, ReleaseEffect, phase = "up", UNCHANGED <<phase, base>>,
           make_available(res'.ret)
    PROVE  NodeInv'
<1> USE DEF NodeInv
<1>1. /\ IInv'
      /\ avail' \in Seq(Block) /\ proplen' \in 0 .. PropMem /\ ret' \in Retcodes
      /\ FreeOf(Pool.addr, Pool.size, list')
      /\ ret' = "NO_ERROR" =>
            /\ avail' = list' /\ res'.op = "free"
            /\ res'.size # 0 /\ res'.addr + res'.size < AddrMod
            /\ AllFree(res'.addr, res'.size, list')
    BY ReleaseLeaves
<1>2. NodeTypes'
    BY <1>1 DEF NodeTypes
<1>3. Published'
    BY <1>1 DEF Published, AllFree
<1> QED
    BY <1>1, <1>2, <1>3 DEF FreeOf

LEMMA NodeInvNext == NodeInv /\ [NodeNext]_allVars => NodeInv'
<1> SUFFICES ASSUME NodeInv, [NodeNext]_allVars
             PROVE  NodeInv'
    OBVIOUS
<1>1. CASE InstallRegion
    BY <1>1, InstallKeeps
<1>2. CASE ReservePool
    BY <1>2, ReserveKeeps
<1>3. CASE phase = "up" /\ ClaimFixed /\ UNCHANGED phase
    <2>1. PICK r \in FixedReqs : f_memory_claim(0, r.addr, r.size)
        BY <1>3 DEF ClaimFixed
    <2>2. /\ r.addr \in Addr /\ r.size \in Size /\ r.addr + r.size < AddrMod
          /\ r.size = 0 => r.addr # 0
        BY RequestAssumption, BelowTop DEF Block
    <2>3. ClaimEffect
        BY <2>1, <2>2, ClaimCalls DEF NodeInv, IInv
    <2> QED
        BY <1>3, <2>1, <2>3, ClaimKeeps DEF f_memory_claim
<1>4. CASE phase = "up" /\ ClaimAligned /\ UNCHANGED phase
    <2>1. PICK al \in Aligns, size \in SizeReqs : f_memory_claim(al, 0, size)
        BY <1>4 DEF ClaimAligned
    <2>2. al # 0 /\ 0 \in Addr /\ size \in Size \ {0}
        BY NodeAssumption, RequestAssumption, BelowTop, WidthAssumption DEF Addr
    <2>3. ClaimEffect
        BY <2>1, <2>2, ClaimCalls DEF NodeInv, IInv
    <2> QED
        BY <1>4, <2>1, <2>3, ClaimKeeps DEF f_memory_claim
<1>5. CASE phase = "up" /\ ReleaseSpan /\ UNCHANGED phase
    <2>1. PICK r \in FreeReqs : f_memory_release(r.addr, r.size)
        BY <1>5 DEF ReleaseSpan
    <2>2. /\ r.addr \in Addr /\ r.size \in Size \ {0} /\ r.addr + r.size < AddrMod
          /\ Span(r.addr, r.size) \cap Span(Pool.addr, Pool.size) = {}
        BY RequestAssumption, BelowTop, ClientsKeepOff DEF Block
    <2>3. Effect("free", NoConstraint, r.addr, r.size, Gave(r.addr, r.size))
        BY <2>1, <2>2, FreeEffect DEF f_memory_release, NodeInv, IInv
    <2>4. ReleaseEffect
        BY <2>2, <2>3 DEF ReleaseEffect
    <2> QED
        BY <1>5, <2>1, <2>4, ReleaseKeeps DEF f_memory_release
<1>6. CASE UNCHANGED allVars
    BY <1>6 DEF allVars, NodeInv, NodeTypes, IInv, Published, FreeOf, AllFree
<1> QED
    BY <1>1, <1>2, <1>3, <1>4, <1>5, <1>6 DEF NodeNext

LEMMA NodeInvariance == NodeSpec => []NodeInv
BY NodeInvInit, NodeInvNext, PTL DEF NodeSpec

-----------------------------------------------------------------------------
\* The node's state has its types: "available" is a list of blocks, and the
\* break of the property pool never passes its end (make_available).
THEOREM NodeTypeCorrect == NodeSpec => []NodeTypeOK
<1>1. NodeInv => NodeTypeOK
    BY DEF NodeInv, NodeTypes, IInv, Good, NodeTypeOK, TypeOK
<1> QED
    BY <1>1, NodeInvariance, PTL

\* Once install_memory has claimed it, the memory that malloc() works in is
\* never free, whatever clients claim and release of the rest.
THEOREM PoolStaysReserved == NodeSpec => []PoolReserved
<1>1. NodeInv => PoolReserved
    <2> SUFFICES ASSUME NodeInv, phase = "up"
                 PROVE  Span(Pool.addr, Pool.size) \cap FreeAddrs = {}
        BY DEF PoolReserved
    <2>1. FreeAddrs = {x \in Addr : IsFree(x, list)}
        BY FreeAddrsFacts DEF NodeInv, IInv, FreeAddrs
    <2>2. \A x \in Addr : x \in Span(Pool.addr, Pool.size) => ~IsFree(x, list)
        BY SpansFit, SpanFacts, WidthAssumption DEF NodeInv, FreeOf, Addr
    <2> QED
        BY <2>1, <2>2
<1> QED
    BY <1>1, NodeInvariance, PTL

\* When claim or release reports success, "available" is the free list, and
\* the span that was claimed or released is out of it or in it.
THEOREM SuccessPublished == NodeSpec => []SuccessIsPublished
<1>1. NodeInv => SuccessIsPublished
    <2> SUFFICES ASSUME NodeInv, ret = "NO_ERROR", phase = "up"
                 PROVE  /\ avail = list
                        /\ res.op \in {"fixed", "constrained"} =>
                              Span(base, res.size) \cap Advertised = {}
                        /\ res.op = "free" => Span(res.addr, res.size) \subseteq Advertised
        BY DEF SuccessIsPublished
    <2>1. /\ avail = list
          /\ res.addr \in Addr /\ res.size \in Size \ {0}
          /\ res.addr + res.size < AddrMod
          /\ res.op = "free" => AllFree(res.addr, res.size, list)
          /\ res.op # "free" => base = res.addr /\ FreeOf(res.addr, res.size, list)
        BY DEF NodeInv, Published, IInv
    <2>2. Advertised = {x \in Addr : IsFree(x, list)}
        BY <2>1, FreeAddrsFacts DEF NodeInv, IInv, Advertised, FreeIn
    <2>3. /\ Span(res.addr, res.size) \subseteq Addr
          /\ \A x \in Addr : x \in Span(res.addr, res.size) <=>
                                res.addr <= x /\ x < res.addr + res.size
        BY <2>1, SpanFacts
    <2>4. CASE res.op = "free"
        BY <2>1, <2>2, <2>3, <2>4, WidthAssumption DEF AllFree, Addr
    <2>5. CASE res.op # "free"
        BY <2>1, <2>2, <2>3, <2>5, WidthAssumption DEF FreeOf, Addr
    <2> QED
        BY <2>1, <2>4, <2>5
<1> QED
    BY <1>1, NodeInvariance, PTL
=============================================================================
