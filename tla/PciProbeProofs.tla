--------------------------- MODULE PciProbeProofs ---------------------------
(***************************************************************************)
(* What is proved of PciProbe for pools, granules and BARs of any size and *)
(* any number of buses, devices, failures and bridges given up, until the  *)
(* pools are damaged: while each bridge that is closed has something that  *)
(* needs memory behind it, and FCode leaves addresses to the firmware.     *)
(***************************************************************************)
EXTENDS PciProbe, SequenceTheorems, FiniteSetTheorems, TLAPS

\* An address is in the pool.
Holds(b, x) == b.base <= x /\ x < Limit(b)
InPool(P, x) == \E i \in 1 .. Len(P) : Holds(P[i], x)

\* Blocks in order that do not touch.
Canon(P) ==
    /\ P \in Blocks
    /\ \A i \in 1 .. Len(P) : Limit(P[i]) <= Top
    /\ \A i, j \in 1 .. Len(P) : i < j => Limit(P[i]) < P[j].base

\* Sizes are powers of two: one of a BAR's size and the granule divides the
\* other.  Memory ends with a granule, and so does its low part.
ASSUME PoolsFit ==
    /\ Canon(MemPool)
    /\ MaxBus > 0 /\ MaxBus < Top
    /\ Top % Granule = 0 /\ Low % Granule = 0
    /\ \A s \in BarSizes \union (RomSizes \ {0}) : s % Granule = 0 \/ Granule % s = 0

-----------------------------------------------------------------------------
(* The inductive invariant: memory.  B stands for buses, C for claims.      *)

Addresses == 0 .. Top

\* The window w, in whole granules.
WindowClaim(id, bus, w) ==
    [id |-> id, part |-> "window", bus |-> bus, lo |-> w.base,
     hi |-> w.base + RoundUp(w.limit - w.base, Granule) - 1]

\* What ppb_set_window makes of the largest block.
WindowOK(w) ==
    /\ w \in Window /\ w.limit = w.base + w.size
    /\ w = NoWindow \/ /\ w.size > 0 /\ w.limit < Top
                       /\ Low <= w.base /\ w.base % Granule = 0
                       /\ w.limit % Granule = 0 \/ w.limit = Top - 1

\* If the first address of the window is free, then up to the end of a granule,
\* or all of the window is.
Cuttable(P, w) ==
    InPool(P, w.base) =>
        \E e \in Addresses :
            /\ w.base < e /\ ~InPool(P, e)
            /\ \A x \in w.base .. e - 1 : InPool(P, x)
            /\ e % Granule = 0 \/ e = w.limit

ClaimSet == [id : 1 .. MaxDevices, part : {"bar", "window"},
             bus : 0 .. MaxBus, lo : 0 .. Top, hi : 0 .. Top]

ClaimTypes(C, d) ==
    /\ C \subseteq ClaimSet
    /\ \A c \in C : c.lo <= c.hi /\ c.id <= d

BusSet(d) == [bus : 0 .. MaxBus, id : 0 .. d, mem : Blocks, numbers : Blocks,
              window : Window, range : Window, todo : Seq([id : 1 .. d, size : BarSizes])]

BusTypes(B, d) ==
    /\ B \in Seq(BusSet(d)) /\ Len(B) > 0 /\ B[1].bus = 0
    /\ \A j, k \in 1 .. Len(B) : j # k => B[j].id # B[k].id /\ B[j].bus # B[k].bus

\* What is free on a bus lies in the window of its bridge.
PoolsOK(B) ==
    /\ \A k \in 1 .. Len(B) : Canon(B[k].mem)
    /\ \A k \in 2 .. Len(B) :
          /\ WindowOK(B[k].window) /\ Cuttable(B[k].mem, B[k].window)
          /\ \A x \in Addresses : InPool(B[k].mem, x) =>
                B[k].window.base <= x /\ x < B[k].window.limit

\* While a bus is probed, the window of its bridge is in the pool above, and
\* the bridge forwards all of it.
WindowsOK(B, C) ==
    \A k \in 2 .. Len(B) :
        /\ \A x \in Addresses :
              B[k].window.base <= x /\ x < B[k].window.base + RoundUp(B[k].window.size, Granule) =>
                  InPool(B[k - 1].mem, x)
        /\ B[k].window.size > 0 => WindowClaim(B[k].id, B[k - 1].bus, B[k].window) \in C
        /\ \A c \in C : c.id = B[k].id /\ c.part = "window" =>
              B[k].window.size > 0 /\ c = WindowClaim(B[k].id, B[k - 1].bus, B[k].window)

\* The claim is the window of the next bus that is probed.
Ahead(B, k, c) == k < Len(B) /\ c.id = B[k + 1].id /\ c.part = "window"

ClaimsOK(B, C) ==
    /\ \A k \in 1 .. Len(B), c \in C : c.bus = B[k].bus =>
          /\ ~Ahead(B, k, c) =>
                \A x \in Addresses : c.lo <= x /\ x <= c.hi => ~InPool(B[k].mem, x)
          /\ k > 1 => B[k].window.base <= c.lo /\ c.hi < B[k].window.limit
    /\ \A c, d \in C : c.bus = d.bus /\ c # d => c.hi < d.lo \/ d.hi < c.lo

MemInv(B, C) == PoolsOK(B) /\ WindowsOK(B, C) /\ ClaimsOK(B, C)

-----------------------------------------------------------------------------
(* The inductive invariant: bus numbers.  R stands for routes, S for        *)
(* stranded.                                                                *)

Live(R, S) == {r \in R : r.id \notin S}
Used(R, S) == {0} \union {r.sec : r \in Live(R, S)}

RouteTypes(R, S, d) ==
    /\ R \subseteq [id : 1 .. MaxDevices, bus : 0 .. MaxBus, sec : 0 .. MaxBus, sub : 0 .. MaxBus]
    /\ S \subseteq 1 .. MaxDevices
    /\ \A r \in R : r.id <= d
    /\ \A s \in S : s <= d
    /\ \A r, q \in R : r.id = q.id => r = q
    /\ \A r \in Live(R, S) : r.sec > 0 /\ r.sec <= r.sub /\ r.bus \in Used(R, S)
    /\ \A r, q \in Live(R, S) : r.sec = q.sec => r = q

NumbersOK(B) ==
    \A k \in 1 .. Len(B) :
        /\ Canon(B[k].numbers)
        /\ \A x \in Addresses : InPool(B[k].numbers, x) =>
              /\ x > 0 /\ x <= MaxBus
              /\ \A j \in 2 .. k : B[j].range.base < x /\ x < B[j].range.limit

RangesOK(B, R, S) ==
    \A k \in 2 .. Len(B) :
        LET n == B[k].range IN
        /\ n \in Window /\ n.base = B[k].bus /\ n.base > 0 /\ n.base < n.limit
        /\ n.limit = n.base + n.size /\ n.limit <= MaxBus + 1
        /\ \A x \in Addresses : n.base <= x /\ x < n.limit => InPool(B[k - 1].numbers, x)
        /\ B[k].id \notin S
        /\ [id |-> B[k].id, bus |-> B[k - 1].bus, sec |-> n.base, sub |-> n.limit - 1] \in R

\* A number that is in use is free only above the bus that is probed, where the
\* range of the bridge has it.
UsedOK(B, R, S) ==
    \A k \in 1 .. Len(B), u \in Used(R, S) : InPool(B[k].numbers, u) =>
        k < Len(B) /\ B[k + 1].range.base <= u /\ u < B[k + 1].range.limit

RoutesOK(B, R, S) ==
    /\ \A k \in 1 .. Len(B), q \in Live(R, S) :
          q.bus = B[k].bus /\ ~(k < Len(B) /\ q.id = B[k + 1].id) =>
              /\ \A x \in Addresses : q.sec <= x /\ x <= q.sub => ~InPool(B[k].numbers, x)
              /\ k > 1 => B[k].range.base < q.sec /\ q.sub < B[k].range.limit
    /\ \A r, q \in Live(R, S) :
          /\ r.bus = q.bus /\ r # q => r.sub < q.sec \/ q.sub < r.sec
          /\ q.bus = r.sec => r.sec < q.sec /\ q.sub <= r.sub

NumInv(B, R, S) == NumbersOK(B) /\ RangesOK(B, R, S) /\ UsedOK(B, R, S) /\ RoutesOK(B, R, S)

\* Claims are on buses that are in use, and behind the window of the bridge.
ReachInv(C, R, S) ==
    \A c \in C :
        /\ c.bus \in Used(R, S)
        /\ \A r \in Live(R, S) : c.bus = r.sec =>
              \E w \in C : /\ w.id = r.id /\ w.part = "window"
                           /\ w.lo <= c.lo /\ c.hi <= w.hi

AllInv(B, C, R, S, d) ==
    /\ BusTypes(B, d) /\ ClaimTypes(C, d) /\ RouteTypes(R, S, d)
    /\ MemInv(B, C) /\ NumInv(B, R, S) /\ ReachInv(C, R, S)

LostInv(B, C) ==
    \A x \in Addresses : InPool(MemPool, x) =>
        \/ InPool(B[1].mem, x)
        \/ \E c \in C : c.bus = 0 /\ ~Ahead(B, 1, c) /\ c.lo <= x /\ x <= c.hi

\* What is behind the number of a bus has its numbers below the end of the range
\* the bus was found with, and the window of a bridge is on the bridge's bus: so
\* what is given up with a bus is all there is behind it.
BehindInv(B, C, R, S) ==
    /\ \A k \in 2 .. Len(B), p \in Live(R, S) :
          B[k].range.base <= p.sec /\ p.sec < B[k].range.limit => p.sub < B[k].range.limit
    /\ \A w \in C, r \in Live(R, S) : w.part = "window" /\ w.id = r.id => w.bus = r.bus

SoundInv ==
    /\ AllInv(buses, claims, routes, stranded, devices)
    /\ BehindInv(buses, claims, routes, stranded)
    /\ abandoned \subseteq ClaimSet
    /\ failures = 0 => LostInv(buses, claims)

PciInv ==
    /\ devices \in 0 .. MaxDevices
    /\ failures \in 0 .. MaxFailures /\ damage \in 0 .. MaxDamage
    /\ damage = 0 => SoundInv

-----------------------------------------------------------------------------
(* Lists of blocks. *)

\* A non-empty set of naturals has a least element: intervals that start at 0
\* are finite, and the strict subset ordering of finite sets is well founded.
LEMMA Least ==
    ASSUME NEW T, T \subseteq Nat, T # {}
    PROVE  \E m \in T : \A k \in T : m <= k
<1> DEFINE R == StrictSubsetOrdering(Nat)
           F == {0 .. k : k \in T}
<1>1. IsWellFoundedOn(R, FiniteSubsetsOf(Nat))
    BY FS_StrictSubsetOrderingWellFounded
<1>2. F \subseteq FiniteSubsetsOf(Nat) /\ F # {}
    <2>1. ASSUME NEW k \in T
          PROVE  0 .. k \in FiniteSubsetsOf(Nat)
        BY FS_Interval DEF FiniteSubsetsOf
    <2> QED
        BY <2>1
<1>3. PICK X \in F : \A Y \in F : ~(<<Y, X>> \in R)
    <2> HIDE DEF R, F
    <2> QED
        BY <1>1, <1>2, WFMin
<1>4. PICK m \in T : X = 0 .. m
    OBVIOUS
<1>5. ASSUME NEW k \in T, k < m
      PROVE  FALSE
    <2>1. 0 .. k \subseteq 0 .. m /\ 0 .. k \subseteq Nat /\ 0 .. m \subseteq Nat
        BY <1>5
    <2>2. m \in 0 .. m /\ ~(m \in 0 .. k)
        BY <1>5
    <2>3. <<0 .. k, 0 .. m>> \in R
        BY <2>1, <2>2 DEF StrictSubsetOrdering
    <2> QED
        BY <1>3, <1>4, <2>3
<1> QED
    BY <1>5

LEMMA EarliestFacts ==
    ASSUME NEW S, S \subseteq Nat, S # {}
    PROVE  Earliest(S) \in S /\ \A j \in S : Earliest(S) <= j
    BY Least DEF Earliest

LEMMA Induction ==
    ASSUME NEW n \in Nat, NEW T, 0 \in T, \A k \in 0 .. n - 1 : k \in T => k + 1 \in T
    PROVE  \A k \in 0 .. n : k \in T
<1> DEFINE B == {k \in 0 .. n : k \notin T}
<1>1. ASSUME B # {}
      PROVE  FALSE
    <2>1. B \subseteq Nat
        OBVIOUS
    <2>2. PICK m \in B : \A k \in B : m <= k
        <3> HIDE DEF B
        <3> QED
            BY <1>1, <2>1, Least
    <2>3. m \in 0 .. n /\ m \notin T /\ m # 0
        OBVIOUS
    <2>4. m - 1 \in 0 .. n - 1 /\ m - 1 \in 0 .. n /\ ~(m <= m - 1) /\ (m - 1) + 1 = m
        BY <2>3
    <2>5. m - 1 \in T
        BY <2>2, <2>4
    <2> QED
        BY <2>3, <2>4, <2>5
<1> QED
    BY <1>1

PoolBlock == [base : 0 .. Top, size : 1 .. Top]

LEMMA CanonFacts ==
    ASSUME NEW P, Canon(P)
    PROVE  /\ Len(P) \in Nat /\ DOMAIN P = 1 .. Len(P) /\ P \in Seq(PoolBlock)
           /\ \A i \in 1 .. Len(P) :
                 /\ P[i] \in PoolBlock
                 /\ P[i].base \in Nat /\ P[i].size \in Nat /\ Limit(P[i]) \in Nat
                 /\ Limit(P[i]) = P[i].base + P[i].size
                 /\ P[i].base < Limit(P[i]) /\ Limit(P[i]) <= Top
           /\ \A i, j \in 1 .. Len(P) : i < j => Limit(P[i]) < P[j].base
<1>1. P \in Seq(PoolBlock) /\ Top \in Nat
    BY PciAddressAssumption DEF Canon, Blocks, PoolBlock
<1>2. Len(P) \in Nat /\ DOMAIN P = 1 .. Len(P) /\ \A i \in 1 .. Len(P) : P[i] \in PoolBlock
    BY <1>1, LenProperties, ElementOfSeq
<1>3. ASSUME NEW b \in PoolBlock
      PROVE  /\ b.base \in Nat /\ b.size \in Nat /\ Limit(b) \in Nat
             /\ Limit(b) = b.base + b.size /\ b.base < Limit(b)
    BY <1>1 DEF PoolBlock, Limit
<1> QED
    BY <1>1, <1>2, <1>3 DEF Canon

LEMMA CanonIf ==
    ASSUME NEW P, P \in Seq(PoolBlock),
           \A i \in 1 .. Len(P) : Limit(P[i]) <= Top,
           \A i, j \in 1 .. Len(P) : i < j => Limit(P[i]) < P[j].base
    PROVE  Canon(P)
    BY DEF Canon, Blocks, PoolBlock

\* Two lists, the second behind the first.
LEMMA Joined ==
    ASSUME NEW P, NEW Q, Canon(P), Canon(Q),
           \A i \in 1 .. Len(P) : \A j \in 1 .. Len(Q) : Limit(P[i]) < Q[j].base
    PROVE  /\ Canon(P \o Q)
           /\ \A x : InPool(P \o Q, x) <=> InPool(P, x) \/ InPool(Q, x)
<1> DEFINE s == P \o Q
           m == Len(P)
           n == Len(Q)
<1>1. /\ m \in Nat /\ n \in Nat /\ P \in Seq(PoolBlock) /\ Q \in Seq(PoolBlock)
      /\ \A i, j \in 1 .. m : i < j => Limit(P[i]) < P[j].base
      /\ \A i, j \in 1 .. n : i < j => Limit(Q[i]) < Q[j].base
      /\ \A i \in 1 .. m : Limit(P[i]) <= Top
      /\ \A i \in 1 .. n : Limit(Q[i]) <= Top
    BY CanonFacts
<1>2. /\ s \in Seq(PoolBlock) /\ Len(s) = m + n
      /\ \A i \in 1 .. m + n : s[i] = IF i <= m THEN P[i] ELSE Q[i - m]
    BY <1>1, ConcatProperties
<1> HIDE DEF s
<1>3. /\ \A i \in 1 .. m + n : i \in 1 .. m \/ i - m \in 1 .. n
      /\ \A i \in 1 .. m : i \in 1 .. m + n /\ s[i] = P[i]
    <2>1. \A i \in 1 .. m : i \in 1 .. m + n /\ i <= m
        BY <1>1
    <2> HIDE DEF m, n
    <2> QED
        BY <1>1, <1>2, <2>1
<1>4. \A i \in 1 .. n : i + m \in 1 .. m + n /\ s[i + m] = Q[i]
    <2>1. \A i \in 1 .. n : i + m \in 1 .. m + n /\ ~(i + m <= m) /\ (i + m) - m = i
        BY <1>1
    <2> HIDE DEF m, n
    <2> QED
        BY <1>2, <2>1
<1>5. \A i \in 1 .. m + n : \/ i \in 1 .. m /\ s[i] = P[i]
                            \/ ~(i <= m) /\ i - m \in 1 .. n /\ s[i] = Q[i - m]
    <2>1. \A i \in 1 .. m + n : i \in 1 .. m \/ (~(i <= m) /\ i - m \in 1 .. n)
        BY <1>1
    <2> HIDE DEF m, n
    <2> QED
        BY <1>2, <1>3, <2>1
<1>6. \A i \in 1 .. m + n : Limit(s[i]) <= Top
    <2> HIDE DEF m, n
    <2> QED
        BY <1>1, <1>5
<1>7. ASSUME NEW i \in 1 .. m + n, NEW j \in 1 .. m + n, i < j
      PROVE  Limit(s[i]) < s[j].base
    <2>1. CASE j \in 1 .. m /\ s[j] = P[j]
        <3>1. i <= m
            BY <1>1, <1>7, <2>1
        <3> HIDE DEF m, n
        <3> QED
            BY <1>1, <1>5, <1>7, <2>1, <3>1
    <2>2. CASE ~(j <= m) /\ j - m \in 1 .. n /\ s[j] = Q[j - m]
        <3>1. CASE i \in 1 .. m /\ s[i] = P[i]
            BY <2>2, <3>1
        <3>2. CASE ~(i <= m) /\ i - m \in 1 .. n /\ s[i] = Q[i - m]
            <4>1. i - m < j - m
                BY <1>1, <1>7
            <4> HIDE DEF m, n
            <4> QED
                BY <1>1, <2>2, <3>2, <4>1
        <3> QED
            BY <1>5, <3>1, <3>2
    <2> QED
        BY <1>5, <2>1, <2>2
<1>8. Canon(s)
    BY <1>2, <1>6, <1>7, CanonIf
<1>9. ASSUME NEW x
      PROVE  InPool(s, x) <=> InPool(P, x) \/ InPool(Q, x)
    <2> HIDE DEF m, n
    <2>1. ASSUME InPool(s, x)
          PROVE  InPool(P, x) \/ InPool(Q, x)
        <3>1. PICK i \in 1 .. m + n : Holds(s[i], x)
            BY <1>2, <2>1 DEF InPool
        <3> QED
            BY <1>5, <3>1 DEF InPool, m, n
    <2>2. ASSUME InPool(P, x)
          PROVE  InPool(s, x)
        BY <1>2, <1>3, <2>2 DEF InPool, m, n
    <2>3. ASSUME InPool(Q, x)
          PROVE  InPool(s, x)
        BY <1>2, <1>4, <2>3 DEF InPool, m, n
    <2> QED
        BY <2>1, <2>2, <2>3
<1> QED
    BY <1>8, <1>9 DEF s

\* The first k blocks.
LEMMA First ==
    ASSUME NEW P, Canon(P), NEW k \in 0 .. Len(P)
    PROVE  /\ Canon(SubSeq(P, 1, k)) /\ Len(SubSeq(P, 1, k)) = k
           /\ \A i \in 1 .. k : SubSeq(P, 1, k)[i] = P[i]
           /\ \A x : InPool(SubSeq(P, 1, k), x) <=> \E i \in 1 .. k : Holds(P[i], x)
<1> DEFINE s == SubSeq(P, 1, k)
<1>1. /\ k \in Nat /\ Len(P) \in Nat /\ \A i \in 1 .. k : i \in 1 .. Len(P) /\ P[i] \in PoolBlock
      /\ \A i \in 1 .. k : Limit(P[i]) <= Top
      /\ \A i, j \in 1 .. k : i < j => Limit(P[i]) < P[j].base
    <2>1. k \in Nat /\ Len(P) \in Nat /\ \A i \in 1 .. k : i \in 1 .. Len(P)
        BY CanonFacts
    <2> QED
        BY <2>1, CanonFacts
<1>2. /\ s \in Seq(PoolBlock) /\ Len(s) = IF 1 <= k THEN k - 1 + 1 ELSE 0
      /\ \A i \in 1 .. k - 1 + 1 : s[i] = P[1 + i - 1]
    BY <1>1, SubSeqProperties
<1> HIDE DEF s
<1>3. Len(s) = k /\ k - 1 + 1 = k /\ \A i \in 1 .. k : 1 + i - 1 = i
    BY <1>1, <1>2
<1>4. \A i \in 1 .. k : s[i] = P[i]
    BY <1>2, <1>3
<1>5. Canon(s)
    BY <1>1, <1>2, <1>3, <1>4, CanonIf
<1>6. \A x : InPool(s, x) <=> \E i \in 1 .. k : Holds(P[i], x)
    BY <1>3, <1>4 DEF InPool
<1> QED
    BY <1>3, <1>4, <1>5, <1>6 DEF s

\* The blocks from the k-th.
LEMMA Rest ==
    ASSUME NEW P, Canon(P), NEW k \in 1 .. Len(P) + 1
    PROVE  /\ Canon(SubSeq(P, k, Len(P))) /\ Len(SubSeq(P, k, Len(P))) = Len(P) + 1 - k
           /\ \A i \in 1 .. Len(P) + 1 - k :
                 k + i - 1 \in k .. Len(P) /\ SubSeq(P, k, Len(P))[i] = P[k + i - 1]
           /\ \A x : InPool(SubSeq(P, k, Len(P)), x) <=> \E i \in k .. Len(P) : Holds(P[i], x)
<1> DEFINE n == Len(P)
           s == SubSeq(P, k, n)
           l == n + 1 - k
<1>1. /\ k \in Nat /\ n \in Nat /\ k \in 1 .. n + 1 /\ \A i \in 1 .. n : P[i] \in PoolBlock
      /\ \A i \in 1 .. n : Limit(P[i]) <= Top
      /\ \A i, j \in 1 .. n : i < j => Limit(P[i]) < P[j].base
    <2>1. /\ n \in Nat /\ \A i \in 1 .. n : P[i] \in PoolBlock
          /\ \A i \in 1 .. n : Limit(P[i]) <= Top
          /\ \A i, j \in 1 .. n : i < j => Limit(P[i]) < P[j].base
        BY CanonFacts
    <2>2. k \in 1 .. n + 1
        OBVIOUS
    <2> HIDE DEF n
    <2>3. k \in Nat
        BY <2>1, <2>2
    <2> QED
        BY <2>1, <2>2, <2>3
<1>2. /\ \A i \in k .. n : i \in 1 .. n
      /\ l \in Nat /\ n - k + 1 = l /\ (k <= n \/ l = 0)
      /\ \A i \in 1 .. l : k + i - 1 \in k .. n
      /\ \A i, j \in 1 .. l : i < j => k + i - 1 < k + j - 1
      /\ \A i \in k .. n : i + 1 - k \in 1 .. l /\ k + (i + 1 - k) - 1 = i
    <2> HIDE DEF n
    <2> QED
        BY <1>1
<1> HIDE DEF n, l
<1>3. /\ s \in Seq(PoolBlock) /\ Len(s) = IF k <= n THEN n - k + 1 ELSE 0
      /\ \A i \in 1 .. n - k + 1 : s[i] = P[k + i - 1]
    <2>1. \A i \in k .. n : P[i] \in PoolBlock
        BY <1>1, <1>2
    <2> QED
        BY <1>1, <2>1, SubSeqProperties
<1> HIDE DEF s
<1>4. Len(s) = l /\ \A i \in 1 .. l : s[i] = P[k + i - 1]
    BY <1>2, <1>3
<1>5. Canon(s)
    <2>1. ASSUME NEW i \in 1 .. l, NEW j \in 1 .. l, i < j
          PROVE  Limit(s[i]) < s[j].base
        <3>1. k + i - 1 \in 1 .. n /\ k + j - 1 \in 1 .. n /\ k + i - 1 < k + j - 1
            BY <1>2, <2>1
        <3> QED
            BY <1>1, <1>4, <3>1
    <2>2. \A i \in 1 .. Len(s) : Limit(s[i]) <= Top
        BY <1>1, <1>2, <1>4
    <2> QED
        BY <1>3, <1>4, <2>1, <2>2, CanonIf
<1>6. ASSUME NEW x
      PROVE  InPool(s, x) <=> \E i \in k .. n : Holds(P[i], x)
    <2>1. ASSUME InPool(s, x)
          PROVE  \E i \in k .. n : Holds(P[i], x)
        BY <1>2, <1>4, <2>1 DEF InPool
    <2>2. ASSUME NEW i \in k .. n, Holds(P[i], x)
          PROVE  InPool(s, x)
        <3>1. i + 1 - k \in 1 .. l /\ s[i + 1 - k] = P[i]
            BY <1>2, <1>4
        <3> QED
            BY <1>4, <2>2, <3>1 DEF InPool
    <2> QED
        BY <2>1, <2>2
<1> QED
    BY <1>2, <1>4, <1>5, <1>6 DEF n, s, l

LEMMA Single ==
    ASSUME NEW b \in PoolBlock, Limit(b) <= Top
    PROVE  /\ Canon(<<b>>) /\ Len(<<b>>) = 1 /\ <<b>>[1] = b
           /\ \A x : InPool(<<b>>, x) <=> Holds(b, x)
<1>1. <<b>> \in Seq(PoolBlock) /\ Len(<<b>>) = 1 /\ <<b>>[1] = b /\ 1 .. 1 = {1}
    OBVIOUS
<1> DEFINE s == <<b>>
<1> HIDE DEF s
<1>2. Canon(s)
    <2>1. \A i \in 1 .. Len(s) : Limit(s[i]) <= Top
        BY <1>1 DEF s
    <2>2. \A i, j \in 1 .. Len(s) : ~(i < j)
        BY <1>1 DEF s
    <2> QED
        BY <1>1, <2>1, <2>2, CanonIf DEF s
<1> QED
    BY <1>1, <1>2 DEF InPool, s

LEMMA Empty == Canon(<<>>) /\ Len(<<>>) = 0 /\ \A x : ~InPool(<<>>, x)
<1>1. <<>> \in Seq(PoolBlock) /\ Len(<<>>) = 0 /\ 1 .. 0 = {}
    OBVIOUS
<1> DEFINE s == <<>>
<1> HIDE DEF s
<1>2. Canon(s)
    BY <1>1, CanonIf DEF s
<1> QED
    BY <1>1, <1>2 DEF InPool, s

-----------------------------------------------------------------------------
(* Giving a block back, and taking one. *)

Inside(x, a, e) == a <= x /\ x < e

LEMMA BlockFacts ==
    ASSUME NEW low \in Nat, NEW high \in Nat, low < high, high <= Top
    PROVE  /\ Block(low, high - low) \in PoolBlock /\ Limit(Block(low, high - low)) = high
           /\ Block(low, high - low).base = low
           /\ \A x : Holds(Block(low, high - low), x) <=> Inside(x, low, high)
<1> DEFINE b == Block(low, high - low)
<1>1. b.base = low /\ b.size = high - low /\ b = [base |-> low, size |-> high - low]
    BY DEF Block
<1>2. low \in 0 .. Top /\ high - low \in 1 .. Top /\ low + (high - low) = high
    BY PciAddressAssumption
<1>3. b \in PoolBlock
    BY <1>1, <1>2 DEF PoolBlock
<1> HIDE DEF b
<1>4. Limit(b) = high
    BY <1>1, <1>2 DEF Limit
<1> QED
    BY <1>1, <1>3, <1>4 DEF b, Holds, Inside

LEMMA Around ==
    ASSUME NEW n \in Nat, NEW e \in 1 .. n
    PROVE  /\ e - 1 \in 0 .. n
           /\ \A i \in 1 .. e - 1 : i \in 1 .. n /\ ~(e <= i)
           /\ \A i \in e - 1 + 1 .. n : i \in 1 .. n /\ (i = e \/ e < i)
    OBVIOUS

\* Where a block goes: behind the first p.
LEMMA Gap ==
    ASSUME NEW P, Canon(P), NEW base \in Nat, NEW above,
           above = {i \in DOMAIN P : base < P[i].base},
           NEW p, p = IF above = {} THEN Len(P) ELSE Earliest(above) - 1
    PROVE  /\ p \in 0 .. Len(P)
           /\ \A i \in 1 .. p : i \in 1 .. Len(P) /\ P[i].base <= base
           /\ \A i \in p + 1 .. Len(P) : i \in 1 .. Len(P) /\ base < P[i].base
<1>1. /\ Len(P) \in Nat /\ DOMAIN P = 1 .. Len(P)
      /\ \A i \in 1 .. Len(P) : P[i].base \in Nat /\ Limit(P[i]) \in Nat /\ P[i].base < Limit(P[i])
      /\ \A i, j \in 1 .. Len(P) : i < j => Limit(P[i]) < P[j].base
    BY CanonFacts
<1>2. CASE above = {}
    <2>1. \A i \in 1 .. Len(P) : P[i].base <= base
        BY <1>1, <1>2
    <2> QED
        BY <1>1, <1>2, <2>1
<1>3. CASE above # {}
    <2> DEFINE e == Earliest(above)
    <2>1. above \subseteq Nat
        BY <1>1
    <2>2. e \in above /\ \A j \in above : e <= j
        BY <1>3, <2>1, EarliestFacts
    <2> HIDE DEF e
    <2>3. e \in 1 .. Len(P) /\ base < P[e].base /\ p = e - 1
        BY <1>1, <1>3, <2>2 DEF e
    <2>4. p \in 0 .. Len(P) /\ (\A i \in 1 .. p : i \in 1 .. Len(P) /\ ~(e <= i))
          /\ \A i \in p + 1 .. Len(P) : i \in 1 .. Len(P) /\ (i = e \/ e < i)
        <3>1. /\ e - 1 \in 0 .. Len(P)
              /\ \A i \in 1 .. e - 1 : i \in 1 .. Len(P) /\ ~(e <= i)
              /\ \A i \in e - 1 + 1 .. Len(P) : i \in 1 .. Len(P) /\ (i = e \/ e < i)
            BY <1>1, <2>3, Around
        <3>2. p = e - 1
            BY <2>3
        <3> QED
            BY <3>1, <3>2, Zenon
    <2>5. ASSUME NEW i \in 1 .. p
          PROVE  P[i].base <= base
        <3>1. i \in 1 .. Len(P) /\ i \notin above
            BY <2>2, <2>4
        <3>2. ~(base < P[i].base) /\ P[i].base \in Nat
            BY <1>1, <3>1
        <3> QED
            BY <3>2
    <2>6. ASSUME NEW i \in p + 1 .. Len(P)
          PROVE  base < P[i].base
        <3>1. i \in 1 .. Len(P) /\ (i = e \/ e < i)
            BY <2>4
        <3>2. i = e \/ Limit(P[e]) < P[i].base
            BY <1>1, <2>3, <3>1
        <3>3. P[i].base \in Nat /\ P[e].base \in Nat /\ Limit(P[e]) \in Nat /\ P[e].base < Limit(P[e])
            BY <1>1, <2>3, <3>1
        <3> QED
            BY <2>3, <3>2, <3>3
    <2> QED
        BY <2>4, <2>5, <2>6
<1> QED
    BY <1>2, <1>3

LEMMA FreeEffect ==
    ASSUME NEW P, Canon(P), NEW base \in Nat, NEW size \in Nat, base + size <= Top, NEW mem,
           \A x \in Addresses : Inside(x, base, base + size) => ~InPool(P, x),
           NEW Q, Q = pci_free_block(P, base, size, mem)
    PROVE  /\ Canon(Q)
           /\ size = 0 \/ (~mem /\ ~InPool(P, base + size)) => Q = P
           /\ mem => \A x \in Addresses : InPool(Q, x) <=> InPool(P, x) \/ Inside(x, base, base + size)
           /\ \/ Q = P
              \/ \A x \in Addresses : InPool(Q, x) <=> InPool(P, x) \/ Inside(x, base, base + size)
<1> DEFINE n == Len(P)
           above == {i \in DOMAIN P : base < P[i].base}
           p == IF above = {} THEN Len(P) ELSE Earliest(above) - 1
           joinsPrev == p > 0 /\ Limit(P[p]) = base
           joinsNext == p < Len(P) /\ P[p + 1].base = base + size
           low == IF joinsPrev THEN P[p].base ELSE base
           high == IF joinsNext THEN Limit(P[p + 1]) ELSE base + size
           m == IF joinsPrev THEN p - 1 ELSE p
           k == IF joinsNext THEN p + 2 ELSE p + 1
           e == Block(low, high - low)
           U == SubSeq(P, 1, m) \o <<e>> \o SubSeq(P, k, n)
<1>0. Q = IF size = 0 \/ (~joinsNext /\ ~mem) THEN P ELSE U
    BY DEF pci_free_block, Before, JoinsPrev, JoinsNext, Inserted
<1>1. /\ n \in Nat /\ Top \in Nat /\ DOMAIN P = 1 .. n
      /\ \A i \in 1 .. n : /\ P[i].base \in Nat /\ Limit(P[i]) \in Nat
                           /\ P[i].base < Limit(P[i]) /\ Limit(P[i]) <= Top
      /\ \A i, j \in 1 .. n : i < j => Limit(P[i]) < P[j].base
    BY CanonFacts, PciAddressAssumption
<1>2. /\ p \in 0 .. n
      /\ \A i \in 1 .. p : i \in 1 .. n /\ P[i].base <= base
      /\ \A i \in p + 1 .. n : i \in 1 .. n /\ base < P[i].base
    <2> HIDE DEF p, above
    <2> QED
        BY Gap DEF p, above
<1> HIDE DEF p
<1>3. joinsNext => InPool(P, base + size)
    <2> SUFFICES ASSUME joinsNext
                 PROVE  InPool(P, base + size)
        OBVIOUS
    <2>1. p + 1 \in 1 .. n
        BY <1>1, <1>2
    <2>2. Holds(P[p + 1], base + size)
        BY <1>1, <2>1 DEF Holds
    <2> QED
        BY <2>1, <2>2 DEF InPool
<1>4. CASE size = 0
    <2>1. \A x \in Addresses : ~Inside(x, base, base + size)
        BY <1>1, <1>4 DEF Addresses, Inside
    <2> HIDE DEF U, joinsNext
    <2> QED
        BY <1>0, <1>4, <2>1
<1>5. CASE size > 0
    <2>1. \A i \in 1 .. p : i \in 1 .. n /\ Limit(P[i]) <= base
        <3>1. base \in Addresses /\ Inside(base, base, base + size)
            BY <1>1, <1>5 DEF Addresses, Inside
        <3>2. \A i \in 1 .. p : ~Holds(P[i], base)
            BY <1>2, <3>1 DEF InPool
        <3> QED
            BY <1>1, <1>2, <3>2 DEF Holds
    <2>2. ASSUME NEW i \in p + 1 .. n
          PROVE  i \in 1 .. n /\ base + size <= P[i].base
        <3> DEFINE x == P[i].base
        <3>1. i \in 1 .. n /\ base < x /\ x \in Nat /\ x \in Addresses
            BY <1>1, <1>2 DEF Addresses
        <3>2. Holds(P[i], x)
            BY <1>1, <3>1 DEF Holds
        <3>3. ~Inside(x, base, base + size)
            BY <3>1, <3>2 DEF InPool
        <3> QED
            BY <1>1, <3>1, <3>3 DEF Inside
    <2>3. /\ low \in Nat /\ low <= base /\ m \in 0 .. n /\ m <= p
          /\ \A i \in 1 .. m : i \in 1 .. n /\ Limit(P[i]) < low
          /\ \A x \in Nat : Inside(x, low, base) <=> joinsPrev /\ Holds(P[p], x)
          /\ \A i \in 1 .. p : i \in 1 .. m \/ (joinsPrev /\ i = p)
        <3>1. CASE joinsPrev
            <4>1. p \in 1 .. n /\ low = P[p].base /\ m = p - 1 /\ Limit(P[p]) = base /\ p \in 1 .. p
                BY <1>2, <3>1
            <4>2. m \in 0 .. n /\ m <= p /\ (\A i \in 1 .. m : i \in 1 .. n /\ i < p)
                  /\ \A i \in 1 .. p : i \in 1 .. m \/ i = p
                BY <1>1, <4>1
            <4>3. \A i \in 1 .. m : Limit(P[i]) < low
                BY <1>1, <4>1, <4>2
            <4>4. low \in Nat /\ low <= base
                BY <1>1, <4>1
            <4> QED
                BY <3>1, <4>1, <4>2, <4>3, <4>4 DEF Inside, Holds
        <3>2. CASE ~joinsPrev
            <4>1. low = base /\ m = p /\ (p > 0 => Limit(P[p]) # base)
                BY <3>2
            <4>2. ASSUME NEW i \in 1 .. m
                  PROVE  i \in 1 .. n /\ Limit(P[i]) < low
                <5>1. i \in 1 .. n /\ p \in 1 .. n /\ p > 0 /\ (i = p \/ i < p) /\ i \in 1 .. p /\ p \in 1 .. p
                    BY <1>1, <1>2, <4>1
                <5>2. Limit(P[p]) < base /\ P[p].base < base
                    BY <1>1, <2>1, <4>1, <5>1
                <5> QED
                    BY <1>1, <4>1, <5>1, <5>2
            <4>3. \A x \in Nat : ~Inside(x, low, base)
                BY <4>1 DEF Inside
            <4> QED
                BY <1>2, <3>2, <4>1, <4>2, <4>3
        <3> QED
            BY <3>1, <3>2
    <2>4. /\ high \in Nat /\ base + size <= high /\ high <= Top /\ k \in 1 .. n + 1 /\ k >= p + 1
          /\ \A i \in k .. n : i \in 1 .. n /\ high < P[i].base
          /\ \A x \in Nat : Inside(x, base + size, high) <=> joinsNext /\ Holds(P[p + 1], x)
          /\ \A i \in p + 1 .. n : i \in k .. n \/ (joinsNext /\ i = p + 1)
        <3>1. CASE joinsNext
            <4>1. /\ p + 1 \in 1 .. n /\ high = Limit(P[p + 1]) /\ k = p + 2
                  /\ P[p + 1].base = base + size
                BY <1>2, <3>1
            <4>2. k \in 1 .. n + 1 /\ k >= p + 1 /\ (\A i \in k .. n : i \in 1 .. n /\ p + 1 < i)
                  /\ \A i \in p + 1 .. n : i \in k .. n \/ i = p + 1
                BY <1>1, <1>2, <4>1
            <4>3. \A i \in k .. n : high < P[i].base
                BY <1>1, <4>1, <4>2
            <4>4. high \in Nat /\ base + size <= high /\ high <= Top
                BY <1>1, <4>1
            <4> QED
                BY <3>1, <4>1, <4>2, <4>3, <4>4 DEF Inside, Holds
        <3>2. CASE ~joinsNext
            <4>1. high = base + size /\ k = p + 1 /\ (p < n => P[p + 1].base # base + size)
                BY <3>2
            <4>2. ASSUME NEW i \in k .. n
                  PROVE  i \in 1 .. n /\ high < P[i].base
                <5>1. i \in 1 .. n /\ p + 1 \in 1 .. n /\ p < n /\ (i = p + 1 \/ p + 1 < i) /\ p + 1 \in p + 1 .. n
                    BY <1>1, <1>2, <4>1
                <5>2. base + size < P[p + 1].base
                    <6>1. base + size <= P[p + 1].base
                        BY <2>2, <5>1
                    <6>2. P[p + 1].base # base + size
                        BY <4>1, <5>1
                    <6>3. P[p + 1].base \in Nat
                        BY <1>1, <5>1
                    <6> QED
                        BY <6>1, <6>2, <6>3
                <5>3. i = p + 1 \/ Limit(P[p + 1]) < P[i].base
                    BY <1>1, <5>1
                <5>4. /\ P[i].base \in Nat /\ P[p + 1].base \in Nat /\ Limit(P[p + 1]) \in Nat
                      /\ P[p + 1].base < Limit(P[p + 1])
                    BY <1>1, <5>1
                <5> QED
                    BY <4>1, <5>1, <5>2, <5>3, <5>4
            <4>3. \A x \in Nat : ~Inside(x, base + size, high)
                BY <4>1 DEF Inside
            <4>4. k \in 1 .. n + 1 /\ k >= p + 1
                BY <1>1, <1>2, <4>1
            <4> QED
                BY <3>2, <4>1, <4>2, <4>3, <4>4
        <3> QED
            BY <3>1, <3>2
    <2> HIDE DEF low, high, m, k
    <2>5. low < high /\ e \in PoolBlock /\ Limit(e) = high /\ e.base = low
          /\ \A x : Holds(e, x) <=> Inside(x, low, high)
        <3>1. low < high
            BY <1>5, <2>3, <2>4
        <3> QED
            BY <2>3, <2>4, <3>1, BlockFacts
    <2>6. \A x \in Nat :
             Holds(e, x) <=> \/ Inside(x, base, base + size)
                             \/ joinsPrev /\ Holds(P[p], x)
                             \/ joinsNext /\ Holds(P[p + 1], x)
        <3>1. \A x \in Nat : Inside(x, low, high) <=>
                  Inside(x, low, base) \/ Inside(x, base, base + size) \/ Inside(x, base + size, high)
            BY <1>5, <2>3, <2>4 DEF Inside
        <3> HIDE DEF joinsPrev, joinsNext, e
        <3> QED
            BY <2>3, <2>4, <2>5, <3>1
    <2> HIDE DEF e
    <2> DEFINE A == SubSeq(P, 1, m)
               C == SubSeq(P, k, n)
               AE == A \o <<e>>
    <2>7. /\ Canon(A) /\ Len(A) = m /\ (\A i \in 1 .. m : A[i] = P[i])
          /\ \A x : InPool(A, x) <=> \E i \in 1 .. m : Holds(P[i], x)
        BY <2>3, First
    <2>8. /\ Canon(C) /\ Len(C) = n + 1 - k
          /\ (\A i \in 1 .. n + 1 - k : k + i - 1 \in k .. n /\ C[i] = P[k + i - 1])
          /\ \A x : InPool(C, x) <=> \E i \in k .. n : Holds(P[i], x)
        BY <2>4, Rest
    <2>9. Canon(<<e>>) /\ Len(<<e>>) = 1 /\ <<e>>[1] = e /\ \A x : InPool(<<e>>, x) <=> Holds(e, x)
        BY <2>4, <2>5, Single
    <2>10. Canon(AE) /\ \A x : InPool(AE, x) <=> InPool(A, x) \/ Holds(e, x)
        <3> HIDE DEF A
        <3>1. \A i \in 1 .. Len(A) : \A j \in 1 .. Len(<<e>>) : Limit(A[i]) < <<e>>[j].base
            BY <2>3, <2>5, <2>7, <2>9
        <3> QED
            BY <2>7, <2>9, <3>1, Joined
    <2>11. Canon(U) /\ \A x : InPool(U, x) <=> InPool(AE, x) \/ InPool(C, x)
        <3>1. U = AE \o C
            OBVIOUS
        <3> HIDE DEF U, AE, A, C
        <3>2. \A i \in 1 .. Len(AE) : Limit(AE[i]) <= high
            <4>1. Len(AE) = m + 1 /\ m \in Nat /\ \A i \in 1 .. m + 1 : AE[i] = IF i <= m THEN A[i] ELSE <<e>>[i - m]
                <5>1. A \in Seq(PoolBlock) /\ <<e>> \in Seq(PoolBlock)
                    BY <2>7, <2>9, CanonFacts
                <5> QED
                    BY <2>3, <2>7, <2>9, <5>1, ConcatProperties DEF AE
            <4>2. \A i \in 1 .. m + 1 : i \in 1 .. m \/ (i = m + 1 /\ ~(i <= m) /\ i - m = 1)
                BY <4>1
            <4>3. \A i \in 1 .. m : i <= m /\ i \in 1 .. m + 1
                BY <4>1
            <4>4. \A i \in 1 .. m : AE[i] = P[i]
                BY <2>7, <4>1, <4>3
            <4>5. m + 1 \in 1 .. m + 1 /\ AE[m + 1] = e
                BY <2>9, <4>1, <4>2
            <4>6. \A i \in 1 .. m : Limit(P[i]) <= high
                BY <1>1, <2>3, <2>4, <2>5
            <4> QED
                BY <2>5, <4>1, <4>2, <4>4, <4>5, <4>6, <2>4
        <3>3. \A j \in 1 .. Len(C) : high < C[j].base
            BY <2>4, <2>8
        <3>4. \A i \in 1 .. Len(AE) : Limit(AE[i]) \in Nat
            BY <2>10, CanonFacts
        <3>5. \A j \in 1 .. Len(C) : C[j].base \in Nat
            BY <2>8, CanonFacts
        <3>6. \A i \in 1 .. Len(AE) : \A j \in 1 .. Len(C) : Limit(AE[i]) < C[j].base
            BY <2>4, <3>2, <3>3, <3>4, <3>5
        <3> QED
            BY <2>8, <2>10, <3>1, <3>6, Joined
    <2>12. ASSUME NEW x \in Addresses
           PROVE  InPool(U, x) <=> InPool(P, x) \/ Inside(x, base, base + size)
        <3> HIDE DEF U, AE, A, C, joinsPrev, joinsNext
        <3>0. x \in Nat
            BY <1>1 DEF Addresses
        <3>1. InPool(U, x) <=> \/ \E i \in 1 .. m : Holds(P[i], x)
                               \/ Inside(x, base, base + size)
                               \/ joinsPrev /\ Holds(P[p], x)
                               \/ joinsNext /\ Holds(P[p + 1], x)
                               \/ \E i \in k .. n : Holds(P[i], x)
            BY <2>6, <2>7, <2>8, <2>10, <2>11, <3>0
        <3>2. joinsPrev => p \in 1 .. n
            BY <1>2 DEF joinsPrev
        <3>3. joinsNext => p + 1 \in 1 .. n
            BY <1>1, <1>2 DEF joinsNext
        <3>4. \A i \in 1 .. n : i \in 1 .. p \/ i \in p + 1 .. n
            BY <1>1, <1>2
        <3>5. \A i \in 1 .. n : i \in 1 .. m \/ (joinsPrev /\ i = p) \/ i \in k .. n \/ (joinsNext /\ i = p + 1)
            BY <2>3, <2>4, <3>4
        <3> HIDE DEF n
        <3>6. InPool(P, x) <=> \E i \in 1 .. n : Holds(P[i], x)
            BY DEF InPool, n
        <3> QED
            BY <2>3, <2>4, <3>1, <3>2, <3>3, <3>5, <3>6
    <2> HIDE DEF U, joinsNext
    <2>13. size # 0
        BY <1>5
    <2> QED
        BY <1>0, <1>3, <2>11, <2>12, <2>13
<1> QED
    BY <1>4, <1>5

\* The k-th block taken out.
LEMMA WithoutEffect ==
    ASSUME NEW P, Canon(P), NEW k \in 1 .. Len(P)
    PROVE  /\ Canon(Without(P, k))
           /\ \A x \in Addresses : InPool(Without(P, k), x) <=> InPool(P, x) /\ ~Holds(P[k], x)
<1> DEFINE n == Len(P)
           A == SubSeq(P, 1, k - 1)
           C == SubSeq(P, k + 1, n)
<1>0. Without(P, k) = A \o C
    BY DEF Without, RemoveAt
<1>1. /\ n \in Nat /\ k \in 1 .. n /\ Top \in Nat
      /\ \A i \in 1 .. n : /\ P[i].base \in Nat /\ Limit(P[i]) \in Nat
                           /\ P[i].base < Limit(P[i]) /\ Limit(P[i]) <= Top
      /\ \A i, j \in 1 .. n : i < j => Limit(P[i]) < P[j].base
    BY CanonFacts, PciAddressAssumption
<1> HIDE DEF n
<1>2. /\ k - 1 \in 0 .. n /\ k + 1 \in 1 .. n + 1
      /\ \A i \in 1 .. k - 1 : i \in 1 .. n /\ i < k
      /\ \A i \in k + 1 .. n : i \in 1 .. n /\ k < i
      /\ \A i \in 1 .. n : i = k \/ i \in 1 .. k - 1 \/ i \in k + 1 .. n
    BY <1>1
<1>3. /\ Canon(A) /\ Len(A) = k - 1 /\ (\A i \in 1 .. k - 1 : A[i] = P[i])
      /\ \A x : InPool(A, x) <=> \E i \in 1 .. k - 1 : Holds(P[i], x)
    BY <1>2, First DEF n
<1>4. /\ Canon(C) /\ Len(C) = n + 1 - (k + 1)
      /\ (\A i \in 1 .. n + 1 - (k + 1) : (k + 1) + i - 1 \in k + 1 .. n /\ C[i] = P[(k + 1) + i - 1])
      /\ \A x : InPool(C, x) <=> \E i \in k + 1 .. n : Holds(P[i], x)
    BY <1>2, Rest DEF n
<1> HIDE DEF A, C
<1>5. Canon(A \o C) /\ \A x : InPool(A \o C, x) <=> InPool(A, x) \/ InPool(C, x)
    <2>1. ASSUME NEW i \in 1 .. Len(A), NEW j \in 1 .. Len(C)
          PROVE  Limit(A[i]) < C[j].base
        <3>1. /\ i \in 1 .. n /\ A[i] = P[i] /\ i < k
            BY <1>2, <1>3
        <3>2. (k + 1) + j - 1 \in 1 .. n /\ C[j] = P[(k + 1) + j - 1] /\ k < (k + 1) + j - 1
            BY <1>2, <1>4
        <3>3. i < (k + 1) + j - 1
            BY <1>1, <3>1, <3>2
        <3> QED
            BY <1>1, <3>1, <3>2, <3>3
    <2> QED
        BY <1>3, <1>4, <2>1, Joined
<1>6. ASSUME NEW x \in Addresses
      PROVE  InPool(A \o C, x) <=> InPool(P, x) /\ ~Holds(P[k], x)
    <2>0. x \in Nat
        BY <1>1 DEF Addresses
    <2>1. ASSUME NEW i \in 1 .. n, i # k, Holds(P[i], x)
          PROVE  ~Holds(P[k], x)
        <3>1. i < k \/ k < i
            BY <1>1, <2>1
        <3>2. Limit(P[i]) < P[k].base \/ Limit(P[k]) < P[i].base
            BY <1>1, <3>1
        <3> QED
            BY <1>1, <2>0, <2>1, <3>2 DEF Holds
    <2>2. \A i \in 1 .. k - 1 : i # k /\ i \in 1 .. n
        BY <1>1, <1>2
    <2>3. \A i \in k + 1 .. n : i # k /\ i \in 1 .. n
        BY <1>1, <1>2
    <2>4. InPool(P, x) <=> \E i \in 1 .. n : Holds(P[i], x)
        BY DEF InPool, n
    <2> QED
        BY <1>2, <1>3, <1>4, <1>5, <2>1, <2>2, <2>3, <2>4
<1> QED
    BY <1>0, <1>5, <1>6

-----------------------------------------------------------------------------
(* Multiples. *)

LEMMA Floor ==
    ASSUME NEW a \in Nat, NEW g \in Nat \ {0}
    PROVE  /\ (a \div g) * g \in Nat /\ (a \div g) * g <= a /\ a < (a \div g) * g + g
           /\ ((a \div g) * g) % g = 0
           /\ \A m \in Nat : m % g = 0 /\ m <= a => m <= (a \div g) * g
<1> DEFINE q == a \div g
           r == a % g
<1>1. a = g * q + r /\ q \in Nat /\ r \in 0 .. g - 1
    OBVIOUS
<1>2. (g * q) % g = 0 /\ g * q = q * g
    <2> HIDE DEF q
    <2> QED
        BY <1>1
<1>3. ASSUME NEW m \in Nat, m % g = 0, m <= a
      PROVE  m <= g * q
    <2> DEFINE k == m \div g
    <2>1. m = g * k /\ k \in Nat
        BY <1>3
    <2> HIDE DEF k, q, r
    <2>2. k <= q
        <3> SUFFICES ASSUME q + 1 <= k
                     PROVE  FALSE
            BY <1>1, <2>1
        <3>1. g * (q + 1) <= g * k
            BY <1>1, <2>1
        <3>2. g * (q + 1) = g * q + g
            BY <1>1
        <3> QED
            BY <1>1, <1>3, <2>1, <3>1, <3>2
    <2> QED
        BY <1>1, <2>1, <2>2
<1> HIDE DEF q, r
<1>4. g * q \in Nat
    BY <1>1
<1>5. g * q <= a /\ a < g * q + g
    BY <1>1, <1>4
<1> QED
    BY <1>2, <1>3, <1>4, <1>5 DEF q

LEMMA Multiples ==
    ASSUME NEW g \in Nat \ {0}, NEW x \in Nat, NEW y \in Nat, x % g = 0, y % g = 0
    PROVE  /\ (x + y) % g = 0
           /\ x <= y => (y - x) % g = 0
           /\ x < y => x + g <= y
<1> DEFINE p == x \div g
           q == y \div g
<1>1. x = g * p /\ y = g * q /\ p \in Nat /\ q \in Nat
    OBVIOUS
<1> HIDE DEF p, q
<1>2. (x + y) % g = 0
    <2>1. x + y = g * (p + q)
        BY <1>1
    <2>2. (g * (p + q)) % g = 0
        BY <1>1
    <2> QED
        BY <2>1, <2>2
<1>3. ASSUME x <= y
      PROVE  (y - x) % g = 0
    <2>1. y - x = g * (q - p) /\ q - p \in Int
        BY <1>1
    <2>2. (g * (q - p)) % g = 0
        BY <1>1
    <2> QED
        BY <2>1, <2>2
<1>4. ASSUME x < y
      PROVE  x + g <= y
    <2>1. p < q
        <3> SUFFICES ASSUME q <= p
                     PROVE  FALSE
            BY <1>1
        <3>1. g * q <= g * p
            BY <1>1
        <3> QED
            BY <1>1, <1>4, <3>1
    <2>2. g * (p + 1) <= g * q
        BY <1>1, <2>1
    <2>3. g * (p + 1) = g * p + g
        BY <1>1
    <2> QED
        BY <1>1, <2>2, <2>3
<1> QED
    BY <1>2, <1>3, <1>4

LEMMA Rounded ==
    ASSUME NEW a \in Nat, NEW g \in Nat \ {0}
    PROVE  /\ RoundUp(a, g) \in Nat /\ a <= RoundUp(a, g) /\ RoundUp(a, g) < a + g
           /\ RoundUp(a, g) % g = 0
           /\ \A m \in Nat : m % g = 0 /\ a <= m => RoundUp(a, g) <= m
           /\ a % g = 0 => RoundUp(a, g) = a
<1> DEFINE u == a + g - 1
           f == (u \div g) * g
<1>1. u \in Nat
    OBVIOUS
<1> HIDE DEF u
<1>2. f \in Nat /\ f <= u /\ u < f + g /\ f % g = 0 /\ \A m \in Nat : m % g = 0 /\ m <= u => m <= f
    BY <1>1, Floor
<1>3. RoundUp(a, g) = f
    BY DEF RoundUp, u
<1> HIDE DEF f
<1>4. a <= f /\ f < a + g
    BY <1>2 DEF u
<1>5. ASSUME NEW m \in Nat, m % g = 0, a <= m
      PROVE  f <= m
    <2>1. m < f => m + g <= f
        BY <1>2, <1>5, Multiples
    <2> QED
        BY <1>2, <1>4, <1>5, <2>1
<1>6. ASSUME a % g = 0
      PROVE  f = a
    <2>1. f <= a
        BY <1>5, <1>6
    <2> QED
        BY <1>2, <1>4, <2>1
<1> QED
    BY <1>2, <1>3, <1>4, <1>5, <1>6

\* Rounding up a span that starts with a multiple.
LEMMA RoundedSpan ==
    ASSUME NEW g \in Nat \ {0}, NEW a \in Nat, a % g = 0, NEW n \in Nat
    PROVE  /\ RoundUp(n, g) \in Nat /\ n <= RoundUp(n, g) /\ RoundUp(n, g) % g = 0
           /\ (a + RoundUp(n, g)) % g = 0
           /\ \A m \in Nat : m % g = 0 /\ a + n <= m => a + RoundUp(n, g) <= m
<1> DEFINE u == RoundUp(n, g)
<1>1. u \in Nat /\ n <= u /\ u < n + g /\ u % g = 0
    BY Rounded
<1> HIDE DEF u
<1>2. (a + u) % g = 0 /\ a + u \in Nat
    <2>1. (a + u) % g = 0
        BY ONLY <1>1, Multiples, g \in Nat \ {0}, a \in Nat, a % g = 0
    <2> QED
        BY <1>1, <2>1
<1>3. ASSUME NEW m \in Nat, m % g = 0, a + n <= m
      PROVE  a + u <= m
    <2>1. m < a + u => m + g <= a + u
        BY <1>2, <1>3, Multiples
    <2> QED
        BY <1>1, <1>2, <1>3, <2>1
<1> QED
    BY <1>1, <1>2, <1>3 DEF u

\* A multiple of a multiple.
LEMMA MultipleOf ==
    ASSUME NEW g \in Nat \ {0}, NEW h \in Nat \ {0}, h % g = 0, NEW x \in Nat, x % h = 0
    PROVE  x % g = 0
<1> DEFINE p == h \div g
           q == x \div h
<1>1. h = g * p /\ x = h * q /\ p \in Nat /\ q \in Nat
    OBVIOUS
<1> HIDE DEF p, q
<1>2. x = g * (p * q) /\ p * q \in Nat
    <2>1. x = (g * p) * q
        BY <1>1
    <2>2. (g * p) * q = g * (p * q) /\ p * q \in Nat
        BY <1>1
    <2> QED
        BY <2>1, <2>2
<1> DEFINE n == p * q
<1>3. x = g * n /\ n \in Nat
    BY <1>2
<1> HIDE DEF n
<1> QED
    BY <1>3

-----------------------------------------------------------------------------
(* Taking addresses from a pool. *)

\* Q is P without the addresses from s to s + size.  When memory runs out, the
\* block they are in is lost.
Lost(P, Q, lo, hi) ==
    /\ ~InPool(P, hi) /\ (lo = 0 \/ ~InPool(P, lo - 1))
    /\ \A x \in Addresses : Inside(x, lo, hi) => InPool(P, x)
    /\ \A x \in Addresses : InPool(Q, x) <=> InPool(P, x) /\ ~Inside(x, lo, hi)

Taken(P, Q, s, size, mem) ==
    /\ Canon(Q) /\ s \in Nat /\ s + size <= Top
    /\ \A x \in Addresses : Inside(x, s, s + size) => InPool(P, x)
    /\ \A x \in Addresses : InPool(Q, x) => InPool(P, x) /\ ~Inside(x, s, s + size)
    /\ mem => \A x \in Addresses : InPool(P, x) /\ ~Inside(x, s, s + size) => InPool(Q, x)
    /\ ~mem => \E lo, hi \in Addresses : lo <= s /\ s + size <= hi /\ Lost(P, Q, lo, hi)

\* A block is as large as can be.
LEMMA BlockEdges ==
    ASSUME NEW P, Canon(P), NEW k \in 1 .. Len(P)
    PROVE  /\ P[k].base \in Nat /\ Limit(P[k]) \in Nat /\ P[k].base < Limit(P[k]) /\ Limit(P[k]) <= Top
           /\ ~InPool(P, Limit(P[k]))
           /\ P[k].base = 0 \/ ~InPool(P, P[k].base - 1)
           /\ \A x \in Addresses : Inside(x, P[k].base, Limit(P[k])) <=> Holds(P[k], x)
           /\ \A x \in Addresses : Holds(P[k], x) => InPool(P, x)
<1> DEFINE n == Len(P)
           b == P[k].base
           e == Limit(P[k])
<1>1. /\ n \in Nat /\ b \in Nat /\ e \in Nat /\ b < e /\ e <= Top
      /\ \A i \in 1 .. n : P[i].base \in Nat /\ Limit(P[i]) \in Nat /\ P[i].base < Limit(P[i])
      /\ \A i \in 1 .. n : i < k => Limit(P[i]) < b
      /\ \A i \in 1 .. n : k < i => e < P[i].base
    BY CanonFacts
<1>2. ASSUME NEW i \in 1 .. n
      PROVE  i < k \/ k < i \/ i = k
    BY <1>1
<1> HIDE DEF n, b, e
<1>3. \A i \in 1 .. n : ~Holds(P[i], e)
    <2> SUFFICES ASSUME NEW i \in 1 .. n
                 PROVE  ~(P[i].base <= e /\ e < Limit(P[i]))
        BY DEF Holds
    <2>1. CASE i < k
        BY <1>1, <2>1
    <2>2. CASE k < i
        BY <1>1, <2>2
    <2>3. CASE i = k
        BY <1>1, <2>3 DEF e
    <2> QED
        BY <1>2, <2>1, <2>2, <2>3
<1>4. b # 0 => \A i \in 1 .. n : ~Holds(P[i], b - 1)
    <2> SUFFICES ASSUME b # 0, NEW i \in 1 .. n
                 PROVE  ~(P[i].base <= b - 1 /\ b - 1 < Limit(P[i]))
        BY DEF Holds
    <2>1. CASE i < k
        BY <1>1, <2>1
    <2>2. CASE k < i
        BY <1>1, <2>2
    <2>3. CASE i = k
        BY <1>1, <2>3 DEF b
    <2> QED
        BY <1>2, <2>1, <2>2, <2>3
<1> QED
    BY <1>1, <1>3, <1>4 DEF InPool, Inside, Holds, n, b, e

LEMMA Carve ==
    ASSUME NEW P, Canon(P), NEW k \in 1 .. Len(P), NEW mem,
           NEW s \in Nat, NEW size \in Nat \ {0}, P[k].base <= s, s + size <= Limit(P[k]),
           NEW lead, lead = pci_free_block(Without(P, k), P[k].base, s - P[k].base, mem),
           NEW Q, Q = pci_free_block(lead, s + size, Limit(P[k]) - (s + size), mem)
    PROVE  Taken(P, Q, s, size, mem)
<1> DEFINE W == Without(P, k)
           b == P[k].base
           e == Limit(P[k])
           t == s + size
<1>1. /\ b \in Nat /\ e \in Nat /\ b < e /\ e <= Top /\ ~InPool(P, e)
      /\ b = 0 \/ ~InPool(P, b - 1)
      /\ \A x \in Addresses : Inside(x, b, e) <=> Holds(P[k], x)
      /\ \A x \in Addresses : Inside(x, b, e) => InPool(P, x)
    BY BlockEdges
<1>2. Canon(W) /\ \A x \in Addresses : InPool(W, x) <=> InPool(P, x) /\ ~Inside(x, b, e)
    BY <1>1, WithoutEffect
<1>3. /\ b <= s /\ s < t /\ t <= e /\ s <= e /\ t \in Nat /\ s - b \in Nat /\ e - t \in Nat
      /\ b + (s - b) = s /\ t + (e - t) = e /\ s <= Top /\ t <= Top /\ Top \in Nat
      /\ s \in Addresses /\ e \in Addresses /\ b \in Addresses
    <2>0. P[k].base <= s /\ s + size <= Limit(P[k])
        OBVIOUS
    <2>1. b <= s /\ t <= e
        BY <2>0
    <2>2. b \in Nat /\ e \in Nat /\ e <= Top /\ Top \in Nat
        BY <1>1, PciAddressAssumption
    <2> HIDE DEF b, e
    <2>3. s < t /\ t \in Nat
        OBVIOUS
    <2> HIDE DEF t
    <2>4. s \in 0 .. Top /\ e \in 0 .. Top /\ b \in 0 .. Top
        BY <2>1, <2>2, <2>3
    <2>5. /\ s - b \in Nat /\ e - t \in Nat
          /\ b + (s - b) = s /\ t + (e - t) = e /\ s <= Top /\ t <= Top /\ s <= e
        BY <2>1, <2>2, <2>3
    <2> QED
        BY <2>1, <2>2, <2>3, <2>4, <2>5 DEF Addresses
<1>0. /\ lead = pci_free_block(W, b, s - b, mem)
      /\ Q = pci_free_block(lead, t, e - t, mem)
    OBVIOUS
<1> HIDE DEF W, b, e, t
<1>4. \A x \in Addresses : x \in Nat
    BY <1>3 DEF Addresses
<1>5. /\ Canon(lead)
      /\ ~mem => lead = W
      /\ mem => \A x \in Addresses : InPool(lead, x) <=> InPool(W, x) \/ Inside(x, b, s)
      /\ \A x \in Addresses : InPool(lead, x) => InPool(W, x) \/ Inside(x, b, s)
    <2>0. ASSUME NEW x \in Addresses, Inside(x, b, s)
          PROVE  Inside(x, b, e)
        <3>1. x \in Nat /\ e \in Nat /\ b <= x /\ x < s /\ s <= e
            BY <1>1, <1>3, <1>4, <2>0 DEF Inside
        <3> QED
            BY <3>1 DEF Inside
    <2>1. \A x \in Addresses : Inside(x, b, b + (s - b)) => ~InPool(W, x)
        BY <1>2, <1>3, <2>0
    <2>2. ~InPool(W, b + (s - b))
        BY <1>1, <1>2, <1>3 DEF Inside
    <2>3. /\ Canon(lead)
          /\ s - b = 0 \/ (~mem /\ ~InPool(W, b + (s - b))) => lead = W
          /\ mem => \A x \in Addresses : InPool(lead, x) <=> InPool(W, x) \/ Inside(x, b, b + (s - b))
          /\ \/ lead = W
             \/ \A x \in Addresses : InPool(lead, x) <=> InPool(W, x) \/ Inside(x, b, b + (s - b))
        BY <1>0, <1>1, <1>2, <1>3, <2>1, FreeEffect
    <2> QED
        BY <1>3, <2>2, <2>3
<1>6. /\ Canon(Q)
      /\ ~mem => Q = lead
      /\ mem => \A x \in Addresses : InPool(Q, x) <=> InPool(lead, x) \/ Inside(x, t, e)
      /\ \A x \in Addresses : InPool(Q, x) => InPool(lead, x) \/ Inside(x, t, e)
    <2>1. \A x \in Addresses : Inside(x, t, t + (e - t)) => ~InPool(lead, x)
        BY <1>2, <1>3, <1>4, <1>5, <1>1 DEF Inside
    <2>2. ~mem => ~InPool(lead, t + (e - t))
        BY <1>1, <1>2, <1>3, <1>5
    <2>3. /\ Canon(Q)
          /\ e - t = 0 \/ (~mem /\ ~InPool(lead, t + (e - t))) => Q = lead
          /\ mem => \A x \in Addresses : InPool(Q, x) <=> InPool(lead, x) \/ Inside(x, t, t + (e - t))
          /\ \/ Q = lead
             \/ \A x \in Addresses : InPool(Q, x) <=> InPool(lead, x) \/ Inside(x, t, t + (e - t))
        <3> DEFINE z == e - t
        <3>1. z \in Nat /\ t \in Nat /\ t + z <= Top /\ Canon(lead) /\ Q = pci_free_block(lead, t, z, mem)
            BY <1>0, <1>1, <1>3, <1>5
        <3>2. \A x \in Addresses : Inside(x, t, t + z) => ~InPool(lead, x)
            BY <2>1
        <3> HIDE DEF z
        <3>3. /\ Canon(Q)
              /\ z = 0 \/ (~mem /\ ~InPool(lead, t + z)) => Q = lead
              /\ mem => \A x \in Addresses : InPool(Q, x) <=> InPool(lead, x) \/ Inside(x, t, t + z)
              /\ \/ Q = lead
                 \/ \A x \in Addresses : InPool(Q, x) <=> InPool(lead, x) \/ Inside(x, t, t + z)
            BY <3>1, <3>2, FreeEffect
        <3> QED
            BY <3>3 DEF z
    <2> QED
        BY <1>3, <2>2, <2>3
<1>7. ASSUME NEW x \in Addresses, Inside(x, s, t)
      PROVE  InPool(P, x)
    <2>1. x \in Nat /\ e \in Nat /\ s <= x /\ x < t /\ t <= e /\ b <= s /\ b \in Nat /\ t \in Nat
        BY <1>1, <1>3, <1>4, <1>7 DEF Inside
    <2>2. b <= x /\ x < e
        BY <2>1
    <2> QED
        BY <1>1, <2>2 DEF Inside
<1>8. \A x \in Addresses : InPool(Q, x) => InPool(P, x) /\ ~Inside(x, s, t)
    <2>1. \A x \in Addresses : InPool(Q, x) => (InPool(P, x) /\ ~Inside(x, b, e)) \/ Inside(x, b, s) \/ Inside(x, t, e)
        BY <1>2, <1>5, <1>6
    <2>2. \A x \in Addresses : Inside(x, b, s) \/ Inside(x, t, e) => Inside(x, b, e) /\ ~Inside(x, s, t)
        BY <1>1, <1>3, <1>4 DEF Inside
    <2>3. \A x \in Addresses : Inside(x, s, t) => Inside(x, b, e)
        BY <1>1, <1>3, <1>4 DEF Inside
    <2> QED
        BY <1>1, <2>1, <2>2, <2>3
<1>9. ASSUME mem
      PROVE  \A x \in Addresses : InPool(P, x) /\ ~Inside(x, s, t) => InPool(Q, x)
    <2>1. \A x \in Addresses : ~Inside(x, s, t) /\ Inside(x, b, e) => Inside(x, b, s) \/ Inside(x, t, e)
        BY <1>1, <1>3, <1>4 DEF Inside
    <2> QED
        BY <1>2, <1>5, <1>6, <1>9, <2>1
<1>10. ASSUME ~mem
       PROVE  Lost(P, Q, b, e)
    <2>1. Q = W
        BY <1>5, <1>6, <1>10
    <2> QED
        BY <1>1, <1>2, <2>1 DEF Lost
<1> QED
    <2>1. ~mem => \E lo, hi \in Addresses : lo <= s /\ t <= hi /\ Lost(P, Q, lo, hi)
        BY <1>3, <1>10
    <2> QED
        BY <1>3, <1>6, <1>7, <1>8, <1>9, <2>1 DEF Taken, t

\* The first block that fits.
LEMMA AllocEffect ==
    ASSUME NEW P, Canon(P), NEW size \in Nat \ {0}, NEW align \in Nat \ {0},
           NEW min \in Nat, NEW mask \in Nat, NEW mem, NEW r,
           r = pci_allocate_block(P, size, align, min, mask, mem)
    PROVE  /\ r.ok \in BOOLEAN
           /\ ~r.ok => r.blocks = P /\ \A i \in 1 .. Len(P) : ~Fits(P[i], size, align, min, mask)
           /\ r.ok => /\ Taken(P, r.blocks, r.base, size, mem)
                      /\ min <= r.base /\ r.base <= mask
                      /\ \E k \in 1 .. Len(P) :
                            /\ r.base = StartIn(P[k], align, min) /\ Holds(P[k], r.base)
                            /\ \A j \in 1 .. Len(P) : Fits(P[j], size, align, min, mask) => k <= j
<1> DEFINE fit == {i \in DOMAIN P : Fits(P[i], size, align, min, mask)}
           k == Earliest(fit)
           b == P[k]
           s == StartIn(b, align, min)
           lead == pci_free_block(Without(P, k), b.base, s - b.base, mem)
           Q == pci_free_block(lead, s + size, Limit(b) - (s + size), mem)
<1>1. DOMAIN P = 1 .. Len(P) /\ Len(P) \in Nat
    BY CanonFacts
<1>2. r = IF size = 0 \/ fit = {} THEN Refused(P) ELSE Granted(Q, s)
    BY DEF pci_allocate_block
<1>3. CASE fit = {}
    <2>1. r.ok = FALSE /\ r.blocks = P
        BY <1>2, <1>3 DEF Refused
    <2>2. \A i \in 1 .. Len(P) : ~Fits(P[i], size, align, min, mask)
        BY <1>1, <1>3
    <2> QED
        BY <2>1, <2>2
<1>4. CASE fit # {}
    <2>1. k \in 1 .. Len(P) /\ Fits(b, size, align, min, mask)
          /\ \A j \in 1 .. Len(P) : Fits(P[j], size, align, min, mask) => k <= j
        <3>1. fit \subseteq Nat
            BY <1>1
        <3>2. k \in fit /\ \A j \in fit : k <= j
            BY <1>4, <3>1, EarliestFacts
        <3> HIDE DEF k
        <3> QED
            BY <1>1, <3>2
    <2>2. r.ok = TRUE /\ r.blocks = Q /\ r.base = s
        <3> HIDE DEF fit, Q, s
        <3> QED
            BY <1>2, <1>4 DEF Granted
    <2>3. b.base \in Nat /\ Limit(b) \in Nat /\ b.base < Limit(b) /\ Limit(b) <= Top
        BY <2>1, BlockEdges
    <2> DEFINE up == RoundUp(b.base, align)
    <2>4. up \in Nat /\ b.base <= up
        BY <2>3, Rounded
    <2>5. s = IF up < min THEN min ELSE up
        BY DEF StartIn
    <2>6. s <= mask /\ s + size <= Limit(b)
        BY <2>1 DEF Fits
    <2> HIDE DEF up, s, k, b
    <2>7. s \in Nat /\ b.base <= s /\ min <= s
        BY <2>3, <2>4, <2>5
    <2>8. Taken(P, Q, s, size, mem)
        BY <2>1, <2>6, <2>7, Carve DEF b
    <2>9. Holds(b, s)
        BY <2>3, <2>6, <2>7 DEF Holds
    <2> HIDE DEF Q
    <2>10. \E kk \in 1 .. Len(P) :
              /\ s = StartIn(P[kk], align, min) /\ Holds(P[kk], s)
              /\ \A j \in 1 .. Len(P) : Fits(P[j], size, align, min, mask) => kk <= j
        BY <2>1, <2>9 DEF s, b
    <2> QED
        BY <2>2, <2>6, <2>7, <2>8, <2>10
<1> QED
    BY <1>3, <1>4

\* A span of free addresses lies in one block.
LEMMA SpanInBlock ==
    ASSUME NEW P, Canon(P), NEW a \in Nat, NEW e \in Nat, a < e, e <= Top,
           \A x \in Addresses : Inside(x, a, e) => InPool(P, x)
    PROVE  \E k \in 1 .. Len(P) : P[k].base <= a /\ e <= Limit(P[k])
<1>0. Top \in Nat
    BY PciAddressAssumption
<1>1. a \in Addresses /\ Inside(a, a, e)
    BY <1>0 DEF Addresses, Inside
<1>2. PICK k \in 1 .. Len(P) : Holds(P[k], a)
    BY <1>1 DEF InPool
<1>3. P[k].base <= a /\ a < Limit(P[k]) /\ Limit(P[k]) \in Nat /\ ~InPool(P, Limit(P[k])) /\ Limit(P[k]) <= Top
    BY <1>2, BlockEdges DEF Holds
<1>4. e <= Limit(P[k])
    <2> DEFINE l == Limit(P[k])
    <2>1. l \in Nat /\ a < l /\ ~InPool(P, l) /\ l <= Top
        BY <1>3
    <2> HIDE DEF l
    <2>2. l \in Addresses
        BY <1>0, <2>1 DEF Addresses
    <2>3. ~Inside(l, a, e)
        BY <2>1, <2>2
    <2>4. e <= l
        BY <2>1, <2>3 DEF Inside
    <2> QED
        BY <2>4 DEF l
<1> QED
    BY <1>3, <1>4

LEMMA FixedEffect ==
    ASSUME NEW P, Canon(P), NEW a \in Nat, NEW size \in Nat \ {0}, a + size <= Top, NEW mem,
           \A x \in Addresses : Inside(x, a, a + size) => InPool(P, x),
           NEW r, r = pci_allocate_fixed_block(P, a, size, mem)
    PROVE  Taken(P, r.blocks, a, size, mem)
<1> DEFINE t == a + size
           reach == {i \in DOMAIN P : t <= Limit(P[i])}
           k == Earliest(reach)
           b == P[k]
           lead == pci_free_block(Without(P, k), b.base, a - b.base, mem)
           Q == pci_free_block(lead, t, Limit(b) - t, mem)
<1>1. /\ DOMAIN P = 1 .. Len(P) /\ Len(P) \in Nat
      /\ \A i, j \in 1 .. Len(P) : i < j => Limit(P[i]) < P[j].base
    BY CanonFacts
<1>2. r = IF size = 0 \/ reach = {} \/ b.base > a THEN Refused(P) ELSE Granted(Q, a)
    BY DEF pci_allocate_fixed_block
<1>3. PICK n \in 1 .. Len(P) : P[n].base <= a /\ t <= Limit(P[n])
    <2>1. t \in Nat /\ a < t /\ t <= Top
        OBVIOUS
    <2> QED
        BY <2>1, SpanInBlock
<1>4. n \in reach /\ reach \subseteq Nat
    BY <1>1, <1>3
<1>5. k \in reach /\ k <= n
    BY <1>4, EarliestFacts
<1>6. k \in 1 .. Len(P) /\ t <= Limit(b)
    <2> HIDE DEF k
    <2> QED
        BY <1>1, <1>5
<1> HIDE DEF k
<1>7. k = n
    <2> SUFFICES ASSUME k < n
                 PROVE  FALSE
        BY <1>1, <1>5, <1>6
    <2>1. Limit(P[k]) < P[n].base
        BY <1>1, <1>6
    <2>2. Limit(P[k]) \in Nat /\ P[n].base \in Nat
        BY <1>6, BlockEdges
    <2> QED
        BY <1>3, <1>6, <2>1, <2>2
<1>8. b.base <= a /\ b.base \in Nat
    BY <1>3, <1>6, <1>7, BlockEdges
<1>9. r.blocks = Q
    <2>1. size # 0 /\ reach # {} /\ ~(b.base > a)
        BY <1>4, <1>8
    <2> HIDE DEF reach, Q, b
    <2> QED
        BY <1>2, <2>1 DEF Granted
<1>10. Taken(P, Q, a, size, mem)
    BY <1>6, <1>8, Carve
<1> QED
    BY <1>9, <1>10

-----------------------------------------------------------------------------
(* Addresses for a BAR, and what a bridge gets. *)

LEMMA Mem32Effect ==
    ASSUME NEW P, Canon(P), NEW size \in Nat \ {0}, NEW mem, NEW r,
           r = pci_allocate_mem32(P, size, mem)
    PROVE  /\ r.ok \in BOOLEAN
           /\ ~r.ok => r.blocks = P
           /\ r.ok => Taken(P, r.blocks, r.base, size, mem)
           /\ (\A x \in Addresses : InPool(P, x) => Low <= x) /\ r.ok =>
                 \E k \in 1 .. Len(P) :
                    /\ r.base = StartIn(P[k], size, Low)
                    /\ \A j \in 1 .. Len(P) : Fits(P[j], size, size, Low, Top - 1) => k <= j
<1> DEFINE high == pci_allocate_block(P, size, size, Low, Top - 1, mem)
           low == pci_allocate_block(P, size, size, 0, Low - 1, mem)
<1>1. r = IF high.ok THEN high ELSE low
    BY DEF pci_allocate_mem32
<1>2. Top \in Nat /\ Low \in Nat /\ Top - 1 \in Nat /\ Low - 1 \in Nat /\ 0 \in Nat /\ Low < Top
    BY PciAddressAssumption
<1> HIDE DEF high, low
<1>3. /\ high.ok \in BOOLEAN
      /\ ~high.ok => high.blocks = P
      /\ high.ok => /\ Taken(P, high.blocks, high.base, size, mem)
                    /\ \E k \in 1 .. Len(P) :
                            /\ high.base = StartIn(P[k], size, Low) /\ Holds(P[k], high.base)
                            /\ \A j \in 1 .. Len(P) : Fits(P[j], size, size, Low, Top - 1) => k <= j
    BY <1>2, AllocEffect DEF high
<1>4. /\ low.ok \in BOOLEAN
      /\ ~low.ok => low.blocks = P
      /\ low.ok => /\ Taken(P, low.blocks, low.base, size, mem) /\ low.base <= Low - 1
                   /\ \E k \in 1 .. Len(P) : Holds(P[k], low.base)
    BY <1>2, AllocEffect DEF low
<1>5. low.ok => low.base \in Addresses /\ InPool(P, low.base) /\ ~(Low <= low.base)
    <2> SUFFICES ASSUME low.ok
                 PROVE  low.base \in Addresses /\ InPool(P, low.base) /\ ~(Low <= low.base)
        OBVIOUS
    <2>1. low.base \in Nat /\ low.base <= Low - 1
        BY <1>4 DEF Taken
    <2>2. InPool(P, low.base)
        BY <1>4 DEF InPool
    <2> QED
        BY <1>2, <2>1, <2>2 DEF Addresses
<1> QED
    BY <1>1, <1>3, <1>4, <1>5

LEMMA CoveredIs ==
    ASSUME NEW P, Canon(P)
    PROVE  Covered(P) = {x \in Addresses : InPool(P, x)}
<1>1. /\ DOMAIN P = 1 .. Len(P) /\ Top \in Nat
      /\ \A i \in 1 .. Len(P) : /\ P[i].base \in Nat /\ Limit(P[i]) \in Nat
                                /\ P[i].base < Limit(P[i]) /\ Limit(P[i]) <= Top
    BY CanonFacts, PciAddressAssumption
<1>2. \A i \in 1 .. Len(P) : \A x :
          x \in P[i].base .. Limit(P[i]) - 1 <=> x \in Addresses /\ Holds(P[i], x)
    <2> SUFFICES ASSUME NEW i \in 1 .. Len(P), NEW x
                 PROVE  x \in P[i].base .. Limit(P[i]) - 1 <=> x \in Addresses /\ Holds(P[i], x)
        OBVIOUS
    <2> DEFINE a == P[i].base
               e == Limit(P[i])
    <2>1. a \in Nat /\ e \in Nat /\ e <= Top
        BY <1>1
    <2> HIDE DEF a, e
    <2>2. x \in a .. e - 1 <=> x \in 0 .. Top /\ a <= x /\ x < e
        BY <1>1, <2>1
    <2> QED
        BY <2>2 DEF a, e, Addresses, Holds
<1>3. \A x : x \in Covered(P) <=> \E i \in 1 .. Len(P) : x \in P[i].base .. Limit(P[i]) - 1
    BY <1>1 DEF Covered
<1> QED
    BY <1>2, <1>3 DEF InPool

\* The part o of block b.
Offered(b, o, align, min, mask) ==
    \E n \in Nat \ {0} :
        /\ o.base \in Nat /\ min <= o.base /\ o.base <= mask /\ o.base % align = 0
        /\ n % align = 0 /\ b.base <= o.base /\ o.base + n <= Limit(b)
        /\ o.size = IF o.base + n > mask THEN mask - o.base ELSE n
        /\ o = Block(o.base, o.size)
        /\ (align = 1 /\ min = 0 => o.base = b.base /\ o.base + n = Limit(b))

LEMMA OfferFacts ==
    ASSUME NEW P, Canon(P), NEW i \in 1 .. Len(P), NEW align \in Nat \ {0},
           NEW min \in Nat, min % align = 0, NEW mask \in Nat,
           NEW o, o = Offer(P[i], align, min, mask)
    PROVE  /\ o.size \in 0 .. Top
           /\ o.size # 0 => Offered(P[i], o, align, min, mask)
<1> DEFINE b == P[i].base
           e == Limit(P[i])
           up == RoundUp(b, align)
           s == StartIn(P[i], align, min)
           n == ((e - s) \div align) * align
<1>1. b \in Nat /\ e \in Nat /\ b < e /\ e <= Top /\ Top \in Nat
    BY BlockEdges, PciAddressAssumption
<1>2. up \in Nat /\ b <= up /\ up % align = 0 /\ (b % align = 0 => up = b)
    <2> HIDE DEF b
    <2> QED
        BY <1>1, Rounded
<1>3. s = IF up < min THEN min ELSE up
    BY DEF StartIn
<1>4. o = IF s > e \/ s > mask \/ n = 0 THEN Block(0, 0)
          ELSE Block(s, IF s + n > mask THEN mask - s ELSE n)
    BY DEF Offer
<1> HIDE DEF s, up, b, e
<1>5. s \in Nat /\ b <= s /\ min <= s /\ s % align = 0
    BY <1>1, <1>2, <1>3
<1>6. CASE s > e \/ s > mask \/ n = 0
    <2>1. o = Block(0, 0)
        BY <1>4, <1>6
    <2> QED
        BY <1>1, <2>1 DEF Block
<1>7. CASE s <= e /\ s <= mask /\ n # 0
    <2>1. e - s \in Nat
        BY <1>1, <1>5, <1>7
    <2>2. n \in Nat /\ n <= e - s /\ e - s < n + align /\ n % align = 0
        BY <2>1, Floor
    <2> HIDE DEF n
    <2> DEFINE z == IF s + n > mask THEN mask - s ELSE n
    <2>3. o = Block(s, z)
        BY <1>1, <1>4, <1>5, <1>7, <2>2
    <2>4. o.base = s /\ o.size = z
        BY <2>3 DEF Block
    <2>5. z \in 0 .. Top /\ s + n <= e
        BY <1>1, <1>5, <1>7, <2>1, <2>2
    <2>6. ASSUME align = 1, min = 0
          PROVE  s = b /\ s + n = e
        <3>1. b % 1 = 0
            BY <1>1
        <3>2. s = b
            BY <1>1, <1>2, <1>3, <2>6, <3>1
        <3> QED
            BY <1>1, <2>2, <2>6, <3>2
    <2> HIDE DEF z
    <2>7. /\ s \in Nat /\ min <= s /\ s <= mask /\ s % align = 0 /\ n \in Nat \ {0} /\ n % align = 0
          /\ P[i].base <= s /\ s + n <= Limit(P[i])
          /\ (align = 1 /\ min = 0 => s = P[i].base /\ s + n = Limit(P[i]))
        BY <1>5, <1>7, <2>2, <2>5, <2>6 DEF b, e
    <2> QED
        BY <2>3, <2>4, <2>5, <2>7 DEF z, Offered
<1> QED
    BY <1>1, <1>5, <1>6, <1>7

\* The window made of the largest block.
GivenFrom(P, w, align, min, mask) ==
    \E i \in 1 .. Len(P), n \in Nat \ {0} :
        /\ w.base \in Nat /\ min <= w.base /\ w.base <= mask /\ w.base % align = 0
        /\ n % align = 0 /\ P[i].base <= w.base /\ w.base + n <= Limit(P[i])
        /\ w.size # 0 /\ w.size = IF w.base + n > mask THEN mask - w.base ELSE n
        /\ w.limit = w.base + w.size
        /\ w = [base |-> w.base, limit |-> w.limit, size |-> w.size]
        /\ (align = 1 /\ min = 0 => w.base = P[i].base /\ w.base + n = Limit(P[i]))

LEMMA LargestWindow ==
    ASSUME NEW P, Canon(P), NEW align \in Nat \ {0},
           NEW min \in Nat, min % align = 0, NEW mask \in Nat,
           NEW w, w = WindowOn(pci_find_largest_block(P, align, min, mask))
    PROVE  w = NoWindow \/ GivenFrom(P, w, align, min, mask)
<1> DEFINE offers == [i \in DOMAIN P |-> Offer(P[i], align, min, mask)]
           largest == {i \in DOMAIN P : \A j \in DOMAIN P : offers[j].size <= offers[i].size}
           b == pci_find_largest_block(P, align, min, mask)
<1>1. DOMAIN P = 1 .. Len(P) /\ Len(P) \in Nat /\ Top \in Nat
    BY CanonFacts, PciAddressAssumption
<1>2. b = IF \A i \in DOMAIN P : offers[i].size = 0 THEN Block(0, 0) ELSE offers[Earliest(largest)]
    BY DEF pci_find_largest_block
<1>3. \A i \in 1 .. Len(P) : offers[i] = Offer(P[i], align, min, mask)
    BY <1>1
<1>4. \A i \in 1 .. Len(P) : offers[i].size \in 0 .. Top
    <2> SUFFICES ASSUME NEW i \in 1 .. Len(P)
                 PROVE  offers[i].size \in 0 .. Top
        OBVIOUS
    <2>1. PICK o : o = Offer(P[i], align, min, mask)
        OBVIOUS
    <2>2. o.size \in 0 .. Top
        BY <2>1, OfferFacts
    <2> HIDE DEF offers
    <2> QED
        BY <1>3, <2>1, <2>2
<1> HIDE DEF offers, b
<1>5. b.size = 0 \/ \E i \in 1 .. Len(P) : b = Offer(P[i], align, min, mask)
    <2>1. CASE \A i \in DOMAIN P : offers[i].size = 0
        BY <1>2, <2>1 DEF Block
    <2>2. CASE \E i \in DOMAIN P : offers[i].size # 0
        <3> DEFINE T == {Top - offers[i].size : i \in 1 .. Len(P)}
        <3>1. T \subseteq Nat /\ T # {}
            BY <1>1, <1>4, <2>2
        <3>2. PICK m \in T : \A k \in T : m <= k
            <4> HIDE DEF T
            <4> QED
                BY <3>1, Least
        <3>3. PICK i \in 1 .. Len(P) : m = Top - offers[i].size
            OBVIOUS
        <3>4. \A j \in 1 .. Len(P) : offers[j].size <= offers[i].size
            <4> SUFFICES ASSUME NEW j \in 1 .. Len(P)
                         PROVE  offers[j].size <= offers[i].size
                OBVIOUS
            <4>0. Top - offers[j].size \in T
                OBVIOUS
            <4> HIDE DEF T
            <4>1. Top - offers[i].size <= Top - offers[j].size
                BY <3>2, <3>3, <4>0
            <4>2. offers[i].size \in Nat /\ offers[j].size \in Nat
                BY <1>4
            <4> QED
                BY <1>1, <4>1, <4>2
        <3>5. i \in largest /\ largest \subseteq Nat
            BY <1>1, <3>4
        <3>6. Earliest(largest) \in largest
            BY <3>5, EarliestFacts
        <3>7. Earliest(largest) \in 1 .. Len(P)
            BY <1>1, <3>6
        <3>8. b = offers[Earliest(largest)]
            BY <1>2, <2>2
        <3> HIDE DEF largest
        <3> QED
            BY <1>3, <3>7, <3>8
    <2> QED
        BY <2>1, <2>2
<1>6. CASE b.size = 0
    BY <1>6 DEF WindowOn, b
<1>7. CASE b.size # 0
    <2>1. PICK i \in 1 .. Len(P) : b = Offer(P[i], align, min, mask)
        BY <1>5, <1>7
    <2>0. Offered(P[i], b, align, min, mask)
        BY <1>7, <2>1, OfferFacts
    <2>2. PICK n \in Nat \ {0} :
                    /\ b.base \in Nat /\ min <= b.base /\ b.base <= mask /\ b.base % align = 0
                    /\ n % align = 0 /\ P[i].base <= b.base /\ b.base + n <= Limit(P[i])
                    /\ b.size = IF b.base + n > mask THEN mask - b.base ELSE n
                    /\ b = Block(b.base, b.size)
                    /\ (align = 1 /\ min = 0 => b.base = P[i].base /\ b.base + n = Limit(P[i]))
        BY <2>0 DEF Offered
    <2>3. w = [base |-> b.base, limit |-> b.base + b.size, size |-> b.size]
        BY <1>7 DEF WindowOn, b, Limit
    <2>4. w.base = b.base /\ w.size = b.size /\ w.limit = b.base + b.size
        BY <2>3
    <2>5. w = [base |-> w.base, limit |-> w.limit, size |-> w.size]
        BY <2>3, <2>4
    <2>6. /\ w.base \in Nat /\ min <= w.base /\ w.base <= mask /\ w.base % align = 0
          /\ n % align = 0 /\ P[i].base <= w.base /\ w.base + n <= Limit(P[i])
        BY <2>2, <2>4
    <2>8. w.size = IF w.base + n > mask THEN mask - w.base ELSE n
        BY <2>2, <2>4
    <2>9. align = 1 /\ min = 0 => w.base = P[i].base /\ w.base + n = Limit(P[i])
        BY <2>2, <2>4
    <2>7. w.size # 0 /\ w.limit = w.base + w.size
        BY <1>7, <2>4
    <2> QED
        BY <2>5, <2>6, <2>7, <2>8, <2>9 DEF GivenFrom
<1> QED
    BY <1>6, <1>7

-----------------------------------------------------------------------------
(* Windows. *)

LEMMA Sizes ==
    /\ Granule \in Nat \ {0} /\ Low % Granule = 0 /\ Top % Granule = 0
    /\ Top \in Nat /\ Low \in Nat /\ 0 < Low /\ Low < Top
    /\ MaxBus \in Nat /\ 0 < MaxBus /\ MaxBus < Top
    BY PciAddressAssumption, PciProbeAssumption, PoolsFit

\* All that a bridge forwards while the bus behind it is probed is free above.
LEMMA WindowGiven ==
    ASSUME NEW P, Canon(P), NEW w, w = WindowOn(pci_find_largest_block(P, Granule, Low, Top - 1))
    PROVE  /\ WindowOK(w)
           /\ w.size = 0 => w = NoWindow
           /\ w.base + RoundUp(w.size, Granule) <= Top
           /\ \A x \in Addresses :
                 w.base <= x /\ x < w.base + RoundUp(w.size, Granule) => InPool(P, x)
<1> USE Sizes
<1>1. CASE w = NoWindow
    <2>1. w.base = 0 /\ w.limit = 0 /\ w.size = 0 /\ w \in Window
        BY <1>1 DEF NoWindow, Window
    <2>2. 0 % Granule = 0 /\ 0 \in Nat
        OBVIOUS
    <2>3. RoundUp(0, Granule) = 0
        BY <2>2, Rounded
    <2>4. \A x \in Addresses : ~(0 <= x /\ x < 0)
        BY DEF Addresses
    <2>5. w.limit = w.base + w.size /\ w.base + 0 <= Top
        BY <2>1
    <2> QED
        BY <1>1, <2>1, <2>3, <2>4, <2>5 DEF WindowOK
<1>2. CASE w # NoWindow
    <2> DEFINE mask == Top - 1
    <2>0. mask \in Nat
        OBVIOUS
    <2> HIDE DEF mask
    <2>11. GivenFrom(P, w, Granule, Low, mask)
        BY <1>2, <2>0, LargestWindow DEF mask
    <2>1. PICK i \in 1 .. Len(P), n \in Nat \ {0} :
                 /\ w.base \in Nat /\ Low <= w.base /\ w.base <= Top - 1 /\ w.base % Granule = 0
                 /\ n % Granule = 0 /\ P[i].base <= w.base /\ w.base + n <= Limit(P[i])
                 /\ w.size # 0 /\ w.size = IF w.base + n > Top - 1 THEN Top - 1 - w.base ELSE n
                 /\ w.limit = w.base + w.size
                 /\ w = [base |-> w.base, limit |-> w.limit, size |-> w.size]
        BY <2>11 DEF GivenFrom, mask
    <2>2. P[i].base \in Nat /\ Limit(P[i]) \in Nat /\ Limit(P[i]) <= Top
          /\ \A x \in Addresses : P[i].base <= x /\ x < Limit(P[i]) => InPool(P, x)
        BY BlockEdges DEF Inside
    <2> DEFINE a == w.base
               l == w.limit
               z == w.size
    <2>3. /\ a \in Nat /\ Low <= a /\ a <= Top - 1 /\ a % Granule = 0 /\ n % Granule = 0
          /\ a + n <= Top /\ z # 0 /\ z = (IF a + n > Top - 1 THEN Top - 1 - a ELSE n) /\ l = a + z
        BY <2>1, <2>2
    <2> HIDE DEF a, l, z
    <2>4. z \in Nat /\ z > 0 /\ z <= n /\ l < Top /\ l \in Nat /\ z <= Top /\ (l = Top - 1 \/ z = n)
        BY <2>3
    <2>5. l % Granule = 0 \/ l = Top - 1
        <3>1. (a + n) % Granule = 0
            BY <2>3, Multiples
        <3> QED
            BY <2>3, <2>4, <3>1
    <2>6. RoundUp(z, Granule) \in Nat /\ RoundUp(z, Granule) <= n
        BY <2>3, <2>4, Rounded
    <2> DEFINE u == RoundUp(z, Granule)
    <2> HIDE DEF u
    <2>7. a + u <= Top /\ a + u <= a + n
        BY <2>3, <2>6 DEF u
    <2>8. ASSUME NEW x \in Addresses, a <= x, x < a + u
          PROVE  InPool(P, x)
        <3>1. x \in Nat
            BY DEF Addresses
        <3>2. P[i].base <= a /\ a + n <= Limit(P[i])
            BY <2>1 DEF a
        <3>3. u \in Nat /\ a \in Nat /\ n \in Nat /\ P[i].base \in Nat /\ Limit(P[i]) \in Nat
            BY <2>2, <2>3, <2>6 DEF u
        <3>4. P[i].base <= x /\ x < Limit(P[i])
            BY <2>7, <2>8, <3>1, <3>2, <3>3
        <3> QED
            BY <2>2, <3>4
    <2>9. w \in Window
        <3>1. a \in 0 .. Top /\ l \in 0 .. Top /\ z \in -Top .. Top
            BY <2>3, <2>4
        <3> QED
            BY <2>1, <3>1 DEF Window, a, l, z
    <2>10. WindowOK(w)
        BY <2>3, <2>4, <2>5, <2>9 DEF WindowOK, a, l, z
    <2> QED
        BY <2>3, <2>7, <2>8, <2>10 DEF a, z, u
<1> QED
    BY <1>1, <1>2

\* The numbers behind a bridge are the largest block.
LEMMA RangeGiven ==
    ASSUME NEW P, Canon(P), \A x \in Addresses : InPool(P, x) => x <= MaxBus,
           NEW n, n = WindowOn(pci_find_largest_block(P, 1, 0, MaxBus + 1))
    PROVE  /\ n \in Window /\ n.limit = n.base + n.size /\ n.limit <= MaxBus + 1
           /\ n.size = 0 => n = NoWindow
           /\ n.size >= 0
           /\ \A x \in Addresses : n.base <= x /\ x < n.limit => InPool(P, x)
<1> USE Sizes
<1>1. CASE n = NoWindow
    <2>1. n.base = 0 /\ n.limit = 0 /\ n.size = 0 /\ n \in Window
        BY <1>1 DEF NoWindow, Window
    <2>2. \A x \in Addresses : ~(0 <= x /\ x < 0)
        BY DEF Addresses
    <2> QED
        BY <1>1, <2>1, <2>2
<1>2. CASE n # NoWindow
    <2> DEFINE mask == MaxBus + 1
    <2>0. mask \in Nat /\ 0 % 1 = 0 /\ 1 \in Nat \ {0} /\ 0 \in Nat
        OBVIOUS
    <2> HIDE DEF mask
    <2>12. n = WindowOn(pci_find_largest_block(P, 1, 0, mask))
        BY DEF mask
    <2>11. GivenFrom(P, n, 1, 0, mask)
        BY <1>2, <2>0, <2>12, LargestWindow
    <2>13. PICK i \in 1 .. Len(P), m \in Nat \ {0} :
              /\ n.base \in Nat /\ 0 <= n.base /\ n.base <= mask /\ n.base % 1 = 0
              /\ m % 1 = 0 /\ P[i].base <= n.base /\ n.base + m <= Limit(P[i])
              /\ n.size # 0 /\ n.size = IF n.base + m > mask THEN mask - n.base ELSE m
              /\ n.limit = n.base + n.size
              /\ n = [base |-> n.base, limit |-> n.limit, size |-> n.size]
              /\ (1 = 1 /\ 0 = 0 => n.base = P[i].base /\ n.base + m = Limit(P[i]))
        BY <2>11 DEF GivenFrom
    <2>1. /\ n.size # 0 /\ n.size = IF n.base + m > mask THEN mask - n.base ELSE m
          /\ n.limit = n.base + n.size
          /\ n = [base |-> n.base, limit |-> n.limit, size |-> n.size]
          /\ n.base = P[i].base /\ n.base + m = Limit(P[i])
        <3>2. 1 = 1 /\ 0 = 0
            OBVIOUS
        <3>3. n.base = P[i].base /\ n.base + m = Limit(P[i])
            BY ONLY <2>13, <3>2, Zenon
        <3> QED
            BY ONLY <2>13, <3>3, Zenon
    <2>2. P[i].base \in Nat /\ Limit(P[i]) \in Nat /\ P[i].base < Limit(P[i]) /\ Limit(P[i]) <= Top
          /\ \A x \in Addresses : P[i].base <= x /\ x < Limit(P[i]) => InPool(P, x)
        BY BlockEdges DEF Inside
    <2> DEFINE a == P[i].base
               e == Limit(P[i])
    <2>3. e <= MaxBus + 1
        <3>1. e - 1 \in Addresses /\ a <= e - 1 /\ e - 1 < e
            BY <2>2 DEF Addresses
        <3>2. e - 1 <= MaxBus
            BY <2>2, <3>1
        <3> QED
            BY <2>2, <3>2
    <2>4. n.base = a /\ n.size = e - a /\ n.limit = e
        <3>1. n.base = a /\ a + m = e
            BY <2>1
        <3>2. ~(n.base + m > mask)
            BY <2>2, <2>3, <3>1 DEF mask
        <3>3. n.size = m
            BY <2>1, <3>2
        <3> HIDE DEF a, e
        <3> QED
            BY <2>1, <2>2, <3>1, <3>3 DEF a, e
    <2>5. a \in 0 .. Top /\ e \in 0 .. Top /\ e - a \in -Top .. Top /\ e - a >= 0
        BY <2>2
    <2>6. n \in Window
        BY <2>1, <2>4, <2>5 DEF Window
    <2>7. n.limit = n.base + n.size /\ n.size # 0
        BY <2>1
    <2> HIDE DEF a, e
    <2> QED
        BY <2>2, <2>3, <2>4, <2>5, <2>6, <2>7 DEF a, e
<1> QED
    BY <1>1, <1>2

\* What is left of a window when its bus is done, in granules.
LEMMA WindowCut ==
    ASSUME NEW Q, Canon(Q), NEW w, WindowOK(w), w.size > 0,
           \A x \in Addresses : InPool(Q, x) => w.base <= x /\ x < w.limit,
           Cuttable(Q, w), ~(\A x \in Addresses : Inside(x, w.base, w.limit) => InPool(Q, x)),
           NEW u, u = ppb_set_window_size(ppb_update_windows(w, Q), Granule)
    PROVE  /\ u \in Window /\ u.base \in Nat /\ u.limit \in Nat
           /\ u.base % Granule = 0 /\ w.base <= u.base
           /\ u.base < u.limit /\ u.limit <= w.limit
           /\ u.size = RoundUp(u.limit - u.base, Granule)
           /\ u.base + u.size <= w.base + RoundUp(w.size, Granule)
           /\ \A x \in Addresses : Inside(x, w.base, u.base) => InPool(Q, x)
           /\ \A x \in Addresses : Inside(x, u.limit, w.limit) => InPool(Q, x)
<1> USE Sizes
<1> DEFINE a == w.base
           l == w.limit
           first == BeginAt(Q, a)
           last == EndAt(Q, l)
           v == ppb_update_windows(w, Q)
           b == IF first = {} THEN a ELSE Limit(Q[Earliest(first)])
           e == IF last = {} THEN l ELSE Q[Earliest(last)].base
<1>1. /\ w \in Window /\ a \in Nat /\ l \in Nat /\ l = a + w.size /\ l < Top /\ a < l /\ Low <= a
      /\ a % Granule = 0 /\ (l % Granule = 0 \/ l = Top - 1)
    <2>0. w \in Window /\ w.base \in 0 .. Top /\ w.limit \in 0 .. Top /\ w.size \in -Top .. Top
        BY DEF WindowOK, Window
    <2>1. w # NoWindow
        BY DEF NoWindow
    <2> QED
        BY <2>0, <2>1 DEF WindowOK
<1>2. v = [w EXCEPT !.base = b, !.limit = e]
    BY DEF ppb_update_windows
<1>3. v.base = b /\ v.limit = e /\ v.size = w.size
    <2> HIDE DEF b, e, v, a, l
    <2> QED
        BY <1>1, <1>2 DEF Window
<1>4. u = [v EXCEPT !.size = IF v.limit - v.base < 0 THEN v.limit - v.base ELSE RoundUp(v.limit - v.base, Granule)]
    BY DEF ppb_set_window_size
<1>5. /\ DOMAIN Q = 1 .. Len(Q) /\ Len(Q) \in Nat
      /\ \A i, j \in 1 .. Len(Q) : i < j => Limit(Q[i]) < Q[j].base
    BY CanonFacts
<1> HIDE DEF a, l, b, e, v, first, last
<1>6. \A x \in Addresses : InPool(Q, x) => a <= x /\ x < l
    BY DEF a, l
<1>7. PICK y \in Addresses : Inside(y, a, l) /\ ~InPool(Q, y)
    BY DEF a, l
<1>8. \A x \in Addresses : x \in Nat
    BY DEF Addresses
<1>9. ASSUME NEW i \in 1 .. Len(Q)
      PROVE  /\ Q[i].base \in Nat /\ Limit(Q[i]) \in Nat /\ Q[i].base < Limit(Q[i])
             /\ a <= Q[i].base /\ Limit(Q[i]) <= l
             /\ ~InPool(Q, Limit(Q[i])) /\ Limit(Q[i]) \in Addresses
             /\ \A x \in Addresses : Inside(x, Q[i].base, Limit(Q[i])) => InPool(Q, x)
             /\ ~(Q[i].base = a /\ Limit(Q[i]) = l)
    <2> DEFINE c == Q[i].base
               d == Limit(Q[i])
    <2>1. /\ c \in Nat /\ d \in Nat /\ c < d /\ d <= Top /\ ~InPool(Q, d)
          /\ \A x \in Addresses : Inside(x, c, d) => InPool(Q, x)
        BY BlockEdges
    <2> HIDE DEF c, d
    <2>2. c \in Addresses /\ d \in Addresses /\ d - 1 \in Addresses /\ Inside(c, c, d) /\ Inside(d - 1, c, d)
        BY <2>1 DEF Addresses, Inside
    <2>3. a <= c /\ d - 1 < l
        BY <1>6, <2>1, <2>2
    <2>4. ~(c = a /\ d = l)
        BY <1>7, <2>1
    <2>5. d <= l
        BY <1>1, <2>1, <2>3
    <2> QED
        BY <2>1, <2>2, <2>3, <2>4, <2>5 DEF c, d
<1>10. /\ b \in Nat /\ a <= b /\ b < l /\ b % Granule = 0
       /\ \A x \in Addresses : Inside(x, a, b) => InPool(Q, x)
       /\ first = {} => b = a
       /\ first # {} => \E k \in 1 .. Len(Q) : Q[k].base = a /\ b = Limit(Q[k])
    <2>1. CASE first = {}
        <3>1. b = a
            BY <2>1 DEF b
        <3>2. \A x \in Addresses : ~Inside(x, a, a)
            BY <1>1, <1>8 DEF Inside
        <3> QED
            BY <1>1, <2>1, <3>1, <3>2
    <2>2. CASE first # {}
        <3> DEFINE k == Earliest(first)
        <3>1. first \subseteq Nat
            BY <1>5 DEF first, BeginAt
        <3>2. k \in first
            BY <2>2, <3>1, EarliestFacts
        <3> HIDE DEF k
        <3>3. k \in 1 .. Len(Q) /\ Q[k].base = a
            BY <1>5, <3>2 DEF first, BeginAt
        <3>4. b = Limit(Q[k])
            BY <2>2 DEF b, k
        <3>5. /\ b \in Nat /\ a < b /\ b <= l /\ b # l /\ ~InPool(Q, b) /\ b \in Addresses
              /\ \A x \in Addresses : Inside(x, a, b) => InPool(Q, x)
            BY <1>9, <3>3, <3>4
        <3>6. InPool(Q, a)
            <4>1. a \in Addresses /\ Inside(a, a, b)
                BY <1>1, <3>5 DEF Addresses, Inside
            <4> QED
                BY <3>5, <4>1
        <3>7. PICK z \in Addresses : /\ a < z /\ ~InPool(Q, z)
                                     /\ \A x \in a .. z - 1 : InPool(Q, x)
                                     /\ z % Granule = 0 \/ z = l
            BY <3>6 DEF Cuttable, a, l
        <3>8. z = b
            <4>1. CASE z < b
                <5>1. Inside(z, a, b)
                    BY <1>1, <1>8, <3>7, <4>1 DEF Inside
                <5> QED
                    BY <3>5, <3>7, <5>1
            <4>2. CASE b < z
                <5>1. b \in a .. z - 1
                    BY <1>1, <1>8, <3>5, <4>2
                <5> QED
                    BY <3>5, <3>7, <5>1
            <4> QED
                BY <1>8, <3>5, <4>1, <4>2
        <3>9. b % Granule = 0
            BY <3>5, <3>7, <3>8
        <3> QED
            BY <1>1, <2>2, <3>3, <3>4, <3>5, <3>9
    <2> QED
        BY <2>1, <2>2
<1>11. /\ e \in Nat /\ b < e /\ e <= l
       /\ \A x \in Addresses : Inside(x, e, l) => InPool(Q, x)
    <2>1. CASE last = {}
        <3>1. e = l
            BY <2>1 DEF e
        <3>2. \A x \in Addresses : ~Inside(x, l, l)
            BY <1>1, <1>8 DEF Inside
        <3> QED
            BY <1>1, <1>10, <3>1, <3>2
    <2>2. CASE last # {}
        <3> DEFINE k == Earliest(last)
        <3>1. last \subseteq Nat
            BY <1>5 DEF last, EndAt
        <3>2. k \in last
            BY <2>2, <3>1, EarliestFacts
        <3> HIDE DEF k
        <3>3. k \in 1 .. Len(Q) /\ Limit(Q[k]) = l
            BY <1>5, <3>2 DEF last, EndAt
        <3>4. e = Q[k].base
            BY <2>2 DEF e, k
        <3>5. /\ e \in Nat /\ a <= e /\ e < l /\ e # a
              /\ \A x \in Addresses : Inside(x, e, l) => InPool(Q, x)
            BY <1>9, <3>3, <3>4
        <3>6. b < e
            <4>1. CASE first = {}
                BY <1>1, <1>10, <3>5, <4>1
            <4>2. CASE first # {}
                <5>1. PICK m \in 1 .. Len(Q) : Q[m].base = a /\ b = Limit(Q[m])
                    BY <1>10, <4>2
                <5>2. m # k /\ m \in Nat /\ k \in Nat
                    BY <1>5, <3>3, <3>4, <3>5, <5>1
                <5>3. CASE m < k
                    BY <1>5, <3>3, <3>4, <5>1, <5>3
                <5>4. CASE k < m
                    <6>1. l < a
                        BY <1>5, <3>3, <5>1, <5>4
                    <6> QED
                        BY <1>1, <6>1
                <5> QED
                    BY <5>2, <5>3, <5>4
            <4> QED
                BY <4>1, <4>2
        <3>7. e <= l
            BY <1>1, <3>5
        <3> QED
            BY <3>5, <3>6, <3>7
    <2> QED
        BY <2>1, <2>2
<1>12. /\ RoundUp(e - b, Granule) \in Nat /\ b + RoundUp(e - b, Granule) <= a + RoundUp(w.size, Granule)
       /\ RoundUp(w.size, Granule) \in Nat /\ RoundUp(e - b, Granule) <= Top
    <2>0. e - b \in Nat /\ w.size \in Nat /\ a + w.size = l /\ b + (e - b) = e /\ a \in Nat /\ b \in Nat
        BY <1>1, <1>10, <1>11 DEF Window
    <2> DEFINE r == RoundUp(e - b, Granule)
               t == RoundUp(w.size, Granule)
    <2>1. /\ t \in Nat /\ w.size <= t /\ (a + t) % Granule = 0
          /\ \A m \in Nat : m % Granule = 0 /\ a + w.size <= m => a + t <= m
        BY <1>1, <2>0, RoundedSpan
    <2>2. /\ r \in Nat
          /\ \A m \in Nat : m % Granule = 0 /\ b + (e - b) <= m => b + r <= m
        <3> DEFINE d == e - b
        <3>1. d \in Nat
            BY <2>0
        <3> HIDE DEF d
        <3>2. /\ RoundUp(d, Granule) \in Nat
              /\ \A m \in Nat : m % Granule = 0 /\ b + d <= m => b + RoundUp(d, Granule) <= m
            BY <1>10, <2>0, <3>1, RoundedSpan
        <3> QED
            BY <3>2 DEF d
    <2> HIDE DEF r, t
    <2>3. a + t \in Nat /\ b + (e - b) <= a + t
        <3>1. l <= a + t /\ a + t \in Nat
            BY <2>0, <2>1
        <3>2. e <= l /\ l \in Nat /\ e \in Nat
            BY <1>1, <1>11
        <3> QED
            BY <2>0, <3>1, <3>2
    <2>4. b + r <= a + t
        BY <2>1, <2>2, <2>3
    <2>5. a + t <= Top
        BY <1>1, <2>0, <2>1
    <2> QED
        BY <2>0, <2>1, <2>2, <2>4, <2>5 DEF r, t
<1>13. /\ u = [v EXCEPT !.size = RoundUp(e - b, Granule)]
       /\ v \in [base : 0 .. Top, limit : 0 .. Top, size : -Top .. Top]
    <2>1. ~(e - b < 0)
        BY <1>10, <1>11
    <2>2. b \in 0 .. Top /\ e \in 0 .. Top
        BY <1>1, <1>10, <1>11
    <2>3. v \in [base : 0 .. Top, limit : 0 .. Top, size : -Top .. Top]
        BY <1>1, <1>2, <2>2 DEF Window
    <2> QED
        BY <1>3, <1>4, <2>1, <2>3
<1>14. u.base = b /\ u.limit = e /\ u.size = RoundUp(e - b, Granule) /\ u \in Window
    <2>1. RoundUp(e - b, Granule) \in -Top .. Top
        BY <1>12
    <2> QED
        BY <1>3, <1>13, <2>1 DEF Window
<1> QED
    BY <1>10, <1>11, <1>12, <1>14 DEF a, l

\* And of the numbers.
LEMMA RangeCut ==
    ASSUME NEW Q, Canon(Q), NEW n \in Window, n.base < n.limit,
           \A x \in Addresses : InPool(Q, x) => n.base < x /\ x < n.limit,
           NEW u, u = ppb_set_window_size(ppb_update_range(n, Q), 1)
    PROVE  /\ u \in Window /\ u.base = n.base /\ u.base < u.limit /\ u.limit <= n.limit
           /\ u.size = u.limit - u.base
           /\ \A x \in Addresses : Inside(x, u.limit, n.limit) => InPool(Q, x)
<1> USE Sizes
<1> DEFINE a == n.base
           l == n.limit
           last == EndAt(Q, l)
           v == ppb_update_range(n, Q)
           e == IF last = {} THEN l ELSE Q[Earliest(last)].base
<1>1. a \in Nat /\ l \in Nat /\ l <= Top /\ a < l
    BY DEF Window
<1>2. v = [n EXCEPT !.limit = e]
    BY DEF ppb_update_range
<1>3. v.base = a /\ v.limit = e /\ v.size = n.size
    <2> HIDE DEF e, v
    <2> QED
        BY <1>2 DEF Window
<1>4. u = [v EXCEPT !.size = IF v.limit - v.base < 0 THEN v.limit - v.base ELSE RoundUp(v.limit - v.base, 1)]
    BY DEF ppb_set_window_size
<1>5. DOMAIN Q = 1 .. Len(Q) /\ Len(Q) \in Nat
    BY CanonFacts
<1> HIDE DEF e, v, last
<1>6. /\ e \in Nat /\ a < e /\ e <= l
      /\ \A x \in Addresses : Inside(x, e, l) => InPool(Q, x)
    <2>1. CASE last = {}
        <3>1. e = l
            BY <2>1 DEF e
        <3>2. \A x \in Addresses : ~Inside(x, l, l)
            BY <1>1 DEF Inside, Addresses
        <3> QED
            BY <1>1, <3>1, <3>2
    <2>2. CASE last # {}
        <3> DEFINE k == Earliest(last)
        <3>1. last \subseteq Nat
            BY <1>5 DEF last, EndAt
        <3>2. k \in last
            BY <2>2, <3>1, EarliestFacts
        <3> HIDE DEF k
        <3>3. k \in 1 .. Len(Q) /\ Limit(Q[k]) = l
            BY <1>5, <3>2 DEF last, EndAt
        <3>4. e = Q[k].base
            BY <2>2 DEF e, k
        <3>5. e \in Nat /\ e < l /\ \A x \in Addresses : Inside(x, e, l) => InPool(Q, x)
            BY <3>3, <3>4, BlockEdges
        <3>6. e \in Addresses /\ Inside(e, e, l) /\ e <= l
            BY <1>1, <3>5 DEF Addresses, Inside
        <3>7. a < e
            BY <3>5, <3>6
        <3> QED
            BY <3>5, <3>6, <3>7
    <2> QED
        BY <2>1, <2>2
<1>7. RoundUp(e - a, 1) = e - a /\ ~(e - a < 0)
    <2> DEFINE d == e - a
    <2>1. d \in Nat
        BY <1>1, <1>6
    <2> HIDE DEF d
    <2>2. d % 1 = 0 /\ 1 \in Nat \ {0} /\ ~(d < 0)
        BY <2>1
    <2>3. RoundUp(d, 1) = d
        BY <2>1, <2>2, Rounded
    <2> QED
        BY <2>2, <2>3 DEF d
<1>8. v \in Window
    <2>1. e \in 0 .. Top
        BY <1>1, <1>6
    <2> QED
        BY <1>2, <2>1 DEF Window
<1>9. u = [v EXCEPT !.size = e - a]
    BY <1>3, <1>4, <1>7
<1>10. u.base = a /\ u.limit = e /\ u.size = e - a /\ u \in Window
    <2>1. e - a \in -Top .. Top
        BY <1>1, <1>6
    <2> HIDE DEF a
    <2> QED
        BY <1>3, <1>8, <1>9, <2>1 DEF Window
<1> QED
    BY <1>6, <1>10

-----------------------------------------------------------------------------
(* Taking addresses from the pool behind a bridge leaves it cuttable. *)

LEMMA WindowFacts ==
    ASSUME NEW w, WindowOK(w)
    PROVE  /\ w.base \in Nat /\ w.limit \in Nat /\ w.size \in Nat /\ w.limit = w.base + w.size /\ w.limit <= Top
           /\ w.size # 0 => /\ w.base < w.limit /\ w.limit < Top /\ Low <= w.base
                            /\ w.base % Granule = 0
                            /\ w.limit % Granule = 0 \/ w.limit = Top - 1
<1>1. w.base \in 0 .. Top /\ w.limit \in 0 .. Top /\ w.size \in -Top .. Top /\ Top \in Nat
    BY Sizes DEF WindowOK, Window
<1>2. w = NoWindow => w.size = 0
    BY DEF NoWindow
<1> QED
    BY <1>1, <1>2 DEF WindowOK

LEMMA CuttableTaken ==
    ASSUME NEW P, NEW w, WindowOK(w), w.size # 0, Cuttable(P, w),
           NEW Q, NEW s, NEW size \in Nat \ {0}, NEW mem, Taken(P, Q, s, size, mem),
           ~mem \/ s % Granule = 0 \/ ~InPool(Q, w.base)
    PROVE  Cuttable(Q, w)
<1> DEFINE a == w.base
           t == s + size
<1> SUFFICES ASSUME InPool(Q, a)
             PROVE  \E e \in Addresses :
                       /\ a < e /\ ~InPool(Q, e)
                       /\ \A x \in a .. e - 1 : InPool(Q, x)
                       /\ e % Granule = 0 \/ e = w.limit
    BY DEF Cuttable
<1>1. a \in Nat /\ a < Top /\ Top \in Nat
    BY Sizes, WindowFacts
<1>2. s \in Nat /\ t \in Nat /\ s < t /\ t <= Top
    BY DEF Taken
<1> HIDE DEF a, t
<1>3. a \in Addresses /\ s \in Addresses /\ \A x \in Addresses : x \in Nat /\ x <= Top
    BY <1>1, <1>2 DEF Addresses
<1>4. /\ \A x \in Addresses : InPool(Q, x) => InPool(P, x) /\ ~Inside(x, s, t)
      /\ mem => \A x \in Addresses : InPool(P, x) /\ ~Inside(x, s, t) => InPool(Q, x)
    BY DEF Taken, t
<1>5. InPool(P, a) /\ ~Inside(a, s, t)
    BY <1>3, <1>4
<1>6. PICK e \in Addresses : /\ a < e /\ ~InPool(P, e)
                             /\ \A x \in a .. e - 1 : InPool(P, x)
                             /\ e % Granule = 0 \/ e = w.limit
    BY <1>5 DEF Cuttable, a
<1>7. ~InPool(Q, e)
    BY <1>4, <1>6
<1>8. CASE mem /\ Inside(s, a, e)
    <2>1. s % Granule = 0
        BY <1>8 DEF a
    <2>2. a < s /\ s < e
        BY <1>1, <1>2, <1>5, <1>8 DEF Inside
    <2>3. ~InPool(Q, s)
        BY <1>2, <1>3, <1>4 DEF Inside
    <2>4. ASSUME NEW x \in a .. s - 1
          PROVE  InPool(Q, x)
        <3>1. x \in Addresses /\ ~Inside(x, s, t) /\ x \in a .. e - 1
            BY <1>1, <1>2, <1>3, <1>6, <2>2 DEF Addresses, Inside
        <3> QED
            BY <1>4, <1>6, <1>8, <3>1
    <2> QED
        BY <1>3, <2>1, <2>2, <2>3, <2>4
<1>9. CASE mem /\ ~Inside(s, a, e)
    <2>1. t <= a \/ e <= s
        BY <1>1, <1>2, <1>3, <1>5, <1>9 DEF Inside
    <2>2. ASSUME NEW x \in a .. e - 1
          PROVE  InPool(Q, x)
        <3>1. x \in Addresses /\ ~Inside(x, s, t)
            BY <1>1, <1>2, <1>3, <1>6, <2>1 DEF Addresses, Inside
        <3> QED
            BY <1>4, <1>6, <1>9, <3>1
    <2> QED
        BY <1>6, <1>7, <2>2
<1>10. CASE ~mem
    <2>1. PICK lo, hi \in Addresses : lo <= s /\ t <= hi /\ Lost(P, Q, lo, hi)
        BY <1>10 DEF Taken, t
    <2>2. /\ ~InPool(P, hi) /\ (lo = 0 \/ ~InPool(P, lo - 1)) /\ lo \in Nat /\ hi \in Nat
          /\ \A x \in Addresses : InPool(Q, x) <=> InPool(P, x) /\ ~Inside(x, lo, hi)
        BY <1>3, <2>1 DEF Lost
    <2>3. ~Inside(a, lo, hi)
        BY <1>3, <2>2
    <2>4. hi <= a \/ e <= lo
        <3> SUFFICES ASSUME a < lo, lo < e
                     PROVE  FALSE
            BY <1>1, <1>3, <2>2, <2>3 DEF Inside
        <3>1. lo - 1 \in a .. e - 1 /\ lo # 0
            BY <1>1, <1>3, <2>2
        <3> QED
            BY <1>6, <2>2, <3>1
    <2>5. ASSUME NEW x \in a .. e - 1
          PROVE  InPool(Q, x)
        <3>1. x \in Addresses /\ ~Inside(x, lo, hi)
            BY <1>1, <1>3, <1>6, <2>2, <2>4 DEF Addresses, Inside
        <3> QED
            BY <1>6, <2>2, <3>1
    <2> QED
        BY <1>6, <1>7, <2>5
<1> QED
    BY <1>8, <1>9, <1>10

\* A size that does not divide the granule is a multiple of it.
PowerOfTwo(size) == size \in Nat \ {0} /\ (size % Granule = 0 \/ Granule % size = 0)

\* A small BAR is put at the start of the window if that is free, a large one at
\* the start of a granule.
LEMMA CuttableBar ==
    ASSUME NEW P, Canon(P), NEW w, WindowOK(w), w.size # 0, Cuttable(P, w),
           \A x \in Addresses : InPool(P, x) => w.base <= x /\ x < w.limit,
           NEW size, PowerOfTwo(size), NEW mem, NEW r, r = pci_allocate_mem32(P, size, mem)
    PROVE  Cuttable(r.blocks, w)
<1> DEFINE a == w.base
<1>0. /\ Granule \in Nat \ {0} /\ Low % Granule = 0 /\ Top % Granule = 0
      /\ Top \in Nat /\ Low \in Nat /\ size \in Nat \ {0}
    BY Sizes DEF PowerOfTwo
<1>1. /\ a \in Nat /\ w.limit \in Nat /\ a < w.limit /\ w.limit < Top /\ Low <= a
      /\ a % Granule = 0 /\ (w.limit % Granule = 0 \/ w.limit = Top - 1)
    BY WindowFacts
<1> HIDE DEF a
<1>2. \A x \in Addresses : InPool(P, x) => a <= x /\ x < w.limit /\ Low <= x /\ x \in Nat
    BY <1>0, <1>1 DEF a, Addresses
<1>3. /\ r.ok \in BOOLEAN
      /\ ~r.ok => r.blocks = P
      /\ r.ok => Taken(P, r.blocks, r.base, size, mem)
      /\ r.ok => \E k \in 1 .. Len(P) :
                    /\ r.base = StartIn(P[k], size, Low)
                    /\ \A j \in 1 .. Len(P) : Fits(P[j], size, size, Low, Top - 1) => k <= j
    BY <1>0, <1>2, Mem32Effect
<1>4. CASE ~r.ok
    BY <1>3, <1>4
<1>5. CASE r.ok
    <2>1. PICK k \in 1 .. Len(P) :
                    /\ r.base = StartIn(P[k], size, Low)
                    /\ \A j \in 1 .. Len(P) : Fits(P[j], size, size, Low, Top - 1) => k <= j
        BY <1>3, <1>5
    <2>2. ASSUME NEW j \in 1 .. Len(P)
          PROVE  /\ P[j].base \in Nat /\ Limit(P[j]) \in Nat /\ P[j].base < Limit(P[j]) /\ Limit(P[j]) <= Top
                 /\ a <= P[j].base /\ ~InPool(P, Limit(P[j])) /\ Limit(P[j]) \in Addresses
                 /\ \A x \in Addresses : Inside(x, P[j].base, Limit(P[j])) => InPool(P, x)
                 /\ StartIn(P[j], size, Low) = RoundUp(P[j].base, size)
        <3> DEFINE b == P[j].base
                   e == Limit(P[j])
        <3>1. b \in Nat /\ e \in Nat /\ b < e /\ e <= Top /\ ~InPool(P, e)
              /\ \A x \in Addresses : Inside(x, b, e) => InPool(P, x)
            BY BlockEdges
        <3>2. StartIn(P[j], size, Low) = IF RoundUp(b, size) < Low THEN Low ELSE RoundUp(b, size)
            BY DEF StartIn
        <3> HIDE DEF b, e
        <3>3. b \in Addresses /\ e \in Addresses /\ Inside(b, b, e)
            BY <1>0, <3>1 DEF Addresses, Inside
        <3>4. a <= b /\ Low <= b
            BY <1>2, <3>1, <3>3
        <3>5. RoundUp(b, size) \in Nat /\ b <= RoundUp(b, size)
            BY <1>0, <3>1, Rounded
        <3>6. ~(RoundUp(b, size) < Low)
            BY <1>0, <3>1, <3>4, <3>5
        <3> QED
            BY <3>1, <3>2, <3>3, <3>4, <3>6 DEF b, e
    <2>3. ASSUME size % Granule = 0
          PROVE  r.base % Granule = 0
        <3>1. r.base = RoundUp(P[k].base, size)
            BY <2>1, <2>2
        <3>2. r.base \in Nat /\ r.base % size = 0
            <4> DEFINE b == P[k].base
            <4>1. b \in Nat
                BY <2>2
            <4> HIDE DEF b
            <4>2. RoundUp(b, size) \in Nat /\ RoundUp(b, size) % size = 0
                BY <1>0, <4>1, Rounded
            <4> QED
                BY <3>1, <4>2 DEF b
        <3> QED
            BY <1>0, <2>3, <3>2, MultipleOf
    <2>4. ASSUME size % Granule # 0, InPool(P, a)
          PROVE  r.base = a
        <3>1. Granule % size = 0 /\ size < Granule
            <4>1. Granule % size = 0 /\ size # Granule
                BY <1>0, <2>4 DEF PowerOfTwo
            <4>2. size <= Granule
                <5>1. Granule % size = 0 /\ (size > Granule => Granule % size = Granule)
                    BY <1>0, <4>1
                <5> QED
                    BY <1>0, <5>1
            <4> QED
                BY <1>0, <4>1, <4>2
        <3>2. PICK j \in 1 .. Len(P) : Holds(P[j], a)
            BY <2>4 DEF InPool
        <3>3. P[j].base = a
            BY <1>1, <2>2, <3>2 DEF Holds
        <3>4. PICK e \in Addresses : /\ a < e /\ ~InPool(P, e)
                                     /\ \A x \in a .. e - 1 : InPool(P, x)
                                     /\ e % Granule = 0 \/ e = w.limit
            BY <2>4 DEF Cuttable, a
        <3>5. e <= Limit(P[j])
            <4> SUFFICES ASSUME Limit(P[j]) < e
                         PROVE  FALSE
                BY <1>0, <2>2 DEF Addresses
            <4>1. Limit(P[j]) \in a .. e - 1
                BY <1>0, <1>1, <2>2, <3>3 DEF Addresses
            <4> QED
                BY <2>2, <3>4, <4>1
        <3>6. a + size <= e
            <4>0. e \in Nat
                BY <1>0 DEF Addresses
            <4>1. CASE e % Granule = 0
                <5>1. a + Granule <= e
                    BY <1>0, <1>1, <3>4, <4>0, <4>1, Multiples
                <5> QED
                    BY <1>0, <1>1, <3>1, <4>0, <5>1
            <4>2. CASE e % Granule # 0
                <5>1. e = Top - 1
                    BY <1>1, <3>4, <4>2
                <5>0. a < Top
                    BY <1>0, <1>1
                <5>2. a + Granule <= Top
                    BY <1>0, <1>1, <5>0, Multiples
                <5> QED
                    BY <1>0, <1>1, <3>1, <5>1, <5>2
            <4> QED
                BY <4>1, <4>2
        <3>7. a % size = 0
            BY <1>0, <1>1, <3>1, MultipleOf
        <3>8. StartIn(P[j], size, Low) = a
            BY <1>0, <1>1, <2>2, <3>3, <3>7, Rounded
        <3>9. Fits(P[j], size, size, Low, Top - 1)
            <4>1. a <= Top - 1 /\ a + size <= Limit(P[j])
                <5>1. e \in Nat /\ Limit(P[j]) \in Nat
                    BY <1>0, <2>2 DEF Addresses
                <5>2. a <= Top - 1
                    BY <1>0, <1>1
                <5>3. a \in Nat /\ size \in Nat
                    BY <1>0, <1>1
                <5> QED
                    BY <3>5, <3>6, <5>1, <5>2, <5>3
            <4> QED
                BY <3>8, <4>1 DEF Fits
        <3>10. k <= j
            BY <2>1, <3>9
        <3>11. k = j
            <4> SUFFICES ASSUME k < j
                         PROVE  FALSE
                BY <3>10, CanonFacts
            <4>1. Limit(P[k]) < P[j].base
                BY CanonFacts
            <4>2. /\ a <= P[k].base /\ P[k].base < Limit(P[k]) /\ P[k].base \in Nat /\ Limit(P[k]) \in Nat
                BY <2>2
            <4> QED
                BY <1>1, <3>3, <4>1, <4>2
        <3> QED
            BY <2>1, <3>8, <3>11
    <2>5. Taken(P, r.blocks, r.base, size, mem)
        BY <1>3, <1>5
    <2>6. a \in Addresses /\ Inside(a, a, a + size)
        BY <1>0, <1>1 DEF Addresses, Inside
    <2>7. r.base = a => ~InPool(r.blocks, a)
        BY <2>5, <2>6 DEF Taken
    <2>8. InPool(r.blocks, a) => InPool(P, a)
        BY <2>5, <2>6 DEF Taken
    <2>9. r.base % Granule = 0 \/ ~InPool(r.blocks, a)
        BY <2>3, <2>4, <2>7, <2>8
    <2>10. PICK Q, s : Q = r.blocks /\ s = r.base
        OBVIOUS
    <2>11. ~mem \/ s % Granule = 0 \/ ~InPool(Q, w.base)
        BY <2>9, <2>10 DEF a
    <2>12. Taken(P, Q, s, size, mem)
        BY <2>5, <2>10
    <2>13. Cuttable(Q, w)
        BY <1>0, <2>11, <2>12, CuttableTaken
    <2> QED
        BY <2>10, <2>13
<1> QED
    BY <1>3, <1>4, <1>5

-----------------------------------------------------------------------------
(* The invariant when the pool of the bus that is probed gives away an      *)
(* address.                                                                 *)

LEMMA BusFacts ==
    ASSUME NEW d \in Nat, NEW B, BusTypes(B, d)
    PROVE  /\ Len(B) \in Nat \ {0} /\ Len(B) \in 1 .. Len(B)
           /\ \A k \in 1 .. Len(B) : B[k] \in BusSet(d) /\ B[k].bus \in 0 .. MaxBus /\ B[k].id \in 0 .. d
           /\ \A k \in 2 .. Len(B) : k \in 1 .. Len(B) /\ k - 1 \in 1 .. Len(B) /\ k - 1 # k
           /\ \A k \in 1 .. Len(B) : k < Len(B) => k + 1 \in 1 .. Len(B) /\ k + 1 \in 2 .. Len(B)
<1>1. B \in Seq(BusSet(d)) /\ Len(B) > 0
    BY DEF BusTypes
<1>2. Len(B) \in Nat /\ \A k \in 1 .. Len(B) : B[k] \in BusSet(d)
    BY <1>1, LenProperties, ElementOfSeq
<1>3. \A b \in BusSet(d) : b.bus \in 0 .. MaxBus /\ b.id \in 0 .. d
    BY DEF BusSet
<1> QED
    BY <1>1, <1>2, <1>3

\* D is B, but for the pool and what is left to do on the last bus.
TopPool(B, D) ==
    /\ Len(D) = Len(B)
    /\ \A k \in 1 .. Len(B) : D[k].bus = B[k].bus /\ D[k].id = B[k].id /\ D[k].window = B[k].window
    /\ \A k \in 1 .. Len(B) : k # Len(B) => D[k].mem = B[k].mem

\* The bus numbers are the same, too.
OnTop(B, D) ==
    /\ TopPool(B, D)
    /\ \A k \in 1 .. Len(B) : D[k].range = B[k].range /\ D[k].numbers = B[k].numbers

\* What is taken from the pool of the last bus, and who gets it.
Given(B, D, N, d) ==
    LET P == B[Len(B)].mem
        Q == D[Len(B)].mem
    IN
    /\ Canon(Q)
    /\ \A x \in Addresses : InPool(Q, x) => InPool(P, x)
    /\ Len(B) > 1 => Cuttable(Q, B[Len(B)].window)
    /\ \A c \in N : /\ c \in ClaimSet /\ c.bus = B[Len(B)].bus
                    /\ c.id <= d /\ c.lo <= c.hi
                    /\ c.part = "window" => \A k \in 1 .. Len(B) : B[k].id # c.id
                    /\ \A x \in Addresses : c.lo <= x /\ x <= c.hi => InPool(P, x) /\ ~InPool(Q, x)
    /\ \A c, e \in N : c = e

LEMMA ClaimFacts ==
    ASSUME NEW c \in ClaimSet, c.lo <= c.hi
    PROVE  /\ c.lo \in Addresses /\ c.hi \in Addresses /\ c.lo \in Nat /\ c.hi \in Nat /\ c.hi <= Top
           /\ c.lo <= c.lo /\ c.hi <= c.hi /\ c.id \in Nat
    BY Sizes DEF ClaimSet, Addresses

LEMMA PoolsTop ==
    ASSUME NEW d \in Nat, NEW B, BusTypes(B, d), PoolsOK(B), NEW D, TopPool(B, D), NEW N, NEW f, Given(B, D, N, f)
    PROVE  PoolsOK(D)
<1> DEFINE n == Len(B)
<1>1. n \in Nat \ {0} /\ Len(D) = n /\ n \in 1 .. n /\ \A k \in 2 .. n : k \in 1 .. n /\ k > 1
    BY BusFacts DEF TopPool
<1> HIDE DEF n
<1>2. \A k \in 1 .. n : D[k].window = B[k].window /\ (k # n => D[k].mem = B[k].mem)
    BY DEF TopPool, n
<1>3. /\ Canon(D[n].mem)
      /\ \A x \in Addresses : InPool(D[n].mem, x) => InPool(B[n].mem, x)
      /\ n > 1 => Cuttable(D[n].mem, B[n].window)
    BY DEF Given, n
<1>4. /\ \A k \in 1 .. n : Canon(B[k].mem)
      /\ \A k \in 2 .. n : /\ WindowOK(B[k].window) /\ Cuttable(B[k].mem, B[k].window)
                           /\ \A x \in Addresses : InPool(B[k].mem, x) =>
                                 B[k].window.base <= x /\ x < B[k].window.limit
    BY DEF PoolsOK, n
<1>5. \A k \in 1 .. n : Canon(D[k].mem)
    BY <1>2, <1>3, <1>4
<1>6. ASSUME NEW k \in 2 .. n
      PROVE  /\ WindowOK(D[k].window) /\ Cuttable(D[k].mem, D[k].window)
             /\ \A x \in Addresses : InPool(D[k].mem, x) =>
                   D[k].window.base <= x /\ x < D[k].window.limit
    <2>1. CASE k = n
        BY <1>1, <1>2, <1>3, <1>4, <2>1
    <2>2. CASE k # n
        BY <1>1, <1>2, <1>4, <2>2
    <2> QED
        BY <2>1, <2>2
<1> QED
    BY <1>1, <1>5, <1>6 DEF PoolsOK

LEMMA WindowsTop ==
    ASSUME NEW d \in Nat, NEW B, BusTypes(B, d), NEW C, WindowsOK(B, C),
           NEW D, TopPool(B, D), NEW N, NEW f, Given(B, D, N, f)
    PROVE  WindowsOK(D, C \union N)
<1> DEFINE n == Len(B)
<1>0. n \in Nat \ {0} /\ Len(D) = n
    BY BusFacts DEF TopPool
<1> HIDE DEF n
<1>1. n \in Nat \ {0} /\ Len(D) = n /\ \A k \in 2 .. n : k \in 1 .. n /\ k - 1 \in 1 .. n /\ k - 1 # n
    BY <1>0
<1>2. \A k \in 1 .. n : /\ D[k].window = B[k].window /\ D[k].id = B[k].id /\ D[k].bus = B[k].bus
                        /\ k # n => D[k].mem = B[k].mem
    BY DEF TopPool, n
<1>3. \A c \in N : c.part = "window" => \A k \in 1 .. n : B[k].id # c.id
    BY DEF Given, n
<1>4. \A k \in 2 .. n :
        /\ \A x \in Addresses :
              B[k].window.base <= x /\ x < B[k].window.base + RoundUp(B[k].window.size, Granule) =>
                  InPool(B[k - 1].mem, x)
        /\ B[k].window.size > 0 => WindowClaim(B[k].id, B[k - 1].bus, B[k].window) \in C
        /\ \A c \in C : c.id = B[k].id /\ c.part = "window" =>
              B[k].window.size > 0 /\ c = WindowClaim(B[k].id, B[k - 1].bus, B[k].window)
    BY DEF WindowsOK, n
<1> SUFFICES ASSUME NEW k \in 2 .. n
             PROVE  /\ \A x \in Addresses :
                         D[k].window.base <= x /\ x < D[k].window.base + RoundUp(D[k].window.size, Granule) =>
                            InPool(D[k - 1].mem, x)
                    /\ D[k].window.size > 0 => WindowClaim(D[k].id, D[k - 1].bus, D[k].window) \in C \union N
                    /\ \A c \in C \union N : c.id = D[k].id /\ c.part = "window" =>
                         D[k].window.size > 0 /\ c = WindowClaim(D[k].id, D[k - 1].bus, D[k].window)
    BY <1>1 DEF WindowsOK
<1>5. D[k].window = B[k].window /\ D[k].id = B[k].id /\ D[k - 1].bus = B[k - 1].bus /\ D[k - 1].mem = B[k - 1].mem
    BY <1>1, <1>2
<1>6. k \in 1 .. n
    BY <1>1
<1> QED
    BY <1>3, <1>4, <1>5, <1>6

LEMMA ClaimsTop ==
    ASSUME NEW d \in Nat, NEW B, BusTypes(B, d), NEW C, ClaimTypes(C, d), PoolsOK(B), ClaimsOK(B, C),
           NEW D, TopPool(B, D), NEW N, NEW f, Given(B, D, N, f)
    PROVE  ClaimsOK(D, C \union N)
<1> DEFINE n == Len(B)
           P == B[n].mem
           Q == D[n].mem
<1>1. /\ n \in Nat \ {0} /\ Len(D) = n /\ n \in 1 .. n
      /\ \A k \in 1 .. n : k < n => k + 1 \in 1 .. n
      /\ \A j, k \in 1 .. n : j # k => B[j].bus # B[k].bus
    BY BusFacts DEF TopPool, BusTypes
<1> HIDE DEF n
<1>2. \A k \in 1 .. n : /\ D[k].window = B[k].window /\ D[k].id = B[k].id /\ D[k].bus = B[k].bus
                        /\ k # n => D[k].mem = B[k].mem
    BY DEF TopPool, n
<1>3. /\ \A x \in Addresses : InPool(Q, x) => InPool(P, x)
      /\ \A c \in N : /\ c \in ClaimSet /\ c.bus = B[n].bus /\ c.lo <= c.hi
                      /\ \A x \in Addresses : c.lo <= x /\ x <= c.hi => InPool(P, x) /\ ~InPool(Q, x)
      /\ \A c, e \in N : c = e
    BY DEF Given, n
<1>4. \A k \in 1 .. n, c \in C : c.bus = B[k].bus =>
          /\ ~Ahead(B, k, c) =>
                \A x \in Addresses : c.lo <= x /\ x <= c.hi => ~InPool(B[k].mem, x)
          /\ k > 1 => B[k].window.base <= c.lo /\ c.hi < B[k].window.limit
    BY DEF ClaimsOK, n
<1>5. \A k \in 1 .. n : \A c : Ahead(D, k, c) <=> Ahead(B, k, c)
    BY <1>1, <1>2 DEF Ahead, n
<1>6. \A k \in 1 .. n : \A x \in Addresses : InPool(D[k].mem, x) => InPool(B[k].mem, x)
    BY <1>2, <1>3
<1>7. \A c : ~Ahead(B, n, c)
    BY <1>1 DEF Ahead, n
<1>8. \A c \in C \union N : /\ c \in ClaimSet /\ c.lo <= c.hi /\ c.lo \in Addresses /\ c.hi \in Addresses
                            /\ c.lo \in Nat /\ c.hi \in Nat
    BY <1>3, ClaimFacts DEF ClaimTypes
<1>9. ASSUME NEW k \in 1 .. n, NEW c \in C \union N, c.bus = D[k].bus
      PROVE  /\ ~Ahead(D, k, c) =>
                   \A x \in Addresses : c.lo <= x /\ x <= c.hi => ~InPool(D[k].mem, x)
             /\ k > 1 => D[k].window.base <= c.lo /\ c.hi < D[k].window.limit
    <2>1. CASE c \in C
        BY <1>2, <1>4, <1>5, <1>6, <1>9, <2>1
    <2>2. CASE c \in N
        <3>1. k = n
            BY <1>1, <1>2, <1>3, <1>9, <2>2
        <3>2. \A x \in Addresses : c.lo <= x /\ x <= c.hi => InPool(P, x) /\ ~InPool(Q, x)
            BY <1>3, <2>2
        <3>3. InPool(P, c.lo) /\ InPool(P, c.hi)
            BY <1>8, <3>2
        <3>4. k > 1 => B[n].window.base <= c.lo /\ c.hi < B[n].window.limit
            <4>1. k > 1 => n \in 2 .. n
                BY <1>1, <3>1
            <4> QED
                BY <1>8, <3>3, <4>1 DEF PoolsOK, n
        <3> QED
            BY <1>2, <3>1, <3>2, <3>4
    <2> QED
        BY <2>1, <2>2
<1>10. ASSUME NEW c \in C \union N, NEW e \in C \union N, c.bus = e.bus, c # e
       PROVE  c.hi < e.lo \/ e.hi < c.lo
    <2>1. CASE c \in C /\ e \in C
        BY <1>10, <2>1 DEF ClaimsOK
    <2>2. ASSUME NEW a \in C, NEW b \in N, a.bus = b.bus
          PROVE  a.hi < b.lo \/ b.hi < a.lo
        <3>1. \A x \in Addresses : a.lo <= x /\ x <= a.hi => ~InPool(P, x)
            BY <1>1, <1>3, <1>4, <1>7, <2>2
        <3>2. \A x \in Addresses : b.lo <= x /\ x <= b.hi => InPool(P, x)
            BY <1>3
        <3>3. /\ a.lo <= a.hi /\ a.lo \in Addresses /\ a.lo \in Nat /\ a.hi \in Nat
              /\ b.lo <= b.hi /\ b.lo \in Addresses /\ b.lo \in Nat /\ b.hi \in Nat
            BY <1>8
        <3>4. ~(b.lo <= a.lo /\ a.lo <= b.hi)
            BY <3>1, <3>2, <3>3
        <3>5. ~(a.lo <= b.lo /\ b.lo <= a.hi)
            BY <3>1, <3>2, <3>3
        <3> QED
            BY <3>3, <3>4, <3>5
    <2>3. CASE c \in C /\ e \in N
        BY <1>10, <2>2, <2>3
    <2>4. CASE c \in N /\ e \in C
        BY <1>10, <2>2, <2>4
    <2>5. ~(c \in N /\ e \in N)
        BY <1>3, <1>10
    <2> QED
        BY <2>1, <2>3, <2>4, <2>5
<1> QED
    BY <1>1, <1>9, <1>10 DEF ClaimsOK

LEMMA NumbersTop ==
    ASSUME NEW d \in Nat, NEW B, BusTypes(B, d), NEW R, NEW S, NumInv(B, R, S), NEW D, OnTop(B, D)
    PROVE  NumInv(D, R, S)
<1> DEFINE n == Len(B)
<1>1. /\ n \in Nat \ {0} /\ Len(D) = n
      /\ \A k \in 2 .. n : k \in 1 .. n /\ k - 1 \in 1 .. n
      /\ \A k \in 1 .. n : k < n => k + 1 \in 1 .. n
      /\ \A k \in 1 .. n, j \in 2 .. n : j \in 2 .. k => j \in 1 .. n
    BY BusFacts DEF OnTop, TopPool
<1>2. \A k \in 1 .. n : /\ D[k].id = B[k].id /\ D[k].bus = B[k].bus
                        /\ D[k].range = B[k].range /\ D[k].numbers = B[k].numbers
    BY DEF OnTop, TopPool
<1>3. \A k \in 1 .. n : \A j \in 2 .. k : j \in 1 .. n
    BY <1>1
<1> HIDE DEF n
<1>4. NumbersOK(B) /\ RangesOK(B, R, S) /\ UsedOK(B, R, S) /\ RoutesOK(B, R, S)
    BY DEF NumInv
<1>5. NumbersOK(D)
    BY <1>1, <1>2, <1>3, <1>4 DEF NumbersOK, n
<1>6. RangesOK(D, R, S)
    BY <1>1, <1>2, <1>4 DEF RangesOK, n
<1>7. UsedOK(D, R, S)
    BY <1>1, <1>2, <1>4 DEF UsedOK, n
<1>8. RoutesOK(D, R, S)
    BY <1>1, <1>2, <1>4 DEF RoutesOK, n
<1> QED
    BY <1>5, <1>6, <1>7, <1>8 DEF NumInv

\* The route to a bus is in use.
LEMMA RouteOf ==
    ASSUME NEW d \in Nat, NEW B, BusTypes(B, d), NEW R, NEW S, RouteTypes(R, S, d), RangesOK(B, R, S),
           NEW k \in 1 .. Len(B)
    PROVE  /\ B[k].bus \in Used(R, S)
           /\ k > 1 => \E r \in Live(R, S) :
                          /\ r.id = B[k].id /\ r.bus = B[k - 1].bus /\ r.sec = B[k].bus
                          /\ r.sec = B[k].range.base /\ r.sub = B[k].range.limit - 1
           /\ \A r \in Live(R, S) : r.sec = B[k].bus => k > 1 /\ r.id = B[k].id
<1>1. CASE k = 1
    <2>1. B[k].bus = 0
        BY <1>1 DEF BusTypes
    <2>2. \A r \in Live(R, S) : r.sec > 0
        BY DEF RouteTypes
    <2> QED
        BY <1>1, <2>1, <2>2 DEF Used
<1>2. CASE k # 1
    <2>1. k \in 2 .. Len(B) /\ k > 1
        BY <1>2, BusFacts
    <2> DEFINE q == [id |-> B[k].id, bus |-> B[k - 1].bus, sec |-> B[k].range.base, sub |-> B[k].range.limit - 1]
    <2>2. q \in R /\ B[k].id \notin S /\ B[k].range.base = B[k].bus
        BY <2>1 DEF RangesOK
    <2>3. q.id = B[k].id /\ q.bus = B[k - 1].bus /\ q.sec = B[k].range.base /\ q.sub = B[k].range.limit - 1
        OBVIOUS
    <2> HIDE DEF q
    <2>4. q \in Live(R, S)
        BY <2>2, <2>3 DEF Live
    <2>5. \A r \in Live(R, S) : r.sec = q.sec => r = q
        BY <2>4 DEF RouteTypes
    <2> QED
        BY <2>1, <2>2, <2>3, <2>4, <2>5 DEF Used
<1> QED
    BY <1>1, <1>2

LEMMA ReachTop ==
    ASSUME NEW d \in Nat, NEW B, BusTypes(B, d), NEW C, NEW R, NEW S, RouteTypes(R, S, d),
           PoolsOK(B), WindowsOK(B, C), RangesOK(B, R, S), ReachInv(C, R, S),
           NEW D, NEW N, NEW f, Given(B, D, N, f)
    PROVE  ReachInv(C \union N, R, S)
<1> DEFINE n == Len(B)
<1>1. n \in Nat \ {0} /\ n \in 1 .. n /\ (n > 1 => n \in 2 .. n)
    BY BusFacts
<1> HIDE DEF n
<1>2. \A c \in N : /\ c \in ClaimSet /\ c.bus = B[n].bus /\ c.lo <= c.hi
                   /\ \A x \in Addresses : c.lo <= x /\ x <= c.hi => InPool(B[n].mem, x)
    BY DEF Given, n
<1>3. /\ B[n].bus \in Used(R, S)
      /\ \A r \in Live(R, S) : r.sec = B[n].bus => n > 1 /\ r.id = B[n].id
    BY <1>1, RouteOf DEF n
<1> SUFFICES ASSUME NEW c \in C \union N
             PROVE  /\ c.bus \in Used(R, S)
                    /\ \A r \in Live(R, S) : c.bus = r.sec =>
                          \E w \in C \union N : /\ w.id = r.id /\ w.part = "window"
                                                /\ w.lo <= c.lo /\ c.hi <= w.hi
    BY DEF ReachInv
<1>4. CASE c \in C
    BY <1>4 DEF ReachInv
<1>5. CASE c \in N
    <2>1. c.bus \in Used(R, S)
        BY <1>2, <1>3, <1>5
    <2>2. ASSUME NEW r \in Live(R, S), c.bus = r.sec
          PROVE  \E w \in C \union N : /\ w.id = r.id /\ w.part = "window"
                                       /\ w.lo <= c.lo /\ c.hi <= w.hi
        <3>1. n \in 2 .. n /\ r.id = B[n].id
            BY <1>1, <1>2, <1>3, <1>5, <2>2
        <3> DEFINE w == B[n].window
                   z == RoundUp(w.size, Granule)
                   v == WindowClaim(B[n].id, B[n - 1].bus, w)
        <3>2. /\ WindowOK(w)
              /\ \A x \in Addresses : InPool(B[n].mem, x) => w.base <= x /\ x < w.limit
              /\ w.size > 0 => v \in C
            BY <3>1 DEF PoolsOK, WindowsOK, n
        <3>3. /\ c.lo \in Addresses /\ c.hi \in Addresses /\ c.lo \in Nat /\ c.hi \in Nat /\ c.lo <= c.hi
              /\ c.lo <= c.lo /\ c.hi <= c.hi
            BY <1>2, <1>5, ClaimFacts
        <3>4. w.base <= c.lo /\ c.hi < w.limit
            BY <1>2, <1>5, <3>2, <3>3
        <3>5. v.id = B[n].id /\ v.part = "window" /\ v.lo = w.base
              /\ v.hi = w.base + RoundUp(w.limit - w.base, Granule) - 1
            BY DEF WindowClaim
        <3> HIDE DEF w, v
        <3>6. w.base \in Nat /\ w.limit \in Nat /\ w.size \in Nat /\ w.limit = w.base + w.size
            BY <3>2, WindowFacts
        <3>7. z \in Nat /\ w.size <= z /\ w.limit - w.base = w.size
            <4> DEFINE y == w.size
                       b == w.base
                       l == w.limit
            <4>1. y \in Nat /\ b \in Nat /\ l \in Nat /\ l = b + y
                BY <3>6
            <4> HIDE DEF y, b, l
            <4>2. RoundUp(y, Granule) \in Nat /\ y <= RoundUp(y, Granule)
                BY <4>1, Sizes, Rounded
            <4>3. l - b = y
                BY <4>1
            <4> QED
                BY <4>2, <4>3 DEF y, b, l
        <3>8. v.hi = w.base + z - 1
            BY <3>5, <3>7
        <3> HIDE DEF z
        <3>9. w.size > 0 /\ c.hi <= v.hi
            BY <3>3, <3>4, <3>6, <3>7, <3>8
        <3> QED
            BY <3>1, <3>2, <3>4, <3>5, <3>9
    <2> QED
        BY <2>1, <2>2
<1> QED
    BY <1>4, <1>5

LEMMA TopStep ==
    ASSUME NEW d \in Nat, NEW e \in Nat, d <= e, NEW B, NEW C, NEW R, NEW S, AllInv(B, C, R, S, d),
           NEW D, BusTypes(D, e), OnTop(B, D), NEW N, Given(B, D, N, e)
    PROVE  AllInv(D, C \union N, R, S, e)
<1>1. /\ BusTypes(B, d) /\ ClaimTypes(C, d) /\ RouteTypes(R, S, d) /\ ReachInv(C, R, S)
      /\ PoolsOK(B) /\ WindowsOK(B, C) /\ ClaimsOK(B, C) /\ NumInv(B, R, S) /\ RangesOK(B, R, S)
    BY DEF AllInv, MemInv, NumInv
<1>2. PoolsOK(D) /\ WindowsOK(D, C \union N) /\ ClaimsOK(D, C \union N)
    BY <1>1, PoolsTop, WindowsTop, ClaimsTop DEF OnTop
<1>3. NumInv(D, R, S)
    BY <1>1, NumbersTop
<1>4. ReachInv(C \union N, R, S)
    BY <1>1, ReachTop
<1>5. ClaimTypes(C \union N, e)
    <2>1. \A c \in C : c \in ClaimSet /\ c.lo <= c.hi /\ c.id <= e
        BY <1>1, ClaimFacts DEF ClaimTypes
    <2>2. \A c \in N : c \in ClaimSet /\ c.lo <= c.hi /\ c.id <= e
        BY DEF Given
    <2> QED
        BY <2>1, <2>2 DEF ClaimTypes
<1>6. RouteTypes(R, S, e)
    <2>1. \A r \in R : r.id \in Nat /\ r.id <= d
        BY <1>1, Sizes, PciProbeAssumption DEF RouteTypes
    <2>2. \A s \in S : s \in Nat /\ s <= d
        BY <1>1 DEF RouteTypes
    <2>3. \A r \in R : r.id <= e
        BY <2>1
    <2>4. \A s \in S : s <= e
        BY <2>2
    <2> QED
        BY <1>1, <2>3, <2>4 DEF RouteTypes
<1> QED
    BY <1>2, <1>3, <1>4, <1>5, <1>6 DEF AllInv, MemInv

\* Nothing is lost if what leaves the pool gets an owner.
LEMMA LostTop ==
    ASSUME NEW d \in Nat, NEW B, BusTypes(B, d), NEW C, LostInv(B, C), NEW D, TopPool(B, D), NEW N,
           NEW f, Given(B, D, N, f),
           \A x \in Addresses : InPool(B[Len(B)].mem, x) /\ ~InPool(D[Len(B)].mem, x) =>
               \E c \in N : c.lo <= x /\ x <= c.hi
    PROVE  LostInv(D, C \union N)
<1> DEFINE n == Len(B)
<1>1. n \in Nat \ {0} /\ 1 \in 1 .. n /\ Len(D) = n /\ (1 < n => 1 + 1 \in 1 .. n) /\ B[1].bus = 0
    BY BusFacts DEF TopPool, BusTypes
<1> HIDE DEF n
<1>2. \A k \in 1 .. n : D[k].id = B[k].id /\ (k # n => D[k].mem = B[k].mem)
    BY DEF TopPool, n
<1>3. \A c : Ahead(D, 1, c) <=> Ahead(B, 1, c)
    BY <1>1, <1>2 DEF Ahead, n
<1>4. \A c \in N : c.bus = B[n].bus
    BY DEF Given, n
<1> SUFFICES ASSUME NEW x \in Addresses, InPool(MemPool, x)
             PROVE  \/ InPool(D[1].mem, x)
                    \/ \E c \in C \union N : c.bus = 0 /\ ~Ahead(D, 1, c) /\ c.lo <= x /\ x <= c.hi
    BY DEF LostInv
<1>5. CASE InPool(B[1].mem, x) /\ ~InPool(D[1].mem, x)
    <2>1. n = 1
        BY <1>1, <1>2, <1>5
    <2>2. PICK c \in N : c.lo <= x /\ x <= c.hi
        BY <1>5, <2>1 DEF n
    <2>3. c.bus = 0 /\ ~Ahead(D, 1, c)
        BY <1>1, <1>4, <2>1 DEF Ahead
    <2> QED
        BY <2>2, <2>3
<1>6. CASE \E c \in C : c.bus = 0 /\ ~Ahead(B, 1, c) /\ c.lo <= x /\ x <= c.hi
    BY <1>3, <1>6
<1> QED
    BY <1>5, <1>6 DEF LostInv

-----------------------------------------------------------------------------
(* Devices. *)

LEMMA BusSetGrows ==
    ASSUME NEW d \in Nat, NEW e \in Nat, d <= e
    PROVE  BusSet(d) \subseteq BusSet(e)
<1>1. [id : 1 .. d, size : BarSizes] \subseteq [id : 1 .. e, size : BarSizes]
    <2>1. 1 .. d \subseteq 1 .. e
        OBVIOUS
    <2> QED
        BY <2>1
<1>2. Seq([id : 1 .. d, size : BarSizes]) \subseteq Seq([id : 1 .. e, size : BarSizes])
    <2> DEFINE A == [id : 1 .. d, size : BarSizes]
               E == [id : 1 .. e, size : BarSizes]
    <2> HIDE DEF A, E
    <2>1. A \subseteq E
        BY <1>1 DEF A, E
    <2>2. Seq(A) \subseteq Seq(E)
        BY <2>1, SeqMonotonic
    <2> QED
        BY <2>2 DEF A, E
<1>3. 0 .. d \subseteq 0 .. e
    OBVIOUS
<1> QED
    BY <1>2, <1>3 DEF BusSet

\* Another record for the same bus.
SameBus(b, c) == /\ b.bus = c.bus /\ b.id = c.id /\ b.window = c.window
                 /\ b.range = c.range /\ b.numbers = c.numbers

\* Another record for the last bus.
OnLast(B, b) == Front(B) \o <<b>>

LEMMA TopBus ==
    ASSUME NEW d \in Nat, NEW e \in Nat, d <= e, NEW B, BusTypes(B, d),
           NEW b \in BusSet(e), SameBus(b, Last(B))
    PROVE  /\ BusTypes(OnLast(B, b), e) /\ OnTop(B, OnLast(B, b))
           /\ OnLast(B, b)[Len(B)] = b /\ Len(OnLast(B, b)) = Len(B)
           /\ Last(B) = B[Len(B)] /\ Last(B) \in BusSet(d)
<1> DEFINE n == Len(B)
           A == Front(B)
           D == OnLast(B, b)
<1>1. /\ n \in Nat \ {0} /\ n \in 1 .. n /\ B \in Seq(BusSet(e))
      /\ \A k \in 1 .. n : B[k] \in BusSet(e) /\ B[k] \in BusSet(d)
    <2>1. BusSet(d) \subseteq BusSet(e)
        BY BusSetGrows
    <2>2. B \in Seq(BusSet(d))
        BY DEF BusTypes
    <2>3. Seq(BusSet(d)) \subseteq Seq(BusSet(e))
        <3> DEFINE X == BusSet(d)
                   Y == BusSet(e)
        <3> HIDE DEF X, Y
        <3>1. X \subseteq Y
            BY <2>1 DEF X, Y
        <3>2. Seq(X) \subseteq Seq(Y)
            BY <3>1, SeqMonotonic
        <3> QED
            BY <3>2 DEF X, Y
    <2> QED
        BY <2>1, <2>2, <2>3, BusFacts
<1>2. Last(B) = B[n] /\ A = SubSeq(B, 1, n - 1)
    BY DEF Last, Front
<1> HIDE DEF n, A
<1>3. /\ A \in Seq(BusSet(e)) /\ Len(A) = n - 1 /\ \A k \in 1 .. n - 1 : A[k] = B[k]
    <2>1. \A k \in 1 .. n - 1 : k \in 1 .. n /\ B[k] \in BusSet(e)
        BY <1>1
    <2>2. /\ SubSeq(B, 1, n - 1) \in Seq(BusSet(e))
          /\ Len(SubSeq(B, 1, n - 1)) = IF 1 <= n - 1 THEN n - 1 - 1 + 1 ELSE 0
          /\ \A k \in 1 .. n - 1 - 1 + 1 : SubSeq(B, 1, n - 1)[k] = B[1 + k - 1]
        BY <1>1, <2>1, SubSeqProperties
    <2>3. n - 1 - 1 + 1 = n - 1 /\ (~(1 <= n - 1) => n - 1 = 0) /\ \A k \in 1 .. n - 1 : 1 + k - 1 = k
        BY <1>1
    <2> QED
        BY <1>2, <2>2, <2>3
<1>4. <<b>> \in Seq(BusSet(e)) /\ Len(<<b>>) = 1 /\ <<b>>[1] = b
    OBVIOUS
<1> HIDE DEF D
<1>5. /\ D \in Seq(BusSet(e)) /\ Len(D) = n - 1 + 1
      /\ \A k \in 1 .. n - 1 + 1 : D[k] = IF k <= n - 1 THEN A[k] ELSE <<b>>[k - (n - 1)]
    BY <1>3, <1>4, ConcatProperties DEF A, D, OnLast
<1>6. n - 1 + 1 = n /\ ~(n <= n - 1) /\ n - (n - 1) = 1
      /\ \A k \in 1 .. n : k # n => k <= n - 1 /\ k \in 1 .. n - 1
    BY <1>1
<1>7. D[n] = b
    BY <1>1, <1>4, <1>5, <1>6
<1>8. \A k \in 1 .. n : k # n => D[k] = B[k]
    BY <1>3, <1>5, <1>6
<1>9. OnTop(B, D)
    BY <1>1, <1>2, <1>5, <1>6, <1>7, <1>8 DEF OnTop, TopPool, SameBus, n
<1>10. \A k \in 1 .. n : D[k].bus = B[k].bus /\ D[k].id = B[k].id
    BY <1>9 DEF OnTop, TopPool, n
<1>11. BusTypes(D, e)
    <2>1. B[1].bus = 0 /\ \A j, k \in 1 .. n : j # k => B[j].id # B[k].id /\ B[j].bus # B[k].bus
        BY DEF BusTypes, n
    <2>2. 1 \in 1 .. n /\ Len(D) > 0 /\ Len(D) = n
        BY <1>1, <1>5, <1>6
    <2>3. D[1].bus = 0
        BY <1>10, <2>1, <2>2
    <2>4. \A j, k \in 1 .. n : j # k => D[j].id # D[k].id /\ D[j].bus # D[k].bus
        BY ONLY <1>10, <2>1
    <2> QED
        BY <1>5, <2>2, <2>3, <2>4 DEF BusTypes
<1> QED
    BY <1>1, <1>2, <1>5, <1>6, <1>7, <1>9, <1>11 DEF n, D

\* Other work for the last bus, and another pool.
LEMMA BusChanged ==
    ASSUME NEW d \in Nat, NEW e \in Nat, d <= e, NEW b \in BusSet(d), NEW m, Canon(m)
    PROVE  /\ [b EXCEPT !.mem = m] \in BusSet(e)
           /\ [b EXCEPT !.mem = m].mem = m /\ [b EXCEPT !.mem = m].bus = b.bus
           /\ [b EXCEPT !.mem = m].id = b.id /\ [b EXCEPT !.mem = m].window = b.window
           /\ [b EXCEPT !.mem = m].range = b.range /\ [b EXCEPT !.mem = m].numbers = b.numbers
           /\ [b EXCEPT !.mem = m].todo = b.todo
<1>1. b \in BusSet(e) /\ m \in Blocks
    BY BusSetGrows DEF Canon
<1> QED
    BY <1>1 DEF BusSet

LEMMA TodoChanged ==
    ASSUME NEW e \in Nat, NEW b \in BusSet(e), NEW t \in Seq([id : 1 .. e, size : BarSizes])
    PROVE  /\ [b EXCEPT !.todo = t] \in BusSet(e)
           /\ [b EXCEPT !.todo = t].mem = b.mem /\ [b EXCEPT !.todo = t].bus = b.bus
           /\ [b EXCEPT !.todo = t].id = b.id /\ [b EXCEPT !.todo = t].window = b.window
           /\ [b EXCEPT !.todo = t].range = b.range /\ [b EXCEPT !.todo = t].numbers = b.numbers
    BY DEF BusSet

\* What leaves the pool has an owner.
Owned(B, D, N) ==
    \A x \in Addresses : InPool(B[Len(B)].mem, x) /\ ~InPool(D[Len(B)].mem, x) =>
        \E c \in N : c.lo <= x /\ x <= c.hi

IsBar(bar, e) == bar.id \in 1 .. MaxDevices /\ bar.id <= e /\ PowerOfTwo(bar.size)

\* D is B when the BAR was assigned on the last bus, and N what it decodes.
BarTaken(B, bar, mem, D, N) ==
    LET r == pci_allocate_mem32(B[Len(B)].mem, bar.size, mem)
    IN D[Len(B)].mem = r.blocks /\ N = Assigned(B[Len(B)].bus, bar, r)

Outcome(B, D, N, mem, e) ==
    Given(B, D, N, e) /\ (mem => Owned(B, D, N)) /\ \A c \in N : c.part = "bar"

LEMMA BarGiven ==
    ASSUME NEW d \in Nat, NEW B, BusTypes(B, d), PoolsOK(B), NEW e \in Nat, NEW bar, IsBar(bar, e),
           NEW mem, NEW D, NEW N, BarTaken(B, bar, mem, D, N)
    PROVE  Outcome(B, D, N, mem, e)
<1> DEFINE r == pci_allocate_mem32(B[Len(B)].mem, bar.size, mem)
<1>a. /\ bar.id \in 1 .. MaxDevices /\ bar.id <= e /\ PowerOfTwo(bar.size)
      /\ r = pci_allocate_mem32(B[Len(B)].mem, bar.size, mem)
      /\ D[Len(B)].mem = r.blocks /\ N = Assigned(B[Len(B)].bus, bar, r)
    BY DEF IsBar, BarTaken
<1> HIDE DEF r
<1> SUFFICES /\ Given(B, D, N, e)
             /\ mem => Owned(B, D, N)
             /\ \A c \in N : c.part = "bar"
    BY DEF Outcome
<1> DEFINE n == Len(B)
           P == B[n].mem
           w == B[n].window
           size == bar.size
<1>0. n \in 1 .. n /\ n \in Nat /\ (n > 1 => n \in 2 .. n) /\ B[n].bus \in 0 .. MaxBus
    BY BusFacts
<1>1. size \in Nat \ {0} /\ Top \in Nat
    BY <1>a, Sizes DEF PowerOfTwo
<1>2. Canon(P)
    BY <1>0 DEF PoolsOK
<1> HIDE DEF n
<1>3. /\ r.ok \in BOOLEAN
      /\ ~r.ok => r.blocks = P
      /\ r.ok => Taken(P, r.blocks, r.base, size, mem)
    <2> HIDE DEF P, size
    <2>1. r = pci_allocate_mem32(P, size, mem)
        BY <1>a DEF P, size, n
    <2> QED
        BY <1>1, <1>2, <2>1, Mem32Effect
<1>4. n > 1 => Cuttable(r.blocks, w)
    <2> SUFFICES ASSUME n > 1
                 PROVE  Cuttable(r.blocks, w)
        OBVIOUS
    <2>1. /\ WindowOK(w) /\ Cuttable(P, w)
          /\ \A x \in Addresses : InPool(P, x) => w.base <= x /\ x < w.limit
        BY <1>0 DEF PoolsOK, n
    <2>2. r = pci_allocate_mem32(P, size, mem) /\ PowerOfTwo(size)
        BY <1>a DEF n
    <2> HIDE DEF P, w, size
    <2>3. CASE w.size # 0
        BY <1>2, <2>1, <2>2, <2>3, CuttableBar
    <2>4. CASE w.size = 0
        <3>1. w.base \in Nat /\ w.limit = w.base /\ w.limit <= Top
            BY <2>1, <2>4, WindowFacts
        <3>2. w.base \in Addresses /\ ~InPool(P, w.base)
            BY <1>1, <2>1, <3>1 DEF Addresses
        <3>3. InPool(r.blocks, w.base) => InPool(P, w.base)
            BY <1>3, <3>2 DEF Taken
        <3> QED
            BY <3>2, <3>3 DEF Cuttable
    <2> QED
        BY <2>3, <2>4
<1>5. CASE ~r.ok
    <2>1. N = {}
        BY <1>a, <1>5 DEF Assigned
    <2> QED
        BY <1>2, <1>3, <1>4, <1>5, <2>1, <1>a DEF Given, Owned, n
<1>6. CASE r.ok
    <2> DEFINE c == [id |-> bar.id, part |-> "bar", bus |-> B[n].bus,
                     lo |-> r.base, hi |-> r.base + bar.size - 1]
    <2>1. N = {c}
        BY <1>a, <1>6 DEF Assigned, n
    <2>2. /\ c.id = bar.id /\ c.part = "bar" /\ c.bus = B[n].bus
          /\ c.lo = r.base /\ c.hi = r.base + size - 1
        OBVIOUS
    <2>3. r.base \in Nat /\ r.base + size <= Top
        BY <1>3, <1>6 DEF Taken
    <2>4. /\ Canon(r.blocks)
          /\ \A x \in Addresses : Inside(x, r.base, r.base + size) => InPool(P, x)
          /\ \A x \in Addresses : InPool(r.blocks, x) => InPool(P, x) /\ ~Inside(x, r.base, r.base + size)
          /\ mem => \A x \in Addresses : InPool(P, x) /\ ~Inside(x, r.base, r.base + size) => InPool(r.blocks, x)
        BY <1>3, <1>6 DEF Taken
    <2>5. c \in ClaimSet
        <3>1. r.base \in 0 .. Top /\ r.base + bar.size - 1 \in 0 .. Top /\ bar.id \in 1 .. MaxDevices
            BY <1>1, <2>3, <1>a
        <3> QED
            BY <1>0, <3>1 DEF ClaimSet
    <2>6. c.lo <= c.hi
        BY <1>1, <2>2, <2>3
    <2>7. \A x \in Addresses : c.lo <= x /\ x <= c.hi <=> Inside(x, r.base, r.base + size)
        BY <1>1, <2>2, <2>3 DEF Inside, Addresses
    <2> HIDE DEF c
    <2>8. \A x \in Addresses : c.lo <= x /\ x <= c.hi => InPool(P, x) /\ ~InPool(r.blocks, x)
        BY <2>4, <2>7
    <2>9. mem => \A x \in Addresses : InPool(P, x) /\ ~InPool(r.blocks, x) => c.lo <= x /\ x <= c.hi
        BY <2>4, <2>7
    <2>10. Given(B, D, N, e)
        BY <1>4, <2>1, <2>2, <2>4, <2>5, <2>6, <2>8, <1>a DEF Given, n
    <2>11. mem => Owned(B, D, N)
        BY <2>1, <2>9, <1>a DEF Owned, n
    <2> QED
        BY <2>1, <2>2, <2>10, <2>11
<1> QED
    BY <1>5, <1>6

\* The pool after a ROM was loaded.
LEMMA RomGiven ==
    ASSUME NEW d \in Nat, NEW B, BusTypes(B, d), PoolsOK(B), NEW e \in Nat,
           NEW rom \in Nat, NEW mem, NEW r, NEW Q,
           r = IF rom = 0 THEN Refused(B[Len(B)].mem) ELSE pci_allocate_mem32(B[Len(B)].mem, rom, mem),
           Q = IF r.ok THEN pci_free_block(r.blocks, r.base, rom, mem) ELSE r.blocks,
           NEW D, D[Len(B)].mem = Q
    PROVE  /\ Canon(Q) /\ Given(B, D, {}, e)
           /\ mem => Owned(B, D, {})
<1> DEFINE n == Len(B)
           P == B[n].mem
           w == B[n].window
<1>0. n \in 1 .. n /\ n \in Nat /\ (n > 1 => n \in 2 .. n) /\ Top \in Nat
    BY BusFacts, Sizes
<1> HIDE DEF n
<1>2. /\ Canon(P)
      /\ n > 1 => /\ WindowOK(w) /\ Cuttable(P, w)
                  /\ \A x \in Addresses : InPool(P, x) => w.base <= x /\ x < w.limit
    BY <1>0 DEF PoolsOK, n
<1>3. r = IF rom = 0 THEN Refused(P) ELSE pci_allocate_mem32(P, rom, mem)
    BY DEF n
<1>4. D[n].mem = Q
    BY DEF n
<1>5. SUFFICES /\ Canon(Q) /\ \A x \in Addresses : InPool(Q, x) => InPool(P, x)
               /\ n > 1 => Cuttable(Q, w)
               /\ mem => \A x \in Addresses : InPool(P, x) => InPool(Q, x)
    BY <1>4 DEF Given, Owned, n
<1> HIDE DEF P, w
<1>6. CASE rom = 0 \/ ~r.ok
    <2>1. r.blocks = P /\ r.ok = FALSE
        <3>1. CASE rom = 0
            BY <1>3, <3>1 DEF Refused
        <3>2. CASE rom # 0
            <4>1. rom \in Nat \ {0}
                BY <3>2
            <4>2. r = pci_allocate_mem32(P, rom, mem)
                BY <1>3, <3>2
            <4> QED
                BY <1>2, <1>6, <3>2, <4>1, <4>2, Mem32Effect
        <3> QED
            BY <3>1, <3>2
    <2>2. Q = P
        BY <2>1
    <2> QED
        BY <1>2, <2>2
<1>7. CASE rom # 0 /\ r.ok
    <2>1. rom \in Nat \ {0} /\ r = pci_allocate_mem32(P, rom, mem)
        BY <1>3, <1>7
    <2> DEFINE s == r.base
               t == s + rom
               L == r.blocks
    <2>2. Taken(P, L, s, rom, mem)
        BY <1>2, <1>7, <2>1, Mem32Effect
    <2>3. Q = pci_free_block(L, s, rom, mem)
        BY <1>7
    <2> HIDE DEF s, L
    <2>4. /\ Canon(L) /\ s \in Nat /\ s + rom <= Top /\ rom \in Nat
          /\ \A x \in Addresses : Inside(x, s, t) => InPool(P, x)
          /\ \A x \in Addresses : InPool(L, x) => InPool(P, x) /\ ~Inside(x, s, t)
          /\ mem => \A x \in Addresses : InPool(P, x) /\ ~Inside(x, s, t) => InPool(L, x)
        BY <2>1, <2>2 DEF Taken
    <2>5. \A x \in Addresses : Inside(x, s, s + rom) => ~InPool(L, x)
        BY <2>4
    <2>6. /\ Canon(Q)
          /\ rom = 0 \/ (~mem /\ ~InPool(L, s + rom)) => Q = L
          /\ mem => \A x \in Addresses : InPool(Q, x) <=> InPool(L, x) \/ Inside(x, s, s + rom)
          /\ \/ Q = L
             \/ \A x \in Addresses : InPool(Q, x) <=> InPool(L, x) \/ Inside(x, s, s + rom)
        BY <2>3, <2>4, <2>5, FreeEffect
    <2>7. \A x \in Addresses : InPool(Q, x) => InPool(P, x)
        BY <2>4, <2>6
    <2>8. mem => \A x \in Addresses : InPool(P, x) => InPool(Q, x)
        BY <2>4, <2>6
    <2>9. ASSUME ~mem
          PROVE  Q = L
        <3>1. PICK lo, hi \in Addresses : lo <= s /\ s + rom <= hi /\ Lost(P, L, lo, hi)
            BY <2>2, <2>9 DEF Taken
        <3>2. t \in Nat /\ lo \in Nat /\ hi \in Nat /\ lo <= t /\ t <= hi /\ t \in Addresses
            BY <1>0, <2>4, <3>1 DEF Addresses
        <3>3. ~InPool(L, t)
            <4>1. CASE t = hi
                BY <2>4, <3>1, <3>2, <4>1 DEF Lost
            <4>2. CASE t # hi
                <5>1. Inside(t, lo, hi)
                    BY <3>2, <4>2 DEF Inside
                <5> QED
                    BY <3>1, <3>2, <5>1 DEF Lost
            <4> QED
                BY <4>1, <4>2
        <3> QED
            BY <2>6, <2>9, <3>3
    <2>10. ASSUME n > 1
           PROVE  Cuttable(Q, w)
        <3>1. w.base \in Nat /\ w.size \in Nat /\ w.limit = w.base + w.size /\ w.limit <= Top
            BY <1>2, <2>10, WindowFacts
        <3>2. CASE mem
            <4>1. \A x \in Addresses : InPool(P, x) <=> InPool(Q, x)
                BY <2>7, <2>8, <3>2
            <4>2. w.base \in Addresses
                BY <1>0, <3>1 DEF Addresses
            <4>3. ASSUME NEW z \in Addresses, NEW x \in w.base .. z - 1
                  PROVE  x \in Addresses
                BY <1>0, <3>1, <4>3 DEF Addresses
            <4> QED
                BY <1>2, <2>10, <4>1, <4>2, <4>3 DEF Cuttable
        <3>3. CASE ~mem
            <4>1. Q = L
                BY <2>9, <3>3
            <4>2. CASE w.size # 0
                BY <1>2, <2>1, <2>2, <2>10, <3>3, <4>1, <4>2, CuttableTaken
            <4>3. CASE w.size = 0
                <5>1. w.base \in Addresses /\ ~InPool(P, w.base)
                    BY <1>0, <1>2, <2>10, <3>1, <4>3 DEF Addresses
                <5> QED
                    BY <2>7, <5>1 DEF Cuttable
            <4> QED
                BY <4>2, <4>3
        <3> QED
            BY <3>2, <3>3
    <2> QED
        BY <2>6, <2>7, <2>8, <2>10
<1> QED
    BY <1>6, <1>7

\* The invariant is preserved, and nothing is lost unless malloc() fails.
Kept(B, C, mem, D, M, R, S, e) == AllInv(D, M, R, S, e) /\ (mem /\ LostInv(B, C) => LostInv(D, M))

LEMMA FrontFacts ==
    ASSUME NEW X, NEW B \in Seq(X), Len(B) > 0
    PROVE  /\ Front(B) \in Seq(X) /\ Len(Front(B)) = Len(B) - 1
           /\ \A k \in 1 .. Len(B) - 1 : Front(B)[k] = B[k]
<1> DEFINE n == Len(B)
<1>1. n \in Nat \ {0} /\ \A k \in 1 .. n - 1 : B[k] \in X
    BY LenProperties, ElementOfSeq
<1>2. Front(B) = SubSeq(B, 1, n - 1)
    BY DEF Front
<1> HIDE DEF n
<1>3. /\ SubSeq(B, 1, n - 1) \in Seq(X)
      /\ Len(SubSeq(B, 1, n - 1)) = IF 1 <= n - 1 THEN n - 1 - 1 + 1 ELSE 0
      /\ \A k \in 1 .. n - 1 - 1 + 1 : SubSeq(B, 1, n - 1)[k] = B[1 + k - 1]
    BY <1>1, SubSeqProperties
<1>4. n - 1 - 1 + 1 = n - 1 /\ (~(1 <= n - 1) => n - 1 = 0) /\ \A k \in 1 .. n - 1 : 1 + k - 1 = k
    BY <1>1
<1> QED
    BY <1>2, <1>3, <1>4 DEF n

\* The last bus can be replaced twice.
LEMMA Retop ==
    ASSUME NEW e \in Nat, NEW B, BusTypes(B, e), NEW b \in BusSet(e), SameBus(b, Last(B))
    PROVE  /\ \A c : OnLast(OnLast(B, b), c) = OnLast(B, c)
           /\ Last(OnLast(B, b)) = b
<1> DEFINE n == Len(B)
           D == OnLast(B, b)
<1>1. n \in Nat \ {0} /\ e <= e
    BY BusFacts
<1>2. BusTypes(D, e) /\ Len(D) = n /\ D[n] = b /\ OnTop(B, D)
    BY <1>1, TopBus
<1>3. B \in Seq(BusSet(e)) /\ D \in Seq(BusSet(e)) /\ Len(B) > 0 /\ Len(D) > 0
    BY <1>2 DEF BusTypes
<1> DEFINE F == Front(B)
           G == Front(D)
<1>4. /\ F \in Seq(BusSet(e)) /\ Len(F) = n - 1
      /\ \A k \in 1 .. n - 1 : F[k] = B[k]
    BY <1>3, FrontFacts
<1>5. /\ G \in Seq(BusSet(e)) /\ Len(G) = n - 1
      /\ \A k \in 1 .. n - 1 : G[k] = D[k]
    BY <1>2, <1>3, FrontFacts
<1>6. <<b>> \in Seq(BusSet(e)) /\ Len(<<b>>) = 1 /\ D = F \o <<b>>
    BY DEF OnLast
<1> HIDE DEF n, F, G, D
<1>7. \A k \in 1 .. n - 1 : D[k] = F[k]
    <2>1. \A k \in 1 .. Len(F) + Len(<<b>>) : D[k] = IF k <= Len(F) THEN F[k] ELSE <<b>>[k - Len(F)]
        BY <1>4, <1>6, ConcatProperties
    <2>2. \A k \in 1 .. n - 1 : k \in 1 .. n - 1 + 1 /\ k <= n - 1
        BY <1>1
    <2> QED
        BY <1>4, <1>6, <2>1, <2>2
<1>8. \A k \in 1 .. Len(F) : F[k] = G[k]
    BY <1>4, <1>5, <1>7
<1>9. F = G
    BY <1>4, <1>5, <1>8, SeqEqual
<1>10. \A c : OnLast(D, c) = OnLast(B, c)
    BY <1>9 DEF OnLast, F, G
<1> QED
    BY <1>2, <1>10 DEF Last, D, n

\* A BAR on the last bus is assigned.
LEMMA BarStep ==
    ASSUME NEW d \in Nat, NEW e \in Nat, d <= e, NEW B, NEW C, NEW R, NEW S, AllInv(B, C, R, S, d),
           NEW bar, IsBar(bar, e), NEW mem, NEW r, r = pci_allocate_mem32(Last(B).mem, bar.size, mem),
           NEW b \in BusSet(e), SameBus(b, Last(B)), b.mem = r.blocks
    PROVE  LET N == Assigned(Last(B).bus, bar, r)
           IN Kept(B, C, mem, OnLast(B, b), C \union N, R, S, e) /\ \A c \in N : c.part = "bar"
<1> DEFINE N == Assigned(Last(B).bus, bar, r)
<1> DEFINE D == OnLast(B, b)
<1>1. BusTypes(B, d) /\ PoolsOK(B)
    BY DEF AllInv, MemInv
<1>2. BusTypes(D, e) /\ OnTop(B, D) /\ D[Len(B)] = b /\ Last(B) = B[Len(B)]
    BY <1>1, TopBus
<1> HIDE DEF D, N
<1>3. /\ Given(B, D, N, e)
      /\ mem => Owned(B, D, N)
      /\ \A c \in N : c.part = "bar"
    <2>1. BarTaken(B, bar, mem, D, N)
        BY <1>2 DEF BarTaken, N
    <2>2. Outcome(B, D, N, mem, e)
        BY <1>1, <2>1, BarGiven
    <2> QED
        BY <2>2 DEF Outcome
<1>4. AllInv(D, C \union N, R, S, e)
    BY <1>2, <1>3, TopStep
<1>5. mem /\ LostInv(B, C) => LostInv(D, C \union N)
    BY <1>1, <1>2, <1>3, LostTop DEF Owned, OnTop
<1> QED
    BY <1>3, <1>4, <1>5 DEF Kept, D, N

\* The ROM of a device on the last bus is loaded, and perhaps a BAR left to be
\* assigned.
LEMMA RomStep ==
    ASSUME NEW d \in Nat, NEW e \in Nat, d <= e, NEW B, NEW C, NEW R, NEW S, AllInv(B, C, R, S, d),
           NEW rom \in Nat, NEW mem, NEW r, NEW Q,
           r = IF rom = 0 THEN Refused(Last(B).mem) ELSE pci_allocate_mem32(Last(B).mem, rom, mem),
           Q = IF r.ok THEN pci_free_block(r.blocks, r.base, rom, mem) ELSE r.blocks,
           NEW b, b \in BusSet(e), SameBus(b, Last(B)), b.mem = Q
    PROVE  Kept(B, C, mem, OnLast(B, b), C, R, S, e)
<1> DEFINE D == OnLast(B, b)
<1>1. BusTypes(B, d) /\ PoolsOK(B)
    BY DEF AllInv, MemInv
<1>2. BusTypes(D, e) /\ OnTop(B, D) /\ D[Len(B)] = b /\ Last(B) = B[Len(B)]
    BY <1>1, TopBus
<1> HIDE DEF D
<1> DEFINE N == {}
<1>3. /\ Given(B, D, N, e)
      /\ mem => Owned(B, D, N)
    BY <1>1, <1>2, RomGiven
<1>4. C \union N = C
    OBVIOUS
<1> HIDE DEF N
<1>5. AllInv(D, C \union N, R, S, e)
    BY <1>2, <1>3, TopStep
<1>6. mem /\ LostInv(B, C) => LostInv(D, C \union N)
    BY <1>1, <1>2, <1>3, LostTop DEF Owned, OnTop
<1> QED
    BY <1>4, <1>5, <1>6 DEF Kept, D

\* The pool of RomStep, as a pool.
LEMMA RomPool ==
    ASSUME NEW d \in Nat, NEW B, NEW C, NEW R, NEW S, AllInv(B, C, R, S, d),
           NEW rom \in Nat, NEW mem, NEW r, NEW Q,
           r = IF rom = 0 THEN Refused(Last(B).mem) ELSE pci_allocate_mem32(Last(B).mem, rom, mem),
           Q = IF r.ok THEN pci_free_block(r.blocks, r.base, rom, mem) ELSE r.blocks
    PROVE  Canon(Q)
<1>1. BusTypes(B, d) /\ PoolsOK(B)
    BY DEF AllInv, MemInv
<1>2. Last(B) = B[Len(B)]
    BY DEF Last
<1> DEFINE D == [B EXCEPT ![Len(B)] = [B[Len(B)] EXCEPT !.mem = Q]]
<1>3. D[Len(B)].mem = Q
    <2>1. B \in Seq(BusSet(d)) /\ Len(B) \in 1 .. Len(B)
        BY <1>1, BusFacts DEF BusTypes
    <2>2. DOMAIN B = 1 .. Len(B) /\ B[Len(B)] \in BusSet(d)
        BY <1>1, <2>1, LenProperties, BusFacts
    <2>3. D[Len(B)] = [B[Len(B)] EXCEPT !.mem = Q]
        BY <2>1, <2>2
    <2>4. [B[Len(B)] EXCEPT !.mem = Q].mem = Q
        BY <2>2 DEF BusSet
    <2> QED
        BY <2>3, <2>4
<1> HIDE DEF D
<1> QED
    BY <1>1, <1>2, <1>3, RomGiven

LEMMA BarPool ==
    ASSUME NEW d \in Nat, NEW B, NEW C, NEW R, NEW S, AllInv(B, C, R, S, d),
           NEW size, PowerOfTwo(size), NEW mem, NEW r, r = pci_allocate_mem32(Last(B).mem, size, mem)
    PROVE  Canon(r.blocks)
<1>1. Canon(Last(B).mem)
    <2>1. BusTypes(B, d) /\ PoolsOK(B)
        BY DEF AllInv, MemInv
    <2>2. Len(B) \in 1 .. Len(B)
        BY <2>1, BusFacts
    <2> QED
        BY <2>1, <2>2 DEF PoolsOK, Last
<1>2. size \in Nat \ {0}
    BY DEF PowerOfTwo
<1> DEFINE P == Last(B).mem
<1> HIDE DEF P
<1>3. Canon(P) /\ r = pci_allocate_mem32(P, size, mem)
    BY <1>1 DEF P
<1>4. r.ok \in BOOLEAN /\ (~r.ok => r.blocks = P) /\ (r.ok => Taken(P, r.blocks, r.base, size, mem))
    BY <1>2, <1>3, Mem32Effect
<1> QED
    BY <1>3, <1>4 DEF Taken

\* The same of a bus whose record is replaced, and of BARs on it.
LEMMA BehindTop ==
    ASSUME NEW d \in Nat, NEW e \in Nat, d <= e, NEW B, NEW C, NEW R, NEW S, AllInv(B, C, R, S, d),
           BehindInv(B, C, R, S), NEW b \in BusSet(e), SameBus(b, Last(B)),
           NEW N, \A c \in N : c.part = "bar"
    PROVE  BehindInv(OnLast(B, b), C \union N, R, S)
<1> DEFINE D == OnLast(B, b)
<1>1. BusTypes(B, d)
    BY DEF AllInv
<1>2. Len(D) = Len(B) /\ OnTop(B, D) /\ \A k \in 2 .. Len(B) : k \in 1 .. Len(B)
    BY <1>1, TopBus, BusFacts
<1> HIDE DEF D
<1>3. \A k \in 2 .. Len(D) : k \in 2 .. Len(B) /\ D[k].range = B[k].range
    BY <1>2 DEF OnTop
<1>4. \A w \in C \union N : w.part = "window" => w \in C
    OBVIOUS
<1>5. BehindInv(D, C \union N, R, S)
    BY <1>3, <1>4 DEF BehindInv
<1> QED
    BY <1>5 DEF D

\* One BAR after another.
AssignOne(x, bar, bus, mem) ==
    LET r == pci_allocate_mem32(x.mem, bar.size, mem)
    IN [mem |-> r.blocks, claims |-> x.claims \union Assigned(bus, bar, r)]

\* The recursion of AssignFirst has a solution.
Solved(b, n, mem, x) ==
    \E done : /\ x = done[n]
              /\ done[0] = [mem |-> b.mem, claims |-> {}]
              /\ \A k \in 1 .. n :
                    done[k] = AssignOne(done[k - 1], b.todo[k], b.bus, mem)

LEMMA AssignEquation ==
    ASSUME NEW b, NEW mem, NEW n \in Nat, NEW x, x = AssignFirst(b, n, mem)
    PROVE  Solved(b, n, mem, x)
<1> DEFINE start == [mem |-> b.mem, claims |-> {}]
           Grow(g, k) == IF k = 0 THEN start ELSE AssignOne(g[k - 1], b.todo[k], b.bus, mem)
           T == {k \in 0 .. n : \E g : g = [i \in 0 .. k |-> Grow(g, i)]}
           done == CHOOSE g : g = [k \in 0 .. n |-> Grow(g, k)]
<1>1. 0 \in T
    <2> DEFINE g == [i \in 0 .. 0 |-> start]
    <2>1. \A i \in 0 .. 0 : Grow(g, i) = start
        OBVIOUS
    <2> HIDE DEF Grow
    <2>2. g = [i \in 0 .. 0 |-> Grow(g, i)]
        BY <2>1
    <2> HIDE DEF g
    <2>3. 0 \in 0 .. n
        OBVIOUS
    <2> QED
        BY <2>2, <2>3
<1>2. ASSUME NEW k \in 0 .. n - 1, k \in T
      PROVE  k + 1 \in T
    <2>1. PICK g : g = [i \in 0 .. k |-> Grow(g, i)]
        BY <1>2
    <2> DEFINE h == [i \in 0 .. k + 1 |-> IF i = k + 1 THEN Grow(g, k + 1) ELSE g[i]]
    <2>2. ASSUME NEW i \in 0 .. k + 1
          PROVE  h[i] = Grow(h, i)
        <3>1. CASE i = 0
            <4>1. h[i] = g[0] /\ g[0] = Grow(g, 0) /\ Grow(g, 0) = start /\ Grow(h, i) = start
                BY <2>1, <3>1
            <4> QED
                BY <4>1
        <3>2. CASE i # 0
            <4>1. i - 1 \in 0 .. k /\ i - 1 \in 0 .. k + 1 /\ i - 1 # k + 1
                BY <3>2
            <4>2. h[i - 1] = g[i - 1]
                BY <4>1
            <4> HIDE DEF h
            <4>3. Grow(h, i) = Grow(g, i)
                BY <3>2, <4>2
            <4>4. h[i] = Grow(g, i)
                <5>1. CASE i = k + 1
                    BY <5>1 DEF h
                <5>2. CASE i # k + 1
                    <6>1. i \in 0 .. k
                        BY <5>2
                    <6> HIDE DEF Grow
                    <6> QED
                        BY <2>1, <5>2, <6>1 DEF h
                <5> QED
                    BY <5>1, <5>2
            <4> QED
                BY <4>3, <4>4
        <3> QED
            BY <3>1, <3>2
    <2> HIDE DEF Grow
    <2>3. h = [i \in 0 .. k + 1 |-> h[i]]
        OBVIOUS
    <2>4. h = [i \in 0 .. k + 1 |-> Grow(h, i)]
        <3> HIDE DEF h
        <3> QED
            BY <2>2, <2>3
    <2> HIDE DEF h
    <2> QED
        BY <2>4
<1>3. n \in T
    <2>1. \A k \in 0 .. n : k \in T
        <3> HIDE DEF T
        <3> QED
            BY <1>1, <1>2, Induction
    <2> HIDE DEF T
    <2>2. n \in 0 .. n
        OBVIOUS
    <2> QED
        BY <2>1, <2>2
<1>4. done = [k \in 0 .. n |-> Grow(done, k)]
    <2> DEFINE All(g) == [k \in 0 .. n |-> Grow(g, k)]
    <2>1. \E g : g = All(g)
        BY <1>3
    <2>2. done = CHOOSE g : g = All(g)
        OBVIOUS
    <2>3. done = All(done)
        <3> HIDE DEF All, done
        <3> QED
            BY <2>1, <2>2
    <2> HIDE DEF Grow, done
    <2> QED
        BY <2>3
<1>5. AssignFirst(b, n, mem) = done[n]
    BY DEF AssignFirst, AssignOne
<1> HIDE DEF done
<1>6. ASSUME NEW k \in 0 .. n
      PROVE  done[k] = Grow(done, k)
    <2> HIDE DEF Grow
    <2> QED
        BY <1>4
<1>7. done[0] = start
    BY <1>6
<1>8. ASSUME NEW k \in 1 .. n
      PROVE  done[k] = AssignOne(done[k - 1], b.todo[k], b.bus, mem)
    <2>1. k \in 0 .. n /\ k # 0
        OBVIOUS
    <2> HIDE DEF start
    <2> QED
        BY <1>6, <2>1
<1> QED
    BY <1>5, <1>7, <1>8 DEF Solved

LEMMA BusTypesGrow ==
    ASSUME NEW d \in Nat, NEW e \in Nat, d <= e, NEW B, BusTypes(B, d)
    PROVE  BusTypes(B, e)
<1> DEFINE X == BusSet(d)
           Y == BusSet(e)
<1>1. X \subseteq Y /\ B \in Seq(X)
    BY BusSetGrows DEF BusTypes
<1> HIDE DEF X, Y
<1>2. Seq(X) \subseteq Seq(Y)
    BY <1>1, SeqMonotonic
<1>3. B \in Seq(Y)
    BY <1>1, <1>2
<1> QED
    BY <1>3 DEF BusTypes, Y

LEMMA LastOf ==
    ASSUME NEW d \in Nat, NEW B, NEW C, NEW R, NEW S, AllInv(B, C, R, S, d)
    PROVE  Last(B) \in BusSet(d) /\ Canon(Last(B).mem) /\ Last(B).bus \in 0 .. MaxBus
<1>1. BusTypes(B, d) /\ PoolsOK(B)
    BY DEF AllInv, MemInv
<1>2. Len(B) \in 1 .. Len(B) /\ B[Len(B)] \in BusSet(d) /\ B[Len(B)].bus \in 0 .. MaxBus
    BY <1>1, BusFacts
<1> QED
    BY <1>1, <1>2 DEF PoolsOK, Last

\* x is a pool and claims for the last bus that keep the invariant.
AssignedTo(B, C, mem, x, R, S, e) ==
    /\ Canon(x.mem)
    /\ \A c \in x.claims : c.part = "bar"
    /\ \A b \in BusSet(e) : SameBus(b, Last(B)) /\ b.mem = x.mem =>
          Kept(B, C, mem, OnLast(B, b), C \union x.claims, R, S, e)

LEMMA AssignNone ==
    ASSUME NEW d \in Nat, NEW e \in Nat, d <= e, NEW B, NEW C, NEW R, NEW S, AllInv(B, C, R, S, d),
           NEW mem, NEW x, x = [mem |-> Last(B).mem, claims |-> {}]
    PROVE  AssignedTo(B, C, mem, x, R, S, e)
<1> DEFINE r == Refused(Last(B).mem)
           N == {}
<1>1. x.mem = Last(B).mem /\ x.claims = N /\ Canon(x.mem) /\ C \union N = C
    BY LastOf
<1>2. r.ok = FALSE /\ r.blocks = x.mem
    BY <1>1 DEF Refused
<1>3. r = (IF 0 = 0 THEN Refused(Last(B).mem) ELSE pci_allocate_mem32(Last(B).mem, 0, mem))
    OBVIOUS
<1>4. x.mem = (IF r.ok THEN pci_free_block(r.blocks, r.base, 0, mem) ELSE r.blocks)
    BY <1>2
<1>5. 0 \in Nat
    OBVIOUS
<1> HIDE DEF r
<1>6. ASSUME NEW b \in BusSet(e), SameBus(b, Last(B)), b.mem = x.mem
      PROVE  Kept(B, C, mem, OnLast(B, b), C, R, S, e)
    <2> DEFINE Q == x.mem
               zero == 0
    <2>1. /\ zero \in Nat /\ Q = (IF r.ok THEN pci_free_block(r.blocks, r.base, zero, mem) ELSE r.blocks)
          /\ r = (IF zero = 0 THEN Refused(Last(B).mem) ELSE pci_allocate_mem32(Last(B).mem, zero, mem))
          /\ b.mem = Q
        BY <1>3, <1>4, <1>5, <1>6
    <2> HIDE DEF Q, zero
    <2> QED
        BY <1>6, <2>1, RomStep
<1>7. \A c \in N : c.part = "bar"
    OBVIOUS
<1> HIDE DEF N
<1> QED
    BY <1>1, <1>6, <1>7 DEF AssignedTo

LEMMA KeptTwice ==
    ASSUME NEW B, NEW C, NEW mem, NEW D, NEW M, NEW F, NEW N, NEW R, NEW S, NEW e,
           Kept(B, C, mem, D, M, R, S, e), Kept(D, M, mem, F, N, R, S, e)
    PROVE  Kept(B, C, mem, F, N, R, S, e)
    BY DEF Kept

LEMMA AssignNext ==
    ASSUME NEW d \in Nat, NEW e \in Nat, d <= e, NEW B, NEW C, NEW R, NEW S, AllInv(B, C, R, S, d),
           NEW mem, NEW x, AssignedTo(B, C, mem, x, R, S, e), NEW bar, IsBar(bar, e),
           NEW y, y = AssignOne(x, bar, Last(B).bus, mem)
    PROVE  AssignedTo(B, C, mem, y, R, S, e)
<1> DEFINE l == Last(B)
           f == [l EXCEPT !.mem = x.mem]
           D == OnLast(B, f)
           M == C \union x.claims
           r == pci_allocate_mem32(x.mem, bar.size, mem)
           N == Assigned(l.bus, bar, r)
<1>0. BusTypes(B, e) /\ e <= e
    BY BusTypesGrow DEF AllInv
<1>1. l \in BusSet(d) /\ Canon(x.mem) /\ \A c \in x.claims : c.part = "bar"
    BY LastOf DEF AssignedTo
<1>2. f \in BusSet(e) /\ f.mem = x.mem /\ SameBus(f, l)
    <2> HIDE DEF l
    <2> QED
        BY <1>1, BusChanged DEF SameBus
<1>3. y.mem = r.blocks /\ y.claims = x.claims \union N
    BY DEF AssignOne
<1> HIDE DEF f, r, N
<1>4. Kept(B, C, mem, D, M, R, S, e)
    BY <1>2 DEF AssignedTo
<1>5. Last(D) = f /\ \A b : OnLast(D, b) = OnLast(B, b)
    BY <1>0, <1>2, Retop
<1>6. AllInv(D, M, R, S, e)
    BY <1>4 DEF Kept
<1> HIDE DEF D, M
<1>7. /\ r = pci_allocate_mem32(Last(D).mem, bar.size, mem)
      /\ N = Assigned(Last(D).bus, bar, r)
    BY <1>2, <1>5 DEF r, N, SameBus
<1>8. Canon(r.blocks)
    <2> DEFINE size == bar.size
    <2>1. PowerOfTwo(size) /\ r = pci_allocate_mem32(Last(D).mem, size, mem)
        BY <1>7 DEF IsBar
    <2> HIDE DEF size
    <2> QED
        BY <1>6, <2>1, BarPool
<1>9. ASSUME NEW b \in BusSet(e), SameBus(b, l), b.mem = r.blocks
      PROVE  Kept(B, C, mem, OnLast(B, b), C \union y.claims, R, S, e)
    <2>1. SameBus(b, Last(D))
        BY <1>2, <1>5, <1>9 DEF SameBus
    <2>2. Kept(D, M, mem, OnLast(D, b), M \union N, R, S, e)
        BY <1>0, <1>6, <1>7, <1>9, <2>1, BarStep
    <2>3. M \union N = C \union y.claims
        BY <1>3 DEF M
    <2> QED
        BY <1>4, <1>5, <2>2, <2>3, KeptTwice
<1>10. \A c \in N : c.part = "bar"
    BY DEF N, Assigned
<1>11. \A c \in y.claims : c.part = "bar"
    BY <1>1, <1>3, <1>10
<1> QED
    BY <1>3, <1>8, <1>9, <1>11 DEF AssignedTo

LEMMA TodoBars ==
    ASSUME NEW d \in 0 .. MaxDevices, NEW e \in Nat, d <= e, NEW b \in BusSet(d)
    PROVE  Len(b.todo) \in Nat /\ \A k \in 1 .. Len(b.todo) : IsBar(b.todo[k], e)
<1> DEFINE t == b.todo
           X == [id : 1 .. d, size : BarSizes]
<1>1. t \in Seq(X)
    BY DEF BusSet
<1>2. MaxDevices \in Nat /\ d \in Nat
    BY PciProbeAssumption
<1>3. ASSUME NEW bar \in X
      PROVE  IsBar(bar, e)
    <2>1. bar.id \in 1 .. d /\ bar.size \in BarSizes
        OBVIOUS
    <2>2. bar.id \in 1 .. MaxDevices /\ bar.id <= e
        BY <1>2, <2>1
    <2>3. PowerOfTwo(bar.size)
        BY <2>1, PciProbeAssumption, PoolsFit DEF PowerOfTwo
    <2> QED
        BY <2>2, <2>3 DEF IsBar
<1> HIDE DEF t, X
<1>4. Len(t) \in Nat /\ \A k \in 1 .. Len(t) : t[k] \in X
    BY <1>1, LenProperties, ElementOfSeq
<1> QED
    BY <1>3, <1>4 DEF t

\* The first n of the BARs that are left are assigned.
LEMMA AssignStep ==
    ASSUME NEW d \in 0 .. MaxDevices, NEW e \in Nat, d <= e, NEW B, NEW C, NEW R, NEW S,
           AllInv(B, C, R, S, d), NEW n \in 0 .. Len(Last(B).todo), NEW mem
    PROVE  AssignedTo(B, C, mem, AssignFirst(Last(B), n, mem), R, S, e)
<1> DEFINE l == Last(B)
<1>0. d \in Nat
    BY PciProbeAssumption
<1>1. n \in Nat /\ \A k \in 1 .. n : IsBar(l.todo[k], e)
    <2>1. l \in BusSet(d)
        BY <1>0, LastOf
    <2> HIDE DEF l
    <2>2. Len(l.todo) \in Nat /\ \A k \in 1 .. Len(l.todo) : IsBar(l.todo[k], e)
        BY <2>1, TodoBars
    <2>3. n \in 0 .. Len(l.todo)
        BY DEF l
    <2>4. \A k \in 1 .. n : k \in 1 .. Len(l.todo)
        BY <2>2, <2>3
    <2> QED
        BY <2>2, <2>3, <2>4
<1>2. PICK done : /\ AssignFirst(l, n, mem) = done[n]
                  /\ done[0] = [mem |-> l.mem, claims |-> {}]
                  /\ \A k \in 1 .. n : done[k] = AssignOne(done[k - 1], l.todo[k], l.bus, mem)
    <2> HIDE DEF l
    <2>1. n \in Nat
        BY <1>1
    <2> DEFINE x == AssignFirst(l, n, mem)
    <2>2. x = AssignFirst(l, n, mem)
        OBVIOUS
    <2> HIDE DEF x
    <2>3. Solved(l, n, mem, x)
        BY <2>1, <2>2, AssignEquation
    <2> QED
        BY <2>2, <2>3 DEF Solved
<1> DEFINE T == {k \in 0 .. n : AssignedTo(B, C, mem, done[k], R, S, e)}
<1>3. 0 \in T
    <2> DEFINE x == done[0]
    <2>1. x = [mem |-> Last(B).mem, claims |-> {}]
        BY <1>2
    <2> HIDE DEF x
    <2>2. AssignedTo(B, C, mem, x, R, S, e)
        BY <1>0, <2>1, AssignNone
    <2> QED
        BY <1>1, <2>2 DEF x
<1>4. ASSUME NEW k \in 0 .. n - 1, k \in T
      PROVE  k + 1 \in T
    <2> DEFINE x == done[k]
               y == done[k + 1]
               bar == l.todo[k + 1]
    <2>1. k + 1 \in 1 .. n /\ k + 1 \in 0 .. n /\ k + 1 - 1 = k
        BY <1>1
    <2>2. y = AssignOne(x, bar, Last(B).bus, mem) /\ IsBar(bar, e)
        BY <1>1, <1>2, <2>1
    <2>3. AssignedTo(B, C, mem, x, R, S, e)
        BY <1>4
    <2> HIDE DEF x, y, bar
    <2>4. AssignedTo(B, C, mem, y, R, S, e)
        BY <1>0, <2>2, <2>3, AssignNext
    <2> QED
        BY <2>1, <2>4 DEF y
<1>5. n \in T
    <2>1. \A k \in 0 .. n : k \in T
        <3> HIDE DEF T
        <3> QED
            BY <1>1, <1>3, <1>4, Induction
    <2> HIDE DEF T
    <2>2. n \in 0 .. n
        BY <1>1
    <2> QED
        BY <2>1, <2>2
<1> QED
    BY <1>2, <1>5

LEMMA SoundKept ==
    ASSUME SoundInv, failures \in Nat, NEW mem \in BOOLEAN, NEW well \in BOOLEAN, well => mem, Memory(well),
           Kept(buses, claims, mem, buses', claims', routes', stranded', devices'),
           BehindInv(buses', claims', routes', stranded'), abandoned' = abandoned
    PROVE  SoundInv'
<1>1. failures' = 0 => failures = 0 /\ mem
    BY DEF Memory
<1>2. AllInv(buses', claims', routes', stranded', devices')
    BY DEF Kept
<1>3. failures' = 0 => LostInv(buses', claims')
    BY <1>1 DEF Kept, SoundInv
<1>4. abandoned' \subseteq ClaimSet
    BY DEF SoundInv
<1> QED
    BY <1>2, <1>3, <1>4 DEF SoundInv

\* A step that leaves no damage does none.
LEMMA NoHarm ==
    ASSUME PciInv, damage' = 0, NEW harm \in BOOLEAN, Harm(harm)
    PROVE  ~harm /\ SoundInv /\ failures \in Nat /\ devices \in 0 .. MaxDevices
<1>1. damage \in Nat
    BY PciProbeAssumption DEF PciInv
<1>2. ~harm /\ damage = 0
    BY <1>1 DEF Harm
<1> QED
    BY <1>2, PciProbeAssumption DEF PciInv

\* A device found on the last bus leaves its BAR to be assigned.
Found(l, m, bar) == [l EXCEPT !.mem = m, !.todo = <<bar>> \o @]

LEMMA TodoGrows ==
    ASSUME NEW d \in Nat, NEW e \in Nat, d <= e, NEW l \in BusSet(d),
           NEW bar \in [id : 1 .. e, size : BarSizes], NEW m, Canon(m)
    PROVE  Found(l, m, bar) \in BusSet(e) /\ SameBus(Found(l, m, bar), l) /\ Found(l, m, bar).mem = m
<1> DEFINE X == [id : 1 .. e, size : BarSizes]
           t == <<bar>> \o l.todo
           f == [l EXCEPT !.mem = m]
<1>1. d <= e /\ l \in BusSet(e)
    BY BusSetGrows
<1>2. t \in Seq(X)
    <2>1. l.todo \in Seq(X)
        BY <1>1 DEF BusSet
    <2> HIDE DEF X
    <2>2. <<bar>> \in Seq(X)
        BY DEF X
    <2> QED
        BY <2>1, <2>2, ConcatProperties
<1>3. m \in Blocks
    BY DEF Canon
<1> HIDE DEF t
<1>4. [l EXCEPT !.mem = m, !.todo = t] \in BusSet(e)
    BY <1>1, <1>2, <1>3 DEF BusSet
<1>5. /\ [l EXCEPT !.mem = m, !.todo = t].mem = m
      /\ SameBus([l EXCEPT !.mem = m, !.todo = t], l)
    BY <1>1 DEF BusSet, SameBus
<1> QED
    BY <1>4, <1>5 DEF t, Found

LEMMA DeviceStep ==
    ASSUME PciInv, damage' = 0, NEW mem \in BOOLEAN, NEW size \in BarSizes, NEW rom \in RomSizes,
           NEW by \in Assigners, ProbeDevice(size, rom, by, mem)
    PROVE  SoundInv'
<1> DEFINE e == devices + 1
           l == Last(buses)
           bar == [id |-> devices + 1, size |-> size]
           r == IF rom = 0 THEN Refused(l.mem) ELSE pci_allocate_mem32(l.mem, rom, mem)
           Q == IF r.ok THEN pci_free_block(r.blocks, r.base, rom, mem) ELSE r.blocks
           a == pci_allocate_mem32(Q, size, mem)
           f == [l EXCEPT !.mem = Q]
           D == OnLast(buses, f)
<1>0. by # "fcode" /\ SoundInv /\ failures \in Nat /\ devices \in 0 .. MaxDevices
    <2> DEFINE harm == by = "fcode"
    <2>1. harm \in BOOLEAN /\ Harm(harm)
        BY DEF ProbeDevice
    <2> HIDE DEF harm
    <2>2. ~harm /\ SoundInv /\ failures \in Nat /\ devices \in 0 .. MaxDevices
        BY <2>1, NoHarm
    <2> QED
        BY <2>2 DEF harm
<1>1. /\ devices \in Nat /\ devices < MaxDevices /\ MaxDevices \in Nat /\ devices' = e
      /\ AllInv(buses, claims, routes, stranded, devices) /\ Memory(mem)
      /\ BehindInv(buses, claims, routes, stranded)
      /\ routes' = routes /\ stranded' = stranded /\ abandoned' = abandoned
    BY <1>0, PciProbeAssumption DEF SoundInv, ProbeDevice
<1>2. e \in Nat /\ devices <= e /\ e \in 0 .. MaxDevices /\ e \in 1 .. MaxDevices /\ e <= e /\ rom \in Nat
    BY <1>1, PciProbeAssumption
<1>3. by = "driver" \/ by = "bus"
    BY <1>0 DEF Assigners
<1>4. LoadRom(bar, rom, by, mem).blocks = Q
    BY <1>3 DEF LoadRom, here
<1>5. IsBar(bar, e) /\ bar.id = e /\ bar.size = size /\ bar \in [id : 1 .. e, size : BarSizes]
    <2>1. PowerOfTwo(size)
        BY PciProbeAssumption, PoolsFit DEF PowerOfTwo
    <2>2. e \in 1 .. e
        BY <1>2
    <2> QED
        BY <1>2, <2>1, <2>2 DEF IsBar
<1>6. l \in BusSet(devices)
    BY <1>1, LastOf
<1>7. \/ /\ by = "driver"
         /\ buses' = OnLast(buses, [l EXCEPT !.mem = a.blocks])
         /\ claims' = claims \union Assigned(l.bus, bar, a)
      \/ /\ by = "bus"
         /\ buses' = OnLast(buses, Found(l, Q, bar))
         /\ claims' = claims
    <2> HIDE DEF bar, Q
    <2> QED
        BY <1>3, <1>4 DEF ProbeDevice, here, WithHere, OnLast, Found, bar
<1> HIDE DEF e, l, bar
<1>8. Canon(Q)
    <2>1. /\ r = (IF rom = 0 THEN Refused(Last(buses).mem) ELSE pci_allocate_mem32(Last(buses).mem, rom, mem))
          /\ Q = (IF r.ok THEN pci_free_block(r.blocks, r.base, rom, mem) ELSE r.blocks)
        BY DEF l
    <2> HIDE DEF r, Q
    <2> QED
        BY <1>1, <1>2, <2>1, RomPool
<1>9. ASSUME NEW b \in BusSet(e), SameBus(b, l), b.mem = Q
      PROVE  Kept(buses, claims, mem, OnLast(buses, b), claims, routes, stranded, e)
    <2>1. /\ r = (IF rom = 0 THEN Refused(Last(buses).mem) ELSE pci_allocate_mem32(Last(buses).mem, rom, mem))
          /\ Q = (IF r.ok THEN pci_free_block(r.blocks, r.base, rom, mem) ELSE r.blocks)
          /\ SameBus(b, Last(buses))
        BY <1>9 DEF l
    <2> HIDE DEF r, Q
    <2>2. b.mem = Q
        BY <1>9 DEF Q
    <2> QED
        BY <1>1, <1>2, <1>9, <2>1, <2>2, RomStep
<1> HIDE DEF Q, r
<1>10. f \in BusSet(e) /\ SameBus(f, l) /\ f.mem = Q
    BY <1>1, <1>2, <1>6, <1>8, BusChanged DEF SameBus
<1> HIDE DEF f
<1>11. CASE by = "bus"
    <2> DEFINE b == Found(l, Q, bar)
    <2>1. b \in BusSet(e) /\ SameBus(b, l) /\ b.mem = Q
        BY <1>1, <1>2, <1>5, <1>6, <1>8, TodoGrows
    <2>2. buses' = OnLast(buses, b) /\ claims' = claims
        BY <1>7, <1>11
    <2> HIDE DEF b
    <2>3. Kept(buses, claims, mem, buses', claims', routes', stranded', devices')
        BY <1>1, <1>9, <2>1, <2>2
    <2>4. BehindInv(buses', claims', routes', stranded')
        <3> DEFINE N == {}
        <3>1. claims' = claims \union N /\ \A c \in N : c.part = "bar"
            BY <2>2
        <3> HIDE DEF N
        <3>2. SameBus(b, Last(buses))
            BY <2>1 DEF l
        <3>3. BehindInv(OnLast(buses, b), claims \union N, routes, stranded)
            BY <1>1, <1>2, <2>1, <3>1, <3>2, BehindTop
        <3> QED
            BY <1>1, <2>2, <3>1, <3>3
    <2> QED
        BY <1>0, <1>1, <2>3, <2>4, SoundKept
<1>12. CASE by = "driver"
    <2> DEFINE b == [l EXCEPT !.mem = a.blocks]
               N == Assigned(l.bus, bar, a)
    <2>1. Kept(buses, claims, mem, D, claims, routes, stranded, e)
        BY <1>9, <1>10
    <2>2. AllInv(D, claims, routes, stranded, e) /\ BusTypes(buses, e)
        BY <1>1, <1>2, <2>1, BusTypesGrow DEF Kept, AllInv
    <2>3. Last(D) = f /\ \A x : OnLast(D, x) = OnLast(buses, x)
        BY <1>2, <1>10, <2>2, Retop DEF l
    <2> HIDE DEF D
    <2>4. a = pci_allocate_mem32(Last(D).mem, bar.size, mem) /\ N = Assigned(Last(D).bus, bar, a)
        BY <1>5, <1>10, <2>3 DEF SameBus
    <2>5. a = pci_allocate_mem32(Last(D).mem, size, mem) /\ PowerOfTwo(size)
        BY <1>5, <2>4 DEF IsBar
    <2> HIDE DEF a, N
    <2>6. Canon(a.blocks)
        BY <1>2, <2>2, <2>5, BarPool
    <2>7. b \in BusSet(e) /\ SameBus(b, l) /\ b.mem = a.blocks
        BY <1>1, <1>2, <1>6, <2>6, BusChanged DEF SameBus
    <2>8. buses' = OnLast(buses, b) /\ claims' = claims \union N
        BY <1>7, <1>12 DEF N, a
    <2> HIDE DEF b
    <2>9. SameBus(b, Last(D))
        BY <1>10, <2>3, <2>7 DEF SameBus
    <2>10. Kept(D, claims, mem, OnLast(D, b), claims \union N, routes, stranded, e)
        BY <1>2, <1>5, <2>2, <2>4, <2>7, <2>9, BarStep
    <2>11. Kept(buses, claims, mem, buses', claims', routes', stranded', devices')
        BY <1>1, <2>1, <2>3, <2>8, <2>10, KeptTwice
    <2>12. BehindInv(buses', claims', routes', stranded')
        <3>1. \A c \in N : c.part = "bar"
            BY DEF N, Assigned
        <3>2. SameBus(b, Last(buses))
            BY <2>7 DEF l
        <3> QED
            BY <1>1, <1>2, <2>7, <2>8, <3>1, <3>2, BehindTop
    <2> QED
        BY <1>0, <1>1, <2>11, <2>12, SoundKept
<1> QED
    BY <1>3, <1>11, <1>12

-----------------------------------------------------------------------------
(* Bridges: the probe of the bus behind one begins. *)

\* A window is forwarded in whole granules.
LEMMA ForwardedIs ==
    ASSUME NEW id, NEW bus, NEW w, w.base \in Nat, w.limit \in Nat, w.base < w.limit,
           w.base % Granule = 0, w.size # 0
    PROVE  Forwarded(id, bus, w) = {WindowClaim(id, bus, w)}
<1> DEFINE a == w.base
           l == w.limit
           g == Granule
           p == (a \div g) * g
           q == ((l - 1) \div g) * g
           u == RoundUp(l - a, g)
<1>1. a \in Nat /\ l \in Nat /\ a < l /\ a % g = 0 /\ g \in Nat \ {0} /\ l - 1 \in Nat /\ l - a \in Nat
      /\ a + (l - a) = l
    BY Sizes
<1>2. Forwarded(id, bus, w) =
          IF w.size = 0 \/ q + g - 1 < p THEN {}
          ELSE {[id |-> id, part |-> "window", bus |-> bus, lo |-> p, hi |-> q + g - 1]}
    BY DEF Forwarded
<1>3. WindowClaim(id, bus, w) = [id |-> id, part |-> "window", bus |-> bus, lo |-> a, hi |-> a + u - 1]
    BY DEF WindowClaim
<1> HIDE DEF a, l, g
<1>4. p \in Nat /\ p <= a /\ \A m \in Nat : m % g = 0 /\ m <= a => m <= p
    BY <1>1, Floor
<1>5. p = a
    BY <1>1, <1>4
<1> DEFINE k == l - 1
<1>6. k \in Nat /\ l <= k + 1
    BY <1>1
<1> HIDE DEF k
<1>7. (k \div g) * g \in Nat /\ (k \div g) * g <= k /\ k < (k \div g) * g + g /\ ((k \div g) * g) % g = 0
    BY <1>1, <1>6, Floor
<1>8. q \in Nat /\ q < l /\ l <= q + g /\ q % g = 0
    BY <1>1, <1>7 DEF k
<1> HIDE DEF q
<1> DEFINE n == l - a
<1>9. n \in Nat /\ a + n = l
    BY <1>1
<1> HIDE DEF n
<1>10. /\ RoundUp(n, g) \in Nat /\ n <= RoundUp(n, g) /\ (a + RoundUp(n, g)) % g = 0
       /\ \A m \in Nat : m % g = 0 /\ a + n <= m => a + RoundUp(n, g) <= m
    BY <1>1, <1>9, RoundedSpan
<1>11. /\ u \in Nat /\ l <= a + u /\ (a + u) % g = 0
       /\ \A m \in Nat : m % g = 0 /\ l <= m => a + u <= m
    BY <1>1, <1>9, <1>10 DEF n
<1> HIDE DEF u
<1>12. (q + g) % g = 0 /\ q + g \in Nat
    <2>1. g % g = 0 /\ g \in Nat
        BY <1>1
    <2>2. (q + g) % g = 0
        BY <1>1, <1>8, <2>1, Multiples
    <2> QED
        BY <1>1, <1>8, <2>2
<1>13. a + u <= q + g
    BY <1>8, <1>11, <1>12
<1>14. q + g <= a + u
    <2> DEFINE y == a + u
    <2>1. y \in Nat /\ q < y /\ y % g = 0
        BY <1>1, <1>8, <1>11
    <2> HIDE DEF y
    <2>2. q + g <= y
        BY <1>1, <1>8, <2>1, Multiples
    <2> QED
        BY <2>2 DEF y
<1>15. q + g - 1 = a + u - 1 /\ ~(q + g - 1 < a)
    BY <1>1, <1>8, <1>11, <1>13, <1>14
<1> QED
    BY <1>2, <1>3, <1>5, <1>15

\* A list with a single block.
LEMMA FreeOnEmpty ==
    ASSUME NEW a \in Nat, NEW s \in Nat, a + s <= Top, NEW mem \in BOOLEAN, NEW Q, Q = pci_free_block(<<>>, a, s, mem)
    PROVE  Q = IF mem /\ s # 0 THEN <<Block(a, s)>> ELSE <<>>
<1> DEFINE P == <<>>
           e == Block(a, a + s - a)
<1>1. /\ Len(P) = 0 /\ {i \in DOMAIN P : a < P[i].base} = {}
      /\ ~(0 > 0) /\ ~(0 < Len(P))
    OBVIOUS
<1>2. SubSeq(P, 1, 0) = <<>> /\ SubSeq(P, 1, Len(P)) = <<>>
    OBVIOUS
<1>3. e = Block(a, s)
    BY DEF Block
<1> HIDE DEF P
<1>4. Q = IF s = 0 \/ ~mem THEN <<>> ELSE SubSeq(P, 1, 0) \o <<e>> \o SubSeq(P, 1, Len(P))
    BY <1>1 DEF pci_free_block, Before, JoinsPrev, JoinsNext, Inserted, P
<1> HIDE DEF e
<1>5. <<>> \o <<e>> \o <<>> = <<e>>
    OBVIOUS
<1> QED
    BY <1>2, <1>3, <1>4, <1>5

LEMMA NewPool ==
    ASSUME NEW a \in Nat, NEW s \in Nat, a + s <= Top, NEW mem \in BOOLEAN, NEW Q, Q = pci_free_block(<<>>, a, s, mem)
    PROVE  /\ Canon(Q)
           /\ \A x \in Addresses : InPool(Q, x) <=> mem /\ Inside(x, a, a + s)
<1>1. Q = IF mem /\ s # 0 THEN <<Block(a, s)>> ELSE <<>>
    BY FreeOnEmpty
<1>2. CASE mem /\ s # 0
    <2> DEFINE h == a + s
               b == Block(a, h - a)
    <2>1. h \in Nat /\ a < h /\ h <= Top /\ h - a = s
        BY <1>2
    <2> HIDE DEF h
    <2>2. b \in PoolBlock /\ Limit(b) = h /\ \A x : Holds(b, x) <=> Inside(x, a, h)
        BY <2>1, BlockFacts
    <2> HIDE DEF b
    <2>3. Canon(<<b>>) /\ \A x : InPool(<<b>>, x) <=> Holds(b, x)
        BY <2>1, <2>2, Single
    <2>4. Q = <<b>>
        BY <1>1, <1>2, <2>1 DEF b
    <2> QED
        BY <1>2, <2>2, <2>3, <2>4 DEF h
<1>3. CASE ~(mem /\ s # 0)
    <2>1. Q = <<>>
        BY <1>1, <1>3
    <2>2. \A x \in Addresses : ~(mem /\ Inside(x, a, a + s))
        BY <1>3 DEF Inside, Addresses
    <2> QED
        BY <2>1, <2>2, Empty
<1> QED
    BY <1>2, <1>3

\* The bus behind a bridge gets the first of its numbers.
LEMMA FirstBus ==
    ASSUME NEW a \in Nat, NEW s \in Nat, a + s <= MaxBus + 1, NEW mem \in BOOLEAN, NEW r,
           r = pci_allocate_buses(pci_free_block(<<>>, a, s, mem), MaxBus, mem), r.ok
    PROVE  /\ mem /\ s > 0 /\ r.base = a
           /\ Canon(r.blocks)
           /\ \A x \in Addresses : InPool(r.blocks, x) <=> a < x /\ x < a + s
<1> DEFINE P == pci_free_block(<<>>, a, s, mem)
           b == Block(a, s)
<1>1. Top \in Nat /\ MaxBus \in Nat /\ MaxBus < Top /\ a + s <= Top
    BY Sizes
<1>2. P = IF mem /\ s # 0 THEN <<b>> ELSE <<>>
    BY <1>1, FreeOnEmpty
<1>3. Canon(P) /\ \A x \in Addresses : InPool(P, x) <=> mem /\ Inside(x, a, a + s)
    BY <1>1, NewPool
<1>4. r = pci_allocate_block(P, 1, 1, 0, MaxBus, mem)
    BY DEF pci_allocate_buses
<1> HIDE DEF P
<1> DEFINE one == 1
           zero == 0
<1>5. one \in Nat \ {0} /\ zero \in Nat /\ r = pci_allocate_block(P, one, one, zero, MaxBus, mem)
    BY <1>4
<1> HIDE DEF one, zero
<1>6. /\ Taken(P, r.blocks, r.base, one, mem)
      /\ \E k \in 1 .. Len(P) : r.base = StartIn(P[k], one, zero)
    BY <1>1, <1>3, <1>5, AllocEffect
<1>7. PICK k \in 1 .. Len(P) : r.base = StartIn(P[k], one, zero)
    BY <1>6
<1>8. mem /\ s # 0
    <2>1. Len(P) # 0
        <3>1. \A i \in 1 .. 0 : FALSE
            OBVIOUS
        <3> QED
            BY <1>7, <3>1
    <2> QED
        BY <1>2, <2>1, Empty
<1>9. P = <<b>> /\ k = 1
    <2>1. P = <<b>>
        BY <1>2, <1>8
    <2>2. Len(<<b>>) = 1
        OBVIOUS
    <2> QED
        BY <2>1, <2>2
<1>10. P[k].base = a
    BY <1>9 DEF Block
<1>11. r.base = a
    <2>1. RoundUp(a, 1) = a
        BY DEF RoundUp
    <2>2. ~(a < 0)
        OBVIOUS
    <2> QED
        BY <1>7, <1>10, <2>1, <2>2 DEF StartIn, one, zero
<1>12. \A x \in Addresses : InPool(r.blocks, x) <=> InPool(P, x) /\ ~Inside(x, a, a + 1)
    BY <1>6, <1>8, <1>11 DEF Taken, one
<1>13. ASSUME NEW x \in Addresses
       PROVE  InPool(r.blocks, x) <=> a < x /\ x < a + s
    <2>1. x \in Nat
        BY <1>1 DEF Addresses
    <2>2. InPool(P, x) <=> Inside(x, a, a + s)
        BY <1>3, <1>8
    <2>3. InPool(r.blocks, x) <=> Inside(x, a, a + s) /\ ~Inside(x, a, a + 1)
        BY <1>12, <2>2
    <2>4. Inside(x, a, a + s) /\ ~Inside(x, a, a + 1) <=> a < x /\ x < a + s
        BY <2>1 DEF Inside
    <2> QED
        BY <2>3, <2>4
<1>14. Canon(r.blocks)
    BY <1>6 DEF Taken
<1>15. s > 0
    BY <1>8
<1> QED
    BY <1>8, <1>11, <1>13, <1>14, <1>15

\* The bridge's own BAR.
LEMMA OwnBar ==
    ASSUME NEW d \in Nat, NEW e \in Nat, d <= e, NEW B, NEW C, NEW R, NEW S, AllInv(B, C, R, S, d),
           NEW mem, NEW bar, bar.size = 0 \/ IsBar(bar, e), NEW r,
           r = IF bar.size = 0 THEN Refused(Last(B).mem) ELSE pci_allocate_mem32(Last(B).mem, bar.size, mem)
    PROVE  AssignedTo(B, C, mem, [mem |-> r.blocks, claims |-> Assigned(Last(B).bus, bar, r)], R, S, e)
<1> DEFINE x == [mem |-> Last(B).mem, claims |-> {}]
           y == [mem |-> r.blocks, claims |-> Assigned(Last(B).bus, bar, r)]
<1>1. AssignedTo(B, C, mem, x, R, S, e)
    BY AssignNone
<1>2. CASE bar.size = 0
    <2>1. r.ok = FALSE /\ r.blocks = Last(B).mem
        BY <1>2 DEF Refused
    <2>2. y = x
        BY <2>1 DEF Assigned
    <2> QED
        BY <1>1, <2>2
<1>3. CASE bar.size # 0
    <2>1. r = pci_allocate_mem32(x.mem, bar.size, mem)
        BY <1>3
    <2>2. {} \union Assigned(Last(B).bus, bar, r) = Assigned(Last(B).bus, bar, r)
        OBVIOUS
    <2>3. y = AssignOne(x, bar, Last(B).bus, mem)
        BY <2>1, <2>2 DEF AssignOne
    <2> HIDE DEF x, y
    <2>4. AssignedTo(B, C, mem, y, R, S, e)
        BY <1>1, <1>3, <2>3, AssignNext
    <2> QED
        BY <2>4 DEF y
<1> QED
    BY <1>2, <1>3

\* A number for a device that nothing has yet.
Fresh(B, C, R, S, i) ==
    /\ \A k \in 1 .. Len(B) : B[k].id # i
    /\ \A c \in C : c.part = "window" => c.id # i
    /\ \A r \in R : r.id # i
    /\ i \notin S

LEMMA FreshId ==
    ASSUME NEW d \in Nat, NEW B, NEW C, NEW R, NEW S, AllInv(B, C, R, S, d), NEW i, i = d + 1,
           NEW D, Len(D) = Len(B), \A k \in 1 .. Len(B) : D[k].id = B[k].id,
           NEW N, \A c \in N : c.part = "bar"
    PROVE  Fresh(D, C \union N, R, S, i)
<1>1. BusTypes(B, d) /\ ClaimTypes(C, d) /\ RouteTypes(R, S, d)
    BY DEF AllInv
<1>2. \A k \in 1 .. Len(B) : D[k].id # i
    <2>1. \A k \in 1 .. Len(B) : B[k].id \in 0 .. d
        BY <1>1, BusFacts
    <2> QED
        BY <2>1
<1>3. \A c \in C : c.id # i
    BY <1>1 DEF ClaimTypes, ClaimSet
<1>4. \A r \in R : r.id # i
    BY <1>1 DEF RouteTypes
<1>5. i \notin S
    BY <1>1 DEF RouteTypes
<1>6. \A c \in C \union N : c.part = "window" => c.id # i
    BY <1>3
<1> QED
    BY <1>2, <1>4, <1>5, <1>6 DEF Fresh

\* The bridge does not get a number for the bus behind it.
LEMMA StrandedStep ==
    ASSUME NEW e \in 1 .. MaxDevices, NEW B, NEW C, NEW R, NEW S, AllInv(B, C, R, S, e),
           Fresh(B, C, R, S, e),
           NEW q \in [id : 1 .. MaxDevices, bus : 0 .. MaxBus, sec : 0 .. MaxBus, sub : 0 .. MaxBus], q.id = e
    PROVE  AllInv(B, C, R \union {q}, S \union {e}, e)
<1> DEFINE U == R \union {q}
           V == S \union {e}
<1>0. MaxDevices \in Nat /\ e \in Nat /\ e <= e
    BY PciProbeAssumption
<1>1. /\ BusTypes(B, e) /\ ClaimTypes(C, e) /\ RouteTypes(R, S, e) /\ ReachInv(C, R, S)
      /\ MemInv(B, C) /\ NumInv(B, R, S)
    BY DEF AllInv
<1>2. (\A r \in R : r.id # e) /\ e \notin S /\ \A k \in 1 .. Len(B) : B[k].id # e
    BY DEF Fresh
<1>3. Live(U, V) = Live(R, S)
    BY <1>2 DEF Live
<1>4. Used(U, V) = Used(R, S)
    BY <1>3 DEF Used
<1>5. RouteTypes(U, V, e)
    <2>1. U \subseteq [id : 1 .. MaxDevices, bus : 0 .. MaxBus, sec : 0 .. MaxBus, sub : 0 .. MaxBus]
        BY <1>1 DEF RouteTypes
    <2>2. V \subseteq 1 .. MaxDevices /\ (\A r \in U : r.id <= e) /\ \A s \in V : s <= e
        BY <1>0, <1>1 DEF RouteTypes
    <2>3. \A r, p \in U : r.id = p.id => r = p
        BY <1>1, <1>2 DEF RouteTypes
    <2>4. /\ \A r \in Live(R, S) : r.sec > 0 /\ r.sec <= r.sub /\ r.bus \in Used(R, S)
          /\ \A r, p \in Live(R, S) : r.sec = p.sec => r = p
        BY <1>1 DEF RouteTypes
    <2> HIDE DEF U, V
    <2> QED
        BY <1>3, <1>4, <2>1, <2>2, <2>3, <2>4 DEF RouteTypes
<1>6. NumbersOK(B) /\ RangesOK(B, R, S) /\ UsedOK(B, R, S) /\ RoutesOK(B, R, S)
    BY <1>1 DEF NumInv
<1>7. RangesOK(B, U, V)
    <2>1. \A k \in 2 .. Len(B) : k \in 1 .. Len(B)
        BY <1>1, BusFacts
    <2>2. \A k \in 2 .. Len(B) : B[k].id \notin S => B[k].id \notin V
        BY <1>2, <2>1
    <2>3. \A r : r \in R => r \in U
        OBVIOUS
    <2> HIDE DEF U, V
    <2> QED
        BY <1>6, <2>2, <2>3 DEF RangesOK
<1> HIDE DEF U, V
<1>8. UsedOK(B, U, V)
    BY <1>4, <1>6 DEF UsedOK
<1>9. RoutesOK(B, U, V)
    BY <1>3, <1>6 DEF RoutesOK
<1>10. ReachInv(C, U, V)
    BY <1>1, <1>3, <1>4 DEF ReachInv
<1>11. NumInv(B, U, V)
    BY <1>6, <1>7, <1>8, <1>9 DEF NumInv
<1>12. AllInv(B, C, U, V, e)
    BY <1>1, <1>5, <1>10, <1>11 DEF AllInv
<1> QED
    BY <1>12 DEF U, V

LEMMA BehindStranded ==
    ASSUME NEW e, NEW B, NEW C, NEW R, NEW S, BehindInv(B, C, R, S), Fresh(B, C, R, S, e), NEW q, q.id = e
    PROVE  BehindInv(B, C, R \union {q}, S \union {e})
<1> DEFINE U == R \union {q}
           V == S \union {e}
<1>1. Live(U, V) = Live(R, S)
    BY DEF Live, Fresh
<1> HIDE DEF U, V
<1>2. BehindInv(B, C, U, V)
    BY <1>1 DEF BehindInv
<1> QED
    BY <1>2 DEF U, V

\* One bus more is probed.
Push(B, c) == B \o <<c>>

LEMMA PushBus ==
    ASSUME NEW e \in Nat, NEW B, BusTypes(B, e), NEW c \in BusSet(e),
           \A k \in 1 .. Len(B) : B[k].id # c.id /\ B[k].bus # c.bus
    PROVE  /\ BusTypes(Push(B, c), e) /\ Len(Push(B, c)) = Len(B) + 1
           /\ \A k \in 1 .. Len(B) : Push(B, c)[k] = B[k]
           /\ Push(B, c)[Len(B) + 1] = c
<1> DEFINE n == Len(B)
           D == Push(B, c)
           X == BusSet(e)
<1>1. B \in Seq(X) /\ n \in Nat \ {0} /\ 1 \in 1 .. n /\ n > 0
    BY BusFacts DEF BusTypes
<1>2. <<c>> \in Seq(X) /\ Len(<<c>>) = 1 /\ <<c>>[1] = c
    OBVIOUS
<1> HIDE DEF X, n
<1>3. /\ D \in Seq(X) /\ Len(D) = n + 1
      /\ \A k \in 1 .. n + 1 : D[k] = IF k <= n THEN B[k] ELSE <<c>>[k - n]
    BY <1>1, <1>2, ConcatProperties DEF Push, n
<1> HIDE DEF D
<1>4. /\ \A k \in 1 .. n : k \in 1 .. n + 1 /\ k <= n
      /\ n + 1 \in 1 .. n + 1 /\ ~(n + 1 <= n) /\ n + 1 - n = 1
    BY <1>1
<1>5. (\A k \in 1 .. n : D[k] = B[k]) /\ D[n + 1] = c
    <2>1. \A k \in 1 .. n : D[k] = B[k]
        BY <1>3, <1>4
    <2> DEFINE s == <<c>>
    <2>2. s[1] = c /\ \A k \in 1 .. n + 1 : D[k] = IF k <= n THEN B[k] ELSE s[k - n]
        BY <1>2, <1>3
    <2> HIDE DEF s
    <2>3. D[n + 1] = s[n + 1 - n]
        BY ONLY <1>1, <1>4, <2>2
    <2> QED
        BY <1>4, <2>1, <2>2, <2>3
<1>6. ASSUME NEW j \in 1 .. n + 1, NEW k \in 1 .. n + 1, j # k
      PROVE  D[j].id # D[k].id /\ D[j].bus # D[k].bus
    <2>1. (j \in 1 .. n \/ j = n + 1) /\ (k \in 1 .. n \/ k = n + 1)
        BY <1>1
    <2>2. CASE j \in 1 .. n /\ k \in 1 .. n
        BY <1>5, <1>6, <2>2 DEF BusTypes, n
    <2>3. CASE j = n + 1
        BY <1>5, <1>6, <2>1, <2>3 DEF n
    <2>4. CASE k = n + 1
        BY <1>5, <1>6, <2>1, <2>4 DEF n
    <2> QED
        BY <2>1, <2>2, <2>3, <2>4
<1>7. BusTypes(D, e)
    <2>1. D[1].bus = 0
        BY <1>1, <1>5 DEF BusTypes
    <2>2. Len(D) > 0
        BY <1>1, <1>3
    <2>3. \A j, k \in 1 .. Len(D) : j # k => D[j].id # D[k].id /\ D[j].bus # D[k].bus
        BY <1>3, <1>6
    <2> QED
        BY <1>3, <2>1, <2>2, <2>3 DEF BusTypes, X
<1> QED
    BY <1>3, <1>5, <1>7 DEF D, n

\* c is the bus behind a bridge on the last bus: the window of the bridge is
\* in the pool of that bus, and the pool behind the bridge is the window; the
\* same for bus numbers, but the first is that of the bus.
WindowFree(B, c) ==
    /\ WindowOK(c.window) /\ c.window.base + RoundUp(c.window.size, Granule) <= Top
    /\ \A x \in Addresses :
          c.window.base <= x /\ x < c.window.base + RoundUp(c.window.size, Granule) => InPool(B[Len(B)].mem, x)
    /\ Canon(c.mem)
    /\ \A x \in Addresses : InPool(c.mem, x) <=> c.window.base <= x /\ x < c.window.limit

RangeFree(B, c) ==
    /\ c.bus = c.range.base
    /\ c.range \in Window /\ c.range.base < c.range.limit
    /\ c.range.limit = c.range.base + c.range.size /\ c.range.limit <= MaxBus + 1
    /\ \A x \in Addresses : c.range.base <= x /\ x < c.range.limit => InPool(B[Len(B)].numbers, x)
    /\ Canon(c.numbers)
    /\ \A x \in Addresses : InPool(c.numbers, x) <=> c.range.base < x /\ x < c.range.limit

\* What the bridge forwards.
Window1(B, c) == IF c.window.size = 0 THEN {} ELSE {WindowClaim(c.id, B[Len(B)].bus, c.window)}
Route1(B, c) == [id |-> c.id, bus |-> B[Len(B)].bus, sec |-> c.range.base, sub |-> c.range.limit - 1]

\* The number of the new bus is not in use.
LEMMA NewNumber ==
    ASSUME NEW e \in Nat, NEW B, BusTypes(B, e), NEW C, NEW R, NEW S, RouteTypes(R, S, e), NumInv(B, R, S),
           ReachInv(C, R, S), NEW c, RangeFree(B, c)
    PROVE  /\ c.bus \in 1 .. MaxBus /\ c.range.base = c.bus /\ c.bus \in Addresses
           /\ c.range.limit \in 1 .. MaxBus + 1 /\ c.range.limit \in Nat /\ c.bus < c.range.limit
           /\ c.bus \notin Used(R, S)
           /\ \A k \in 1 .. Len(B) : B[k].bus # c.bus
           /\ \A d \in C : d.bus # c.bus
           /\ \A r \in Live(R, S) : r.sec # c.bus /\ r.bus # c.bus
           /\ \A x \in Addresses : c.bus <= x /\ x < c.range.limit =>
                 \A j \in 2 .. Len(B) : B[j].range.base < x /\ x < B[j].range.limit
<1> DEFINE n == Len(B)
           a == c.range.base
           h == c.range.limit
<1>1. n \in Nat \ {0} /\ n \in 1 .. n /\ \A k \in 2 .. n : k \in 1 .. n
    BY BusFacts
<1>2. /\ NumbersOK(B) /\ RangesOK(B, R, S) /\ UsedOK(B, R, S)
    BY DEF NumInv
<1>3. /\ a \in 0 .. Top /\ h \in 0 .. Top /\ a < h /\ h <= MaxBus + 1 /\ c.bus = a
      /\ \A x \in Addresses : a <= x /\ x < h => InPool(B[n].numbers, x)
    BY DEF RangeFree, Window
<1>4. Top \in Nat /\ MaxBus \in Nat /\ MaxBus < Top
    BY Sizes
<1> HIDE DEF a, h, n
<1>5. \A x \in Addresses : InPool(B[n].numbers, x) =>
          x > 0 /\ x <= MaxBus /\ \A j \in 2 .. n : B[j].range.base < x /\ x < B[j].range.limit
    BY <1>1, <1>2 DEF NumbersOK, n
<1>6. a \in Addresses /\ a \in Nat /\ h \in Nat
    BY <1>3, <1>4 DEF Addresses
<1>7. InPool(B[n].numbers, a)
    BY <1>3, <1>6
<1>8. a > 0 /\ a <= MaxBus
    BY <1>5, <1>6, <1>7
<1>9. a \notin Used(R, S)
    <2>1. \A u \in Used(R, S) : InPool(B[n].numbers, u) => n < n
        BY <1>1, <1>2 DEF UsedOK, n
    <2> QED
        BY <1>1, <1>7, <2>1
<1>10. \A k \in 1 .. n : B[k].bus # a
    <2>1. \A k \in 1 .. n : B[k].bus \in Used(R, S)
        BY <1>2, RouteOf DEF n
    <2> QED
        BY <1>9, <2>1
<1>11. \A d \in C : d.bus # a
    BY <1>9 DEF ReachInv
<1>12. \A r \in Live(R, S) : r.sec # a /\ r.bus # a
    <2>1. \A r \in Live(R, S) : r.sec \in Used(R, S)
        BY DEF Used
    <2>2. \A r \in Live(R, S) : r.bus \in Used(R, S)
        BY DEF RouteTypes
    <2> QED
        BY <1>9, <2>1, <2>2
<1>13. \A x \in Addresses : a <= x /\ x < h => \A j \in 2 .. n : B[j].range.base < x /\ x < B[j].range.limit
    BY <1>3, <1>5
<1>14. a \in 1 .. MaxBus /\ h \in 1 .. MaxBus + 1
    BY <1>3, <1>4, <1>6, <1>8
<1> QED
    BY <1>3, <1>6, <1>9, <1>10, <1>11, <1>12, <1>13, <1>14 DEF a, h, n

LEMMA NewWindow ==
    ASSUME NEW c, WindowOK(c.window), c.window.size # 0,
           c.window.base + RoundUp(c.window.size, Granule) <= Top,
           NEW id \in 1 .. MaxDevices, NEW bus \in 0 .. MaxBus, NEW v, v = WindowClaim(id, bus, c.window)
    PROVE  /\ v \in ClaimSet /\ v.lo <= v.hi /\ v.lo \in Nat /\ v.hi \in Nat
           /\ v.id = id /\ v.part = "window" /\ v.bus = bus
           /\ v.lo = c.window.base /\ v.hi = c.window.base + RoundUp(c.window.size, Granule) - 1
           /\ c.window.limit <= v.hi + 1
<1> DEFINE w == c.window
           a == w.base
           l == w.limit
           s == w.size
           u == RoundUp(s, Granule)
<1>1. a \in Nat /\ l \in Nat /\ s \in Nat /\ l = a + s /\ a < l /\ l - a = s
    <2> HIDE DEF w
    <2>1. w.base \in Nat /\ w.limit \in Nat /\ w.size \in Nat /\ w.limit = w.base + w.size /\ w.base < w.limit
        BY WindowFacts DEF w
    <2> QED
        BY <2>1
<1>2. v = [id |-> id, part |-> "window", bus |-> bus, lo |-> a, hi |-> a + u - 1]
    BY <1>1 DEF WindowClaim
<1>3. a + u <= Top
    OBVIOUS
<1> HIDE DEF a, l, s
<1>4. u \in Nat /\ s <= u
    BY <1>1, Sizes, Rounded
<1> HIDE DEF u
<1>5. a \in 0 .. Top /\ a + u - 1 \in 0 .. Top /\ a <= a + u - 1 /\ l <= a + u - 1 + 1 /\ a + u - 1 \in Nat
    BY <1>1, <1>3, <1>4, Sizes
<1>6. v \in ClaimSet
    BY <1>2, <1>5 DEF ClaimSet
<1> QED
    BY <1>1, <1>2, <1>5, <1>6 DEF a, l, u, s

Pushed(B, c, D) ==
    /\ Len(D) = Len(B) + 1
    /\ \A k \in 1 .. Len(B) : D[k] = B[k]
    /\ D[Len(B) + 1] = c

PushFacts(B, c, D, n) ==
    /\ n \in Nat \ {0} /\ n \in 1 .. n /\ Len(D) = n + 1 /\ D[n + 1] = c /\ D[n] = B[n]
    /\ \A k \in 1 .. n : D[k] = B[k] /\ k # n + 1
    /\ \A k \in 2 .. n : k - 1 \in 1 .. n /\ k \in 1 .. n
    /\ \A k \in 1 .. n : k < n => k + 1 \in 1 .. n
    /\ \A k \in 1 .. n + 1 : k \in 1 .. n \/ k = n + 1
    /\ \A k \in 2 .. n + 1 : k \in 2 .. n \/ k = n + 1
    /\ n + 1 - 1 = n

LEMMA PushIndex ==
    ASSUME NEW e \in Nat, NEW B, BusTypes(B, e), NEW c, NEW D, Pushed(B, c, D)
    PROVE  PushFacts(B, c, D, Len(B))
<1> DEFINE n == Len(B)
<1>1. n \in Nat \ {0} /\ n \in 1 .. n
    BY BusFacts
<1>2. Len(D) = n + 1 /\ D[n + 1] = c /\ \A k \in 1 .. n : D[k] = B[k]
    BY DEF Pushed
<1> HIDE DEF n
<1>3. PushFacts(B, c, D, n)
    BY <1>1, <1>2 DEF PushFacts
<1> QED
    BY <1>3 DEF n

LEMMA PushPools ==
    ASSUME NEW e \in Nat, NEW B, BusTypes(B, e), PoolsOK(B), NEW c, WindowFree(B, c), NEW D, Pushed(B, c, D)
    PROVE  PoolsOK(D)
<1> DEFINE n == Len(B)
           w == c.window
<1>1. /\ n \in Nat \ {0} /\ Len(D) = n + 1 /\ D[n + 1] = c /\ \A k \in 1 .. n : D[k] = B[k]
      /\ \A k \in 1 .. n + 1 : k \in 1 .. n \/ k = n + 1
      /\ \A k \in 2 .. n + 1 : k \in 2 .. n \/ k = n + 1
      /\ \A k \in 2 .. n : k \in 1 .. n
    <2>1. PushFacts(B, c, D, Len(B))
        BY PushIndex
    <2> HIDE DEF n
    <2>2. PushFacts(B, c, D, n)
        BY <2>1 DEF n
    <2> QED
        BY <2>2 DEF PushFacts
<1>2. /\ WindowOK(w) /\ Canon(c.mem)
      /\ \A x \in Addresses : InPool(c.mem, x) <=> w.base <= x /\ x < w.limit
    BY DEF WindowFree
<1>3. /\ \A k \in 1 .. n : Canon(B[k].mem)
      /\ \A k \in 2 .. n : /\ WindowOK(B[k].window) /\ Cuttable(B[k].mem, B[k].window)
                           /\ \A x \in Addresses : InPool(B[k].mem, x) =>
                                 B[k].window.base <= x /\ x < B[k].window.limit
    BY DEF PoolsOK
<1> HIDE DEF n
<1>4. Cuttable(c.mem, w)
    <2> HIDE DEF w
    <2> SUFFICES ASSUME InPool(c.mem, w.base)
                 PROVE  \E z \in Addresses :
                           /\ w.base < z /\ ~InPool(c.mem, z)
                           /\ \A x \in w.base .. z - 1 : InPool(c.mem, x)
                           /\ z % Granule = 0 \/ z = w.limit
        BY DEF Cuttable
    <2>1. w.base \in Nat /\ w.limit \in Nat /\ w.limit <= Top /\ Top \in Nat
        BY <1>2, WindowFacts, Sizes
    <2>2. w.base \in Addresses /\ w.limit \in Addresses
        <3>1. w.base <= Top
            BY <1>2, <2>1, WindowFacts
        <3> QED
            BY <2>1, <3>1 DEF Addresses
    <2>3. w.base < w.limit
        BY <1>2, <2>2
    <2>4. ~InPool(c.mem, w.limit)
        BY <1>2, <2>1, <2>2
    <2>5. ASSUME NEW x \in w.base .. w.limit - 1
          PROVE  InPool(c.mem, x)
        <3>1. x \in Addresses /\ w.base <= x /\ x < w.limit
            BY <2>1 DEF Addresses
        <3> QED
            BY <1>2, <3>1
    <2> QED
        BY <2>2, <2>3, <2>4, <2>5
<1>5. \A k \in 1 .. n + 1 : Canon(D[k].mem)
    BY <1>1, <1>2, <1>3
<1>6. ASSUME NEW k \in 2 .. n + 1
      PROVE  /\ WindowOK(D[k].window) /\ Cuttable(D[k].mem, D[k].window)
             /\ \A x \in Addresses : InPool(D[k].mem, x) =>
                   D[k].window.base <= x /\ x < D[k].window.limit
    <2>1. CASE k \in 2 .. n
        BY <1>1, <1>3, <2>1
    <2>2. CASE k = n + 1
        BY <1>1, <1>2, <1>4, <2>2
    <2> QED
        BY <1>1, <2>1, <2>2
<1> QED
    BY <1>1, <1>5, <1>6 DEF PoolsOK

LEMMA PushWindows ==
    ASSUME NEW e \in Nat, NEW B, BusTypes(B, e), NEW C, WindowsOK(B, C), NEW R, NEW S, NEW c,
           Fresh(B, C, R, S, c.id), WindowFree(B, c), NEW D, Pushed(B, c, D)
    PROVE  WindowsOK(D, C \union Window1(B, c))
<1> DEFINE n == Len(B)
           w == c.window
           N == Window1(B, c)
           M == C \union N
<1>1. /\ n \in Nat \ {0} /\ Len(D) = n + 1 /\ D[n + 1] = c /\ D[n] = B[n] /\ \A k \in 1 .. n : D[k] = B[k]
      /\ \A k \in 2 .. n + 1 : k \in 2 .. n \/ k = n + 1
      /\ \A k \in 2 .. n : k \in 1 .. n /\ k - 1 \in 1 .. n
      /\ n + 1 - 1 = n
    <2>1. PushFacts(B, c, D, Len(B))
        BY PushIndex
    <2> HIDE DEF n
    <2>2. PushFacts(B, c, D, n)
        BY <2>1 DEF n
    <2> QED
        BY <2>2 DEF PushFacts
<1>2. /\ \A k \in 1 .. n : B[k].id # c.id
      /\ \A d \in C : d.part = "window" => d.id # c.id
    BY DEF Fresh
<1>3. \A d \in N : w.size # 0 /\ d = WindowClaim(c.id, B[n].bus, w)
    BY DEF Window1
<1>4. \A d \in N : d.id = c.id
    BY <1>3 DEF WindowClaim
<1>5. w.size # 0 => WindowClaim(c.id, B[n].bus, w) \in N
    BY DEF Window1
<1>6. w.size \in Nat
    <2> HIDE DEF w
    <2>1. WindowOK(w)
        BY DEF WindowFree, w
    <2> QED
        BY <2>1, WindowFacts
<1> HIDE DEF n, N
<1>7. \A x \in Addresses :
          w.base <= x /\ x < w.base + RoundUp(w.size, Granule) => InPool(B[n].mem, x)
    BY DEF WindowFree, n
<1> HIDE DEF w
<1>a. \A k \in 2 .. Len(D) : k \in 2 .. n + 1
    BY <1>1
<1> SUFFICES WindowsOK(D, M)
    BY DEF M, N
<1> HIDE DEF M
<1> SUFFICES ASSUME NEW k \in 2 .. n + 1
             PROVE  /\ \A x \in Addresses :
                          D[k].window.base <= x
                          /\ x < D[k].window.base + RoundUp(D[k].window.size, Granule) =>
                              InPool(D[k - 1].mem, x)
                    /\ D[k].window.size > 0 => WindowClaim(D[k].id, D[k - 1].bus, D[k].window) \in M
                    /\ \A d \in M : d.id = D[k].id /\ d.part = "window" =>
                          D[k].window.size > 0 /\ d = WindowClaim(D[k].id, D[k - 1].bus, D[k].window)
    BY <1>a DEF WindowsOK
<1>8. CASE k \in 2 .. n
    <2>1. D[k] = B[k] /\ D[k - 1] = B[k - 1] /\ B[k].id # c.id /\ k \in 2 .. Len(B)
        BY <1>1, <1>2, <1>8 DEF n
    <2>2. /\ \A x \in Addresses :
                B[k].window.base <= x
                /\ x < B[k].window.base + RoundUp(B[k].window.size, Granule) =>
                    InPool(B[k - 1].mem, x)
          /\ B[k].window.size > 0 => WindowClaim(B[k].id, B[k - 1].bus, B[k].window) \in C
          /\ \A d \in C : d.id = B[k].id /\ d.part = "window" =>
                B[k].window.size > 0 /\ d = WindowClaim(B[k].id, B[k - 1].bus, B[k].window)
        BY <2>1 DEF WindowsOK
    <2> QED
        BY <1>4, <2>1, <2>2 DEF M
<1>9. CASE k = n + 1
    <2>1. D[k].window = w /\ D[k].id = c.id /\ D[k - 1] = B[n]
        BY <1>1, <1>9 DEF w
    <2>2. w.size # 0 => w.size > 0
        BY <1>6
    <2> QED
        BY <1>2, <1>3, <1>5, <1>7, <2>1, <2>2 DEF M
<1> QED
    BY <1>1, <1>8, <1>9

LEMMA PushClaims ==
    ASSUME NEW e \in Nat, NEW B, BusTypes(B, e), NEW C, ClaimTypes(C, e), PoolsOK(B), ClaimsOK(B, C),
           NEW R, NEW S, NEW c, Fresh(B, C, R, S, c.id), c.id \in 1 .. MaxDevices,
           WindowFree(B, c), \A d \in C : d.bus # c.bus, \A k \in 1 .. Len(B) : B[k].bus # c.bus,
           NEW D, Pushed(B, c, D)
    PROVE  ClaimsOK(D, C \union Window1(B, c))
<1> DEFINE n == Len(B)
           w == c.window
           N == Window1(B, c)
           M == C \union N
<1>1. /\ n \in Nat \ {0} /\ n \in 1 .. n /\ Len(D) = n + 1 /\ D[n + 1] = c /\ D[n] = B[n]
      /\ \A k \in 1 .. n : D[k] = B[k]
      /\ \A k \in 1 .. n : k < n => k + 1 \in 1 .. n
      /\ \A k \in 1 .. n + 1 : k \in 1 .. n \/ k = n + 1
    <2>1. PushFacts(B, c, D, Len(B))
        BY PushIndex
    <2> HIDE DEF n
    <2>2. PushFacts(B, c, D, n)
        BY <2>1 DEF n
    <2> QED
        BY <2>2 DEF PushFacts
<1>2. \A d \in C : d.part = "window" => d.id # c.id
    BY DEF Fresh
<1>3. /\ WindowOK(w) /\ w.base + RoundUp(w.size, Granule) <= Top
      /\ \A x \in Addresses :
            w.base <= x /\ x < w.base + RoundUp(w.size, Granule) => InPool(B[n].mem, x)
    BY DEF WindowFree
<1>4. ASSUME NEW d \in N
      PROVE  /\ d \in ClaimSet /\ d.lo <= d.hi
             /\ d.id = c.id /\ d.part = "window" /\ d.bus = B[n].bus
             /\ \A x \in Addresses : d.lo <= x /\ x <= d.hi => InPool(B[n].mem, x)
    <2>1. w.size # 0 /\ d = WindowClaim(c.id, B[n].bus, w) /\ B[n].bus \in 0 .. MaxBus
        BY <1>1, BusFacts DEF Window1
    <2> HIDE DEF w, n
    <2>2. /\ d \in ClaimSet /\ d.lo <= d.hi
          /\ d.id = c.id /\ d.part = "window" /\ d.bus = B[n].bus
          /\ d.lo = w.base /\ d.hi = w.base + RoundUp(w.size, Granule) - 1
        BY <1>3, <2>1, NewWindow DEF w
    <2>3. w.base \in Nat /\ w.size \in Nat
        BY <1>3, WindowFacts
    <2> DEFINE z == w.size
    <2>4. RoundUp(z, Granule) \in Nat
        BY <2>3, Sizes, Rounded
    <2> DEFINE u == RoundUp(w.size, Granule)
    <2>5. u \in Nat
        BY <2>4
    <2>6. d.hi = w.base + u - 1 /\ \A x \in Addresses : w.base <= x /\ x < w.base + u => InPool(B[n].mem, x)
        BY <1>3, <2>2
    <2> HIDE DEF u
    <2>7. \A x \in Addresses : x <= d.hi => x < w.base + u
        BY <2>3, <2>5, <2>6, Sizes DEF Addresses
    <2> QED
        BY <2>2, <2>6, <2>7
<1>5. /\ \A k \in 1 .. n, d \in C : d.bus = B[k].bus =>
            /\ ~Ahead(B, k, d) =>
                  \A x \in Addresses : d.lo <= x /\ x <= d.hi => ~InPool(B[k].mem, x)
            /\ k > 1 => B[k].window.base <= d.lo /\ d.hi < B[k].window.limit
      /\ \A d, f \in C : d.bus = f.bus /\ d # f => d.hi < f.lo \/ f.hi < d.lo
    BY DEF ClaimsOK
<1>6. \A k \in 1 .. n : k # n => B[k].bus # B[n].bus
    BY <1>1 DEF BusTypes
<1>7. \A d, f \in N : d = f
    BY DEF Window1
<1>8. n > 1 => \A x \in Addresses : InPool(B[n].mem, x) => B[n].window.base <= x /\ x < B[n].window.limit
    BY <1>1 DEF PoolsOK
<1>9. (\A d \in C : d.bus # c.bus) /\ \A k \in 1 .. n : B[k].bus # c.bus
    OBVIOUS
<1>10. \A k \in 1 .. n, d \in C : Ahead(D, k, d) => Ahead(B, k, d)
    <2> SUFFICES ASSUME NEW k \in 1 .. n, NEW d \in C, Ahead(D, k, d)
                 PROVE  Ahead(B, k, d)
        OBVIOUS
    <2>1. d.id = D[k + 1].id /\ d.part = "window"
        BY DEF Ahead
    <2>2. k # n
        BY <1>1, <1>2, <2>1
    <2>3. k < n /\ D[k + 1] = B[k + 1]
        BY <1>1, <2>2
    <2> QED
        BY <2>1, <2>3 DEF Ahead
<1>11. \A d \in N : Ahead(D, n, d)
    BY <1>1, <1>4 DEF Ahead
<1>12. \A d \in C : d \in ClaimSet /\ d.lo <= d.hi
    BY DEF ClaimTypes
<1> HIDE DEF n, N, w
<1>13. ASSUME NEW k \in 1 .. n + 1, NEW d \in M, d.bus = D[k].bus
       PROVE  /\ ~Ahead(D, k, d) =>
                    \A x \in Addresses : d.lo <= x /\ x <= d.hi => ~InPool(D[k].mem, x)
              /\ k > 1 => D[k].window.base <= d.lo /\ d.hi < D[k].window.limit
    <2>1. CASE d \in C
        <3>1. k \in 1 .. n
            BY <1>1, <1>9, <1>13, <2>1
        <3>2. D[k] = B[k]
            BY <1>1, <3>1
        <3>3. Ahead(B, k, d) => Ahead(D, k, d)
            <4> SUFFICES ASSUME Ahead(B, k, d)
                         PROVE  Ahead(D, k, d)
                OBVIOUS
            <4>1. k < n /\ d.id = B[k + 1].id /\ d.part = "window"
                BY DEF Ahead, n
            <4>2. k < n + 1 /\ D[k + 1] = B[k + 1]
                BY <1>1, <3>1, <4>1
            <4> QED
                BY <1>1, <4>1, <4>2 DEF Ahead
        <3> QED
            BY <1>5, <1>13, <2>1, <3>1, <3>2, <3>3
    <2>2. CASE d \in N
        <3>1. d.bus = B[n].bus
            BY <1>4, <2>2
        <3>2. k = n
            BY <1>1, <1>6, <1>9, <1>13, <3>1
        <3>3. Ahead(D, k, d)
            BY <1>11, <2>2, <3>2
        <3>4. D[k] = B[n]
            BY <1>1, <3>2
        <3>5. d.lo \in Addresses /\ d.hi \in Addresses /\ d.lo <= d.lo /\ d.hi <= d.hi
            BY <1>4, <2>2, ClaimFacts
        <3>6. k > 1 => B[n].window.base <= d.lo /\ d.hi < B[n].window.limit
            BY <1>4, <1>8, <2>2, <3>2, <3>5
        <3> QED
            BY <3>3, <3>4, <3>6
    <2> QED
        BY <2>1, <2>2
<1>14. ASSUME NEW d \in N, NEW f \in C, d.bus = f.bus
       PROVE  d.hi < f.lo \/ f.hi < d.lo
    <2>1. f.bus = B[n].bus /\ ~Ahead(B, n, f)
        BY <1>4, <1>14, <1>1 DEF Ahead, n
    <2>2. \A x \in Addresses : f.lo <= x /\ x <= f.hi => ~InPool(B[n].mem, x)
        BY <1>1, <1>5, <2>1
    <2>3. \A x \in Addresses : d.lo <= x /\ x <= d.hi => InPool(B[n].mem, x)
        BY <1>4
    <2>4. /\ d.lo \in Addresses /\ d.hi \in Addresses /\ d.lo \in Nat /\ d.hi \in Nat /\ d.lo <= d.hi /\ d.lo <= d.lo
          /\ f.lo \in Addresses /\ f.hi \in Addresses /\ f.lo \in Nat /\ f.hi \in Nat /\ f.lo <= f.hi /\ f.lo <= f.lo
        BY <1>4, <1>12, ClaimFacts
    <2>5. ~(f.lo <= d.lo /\ d.lo <= f.hi)
        BY <2>2, <2>3, <2>4
    <2>6. ~(d.lo <= f.lo /\ f.lo <= d.hi)
        BY <2>2, <2>3, <2>4
    <2> QED
        BY <2>4, <2>5, <2>6
<1>15. \A d, f \in M : d.bus = f.bus /\ d # f => d.hi < f.lo \/ f.hi < d.lo
    BY <1>5, <1>7, <1>14
<1> HIDE DEF M
<1>16. \A k \in 1 .. Len(D) : k \in 1 .. n + 1
    BY <1>1
<1>17. ClaimsOK(D, M)
    BY <1>13, <1>15, <1>16 DEF ClaimsOK
<1> QED
    BY <1>17 DEF M, N

\* A claim on a bus that is probed is behind the window of the bridge.
LEMMA Behind ==
    ASSUME NEW d \in Nat, NEW B, BusTypes(B, d), NEW C, NEW R, NEW S, RouteTypes(R, S, d),
           PoolsOK(B), WindowsOK(B, C), RangesOK(B, R, S), NEW n \in 1 .. Len(B),
           NEW c \in ClaimSet, c.lo <= c.hi, c.bus = B[n].bus,
           n > 1 => B[n].window.base <= c.lo /\ c.hi < B[n].window.limit
    PROVE  /\ c.bus \in Used(R, S)
           /\ \A r \in Live(R, S) : c.bus = r.sec =>
                 \E w \in C : /\ w.id = r.id /\ w.part = "window"
                              /\ w.lo <= c.lo /\ c.hi <= w.hi
<1>1. (n > 1 => n \in 2 .. Len(B)) /\ n \in Nat
    BY BusFacts
<1>2. /\ B[n].bus \in Used(R, S)
      /\ \A r \in Live(R, S) : r.sec = B[n].bus => n > 1 /\ r.id = B[n].id
    BY RouteOf
<1>3. c.bus \in Used(R, S)
    BY <1>2
<1>4. ASSUME NEW r \in Live(R, S), c.bus = r.sec
      PROVE  \E w \in C : /\ w.id = r.id /\ w.part = "window"
                          /\ w.lo <= c.lo /\ c.hi <= w.hi
    <2>1. n > 1 /\ n \in 2 .. Len(B) /\ r.id = B[n].id
        BY <1>1, <1>2, <1>4
    <2> DEFINE w == B[n].window
               z == RoundUp(w.size, Granule)
               v == WindowClaim(B[n].id, B[n - 1].bus, w)
    <2>2. WindowOK(w) /\ (w.size > 0 => v \in C)
        BY <2>1 DEF PoolsOK, WindowsOK
    <2>3. /\ c.lo \in Nat /\ c.hi \in Nat
        BY ClaimFacts
    <2>4. w.base <= c.lo /\ c.hi < w.limit
        BY <2>1
    <2>5. v.id = B[n].id /\ v.part = "window" /\ v.lo = w.base
          /\ v.hi = w.base + RoundUp(w.limit - w.base, Granule) - 1
        BY DEF WindowClaim
    <2> HIDE DEF w, v
    <2>6. w.base \in Nat /\ w.limit \in Nat /\ w.size \in Nat /\ w.limit = w.base + w.size
        BY <2>2, WindowFacts
    <2>7. z \in Nat /\ w.size <= z /\ w.limit - w.base = w.size
        <3> DEFINE y == w.size
                   b == w.base
                   l == w.limit
        <3>1. y \in Nat /\ b \in Nat /\ l \in Nat /\ l = b + y
            BY <2>6
        <3> HIDE DEF y, b, l
        <3>2. RoundUp(y, Granule) \in Nat /\ y <= RoundUp(y, Granule)
            BY <3>1, Sizes, Rounded
        <3>3. l - b = y
            BY <3>1
        <3> QED
            BY <3>2, <3>3 DEF y, b, l
    <2>8. v.hi = w.base + z - 1
        BY <2>5, <2>7
    <2> HIDE DEF z
    <2>9. w.size > 0 /\ c.hi <= v.hi
        <3> DEFINE lo == c.lo
                   hi == c.hi
                   a == w.base
                   l == w.limit
                   s == w.size
        <3>1. /\ lo \in Nat /\ hi \in Nat /\ lo <= hi /\ a <= lo /\ hi < l
              /\ a \in Nat /\ l \in Nat /\ s \in Nat /\ l = a + s /\ z \in Nat /\ s <= z
              /\ v.hi = a + z - 1
            BY <2>3, <2>4, <2>6, <2>7, <2>8
        <3> HIDE DEF lo, hi, a, l, s
        <3>2. s > 0 /\ hi <= a + z - 1
            BY ONLY <3>1
        <3> QED
            BY <3>1, <3>2 DEF s, hi
    <2>10. v \in C
        BY <2>2, <2>9
    <2>11. v.lo <= c.lo
        BY <2>4, <2>5
    <2>12. v.id = r.id /\ v.part = "window"
        BY <2>1, <2>5
    <2> QED
        BY <2>9, <2>10, <2>11, <2>12
<1> QED
    BY <1>3, <1>4

LEMMA PushReach ==
    ASSUME NEW e \in Nat, NEW B, NEW C, NEW R, NEW S, AllInv(B, C, R, S, e), NEW c,
           c.id \in 1 .. MaxDevices, WindowFree(B, c), RangeFree(B, c),
           NEW N, N = Window1(B, c), NEW q, q = Route1(B, c), NEW V, Live(V, S) = Live(R, S) \union {q}
    PROVE  ReachInv(C \union N, V, S)
<1> DEFINE n == Len(B)
           w == c.window
<1>1. /\ BusTypes(B, e) /\ ClaimTypes(C, e) /\ RouteTypes(R, S, e) /\ ReachInv(C, R, S)
      /\ PoolsOK(B) /\ WindowsOK(B, C) /\ NumInv(B, R, S) /\ RangesOK(B, R, S)
    BY DEF AllInv, MemInv, NumInv
<1>2. n \in 1 .. n /\ B[n].bus \in 0 .. MaxBus /\ (n > 1 => n \in 2 .. n)
    BY <1>1, BusFacts
<1>3. /\ c.range.base = c.bus
      /\ \A d \in C : d.bus # c.bus
      /\ \A k \in 1 .. n : B[k].bus # c.bus
    BY <1>1, NewNumber
<1>4. q.sec = c.bus /\ q.id = c.id
    BY <1>3 DEF Route1
<1>5. Used(V, S) = Used(R, S) \union {c.bus}
    BY <1>4 DEF Used
<1>6. ASSUME NEW d \in N
      PROVE  /\ d \in ClaimSet /\ d.lo <= d.hi /\ d.bus = B[n].bus
             /\ n > 1 => B[n].window.base <= d.lo /\ d.hi < B[n].window.limit
    <2>1. w.size # 0 /\ d = WindowClaim(c.id, B[n].bus, w)
        BY DEF Window1
    <2>2. /\ WindowOK(w) /\ w.base + RoundUp(w.size, Granule) <= Top
          /\ \A x \in Addresses :
                w.base <= x /\ x < w.base + RoundUp(w.size, Granule) => InPool(B[n].mem, x)
        BY DEF WindowFree
    <2> HIDE DEF w, n
    <2>3. /\ d \in ClaimSet /\ d.lo <= d.hi /\ d.lo \in Nat /\ d.hi \in Nat
          /\ d.bus = B[n].bus /\ d.lo = w.base /\ d.hi = w.base + RoundUp(w.size, Granule) - 1
        BY <1>2, <2>1, <2>2, NewWindow DEF w
    <2> DEFINE u == RoundUp(w.size, Granule)
               z == w.size
    <2>4. z \in Nat
        BY <2>2, WindowFacts
    <2> HIDE DEF z
    <2>5. RoundUp(z, Granule) \in Nat
        BY <2>4, Sizes, Rounded
    <2>6. u \in Nat
        BY <2>5 DEF z
    <2> HIDE DEF u
    <2>7. \A x \in Addresses : d.lo <= x /\ x < d.lo + u => InPool(B[n].mem, x)
        BY <2>2, <2>3 DEF u
    <2>8. d.hi = d.lo + u - 1
        BY <2>3 DEF u
    <2>9. d.lo \in Addresses /\ d.hi \in Addresses
        BY <2>3, ClaimFacts
    <2>10. InPool(B[n].mem, d.lo) /\ InPool(B[n].mem, d.hi)
        <3>1. d.lo <= d.lo /\ d.lo < d.lo + u /\ d.hi < d.lo + u
            BY <2>3, <2>6, <2>8
        <3> QED
            BY <2>3, <2>7, <2>9, <3>1
    <2>11. n > 1 => B[n].window.base <= d.lo /\ d.hi < B[n].window.limit
        BY <1>1, <1>2, <2>9, <2>10 DEF PoolsOK, n
    <2> QED
        BY <2>3, <2>11
<1> HIDE DEF n
<1>7. ASSUME NEW d \in N
      PROVE  /\ d.bus \in Used(R, S)
             /\ \A r \in Live(R, S) : d.bus = r.sec =>
                   \E f \in C : f.id = r.id /\ f.part = "window" /\ f.lo <= d.lo /\ d.hi <= f.hi
    <2>1. n \in 1 .. Len(B)
        BY <1>2 DEF n
    <2> QED
        BY <1>1, <1>6, <2>1, Behind
<1>8. ASSUME NEW d \in C \union N
      PROVE  /\ d.bus \in Used(R, S) /\ d.bus # c.bus
             /\ \A r \in Live(R, S) : d.bus = r.sec =>
                   \E f \in C : f.id = r.id /\ f.part = "window" /\ f.lo <= d.lo /\ d.hi <= f.hi
    <2>1. CASE d \in C
        BY <1>1, <1>3, <2>1 DEF ReachInv
    <2>2. CASE d \in N
        BY <1>2, <1>3, <1>6, <1>7, <2>2
    <2> QED
        BY <2>1, <2>2
<1>9. ASSUME NEW d \in C \union N
      PROVE  /\ d.bus \in Used(V, S)
             /\ \A r \in Live(V, S) : d.bus = r.sec =>
                   \E f \in C \union N : f.id = r.id /\ f.part = "window" /\ f.lo <= d.lo /\ d.hi <= f.hi
    <2>1. d.bus \in Used(V, S)
        BY <1>5, <1>8
    <2>2. ASSUME NEW r \in Live(V, S), d.bus = r.sec
          PROVE  \E f \in C \union N : f.id = r.id /\ f.part = "window" /\ f.lo <= d.lo /\ d.hi <= f.hi
        <3>1. r \in Live(R, S)
            BY <1>4, <1>8, <2>2
        <3>2. PICK f \in C : f.id = r.id /\ f.part = "window" /\ f.lo <= d.lo /\ d.hi <= f.hi
            BY <1>8, <2>2, <3>1
        <3> QED
            BY <3>2
    <2> QED
        BY <2>1, <2>2
<1> QED
    BY <1>9 DEF ReachInv

LEMMA PushLost ==
    ASSUME NEW e \in Nat, NEW B, BusTypes(B, e), NEW C, LostInv(B, C), NEW R, NEW S, NEW c,
           Fresh(B, C, R, S, c.id), NEW D, Pushed(B, c, D), NEW N
    PROVE  LostInv(D, C \union N)
<1> DEFINE n == Len(B)
<1>1. /\ n \in Nat \ {0} /\ n \in 1 .. n /\ Len(D) = n + 1 /\ D[n + 1] = c
      /\ \A k \in 1 .. n : D[k] = B[k]
    <2>1. PushFacts(B, c, D, Len(B))
        BY PushIndex
    <2> HIDE DEF n
    <2>2. PushFacts(B, c, D, n)
        BY <2>1 DEF n
    <2> QED
        BY <2>2 DEF PushFacts
<1>2. \A d \in C : d.part = "window" => d.id # c.id
    BY DEF Fresh
<1> HIDE DEF n
<1>3. D[1] = B[1]
    BY <1>1
<1>4. ASSUME NEW d \in C, ~Ahead(B, 1, d)
      PROVE  ~Ahead(D, 1, d)
    <2> SUFFICES ASSUME Ahead(D, 1, d)
                 PROVE  FALSE
        OBVIOUS
    <2>1. d.id = D[1 + 1].id /\ d.part = "window"
        BY DEF Ahead
    <2>2. CASE n = 1
        BY <1>1, <1>2, <2>1, <2>2
    <2>3. CASE n # 1
        <3>1. 1 < n /\ 1 + 1 \in 1 .. n
            BY <1>1, <2>3
        <3>2. Ahead(B, 1, d)
            BY <1>1, <2>1, <3>1 DEF Ahead, n
        <3> QED
            BY <1>4, <3>2
    <2> QED
        BY <2>2, <2>3
<1> QED
    BY <1>3, <1>4 DEF LostInv

\* The route of a bridge whose bus has a number.
RouteAdded(B, R, S, c, q, V, e) ==
    /\ Live(V, S) = Live(R, S) \union {q}
    /\ Used(V, S) = Used(R, S) \union {c.bus}
    /\ q.id = c.id /\ q.sec = c.bus /\ q.sub = c.range.limit - 1 /\ q.bus = B[Len(B)].bus
    /\ RouteTypes(V, S, e)

LEMMA NewRoute ==
    ASSUME NEW e \in Nat, NEW B, NEW C, NEW R, NEW S, AllInv(B, C, R, S, e), NEW c,
           c.id \in 1 .. MaxDevices, c.id <= e, Fresh(B, C, R, S, c.id), RangeFree(B, c),
           NEW q, q = Route1(B, c), NEW V, V = R \union {q}
    PROVE  RouteAdded(B, R, S, c, q, V, e)
<1>1. /\ BusTypes(B, e) /\ RouteTypes(R, S, e) /\ ReachInv(C, R, S) /\ NumInv(B, R, S) /\ RangesOK(B, R, S)
    BY DEF AllInv, NumInv
<1>2. /\ c.bus \in 1 .. MaxBus /\ c.range.base = c.bus /\ c.range.limit \in 1 .. MaxBus + 1
      /\ c.range.limit \in Nat /\ c.bus < c.range.limit /\ c.bus \notin Used(R, S)
      /\ \A r \in Live(R, S) : r.sec # c.bus
    BY <1>1, NewNumber
<1>3. q = [id |-> c.id, bus |-> B[Len(B)].bus, sec |-> c.bus, sub |-> c.range.limit - 1]
    BY <1>2 DEF Route1
<1>4. (\A r \in R : r.id # c.id) /\ c.id \notin S
    BY DEF Fresh
<1>5. Live(V, S) = Live(R, S) \union {q}
    BY <1>3, <1>4 DEF Live
<1>6. Used(V, S) = Used(R, S) \union {c.bus}
    <2>1. q.sec = c.bus
        BY <1>3
    <2> DEFINE L == Live(R, S)
    <2>2. Live(V, S) = L \union {q}
        BY <1>5
    <2> HIDE DEF L
    <2>3. {r.sec : r \in L \union {q}} = {r.sec : r \in L} \union {c.bus}
        BY ONLY <2>1
    <2> QED
        BY <2>2, <2>3 DEF Used, L
<1>7. B[Len(B)].bus \in 0 .. MaxBus /\ B[Len(B)].bus \in Used(R, S)
    <2>1. Len(B) \in 1 .. Len(B)
        BY <1>1, BusFacts
    <2> QED
        BY <1>1, <2>1, BusFacts, RouteOf
<1>8. MaxBus \in Nat /\ c.bus \in 0 .. MaxBus /\ c.range.limit - 1 \in 0 .. MaxBus /\ c.bus > 0 /\ c.bus <= c.range.limit - 1
    BY <1>2, Sizes
<1>9. q.id = c.id /\ q.sec = c.bus /\ q.sub = c.range.limit - 1 /\ q.bus = B[Len(B)].bus
    BY <1>3
<1>10. q \in [id : 1 .. MaxDevices, bus : 0 .. MaxBus, sec : 0 .. MaxBus, sub : 0 .. MaxBus]
    BY <1>3, <1>7, <1>8
<1>11. /\ R \subseteq [id : 1 .. MaxDevices, bus : 0 .. MaxBus, sec : 0 .. MaxBus, sub : 0 .. MaxBus]
       /\ S \subseteq 1 .. MaxDevices
       /\ \A r \in R : r.id <= e
       /\ \A s \in S : s <= e
       /\ \A r, p \in R : r.id = p.id => r = p
       /\ \A r \in Live(R, S) : r.sec > 0 /\ r.sec <= r.sub /\ r.bus \in Used(R, S)
       /\ \A r, p \in Live(R, S) : r.sec = p.sec => r = p
    BY <1>1 DEF RouteTypes
<1>12. /\ V \subseteq [id : 1 .. MaxDevices, bus : 0 .. MaxBus, sec : 0 .. MaxBus, sub : 0 .. MaxBus]
       /\ \A r \in V : r.id <= e
       /\ \A r, p \in V : r.id = p.id => r = p
    BY <1>4, <1>9, <1>10, <1>11
<1>13. \A r \in Live(V, S) : r.sec > 0 /\ r.sec <= r.sub /\ r.bus \in Used(V, S)
    BY <1>5, <1>6, <1>7, <1>8, <1>9, <1>11
<1>14. \A r, p \in Live(V, S) : r.sec = p.sec => r = p
    BY <1>2, <1>5, <1>9, <1>11
<1>15. RouteTypes(V, S, e)
    BY <1>11, <1>12, <1>13, <1>14 DEF RouteTypes
<1> QED
    BY <1>5, <1>6, <1>9, <1>15 DEF RouteAdded

LEMMA PushNumbers ==
    ASSUME NEW e \in Nat, NEW B, NEW C, NEW R, NEW S, AllInv(B, C, R, S, e), NEW c,
           c.id \in 1 .. MaxDevices, c.id <= e, Fresh(B, C, R, S, c.id), RangeFree(B, c),
           NEW q, q = Route1(B, c), NEW V, V = R \union {q}, NEW D, Pushed(B, c, D)
    PROVE  NumInv(D, V, S)
<1> DEFINE n == Len(B)
           a == c.bus
           h == c.range.limit
<1>0. /\ BusTypes(B, e) /\ RouteTypes(R, S, e) /\ ReachInv(C, R, S) /\ NumInv(B, R, S)
      /\ NumbersOK(B) /\ RangesOK(B, R, S) /\ UsedOK(B, R, S) /\ RoutesOK(B, R, S)
    BY DEF AllInv, NumInv
<1>1. /\ n \in Nat \ {0} /\ n \in 1 .. n /\ Len(D) = n + 1 /\ D[n + 1] = c /\ D[n] = B[n]
      /\ \A k \in 1 .. n : D[k] = B[k] /\ k # n + 1
      /\ \A k \in 2 .. n : k \in 1 .. n /\ k - 1 \in 1 .. n
      /\ \A k \in 1 .. n : k < n => k + 1 \in 1 .. n /\ k + 1 \in 2 .. n
      /\ \A k \in 1 .. n + 1 : k \in 1 .. n \/ k = n + 1
      /\ \A k \in 2 .. n + 1 : k \in 2 .. n \/ k = n + 1
      /\ n + 1 - 1 = n
    <2>1. PushFacts(B, c, D, Len(B))
        BY <1>0, PushIndex
    <2> HIDE DEF n
    <2>2. PushFacts(B, c, D, n)
        BY <2>1 DEF n
    <2>3. n \in Nat
        BY <2>2 DEF PushFacts
    <2>4. \A k \in 1 .. n : k < n => k + 1 \in 2 .. n
        BY <2>3
    <2> QED
        BY <2>2, <2>4 DEF PushFacts
<1>2. /\ a \in 1 .. MaxBus /\ c.range.base = a /\ h \in 1 .. MaxBus + 1
      /\ h \in Nat /\ a < h /\ a \notin Used(R, S) /\ a \in Addresses
      /\ \A k \in 1 .. n : B[k].bus # a
      /\ \A r \in Live(R, S) : r.sec # a /\ r.bus # a
      /\ \A x \in Addresses : a <= x /\ x < h =>
            \A j \in 2 .. n : B[j].range.base < x /\ x < B[j].range.limit
    BY <1>0, NewNumber
<1>3. /\ \A x \in Addresses : a <= x /\ x < h => InPool(B[n].numbers, x)
      /\ Canon(c.numbers)
      /\ \A x \in Addresses : InPool(c.numbers, x) <=> a < x /\ x < h
      /\ c.range \in Window /\ c.range.limit = a + c.range.size
    BY <1>2 DEF RangeFree
<1>4. /\ Live(V, S) = Live(R, S) \union {q}
      /\ Used(V, S) = Used(R, S) \union {a}
      /\ q.id = c.id /\ q.sec = a /\ q.sub = h - 1 /\ q.bus = B[n].bus
    <2>1. RouteAdded(B, R, S, c, q, V, e)
        BY NewRoute
    <2> QED
        BY ONLY <2>1 DEF RouteAdded
<1>5. (\A k \in 1 .. n : B[k].id # c.id) /\ (\A r \in R : r.id # c.id) /\ c.id \notin S
    BY DEF Fresh
<1>6. q = [id |-> c.id, bus |-> B[n].bus, sec |-> a, sub |-> h - 1] /\ q \in V /\ \A r \in R : r \in V
    BY <1>2 DEF Route1
<1>7. \A x \in Addresses : x \in Nat /\ x <= Top
    BY Sizes DEF Addresses
<1>8. a \in Nat /\ MaxBus \in Nat /\ a > 0 /\ h <= MaxBus + 1
    BY <1>2, Sizes
<1>9. \A k \in 1 .. n : k # n => B[k].bus # B[n].bus
    BY <1>0, <1>1 DEF BusTypes
<1>10. \A k \in 1 .. n :
          /\ Canon(B[k].numbers)
          /\ \A x \in Addresses : InPool(B[k].numbers, x) =>
                /\ x > 0 /\ x <= MaxBus
                /\ \A j \in 2 .. k : B[j].range.base < x /\ x < B[j].range.limit
    BY <1>0 DEF NumbersOK
<1> HIDE DEF n, a, h
<1>11. NumbersOK(D)
    <2>1. ASSUME NEW k \in 1 .. n + 1
          PROVE  /\ Canon(D[k].numbers)
                 /\ \A x \in Addresses : InPool(D[k].numbers, x) =>
                       /\ x > 0 /\ x <= MaxBus
                       /\ \A j \in 2 .. k : D[j].range.base < x /\ x < D[j].range.limit
        <3>1. CASE k \in 1 .. n
            <4>1. \A j \in 2 .. k : j \in 1 .. n
                BY <1>1, <3>1
            <4> QED
                BY <1>1, <1>10, <3>1, <4>1
        <3>2. CASE k = n + 1
            <4>1. Canon(D[k].numbers)
                BY <1>1, <1>3, <3>2
            <4>2. ASSUME NEW x \in Addresses, InPool(D[k].numbers, x)
                  PROVE  /\ x > 0 /\ x <= MaxBus
                         /\ \A j \in 2 .. k : D[j].range.base < x /\ x < D[j].range.limit
                <5>1. a < x /\ x < h /\ a <= x
                    BY <1>1, <1>3, <1>7, <1>8, <3>2, <4>2
                <5>2. x > 0 /\ x <= MaxBus
                    <6>1. x \in Nat /\ a \in Nat /\ h \in Nat /\ MaxBus \in Nat /\ a > 0 /\ h <= MaxBus + 1
                        BY <1>2, <1>7, <1>8
                    <6> QED
                        BY ONLY <6>1, <5>1
                <5>3. ASSUME NEW j \in 2 .. n + 1
                      PROVE  D[j].range.base < x /\ x < D[j].range.limit
                    <6>1. CASE j \in 2 .. n
                        BY <1>1, <1>2, <5>1, <6>1
                    <6>2. CASE j = n + 1
                        BY <1>1, <1>2, <5>1, <6>2 DEF h
                    <6> QED
                        BY <1>1, <6>1, <6>2
                <5> QED
                    BY <3>2, <5>2, <5>3
            <4> QED
                BY <4>1, <4>2
        <3> QED
            BY <1>1, <3>1, <3>2
    <2> QED
        BY <1>1, <2>1 DEF NumbersOK
<1>12. RangesOK(D, V, S)
    <2>1. ASSUME NEW k \in 2 .. n + 1
          PROVE  /\ D[k].range \in Window /\ D[k].range.base = D[k].bus /\ D[k].range.base > 0
                 /\ D[k].range.base < D[k].range.limit
                 /\ D[k].range.limit = D[k].range.base + D[k].range.size /\ D[k].range.limit <= MaxBus + 1
                 /\ \A x \in Addresses : D[k].range.base <= x /\ x < D[k].range.limit => InPool(D[k - 1].numbers, x)
                 /\ D[k].id \notin S
                 /\ [id |-> D[k].id, bus |-> D[k - 1].bus, sec |-> D[k].range.base, sub |-> D[k].range.limit - 1] \in V
        <3>1. CASE k \in 2 .. n
            <4>1. D[k] = B[k] /\ D[k - 1] = B[k - 1] /\ k \in 2 .. Len(B)
                BY <1>1, <3>1 DEF n
            <4>2. /\ B[k].range \in Window /\ B[k].range.base = B[k].bus /\ B[k].range.base > 0
                  /\ B[k].range.base < B[k].range.limit
                  /\ B[k].range.limit = B[k].range.base + B[k].range.size /\ B[k].range.limit <= MaxBus + 1
                  /\ \A x \in Addresses : B[k].range.base <= x /\ x < B[k].range.limit => InPool(B[k - 1].numbers, x)
                  /\ B[k].id \notin S
                  /\ [id |-> B[k].id, bus |-> B[k - 1].bus, sec |-> B[k].range.base, sub |-> B[k].range.limit - 1] \in R
                BY <1>0, <4>1 DEF RangesOK
            <4> QED
                BY <1>6, <4>1, <4>2
        <3>2. CASE k = n + 1
            <4>1. D[k] = c /\ D[k - 1] = B[n]
                BY <1>1, <3>2
            <4>2. c.range.limit = h /\ c.bus = a
                BY DEF h, a
            <4>3. /\ c.range \in Window /\ c.range.base = c.bus /\ c.range.base > 0
                  /\ c.range.base < c.range.limit
                  /\ c.range.limit = c.range.base + c.range.size /\ c.range.limit <= MaxBus + 1
                BY <1>2, <1>3, <1>8, <4>2
            <4>4. \A x \in Addresses : c.range.base <= x /\ x < c.range.limit => InPool(B[n].numbers, x)
                BY <1>2, <1>3, <4>2
            <4>5. c.id \notin S
                BY <1>5
            <4>6. [id |-> c.id, bus |-> B[n].bus, sec |-> c.range.base, sub |-> c.range.limit - 1] \in V
                BY <1>2, <1>6, <4>2
            <4> QED
                BY <4>1, <4>3, <4>4, <4>5, <4>6
        <3> QED
            BY <1>1, <3>1, <3>2
    <2> QED
        BY <1>1, <2>1 DEF RangesOK
<1>13. UsedOK(D, V, S)
    <2>1. ASSUME NEW k \in 1 .. n + 1, NEW u \in Used(V, S), InPool(D[k].numbers, u)
          PROVE  k < n + 1 /\ D[k + 1].range.base <= u /\ u < D[k + 1].range.limit
        <3>1. ASSUME NEW j \in 1 .. n, u \in Used(R, S), InPool(B[j].numbers, u)
              PROVE  j < n /\ B[j + 1].range.base <= u /\ u < B[j + 1].range.limit
            BY <1>0, <3>1 DEF UsedOK, n
        <3>2. u \in Addresses
            <4>1. u \in Used(R, S) => u \in 0 .. MaxBus
                <5>1. \A r \in Live(R, S) : r.sec \in 0 .. MaxBus
                    BY <1>0 DEF RouteTypes, Live
                <5> QED
                    BY <1>8, <5>1 DEF Used
            <4> QED
                <5>1. u \in Used(R, S) \/ u = a
                    BY <1>4
                <5>2. MaxBus \in Nat /\ Top \in Nat /\ MaxBus < Top
                    BY Sizes, PoolsFit
                <5>3. \A y \in 0 .. MaxBus : y \in Addresses
                    BY <5>2 DEF Addresses
                <5> QED
                    BY <1>2, <4>1, <5>1, <5>3
        <3>3. CASE k \in 1 .. n /\ u \in Used(R, S)
            <4>1. k < n /\ B[k + 1].range.base <= u /\ u < B[k + 1].range.limit
                BY <1>1, <2>1, <3>1, <3>3
            <4>2. D[k + 1] = B[k + 1] /\ k < n + 1
                BY <1>1, <3>3, <4>1
            <4> QED
                BY <4>1, <4>2
        <3>4. CASE k \in 1 .. n /\ u = a
            <4>1. CASE k = n
                <5>1. D[k + 1] = c /\ k < n + 1 /\ a <= a
                    BY <1>1, <1>8, <4>1
                <5> QED
                    BY <1>2, <3>4, <5>1 DEF h
            <4>2. CASE k # n
                <5>1. k < n /\ k + 1 \in 2 .. n /\ D[k + 1] = B[k + 1] /\ k < n + 1
                    BY <1>1, <3>4, <4>2
                <5>2. B[k + 1].range.base < a /\ a < B[k + 1].range.limit /\ a <= a
                    BY <1>2, <1>8, <5>1
                <5>3. B[k + 1].range.base <= a
                    <6>1. B[k + 1].range.base \in 0 .. Top
                        BY <1>0, <5>1 DEF RangesOK, Window, n
                    <6> QED
                        BY <1>8, <5>2, <6>1, Sizes
                <5> QED
                    BY <3>4, <5>1, <5>2, <5>3
            <4> QED
                BY <4>1, <4>2
        <3>5. CASE k = n + 1
            <4>1. a < u /\ u < h /\ a <= u
                BY <1>1, <1>3, <1>7, <1>8, <2>1, <3>2, <3>5
            <4>2. InPool(B[n].numbers, u)
                BY <1>3, <3>2, <4>1
            <4>3. u \in Used(R, S)
                BY <1>4, <1>8, <1>7, <3>2, <4>1
            <4>4. n < n
                BY <1>1, <3>1, <4>2, <4>3
            <4> QED
                BY <1>1, <4>4
        <3> QED
            BY <1>1, <1>4, <3>3, <3>4, <3>5
    <2> QED
        BY <1>1, <2>1 DEF UsedOK
<1>14. RoutesOK(D, V, S)
    <2>1. ASSUME NEW k \in 1 .. n, NEW p \in Live(R, S), p.bus = B[k].bus, ~(k < n /\ p.id = B[k + 1].id)
          PROVE  /\ \A x \in Addresses : p.sec <= x /\ x <= p.sub => ~InPool(B[k].numbers, x)
                 /\ k > 1 => B[k].range.base < p.sec /\ p.sub < B[k].range.limit
        BY <1>0, <2>1 DEF RoutesOK, n
    <2>2. ASSUME NEW k \in 1 .. n + 1, NEW p \in Live(V, S), p.bus = D[k].bus,
                 ~(k < n + 1 /\ p.id = D[k + 1].id)
          PROVE  /\ \A x \in Addresses : p.sec <= x /\ x <= p.sub => ~InPool(D[k].numbers, x)
                 /\ k > 1 => D[k].range.base < p.sec /\ p.sub < D[k].range.limit
        <3>1. CASE p \in Live(R, S)
            <4>1. k \in 1 .. n
                BY <1>1, <1>2, <2>2, <3>1 DEF a
            <4>2. D[k] = B[k]
                BY <1>1, <4>1
            <4>3. ~(k < n /\ p.id = B[k + 1].id)
                <5> SUFFICES ASSUME k < n, p.id = B[k + 1].id
                             PROVE  FALSE
                    OBVIOUS
                <5>1. k < n + 1 /\ D[k + 1] = B[k + 1]
                    BY <1>1, <4>1
                <5> QED
                    BY <2>2, <5>1
            <4> QED
                BY <2>1, <2>2, <3>1, <4>1, <4>2, <4>3
        <3>2. CASE p = q
            <4>1. k # n + 1
                BY <1>1, <1>2, <1>4, <2>2, <3>2 DEF a
            <4>2. k \in 1 .. n /\ D[k] = B[k]
                BY <1>1, <4>1
            <4>3. k = n
                BY <1>4, <1>9, <2>2, <3>2, <4>2
            <4>4. k < n + 1 /\ D[k + 1] = c
                BY <1>1, <4>3
            <4> QED
                BY <1>4, <2>2, <3>2, <4>4
        <3> QED
            BY <1>4, <3>1, <3>2
    <2>3. ASSUME NEW p \in Live(R, S), p.bus = B[n].bus
          PROVE  p.sub < q.sec \/ q.sub < p.sec
        <3>1. \A x \in Addresses : p.sec <= x /\ x <= p.sub => ~InPool(B[n].numbers, x)
            BY <1>1, <2>1, <2>3
        <3>2. p.sec \in 0 .. MaxBus /\ p.sub \in 0 .. MaxBus /\ p.sec <= p.sub
            BY <1>0 DEF RouteTypes, Live
        <3>3. p.sec \in Addresses /\ a \in Addresses /\ p.sec \in Nat /\ p.sub \in Nat
            BY <1>2, <1>8, <3>2, Sizes DEF Addresses
        <3>4. InPool(B[n].numbers, a) /\ (a <= p.sec /\ p.sec < h => InPool(B[n].numbers, p.sec))
            BY <1>2, <1>3, <1>8, <3>3
        <3>5. ~(p.sec <= a /\ a <= p.sub)
            BY <3>1, <3>3, <3>4
        <3>6. ~(a <= p.sec /\ p.sec < h)
            BY <3>1, <3>2, <3>3, <3>4
        <3> QED
            BY <1>2, <1>4, <1>8, <3>2, <3>3, <3>5, <3>6
    <2>4. ASSUME NEW r \in Live(R, S), q.bus = r.sec
          PROVE  r.sec < q.sec /\ q.sub <= r.sub
        <3>1. n \in 1 .. Len(B) /\ r.sec = B[n].bus
            BY <1>1, <1>4, <2>4 DEF n
        <3>2. /\ n > 1 => \E p \in Live(R, S) :
                             /\ p.id = B[n].id /\ p.bus = B[n - 1].bus /\ p.sec = B[n].bus
                             /\ p.sec = B[n].range.base /\ p.sub = B[n].range.limit - 1
              /\ \A p \in Live(R, S) : p.sec = B[n].bus => n > 1 /\ p.id = B[n].id
            BY <1>0, <3>1, RouteOf
        <3>3. n > 1 /\ r.sec = B[n].range.base /\ r.sub = B[n].range.limit - 1
            <4>1. n > 1
                BY <3>1, <3>2
            <4>2. PICK p \in Live(R, S) : /\ p.sec = B[n].bus
                                          /\ p.sec = B[n].range.base /\ p.sub = B[n].range.limit - 1
                BY <3>2, <4>1
            <4>3. p = r
                BY <1>0, <3>1, <4>2 DEF RouteTypes
            <4> QED
                BY <4>1, <4>2, <4>3
        <3>4. n \in 2 .. n /\ B[n].range.base \in 0 .. Top /\ B[n].range.limit \in 0 .. Top
            <4>1. n \in 2 .. n
                BY <1>1, <3>3
            <4> QED
                BY <1>0, <4>1 DEF RangesOK, Window, n
        <3> DEFINE z == h - 1
        <3>5. z \in Nat /\ z \in Addresses /\ a <= z /\ z < h
            BY <1>2, <1>8, Sizes DEF Addresses
        <3>6. B[n].range.base < a /\ z < B[n].range.limit
            <4> HIDE DEF z
            <4>1. a <= a
                BY <1>8
            <4> QED
                BY <1>2, <3>4, <3>5, <4>1
        <3> QED
            BY <1>4, <1>8, <3>3, <3>4, <3>5, <3>6, Sizes
    <2>5. ASSUME NEW r \in Live(V, S), NEW p \in Live(V, S)
          PROVE  /\ r.bus = p.bus /\ r # p => r.sub < p.sec \/ p.sub < r.sec
                 /\ p.bus = r.sec => r.sec < p.sec /\ p.sub <= r.sub
        <3>1. CASE r \in Live(R, S) /\ p \in Live(R, S)
            BY <1>0, <3>1 DEF RoutesOK
        <3>2. CASE r \in Live(R, S) /\ p = q
            BY <1>4, <2>3, <2>4, <3>2
        <3>3. CASE r = q /\ p \in Live(R, S)
            <4>1. p.bus # r.sec
                BY <1>2, <1>4, <3>3
            <4> QED
                BY <1>4, <2>3, <3>3, <4>1
        <3>4. CASE r = q /\ p = q
            <4>1. p.bus # r.sec
                BY <1>1, <1>2, <1>4, <3>4
            <4> QED
                BY <3>4, <4>1
        <3> QED
            BY <1>4, <3>1, <3>2, <3>3, <3>4
    <2> QED
        BY <1>1, <2>2, <2>5 DEF RoutesOK
<1> QED
    BY <1>11, <1>12, <1>13, <1>14 DEF NumInv

LEMMA PushStep ==
    ASSUME NEW e \in Nat, NEW B, NEW C, NEW R, NEW S, AllInv(B, C, R, S, e), NEW c \in BusSet(e),
           c.id \in 1 .. MaxDevices, c.id <= e, Fresh(B, C, R, S, c.id), WindowFree(B, c), RangeFree(B, c),
           NEW mem
    PROVE  Kept(B, C, mem, Push(B, c), C \union Window1(B, c), R \union {Route1(B, c)}, S, e)
<1> DEFINE D == Push(B, c)
           N == Window1(B, c)
           q == Route1(B, c)
           V == R \union {q}
<1>1. /\ BusTypes(B, e) /\ ClaimTypes(C, e) /\ RouteTypes(R, S, e) /\ ReachInv(C, R, S)
      /\ MemInv(B, C) /\ NumInv(B, R, S) /\ PoolsOK(B) /\ WindowsOK(B, C) /\ ClaimsOK(B, C)
    BY DEF AllInv, MemInv
<1>2. /\ \A k \in 1 .. Len(B) : B[k].bus # c.bus /\ B[k].id # c.id
      /\ \A d \in C : d.bus # c.bus
    BY <1>1, NewNumber DEF Fresh
<1>3. BusTypes(D, e) /\ Pushed(B, c, D)
    BY <1>1, <1>2, PushBus DEF Pushed
<1> HIDE DEF D
<1>4. PoolsOK(D) /\ WindowsOK(D, C \union N) /\ ClaimsOK(D, C \union N)
    BY <1>1, <1>2, <1>3, PushPools, PushWindows, PushClaims
<1> HIDE DEF V
<1>6. V = R \union {q}
    BY DEF V
<1> HIDE DEF q
<1>7. q = Route1(B, c)
    BY DEF q
<1>5. Live(V, S) = Live(R, S) \union {q} /\ RouteTypes(V, S, e)
    BY <1>6, <1>7, NewRoute DEF RouteAdded
<1>8. NumInv(D, V, S)
    BY <1>3, <1>6, <1>7, PushNumbers
<1> HIDE DEF N
<1>9. N = Window1(B, c)
    BY DEF N
<1>10. ReachInv(C \union N, V, S)
    BY <1>5, <1>7, <1>9, PushReach
<1>11. ClaimTypes(C \union N, e)
    <2>1. ASSUME c.window.size # 0
          PROVE  LET v == WindowClaim(c.id, B[Len(B)].bus, c.window)
                 IN v \in ClaimSet /\ v.lo <= v.hi /\ v.id <= e
        <3>1. WindowOK(c.window) /\ c.window.base + RoundUp(c.window.size, Granule) <= Top
            BY DEF WindowFree
        <3>2. B[Len(B)].bus \in 0 .. MaxBus
            BY <1>1, BusFacts
        <3> QED
            BY <2>1, <3>1, <3>2, NewWindow
    <2>2. \A v \in N : v \in ClaimSet /\ v.lo <= v.hi /\ v.id <= e
        BY <1>9, <2>1 DEF Window1
    <2> QED
        BY <1>1, <2>2 DEF ClaimTypes
<1>12. LostInv(B, C) => LostInv(D, C \union N)
    BY <1>1, <1>3, PushLost
<1>13. AllInv(D, C \union N, V, S, e)
    BY <1>3, <1>4, <1>5, <1>8, <1>10, <1>11 DEF AllInv, MemInv
<1>14. Kept(B, C, mem, D, C \union N, V, S, e)
    BY <1>12, <1>13 DEF Kept
<1> QED
    BY <1>14 DEF D, N, V, q

LEMMA BehindPush ==
    ASSUME NEW e \in Nat, NEW B, NEW C, NEW R, NEW S, AllInv(B, C, R, S, e), BehindInv(B, C, R, S),
           NEW c \in BusSet(e), c.id \in 1 .. MaxDevices, c.id <= e, Fresh(B, C, R, S, c.id), RangeFree(B, c)
    PROVE  BehindInv(Push(B, c), C \union Window1(B, c), R \union {Route1(B, c)}, S)
<1> DEFINE n == Len(B)
           D == Push(B, c)
           N == Window1(B, c)
           q == Route1(B, c)
           V == R \union {q}
<1>1. /\ BusTypes(B, e) /\ RouteTypes(R, S, e) /\ ReachInv(C, R, S) /\ NumInv(B, R, S)
      /\ NumbersOK(B) /\ RangesOK(B, R, S) /\ UsedOK(B, R, S)
    BY DEF AllInv, NumInv
<1>2. /\ c.bus \in 1 .. MaxBus /\ c.range.base = c.bus /\ c.bus \in Addresses
      /\ c.range.limit \in 1 .. MaxBus + 1 /\ c.range.limit \in Nat /\ c.bus < c.range.limit
      /\ \A k \in 1 .. n : B[k].bus # c.bus
    BY <1>1, NewNumber
<1>3. /\ Len(D) = n + 1 /\ n \in Nat /\ n > 0 /\ n \in 1 .. n /\ D[n + 1] = c
      /\ \A k \in 1 .. n : D[k] = B[k]
    <2>1. \A k \in 1 .. n : B[k].id # c.id /\ B[k].bus # c.bus
        BY <1>2 DEF Fresh
    <2> QED
        BY <1>1, <2>1, PushBus, BusFacts
<1> HIDE DEF D, V
<1>4. RouteAdded(B, R, S, c, q, V, e)
    <2>1. V = R \union {q} /\ q = Route1(B, c)
        BY DEF V
    <2> HIDE DEF q
    <2> QED
        BY <2>1, NewRoute
<1>5. /\ Live(V, S) = Live(R, S) \union {q}
      /\ q.id = c.id /\ q.sec = c.bus /\ q.sub = c.range.limit - 1 /\ q.bus = B[n].bus
    BY <1>4 DEF RouteAdded
<1> HIDE DEF q, N
<1>6. \A x \in Addresses : c.range.base <= x /\ x < c.range.limit => InPool(B[n].numbers, x)
    BY DEF RangeFree
<1>7. \A x \in Addresses : InPool(B[n].numbers, x) => \A j \in 2 .. n : B[j].range.base < x /\ x < B[j].range.limit
    BY <1>1, <1>3 DEF NumbersOK
<1>8. c.range.limit - 1 \in Addresses /\ c.range.base <= c.range.limit - 1 /\ c.range.limit - 1 < c.range.limit
    <2> DEFINE h == c.range.limit
               g == c.range.base
    <2>1. h \in 1 .. MaxBus + 1 /\ h \in Nat /\ g \in 1 .. MaxBus /\ g < h
        BY <1>2
    <2> HIDE DEF h, g
    <2>2. h - 1 \in 0 .. Top /\ g <= h - 1 /\ h - 1 < h
        BY <2>1, Sizes
    <2> QED
        BY <2>2 DEF h, g, Addresses
<1>9. ASSUME NEW k \in 2 .. Len(D), NEW p \in Live(V, S), D[k].range.base <= p.sec, p.sec < D[k].range.limit
      PROVE  p.sub < D[k].range.limit
    <2>1. CASE k = n + 1
        <3>1. D[k].range = c.range
            BY <1>3, <2>1
        <3>2. CASE p = q
            BY <1>5, <1>8, <3>1, <3>2
        <3>3. CASE p # q
            <4>1. p \in Live(R, S) /\ p.sec \in Used(R, S)
                BY <1>5, <3>3 DEF Used
            <4>2. p.sec \in Addresses
                <5>1. p.sec \in 0 .. MaxBus
                    BY <1>1, <4>1 DEF RouteTypes, Live
                <5> QED
                    BY <5>1, Sizes DEF Addresses
            <4>3. InPool(B[n].numbers, p.sec)
                BY <1>6, <1>9, <3>1, <4>2
            <4>4. n < n
                BY <1>1, <1>3, <4>1, <4>3 DEF UsedOK
            <4> QED
                BY <1>3, <4>4
        <3> QED
            BY <3>2, <3>3
    <2>2. CASE k # n + 1
        <3>1. k \in 2 .. n /\ k \in 1 .. n
            BY <1>3, <2>2
        <3>2. D[k].range = B[k].range
            BY <1>3, <3>1
        <3>3. CASE p = q
            <4>1. InPool(B[n].numbers, c.range.limit - 1)
                BY <1>6, <1>8
            <4>2. c.range.limit - 1 < B[k].range.limit
                BY <1>7, <1>8, <3>1, <4>1
            <4> QED
                BY <1>5, <3>2, <3>3, <4>2
        <3>4. CASE p # q
            <4>1. p \in Live(R, S)
                BY <1>5, <3>4
            <4> QED
                BY <1>9, <3>1, <3>2, <4>1 DEF BehindInv
        <3> QED
            BY <3>3, <3>4
    <2> QED
        BY <2>1, <2>2
<1>10. ASSUME NEW w \in C \union N, NEW r \in Live(V, S), w.part = "window", w.id = r.id
       PROVE  w.bus = r.bus
    <2>1. \A v \in N : v.id = c.id /\ v.bus = B[n].bus
        BY DEF N, Window1, WindowClaim
    <2>2. (\A v \in C : v.part = "window" => v.id # c.id) /\ \A p \in R : p.id # c.id
        BY DEF Fresh
    <2>3. \A p \in Live(R, S) : p.id # c.id
        BY <2>2 DEF Live
    <2>4. CASE w \in N
        BY <1>5, <1>10, <2>1, <2>3, <2>4
    <2>5. CASE w \notin N
        <3>1. w \in C /\ w.id # c.id
            BY <1>10, <2>2, <2>5
        <3>2. r \in Live(R, S)
            BY <1>5, <1>10, <3>1
        <3> QED
            BY <1>10, <3>1, <3>2 DEF BehindInv
    <2> QED
        BY <2>4, <2>5
<1>11. BehindInv(D, C \union N, V, S)
    BY <1>9, <1>10 DEF BehindInv
<1> QED
    BY <1>11 DEF D, N, V, q

\* The bus behind a bridge on the last bus.
BusBehind(w, n, sec, id, mem) ==
    [bus |-> sec.base, id |-> id, numbers |-> sec.blocks,
     mem |-> pci_free_block(<<>>, w.base, w.size, mem),
     window |-> w, range |-> n, todo |-> <<>>]

IsBehind(B, id, w, n, e, c) ==
    /\ c \in BusSet(e) /\ c.id = id /\ WindowFree(B, c) /\ RangeFree(B, c)
    /\ Forwarded(id, Last(B).bus, w) = Window1(B, c)
    /\ Route(id, Last(B).bus, n) = Route1(B, c)

LEMMA NewBus ==
    ASSUME NEW e \in Nat, NEW B, NEW C, NEW R, NEW S, AllInv(B, C, R, S, e),
           NEW w, w = WindowOn(pci_find_largest_block(Last(B).mem, Granule, Low, Top - 1)),
           NEW n, n = WindowOn(pci_find_largest_block(Last(B).numbers, 1, 0, MaxBus + 1)),
           NEW mem \in BOOLEAN, NEW sec,
           sec = pci_allocate_buses(pci_free_block(<<>>, n.base, n.size, mem), MaxBus, mem), sec.ok,
           NEW id \in 1 .. MaxDevices, id <= e, NEW c, c = BusBehind(w, n, sec, id, mem)
    PROVE  IsBehind(B, id, w, n, e, c)
<1> DEFINE l == Last(B)
<1>1. BusTypes(B, e) /\ PoolsOK(B) /\ NumbersOK(B)
    BY DEF AllInv, MemInv, NumInv
<1>2. l = B[Len(B)] /\ Len(B) \in 1 .. Len(B) /\ l.bus \in 0 .. MaxBus
    BY <1>1, BusFacts DEF Last
<1>3. Canon(l.mem) /\ Canon(l.numbers) /\ \A x \in Addresses : InPool(l.numbers, x) => x <= MaxBus
    BY <1>1, <1>2 DEF PoolsOK, NumbersOK
<1> HIDE DEF l
<1>4. w = WindowOn(pci_find_largest_block(l.mem, Granule, Low, Top - 1))
    BY DEF l
<1>5. n = WindowOn(pci_find_largest_block(l.numbers, 1, 0, MaxBus + 1))
    BY DEF l
<1>6. /\ WindowOK(w)
      /\ w.size = 0 => w = NoWindow
      /\ w.base + RoundUp(w.size, Granule) <= Top
      /\ \A x \in Addresses :
            w.base <= x /\ x < w.base + RoundUp(w.size, Granule) => InPool(l.mem, x)
    BY <1>3, <1>4, WindowGiven
<1>7. /\ n \in Window /\ n.limit = n.base + n.size /\ n.limit <= MaxBus + 1
      /\ n.size >= 0
      /\ \A x \in Addresses : n.base <= x /\ x < n.limit => InPool(l.numbers, x)
    BY <1>3, <1>5, RangeGiven
<1>8. n.base \in Nat /\ n.size \in Nat /\ n.base + n.size <= MaxBus + 1
    <2>1. n.base \in 0 .. Top /\ n.size \in -Top .. Top
        BY <1>7 DEF Window
    <2> QED
        BY <1>7, <2>1, Sizes
<1>9. /\ mem /\ n.size > 0 /\ sec.base = n.base
      /\ Canon(sec.blocks)
      /\ \A x \in Addresses : InPool(sec.blocks, x) <=> n.base < x /\ x < n.base + n.size
    BY <1>8, FirstBus
<1>10. /\ w.base \in Nat /\ w.limit \in Nat /\ w.size \in Nat /\ w.limit = w.base + w.size /\ w.limit <= Top
       /\ w.size # 0 => w.base < w.limit /\ w.base % Granule = 0
    BY <1>6, WindowFacts
<1> DEFINE m == pci_free_block(<<>>, w.base, w.size, mem)
<1>11. Canon(m) /\ \A x \in Addresses : InPool(m, x) <=> mem /\ Inside(x, w.base, w.base + w.size)
    BY <1>10, NewPool
<1> HIDE DEF m
<1>12. c = [bus |-> sec.base, id |-> id, numbers |-> sec.blocks, mem |-> m, window |-> w, range |-> n,
            todo |-> <<>>]
    BY DEF m, BusBehind
<1>13. /\ c.bus = n.base /\ c.id = id /\ c.numbers = sec.blocks /\ c.mem = m /\ c.window = w /\ c.range = n
    <2>1. c.bus = sec.base /\ c.id = id /\ c.numbers = sec.blocks /\ c.mem = m /\ c.window = w /\ c.range = n
        BY ONLY <1>12
    <2> QED
        BY ONLY <1>9, <2>1
<1>14. c \in BusSet(e)
    <2>1. sec.base \in 0 .. MaxBus
        <3>1. MaxBus \in Nat
            BY Sizes
        <3>2. n.base \in Nat /\ n.size \in Nat /\ n.size > 0 /\ n.base + n.size <= MaxBus + 1
            BY <1>8, <1>9
        <3> DEFINE a == n.base
                   s == n.size
        <3> HIDE DEF a, s
        <3>3. a \in Nat /\ s \in Nat /\ s > 0 /\ a + s <= MaxBus + 1
            BY <3>2 DEF a, s
        <3>4. a \in 0 .. MaxBus
            BY ONLY <3>1, <3>3
        <3> QED
            BY <1>9, <3>4 DEF a
    <2>2. id \in 0 .. e
        BY PciProbeAssumption
    <2>3. m \in Blocks /\ sec.blocks \in Blocks /\ w \in Window /\ n \in Window
        BY <1>6, <1>7, <1>9, <1>11 DEF Canon, WindowOK
    <2>4. <<>> \in Seq([id : 1 .. e, size : BarSizes])
        OBVIOUS
    <2> DEFINE X == Seq([id : 1 .. e, size : BarSizes])
    <2> HIDE DEF X
    <2>5. <<>> \in X
        BY <2>4 DEF X
    <2>6. [bus |-> sec.base, id |-> id, numbers |-> sec.blocks, mem |-> m, window |-> w, range |-> n,
            todo |-> <<>>] \in [bus : 0 .. MaxBus, id : 0 .. e, mem : Blocks, numbers : Blocks,
              window : Window, range : Window, todo : X]
        BY ONLY <2>1, <2>2, <2>3, <2>5
    <2> QED
        BY <1>12, <2>6 DEF BusSet, X
<1>15. WindowFree(B, c)
    <2>1. \A x \in Addresses : InPool(m, x) <=> w.base <= x /\ x < w.limit
        BY <1>9, <1>10, <1>11 DEF Inside
    <2>2. \A x \in Addresses :
            w.base <= x /\ x < w.base + RoundUp(w.size, Granule) => InPool(B[Len(B)].mem, x)
        BY <1>2, <1>6
    <2> QED
        BY <1>6, <1>11, <1>13, <2>1, <2>2 DEF WindowFree
<1>16. RangeFree(B, c)
    <2>1. n.base < n.limit
        BY <1>7, <1>8, <1>9
    <2>2. \A x \in Addresses : InPool(sec.blocks, x) <=> n.base < x /\ x < n.limit
        BY <1>7, <1>9
    <2>3. \A x \in Addresses : n.base <= x /\ x < n.limit => InPool(B[Len(B)].numbers, x)
        BY <1>2, <1>7
    <2> QED
        BY <1>7, <1>9, <1>13, <2>1, <2>2, <2>3 DEF RangeFree
<1>17. Forwarded(id, l.bus, w) = Window1(B, c)
    <2>1. CASE w.size = 0
        BY <1>13, <2>1 DEF Forwarded, Window1
    <2>2. CASE w.size # 0
        <3>1. Forwarded(id, l.bus, w) = {WindowClaim(id, l.bus, w)}
            BY <1>10, <2>2, ForwardedIs
        <3> QED
            BY <1>2, <1>13, <2>2, <3>1 DEF Window1
    <2> QED
        BY <2>1, <2>2
<1>18. Route(id, l.bus, n) = Route1(B, c)
    <2>1. n.limit \in Nat /\ n.limit > 0 /\ n.limit - 1 \in 0 .. MaxBus /\ MaxBus \in Nat
        BY <1>7, <1>8, <1>9, Sizes
    <2> DEFINE k == n.limit - 1
    <2> HIDE DEF k
    <2>2. k \in 0 .. MaxBus
        BY <2>1 DEF k
    <2>3. k % (MaxBus + 1) = k
        BY <2>1, <2>2
    <2> QED
        BY <1>2, <1>13, <2>3 DEF Route, Route1, k
<1> QED
    BY <1>13, <1>14, <1>15, <1>16, <1>17, <1>18 DEF IsBehind, l

LEMMA EnterStep ==
    ASSUME PciInv, damage' = 0, NEW mem \in BOOLEAN, NEW bar \in BarSizes \union {0}, EnterBridge(bar, mem)
    PROVE  SoundInv'
<1> DEFINE e == devices + 1
           l == Last(buses)
           own == IF bar = 0 THEN Refused(l.mem) ELSE pci_allocate_mem32(l.mem, bar, mem)
           w == WindowOn(pci_find_largest_block(own.blocks, Granule, Low, Top - 1))
           n == WindowOn(pci_find_largest_block(l.numbers, 1, 0, MaxBus + 1))
           sec == pci_allocate_buses(pci_free_block(<<>>, n.base, n.size, mem), MaxBus, mem)
           dev == [id |-> devices + 1, size |-> bar]
           N == Assigned(l.bus, dev, own)
           f == [l EXCEPT !.mem = own.blocks]
           D == OnLast(buses, f)
           M == claims \union N
           c == BusBehind(w, n, sec, e, mem)
<1>0. SoundInv /\ failures \in Nat /\ devices \in 0 .. MaxDevices
    <2>1. damage = 0
        BY DEF EnterBridge
    <2> QED
        BY <2>1, PciProbeAssumption DEF PciInv
<1>1. /\ devices \in Nat /\ devices < MaxDevices /\ MaxDevices \in Nat /\ devices' = e
      /\ AllInv(buses, claims, routes, stranded, devices) /\ Memory(mem)
      /\ BehindInv(buses, claims, routes, stranded) /\ abandoned' = abandoned
    BY <1>0, PciProbeAssumption DEF SoundInv, EnterBridge
<1>2. routes' = routes \union {Route(e, l.bus, n)}
    BY DEF EnterBridge, here
<1>3. /\ sec.ok => /\ claims' = M \union Forwarded(e, l.bus, w)
                   /\ buses' = Push(D, c) /\ stranded' = stranded
      /\ ~sec.ok => claims' = M /\ buses' = D /\ stranded' = stranded \union {e}
    BY DEF EnterBridge, here, WithHere, OnLast, Push, BusBehind
<1>4. e \in Nat /\ devices <= e /\ e \in 0 .. MaxDevices /\ e \in 1 .. MaxDevices /\ e <= e
    BY <1>1
<1>5. dev.id = e /\ dev.size = bar /\ (dev.size = 0 \/ IsBar(dev, e))
    <2>1. bar # 0 => PowerOfTwo(bar)
        BY PciProbeAssumption, PoolsFit DEF PowerOfTwo
    <2> QED
        BY <1>4, <2>1 DEF IsBar
<1> HIDE DEF dev
<1>6. own = IF dev.size = 0 THEN Refused(Last(buses).mem)
            ELSE pci_allocate_mem32(Last(buses).mem, dev.size, mem)
    BY <1>5
<1>7. N = Assigned(Last(buses).bus, dev, own)
    OBVIOUS
<1>8. l \in BusSet(devices) /\ BusTypes(buses, devices)
    BY <1>1, LastOf DEF AllInv
<1>9. w = WindowOn(pci_find_largest_block(own.blocks, Granule, Low, Top - 1))
    OBVIOUS
<1>10. n = WindowOn(pci_find_largest_block(l.numbers, 1, 0, MaxBus + 1))
    OBVIOUS
<1>11. sec = pci_allocate_buses(pci_free_block(<<>>, n.base, n.size, mem), MaxBus, mem)
    OBVIOUS
<1>12. c = BusBehind(w, n, sec, e, mem)
    OBVIOUS
<1>13. f = [l EXCEPT !.mem = own.blocks] /\ D = OnLast(buses, f) /\ M = claims \union N
    OBVIOUS
<1>14. l = Last(buses)
    OBVIOUS
<1> HIDE DEF e, l, own, w, n, sec, N, f, D, M, c
<1>15. AssignedTo(buses, claims, mem, [mem |-> own.blocks, claims |-> N], routes, stranded, e)
    BY <1>1, <1>4, <1>5, <1>6, <1>7, OwnBar
<1>16. /\ Canon(own.blocks)
       /\ \A d \in N : d.part = "bar"
       /\ \A b \in BusSet(e) : SameBus(b, Last(buses)) /\ b.mem = own.blocks =>
             Kept(buses, claims, mem, OnLast(buses, b), claims \union N, routes, stranded, e)
    <2> DEFINE x == [mem |-> own.blocks, claims |-> N]
    <2>1. x.mem = own.blocks /\ x.claims = N /\ AssignedTo(buses, claims, mem, x, routes, stranded, e)
        BY <1>15
    <2> HIDE DEF x
    <2> QED
        BY <2>1 DEF AssignedTo
<1>17. f \in BusSet(e) /\ SameBus(f, l) /\ f.mem = own.blocks
    BY <1>1, <1>4, <1>8, <1>13, <1>16, BusChanged DEF SameBus
<1>18. Kept(buses, claims, mem, D, M, routes, stranded, e)
    BY <1>13, <1>14, <1>16, <1>17
<1>19. AllInv(D, M, routes, stranded, e)
    BY <1>18 DEF Kept
<1>20. /\ Len(D) = Len(buses) /\ \A k \in 1 .. Len(buses) : D[k].id = buses[k].id
       /\ Last(D) = f
    <2>1. OnTop(buses, D)
        BY <1>1, <1>4, <1>8, <1>13, <1>14, <1>17, TopBus
    <2>2. BusTypes(buses, e)
        BY <1>1, <1>4, <1>8, BusTypesGrow
    <2>3. Last(D) = f
        BY <1>4, <1>13, <1>14, <1>17, <2>2, Retop
    <2> QED
        BY <2>1, <2>3 DEF OnTop, TopPool
<1>21. Fresh(D, M, routes, stranded, e)
    <2>1. e = devices + 1
        BY DEF e
    <2>2. Fresh(D, claims \union N, routes, stranded, e)
        BY <1>1, <1>16, <1>20, <2>1, FreshId
    <2> QED
        BY <1>13, <2>2
<1>25. BehindInv(D, M, routes, stranded)
    <2>1. SameBus(f, Last(buses))
        BY <1>14, <1>17
    <2> QED
        BY <1>1, <1>4, <1>13, <1>16, <1>17, <2>1, BehindTop
<1>22. Last(D).mem = own.blocks /\ Last(D).numbers = l.numbers /\ Last(D).bus = l.bus
    BY <1>17, <1>20 DEF SameBus
<1>23. CASE sec.ok
    <2>1. w = WindowOn(pci_find_largest_block(Last(D).mem, Granule, Low, Top - 1))
        BY <1>9, <1>22
    <2>2. n = WindowOn(pci_find_largest_block(Last(D).numbers, 1, 0, MaxBus + 1))
        BY <1>10, <1>22
    <2>3. IsBehind(D, e, w, n, e, c)
        BY <1>4, <1>11, <1>12, <1>19, <1>23, <2>1, <2>2, NewBus
    <2>4. /\ c \in BusSet(e) /\ c.id = e /\ WindowFree(D, c) /\ RangeFree(D, c)
          /\ Forwarded(e, l.bus, w) = Window1(D, c)
          /\ Route(e, l.bus, n) = Route1(D, c)
        BY <1>22, <2>3 DEF IsBehind
    <2>5. Kept(D, M, mem, Push(D, c), M \union Window1(D, c), routes \union {Route1(D, c)}, stranded, e)
        BY <1>4, <1>19, <1>21, <2>4, PushStep
    <2>6. Kept(D, M, mem, buses', claims', routes', stranded', devices')
        BY <1>1, <1>2, <1>3, <1>23, <2>4, <2>5
    <2>7. Kept(buses, claims, mem, buses', claims', routes', stranded', devices')
        BY <1>18, <2>6 DEF Kept
    <2>8. BehindInv(buses', claims', routes', stranded')
        <3>1. BehindInv(Push(D, c), M \union Window1(D, c), routes \union {Route1(D, c)}, stranded)
            BY <1>4, <1>19, <1>21, <1>25, <2>4, BehindPush
        <3> QED
            BY <1>2, <1>3, <1>23, <2>4, <3>1
    <2> QED
        BY <1>0, <1>1, <2>7, <2>8, SoundKept
<1>24. CASE ~sec.ok
    <2> DEFINE q == Route(e, l.bus, n)
    <2>1. q \in [id : 1 .. MaxDevices, bus : 0 .. MaxBus, sec : 0 .. MaxBus, sub : 0 .. MaxBus] /\ q.id = e
        <3>1. NumbersOK(D) /\ BusTypes(D, e) /\ Last(D) = D[Len(D)]
            BY <1>19 DEF AllInv, NumInv, Last
        <3>2. Canon(l.numbers) /\ (\A x \in Addresses : InPool(l.numbers, x) => x <= MaxBus)
              /\ l.bus \in 0 .. MaxBus
            BY <1>4, <1>22, <3>1, BusFacts DEF NumbersOK
        <3>3. n \in Window /\ n.limit = n.base + n.size /\ n.limit <= MaxBus + 1
              /\ (n.size = 0 => n = NoWindow) /\ n.size >= 0
            BY <1>10, <3>2, RangeGiven
        <3>4. n.base \in Nat /\ n.size \in Int /\ n.limit \in Nat
            BY <3>3, Sizes DEF Window
        <3>5. MaxBus \in Nat
            BY Sizes
        <3>6. n.base \in 0 .. MaxBus
            <4>1. CASE n.size = 0
                BY <3>3, <3>5, <4>1 DEF NoWindow
            <4>2. CASE n.size # 0
                <5> DEFINE a == n.base
                           s == n.size
                           h == n.limit
                <5>1. a \in Nat /\ s \in Int /\ s >= 0 /\ s # 0 /\ h = a + s /\ h <= MaxBus + 1
                    BY <3>3, <3>4, <4>2
                <5> HIDE DEF a, s, h
                <5>2. a \in 0 .. MaxBus
                    BY ONLY <3>5, <5>1
                <5> QED
                    BY <5>2 DEF a
            <4> QED
                BY <4>1, <4>2
        <3>7. (n.limit - 1) % (MaxBus + 1) \in 0 .. MaxBus
            <4> DEFINE k == n.limit - 1
            <4>1. k \in Int
                BY <3>4
            <4> HIDE DEF k
            <4>2. k % (MaxBus + 1) \in 0 .. MaxBus
                BY ONLY <3>5, <4>1
            <4> QED
                BY <4>2 DEF k
        <3> QED
            BY <1>4, <3>2, <3>6, <3>7 DEF Route
    <2> HIDE DEF q
    <2>2. AllInv(D, M, routes \union {q}, stranded \union {e}, e)
        BY <1>4, <1>19, <1>21, <2>1, StrandedStep
    <2>3. buses' = D /\ claims' = M /\ routes' = routes \union {q} /\ stranded' = stranded \union {e} /\ devices' = e
        BY <1>1, <1>2, <1>3, <1>24 DEF q
    <2>4. Kept(buses, claims, mem, buses', claims', routes', stranded', devices')
        BY <1>18, <2>2, <2>3 DEF Kept
    <2>5. BehindInv(buses', claims', routes', stranded')
        BY <1>21, <1>25, <2>1, <2>3, BehindStranded
    <2> QED
        BY <1>0, <1>1, <2>4, <2>5, SoundKept
<1> QED
    BY <1>23, <1>24

\* The addresses of all devices on the first bus are assigned, and that was all.
LEMMA FinishStep ==
    ASSUME PciInv, damage' = 0, NEW n \in 0 .. Len(here.todo), NEW mem \in BOOLEAN, Finish(n, mem)
    PROVE  SoundInv'
<1> DEFINE l == Last(buses)
           a == AssignFirst(l, n, mem)
           f == [l EXCEPT !.mem = a.mem]
           b == [f EXCEPT !.todo = <<>>]
           e == MaxDevices
<1>0. SoundInv /\ failures \in Nat /\ devices \in 0 .. MaxDevices
    <2>1. damage = 0
        BY DEF Finish
    <2> QED
        BY <2>1, PciProbeAssumption DEF PciInv
<1> DEFINE well == mem /\ n = Len(here.todo)
<1>1. /\ devices \in 0 .. e /\ devices \in Nat /\ e \in Nat /\ devices <= e /\ devices' = e /\ e \in 0 .. MaxDevices
      /\ AllInv(buses, claims, routes, stranded, devices)
      /\ BehindInv(buses, claims, routes, stranded)
      /\ routes' = routes /\ stranded' = stranded /\ abandoned' = abandoned
    BY <1>0, PciProbeAssumption DEF SoundInv, Finish
<1>14. well \in BOOLEAN /\ Memory(well) /\ (well => mem)
    BY DEF Finish
<1> HIDE DEF well
<1>2. claims' = claims \union a.claims
    BY DEF Finish, here
<1>3. buses' = OnLast(buses, [l EXCEPT !.mem = a.mem, !.todo = <<>>])
    BY DEF Finish, here, WithHere, OnLast
<1>4. l \in BusSet(devices)
    BY <1>1, LastOf
<1>5. AssignedTo(buses, claims, mem, a, routes, stranded, e)
    <2>1. n \in 0 .. Len(Last(buses).todo)
        BY DEF here
    <2> QED
        BY <1>1, <2>1, AssignStep
<1> HIDE DEF a
<1>6. l = Last(buses)
    OBVIOUS
<1> HIDE DEF l
<1>7. /\ Canon(a.mem) /\ \A c \in a.claims : c.part = "bar"
      /\ \A x \in BusSet(e) : SameBus(x, Last(buses)) /\ x.mem = a.mem =>
            Kept(buses, claims, mem, OnLast(buses, x), claims \union a.claims, routes, stranded, e)
    BY <1>5 DEF AssignedTo
<1>8. f \in BusSet(e) /\ SameBus(f, l) /\ f.mem = a.mem
    BY <1>1, <1>4, <1>7, BusChanged DEF SameBus
<1>9. [l EXCEPT !.mem = a.mem, !.todo = <<>>] = b
    OBVIOUS
<1> HIDE DEF f
<1>10. b \in BusSet(e) /\ SameBus(b, f) /\ b.mem = f.mem
    <2> DEFINE t == <<>>
    <2>1. t \in Seq([id : 1 .. e, size : BarSizes])
        OBVIOUS
    <2> HIDE DEF t
    <2>2. /\ [f EXCEPT !.todo = t] \in BusSet(e)
          /\ [f EXCEPT !.todo = t].mem = f.mem /\ SameBus([f EXCEPT !.todo = t], f)
        BY <1>1, <1>8, <2>1, TodoChanged DEF SameBus
    <2> QED
        BY <2>2 DEF t
<1> HIDE DEF b
<1>11. SameBus(b, Last(buses)) /\ b.mem = a.mem
    BY <1>6, <1>8, <1>10 DEF SameBus
<1>12. Kept(buses, claims, mem, OnLast(buses, b), claims \union a.claims, routes, stranded, e)
    BY <1>7, <1>10, <1>11
<1>13. Kept(buses, claims, mem, buses', claims', routes', stranded', devices')
    BY <1>1, <1>2, <1>3, <1>9, <1>12
<1>15. BehindInv(buses', claims', routes', stranded')
    BY <1>1, <1>2, <1>3, <1>7, <1>9, <1>10, <1>11, BehindTop
<1> QED
    BY <1>0, <1>1, <1>13, <1>14, <1>15, SoundKept

-----------------------------------------------------------------------------
(* Bridges: the bus behind one is done. *)

\* What becomes of the pool P of the bus above, if M is left of the window w of
\* the bridge: Q, and W is what the bridge forwards then.
PoolClosed(P, M, w, Q, W, mem, id, bus) ==
    /\ Canon(Q)
    /\ \A x \in Addresses : InPool(Q, x) => InPool(P, x)
    /\ \A v : WindowOK(v) /\ v.size # 0 /\ Cuttable(P, v) => Cuttable(Q, v)
    /\ \A c \in W : /\ c \in ClaimSet /\ c.id = id /\ c.part = "window" /\ c.bus = bus /\ c.lo <= c.hi
                    /\ \A x \in Addresses : c.lo <= x /\ x <= c.hi => InPool(P, x) /\ ~InPool(Q, x)
    /\ \A c, e \in W : c = e
    /\ \A x \in Addresses : w.base <= x /\ x < w.limit /\ ~InPool(M, x) =>
          \E c \in W : c.lo <= x /\ x <= c.hi
    /\ mem => \A x \in Addresses : InPool(P, x) /\ ~InPool(Q, x) => \E c \in W : c.lo <= x /\ x <= c.hi

LEMMA CloseEmpty ==
    ASSUME NEW P, Canon(P), NEW M, Canon(M), NEW w, w = NoWindow,
           \A x \in Addresses : InPool(M, x) => w.base <= x /\ x < w.limit,
           NEW u, u = ppb_set_window_size(ppb_update_windows(w, M), Granule),
           NEW mem, NEW Q, Q = ppb_allocate_window(P, u, mem),
           NEW id, NEW bus, NEW W, W = Forwarded(id, bus, u)
    PROVE  PoolClosed(P, M, w, Q, W, mem, id, bus)
<1>1. w.base = 0 /\ w.limit = 0 /\ w = [base |-> 0, limit |-> 0, size |-> 0]
    BY DEF NoWindow
<1>2. Len(M) \in Nat /\ DOMAIN M = 1 .. Len(M) /\ \A i \in 1 .. Len(M) :
          M[i].base \in Nat /\ M[i].base < Limit(M[i]) /\ M[i].base \in Addresses
    BY CanonFacts DEF Addresses, PoolBlock
<1>3. \A i \in 1 .. Len(M) : FALSE
    <2> SUFFICES ASSUME NEW i \in 1 .. Len(M)
                 PROVE  FALSE
        OBVIOUS
    <2>1. M[i].base \in Nat /\ M[i].base \in Addresses /\ M[i].base <= M[i].base /\ M[i].base < Limit(M[i])
        BY <1>2
    <2>2. InPool(M, M[i].base)
        BY <2>1 DEF InPool, Holds
    <2>3. 0 <= M[i].base /\ M[i].base < 0
        BY <1>1, <2>1, <2>2
    <2> QED
        BY <2>1, <2>3
<1>4. BeginAt(M, 0) = {} /\ EndAt(M, 0) = {}
    BY <1>2, <1>3 DEF BeginAt, EndAt
<1>5. ppb_update_windows(w, M) = w
    BY <1>1, <1>4 DEF ppb_update_windows
<1>6. u.size = 0
    <2>1. RoundUp(0, Granule) = 0
        <3>1. 0 \in Nat /\ 0 % Granule = 0 /\ Granule \in Nat \ {0}
            BY Sizes
        <3> QED
            BY <3>1, Rounded
    <2> QED
        BY <1>1, <1>5, <2>1 DEF ppb_set_window_size
<1>7. Q = P
    BY <1>6 DEF ppb_allocate_window
<1>8. W = {}
    BY <1>6 DEF Forwarded
<1>9. \A x \in Addresses : ~(w.base <= x /\ x < w.limit)
    BY <1>1, Sizes DEF Addresses
<1> QED
    BY <1>7, <1>8, <1>9 DEF PoolClosed

\* The part of the window that is kept.
LEMMA CloseUsed ==
    ASSUME NEW P, Canon(P), NEW M, Canon(M), NEW w, WindowOK(w), w.size # 0, Cuttable(M, w),
           \A x \in Addresses : InPool(M, x) => w.base <= x /\ x < w.limit,
           \A x \in Addresses :
               w.base <= x /\ x < w.base + RoundUp(w.size, Granule) => InPool(P, x),
           Covered(M) # w.base .. w.limit - 1,
           NEW u, u = ppb_set_window_size(ppb_update_windows(w, M), Granule),
           NEW mem, NEW Q, Q = ppb_allocate_window(P, u, mem),
           NEW id \in 1 .. MaxDevices, NEW bus \in 0 .. MaxBus, NEW W, W = Forwarded(id, bus, u)
    PROVE  PoolClosed(P, M, w, Q, W, mem, id, bus)
<1>1. /\ w.base \in Nat /\ w.limit \in Nat /\ w.size \in Nat /\ w.limit = w.base + w.size /\ w.limit <= Top
      /\ w.base < w.limit /\ w.limit < Top /\ Low <= w.base /\ w.base % Granule = 0
    BY WindowFacts
<1>2. Granule \in Nat \ {0} /\ Top \in Nat /\ Top % Granule = 0
    BY Sizes
<1> DEFINE r == RoundUp(w.size, Granule)
<1>3. r \in Nat /\ w.size <= r /\ w.base + r <= Top
    <2> DEFINE a == w.base
               n == w.size
    <2>1. a \in Nat /\ n \in Nat /\ a % Granule = 0 /\ a + n <= Top
        BY <1>1
    <2> HIDE DEF a, n
    <2>2. /\ RoundUp(n, Granule) \in Nat /\ n <= RoundUp(n, Granule)
          /\ \A m \in Nat : m % Granule = 0 /\ a + n <= m => a + RoundUp(n, Granule) <= m
        BY <1>2, <2>1, RoundedSpan
    <2> QED
        BY <1>2, <2>1, <2>2 DEF a, n
<1> HIDE DEF r
<1>4. ~(\A x \in Addresses : Inside(x, w.base, w.limit) => InPool(M, x))
    <2> SUFFICES ASSUME \A x \in Addresses : Inside(x, w.base, w.limit) => InPool(M, x)
                 PROVE  FALSE
        OBVIOUS
    <2>1. \A x \in Addresses : InPool(M, x) <=> w.base <= x /\ x < w.limit
        BY DEF Inside
    <2>2. \A x : x \in w.base .. w.limit - 1 <=> x \in Addresses /\ w.base <= x /\ x < w.limit
        BY <1>1, <1>2 DEF Addresses
    <2>3. Covered(M) = {x \in Addresses : InPool(M, x)}
        BY CoveredIs
    <2>4. \A x : x \in Covered(M) <=> x \in w.base .. w.limit - 1
        BY <2>1, <2>2, <2>3
    <2> DEFINE A == Covered(M)
               Z == w.base .. w.limit - 1
    <2>5. A # Z /\ \A x : x \in A <=> x \in Z
        BY <2>4
    <2> HIDE DEF A, Z
    <2> QED
        BY <2>5
<1>5. /\ u \in Window /\ u.base \in Nat /\ u.limit \in Nat
      /\ u.base % Granule = 0 /\ w.base <= u.base
      /\ u.base < u.limit /\ u.limit <= w.limit
      /\ u.size = RoundUp(u.limit - u.base, Granule)
      /\ u.base + u.size <= w.base + r
      /\ \A x \in Addresses : Inside(x, w.base, u.base) => InPool(M, x)
      /\ \A x \in Addresses : Inside(x, u.limit, w.limit) => InPool(M, x)
    <2>1. w.size > 0
        BY <1>1
    <2> QED
        BY <1>4, <2>1, WindowCut DEF r
<1>6. u.size \in Nat \ {0} /\ u.limit - u.base <= u.size /\ u.size % Granule = 0
      /\ u.base + u.size <= Top
    <2> DEFINE k == u.limit - u.base
    <2>1. k \in Nat /\ k > 0
        BY <1>5
    <2> HIDE DEF k
    <2>2. RoundUp(k, Granule) \in Nat /\ k <= RoundUp(k, Granule) /\ RoundUp(k, Granule) % Granule = 0
        BY <1>2, <2>1, Rounded
    <2>3. u.size = RoundUp(k, Granule)
        BY <1>5 DEF k
    <2>4. u.size \in Nat /\ u.size >= k /\ u.size > 0 /\ u.size % Granule = 0
        BY <2>1, <2>2, <2>3
    <2>5. u.base + u.size <= Top
        <3> DEFINE a == u.base
                   s == u.size
                   b == w.base
        <3>1. a + s <= b + r /\ b + r <= Top /\ a \in Nat /\ s \in Nat /\ b \in Nat
            BY <1>1, <1>3, <1>5, <2>4
        <3> HIDE DEF a, s, b
        <3>2. a + s <= Top
            BY ONLY <1>2, <1>3, <3>1
        <3> QED
            BY <3>2 DEF a, s
    <2> QED
        BY <2>4, <2>5 DEF k
<1>7. \A x \in Addresses : Inside(x, u.base, u.base + u.size) => InPool(P, x)
    <2> SUFFICES ASSUME NEW x \in Addresses, Inside(x, u.base, u.base + u.size)
                 PROVE  InPool(P, x)
        OBVIOUS
    <2>1. w.base <= x /\ x < w.base + r
        <3> DEFINE a == u.base
                   s == u.size
                   b == w.base
        <3>1. a <= x /\ x < a + s /\ a + s <= b + r /\ b <= a /\ a \in Nat /\ s \in Nat /\ b \in Nat /\ x \in Nat
            BY <1>1, <1>2, <1>5, <1>6 DEF Inside, Addresses
        <3> HIDE DEF a, s, b
        <3>2. b <= x /\ x < b + r
            BY ONLY <1>3, <3>1
        <3> QED
            BY <3>2 DEF b
    <2> QED
        BY <2>1 DEF r
<1>8. Taken(P, Q, u.base, u.size, mem)
    <2>1. Q = pci_allocate_fixed_block(P, u.base, u.size, mem).blocks
        BY <1>6 DEF ppb_allocate_window
    <2> DEFINE f == pci_allocate_fixed_block(P, u.base, u.size, mem)
    <2>2. Q = f.blocks
        BY <2>1
    <2>3. Taken(P, f.blocks, u.base, u.size, mem)
        <3>1. f = pci_allocate_fixed_block(P, u.base, u.size, mem)
            OBVIOUS
        <3> HIDE DEF f
        <3> QED
            BY <1>5, <1>6, <1>7, <3>1, FixedEffect
    <2> HIDE DEF f
    <2> QED
        BY <2>2, <2>3
<1> DEFINE v == WindowClaim(id, bus, u)
<1>9. W = {v}
    BY <1>5, <1>6, ForwardedIs
<1>10. v = [id |-> id, part |-> "window", bus |-> bus, lo |-> u.base, hi |-> u.base + u.size - 1]
    BY <1>5 DEF WindowClaim
<1>11. /\ v \in ClaimSet /\ v.id = id /\ v.part = "window" /\ v.bus = bus /\ v.lo <= v.hi
       /\ \A x \in Addresses : v.lo <= x /\ x <= v.hi <=> Inside(x, u.base, u.base + u.size)
    <2> DEFINE a == u.base
               s == u.size
    <2>1. a \in Nat /\ s \in Nat \ {0} /\ a + s <= Top
        BY <1>5, <1>6
    <2>2. v = [id |-> id, part |-> "window", bus |-> bus, lo |-> a, hi |-> a + s - 1]
        BY <1>10
    <2> HIDE DEF a, s, v
    <2>3. a \in 0 .. Top /\ a + s - 1 \in 0 .. Top /\ a <= a + s - 1 /\ Top \in Nat
        BY ONLY <1>2, <2>1
    <2>4. v.id = id /\ v.part = "window" /\ v.bus = bus /\ v.lo = a /\ v.hi = a + s - 1
        BY ONLY <2>2
    <2>5. v \in ClaimSet
        BY <2>2, <2>3 DEF ClaimSet
    <2>6. \A x \in Addresses : a <= x /\ x <= a + s - 1 <=> Inside(x, a, a + s)
        BY <2>1, <2>3 DEF Inside, Addresses
    <2> QED
        BY <2>3, <2>4, <2>5, <2>6 DEF a, s
<1> HIDE DEF v
<1>12. /\ Canon(Q)
       /\ \A x \in Addresses : InPool(Q, x) => InPool(P, x) /\ ~Inside(x, u.base, u.base + u.size)
       /\ mem => \A x \in Addresses : InPool(P, x) /\ ~Inside(x, u.base, u.base + u.size) => InPool(Q, x)
    BY <1>8 DEF Taken
<1>13. \A y : WindowOK(y) /\ y.size # 0 /\ Cuttable(P, y) => Cuttable(Q, y)
    <2> SUFFICES ASSUME NEW y, WindowOK(y), y.size # 0, Cuttable(P, y)
                 PROVE  Cuttable(Q, y)
        OBVIOUS
    <2> DEFINE a == u.base
               s == u.size
    <2>1. s \in Nat \ {0} /\ Taken(P, Q, a, s, mem) /\ a % Granule = 0
        BY <1>5, <1>6, <1>8
    <2> HIDE DEF a, s
    <2> QED
        BY <2>1, CuttableTaken
<1>14. \A x \in Addresses : w.base <= x /\ x < w.limit /\ ~InPool(M, x) => v.lo <= x /\ x <= v.hi
    <2> SUFFICES ASSUME NEW x \in Addresses, w.base <= x, x < w.limit, ~InPool(M, x)
                 PROVE  v.lo <= x /\ x <= v.hi
        OBVIOUS
    <2>1. ~Inside(x, w.base, u.base) /\ ~Inside(x, u.limit, w.limit)
        BY <1>5
    <2> DEFINE a == u.base
               s == u.size
               h == u.limit
    <2>2. a \in Nat /\ s \in Nat /\ h \in Nat /\ x \in Nat /\ h - a <= s /\ ~(x < a) /\ ~(h <= x)
        BY <1>2, <1>5, <1>6, <2>1 DEF Inside, Addresses
    <2> HIDE DEF a, s, h
    <2>3. a <= x /\ x < a + s
        BY ONLY <2>2
    <2> QED
        BY <1>11, <2>3 DEF Inside, a, s
<1>15. \A c \in W : c = v
    BY <1>9
<1>16. v \in W
    BY <1>9
<1>17. \A c \in W : /\ c \in ClaimSet /\ c.id = id /\ c.part = "window" /\ c.bus = bus /\ c.lo <= c.hi
                    /\ \A x \in Addresses : c.lo <= x /\ x <= c.hi => InPool(P, x) /\ ~InPool(Q, x)
    <2>1. \A x \in Addresses : v.lo <= x /\ x <= v.hi => InPool(P, x) /\ ~InPool(Q, x)
        BY <1>7, <1>11, <1>12
    <2> QED
        BY <1>11, <1>15, <2>1
<1>18. \A x \in Addresses : w.base <= x /\ x < w.limit /\ ~InPool(M, x) =>
          \E c \in W : c.lo <= x /\ x <= c.hi
    BY <1>14, <1>16
<1>19. mem => \A x \in Addresses : InPool(P, x) /\ ~InPool(Q, x) => \E c \in W : c.lo <= x /\ x <= c.hi
    BY <1>11, <1>12, <1>16
<1>20. \A c, e \in W : c = e
    BY <1>15
<1> QED
    BY <1>12, <1>13, <1>17, <1>18, <1>19, <1>20 DEF PoolClosed

LEMMA CloseWindow ==
    ASSUME NEW e \in Nat, NEW B, NEW C, NEW R, NEW S, AllInv(B, C, R, S, e), NEW n, n = Len(B), n > 1,
           ~Unused(B[n], B[n].mem),
           NEW u, u = ppb_set_window_size(ppb_update_windows(B[n].window, B[n].mem), Granule),
           NEW mem, NEW Q, Q = ppb_allocate_window(B[n - 1].mem, u, mem),
           NEW W, W = Forwarded(B[n].id, B[n - 1].bus, u)
    PROVE  PoolClosed(B[n - 1].mem, B[n].mem, B[n].window, Q, W, mem, B[n].id, B[n - 1].bus)
<1>1. BusTypes(B, e) /\ PoolsOK(B) /\ WindowsOK(B, C) /\ RangesOK(B, R, S) /\ RouteTypes(R, S, e)
    BY DEF AllInv, MemInv, NumInv
<1>2. n \in Nat /\ n \in 1 .. n /\ n - 1 \in 1 .. n /\ n \in 2 .. n
    BY <1>1, BusFacts
<1> DEFINE P == B[n - 1].mem
           M == B[n].mem
           w == B[n].window
           id == B[n].id
           bus == B[n - 1].bus
<1>3. Canon(P) /\ Canon(M) /\ WindowOK(w) /\ Cuttable(M, w)
      /\ \A x \in Addresses : InPool(M, x) => w.base <= x /\ x < w.limit
    BY <1>1, <1>2 DEF PoolsOK
<1>4. \A x \in Addresses : w.base <= x /\ x < w.base + RoundUp(w.size, Granule) => InPool(P, x)
    BY <1>1, <1>2 DEF WindowsOK
<1>5. id \in 1 .. MaxDevices /\ bus \in 0 .. MaxBus
    <2>1. \E r \in R : r.id = id
        <3>1. [id |-> B[n].id, bus |-> B[n - 1].bus, sec |-> B[n].range.base, sub |-> B[n].range.limit - 1] \in R
            BY <1>1, <1>2 DEF RangesOK
        <3> QED
            BY <3>1
    <2>2. id \in 1 .. MaxDevices
        BY <1>1, <2>1 DEF RouteTypes
    <2>3. bus \in 0 .. MaxBus
        BY <1>1, <1>2, BusFacts
    <2> QED
        BY <2>2, <2>3
<1>6. w.size # 0 => Covered(M) # w.base .. w.limit - 1
    BY DEF Unused
<1>7. /\ u = ppb_set_window_size(ppb_update_windows(w, M), Granule)
      /\ Q = ppb_allocate_window(P, u, mem) /\ W = Forwarded(id, bus, u)
    OBVIOUS
<1> HIDE DEF P, M, w, id, bus
<1>8. CASE w.size = 0
    <2>1. w = NoWindow
        BY <1>3, <1>8 DEF WindowOK
    <2>2. PoolClosed(P, M, w, Q, W, mem, id, bus)
        BY <1>3, <1>7, <2>1, CloseEmpty
    <2> QED
        BY <2>2 DEF P, M, w, id, bus
<1>9. CASE w.size # 0
    <2>1. PoolClosed(P, M, w, Q, W, mem, id, bus)
        BY <1>3, <1>4, <1>5, <1>6, <1>7, <1>9, CloseUsed
    <2> QED
        BY <2>1 DEF P, M, w, id, bus
<1> QED
    BY <1>8, <1>9

\* All claims but for the window of the bridge with this number.
OtherClaims(C, id) == {c \in C : ~(c.id = id /\ c.part = "window")}

\* The bus above, as if nothing were behind the bridge.
LEMMA Dropped ==
    ASSUME NEW e \in Nat, NEW B, NEW C, NEW R, NEW S, AllInv(B, C, R, S, e), Len(B) > 1,
           NEW F, F = Front(B), NEW M, M = OtherClaims(C, B[Len(B)].id)
    PROVE  /\ Len(F) = Len(B) - 1 /\ \A k \in 1 .. Len(B) - 1 : F[k] = B[k]
           /\ BusTypes(F, e) /\ ClaimTypes(M, e) /\ PoolsOK(F) /\ WindowsOK(F, M) /\ ClaimsOK(F, M)
           /\ LostInv(B, C) => LostInv(F, M)
<1> DEFINE n == Len(B)
           id == B[n].id
<1>1. /\ BusTypes(B, e) /\ ClaimTypes(C, e) /\ PoolsOK(B) /\ WindowsOK(B, C) /\ ClaimsOK(B, C)
      /\ B \in Seq(BusSet(e)) /\ B[1].bus = 0
      /\ \A j, k \in 1 .. n : j # k => B[j].id # B[k].id /\ B[j].bus # B[k].bus
    BY DEF AllInv, MemInv, BusTypes
<1>2. F \in Seq(BusSet(e)) /\ Len(F) = n - 1 /\ \A k \in 1 .. n - 1 : F[k] = B[k]
    <2> DEFINE X == BusSet(e)
    <2>1. B \in Seq(X) /\ Len(B) > 0
        BY <1>1, BusFacts
    <2> HIDE DEF X
    <2>2. F \in Seq(X) /\ Len(F) = Len(B) - 1 /\ \A k \in 1 .. Len(B) - 1 : F[k] = B[k]
        BY <2>1, FrontFacts
    <2> QED
        BY <2>2 DEF X
<1>3. n \in Nat /\ n > 1
    BY <1>1, BusFacts
<1> HIDE DEF n
<1>4. /\ \A k \in 1 .. n - 1 : k \in 1 .. n /\ k # n /\ n \in 1 .. n /\ k < n
      /\ 1 \in 1 .. n - 1 /\ n - 1 \in Nat /\ n - 1 > 0
      /\ \A k \in 2 .. n - 1 : k \in 2 .. n /\ k \in 1 .. n - 1 /\ k - 1 \in 1 .. n - 1
      /\ \A k \in 1 .. n - 1 : k < n - 1 => k + 1 \in 1 .. n - 1
      /\ \A k \in 1 .. n - 1 : k < n - 1 \/ k + 1 = n
    BY <1>3
<1>5. /\ M \subseteq C
      /\ \A c \in M : ~(c.id = id /\ c.part = "window")
      /\ \A c \in C : ~(c.id = id /\ c.part = "window") => c \in M
    <2>1. M = OtherClaims(C, id)
        BY DEF n
    <2> HIDE DEF id
    <2> QED
        BY <2>1 DEF OtherClaims
<1> HIDE DEF id
<1>6. \A k \in 1 .. n - 1 : B[k].id # id
    BY <1>1, <1>4 DEF id
<1>7. BusTypes(F, e)
    <2>1. \A j, k \in 1 .. n - 1 : j # k => F[j].id # F[k].id /\ F[j].bus # F[k].bus
        <3>1. \A k \in 1 .. n - 1 : F[k] = B[k] /\ k \in 1 .. n
            BY <1>2, <1>4
        <3> QED
            BY <1>1, <3>1
    <2>2. F[1].bus = 0
        BY <1>1, <1>2, <1>4
    <2>3. Len(F) > 0 /\ Len(F) = n - 1
        BY <1>2, <1>4
    <2> QED
        BY <1>2, <2>1, <2>2, <2>3 DEF BusTypes
<1>8. ClaimTypes(M, e)
    BY <1>1, <1>5 DEF ClaimTypes
<1>9. PoolsOK(F)
    BY <1>1, <1>2, <1>4 DEF PoolsOK, n
<1>10. WindowsOK(F, M)
    <2> SUFFICES ASSUME NEW k \in 2 .. n - 1
                 PROVE  /\ \A x \in Addresses :
                              F[k].window.base <= x /\ x < F[k].window.base + RoundUp(F[k].window.size, Granule) =>
                                  InPool(F[k - 1].mem, x)
                        /\ F[k].window.size > 0 => WindowClaim(F[k].id, F[k - 1].bus, F[k].window) \in M
                        /\ \A c \in M : c.id = F[k].id /\ c.part = "window" =>
                              F[k].window.size > 0 /\ c = WindowClaim(F[k].id, F[k - 1].bus, F[k].window)
        BY <1>2 DEF WindowsOK
    <2>1. k \in 2 .. Len(B) /\ F[k] = B[k] /\ F[k - 1] = B[k - 1] /\ B[k].id # id
        BY <1>2, <1>4, <1>6 DEF n
    <2> DEFINE v == WindowClaim(B[k].id, B[k - 1].bus, B[k].window)
    <2>2. v.id = B[k].id
        BY DEF WindowClaim
    <2> HIDE DEF v
    <2>3. /\ \A x \in Addresses :
                 B[k].window.base <= x /\ x < B[k].window.base + RoundUp(B[k].window.size, Granule) =>
                    InPool(B[k - 1].mem, x)
          /\ B[k].window.size > 0 => v \in C
          /\ \A c \in C : c.id = B[k].id /\ c.part = "window" => B[k].window.size > 0 /\ c = v
        BY <1>1, <2>1 DEF WindowsOK, v
    <2>4. B[k].window.size > 0 => v \in M
        BY <1>5, <2>1, <2>2, <2>3
    <2>5. \A c \in M : c.id = B[k].id /\ c.part = "window" => B[k].window.size > 0 /\ c = v
        BY <1>5, <2>3
    <2> QED
        BY <2>1, <2>3, <2>4, <2>5 DEF v
<1>11. \A k \in 1 .. n - 1, c \in M : Ahead(B, k, c) <=> Ahead(F, k, c)
    <2> SUFFICES ASSUME NEW k \in 1 .. n - 1, NEW c \in M
                 PROVE  Ahead(B, k, c) <=> Ahead(F, k, c)
        OBVIOUS
    <2>1. CASE k < n - 1
        BY <1>2, <1>4, <2>1 DEF Ahead, n
    <2>2. CASE k + 1 = n
        <3>1. ~Ahead(B, k, c)
            BY <1>5, <2>2 DEF Ahead, id
        <3>2. ~Ahead(F, k, c)
            BY <1>2, <1>3, <2>2 DEF Ahead
        <3> QED
            BY <3>1, <3>2
    <2> QED
        BY <1>4, <2>1, <2>2
<1>12. ClaimsOK(F, M)
    <2>1. ASSUME NEW k \in 1 .. n - 1, NEW c \in M, c.bus = F[k].bus
          PROVE  /\ ~Ahead(F, k, c) => \A x \in Addresses : c.lo <= x /\ x <= c.hi => ~InPool(F[k].mem, x)
                 /\ k > 1 => F[k].window.base <= c.lo /\ c.hi < F[k].window.limit
        <3>1. k \in 1 .. Len(B) /\ F[k] = B[k] /\ c \in C
            BY <1>2, <1>4, <1>5 DEF n
        <3> QED
            BY <1>1, <1>11, <2>1, <3>1 DEF ClaimsOK
    <2>2. \A c, d \in M : c.bus = d.bus /\ c # d => c.hi < d.lo \/ d.hi < c.lo
        BY <1>1, <1>5 DEF ClaimsOK
    <2> QED
        BY <1>2, <2>1, <2>2 DEF ClaimsOK
<1>13. ASSUME LostInv(B, C)
       PROVE  LostInv(F, M)
    <2> SUFFICES ASSUME NEW x \in Addresses, InPool(MemPool, x), ~InPool(F[1].mem, x)
                 PROVE  \E c \in M : c.bus = 0 /\ ~Ahead(F, 1, c) /\ c.lo <= x /\ x <= c.hi
        BY DEF LostInv
    <2>1. F[1] = B[1]
        BY <1>2, <1>4
    <2>2. PICK c \in C : c.bus = 0 /\ ~Ahead(B, 1, c) /\ c.lo <= x /\ x <= c.hi
        BY <1>13, <2>1 DEF LostInv
    <2>3. ~(c.id = id /\ c.part = "window")
        <3> SUFFICES ASSUME c.id = id, c.part = "window"
                     PROVE  FALSE
            OBVIOUS
        <3>1. n \in 2 .. Len(B) /\ n - 1 \in 1 .. n
            BY <1>3 DEF n
        <3>2. c = WindowClaim(B[n].id, B[n - 1].bus, B[n].window)
            BY <1>1, <3>1 DEF WindowsOK, id
        <3>3. c.bus = B[n - 1].bus
            BY <3>2 DEF WindowClaim
        <3>4. n - 1 = 1
            BY <1>1, <1>3, <2>2, <3>1, <3>3
        <3>5. n = 2
            BY <1>3, <3>4
        <3> QED
            BY <2>2, <3>5 DEF Ahead, id, n
    <2> QED
        BY <1>4, <1>5, <1>11, <2>2, <2>3
<1> QED
    BY <1>2, <1>7, <1>8, <1>9, <1>10, <1>12, <1>13 DEF n

\* D is B without its last bus, and the bus above has the pools Q and Z.
Popped(B, D, n, Q, Z) ==
    /\ Len(B) = n /\ Len(D) = n - 1
    /\ \A k \in 1 .. n - 1 : /\ D[k].bus = B[k].bus /\ D[k].id = B[k].id
                             /\ D[k].window = B[k].window /\ D[k].range = B[k].range
                             /\ k # n - 1 => D[k].mem = B[k].mem /\ D[k].numbers = B[k].numbers
    /\ D[n - 1].mem = Q /\ D[n - 1].numbers = Z

LEMMA PopIndex ==
    ASSUME NEW n \in Nat, n > 1
    PROVE  /\ n - 1 \in Nat /\ n - 1 > 0 /\ n - 1 \in 1 .. n - 1 /\ n \in 1 .. n /\ n - 1 \in 1 .. n
           /\ n \in 2 .. n /\ 1 \in 1 .. n - 1 /\ 1 \in 1 .. n
           /\ \A k \in 1 .. n - 1 : k \in 1 .. n /\ k # n /\ k < n
           /\ \A k \in 2 .. n - 1 : k \in 2 .. n /\ k \in 1 .. n - 1 /\ k - 1 \in 1 .. n - 1 /\ k - 1 # n - 1 /\ k - 1 \in 1 .. n
           /\ \A k \in 1 .. n - 1 : k < n - 1 => k + 1 \in 1 .. n - 1 /\ k # n - 1
           /\ \A k \in 1 .. n - 1 : k < n - 1 \/ k = n - 1
           /\ n - 1 + 1 = n
    OBVIOUS

KeptMem(B, C, mem, D, M, e) ==
    MemInv(D, M) /\ ClaimTypes(M, e) /\ (mem /\ LostInv(B, C) => LostInv(D, M))

LEMMA PopMem ==
    ASSUME NEW e \in Nat, NEW B, NEW C, NEW R, NEW S, AllInv(B, C, R, S, e), NEW n, n > 1,
           NEW D, NEW Q, NEW Z, Popped(B, D, n, Q, Z), NEW W, NEW mem,
           PoolClosed(B[n - 1].mem, B[n].mem, B[n].window, Q, W, mem, B[n].id, B[n - 1].bus),
           NEW M, M = OtherClaims(C, B[n].id) \union W
    PROVE  KeptMem(B, C, mem, D, M, e)
<1> DEFINE F == Front(B)
           N == OtherClaims(C, B[n].id)
<1>1. Len(B) = n /\ BusTypes(B, e) /\ PoolsOK(B)
    BY DEF Popped, AllInv, MemInv
<1>2. n \in Nat /\ n > 1
    BY <1>1, BusFacts
<1>3. /\ Len(F) = n - 1 /\ \A k \in 1 .. n - 1 : F[k] = B[k]
      /\ BusTypes(F, e) /\ ClaimTypes(N, e) /\ PoolsOK(F) /\ WindowsOK(F, N) /\ ClaimsOK(F, N)
      /\ LostInv(B, C) => LostInv(F, N)
    BY <1>1, Dropped
<1> HIDE DEF F, N
<1>4. M = N \union W
    BY DEF N
<1>5. /\ n - 1 \in Nat /\ n - 1 > 0 /\ n - 1 \in 1 .. n - 1 /\ n \in 1 .. n /\ n - 1 \in 1 .. n
      /\ \A k \in 1 .. n - 1 : k \in 1 .. n /\ k # n
    BY <1>2, PopIndex
<1>6. TopPool(F, D) /\ D[n - 1].mem = Q
    BY <1>3 DEF Popped, TopPool
<1>7. F[n - 1] = B[n - 1] /\ (n - 1 > 1 => WindowOK(B[n - 1].window) /\ Cuttable(B[n - 1].mem, B[n - 1].window))
    <2>1. n - 1 > 1 => n - 1 \in 2 .. Len(B)
        BY <1>1, <1>2
    <2> QED
        BY <1>1, <1>3, <1>5, <2>1 DEF PoolsOK
<1>8. B[n].id <= e /\ \A k \in 1 .. n - 1 : F[k].id # B[n].id
    <2>1. \A k \in 1 .. n : B[k].id \in 0 .. e
        BY <1>1, BusFacts
    <2>2. \A j, k \in 1 .. n : j # k => B[j].id # B[k].id
        BY <1>1 DEF BusTypes
    <2> QED
        BY <1>3, <1>5, <2>1, <2>2
<1>9. Cuttable(Q, B[n - 1].window) \/ n - 1 = 1
    <2> DEFINE v == B[n - 1].window
               P == B[n - 1].mem
    <2>1. CASE v.size = 0
        <3>1. Canon(P) /\ \A x \in Addresses : InPool(Q, x) => InPool(P, x)
            BY <1>1, <1>5 DEF PoolsOK, PoolClosed
        <3>2. SUFFICES ASSUME n - 1 > 1
                       PROVE  Cuttable(Q, v)
            BY <1>5
        <3>3. v = NoWindow
            BY <1>7, <2>1, <3>2 DEF WindowOK
        <3>4. v.base = 0 /\ v.limit = 0 /\ 0 \in Addresses
            BY <3>3, Sizes DEF NoWindow, Addresses
        <3>5. n - 1 \in 2 .. Len(B)
            BY <1>1, <1>2, <3>2
        <3>6. \A x \in Addresses : InPool(P, x) => v.base <= x /\ x < v.limit
            BY <1>1, <3>5 DEF PoolsOK
        <3>7. ~InPool(Q, v.base)
            BY <3>1, <3>4, <3>6
        <3> QED
            BY <3>7 DEF Cuttable
    <2>2. CASE v.size # 0
        <3>1. n - 1 > 1 => WindowOK(v) /\ Cuttable(P, v)
            BY <1>7
        <3>2. WindowOK(v) /\ Cuttable(P, v) => Cuttable(Q, v)
            BY <2>2 DEF PoolClosed
        <3>3. n - 1 > 1 \/ n - 1 = 1
            BY <1>5
        <3> QED
            BY <3>1, <3>2, <3>3
    <2> QED
        BY <2>1, <2>2
<1>10. Given(F, D, W, e)
    <2>1. /\ Canon(Q)
          /\ \A x \in Addresses : InPool(Q, x) => InPool(B[n - 1].mem, x)
          /\ \A c \in W : /\ c \in ClaimSet /\ c.id = B[n].id /\ c.bus = B[n - 1].bus /\ c.lo <= c.hi
                          /\ \A x \in Addresses : c.lo <= x /\ x <= c.hi => InPool(B[n - 1].mem, x) /\ ~InPool(Q, x)
          /\ \A c, d \in W : c = d
        BY DEF PoolClosed
    <2>2. Len(F) > 1 => Cuttable(Q, F[Len(F)].window)
        BY <1>3, <1>5, <1>7, <1>9
    <2>3. F[Len(F)] = B[n - 1] /\ D[Len(F)].mem = Q
        BY <1>3, <1>6, <1>7
    <2>4. \A c \in W : /\ c \in ClaimSet /\ c.bus = F[Len(F)].bus /\ c.id <= e /\ c.lo <= c.hi
                       /\ c.part = "window" => \A k \in 1 .. Len(F) : F[k].id # c.id
                       /\ \A x \in Addresses : c.lo <= x /\ x <= c.hi => InPool(F[Len(F)].mem, x) /\ ~InPool(D[Len(F)].mem, x)
        BY <1>3, <1>8, <2>1, <2>3
    <2> QED
        BY <2>1, <2>2, <2>3, <2>4 DEF Given
<1>11. PoolsOK(D) /\ WindowsOK(D, N \union W) /\ ClaimsOK(D, N \union W)
    BY <1>3, <1>6, <1>10, PoolsTop, WindowsTop, ClaimsTop
<1>12. ClaimTypes(M, e)
    <2>1. \A c \in W : c \in ClaimSet /\ c.lo <= c.hi /\ c.id <= e
        BY <1>10 DEF Given
    <2> QED
        BY <1>3, <1>4, <2>1 DEF ClaimTypes
<1>13. ASSUME mem, LostInv(B, C)
       PROVE  LostInv(D, M)
    <2>1. \A x \in Addresses : InPool(F[Len(F)].mem, x) /\ ~InPool(D[Len(F)].mem, x) =>
               \E c \in W : c.lo <= x /\ x <= c.hi
        BY <1>3, <1>6, <1>7, <1>13 DEF PoolClosed
    <2>2. LostInv(F, N)
        BY <1>3, <1>13
    <2>3. LostInv(D, N \union W)
        BY <1>3, <1>6, <1>10, <2>1, <2>2, LostTop
    <2> QED
        BY <1>4, <2>3
<1> QED
    BY <1>4, <1>11, <1>12, <1>13 DEF MemInv, KeptMem

\* What becomes of the numbers P of the bus above, if M is left of the range v
\* of the bridge: Z, and u is the range then.
NumbersClosed(P, M, v, Z, u) ==
    /\ Canon(Z)
    /\ \A x \in Addresses : InPool(Z, x) => InPool(P, x) /\ ~(u.base <= x /\ x < u.limit)
    /\ u.base = v.base /\ u.limit \in Nat /\ u.base < u.limit /\ u.limit <= v.limit
    /\ \A x \in Addresses : u.limit <= x /\ x < v.limit => InPool(M, x)

\* What the invariant says of the range of a bridge.
RangeOf(B, R, S, k, v) ==
    /\ v \in Window /\ v.base = B[k].bus /\ v.base \in 1 .. MaxBus /\ v.base \in Nat /\ v.base \in Addresses
    /\ v.limit \in Nat /\ v.limit <= MaxBus + 1 /\ v.base < v.limit
    /\ Canon(B[k].numbers) /\ Canon(B[k - 1].numbers)
    /\ \A x \in Addresses : InPool(B[k].numbers, x) => v.base < x /\ x < v.limit
    /\ \A x \in Addresses : v.base <= x /\ x < v.limit => InPool(B[k - 1].numbers, x)
    /\ B[k].id \notin S
    /\ [id |-> B[k].id, bus |-> B[k - 1].bus, sec |-> v.base, sub |-> v.limit - 1] \in R

LEMMA RangeIs ==
    ASSUME NEW e \in Nat, NEW B, BusTypes(B, e), NEW R, NEW S, NumInv(B, R, S), NEW k \in 2 .. Len(B),
           NEW v, v = B[k].range
    PROVE  RangeOf(B, R, S, k, v)
<1>1. NumbersOK(B) /\ RangesOK(B, R, S)
    BY DEF NumInv
<1>2. k \in 1 .. Len(B) /\ k - 1 \in 1 .. Len(B) /\ k \in 2 .. k
    BY BusFacts
<1>3. Canon(B[k].numbers) /\ Canon(B[k - 1].numbers)
    BY <1>1, <1>2 DEF NumbersOK
<1>4. \A x \in Addresses : InPool(B[k].numbers, x) => v.base < x /\ x < v.limit
    BY <1>1, <1>2 DEF NumbersOK
<1>5. /\ v \in Window /\ v.base = B[k].bus /\ v.base > 0 /\ v.base < v.limit /\ v.limit <= MaxBus + 1
      /\ \A x \in Addresses : v.base <= x /\ x < v.limit => InPool(B[k - 1].numbers, x)
      /\ B[k].id \notin S
      /\ [id |-> B[k].id, bus |-> B[k - 1].bus, sec |-> v.base, sub |-> v.limit - 1] \in R
    BY <1>1 DEF RangesOK
<1>6. v.base \in Nat /\ v.limit \in Nat
    BY <1>5, Sizes DEF Window
<1>7. v.base \in 1 .. MaxBus /\ v.base \in Addresses
    <2> DEFINE a == v.base
               h == v.limit
    <2>1. a \in Nat /\ h \in Nat /\ a > 0 /\ a < h /\ h <= MaxBus + 1
        BY <1>5, <1>6
    <2> HIDE DEF a, h
    <2>2. a \in 1 .. MaxBus /\ a \in 0 .. Top
        BY <2>1, Sizes
    <2> QED
        BY <2>2 DEF a, Addresses
<1> QED
    BY <1>3, <1>4, <1>5, <1>6, <1>7 DEF RangeOf

LEMMA CloseRange ==
    ASSUME NEW e \in Nat, NEW B, NEW C, NEW R, NEW S, AllInv(B, C, R, S, e), NEW n, n = Len(B), n > 1,
           NEW u, u = ppb_set_window_size(ppb_update_range(B[n].range, B[n].numbers), 1),
           NEW mem, NEW Z, Z = ppb_allocate_window(B[n - 1].numbers, u, mem)
    PROVE  NumbersClosed(B[n - 1].numbers, B[n].numbers, B[n].range, Z, u)
<1>1. BusTypes(B, e) /\ NumInv(B, R, S)
    BY DEF AllInv
<1>2. n \in Nat /\ n \in 2 .. Len(B)
    BY <1>1, BusFacts
<1> DEFINE P == B[n - 1].numbers
           M == B[n].numbers
           v == B[n].range
<1>3. /\ v \in Window /\ v.base \in Nat
      /\ v.limit \in Nat /\ v.limit <= MaxBus + 1 /\ v.base < v.limit
      /\ Canon(M) /\ Canon(P)
      /\ \A x \in Addresses : InPool(M, x) => v.base < x /\ x < v.limit
      /\ \A x \in Addresses : v.base <= x /\ x < v.limit => InPool(P, x)
    <2>1. RangeOf(B, R, S, n, B[n].range)
        BY <1>1, <1>2, RangeIs
    <2> QED
        BY <2>1 DEF RangeOf
<1>4. u = ppb_set_window_size(ppb_update_range(v, M), 1) /\ Z = ppb_allocate_window(P, u, mem)
    OBVIOUS
<1> HIDE DEF P, M, v
<1>5. /\ u \in Window /\ u.base = v.base /\ u.base < u.limit /\ u.limit <= v.limit
      /\ u.size = u.limit - u.base
      /\ \A x \in Addresses : Inside(x, u.limit, v.limit) => InPool(M, x)
    BY <1>3, <1>4, RangeCut
<1>6. u.base \in Nat /\ u.limit \in Nat
    BY <1>5, Sizes DEF Window
<1> DEFINE a == u.base
           s == u.size
           h == u.limit
<1>7. a \in Nat /\ h \in Nat /\ s = h - a /\ a < h /\ h <= v.limit /\ v.limit <= MaxBus + 1 /\ v.limit \in Nat
    BY <1>3, <1>5, <1>6
<1>8. Z = IF s = 0 THEN P ELSE pci_allocate_fixed_block(P, a, s, mem).blocks
    BY <1>4 DEF ppb_allocate_window
<1>9. a = v.base
    BY <1>5
<1> HIDE DEF a, s, h
<1>10. s \in Nat \ {0} /\ a + s = h /\ a + s <= Top /\ s # 0
    BY <1>7, Sizes
<1>11. \A x \in Addresses : Inside(x, a, a + s) => InPool(P, x)
    <2> SUFFICES ASSUME NEW x \in Addresses, Inside(x, a, a + s)
                 PROVE  v.base <= x /\ x < v.limit
        BY <1>3
    <2>1. a <= x /\ x < a + s /\ x \in Nat
        BY Sizes DEF Inside, Addresses
    <2> DEFINE b == v.base
               l == v.limit
    <2>2. a = b /\ a + s <= l /\ l \in Nat
        BY <1>7, <1>9, <1>10
    <2> HIDE DEF b, l
    <2>3. b <= x /\ x < l
        BY <1>7, <1>10, <2>1, <2>2
    <2> QED
        BY <2>3 DEF b, l
<1> DEFINE f == pci_allocate_fixed_block(P, a, s, mem)
<1>12. Z = f.blocks /\ f = pci_allocate_fixed_block(P, a, s, mem)
    BY <1>8, <1>10
<1> HIDE DEF f
<1>13. Taken(P, f.blocks, a, s, mem)
    BY <1>3, <1>7, <1>10, <1>11, <1>12, FixedEffect
<1>14. Canon(Z) /\ \A x \in Addresses : InPool(Z, x) => InPool(P, x) /\ ~Inside(x, a, a + s)
    BY <1>12, <1>13 DEF Taken
<1>15. /\ Canon(Z)
       /\ \A x \in Addresses : InPool(Z, x) => InPool(P, x) /\ ~(u.base <= x /\ x < u.limit)
    BY <1>10, <1>14 DEF Inside, a, h
<1>16. NumbersClosed(P, M, v, Z, u)
    BY <1>5, <1>6, <1>15 DEF NumbersClosed, Inside
<1> QED
    BY <1>16 DEF P, M, v

\* The route of the last bridge is cut.
OtherRoutes(R, id) == {r \in R : r.id # id}
OldRoute(B, n) == [id |-> B[n].id, bus |-> B[n - 1].bus, sec |-> B[n].range.base, sub |-> B[n].range.limit - 1]

RouteCut(B, R, S, n, p, q, V, e) ==
    /\ p \in Live(R, S) /\ p = OldRoute(B, n)
    /\ p.id = B[n].id /\ p.bus = B[n - 1].bus /\ p.sec = B[n].range.base /\ p.sub = B[n].range.limit - 1
    /\ q.id = p.id /\ q.bus = p.bus /\ q.sec = p.sec /\ q.sub <= p.sub
    /\ p.sec \in Nat /\ p.sub \in Nat /\ q.sub \in Nat
    /\ \A r \in R : r.id = p.id => r = p
    /\ Live(V, S) = (Live(R, S) \ {p}) \union {q}
    /\ Used(V, S) = Used(R, S)
    /\ RouteTypes(V, S, e)

LEMMA CutRoute ==
    ASSUME NEW e \in Nat, NEW B, NEW C, NEW R, NEW S, AllInv(B, C, R, S, e), NEW n, n = Len(B), n > 1,
           NEW Z, NEW u, NumbersClosed(B[n - 1].numbers, B[n].numbers, B[n].range, Z, u),
           NEW q, q = [id |-> B[n].id, bus |-> B[n - 1].bus, sec |-> u.base, sub |-> u.limit - 1],
           NEW V, V = OtherRoutes(R, B[n].id) \union {q}, NEW p, p = OldRoute(B, n)
    PROVE  RouteCut(B, R, S, n, p, q, V, e)
<1>1. BusTypes(B, e) /\ NumInv(B, R, S) /\ RouteTypes(R, S, e)
    BY DEF AllInv
<1>2. n \in Nat /\ n \in 2 .. Len(B)
    BY <1>1, BusFacts
<1> DEFINE v == B[n].range
           id == B[n].id
           bus == B[n - 1].bus
<1>3. /\ v.base \in 1 .. MaxBus /\ v.base \in Nat
      /\ v.limit \in Nat /\ v.limit <= MaxBus + 1 /\ v.base < v.limit
      /\ id \notin S
      /\ [id |-> id, bus |-> bus, sec |-> v.base, sub |-> v.limit - 1] \in R
    BY <1>1, <1>2, RangeIs DEF RangeOf
<1>4. u.base = v.base /\ u.limit \in Nat /\ u.base < u.limit /\ u.limit <= v.limit
    BY DEF NumbersClosed
<1>5. p = [id |-> id, bus |-> bus, sec |-> v.base, sub |-> v.limit - 1]
    BY DEF OldRoute
<1>6. q = [id |-> id, bus |-> bus, sec |-> u.base, sub |-> u.limit - 1]
    OBVIOUS
<1>7. V = OtherRoutes(R, id) \union {q}
    OBVIOUS
<1> HIDE DEF v, id, bus
<1>8. p.id = id /\ p.bus = bus /\ p.sec = v.base /\ p.sub = v.limit - 1
    BY ONLY <1>5
<1>9. q.id = id /\ q.bus = bus /\ q.sec = u.base /\ q.sub = u.limit - 1
    BY ONLY <1>6
<1>10. p \in R /\ p \in Live(R, S) /\ \A r \in R : r.id = id => r = p
    BY <1>1, <1>3, <1>5, <1>8 DEF RouteTypes, Live
<1>11. \A r : r \in V <=> (r \in R /\ r # p) \/ r = q
    BY <1>7, <1>8, <1>10 DEF OtherRoutes
<1>12. Live(V, S) = (Live(R, S) \ {p}) \union {q}
    <2>1. \A r : r \in Live(V, S) <=> r \in V /\ r.id \notin S
        BY DEF Live
    <2>2. \A r : r \in Live(R, S) <=> r \in R /\ r.id \notin S
        BY DEF Live
    <2> QED
        BY <1>3, <1>9, <1>11, <2>1, <2>2
<1>13. p.sec \in Nat /\ p.sub \in Nat /\ q.sub \in Nat /\ q.sub <= p.sub /\ q.sec = p.sec /\ q.sub \in 0 .. MaxBus
       /\ q.sec \in 0 .. MaxBus /\ q.sec > 0 /\ q.sec <= q.sub
    <2> DEFINE a == u.base
               h == u.limit
               b == v.base
               k == v.limit
    <2>1. a = b /\ h \in Nat /\ k \in Nat /\ b \in 1 .. MaxBus /\ a < h /\ h <= k /\ k <= MaxBus + 1 /\ MaxBus \in Nat
        BY <1>3, <1>4, Sizes
    <2>2. p.sec = b /\ p.sub = k - 1 /\ q.sec = a /\ q.sub = h - 1
        BY <1>8, <1>9
    <2> HIDE DEF a, h, b, k
    <2>3. b \in Nat /\ k - 1 \in Nat /\ h - 1 \in Nat /\ h - 1 <= k - 1 /\ h - 1 \in 0 .. MaxBus /\ a \in 0 .. MaxBus
          /\ a > 0 /\ a <= h - 1
        BY ONLY <2>1
    <2> QED
        BY <2>1, <2>2, <2>3
<1>14. Used(V, S) = Used(R, S)
    <2> DEFINE L == Live(R, S)
               M == Live(V, S)
    <2>1. p \in L /\ M = (L \ {p}) \union {q} /\ q.sec = p.sec
        BY <1>10, <1>12, <1>13
    <2> HIDE DEF L, M
    <2>2. {r.sec : r \in M} = {r.sec : r \in L}
        <3>1. \A r \in M : \E o \in L : r.sec = o.sec
            BY <2>1
        <3>2. \A o \in L : \E r \in M : r.sec = o.sec
            BY <2>1
        <3> QED
            BY <3>1, <3>2
    <2> QED
        BY <2>2 DEF Used, L, M
<1>15. /\ R \subseteq [id : 1 .. MaxDevices, bus : 0 .. MaxBus, sec : 0 .. MaxBus, sub : 0 .. MaxBus]
       /\ S \subseteq 1 .. MaxDevices
       /\ \A r \in R : r.id <= e
       /\ \A s \in S : s <= e
       /\ \A r, o \in R : r.id = o.id => r = o
       /\ \A r \in Live(R, S) : r.sec > 0 /\ r.sec <= r.sub /\ r.bus \in Used(R, S)
       /\ \A r, o \in Live(R, S) : r.sec = o.sec => r = o
    BY <1>1 DEF RouteTypes
<1>16. q \in [id : 1 .. MaxDevices, bus : 0 .. MaxBus, sec : 0 .. MaxBus, sub : 0 .. MaxBus] /\ q.id <= e
    <2>1. id \in 1 .. MaxDevices /\ bus \in 0 .. MaxBus /\ id <= e
        BY <1>8, <1>10, <1>15
    <2>2. q = [id |-> id, bus |-> bus, sec |-> q.sec, sub |-> q.sub]
        BY <1>6, <1>9
    <2> QED
        BY <1>9, <1>13, <2>1, <2>2
<1>17. /\ V \subseteq [id : 1 .. MaxDevices, bus : 0 .. MaxBus, sec : 0 .. MaxBus, sub : 0 .. MaxBus]
       /\ \A r \in V : r.id <= e
    BY <1>11, <1>15, <1>16
<1>18. \A r, o \in V : r.id = o.id => r = o
    BY <1>9, <1>10, <1>11, <1>15
<1>19. \A r \in Live(V, S) : r.sec > 0 /\ r.sec <= r.sub /\ r.bus \in Used(V, S)
    BY <1>8, <1>9, <1>10, <1>12, <1>13, <1>14, <1>15
<1>20. \A r, o \in Live(V, S) : r.sec = o.sec => r = o
    BY <1>10, <1>12, <1>13, <1>15
<1>21. RouteTypes(V, S, e)
    BY <1>15, <1>17, <1>18, <1>19, <1>20 DEF RouteTypes
<1>22. p.id = B[n].id /\ p.bus = B[n - 1].bus /\ p.sec = B[n].range.base /\ p.sub = B[n].range.limit - 1
    BY <1>8 DEF v, id, bus
<1>23. q.id = p.id /\ q.bus = p.bus /\ \A r \in R : r.id = p.id => r = p
    BY <1>8, <1>9, <1>10
<1> QED
    BY <1>10, <1>12, <1>13, <1>14, <1>21, <1>22, <1>23 DEF RouteCut

LEMMA PopNumbers ==
    ASSUME NEW e \in Nat, NEW B, NEW C, NEW R, NEW S, AllInv(B, C, R, S, e), NEW n, n > 1,
           NEW D, NEW Q, NEW Z, Popped(B, D, n, Q, Z), NEW u,
           NumbersClosed(B[n - 1].numbers, B[n].numbers, B[n].range, Z, u),
           NEW p, NEW q, q.sub = u.limit - 1, NEW V, RouteCut(B, R, S, n, p, q, V, e)
    PROVE  NumInv(D, V, S)
<1> DEFINE a == B[n].range.base
           h == B[n].range.limit
           k1 == n - 1
<1>0. Len(B) = n /\ Len(D) = n - 1 /\ BusTypes(B, e) /\ NumInv(B, R, S)
      /\ NumbersOK(B) /\ RangesOK(B, R, S) /\ UsedOK(B, R, S) /\ RoutesOK(B, R, S)
    BY DEF Popped, AllInv, NumInv
<1>1. n \in Nat /\ n > 1
    BY <1>0, BusFacts
<1>2. /\ k1 \in Nat /\ k1 > 0 /\ k1 \in 1 .. k1 /\ n \in 1 .. n /\ k1 \in 1 .. n
      /\ n \in 2 .. n /\ 1 \in 1 .. k1 /\ 1 \in 1 .. n
      /\ \A k \in 1 .. k1 : k \in 1 .. n /\ k # n /\ k < n
      /\ \A k \in 2 .. k1 : k \in 2 .. n /\ k \in 1 .. k1 /\ k - 1 \in 1 .. k1 /\ k - 1 # k1 /\ k - 1 \in 1 .. n
      /\ \A k \in 1 .. k1 : k < k1 => k + 1 \in 1 .. k1 /\ k # k1
      /\ \A k \in 1 .. k1 : k < k1 \/ k = k1
      /\ k1 + 1 = n /\ k1 < n
    BY <1>1, PopIndex
<1>3. /\ Len(D) = k1
      /\ \A k \in 1 .. k1 : /\ D[k].bus = B[k].bus /\ D[k].id = B[k].id /\ D[k].range = B[k].range
                            /\ k # k1 => D[k].numbers = B[k].numbers
      /\ D[k1].numbers = Z
    BY <1>0 DEF Popped
<1>4. /\ a \in Nat /\ h \in Nat /\ h <= MaxBus + 1 /\ a < h /\ a \in Addresses
      /\ \A x \in Addresses : InPool(B[n].numbers, x) => a < x /\ x < h
      /\ \A x \in Addresses : a <= x /\ x < h => InPool(B[k1].numbers, x)
      /\ B[n].id \notin S
    <2>1. n \in 2 .. Len(B)
        BY <1>0, <1>1
    <2>2. RangeOf(B, R, S, n, B[n].range)
        BY <1>0, <2>1, RangeIs
    <2> QED
        BY <2>2 DEF RangeOf
<1>5. /\ Canon(Z)
      /\ \A x \in Addresses : InPool(Z, x) => InPool(B[k1].numbers, x) /\ ~(a <= x /\ x < u.limit)
      /\ u.limit \in Nat /\ a < u.limit /\ u.limit <= h
      /\ \A x \in Addresses : u.limit <= x /\ x < h => InPool(B[n].numbers, x)
    BY DEF NumbersClosed
<1>6. /\ p \in Live(R, S)
      /\ p.id = B[n].id /\ p.bus = B[k1].bus /\ p.sec = a /\ p.sub = h - 1
      /\ q.id = p.id /\ q.bus = p.bus /\ q.sec = a /\ q.sub <= p.sub
      /\ p.sec \in Nat /\ p.sub \in Nat /\ q.sub \in Nat
      /\ \A r \in R : r.id = p.id => r = p
      /\ Live(V, S) = (Live(R, S) \ {p}) \union {q}
      /\ Used(V, S) = Used(R, S)
    BY DEF RouteCut
<1>7. \A k \in 1 .. k1 : \A x \in Addresses : InPool(D[k].numbers, x) => InPool(B[k].numbers, x)
    BY <1>3, <1>5
<1>8. \A x \in Addresses : x \in Nat /\ x <= Top
    BY Sizes DEF Addresses
<1>9. /\ \A r \in Live(R, S) : r.sec \in 0 .. MaxBus /\ r.sub \in 0 .. MaxBus /\ r.sec \in Addresses /\ r.sub \in Addresses
                               /\ r.sec \in Nat /\ r.sub \in Nat /\ r.sec <= r.sub
      /\ \A y \in Used(R, S) : y \in Addresses
    <2>1. \A r \in Live(R, S) : r.sec \in 0 .. MaxBus /\ r.sub \in 0 .. MaxBus /\ r.sec <= r.sub
        BY DEF AllInv, RouteTypes, Live
    <2>2. \A y \in 0 .. MaxBus : y \in Addresses /\ y \in Nat
        BY Sizes DEF Addresses
    <2>3. 0 \in Addresses
        BY <2>2, Sizes
    <2> QED
        BY <2>1, <2>2, <2>3 DEF Used
<1>10. \A j, k \in 1 .. n : j # k => B[j].id # B[k].id /\ B[j].bus # B[k].bus
    BY <1>0 DEF BusTypes
<1> HIDE DEF a, h, k1
<1>11. NumbersOK(D)
    <2> SUFFICES ASSUME NEW k \in 1 .. k1
                 PROVE  /\ Canon(D[k].numbers)
                        /\ \A x \in Addresses : InPool(D[k].numbers, x) =>
                              /\ x > 0 /\ x <= MaxBus
                              /\ \A j \in 2 .. k : D[j].range.base < x /\ x < D[j].range.limit
        BY <1>3 DEF NumbersOK
    <2>1. k \in 1 .. Len(B)
        BY <1>0, <1>2
    <2>2. /\ Canon(B[k].numbers)
          /\ \A x \in Addresses : InPool(B[k].numbers, x) =>
                /\ x > 0 /\ x <= MaxBus
                /\ \A j \in 2 .. k : B[j].range.base < x /\ x < B[j].range.limit
        BY <1>0, <2>1 DEF NumbersOK
    <2>3. Canon(D[k].numbers)
        BY <1>3, <1>5, <2>2
    <2>4. \A j \in 2 .. k : j \in 1 .. k1
        BY <1>2
    <2>5. \A j \in 2 .. k : D[j].range = B[j].range
        BY <1>3, <2>4
    <2> QED
        BY <1>7, <2>2, <2>3, <2>5
<1>12. RangesOK(D, V, S)
    <2> SUFFICES ASSUME NEW k \in 2 .. k1
                 PROVE  /\ D[k].range \in Window /\ D[k].range.base = D[k].bus /\ D[k].range.base > 0
                        /\ D[k].range.base < D[k].range.limit
                        /\ D[k].range.limit = D[k].range.base + D[k].range.size /\ D[k].range.limit <= MaxBus + 1
                        /\ \A x \in Addresses : D[k].range.base <= x /\ x < D[k].range.limit => InPool(D[k - 1].numbers, x)
                        /\ D[k].id \notin S
                        /\ [id |-> D[k].id, bus |-> D[k - 1].bus, sec |-> D[k].range.base, sub |-> D[k].range.limit - 1] \in V
        BY <1>3 DEF RangesOK
    <2>1. k \in 2 .. Len(B)
        BY <1>0, <1>2
    <2>2. /\ D[k].range = B[k].range /\ D[k].bus = B[k].bus /\ D[k].id = B[k].id
          /\ D[k - 1].bus = B[k - 1].bus /\ D[k - 1].numbers = B[k - 1].numbers
        BY <1>2, <1>3
    <2> DEFINE r == [id |-> B[k].id, bus |-> B[k - 1].bus, sec |-> B[k].range.base, sub |-> B[k].range.limit - 1]
    <2>3. r.id = B[k].id
        OBVIOUS
    <2> HIDE DEF r
    <2>4. /\ B[k].range \in Window /\ B[k].range.base = B[k].bus /\ B[k].range.base > 0
          /\ B[k].range.base < B[k].range.limit
          /\ B[k].range.limit = B[k].range.base + B[k].range.size /\ B[k].range.limit <= MaxBus + 1
          /\ \A x \in Addresses : B[k].range.base <= x /\ x < B[k].range.limit => InPool(B[k - 1].numbers, x)
          /\ B[k].id \notin S /\ r \in R
        BY <1>0, <2>1 DEF RangesOK, r
    <2>5. r # p
        BY <1>2, <1>6, <1>10, <2>3
    <2>6. r \in V
        BY <1>6, <2>3, <2>4, <2>5 DEF Live
    <2> QED
        BY <2>2, <2>4, <2>6 DEF r
<1>13. UsedOK(D, V, S)
    <2> SUFFICES ASSUME NEW k \in 1 .. k1, NEW y \in Used(R, S), InPool(D[k].numbers, y)
                 PROVE  k < k1 /\ D[k + 1].range.base <= y /\ y < D[k + 1].range.limit
        BY <1>3, <1>6 DEF UsedOK
    <2>1. y \in Addresses /\ y \in Nat /\ k \in 1 .. Len(B) /\ k < n
        BY <1>0, <1>2, <1>8, <1>9
    <2>2. InPool(B[k].numbers, y)
        BY <1>7, <2>1
    <2>3. B[k + 1].range.base <= y /\ y < B[k + 1].range.limit
        BY <1>0, <2>1, <2>2 DEF UsedOK
    <2>4. CASE k < k1
        <3>1. D[k + 1].range = B[k + 1].range
            BY <1>2, <1>3, <2>4
        <3> QED
            BY <2>3, <2>4, <3>1
    <2>5. CASE k = k1
        <3>1. a <= y /\ y < h
            BY <1>2, <2>3, <2>5 DEF a, h
        <3>2. ~(a <= y /\ y < u.limit)
            BY <1>3, <1>5, <2>1, <2>5
        <3>3. u.limit <= y
            BY <1>5, <2>1, <3>1, <3>2
        <3>4. InPool(B[n].numbers, y) /\ n \in 1 .. Len(B)
            BY <1>0, <1>2, <1>5, <2>1, <3>1, <3>3
        <3>5. n < n
            BY <1>0, <3>4 DEF UsedOK
        <3> QED
            BY <1>1, <3>5
    <2> QED
        BY <1>2, <2>4, <2>5
<1>14. \A r \in Live(R, S) : r # p => r.id # B[n].id /\ r \in R
    BY <1>6 DEF Live
<1>15. \A k \in 1 .. n, r \in Live(R, S) :
          r.bus = B[k].bus /\ ~(k < n /\ r.id = B[k + 1].id) =>
              /\ \A x \in Addresses : r.sec <= x /\ x <= r.sub => ~InPool(B[k].numbers, x)
              /\ k > 1 => B[k].range.base < r.sec /\ r.sub < B[k].range.limit
    BY <1>0 DEF RoutesOK
<1>16. \A r, o \in Live(R, S) :
          /\ r.bus = o.bus /\ r # o => r.sub < o.sec \/ o.sub < r.sec
          /\ o.bus = r.sec => r.sec < o.sec /\ o.sub <= r.sub
    BY <1>0 DEF RoutesOK
<1>17. ASSUME NEW k \in 1 .. k1, NEW r \in Live(V, S), r.bus = D[k].bus, ~(k < k1 /\ r.id = D[k + 1].id)
       PROVE  /\ \A x \in Addresses : r.sec <= x /\ x <= r.sub => ~InPool(D[k].numbers, x)
              /\ k > 1 => D[k].range.base < r.sec /\ r.sub < D[k].range.limit
    <2>1. k \in 1 .. n /\ D[k].bus = B[k].bus /\ D[k].range = B[k].range
        BY <1>2, <1>3
    <2>2. CASE r \in Live(R, S) /\ r # p
        <3>1. ~(k < n /\ r.id = B[k + 1].id)
            <4>1. CASE k < k1
                <5>1. D[k + 1].id = B[k + 1].id
                    BY <1>2, <1>3, <4>1
                <5> QED
                    BY <1>17, <4>1, <5>1
            <4>2. CASE k = k1
                BY <1>2, <1>14, <2>2, <4>2
            <4> QED
                BY <1>2, <4>1, <4>2
        <3> QED
            BY <1>7, <1>15, <1>17, <2>1, <2>2, <3>1
    <2>3. CASE r = q
        <3>1. k = k1
            BY <1>2, <1>6, <1>10, <1>17, <2>1, <2>3
        <3>2. ASSUME NEW x \in Addresses, r.sec <= x, x <= r.sub
              PROVE  ~InPool(D[k].numbers, x)
            <4>1. r.sec = a /\ r.sub = u.limit - 1
                BY <1>6, <2>3
            <4>2. a <= x /\ x < u.limit
                BY <1>4, <1>5, <1>8, <3>2, <4>1
            <4> QED
                BY <1>3, <1>5, <3>1, <4>2
        <3>3. ASSUME k > 1
              PROVE  D[k].range.base < r.sec /\ r.sub < D[k].range.limit
            <4> DEFINE g == u.limit - 1
            <4>1. g \in Addresses /\ g \in Nat /\ a <= g /\ g < h /\ a <= a
                BY <1>4, <1>5, Sizes DEF Addresses
            <4> HIDE DEF g
            <4>2. InPool(B[k1].numbers, a) /\ InPool(B[k1].numbers, g)
                BY <1>4, <4>1
            <4>3. k1 \in 2 .. k1 /\ k1 \in 1 .. Len(B)
                BY <1>0, <1>2, <3>1, <3>3
            <4>4. \A x \in Addresses : InPool(B[k1].numbers, x) =>
                      B[k1].range.base < x /\ x < B[k1].range.limit
                BY <1>0, <4>3 DEF NumbersOK
            <4>5. B[k1].range.base < a /\ g < B[k1].range.limit
                BY <1>4, <4>1, <4>2, <4>4
            <4> QED
                BY <1>6, <2>1, <2>3, <3>1, <4>5 DEF g
        <3> QED
            BY <3>2, <3>3
    <2> QED
        BY <1>6, <2>2, <2>3
<1>18. ASSUME NEW r \in Live(R, S), r # p
       PROVE  /\ r.bus = q.bus => r.sub < q.sec \/ q.sub < r.sec
              /\ q.bus = r.sec => r.sec < q.sec /\ q.sub <= r.sub
              /\ r.bus = q.sec => q.sec < r.sec /\ r.sub <= q.sub
    <2>1. r.sec \in Nat /\ r.sub \in Nat /\ r.sec \in Addresses /\ r.sub \in Addresses /\ r.sec <= r.sub
        BY <1>9
    <2>2. r.bus = q.bus => r.sub < q.sec \/ q.sub < r.sec
        <3>1. r.bus = p.bus => r.sub < p.sec \/ p.sub < r.sec
            BY <1>6, <1>16, <1>18
        <3> QED
            BY <1>6, <2>1, <3>1
    <2>3. q.bus = r.sec => r.sec < q.sec /\ q.sub <= r.sub
        <3>1. p.bus = r.sec => r.sec < p.sec /\ p.sub <= r.sub
            BY <1>6, <1>16
        <3> QED
            BY <1>6, <2>1, <3>1
    <2>4. ASSUME r.bus = q.sec
          PROVE  q.sec < r.sec /\ r.sub <= q.sub
        <3>1. p.sec < r.sec /\ r.sub <= p.sub
            BY <1>6, <1>16, <2>4
        <3>2. B[n].bus = a
            BY <1>0, <1>2 DEF RangesOK, a
        <3>3. \A x \in Addresses : r.sec <= x /\ x <= r.sub => ~InPool(B[n].numbers, x)
            BY <1>1, <1>2, <1>6, <1>15, <2>4, <3>2
        <3>4. ~InPool(B[n].numbers, r.sub)
            BY <2>1, <3>3
        <3>5. ~(u.limit <= r.sub /\ r.sub < h)
            BY <1>5, <2>1, <3>4
        <3>6. r.sub < u.limit
            BY <1>4, <1>5, <1>6, <2>1, <3>1, <3>5
        <3> QED
            BY <1>4, <1>5, <1>6, <2>1, <3>1, <3>6
    <2> QED
        BY <2>2, <2>3, <2>4
<1>19. q.bus # q.sec
    BY <1>6, <1>16
<1>20. ASSUME NEW r \in Live(V, S), NEW o \in Live(V, S)
       PROVE  /\ r.bus = o.bus /\ r # o => r.sub < o.sec \/ o.sub < r.sec
              /\ o.bus = r.sec => r.sec < o.sec /\ o.sub <= r.sub
    <2>1. CASE r \in Live(R, S) /\ r # p /\ o \in Live(R, S) /\ o # p
        BY <1>16, <2>1
    <2>2. CASE r = q /\ o \in Live(R, S) /\ o # p
        BY <1>18, <2>2
    <2>3. CASE o = q /\ r \in Live(R, S) /\ r # p
        BY <1>18, <2>3
    <2>4. CASE r = q /\ o = q
        BY <1>19, <2>4
    <2> QED
        BY <1>6, <2>1, <2>2, <2>3, <2>4
<1>21. RoutesOK(D, V, S)
    BY <1>3, <1>17, <1>20 DEF RoutesOK
<1> QED
    BY <1>11, <1>12, <1>13, <1>21 DEF NumInv

LEMMA PopReach ==
    ASSUME NEW e \in Nat, NEW B, NEW C, NEW R, NEW S, AllInv(B, C, R, S, e), NEW n, n > 1,
           NEW D, NEW Q, NEW Z, Popped(B, D, n, Q, Z), NEW W, NEW mem,
           PoolClosed(B[n - 1].mem, B[n].mem, B[n].window, Q, W, mem, B[n].id, B[n - 1].bus),
           NEW M, M = OtherClaims(C, B[n].id) \union W, NEW p, NEW q, NEW V, RouteCut(B, R, S, n, p, q, V, e),
           BusTypes(D, e), ClaimTypes(M, e), MemInv(D, M), NumInv(D, V, S)
    PROVE  ReachInv(M, V, S)
<1> DEFINE N == OtherClaims(C, B[n].id)
           id == B[n].id
           k1 == n - 1
<1>1. /\ Len(B) = n /\ Len(D) = n - 1 /\ BusTypes(B, e) /\ ReachInv(C, R, S) /\ RangesOK(B, R, S)
      /\ ClaimTypes(C, e) /\ ClaimsOK(B, C)
      /\ PoolsOK(D) /\ WindowsOK(D, M) /\ ClaimsOK(D, M) /\ RangesOK(D, V, S) /\ RouteTypes(V, S, e)
    BY DEF Popped, AllInv, MemInv, NumInv, RouteCut
<1>2. n \in Nat /\ k1 \in 1 .. Len(D) /\ n \in 1 .. Len(B) /\ n \in 2 .. Len(B)
    BY <1>1, BusFacts
<1>3. D[k1].bus = B[k1].bus
    BY <1>1, <1>2 DEF Popped
<1>4. /\ p \in Live(R, S) /\ p.id = id /\ p.bus = B[k1].bus /\ p.sec = B[n].range.base
      /\ q.id = p.id /\ q.bus = p.bus /\ q.sec = p.sec
      /\ \A r \in R : r.id = p.id => r = p
      /\ Live(V, S) = (Live(R, S) \ {p}) \union {q}
      /\ Used(V, S) = Used(R, S)
    BY DEF RouteCut
<1>5. M = N \union W
    OBVIOUS
<1>6. \A c \in W : c \in ClaimSet /\ c.id = id /\ c.part = "window" /\ c.bus = B[k1].bus /\ c.lo <= c.hi
    BY DEF PoolClosed
<1>7. p.sec = B[n].bus
    BY <1>1, <1>2, <1>4 DEF RangesOK
<1>8. /\ \A x \in Addresses : B[n].window.base <= x /\ x < B[n].window.limit /\ ~InPool(B[n].mem, x) =>
             \E c \in W : c.lo <= x /\ x <= c.hi
      /\ \A c, d \in W : c = d
    BY DEF PoolClosed
<1>9. \A c : c \in N <=> c \in C /\ ~(c.id = id /\ c.part = "window")
    BY DEF OtherClaims
<1> HIDE DEF N, id, k1
<1> SUFFICES ASSUME NEW c \in M
             PROVE  /\ c.bus \in Used(V, S)
                    /\ \A r \in Live(V, S) : c.bus = r.sec =>
                          \E w \in M : /\ w.id = r.id /\ w.part = "window"
                                       /\ w.lo <= c.lo /\ c.hi <= w.hi
    BY DEF ReachInv
<1>10. CASE c \in W
    <2>1. c \in ClaimSet /\ c.lo <= c.hi /\ c.bus = D[k1].bus
        BY <1>3, <1>6, <1>10
    <2>2. k1 > 1 => D[k1].window.base <= c.lo /\ c.hi < D[k1].window.limit
        BY <1>1, <1>2, <2>1 DEF ClaimsOK
    <2> QED
        BY <1>1, <1>2, <2>1, <2>2, Behind
<1>11. CASE c \in N
    <2>1. c \in C
        BY <1>9, <1>11
    <2>2. c.bus \in Used(V, S)
        BY <1>1, <1>4, <2>1 DEF ReachInv
    <2>3. ASSUME NEW r \in Live(R, S), r # p, c.bus = r.sec
          PROVE  \E w \in M : /\ w.id = r.id /\ w.part = "window"
                              /\ w.lo <= c.lo /\ c.hi <= w.hi
        <3>1. PICK w \in C : /\ w.id = r.id /\ w.part = "window"
                             /\ w.lo <= c.lo /\ c.hi <= w.hi
            BY <1>1, <2>1, <2>3 DEF ReachInv
        <3>2. r.id # id
            BY <1>4, <2>3 DEF Live
        <3>3. w \in M
            BY <1>5, <1>9, <3>1, <3>2
        <3> QED
            BY <3>1, <3>3
    <2>4. ASSUME c.bus = q.sec
          PROVE  \E w \in M : /\ w.id = q.id /\ w.part = "window"
                              /\ w.lo <= c.lo /\ c.hi <= w.hi
        <3>1. c.bus = B[n].bus
            BY <1>4, <1>7, <2>4
        <3>2. c \in ClaimSet /\ c.lo <= c.hi
            BY <1>1, <2>1 DEF ClaimTypes
        <3>3. c.lo \in Addresses /\ c.hi \in Addresses /\ c.lo \in Nat /\ c.hi \in Nat
            BY <3>2, ClaimFacts
        <3>4. ~Ahead(B, n, c)
            BY <1>1, <1>2 DEF Ahead
        <3>5. /\ \A x \in Addresses : c.lo <= x /\ x <= c.hi => ~InPool(B[n].mem, x)
              /\ B[n].window.base <= c.lo /\ c.hi < B[n].window.limit
            BY <1>1, <1>2, <2>1, <3>1, <3>4 DEF ClaimsOK
        <3>6. B[n].window.base \in Nat /\ B[n].window.limit \in Nat
            <4>1. WindowOK(B[n].window)
                BY <1>1, <1>2 DEF AllInv, MemInv, PoolsOK
            <4> QED
                BY <4>1, WindowFacts
        <3> DEFINE a == B[n].window.base
                   h == B[n].window.limit
        <3>7. /\ a <= c.lo /\ c.lo < h /\ a <= c.hi /\ c.hi < h
              /\ ~InPool(B[n].mem, c.lo) /\ ~InPool(B[n].mem, c.hi)
            BY <3>2, <3>3, <3>5, <3>6
        <3>8. PICK w \in W : w.lo <= c.lo /\ c.lo <= w.hi
            BY <1>8, <3>3, <3>7
        <3>9. PICK v \in W : v.lo <= c.hi /\ c.hi <= v.hi
            BY <1>8, <3>3, <3>7
        <3>10. w = v
            BY <1>8
        <3> QED
            BY <1>4, <1>5, <1>6, <3>8, <3>9, <3>10
    <2> QED
        BY <1>4, <2>2, <2>3, <2>4
<1> QED
    BY <1>5, <1>10, <1>11

\* The last bus is done, and the bridge cut to what is used behind it.
LEMMA BehindPop ==
    ASSUME NEW B, NEW C, NEW R, NEW S, BehindInv(B, C, R, S), NEW n, n \in Nat, n = Len(B), n > 1,
           NEW e, NEW p, NEW q, NEW V, RouteCut(B, R, S, n, p, q, V, e), NEW D, NEW Q, NEW Z, Popped(B, D, n, Q, Z),
           \A k \in 2 .. n : B[k].range.limit \in Nat,
           NEW W, \A c \in W : c.id = B[n].id /\ c.bus = B[n - 1].bus,
           NEW M, M = OtherClaims(C, B[n].id) \union W
    PROVE  BehindInv(D, M, V, S)
<1>1. /\ p \in Live(R, S) /\ p.id = B[n].id /\ p.bus = B[n - 1].bus
      /\ q.id = p.id /\ q.bus = p.bus /\ q.sec = p.sec /\ q.sub <= p.sub /\ p.sub \in Nat /\ q.sub \in Nat
      /\ \A r \in R : r.id = p.id => r = p
      /\ Live(V, S) = (Live(R, S) \ {p}) \union {q}
    BY DEF RouteCut
<1>2. \A k \in 2 .. Len(D) : k \in 2 .. n /\ D[k].range = B[k].range
    <2>1. Len(D) = n - 1 /\ \A k \in 2 .. n - 1 : k \in 2 .. n /\ k \in 1 .. n - 1
        BY DEF Popped
    <2> QED
        BY <2>1 DEF Popped
<1>3. ASSUME NEW k \in 2 .. Len(D), NEW r \in Live(V, S), D[k].range.base <= r.sec, r.sec < D[k].range.limit
      PROVE  r.sub < D[k].range.limit
    <2>1. CASE r = q
        <3>1. p.sub < B[k].range.limit
            BY <1>1, <1>2, <1>3, <2>1 DEF BehindInv
        <3> DEFINE h == B[k].range.limit
        <3>2. h \in Nat
            BY <1>2
        <3> HIDE DEF h
        <3>3. q.sub < h
            BY <1>1, <3>1, <3>2 DEF h
        <3> QED
            BY <1>2, <2>1, <3>3 DEF h
    <2>2. CASE r # q
        BY <1>1, <1>2, <1>3, <2>2 DEF BehindInv
    <2> QED
        BY <2>1, <2>2
<1>4. ASSUME NEW w \in M, NEW r \in Live(V, S), w.part = "window", w.id = r.id
      PROVE  w.bus = r.bus
    <2>1. CASE r = q
        <3>1. w \notin OtherClaims(C, B[n].id)
            BY <1>1, <1>4, <2>1 DEF OtherClaims
        <3> QED
            BY <1>1, <1>4, <2>1, <3>1
    <2>2. CASE r # q
        <3>1. r \in Live(R, S) /\ r # p /\ r \in R
            BY <1>1, <2>2 DEF Live
        <3>2. r.id # B[n].id
            BY <1>1, <3>1
        <3>3. w \in C
            BY <1>4, <3>2 DEF OtherClaims
        <3> QED
            BY <1>4, <3>1, <3>3 DEF BehindInv
    <2> QED
        BY <2>1, <2>2
<1> QED
    BY <1>3, <1>4 DEF BehindInv

\* The route of a bridge, when its range of numbers is cut.
IsRouteCut(B, R, S, n, q, V, e, u) ==
    \E p : p = OldRoute(B, n) /\ RouteCut(B, R, S, n, p, q, V, e) /\ q.sub = u.limit - 1

LEMMA CutByRange ==
    ASSUME NEW e \in Nat, NEW B, NEW C, NEW R, NEW S, AllInv(B, C, R, S, e), NEW n, n = Len(B), n > 1,
           NEW u, u = ppb_set_window_size(ppb_update_range(B[n].range, B[n].numbers), 1),
           NEW mem, NEW Z, Z = ppb_allocate_window(B[n - 1].numbers, u, mem),
           NEW q, q = Route(B[n].id, B[n - 1].bus, u), NEW V, V = OtherRoutes(R, B[n].id) \union {q}
    PROVE  IsRouteCut(B, R, S, n, q, V, e, u)
<1>1. NumbersClosed(B[n - 1].numbers, B[n].numbers, B[n].range, Z, u)
    BY CloseRange
<1>4. q = [id |-> B[n].id, bus |-> B[n - 1].bus, sec |-> u.base, sub |-> u.limit - 1]
    <2>1. BusTypes(B, e) /\ NumInv(B, R, S) /\ n \in 2 .. Len(B)
        BY BusFacts DEF AllInv
    <2>2. RangeOf(B, R, S, n, B[n].range)
        BY <2>1, RangeIs
    <2> DEFINE k == u.limit - 1
    <2>3. k \in 0 .. MaxBus
        <3> DEFINE a == B[n].range.base
                   h == B[n].range.limit
                   g == u.limit
        <3>1. a \in Nat /\ h \in Nat /\ h <= MaxBus + 1 /\ g \in Nat /\ a < g /\ g <= h
            BY <1>1, <2>2 DEF RangeOf, NumbersClosed
        <3> HIDE DEF a, h, g
        <3>2. MaxBus \in Nat
            BY Sizes
        <3>3. g - 1 \in 0 .. MaxBus
            BY ONLY <3>1, <3>2
        <3> QED
            BY <3>3 DEF g
    <2> HIDE DEF k
    <2>4. k % (MaxBus + 1) = k
        <3>1. MaxBus \in Nat
            BY Sizes
        <3> QED
            BY ONLY <2>3, <3>1
    <2> QED
        BY <2>4 DEF Route, k
<1>5. q.sub = u.limit - 1
    BY ONLY <1>4
<1> DEFINE p == OldRoute(B, n)
<1>6. p = OldRoute(B, n)
    OBVIOUS
<1> HIDE DEF p
<1>7. RouteCut(B, R, S, n, p, q, V, e)
    BY <1>1, <1>4, <1>6, CutRoute
<1> QED
    BY <1>5, <1>6, <1>7 DEF IsRouteCut

LEMMA PopStep ==
    ASSUME NEW e \in Nat, NEW B, NEW C, NEW R, NEW S, AllInv(B, C, R, S, e), NEW n, n = Len(B), n > 1,
           ~Unused(B[n], B[n].mem), NEW mem,
           NEW w, w = ppb_set_window_size(ppb_update_windows(B[n].window, B[n].mem), Granule),
           NEW u, u = ppb_set_window_size(ppb_update_range(B[n].range, B[n].numbers), 1),
           NEW Q, Q = ppb_allocate_window(B[n - 1].mem, w, mem),
           NEW Z, Z = ppb_allocate_window(B[n - 1].numbers, u, mem),
           NEW D, BusTypes(D, e), Popped(B, D, n, Q, Z),
           NEW W, W = Forwarded(B[n].id, B[n - 1].bus, w), NEW M, M = OtherClaims(C, B[n].id) \union W,
           NEW q, q = Route(B[n].id, B[n - 1].bus, u), NEW V, V = OtherRoutes(R, B[n].id) \union {q}
    PROVE  Kept(B, C, mem, D, M, V, S, e)
<1>1. PoolClosed(B[n - 1].mem, B[n].mem, B[n].window, Q, W, mem, B[n].id, B[n - 1].bus)
    BY CloseWindow
<1>2. NumbersClosed(B[n - 1].numbers, B[n].numbers, B[n].range, Z, u)
    BY CloseRange
<1>3. MemInv(D, M) /\ ClaimTypes(M, e) /\ (mem /\ LostInv(B, C) => LostInv(D, M))
    <2>1. KeptMem(B, C, mem, D, M, e)
        BY <1>1, PopMem
    <2> QED
        BY <2>1 DEF KeptMem
<1>4. PICK p : p = OldRoute(B, n) /\ RouteCut(B, R, S, n, p, q, V, e) /\ q.sub = u.limit - 1
    <2>1. IsRouteCut(B, R, S, n, q, V, e, u)
        BY CutByRange
    <2> QED
        BY <2>1 DEF IsRouteCut
<1>8. NumInv(D, V, S)
    BY <1>2, <1>4, PopNumbers
<1>9. ReachInv(M, V, S)
    BY <1>1, <1>3, <1>4, <1>8, PopReach
<1>10. AllInv(D, M, V, S, e)
    BY <1>3, <1>4, <1>8, <1>9 DEF AllInv, RouteCut
<1> QED
    BY <1>3, <1>10 DEF Kept

\* The bus above with what is given back to it.
Regained(b, Q, Z) == [b EXCEPT !.mem = Q, !.numbers = Z]

LEMMA DropTwo ==
    ASSUME NEW X, NEW B \in Seq(X), NEW n, n = Len(B), n > 1, NEW b \in X,
           NEW D, D = SubSeq(B, 1, n - 2) \o <<b>>
    PROVE  D \in Seq(X) /\ Len(D) = n - 1 /\ (\A k \in 1 .. n - 1 : D[k] = IF k = n - 1 THEN b ELSE B[k])
<1>1. n \in Nat /\ \A k \in 1 .. n : B[k] \in X
    BY LenProperties, ElementOfSeq
<1> DEFINE m == n - 2
           F == SubSeq(B, 1, m)
           s == <<b>>
<1>2. m \in Nat /\ m + 1 = n - 1 /\ m <= n /\ 1 - 1 = 0 /\ (m = 0 \/ 1 <= m)
    BY <1>1
<1> HIDE DEF m
<1>3. /\ F \in Seq(X)
      /\ Len(F) = IF 1 <= m THEN m - 1 + 1 ELSE 0
      /\ \A k \in 1 .. m - 1 + 1 : F[k] = B[1 + k - 1]
    <2>1. \A i \in 1 .. m : B[i] \in X
        BY <1>1, <1>2
    <2> QED
        BY <1>1, <1>2, <2>1, SubSeqProperties
<1>4. Len(F) = m /\ \A k \in 1 .. m : F[k] = B[k]
    <2>1. m - 1 + 1 = m /\ (~(1 <= m) => m = 0) /\ \A k \in 1 .. m : 1 + k - 1 = k
        BY <1>2
    <2> QED
        BY <1>3, <2>1
<1>5. s \in Seq(X) /\ Len(s) = 1 /\ s[1] = b
    OBVIOUS
<1>6. D = F \o s
    BY DEF m
<1> HIDE DEF F, s
<1>7. /\ D \in Seq(X) /\ Len(D) = m + 1
      /\ \A k \in 1 .. m + 1 : D[k] = IF k <= m THEN F[k] ELSE s[k - m]
    <2>1. /\ F \o s \in Seq(X)
          /\ Len(F \o s) = Len(F) + Len(s)
          /\ \A k \in 1 .. Len(F) + Len(s) : (F \o s)[k] = IF k <= Len(F) THEN F[k] ELSE s[k - Len(F)]
        BY <1>3, <1>5, ConcatProperties
    <2> QED
        BY <1>4, <1>5, <1>6, <2>1
<1>8. \A k \in 1 .. m + 1 : D[k] = IF k = m + 1 THEN b ELSE B[k]
    <2> SUFFICES ASSUME NEW k \in 1 .. m + 1
                 PROVE  D[k] = IF k = m + 1 THEN b ELSE B[k]
        OBVIOUS
    <2>1. CASE k = m + 1
        <3>1. ~(k <= m) /\ k - m = 1
            BY <1>2, <2>1
        <3> QED
            BY <1>5, <1>7, <2>1, <3>1
    <2>2. CASE k # m + 1
        <3>1. k <= m /\ k \in 1 .. m
            BY <1>2, <2>2
        <3> QED
            BY <1>4, <1>7, <2>2, <3>1
    <2> QED
        BY <2>1, <2>2
<1> QED
    BY <1>2, <1>7, <1>8

LEMMA LeaveStep ==
    ASSUME PciInv, damage' = 0, NEW mem \in BOOLEAN, LeaveBridge(mem)
    PROVE  SoundInv'
<1> DEFINE e == devices
           n == Len(buses)
           l == Last(buses)
           a == AssignAll(l, mem)
           f == [l EXCEPT !.mem = a.mem]
           B == OnLast(buses, f)
           C == claims \union a.claims
           o == buses[n - 1]
           w == ppb_set_window_size(ppb_update_windows(l.window, a.mem), Granule)
           u == ppb_set_window_size(ppb_update_range(l.range, l.numbers), 1)
           Q == ppb_allocate_window(o.mem, w, mem)
           Z == ppb_allocate_window(o.numbers, u, mem)
           b == Regained(o, Q, Z)
           D == SubSeq(buses, 1, n - 2) \o <<b>>
           W == Forwarded(l.id, o.bus, w)
           q == Route(l.id, o.bus, u)
<1>0. ~Unused(here, AssignAll(here, mem).mem) /\ SoundInv /\ failures \in Nat /\ devices \in 0 .. MaxDevices
    <2> DEFINE harm == Unused(here, AssignAll(here, mem).mem)
    <2>1. Harm(harm)
        BY DEF LeaveBridge
    <2>2. harm \in BOOLEAN
        BY DEF Unused
    <2> HIDE DEF harm
    <2>3. ~harm /\ SoundInv /\ failures \in Nat /\ devices \in 0 .. MaxDevices
        BY <2>1, <2>2, NoHarm
    <2> QED
        BY <2>3 DEF harm
<1>1. /\ e \in 0 .. MaxDevices /\ e \in Nat /\ e <= e /\ devices' = e /\ stranded' = stranded
      /\ AllInv(buses, claims, routes, stranded, e) /\ Memory(mem) /\ n > 1
      /\ BehindInv(buses, claims, routes, stranded) /\ abandoned' = abandoned
    BY <1>0, PciProbeAssumption DEF SoundInv, LeaveBridge
<1>2. ~Unused(l, a.mem)
    BY <1>0 DEF here
<1>3. /\ buses' = D
      /\ claims' = {c \in claims : ~(c.id = l.id /\ c.part = "window")} \union a.claims \union W
      /\ routes' = {r \in routes : r.id # l.id} \union {q}
    BY DEF LeaveBridge, here, Regained
<1>4. l = Last(buses) /\ n = Len(buses) /\ B = OnLast(buses, f) /\ o = buses[n - 1] /\ b = Regained(o, Q, Z)
      /\ D = SubSeq(buses, 1, n - 2) \o <<b>> /\ C = claims \union a.claims
      /\ w = ppb_set_window_size(ppb_update_windows(l.window, a.mem), Granule)
      /\ u = ppb_set_window_size(ppb_update_range(l.range, l.numbers), 1)
      /\ Q = ppb_allocate_window(o.mem, w, mem) /\ Z = ppb_allocate_window(o.numbers, u, mem)
      /\ W = Forwarded(l.id, o.bus, w) /\ q = Route(l.id, o.bus, u)
    OBVIOUS
<1>5. AssignedTo(buses, claims, mem, a, routes, stranded, e)
    <2>1. Len(Last(buses).todo) \in Nat
        BY <1>1, LastOf, TodoBars
    <2>2. Len(Last(buses).todo) \in 0 .. Len(Last(buses).todo)
        BY <2>1
    <2> QED
        BY <1>1, <2>2, AssignStep DEF AssignAll
<1> HIDE DEF e, n, l, a, f, B, C, o, w, u, Q, Z, b, D, W, q
<1>6. l \in BusSet(e) /\ BusTypes(buses, e) /\ n \in Nat /\ n \in 1 .. n
    BY <1>1, <1>4, LastOf, BusFacts DEF AllInv
<1>7. /\ Canon(a.mem)
      /\ \A c \in a.claims : c.part = "bar"
      /\ \A x \in BusSet(e) : SameBus(x, Last(buses)) /\ x.mem = a.mem =>
            Kept(buses, claims, mem, OnLast(buses, x), claims \union a.claims, routes, stranded, e)
    BY <1>5 DEF AssignedTo
<1>8. f \in BusSet(e) /\ SameBus(f, l) /\ f.mem = a.mem
    BY <1>1, <1>6, <1>7, BusChanged DEF SameBus, f
<1>9. Kept(buses, claims, mem, B, C, routes, stranded, e)
    BY <1>4, <1>7, <1>8
<1>10. AllInv(B, C, routes, stranded, e)
    BY <1>9 DEF Kept
<1>11. OnTop(buses, B) /\ B[n] = f /\ Len(B) = n
    BY <1>1, <1>4, <1>6, <1>8, TopBus
<1>12. \A k \in 1 .. n : /\ B[k].bus = buses[k].bus /\ B[k].id = buses[k].id
                         /\ B[k].window = buses[k].window /\ B[k].range = buses[k].range
                         /\ B[k].numbers = buses[k].numbers
                         /\ k # n => B[k].mem = buses[k].mem
    BY <1>4, <1>11 DEF OnTop, TopPool
<1>13. n - 1 \in 1 .. n /\ n - 1 # n /\ n - 1 \in 1 .. n - 1 /\ \A k \in 1 .. n - 1 : k \in 1 .. n /\ k # n
    BY <1>1, <1>6
<1>14. /\ B[n].mem = a.mem /\ B[n].window = l.window /\ B[n].range = l.range /\ B[n].numbers = l.numbers /\ B[n].id = l.id
       /\ B[n - 1].mem = o.mem /\ B[n - 1].numbers = o.numbers /\ B[n - 1].bus = o.bus
    BY <1>4, <1>8, <1>11, <1>12, <1>13 DEF SameBus
<1>15. ~Unused(B[n], B[n].mem)
    BY <1>2, <1>14 DEF Unused
<1>16. /\ w = ppb_set_window_size(ppb_update_windows(B[n].window, B[n].mem), Granule)
       /\ u = ppb_set_window_size(ppb_update_range(B[n].range, B[n].numbers), 1)
       /\ Q = ppb_allocate_window(B[n - 1].mem, w, mem)
       /\ Z = ppb_allocate_window(B[n - 1].numbers, u, mem)
       /\ W = Forwarded(B[n].id, B[n - 1].bus, w) /\ q = Route(B[n].id, B[n - 1].bus, u)
    BY <1>4, <1>14
<1>17. Canon(Q) /\ Canon(Z)
    <2>1. PoolClosed(B[n - 1].mem, B[n].mem, B[n].window, Q, W, mem, B[n].id, B[n - 1].bus)
        BY <1>1, <1>10, <1>11, <1>15, <1>16, CloseWindow
    <2>2. NumbersClosed(B[n - 1].numbers, B[n].numbers, B[n].range, Z, u)
        BY <1>1, <1>10, <1>11, <1>16, CloseRange
    <2> QED
        BY <2>1, <2>2 DEF PoolClosed, NumbersClosed
<1>18. o \in BusSet(e)
    BY <1>1, <1>4, <1>6, <1>13, BusFacts
<1>19. /\ b \in BusSet(e) /\ b.mem = Q /\ b.numbers = Z
       /\ b.bus = o.bus /\ b.id = o.id /\ b.window = o.window /\ b.range = o.range
    <2>1. Q \in Blocks /\ Z \in Blocks
        BY <1>17 DEF Canon
    <2> DEFINE g == [o EXCEPT !.mem = Q, !.numbers = Z]
    <2>2. g \in BusSet(e)
        BY <1>18, <2>1 DEF BusSet
    <2>3. /\ g.mem = Q /\ g.numbers = Z
          /\ g.bus = o.bus /\ g.id = o.id /\ g.window = o.window /\ g.range = o.range
        BY <1>18 DEF BusSet
    <2>4. b = g
        BY <1>4 DEF Regained
    <2> HIDE DEF g
    <2> QED
        BY <2>2, <2>3, <2>4
<1>20. D \in Seq(BusSet(e)) /\ Len(D) = n - 1 /\ \A k \in 1 .. n - 1 : D[k] = IF k = n - 1 THEN b ELSE buses[k]
    <2> DEFINE X == BusSet(e)
    <2>1. buses \in Seq(X) /\ b \in X
        BY <1>6, <1>19 DEF BusTypes
    <2> HIDE DEF X
    <2>2. D \in Seq(X) /\ Len(D) = n - 1 /\ \A k \in 1 .. n - 1 : D[k] = IF k = n - 1 THEN b ELSE buses[k]
        BY <1>1, <1>4, <2>1, DropTwo
    <2> QED
        BY <2>2 DEF X
<1>21. \A k \in 1 .. n - 1 : /\ D[k].bus = buses[k].bus /\ D[k].id = buses[k].id
                             /\ D[k].window = buses[k].window /\ D[k].range = buses[k].range
                             /\ k # n - 1 => D[k].mem = buses[k].mem /\ D[k].numbers = buses[k].numbers
    BY <1>4, <1>19, <1>20
<1>22. Popped(B, D, n, Q, Z)
    <2>1. D[n - 1].mem = Q /\ D[n - 1].numbers = Z
        BY <1>13, <1>19, <1>20
    <2> QED
        BY <1>11, <1>12, <1>13, <1>20, <1>21, <2>1 DEF Popped
<1>23. BusTypes(D, e)
    <2>1. \A j, k \in 1 .. n - 1 : j # k => D[j].id # D[k].id /\ D[j].bus # D[k].bus
        <3>1. \A j, k \in 1 .. n : j # k => buses[j].id # buses[k].id /\ buses[j].bus # buses[k].bus
            BY <1>4, <1>6 DEF BusTypes
        <3>2. \A k \in 1 .. n - 1 : k \in 1 .. n /\ D[k].id = buses[k].id /\ D[k].bus = buses[k].bus
            BY <1>13, <1>21
        <3> QED
            BY <3>1, <3>2
    <2>2. Len(D) > 0 /\ D[1].bus = 0
        <3>1. 1 \in 1 .. n - 1 /\ n - 1 > 0
            BY <1>1, <1>6
        <3>2. buses[1].bus = 0
            BY <1>6 DEF BusTypes
        <3> QED
            BY <1>20, <1>21, <3>1, <3>2
    <2> QED
        BY <1>20, <2>1, <2>2 DEF BusTypes
<1> DEFINE M == OtherClaims(C, B[n].id) \union W
           V == OtherRoutes(routes, B[n].id) \union {q}
<1>24. claims' = M
    <2>1. \A c \in a.claims : ~(c.id = l.id /\ c.part = "window")
        BY <1>7
    <2>2. OtherClaims(C, l.id) = {c \in claims : ~(c.id = l.id /\ c.part = "window")} \union a.claims
        BY <1>4, <2>1 DEF OtherClaims
    <2> QED
        BY <1>3, <1>14, <2>2
<1>25. routes' = V
    BY <1>3, <1>14 DEF OtherRoutes
<1> HIDE DEF M, V
<1>26. M = OtherClaims(C, B[n].id) \union W /\ V = OtherRoutes(routes, B[n].id) \union {q}
    BY DEF M, V
<1>27. Kept(B, C, mem, D, M, V, stranded, e)
    BY <1>1, <1>10, <1>11, <1>15, <1>16, <1>22, <1>23, <1>26, PopStep
<1>28. Kept(buses, claims, mem, buses', claims', routes', stranded', devices')
    BY <1>1, <1>3, <1>9, <1>24, <1>25, <1>27 DEF Kept
<1>29. BehindInv(buses', claims', routes', stranded')
    <2>1. BehindInv(B, C, routes, stranded)
        BY <1>1, <1>4, <1>7, <1>8, BehindTop
    <2>2. PICK p : RouteCut(B, routes, stranded, n, p, q, V, e)
        <3>1. IsRouteCut(B, routes, stranded, n, q, V, e, u)
            BY <1>1, <1>10, <1>11, <1>16, <1>26, CutByRange
        <3> QED
            BY <3>1 DEF IsRouteCut
    <2>3. \A k \in 2 .. n : B[k].range.limit \in Nat
        <3>1. BusTypes(B, e) /\ NumInv(B, routes, stranded)
            BY <1>10 DEF AllInv
        <3> SUFFICES ASSUME NEW k \in 2 .. n
                     PROVE  B[k].range.limit \in Nat
            OBVIOUS
        <3>2. RangeOf(B, routes, stranded, k, B[k].range)
            BY <1>1, <1>11, <3>1, RangeIs
        <3> QED
            BY <3>2 DEF RangeOf
    <2>4. \A c \in W : c.id = B[n].id /\ c.bus = B[n - 1].bus
        BY <1>16 DEF Forwarded
    <2>5. BehindInv(D, M, V, stranded)
        BY <1>1, <1>6, <1>11, <1>22, <1>26, <2>1, <2>2, <2>3, <2>4, BehindPop
    <2> QED
        BY <1>1, <1>3, <1>24, <1>25, <2>5
<1> QED
    BY <1>0, <1>1, <1>28, <1>29, SoundKept

-----------------------------------------------------------------------------
(* Bridges that are given up. *)

\* The last bus is given up, and with it what has a number behind it: T are the
\* bridges that are stranded then, M the claims that are left.
NumbersBehind(b) == b.range.base .. b.range.limit - 1

Abandoned(B, C, R, S, n, D, M, T) ==
    LET H == NumbersBehind(B[n]) IN
    /\ n = Len(B) /\ n > 1 /\ D = Front(B)
    /\ M = {c \in C : c.bus \notin H /\ ~(c.id = B[n].id /\ c.part = "window")}
    /\ T = S \union {r.id : r \in {q \in R : q.sec \in H}}

BusLeft(B, n, D) ==
    /\ n \in Nat /\ n > 1 /\ Len(B) = n /\ Len(D) = n - 1
    /\ \A k \in 1 .. n - 1 : D[k] = B[k] /\ k \in 1 .. n /\ k # n /\ (k < n - 1 => k + 1 \in 1 .. n - 1 /\ k < n)
    /\ \A k \in 2 .. n - 1 : k \in 2 .. n /\ k \in 1 .. n - 1 /\ k - 1 \in 1 .. n - 1
    /\ n - 1 \in 1 .. n - 1 /\ n - 1 + 1 = n /\ n - 1 \in 1 .. n /\ n \in 2 .. n /\ n \in 1 .. n /\ n - 1 < n
    /\ \A k \in 1 .. n - 1 : k = n - 1 \/ k < n - 1

LEMMA FrontLeft ==
    ASSUME NEW e \in Nat, NEW B, BusTypes(B, e), NEW n, n = Len(B), n > 1, NEW D, D = Front(B)
    PROVE  BusLeft(B, n, D) /\ BusTypes(D, e)
<1>1. B \in Seq(BusSet(e)) /\ n \in Nat
    BY BusFacts DEF BusTypes
<1> DEFINE X == BusSet(e)
<1> HIDE DEF X
<1>2. B \in Seq(X) /\ Len(B) > 0
    BY <1>1 DEF X
<1>3. D \in Seq(X) /\ Len(D) = n - 1 /\ \A k \in 1 .. n - 1 : D[k] = B[k]
    BY <1>2, FrontFacts
<1>4. BusLeft(B, n, D)
    BY <1>1, <1>3 DEF BusLeft
<1>5. /\ Len(D) > 0 /\ 1 \in 1 .. n - 1 /\ \A k \in 1 .. n - 1 : k \in 1 .. n
    BY <1>1, <1>3
<1>6. /\ B[1].bus = 0
      /\ \A j, k \in 1 .. n : j # k => B[j].id # B[k].id /\ B[j].bus # B[k].bus
    BY DEF BusTypes
<1>7. D[1].bus = 0 /\ \A j, k \in 1 .. n - 1 : j # k => D[j].id # D[k].id /\ D[j].bus # D[k].bus
    BY <1>3, <1>5, <1>6
<1> QED
    BY <1>3, <1>4, <1>5, <1>7 DEF BusTypes, X

\* What is live then: the numbers behind the bus are not in use, the buses that
\* are left are not behind it, and what is on one of those is neither.
LiveLeft(B, R, S, n, T) ==
    LET H == NumbersBehind(B[n]) IN
    /\ Live(R, T) = {r \in Live(R, S) : r.sec \notin H}
    /\ Used(R, T) = Used(R, S) \ H
    /\ \A r \in Live(R, T) : r.bus \notin H
    /\ B[n].id \in T /\ \A r \in Live(R, T) : r.id # B[n].id
    /\ \A k \in 1 .. n - 1 : B[k].bus \notin H
    /\ \A k \in 2 .. n - 1 : B[k].id \notin T
    /\ \A u \in H : B[n].range.base <= u /\ u < B[n].range.limit /\ u \in Addresses
    /\ \A u \in Addresses : B[n].range.base <= u /\ u < B[n].range.limit => u \in H

LEMMA WhatIsLive ==
    ASSUME NEW e \in Nat, NEW B, NEW C, NEW R, NEW S, AllInv(B, C, R, S, e), BehindInv(B, C, R, S),
           NEW n, NEW D, NEW M, NEW T, Abandoned(B, C, R, S, n, D, M, T), BusLeft(B, n, D)
    PROVE  LiveLeft(B, R, S, n, T)
<1> DEFINE H == NumbersBehind(B[n])
           v == B[n].range
<1>1. /\ BusTypes(B, e) /\ RouteTypes(R, S, e) /\ NumInv(B, R, S)
      /\ NumbersOK(B) /\ RangesOK(B, R, S) /\ UsedOK(B, R, S) /\ RoutesOK(B, R, S)
    BY DEF AllInv, NumInv
<1>2. T = S \union {r.id : r \in {q \in R : q.sec \in H}}
    BY DEF Abandoned
<1>3. n \in Nat /\ n > 1 /\ n = Len(B) /\ n \in 2 .. n
    BY DEF BusLeft
<1>4. RangeOf(B, R, S, n, v)
    BY <1>1, <1>3, RangeIs
<1>5. /\ v.base \in Nat /\ v.limit \in Nat /\ v.base > 0 /\ v.base < v.limit /\ v.limit <= MaxBus + 1
      /\ MaxBus \in Nat /\ MaxBus + 1 <= Top /\ Top \in Nat
      /\ \A x \in Addresses : v.base <= x /\ x < v.limit => InPool(B[n - 1].numbers, x)
      /\ [id |-> B[n].id, bus |-> B[n - 1].bus, sec |-> v.base, sub |-> v.limit - 1] \in R
    BY <1>4, Sizes DEF RangeOf
<1>6. /\ \A u \in H : v.base <= u /\ u < v.limit /\ u \in Addresses
      /\ \A u \in Addresses : v.base <= u /\ u < v.limit => u \in H
      /\ v.base \in H /\ 0 \notin H
    <2> DEFINE a == v.base
               h == v.limit
    <2>1. a \in Nat /\ h \in Nat /\ a > 0 /\ a < h /\ h <= Top /\ Top \in Nat
        BY <1>5
    <2>2. H = a .. h - 1
        BY DEF NumbersBehind
    <2> HIDE DEF a, h, H
    <2>3. /\ \A u \in H : a <= u /\ u < h /\ u \in 0 .. Top
          /\ \A u \in 0 .. Top : a <= u /\ u < h => u \in H
          /\ a \in H /\ 0 \notin H
        BY <2>1, <2>2
    <2> QED
        BY <2>3 DEF a, h, Addresses
<1> HIDE DEF H
<1>7. \A r, q \in R : r.id = q.id => r = q
    BY <1>1 DEF RouteTypes
<1>8. \A r \in R : r.id \in T <=> r.id \in S \/ r.sec \in H
    BY <1>2, <1>7
<1>9. Live(R, T) = {r \in Live(R, S) : r.sec \notin H}
    BY <1>8 DEF Live
<1>10. Used(R, T) = Used(R, S) \ H
    <2> DEFINE L == Live(R, S)
    <2> HIDE DEF L
    <2>1. {r.sec : r \in {q \in L : q.sec \notin H}} = {r.sec : r \in L} \ H
        OBVIOUS
    <2>2. {0} \ H = {0}
        BY <1>6
    <2> QED
        BY <1>9, <2>1, <2>2 DEF Used, L
<1>11. B[n].id \in T /\ \A r \in Live(R, T) : r.id # B[n].id
    <2> DEFINE p == [id |-> B[n].id, bus |-> B[n - 1].bus, sec |-> v.base, sub |-> v.limit - 1]
    <2>1. p \in R /\ p.id = B[n].id /\ p.sec = v.base
        BY <1>5
    <2> HIDE DEF p
    <2>2. p.id \in T
        BY <1>6, <1>8, <2>1
    <2> QED
        BY <2>1, <2>2 DEF Live
<1>12. \A u \in H : InPool(B[n - 1].numbers, u)
    BY <1>5, <1>6
<1>13. n - 1 \in 1 .. Len(B) /\ \A j \in 2 .. n - 1 : j \in 2 .. Len(B) /\ j \in 1 .. n - 1
    BY <1>3
<1>14. \A u \in H, j \in 2 .. n - 1 : B[j].range.base < u
    <2>1. \A u \in Addresses : InPool(B[n - 1].numbers, u) => \A j \in 2 .. n - 1 : B[j].range.base < u
        BY <1>1, <1>13 DEF NumbersOK
    <2> QED
        BY <1>6, <1>12, <2>1
<1>15. ASSUME NEW j \in 2 .. n - 1
       PROVE  B[j].bus \notin H /\ B[j].id \notin T
    <2>1. RangeOf(B, R, S, j, B[j].range)
        BY <1>1, <1>13, RangeIs
    <2> DEFINE p == [id |-> B[j].id, bus |-> B[j - 1].bus, sec |-> B[j].range.base, sub |-> B[j].range.limit - 1]
    <2>2. B[j].range.base = B[j].bus /\ B[j].bus \in Nat /\ B[j].id \notin S /\ p \in R
        BY <2>1 DEF RangeOf
    <2>3. p.id = B[j].id /\ p.sec = B[j].bus
        BY <2>2
    <2> HIDE DEF p
    <2>4. B[j].bus \notin H
        <3>1. \A u \in H : B[j].bus < u
            BY <1>14, <2>2
        <3> QED
            BY <2>2, <3>1
    <2> QED
        BY <1>8, <2>2, <2>3, <2>4
<1>16. \A k \in 1 .. n - 1 : B[k].bus \notin H
    <2>1. \A k \in 1 .. n - 1 : k = 1 \/ k \in 2 .. n - 1
        BY <1>3
    <2>2. B[1].bus = 0
        BY <1>1 DEF BusTypes
    <2> QED
        BY <1>6, <1>15, <2>1, <2>2
<1>17. ASSUME NEW r \in Live(R, T)
       PROVE  r.bus \notin H
    <2>1. r \in Live(R, S) /\ r.sec \notin H
        BY <1>9
    <2>2. r.bus \in Used(R, S)
        BY <1>1, <2>1 DEF RouteTypes
    <2> SUFFICES ASSUME r.bus \in H
                 PROVE  FALSE
        OBVIOUS
    <2>3. PICK p \in Live(R, S) : p.sec = r.bus
        BY <1>6, <2>2 DEF Used
    <2>4. p.sub < v.limit
        BY <1>3, <1>6, <2>3 DEF BehindInv
    <2>5. p.sec < r.sec /\ r.sub <= p.sub /\ r.sec <= r.sub
        BY <1>1, <2>1, <2>3 DEF RoutesOK, RouteTypes
    <2>6. p.sec \in 0 .. MaxBus /\ r.sec \in 0 .. MaxBus /\ r.sub \in 0 .. MaxBus /\ p.sub \in 0 .. MaxBus
        BY <1>1, <2>1 DEF RouteTypes, Live
    <2>7. v.base <= p.sec
        BY <1>6, <2>3
    <2>8. v.base <= r.sec /\ r.sec < v.limit /\ r.sec \in Addresses
        <3> DEFINE a == v.base
                   h == v.limit
        <3>1. a \in Nat /\ h \in Nat /\ a <= p.sec /\ p.sub < h
            BY <1>5, <2>4, <2>7
        <3> HIDE DEF a, h
        <3>2. a <= r.sec /\ r.sec < h /\ r.sec \in 0 .. Top
            BY <1>5, <2>5, <2>6, <3>1
        <3> QED
            BY <3>2 DEF a, h, Addresses
    <2> QED
        BY <1>6, <2>1, <2>8
<1> QED
    BY <1>6, <1>9, <1>10, <1>11, <1>15, <1>16, <1>17 DEF LiveLeft, H

\* What is left is sound: memory,
LEMMA MemLeft ==
    ASSUME NEW e \in Nat, NEW B, NEW C, NEW R, NEW S, AllInv(B, C, R, S, e),
           NEW n, NEW D, NEW M, NEW T, Abandoned(B, C, R, S, n, D, M, T), BusLeft(B, n, D), LiveLeft(B, R, S, n, T)
    PROVE  MemInv(D, M) /\ ClaimTypes(M, e)
<1> DEFINE H == NumbersBehind(B[n])
           N == OtherClaims(C, B[n].id)
<1>1. n = Len(B) /\ n > 1 /\ D = Front(B) /\ \A c : c \in M <=> c \in N /\ c.bus \notin H
    BY DEF Abandoned, OtherClaims
<1>2. N = OtherClaims(C, B[Len(B)].id)
    BY <1>1
<1>3. \A k \in 1 .. n - 1 : B[k].bus \notin H
    BY DEF LiveLeft
<1> HIDE DEF H, N
<1>4. /\ Len(D) = n - 1 /\ \A k \in 1 .. n - 1 : D[k] = B[k]
      /\ BusTypes(D, e) /\ ClaimTypes(N, e) /\ PoolsOK(D) /\ WindowsOK(D, N) /\ ClaimsOK(D, N)
    BY <1>1, <1>2, Dropped
<1>5. ClaimTypes(M, e)
    BY <1>1, <1>4 DEF ClaimTypes
<1>6. WindowsOK(D, M)
    <2> SUFFICES ASSUME NEW k \in 2 .. Len(D)
                 PROVE  /\ \A x \in Addresses :
                              D[k].window.base <= x /\ x < D[k].window.base + RoundUp(D[k].window.size, Granule) =>
                                  InPool(D[k - 1].mem, x)
                        /\ D[k].window.size > 0 => WindowClaim(D[k].id, D[k - 1].bus, D[k].window) \in M
                        /\ \A c \in M : c.id = D[k].id /\ c.part = "window" =>
                              D[k].window.size > 0 /\ c = WindowClaim(D[k].id, D[k - 1].bus, D[k].window)
        BY DEF WindowsOK
    <2>1. D[k - 1].bus \notin H
        BY <1>3, <1>4 DEF BusLeft
    <2> DEFINE c == WindowClaim(D[k].id, D[k - 1].bus, D[k].window)
    <2>2. c.bus = D[k - 1].bus
        BY DEF WindowClaim
    <2> HIDE DEF c
    <2>3. D[k].window.size > 0 => c \in M
        BY <1>1, <1>4, <2>1, <2>2 DEF WindowsOK, c
    <2> QED
        BY <1>1, <1>4, <2>3 DEF WindowsOK, c
<1>7. ClaimsOK(D, M)
    BY <1>1, <1>4 DEF ClaimsOK
<1> QED
    BY <1>4, <1>5, <1>6, <1>7 DEF MemInv

\* bus numbers,
LEMMA NumbersLeft ==
    ASSUME NEW e \in Nat, NEW B, NEW C, NEW R, NEW S, AllInv(B, C, R, S, e),
           NEW n, NEW D, NEW M, NEW T, Abandoned(B, C, R, S, n, D, M, T), BusLeft(B, n, D), LiveLeft(B, R, S, n, T)
    PROVE  RouteTypes(R, T, e) /\ NumInv(D, R, T)
<1> DEFINE H == NumbersBehind(B[n])
<1>1. /\ RouteTypes(R, S, e) /\ NumbersOK(B) /\ RangesOK(B, R, S) /\ UsedOK(B, R, S) /\ RoutesOK(B, R, S)
    BY DEF AllInv, NumInv
<1>2. /\ n = Len(B) /\ n > 1 /\ Len(D) = n - 1 /\ T = S \union {r.id : r \in {q \in R : q.sec \in H}}
      /\ \A k \in 1 .. n - 1 : D[k] = B[k] /\ k \in 1 .. n
      /\ \A k \in 1 .. n - 1 : k < n - 1 => k + 1 \in 1 .. n - 1 /\ k < n
      /\ \A k \in 2 .. n - 1 : k \in 2 .. n /\ k \in 1 .. n - 1 /\ k - 1 \in 1 .. n - 1
      /\ \A k \in 1 .. n - 1 : k = n - 1 \/ k < n - 1
      /\ n - 1 \in 1 .. n /\ n - 1 < n /\ n - 1 + 1 = n
    BY DEF Abandoned, BusLeft
<1>3. /\ Live(R, T) = {r \in Live(R, S) : r.sec \notin H}
      /\ Used(R, T) = Used(R, S) \ H
      /\ \A r \in Live(R, T) : r.bus \notin H /\ r.id # B[n].id
      /\ \A k \in 2 .. n - 1 : B[k].id \notin T
      /\ \A u \in Addresses : B[n].range.base <= u /\ u < B[n].range.limit => u \in H
    BY DEF LiveLeft
<1> HIDE DEF H
<1>4. RouteTypes(R, T, e)
    <2>1. T \subseteq 1 .. MaxDevices /\ \A s \in T : s <= e
        BY <1>1, <1>2 DEF RouteTypes
    <2>2. \A r \in Live(R, T) : r.sec > 0 /\ r.sec <= r.sub /\ r.bus \in Used(R, T)
        BY <1>1, <1>3 DEF RouteTypes
    <2>3. \A r, q \in Live(R, T) : r.sec = q.sec => r = q
        BY <1>1, <1>3 DEF RouteTypes
    <2> QED
        BY <1>1, <2>1, <2>2, <2>3 DEF RouteTypes
<1>5. NumbersOK(D)
    <2> SUFFICES ASSUME NEW k \in 1 .. n - 1
                 PROVE  /\ Canon(D[k].numbers)
                        /\ \A x \in Addresses : InPool(D[k].numbers, x) =>
                              /\ x > 0 /\ x <= MaxBus
                              /\ \A j \in 2 .. k : D[j].range.base < x /\ x < D[j].range.limit
        BY <1>2 DEF NumbersOK
    <2>1. \A j \in 2 .. k : D[j] = B[j]
        <3>1. \A j \in 2 .. k : j \in 1 .. n - 1
            BY DEF BusLeft
        <3> QED
            BY <1>2, <3>1
    <2>2. D[k] = B[k] /\ k \in 1 .. n
        BY <1>2
    <2> QED
        BY <1>1, <1>2, <2>1, <2>2 DEF NumbersOK
<1>6. RangesOK(D, R, T)
    <2> SUFFICES ASSUME NEW k \in 2 .. n - 1
                 PROVE  LET v == D[k].range IN
                        /\ v \in Window /\ v.base = D[k].bus /\ v.base > 0 /\ v.base < v.limit
                        /\ v.limit = v.base + v.size /\ v.limit <= MaxBus + 1
                        /\ \A x \in Addresses : v.base <= x /\ x < v.limit => InPool(D[k - 1].numbers, x)
                        /\ D[k].id \notin T
                        /\ [id |-> D[k].id, bus |-> D[k - 1].bus, sec |-> v.base, sub |-> v.limit - 1] \in R
        BY <1>2 DEF RangesOK
    <2>1. D[k] = B[k] /\ D[k - 1] = B[k - 1] /\ k \in 2 .. Len(B)
        BY <1>2
    <2>2. B[k].id \notin T
        BY <1>3
    <2> QED
        BY <1>1, <2>1, <2>2 DEF RangesOK
<1>7. UsedOK(D, R, T)
    <2> SUFFICES ASSUME NEW k \in 1 .. n - 1, NEW u \in Used(R, T), InPool(D[k].numbers, u)
                 PROVE  k < n - 1 /\ D[k + 1].range.base <= u /\ u < D[k + 1].range.limit
        BY <1>2 DEF UsedOK
    <2>1. u \in Used(R, S) /\ u \notin H
        BY <1>3
    <2>2. /\ k \in 1 .. Len(B) /\ InPool(B[k].numbers, u)
        BY <1>2
    <2>3. B[k + 1].range.base <= u /\ u < B[k + 1].range.limit
        BY <1>1, <2>1, <2>2 DEF UsedOK
    <2>4. u \in Addresses
        <3>1. u \in 0 .. MaxBus
            BY <1>1, <2>1, PciProbeAssumption DEF Used, Live, RouteTypes
        <3> QED
            BY <3>1, Sizes DEF Addresses
    <2>5. k # n - 1
        <3> SUFFICES ASSUME k = n - 1
                     PROVE  FALSE
            OBVIOUS
        <3>1. k + 1 = n
            BY <1>2
        <3> QED
            BY <1>3, <2>1, <2>3, <2>4, <3>1
    <2>6. k < n - 1 /\ D[k + 1] = B[k + 1]
        BY <1>2, <2>5
    <2> QED
        BY <2>3, <2>6
<1>8. RoutesOK(D, R, T)
    <2>1. ASSUME NEW k \in 1 .. n - 1, NEW q \in Live(R, T),
                 q.bus = D[k].bus, ~(k < n - 1 /\ q.id = D[k + 1].id)
          PROVE  /\ \A x \in Addresses : q.sec <= x /\ x <= q.sub => ~InPool(D[k].numbers, x)
                 /\ k > 1 => D[k].range.base < q.sec /\ q.sub < D[k].range.limit
        <3>1. q \in Live(R, S) /\ D[k] = B[k] /\ k \in 1 .. Len(B) /\ q.id # B[n].id
            BY <1>2, <1>3
        <3>2. ~(k < Len(B) /\ q.id = B[k + 1].id)
            <4>1. CASE k = n - 1
                <5>1. k + 1 = n
                    BY <1>2, <4>1
                <5> QED
                    BY <3>1, <5>1
            <4>2. CASE k < n - 1
                BY <1>2, <2>1, <4>2
            <4> QED
                BY <1>2, <4>1, <4>2
        <3> QED
            BY <1>1, <2>1, <3>1, <3>2 DEF RoutesOK
    <2>2. \A r, q \in Live(R, T) :
              /\ r.bus = q.bus /\ r # q => r.sub < q.sec \/ q.sub < r.sec
              /\ q.bus = r.sec => r.sec < q.sec /\ q.sub <= r.sub
        BY <1>1, <1>3 DEF RoutesOK
    <2> QED
        BY <1>2, <2>1, <2>2 DEF RoutesOK
<1> QED
    BY <1>4, <1>5, <1>6, <1>7, <1>8 DEF NumInv

\* and what can be reached.
LEMMA AllLeft ==
    ASSUME NEW e \in Nat, NEW B, NEW C, NEW R, NEW S, AllInv(B, C, R, S, e), BehindInv(B, C, R, S),
           NEW n, NEW D, NEW M, NEW T, Abandoned(B, C, R, S, n, D, M, T)
    PROVE  AllInv(D, M, R, T, e) /\ BehindInv(D, M, R, T) /\ B[n].id \in T
<1> DEFINE H == NumbersBehind(B[n])
<1>1. BusTypes(B, e) /\ ReachInv(C, R, S)
    BY DEF AllInv
<1>2. BusLeft(B, n, D) /\ BusTypes(D, e)
    BY <1>1, FrontLeft DEF Abandoned
<1>3. LiveLeft(B, R, S, n, T)
    BY <1>2, WhatIsLive
<1>4. MemInv(D, M) /\ ClaimTypes(M, e)
    BY <1>2, <1>3, MemLeft
<1>5. RouteTypes(R, T, e) /\ NumInv(D, R, T)
    BY <1>2, <1>3, NumbersLeft
<1>6. /\ Live(R, T) = {r \in Live(R, S) : r.sec \notin H}
      /\ Used(R, T) = Used(R, S) \ H /\ B[n].id \in T
      /\ \A r \in Live(R, T) : r.bus \notin H /\ r.id # B[n].id
    BY <1>3 DEF LiveLeft
<1>7. M = {c \in C : c.bus \notin H /\ ~(c.id = B[n].id /\ c.part = "window")}
    BY DEF Abandoned
<1> HIDE DEF H
<1>8. ReachInv(M, R, T)
    <2> SUFFICES ASSUME NEW c \in M
                 PROVE  /\ c.bus \in Used(R, T)
                        /\ \A r \in Live(R, T) : c.bus = r.sec =>
                              \E w \in M : /\ w.id = r.id /\ w.part = "window"
                                           /\ w.lo <= c.lo /\ c.hi <= w.hi
        BY DEF ReachInv
    <2>1. c \in C /\ c.bus \notin H
        BY <1>7
    <2>2. c.bus \in Used(R, T)
        BY <1>1, <1>6, <2>1 DEF ReachInv
    <2>3. ASSUME NEW r \in Live(R, T), c.bus = r.sec
          PROVE  \E w \in M : w.id = r.id /\ w.part = "window" /\ w.lo <= c.lo /\ c.hi <= w.hi
        <3>1. r \in Live(R, S) /\ r.bus \notin H /\ r.id # B[n].id
            BY <1>6
        <3>2. PICK w \in C : w.id = r.id /\ w.part = "window" /\ w.lo <= c.lo /\ c.hi <= w.hi
            BY <1>1, <2>1, <2>3, <3>1 DEF ReachInv
        <3>3. w.bus = r.bus
            BY <3>1, <3>2 DEF BehindInv
        <3>4. w \in M
            BY <1>7, <3>1, <3>2, <3>3
        <3> QED
            BY <3>2, <3>4
    <2> QED
        BY <2>2, <2>3
<1>9. BehindInv(D, M, R, T)
    <2>1. \A k \in 2 .. Len(D) : k \in 2 .. Len(B) /\ D[k] = B[k]
        BY <1>2 DEF BusLeft
    <2> QED
        BY <1>6, <1>7, <2>1 DEF BehindInv
<1> QED
    BY <1>2, <1>4, <1>5, <1>6, <1>8, <1>9 DEF AllInv

\* The route of a bridge that is stranded is of no importance.
LEMMA RouteReplaced ==
    ASSUME NEW e \in Nat, NEW B, NEW C, NEW R, NEW S, AllInv(B, C, R, S, e), BehindInv(B, C, R, S),
           NEW i \in S, \A k \in 2 .. Len(B) : B[k].id # i,
           NEW q \in [id : 1 .. MaxDevices, bus : 0 .. MaxBus, sec : 0 .. MaxBus, sub : 0 .. MaxBus], q.id = i
    PROVE  AllInv(B, C, OtherRoutes(R, i) \union {q}, S, e) /\ BehindInv(B, C, OtherRoutes(R, i) \union {q}, S)
<1> DEFINE V == OtherRoutes(R, i) \union {q}
<1>1. /\ BusTypes(B, e) /\ ClaimTypes(C, e) /\ RouteTypes(R, S, e) /\ ReachInv(C, R, S)
      /\ MemInv(B, C) /\ NumbersOK(B) /\ RangesOK(B, R, S) /\ UsedOK(B, R, S) /\ RoutesOK(B, R, S)
    BY DEF AllInv, NumInv
<1>2. Live(V, S) = Live(R, S)
    BY DEF Live, OtherRoutes
<1>3. Used(V, S) = Used(R, S)
    BY <1>2 DEF Used
<1>4. \A r : r \in V <=> (r \in R /\ r.id # i) \/ r = q
    BY DEF OtherRoutes
<1> HIDE DEF V
<1>5. RouteTypes(V, S, e)
    <2>1. V \subseteq [id : 1 .. MaxDevices, bus : 0 .. MaxBus, sec : 0 .. MaxBus, sub : 0 .. MaxBus]
        BY <1>1, <1>4 DEF RouteTypes
    <2>2. S \subseteq 1 .. MaxDevices /\ (\A r \in V : r.id <= e) /\ \A s \in S : s <= e
        BY <1>1, <1>4 DEF RouteTypes
    <2>3. \A r, p \in V : r.id = p.id => r = p
        BY <1>1, <1>4 DEF RouteTypes
    <2>4. /\ \A r \in Live(R, S) : r.sec > 0 /\ r.sec <= r.sub /\ r.bus \in Used(R, S)
          /\ \A r, p \in Live(R, S) : r.sec = p.sec => r = p
        BY <1>1 DEF RouteTypes
    <2> QED
        BY <1>2, <1>3, <2>1, <2>2, <2>3, <2>4 DEF RouteTypes
<1>6. RangesOK(B, V, S)
    <2> SUFFICES ASSUME NEW k \in 2 .. Len(B)
                 PROVE  LET v == B[k].range IN
                        /\ v \in Window /\ v.base = B[k].bus /\ v.base > 0 /\ v.base < v.limit
                        /\ v.limit = v.base + v.size /\ v.limit <= MaxBus + 1
                        /\ \A x \in Addresses : v.base <= x /\ x < v.limit => InPool(B[k - 1].numbers, x)
                        /\ B[k].id \notin S
                        /\ [id |-> B[k].id, bus |-> B[k - 1].bus, sec |-> v.base, sub |-> v.limit - 1] \in V
        BY DEF RangesOK
    <2> DEFINE p == [id |-> B[k].id, bus |-> B[k - 1].bus, sec |-> B[k].range.base, sub |-> B[k].range.limit - 1]
    <2>1. p \in R
        BY <1>1 DEF RangesOK
    <2>2. p.id = B[k].id
        OBVIOUS
    <2> HIDE DEF p
    <2>3. p \in V
        BY <1>4, <2>1, <2>2
    <2> QED
        BY <1>1, <2>3 DEF RangesOK, p
<1>7. UsedOK(B, V, S)
    BY <1>1, <1>3 DEF UsedOK
<1>8. RoutesOK(B, V, S)
    BY <1>1, <1>2 DEF RoutesOK
<1>9. ReachInv(C, V, S)
    BY <1>1, <1>2, <1>3 DEF ReachInv
<1>10. NumInv(B, V, S)
    BY <1>1, <1>6, <1>7, <1>8 DEF NumInv
<1>11. AllInv(B, C, V, S, e)
    BY <1>1, <1>5, <1>9, <1>10 DEF AllInv
<1>12. BehindInv(B, C, V, S)
    BY <1>2 DEF BehindInv
<1> QED
    BY <1>11, <1>12 DEF V

\* What the BARs of a bus get that is given up, and what its bridge forwards when
\* its window is cut already.
LEMMA GivenUpTypes ==
    ASSUME NEW e \in 0 .. MaxDevices, NEW B, NEW C, NEW R, NEW S, AllInv(B, C, R, S, e), NEW n, n = Len(B), n > 1,
           NEW l, l = Last(B), NEW j \in 0 .. Len(l.todo), NEW mem, NEW a, a = AssignFirst(l, j, mem),
           NEW bus, bus = B[n - 1].bus
    PROVE  /\ a.claims \subseteq ClaimSet
           /\ ~Unused(l, a.mem) =>
                 Forwarded(l.id, bus, ppb_set_window_size(ppb_update_windows(l.window, a.mem), Granule)) \subseteq ClaimSet
<1>1. e \in Nat /\ e <= e
    BY PciProbeAssumption
<1>2. l \in BusSet(e) /\ BusTypes(B, e) /\ n \in Nat /\ n \in 1 .. n /\ n - 1 \in 1 .. n /\ n - 1 # n
    BY <1>1, LastOf, BusFacts DEF AllInv
<1>3. AssignedTo(B, C, mem, a, R, S, e)
    <2> DEFINE x == AssignFirst(Last(B), j, mem)
    <2>1. j \in 0 .. Len(Last(B).todo) /\ a = x
        OBVIOUS
    <2>2. AssignedTo(B, C, mem, x, R, S, e)
        BY <1>1, <2>1, AssignStep
    <2> HIDE DEF x
    <2> QED
        BY <2>1, <2>2
<1> DEFINE f == [l EXCEPT !.mem = a.mem]
           D == OnLast(B, f)
           M == C \union a.claims
<1>4. f \in BusSet(e) /\ SameBus(f, l) /\ f.mem = a.mem
    <2>1. Canon(a.mem)
        BY <1>3 DEF AssignedTo
    <2> QED
        BY <1>1, <1>2, <2>1, BusChanged DEF SameBus
<1> HIDE DEF f
<1>5. AllInv(D, M, R, S, e)
    <2>1. Kept(B, C, mem, OnLast(B, f), C \union a.claims, R, S, e)
        BY <1>3, <1>4 DEF AssignedTo
    <2> QED
        BY <2>1 DEF Kept
<1>6. OnTop(B, D) /\ D[n] = f /\ Len(D) = n
    BY <1>1, <1>2, <1>4, TopBus
<1>7. D[n - 1].bus = bus
    BY <1>2, <1>6 DEF OnTop, TopPool
<1>8. a.claims \subseteq ClaimSet
    BY <1>5 DEF AllInv, ClaimTypes
<1> DEFINE u == ppb_set_window_size(ppb_update_windows(l.window, a.mem), Granule)
<1>9. /\ u = ppb_set_window_size(ppb_update_windows(D[n].window, D[n].mem), Granule)
      /\ D[n].id = l.id /\ (Unused(D[n], D[n].mem) <=> Unused(l, a.mem))
    BY <1>4, <1>6 DEF SameBus, Unused
<1> HIDE DEF u, D, M
<1>10. ASSUME ~Unused(l, a.mem)
       PROVE  Forwarded(l.id, bus, u) \subseteq ClaimSet
    <2> DEFINE Q == ppb_allocate_window(D[n - 1].mem, u, mem)
               W == Forwarded(D[n].id, D[n - 1].bus, u)
    <2>1. Q = ppb_allocate_window(D[n - 1].mem, u, mem) /\ W = Forwarded(D[n].id, D[n - 1].bus, u)
        OBVIOUS
    <2>2. W = Forwarded(l.id, bus, u) /\ ~Unused(D[n], D[n].mem) /\ n = Len(D) /\ n > 1
        BY <1>6, <1>7, <1>9, <1>10
    <2> HIDE DEF Q, W
    <2>3. PoolClosed(D[n - 1].mem, D[n].mem, D[n].window, Q, W, mem, D[n].id, D[n - 1].bus)
        BY <1>1, <1>5, <1>9, <2>1, <2>2, CloseWindow
    <2>4. \A c \in W : c \in ClaimSet
        BY <2>3 DEF PoolClosed
    <2> QED
        BY <2>2, <2>4
<1> QED
    BY <1>8, <1>10 DEF u

LEMMA CutRouteType ==
    ASSUME NEW e \in Nat, NEW B, NEW C, NEW R, NEW S, AllInv(B, C, R, S, e), NEW n, n = Len(B), n > 1,
           NEW q, q = Route(B[n].id, B[n - 1].bus,
                            ppb_set_window_size(ppb_update_range(B[n].range, B[n].numbers), 1))
    PROVE  q \in [id : 1 .. MaxDevices, bus : 0 .. MaxBus, sec : 0 .. MaxBus, sub : 0 .. MaxBus] /\ q.id = B[n].id
<1> DEFINE u == ppb_set_window_size(ppb_update_range(B[n].range, B[n].numbers), 1)
           mem == TRUE
           Z == ppb_allocate_window(B[n - 1].numbers, u, mem)
           V == OtherRoutes(R, B[n].id) \union {q}
<1>1. /\ u = ppb_set_window_size(ppb_update_range(B[n].range, B[n].numbers), 1)
      /\ Z = ppb_allocate_window(B[n - 1].numbers, u, mem)
      /\ V = OtherRoutes(R, B[n].id) \union {q} /\ q \in V
      /\ q = Route(B[n].id, B[n - 1].bus, u)
    OBVIOUS
<1>2. q.id = B[n].id
    BY DEF Route
<1> HIDE DEF u, mem, Z, V
<1>3. IsRouteCut(B, R, S, n, q, V, e, u)
    BY <1>1, CutByRange
<1>4. RouteTypes(V, S, e)
    BY <1>3 DEF IsRouteCut, RouteCut
<1> QED
    BY <1>1, <1>2, <1>4 DEF RouteTypes

LEMMA AbandonStep ==
    ASSUME PciInv, damage' = 0, NEW mem \in BOOLEAN, NEW j \in 0 .. Len(here.todo), AbandonBridge(j, mem)
    PROVE  SoundInv'
<1> DEFINE e == devices
           n == Len(buses)
           l == Last(buses)
           a == AssignFirst(l, j, mem)
           bus == buses[n - 1].bus
           H == NumbersBehind(buses[n])
           lost == {c \in claims : c.bus \in H \/ (c.id = buses[n].id /\ c.part = "window")}
           cut == ppb_set_window_size(ppb_update_windows(l.window, a.mem), Granule)
           q == Route(l.id, bus, ppb_set_window_size(ppb_update_range(l.range, l.numbers), 1))
           D == Front(buses)
           M == claims \ lost
           T == stranded \union {r.id : r \in {p \in routes : p.sec \in H}}
           G == a.claims \union Forwarded(l.id, bus, cut)
<1>1. l = buses[n] /\ n > 1
    BY DEF Last, AbandonBridge
<1>2. buses' = D /\ claims' = M /\ stranded' = T /\ devices' = e /\ Memory(FALSE)
    BY <1>1 DEF AbandonBridge, here, NumbersBehind
<1>3. \/ /\ abandoned' = abandoned \union lost \union a.claims
         /\ Harm(FALSE)
         /\ routes' = routes
      \/ /\ abandoned' = abandoned \union G \union {c \in lost : c.bus \in H}
         /\ routes' = OtherRoutes(routes, l.id) \union {q}
         /\ Harm(Unused(l, a.mem))
    BY <1>1 DEF AbandonBridge, here, NumbersBehind, OtherRoutes
<1>4. \/ Harm(FALSE) /\ routes' = routes /\ abandoned' \subseteq abandoned \union claims \union a.claims
      \/ /\ Harm(Unused(l, a.mem)) /\ routes' = OtherRoutes(routes, l.id) \union {q}
         /\ abandoned' \subseteq abandoned \union claims \union G
    BY <1>3
<1>5. l = Last(buses) /\ n = Len(buses) /\ a = AssignFirst(l, j, mem) /\ bus = buses[n - 1].bus
      /\ cut = ppb_set_window_size(ppb_update_windows(l.window, a.mem), Granule)
      /\ q = Route(l.id, bus, ppb_set_window_size(ppb_update_range(l.range, l.numbers), 1))
      /\ j \in 0 .. Len(l.todo)
    BY DEF here
<1>6. n = Len(buses) /\ n > 1 => Abandoned(buses, claims, routes, stranded, n, D, M, T)
    BY DEF Abandoned
<1>7. G = a.claims \union Forwarded(l.id, bus, cut)
    OBVIOUS
<1>8. Unused(l, a.mem) \in BOOLEAN
    BY DEF Unused
<1> HIDE DEF n, l, a, bus, H, lost, cut, q, D, M, T, G
<1>9. /\ SoundInv /\ failures \in Nat /\ e \in 0 .. MaxDevices
      /\ routes' = routes \/ (routes' = OtherRoutes(routes, l.id) \union {q} /\ ~Unused(l, a.mem))
    <2> DEFINE harm == Unused(l, a.mem)
    <2>1. Harm(FALSE) => SoundInv /\ failures \in Nat /\ devices \in 0 .. MaxDevices
        BY NoHarm
    <2>2. harm \in BOOLEAN
        BY <1>8
    <2> HIDE DEF harm
    <2>3. Harm(harm) => ~harm /\ SoundInv /\ failures \in Nat /\ devices \in 0 .. MaxDevices
        BY <2>2, NoHarm
    <2> QED
        BY <1>4, <2>1, <2>3 DEF harm
<1>10. /\ AllInv(buses, claims, routes, stranded, e) /\ BehindInv(buses, claims, routes, stranded)
       /\ abandoned \subseteq ClaimSet /\ e \in Nat
    BY <1>9, PciProbeAssumption DEF SoundInv
<1> HIDE DEF e
<1>11. /\ a.claims \subseteq ClaimSet
       /\ ~Unused(l, a.mem) => Forwarded(l.id, bus, cut) \subseteq ClaimSet
    <2>1. /\ a.claims \subseteq ClaimSet
          /\ ~Unused(l, a.mem) =>
                Forwarded(l.id, bus, ppb_set_window_size(ppb_update_windows(l.window, a.mem), Granule)) \subseteq ClaimSet
        BY <1>1, <1>5, <1>9, <1>10, GivenUpTypes
    <2> QED
        BY <1>5, <2>1
<1>12. claims \subseteq ClaimSet
    BY <1>10 DEF AllInv, ClaimTypes
<1>13. abandoned' \subseteq ClaimSet
    <2>1. CASE Harm(FALSE) /\ routes' = routes /\ abandoned' \subseteq abandoned \union claims \union a.claims
        BY <1>10, <1>11, <1>12, <2>1
    <2>2. CASE Harm(Unused(l, a.mem)) /\ abandoned' \subseteq abandoned \union claims \union G
        <3> DEFINE harm == Unused(l, a.mem)
        <3>1. harm \in BOOLEAN /\ Harm(harm)
            BY <1>8, <2>2
        <3> HIDE DEF harm
        <3>2. ~harm
            BY <3>1, NoHarm
        <3>3. Forwarded(l.id, bus, cut) \subseteq ClaimSet
            BY <1>11, <3>2 DEF harm
        <3> QED
            BY <1>7, <1>10, <1>11, <1>12, <2>2, <3>3
    <2> QED
        BY <1>4, <2>1, <2>2
<1>14. AllInv(D, M, routes, T, e) /\ BehindInv(D, M, routes, T) /\ buses[n].id \in T
    <2>1. Abandoned(buses, claims, routes, stranded, n, D, M, T)
        BY <1>1, <1>5, <1>6
    <2> QED
        BY <1>10, <2>1, AllLeft
<1>15. AllInv(D, M, routes', T, e) /\ BehindInv(D, M, routes', T)
    <2>1. CASE routes' = routes
        BY <1>14, <2>1
    <2>2. CASE routes' = OtherRoutes(routes, l.id) \union {q}
        <3> DEFINE i == l.id
        <3>1. i \in T
            BY <1>1, <1>14
        <3>2. q = Route(buses[n].id, buses[n - 1].bus,
                        ppb_set_window_size(ppb_update_range(buses[n].range, buses[n].numbers), 1))
            BY <1>1, <1>5
        <3>3. q \in [id : 1 .. MaxDevices, bus : 0 .. MaxBus, sec : 0 .. MaxBus, sub : 0 .. MaxBus] /\ q.id = i
            <4>1. /\ q \in [id : 1 .. MaxDevices, bus : 0 .. MaxBus, sec : 0 .. MaxBus, sub : 0 .. MaxBus]
                  /\ q.id = buses[n].id
                BY <1>1, <1>5, <1>10, <3>2, CutRouteType
            <4> QED
                BY <1>1, <4>1
        <3>4. \A k \in 2 .. Len(D) : D[k].id # i
            <4>1. Abandoned(buses, claims, routes, stranded, n, D, M, T) /\ BusTypes(buses, e)
                BY <1>1, <1>5, <1>6, <1>10 DEF AllInv
            <4>2. BusLeft(buses, n, D)
                BY <1>10, <4>1, FrontLeft DEF Abandoned
            <4>3. \A k, m \in 1 .. n : k # m => buses[k].id # buses[m].id
                BY <1>5, <4>1 DEF BusTypes
            <4> QED
                BY <1>1, <4>2, <4>3 DEF BusLeft
        <3>5. routes' = OtherRoutes(routes, i) \union {q}
            BY <2>2
        <3> HIDE DEF i
        <3> DEFINE V == OtherRoutes(routes, i) \union {q}
        <3>6. AllInv(D, M, V, T, e) /\ BehindInv(D, M, V, T)
            BY <1>10, <1>14, <3>1, <3>3, <3>4, RouteReplaced
        <3> HIDE DEF V
        <3>7. V = routes'
            BY <3>5 DEF V
        <3> QED
            BY <3>6, <3>7
    <2> QED
        BY <1>9, <2>1, <2>2
<1>16. failures' # 0
    BY <1>2, <1>9 DEF Memory
<1>17. AllInv(buses', claims', routes', stranded', devices') /\ BehindInv(buses', claims', routes', stranded')
    BY <1>2, <1>15
<1> QED
    BY <1>13, <1>16, <1>17 DEF SoundInv

-----------------------------------------------------------------------------
(* The invariant holds, and the properties follow from it. *)

LEMMA InitialBus == BusTypes(<<HostBus>>, 0) /\ Canon(HostBus.numbers) /\ Canon(HostBus.mem)
                    /\ \A x \in Addresses : InPool(HostBus.numbers, x) => x > 0 /\ x <= MaxBus
<1> DEFINE h == HostBus
           n == <<Block(1, MaxBus)>>
<1>1. /\ Block(1, MaxBus) \in PoolBlock /\ Limit(Block(1, MaxBus)) = MaxBus + 1
      /\ \A x : Holds(Block(1, MaxBus), x) <=> Inside(x, 1, MaxBus + 1)
    <2>1. 1 \in Nat /\ MaxBus + 1 \in Nat /\ 1 < MaxBus + 1 /\ MaxBus + 1 <= Top /\ MaxBus + 1 - 1 = MaxBus
        BY Sizes
    <2> DEFINE g == MaxBus + 1
               l == 1
    <2>2. l \in Nat /\ g \in Nat /\ l < g /\ g <= Top
        BY <2>1
    <2> HIDE DEF g, l
    <2>3. /\ Block(l, g - l) \in PoolBlock /\ Limit(Block(l, g - l)) = g
          /\ \A x : Holds(Block(l, g - l), x) <=> Inside(x, l, g)
        BY <2>2, BlockFacts
    <2>4. g - l = MaxBus
        BY Sizes DEF g, l
    <2>5. /\ Block(l, MaxBus) \in PoolBlock /\ Limit(Block(l, MaxBus)) = g
          /\ \A x : Holds(Block(l, MaxBus), x) <=> Inside(x, l, g)
        BY <2>3, <2>4
    <2> QED
        BY <2>5 DEF g, l
<1> DEFINE k == Block(1, MaxBus)
<1>2. k \in PoolBlock /\ Limit(k) <= Top
    BY <1>1, Sizes
<1> HIDE DEF k
<1>3. Canon(<<k>>) /\ \A x : InPool(<<k>>, x) <=> Holds(k, x)
    BY <1>2, Single
<1>4. Canon(n) /\ \A x \in Addresses : InPool(n, x) => x > 0 /\ x <= MaxBus
    <2>1. \A x \in Addresses : Inside(x, 1, MaxBus + 1) => x > 0 /\ x <= MaxBus
        BY Sizes DEF Inside, Addresses
    <2> QED
        BY <1>1, <1>3, <2>1 DEF k
<1>5. Canon(MemPool)
    BY PoolsFit
<1> HIDE DEF n
<1>6. h = [bus |-> 0, id |-> 0, mem |-> MemPool, numbers |-> n, window |-> NoWindow, range |-> NoWindow,
           todo |-> <<>>]
    BY DEF HostBus, n
<1>7. h \in BusSet(0) /\ h.bus = 0 /\ h.mem = MemPool /\ h.numbers = n
    <2>1. 0 \in 0 .. MaxBus /\ 0 \in 0 .. 0
        BY Sizes
    <2>2. MemPool \in Blocks /\ n \in Blocks
        BY <1>4, <1>5 DEF Canon
    <2>3. NoWindow \in Window
        BY Sizes DEF NoWindow, Window
    <2> DEFINE X == Seq([id : 1 .. 0, size : BarSizes])
    <2>4. <<>> \in X
        OBVIOUS
    <2> HIDE DEF X, h
    <2>5. h \in [bus : 0 .. MaxBus, id : 0 .. 0, mem : Blocks, numbers : Blocks,
              window : Window, range : Window, todo : X]
        BY ONLY <1>6, <2>1, <2>2, <2>3, <2>4
    <2> QED
        BY <1>6, <2>5 DEF BusSet, X
<1> HIDE DEF h
<1>8. BusTypes(<<h>>, 0)
    <2>1. <<h>> \in Seq(BusSet(0)) /\ Len(<<h>>) = 1 /\ <<h>>[1] = h
        BY <1>7
    <2> DEFINE B == <<h>>
    <2> HIDE DEF B
    <2>2. B \in Seq(BusSet(0)) /\ Len(B) = 1 /\ B[1] = h
        BY <2>1 DEF B
    <2>3. BusTypes(B, 0)
        BY <1>7, <2>2 DEF BusTypes
    <2> QED
        BY <2>3 DEF B
<1> QED
    BY <1>4, <1>5, <1>7, <1>8 DEF h

LEMMA PciInvInit == PciInit => PciInv
<1> SUFFICES ASSUME PciInit
             PROVE  PciInv
    OBVIOUS
<1> DEFINE B == buses
<1>1. /\ B = <<HostBus>> /\ claims = {} /\ routes = {} /\ devices = 0 /\ stranded = {}
      /\ abandoned = {} /\ failures = 0 /\ damage = 0
    BY DEF PciInit
<1>2. /\ BusTypes(B, 0) /\ Len(B) = 1 /\ B[1] = HostBus /\ Canon(B[1].numbers) /\ Canon(B[1].mem)
      /\ \A x \in Addresses : InPool(B[1].numbers, x) => x > 0 /\ x <= MaxBus
    BY <1>1, InitialBus
<1>3. HostBus.mem = MemPool
    BY DEF HostBus
<1> HIDE DEF B
<1>4. (\A k \in 1 .. Len(B) : k = 1) /\ (\A k \in 2 .. Len(B) : FALSE) /\ \A k : k \in 2 .. 1 => FALSE
    BY <1>2
<1>5. ClaimTypes({}, 0)
    BY DEF ClaimTypes
<1>6. Live({}, {}) = {} /\ Used({}, {}) = {0}
    BY DEF Live, Used
<1>7. RouteTypes({}, {}, 0)
    BY <1>6 DEF RouteTypes
<1>8. MemInv(B, {})
    <2>1. PoolsOK(B)
        BY <1>2, <1>4 DEF PoolsOK
    <2>2. WindowsOK(B, {})
        BY <1>4 DEF WindowsOK
    <2>3. ClaimsOK(B, {})
        BY DEF ClaimsOK
    <2> QED
        BY <2>1, <2>2, <2>3 DEF MemInv
<1>9. NumInv(B, {}, {})
    <2>1. NumbersOK(B)
        BY <1>2, <1>4 DEF NumbersOK
    <2>2. RangesOK(B, {}, {})
        BY <1>4 DEF RangesOK
    <2>3. UsedOK(B, {}, {})
        <3>1. ~InPool(B[1].numbers, 0)
            <4>1. 0 \in Addresses
                BY Sizes DEF Addresses
            <4> QED
                BY <1>2, <4>1
        <3> QED
            BY <1>4, <1>6, <3>1 DEF UsedOK
    <2>4. RoutesOK(B, {}, {})
        BY <1>6 DEF RoutesOK
    <2> QED
        BY <2>1, <2>2, <2>3, <2>4 DEF NumInv
<1>10. ReachInv({}, {}, {})
    BY DEF ReachInv
<1>11. LostInv(B, {})
    BY <1>2, <1>3 DEF LostInv
<1>12. AllInv(B, {}, {}, {}, 0)
    BY <1>2, <1>5, <1>7, <1>8, <1>9, <1>10 DEF AllInv
<1>13. BehindInv(B, {}, {}, {})
    BY <1>6 DEF BehindInv
<1>14. SoundInv
    BY <1>1, <1>11, <1>12, <1>13 DEF SoundInv, B
<1> QED
    BY <1>1, <1>14, PciProbeAssumption DEF PciInv

\* What is typed after damage, too.
Counted ==
    /\ devices' = devices \/ (devices < MaxDevices /\ devices' = devices + 1) \/ devices' = MaxDevices
    /\ \E well : Memory(well)
    /\ damage' = damage \/ \E harm : Harm(harm)

LEMMA CountersNext ==
    ASSUME PciInv, PciNext
    PROVE  devices' \in 0 .. MaxDevices /\ failures' \in 0 .. MaxFailures /\ damage' \in 0 .. MaxDamage
<1>1. /\ devices \in 0 .. MaxDevices /\ failures \in 0 .. MaxFailures /\ damage \in 0 .. MaxDamage
      /\ MaxDevices \in Nat /\ MaxFailures \in Nat /\ MaxDamage \in Nat
    BY PciProbeAssumption DEF PciInv
<1>2. ASSUME NEW mem \in BOOLEAN, NEW size \in BarSizes, NEW rom \in RomSizes, NEW by \in Assigners,
             ProbeDevice(size, rom, by, mem)
      PROVE  Counted
    BY <1>2 DEF ProbeDevice, Counted
<1>3. ASSUME NEW mem \in BOOLEAN, NEW bar \in BarSizes \union {0}, EnterBridge(bar, mem)
      PROVE  Counted
    BY <1>3 DEF EnterBridge, Counted
<1>4. ASSUME NEW mem \in BOOLEAN, LeaveBridge(mem)
      PROVE  Counted
    BY <1>4 DEF LeaveBridge, Counted
<1>5. ASSUME NEW mem \in BOOLEAN, NEW n \in 0 .. Len(here.todo), AbandonBridge(n, mem)
      PROVE  Counted
    BY <1>5 DEF AbandonBridge, Counted
<1>6. ASSUME NEW mem \in BOOLEAN, NEW n \in 0 .. Len(here.todo), Finish(n, mem)
      PROVE  Counted
    BY <1>6 DEF Finish, Counted
<1>7. Counted
    BY <1>2, <1>3, <1>4, <1>5, <1>6 DEF PciNext
<1> QED
    BY <1>1, <1>7 DEF Counted, Memory, Harm

LEMMA PciInvNext ==
    ASSUME PciInv, [PciNext]_pciVars
    PROVE  PciInv'
<1>1. CASE UNCHANGED pciVars
    BY <1>1 DEF pciVars, PciInv, SoundInv
<1>2. CASE PciNext
    <2>1. devices' \in 0 .. MaxDevices /\ failures' \in 0 .. MaxFailures /\ damage' \in 0 .. MaxDamage
        BY <1>2, CountersNext
    <2>2. ASSUME damage' = 0
          PROVE  SoundInv'
        <3>1. ASSUME NEW mem \in BOOLEAN, NEW size \in BarSizes, NEW rom \in RomSizes, NEW by \in Assigners,
                     ProbeDevice(size, rom, by, mem)
              PROVE  SoundInv'
            BY <2>2, <3>1, DeviceStep
        <3>2. ASSUME NEW mem \in BOOLEAN, NEW bar \in BarSizes \union {0}, EnterBridge(bar, mem)
              PROVE  SoundInv'
            BY <2>2, <3>2, EnterStep
        <3>3. ASSUME NEW mem \in BOOLEAN, LeaveBridge(mem)
              PROVE  SoundInv'
            BY <2>2, <3>3, LeaveStep
        <3>4. ASSUME NEW mem \in BOOLEAN, NEW n \in 0 .. Len(here.todo), AbandonBridge(n, mem)
              PROVE  SoundInv'
            BY <2>2, <3>4, AbandonStep
        <3>5. ASSUME NEW mem \in BOOLEAN, NEW n \in 0 .. Len(here.todo), Finish(n, mem)
              PROVE  SoundInv'
            BY <2>2, <3>5, FinishStep
        <3> QED
            BY <1>2, <3>1, <3>2, <3>3, <3>4, <3>5 DEF PciNext
    <2> QED
        BY <2>1, <2>2 DEF PciInv
<1> QED
    BY <1>1, <1>2

LEMMA PciInvariance == PciSpec => []PciInv
<1>1. PciInit => PciInv
    BY PciInvInit
<1>2. PciInv /\ [PciNext]_pciVars => PciInv'
    BY PciInvNext
<1> QED
    BY <1>1, <1>2, PTL DEF PciSpec

\* No two devices on a bus answer to the same address, the windows of bridges
\* included, at any time while the buses are probed: pci_allocate_mem32 gives
\* nothing away twice, and ppb_update_windows leaves in the pool what is cut off.
THEOREM ConflictFree == PciSpec => []NoConflict
<1>1. PciInv => NoConflict
    <2> SUFFICES ASSUME PciInv, damage = 0, NEW c \in claims, NEW d \in claims, c.bus = d.bus, c # d
                 PROVE  Span(c) \cap Span(d) = {}
        BY DEF NoConflict, ConflictFreeIn
    <2>1. ClaimsOK(buses, claims) /\ ClaimTypes(claims, devices)
        BY DEF PciInv, SoundInv, AllInv, MemInv
    <2>2. c.hi < d.lo \/ d.hi < c.lo
        BY <2>1 DEF ClaimsOK
    <2>3. c.lo \in Nat /\ c.hi \in Nat /\ d.lo \in Nat /\ d.hi \in Nat
        BY <2>1, ClaimFacts DEF ClaimTypes
    <2> QED
        BY <2>2, <2>3 DEF Span
<1> QED
    BY <1>1, PciInvariance, PTL

\* The routes of the bridges nest, and all that has an address behind a bridge
\* is in its window: ppb_update_range and ppb_update_windows cut off nothing
\* that is used behind the bridge.
THEOREM EverythingReachable == PciSpec => []Reachable
<1>1. PciInv => Reachable
    <2> SUFFICES ASSUME PciInv, damage = 0
                 PROVE  Reachable
        BY DEF Reachable
    <2>1. /\ ReachInv(claims, routes, stranded) /\ ClaimTypes(claims, devices)
          /\ RoutesOK(buses, routes, stranded) /\ RouteTypes(routes, stranded, devices)
        BY DEF PciInv, SoundInv, AllInv, NumInv
    <2>2. BusesNest
        <3>1. {x \in routes : x.id \notin stranded} = Live(routes, stranded)
            BY DEF Live
        <3> DEFINE L == Live(routes, stranded)
        <3>2. /\ \A r, q \in L :
                    /\ r.bus = q.bus /\ r # q => r.sub < q.sec \/ q.sub < r.sec
                    /\ q.bus = r.sec => r.sec < q.sec /\ q.sub <= r.sub
              /\ \A r \in L : r.sec <= r.sub
            BY <2>1 DEF RoutesOK, RouteTypes
        <3> HIDE DEF L
        <3> QED
            BY <3>1, <3>2 DEF BusesNest, L
    <2>3. ASSUME NEW c \in claims, NEW r \in routes, r.id \notin stranded, c.bus = r.sec
          PROVE  \E w \in claims : w.id = r.id /\ w.part = "window" /\ Span(c) \subseteq Span(w)
        <3>1. r \in Live(routes, stranded)
            BY <2>3 DEF Live
        <3>2. PICK w \in claims : w.id = r.id /\ w.part = "window" /\ w.lo <= c.lo /\ c.hi <= w.hi
            BY <2>1, <2>3, <3>1 DEF ReachInv
        <3>3. c.lo \in Nat /\ c.hi \in Nat /\ w.lo \in Nat /\ w.hi \in Nat
            BY <2>1, ClaimFacts DEF ClaimTypes
        <3>4. Span(c) \subseteq Span(w)
            BY <3>2, <3>3 DEF Span
        <3> QED
            BY <3>2, <3>4
    <2> QED
        BY <2>2, <2>3 DEF Reachable
<1> QED
    BY <1>1, PciInvariance, PTL

\* The blocks of a pool are apart and free, and the types hold: a block that is
\* given back, cut from a window or left over from one (pci_free_block,
\* pci_allocate_fixed_block) never has an address that is in use.
THEOREM PoolsAreFree == PciSpec => []PoolIsFree
<1>1. PciInv => PoolIsFree
    <2>5. PciInv /\ damage # 0 => PoolIsFree
        BY DEF PciInv, PoolIsFree, PciTypeOK
    <2> SUFFICES ASSUME PciInv, damage = 0
                 PROVE  PoolIsFree
        BY <2>5
    <2>1. /\ BusTypes(buses, devices) /\ ClaimTypes(claims, devices)
          /\ RouteTypes(routes, stranded, devices)
          /\ PoolsOK(buses) /\ ClaimsOK(buses, claims)
          /\ abandoned \subseteq ClaimSet
          /\ devices \in 0 .. MaxDevices /\ failures \in 0 .. MaxFailures /\ damage \in 0 .. MaxDamage
        BY DEF PciInv, SoundInv, AllInv, MemInv
    <2>2. DOMAIN buses = 1 .. Len(buses)
        BY <2>1 DEF BusTypes
    <2>3. PciTypeOK
        <3>1. ASSUME NEW i \in DOMAIN buses
              PROVE  /\ buses[i].mem \in Blocks /\ buses[i].numbers \in Blocks
                     /\ buses[i].window \in Window /\ buses[i].range \in Window
                     /\ buses[i].todo \in Seq([id : 1 .. MaxDevices, size : BarSizes])
                     /\ buses[i].bus \in 0 .. MaxBus /\ buses[i].id \in 0 .. MaxDevices
            <4>1. buses[i] \in BusSet(devices)
                BY <2>1, <2>2, <3>1 DEF BusTypes
            <4>2. 0 .. devices \subseteq 0 .. MaxDevices /\ 1 .. devices \subseteq 1 .. MaxDevices
                BY <2>1, PciProbeAssumption
            <4> DEFINE X == [id : 1 .. devices, size : BarSizes]
                       Y == [id : 1 .. MaxDevices, size : BarSizes]
            <4>3. X \subseteq Y
                BY <4>2
            <4>4. buses[i].todo \in Seq(X)
                BY <4>1 DEF BusSet
            <4> HIDE DEF X, Y
            <4>5. buses[i].todo \in Seq(Y)
                BY <4>3, <4>4
            <4> QED
                BY <4>1, <4>2, <4>5 DEF BusSet, Y
        <3> QED
            BY <2>1, <3>1 DEF PciTypeOK, ClaimTypes, RouteTypes, ClaimSet
    <2>4. ASSUME NEW k \in DOMAIN buses
          PROVE  LET pool == buses[k].mem IN
                 /\ \A i, j \in DOMAIN pool : i < j => Limit(pool[i]) <= pool[j].base
                 /\ \A c \in claims :
                       c.bus = buses[k].bus
                           /\ ~(k < Len(buses) /\ c.id = buses[k + 1].id /\ c.part = "window") =>
                       Span(c) \cap Covered(pool) = {}
        <3> DEFINE pool == buses[k].mem
        <3>1. Canon(pool)
            BY <2>1, <2>2 DEF PoolsOK
        <3>2. \A i, j \in DOMAIN pool : i < j => Limit(pool[i]) <= pool[j].base
            <4> HIDE DEF pool
            <4>1. ASSUME NEW i \in DOMAIN pool, NEW j \in DOMAIN pool, i < j
                  PROVE  Limit(pool[i]) <= pool[j].base
                <5>1. i \in 1 .. Len(pool) /\ j \in 1 .. Len(pool)
                    BY <3>1, <4>1, CanonFacts
                <5>2. Limit(pool[i]) < pool[j].base /\ Limit(pool[i]) \in Nat /\ pool[j].base \in Nat
                    BY <3>1, <4>1, <5>1, CanonFacts
                <5> QED
                    BY <5>2
            <4> QED
                BY <4>1
        <3>3. ASSUME NEW c \in claims, c.bus = buses[k].bus,
                     ~(k < Len(buses) /\ c.id = buses[k + 1].id /\ c.part = "window")
              PROVE  Span(c) \cap Covered(pool) = {}
            <4>1. ~Ahead(buses, k, c)
                BY <3>3 DEF Ahead
            <4>2. \A x \in Addresses : c.lo <= x /\ x <= c.hi => ~InPool(pool, x)
                BY <2>1, <2>2, <3>3, <4>1 DEF ClaimsOK
            <4>3. c.lo \in 0 .. Top /\ c.hi \in 0 .. Top
                BY <2>1 DEF ClaimTypes, ClaimSet
            <4>4. Span(c) \subseteq Addresses /\ \A x \in Span(c) : c.lo <= x /\ x <= c.hi
                BY <4>3, PciAddressAssumption DEF Span, Addresses
            <4> HIDE DEF pool
            <4>5. Covered(pool) = {x \in Addresses : InPool(pool, x)}
                BY <3>1, CoveredIs
            <4> QED
                BY <4>2, <4>4, <4>5
        <3> QED
            BY <3>2, <3>3
    <2> QED
        BY <2>3, <2>4 DEF PoolIsFree
<1> QED
    BY <1>1, PciInvariance, PTL

\* What a ROM or a window takes from the pool of the host bridge comes back, or
\* something on its bus has it: no address is lost unless malloc() fails.
THEOREM NoAddressIsLost == PciSpec => []NothingLost
<1>1. PciInv => NothingLost
    <2> SUFFICES ASSUME PciInv, damage = 0, Len(buses) = 1, failures = 0,
                        NEW x \in Covered(MemPool), x \notin Covered(here.mem)
                 PROVE  \E c \in claims : c.bus = 0 /\ x \in Span(c)
        BY DEF NothingLost
    <2>1. /\ BusTypes(buses, devices) /\ ClaimTypes(claims, devices)
          /\ PoolsOK(buses) /\ LostInv(buses, claims)
        BY DEF PciInv, SoundInv, AllInv, MemInv
    <2>2. here = buses[1]
        BY <2>1 DEF here, Last, BusTypes
    <2>3. Canon(MemPool) /\ Canon(here.mem)
        <3>1. 1 \in 1 .. Len(buses)
            OBVIOUS
        <3> QED
            BY <2>1, <2>2, <3>1, PoolsFit DEF PoolsOK
    <2>4. InPool(MemPool, x) /\ x \in Addresses
        BY <2>3, CoveredIs
    <2>5. ~InPool(here.mem, x)
        BY <2>3, <2>4, CoveredIs
    <2>6. PICK c \in claims : c.bus = 0 /\ c.lo <= x /\ x <= c.hi
        BY <2>1, <2>2, <2>4, <2>5 DEF LostInv
    <2>7. c.lo \in Nat /\ c.hi \in Nat
        BY <2>1, ClaimFacts DEF ClaimTypes
    <2> QED
        BY <2>4, <2>6, <2>7 DEF Span, Addresses
<1> QED
    BY <1>1, PciInvariance, PTL
=============================================================================
