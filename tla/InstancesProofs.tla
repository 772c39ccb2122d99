-------------------------- MODULE InstancesProofs --------------------------
(***************************************************************************)
(* What is proved of Instances for every device tree, every set of paths   *)
(* and any number of instances and calls, whichever methods fail.          *)
(* All of it holds until a caller closes the instance below which it makes *)
(* a node (misused); each theorem says which mishaps it leaves out.        *)
(***************************************************************************)
EXTENDS Instances, SequenceTheorems, FiniteSetTheorems, TLAPS

\* Nodes, interposers and the two helper packages are different things, and no
\* node is above itself.
ASSUME ProperTree ==
    /\ {None, Deblocker, DiskLabel} \cap (Packages \union Interposers) = {}
    /\ None \notin {Deblocker, DiskLabel}
    /\ Interposers \cap Packages = {}
    /\ \A path \in Paths : path \in Seq(Range(path))
    /\ IsFiniteSet(Packages)
    /\ \E depth \in [Packages -> 0 .. Cardinality(Packages)] :
          \A p \in Packages \ {Root} : depth[ParentOf[p]] < depth[p]

Names == UNION {Range(path) : path \in Paths}

-----------------------------------------------------------------------------
(* The inductive invariant. *)

Helper(r) == r.pkg \in {Deblocker, DiskLabel}
\* Opened and not deleted, and nobody's helper.
Good(I) == {i \in 1 .. Len(I) : I[i].live /\ I[i].phase = "open" /\ ~Helper(I[i])}

HelperOf(I, j, i) == /\ Helper(I[j]) /\ I[j].live /\ I[j].phase = "open"
                     /\ I[j].parent = i

\* What an instance knows of other instances: its parent is older; its helpers,
\* both or none, came right after it.
Entry(I, i) ==
    /\ I[i].parent \in 0 .. i - 1
    /\ I[i].parent # 0 => ~Helper(I[I[i].parent])
    /\ \/ I[i].deblocker = 0 /\ I[i].disklabel = 0
       \/ /\ I[i].deblocker = i + 1 /\ I[i].disklabel = i + 2
          /\ i \in Good(I) /\ I[i].pkg \in Disks
          /\ i + 2 <= Len(I)
          /\ HelperOf(I, i + 1, i) /\ HelperOf(I, i + 2, i)
    /\ Helper(I[i]) =>
          /\ I[i].parent # 0
          /\ I[i].live /\ I[i].phase = "open" /\ I[I[i].parent].live =>
                i \in {I[I[i].parent].deblocker, I[I[i].parent].disklabel}

Shape == \A i \in 1 .. Len(insts) : Entry(insts, i)

Building == call.pc \in {"open", "interpose", "descend", "chain", "last", "done"}
Undoing == call.pc \in {"clean", "unwind"}
Quiet == call.pc \in {"idle", "close"}

\* Where the chains begin that belong to the call.
Tops ==
    (IF Building \/ call.pc = "unwind" THEN {call.parent} ELSE {})
        \union (IF Building \/ call.pc \in {"clean", "close"} THEN {call.inst} ELSE {})

Calls == [pc : {"idle", "open", "interpose", "descend", "chain", "last", "done",
                "clean", "unwind", "close"},
          next : {"idle", "descend", "chain", "done"}, context : {"open", "exec"},
          path : Seq(Names), parent : Nat, inst : Nat, chain : Seq(Packages),
          saveinst : Nat, savepkg : Active]

Skipping == call.pc = "chain" \/ (call.pc = "interpose" /\ call.next = "chain")

CallTyped ==
    /\ call \in Calls
    /\ ipos \in [pkg : Interposers \union {None}, by : Nat]
    /\ prompt \in [inst : Nat, pkg : Active]
    /\ {call.inst, call.parent, ipos.by} \subseteq 0 .. Len(insts)
    /\ {call.saveinst, currinst} \subseteq 0 .. Len(insts) \union {InitInst}
    /\ Building => currpkg \in Packages \union {None}
    /\ handles \subseteq 1 .. Len(insts)
    /\ call.pc = "idle" => call = Idle
    /\ call.pc = "interpose" => call.next # "idle"
    /\ call.pc \in {"descend", "interpose", "done"} => call.parent # 0
    /\ Building /\ call.pc \notin {"open", "last"} /\ ~Skipping => call.inst = call.parent
    /\ Skipping => call.path # <<>> /\ Head(call.path) \in Packages

\* Chains belong to one ihandle or to the call, and are whole.
ChainsOK ==
    /\ \A h \in handles : Chain(insts, h) \subseteq Good(insts)
    /\ \A g, h \in handles : g # h => Chain(insts, g) \cap Chain(insts, h) = {}
    /\ \A t \in Tops : /\ \A h \in handles : Chain(insts, t) \cap Chain(insts, h) = {}
                       /\ Chain(insts, t) \subseteq Good(insts) \union
                             (IF call.pc = "clean" THEN {call.inst} ELSE {})
    /\ call.pc = "clean" /\ call.inst # 0 =>
          insts[call.inst].live /\ ~Helper(insts[call.inst])

\* What my-self is, and will be when the call returns.
SelfOK ==
    /\ Quiet => currinst \in Good(insts) \union {0, InitInst}
    /\ ~Quiet => /\ call.saveinst \in Good(insts) \union {0, InitInst}
                 /\ \A t \in Tops : call.saveinst \notin Chain(insts, t)
    /\ call.pc \in {"open", "last"} =>
          currinst = IF call.parent = 0 THEN call.saveinst ELSE call.parent
    /\ call.pc \in {"descend", "interpose", "chain"} /\ call.parent # 0 =>
          currinst = call.parent

PromptOK ==
    mishap # "memory" =>
    /\ call.pc = "idle" => /\ prompt = [inst |-> currinst, pkg |-> currpkg]
                           /\ currinst \in handles \union {0, InitInst}
    /\ ~Quiet => /\ prompt = [inst |-> call.saveinst, pkg |-> call.savepkg]
                 /\ call.saveinst \in handles \union {0, InitInst}
    /\ call.pc = "close" =>
          /\ prompt = [inst |-> IF currinst \in handles \union {InitInst} THEN currinst ELSE 0,
                       pkg |-> call.savepkg]
          /\ currinst \in handles \union {0, InitInst} \union Chain(insts, call.inst)

\* Every interposer is on top of the instance that asked for it.
Asked(I) == \A i \in 1 .. Len(I) : I[i].by # 0 => I[i].parent = I[i].by

IposOK ==
    mishap # "interpose" =>
    /\ IF call.pc = "interpose" THEN ipos.by = call.parent ELSE ipos = NoInterposer
    /\ Asked(insts)

\* Nothing is open on top of instance t but its helpers.
Bare(I, t) == \A j \in 1 .. Len(I) : I[j].live /\ ~Helper(I[j]) => I[j].parent # t

\* Nothing has two instances on top of it.
Unbranched(I) == \A i, j \in 1 .. Len(I) :
    /\ I[i].live /\ I[j].live /\ ~Helper(I[i]) /\ ~Helper(I[j])
    /\ I[i].parent = I[j].parent /\ I[i].parent # 0
    => i = j

\* Where no node that a path skips fails, chains are not branched.
LineOK ==
    mishap \notin {"chain", "memory"} =>
    /\ Unbranched(insts)
    /\ \A h \in handles : Bare(insts, h)
    /\ (Building \/ call.pc = "unwind") /\ call.parent # 0 => Bare(insts, call.parent)
    /\ call.pc \in {"clean", "close"} /\ call.inst # 0 => Bare(insts, call.inst)
    /\ call.pc = "chain" => call.parent # 0
    /\ Building => Chain(insts, call.inst) \subseteq Chain(insts, call.parent)

\* What is open is on a chain that begins in S, or a helper of something live.
Owned(I, S) == \A i \in 1 .. Len(I) : I[i].phase = "open" =>
    /\ I[i].live
    /\ IF Helper(I[i]) THEN I[I[i].parent].live ELSE \E t \in S : i \in Chain(I, t)

\* Where a path names nodes, nothing is open that does not belong to anybody.
OwnedOK ==
    mishap \in {"none", "interpose"} =>
    /\ Owned(insts, handles \union Tops)
    /\ call.pc = "clean" /\ call.inst # 0 => insts[call.inst].phase # "open"

Nodes(I, t) == {i \in Chain(I, t) : I[i].pkg \in Packages}
NodePkgs(I, t) == {I[i].pkg : i \in Nodes(I, t)}
\* The nodes on a chain are in the order of the tree, and end with package p.
Ordered(I, t) == \A i, j \in Nodes(I, t) : i < j => I[i].pkg \in Range(Above[I[j].pkg])
DownTo(I, t, p) == /\ NodePkgs(I, t) = {p} \union Range(Above[p])
                   /\ \E i \in Nodes(I, t) : I[i].pkg = p /\ \A j \in Nodes(I, t) : j <= i

AncestorsOK ==
    mishap \notin {"chain", "memory"} =>
    /\ \A h \in handles : Ordered(insts, h) /\ \E p \in Packages : DownTo(insts, h, p)
    /\ Building =>
          /\ currpkg \in Packages /\ Ordered(insts, call.parent)
          /\ IF call.pc \in {"open", "last"}
             THEN NodePkgs(insts, call.parent) = Range(Above[currpkg])
             ELSE DownTo(insts, call.parent, currpkg)
    /\ Skipping => Found /\ call.chain = Skipped(currpkg, Head(call.path))

\* A node is made on top of an instance that a caller has, or on top of nothing.
NodeOK == node.parent \in handles \union {0}

InstInv == /\ InstTypeOK /\ CallTyped /\ Shape /\ ChainsOK /\ SelfOK /\ PromptOK /\ NodeOK
           /\ IposOK /\ LineOK /\ OwnedOK /\ AncestorsOK
-----------------------------------------------------------------------------
(* Chains. *)

\* A non-empty set of naturals has a least element: intervals that start at 0
\* are finite, and the strict subset ordering of finite sets is well founded.
LEMMA Least ==
    ASSUME NEW T, T \subseteq Nat, T # {}
    PROVE  \E m \in T : \A k \in T : m <= k
<1> DEFINE R == StrictSubsetOrdering(Nat)
           F == {0 .. k : k \in T}
<1>1. IsWellFoundedOn(R, FiniteSubsetsOf(Nat))
    BY FS_StrictSubsetOrderingWellFounded
<1>2. F \subseteq FiniteSubsetsOf(Nat) /\ F # {}
    <2>1. ASSUME NEW k \in T
          PROVE  0 .. k \in FiniteSubsetsOf(Nat)
        BY FS_Interval DEF FiniteSubsetsOf
    <2> QED
        BY <2>1
<1>3. PICK X \in F : \A Y \in F : ~(<<Y, X>> \in R)
    <2> HIDE DEF R, F
    <2> QED
        BY <1>1, <1>2, WFMin
<1>4. PICK m \in T : X = 0 .. m
    OBVIOUS
<1>5. ASSUME NEW k \in T, k < m
      PROVE  FALSE
    <2>1. 0 .. k \subseteq 0 .. m /\ 0 .. k \subseteq Nat /\ 0 .. m \subseteq Nat
        BY <1>5
    <2>2. m \in 0 .. m /\ ~(m \in 0 .. k)
        BY <1>5
    <2>3. <<0 .. k, 0 .. m>> \in R
        BY <2>1, <2>2 DEF StrictSubsetOrdering
    <2> QED
        BY <1>3, <1>4, <2>3
<1> QED
    BY <1>5

\* Parents are older than their children.
Rising(I) == Len(I) \in Nat /\ \A i \in 1 .. Len(I) : I[i].parent \in 0 .. i - 1

\* The recursion of Chain has a solution: what lies in every set of instances
\* that has the first one and the parents of its members.
LEMMA ChainEquation ==
    ASSUME NEW I, Rising(I)
    PROVE  /\ Chain(I, 0) = {}
           /\ \A h \in 1 .. Len(I) : Chain(I, h) = {h} \union Chain(I, I[h].parent)
<1> DEFINE n == Len(I)
           Closed(S) == \A i \in S : I[i].parent \in S \union {0}
           C(i) == {j \in 1 .. n : \A S \in SUBSET (1 .. n) :
                                      Closed(S) /\ i \in S \union {0} => j \in S}
           f == [i \in 0 .. n |-> C(i)]
           Up(g) == [i \in 0 .. n |-> IF i = 0 THEN {} ELSE {i} \union g[I[i].parent]]
           up == CHOOSE g : g = Up(g)
<1>1. n \in Nat /\ \A i \in 1 .. n : I[i].parent \in 0 .. i - 1 /\ I[i].parent \in 0 .. n
    BY DEF Rising
<1>2. C(0) = {}
    <2>1. Closed({}) /\ {} \in SUBSET (1 .. n) /\ 0 \in {} \union {0}
        OBVIOUS
    <2> QED
        BY <2>1
<1>3. ASSUME NEW i \in 1 .. n
      PROVE  C(i) = {i} \union C(I[i].parent)
    <2> DEFINE p == I[i].parent
    <2>1. i # 0 /\ p \in 0 .. n /\ p # i
        BY <1>1
    <2> HIDE DEF n
    <2>2. ASSUME NEW j \in C(p)
          PROVE  j \in C(i)
        <3>1. ASSUME NEW S \in SUBSET (1 .. n), Closed(S), i \in S
              PROVE  j \in S
            BY <2>2, <3>1
        <3> QED
            BY <2>1, <2>2, <3>1
    <2>3. ASSUME NEW j \in C(i), j # i
          PROVE  j \in C(p)
        <3>1. ASSUME NEW S \in SUBSET (1 .. n), Closed(S), p \in S \union {0}
              PROVE  j \in S
            <4>1. Closed(S \union {i}) /\ S \union {i} \in SUBSET (1 .. n)
                BY <3>1
            <4>2. j \in S \union {i}
                BY <2>3, <4>1
            <4> QED
                BY <2>3, <4>2
        <3> QED
            BY <2>3, <3>1
    <2>4. i \in C(i)
        BY <2>1
    <2> QED
        BY <2>2, <2>3, <2>4
<1>4. f = Up(f)
    <2> HIDE DEF C
    <2>1. ASSUME NEW i \in 0 .. n
          PROVE  f[i] = IF i = 0 THEN {} ELSE {i} \union f[I[i].parent]
        <3>1. CASE i = 0
            BY <1>2, <3>1
        <3>2. CASE i # 0
            BY <1>1, <1>3, <3>2
        <3> QED
            BY <3>1, <3>2
    <2> QED
        BY <2>1
<1>5. up = Up(up)
    <2> HIDE DEF f, Up
    <2> QED
        BY <1>4
<1>6. \A h : Chain(I, h) = up[h]
    BY DEF Chain
<1> HIDE DEF up
<1>7. \A i \in 0 .. n : up[i] = IF i = 0 THEN {} ELSE {i} \union up[I[i].parent]
    BY <1>5
<1>8. up[0] = {} /\ \A i \in 1 .. n : up[i] = {i} \union up[I[i].parent]
    <2> HIDE DEF n
    <2>1. 0 \in 0 .. n /\ \A i \in 1 .. n : i \in 0 .. n /\ i # 0
        BY <1>1
    <2> QED
        BY <1>7, <2>1
<1> QED
    BY <1>6, <1>8

\* A chain is part of every set that has where it begins and the parents of its
\* members.
LEMMA ChainWithin ==
    ASSUME NEW I, Rising(I), NEW S \in SUBSET (1 .. Len(I)), NEW h \in S \union {0},
           \A i \in S : I[i].parent \in S \union {0}
    PROVE  Chain(I, h) \subseteq S
<1> DEFINE T == {k \in S : ~(Chain(I, k) \subseteq S)}
<1>1. CASE T = {}
    BY <1>1, ChainEquation
<1>2. CASE T # {}
    <2>1. T \subseteq Nat
        <3>1. T \subseteq S /\ 1 .. Len(I) \subseteq Nat
            OBVIOUS
        <3> QED
            BY <3>1
    <2>2. PICK m \in T : \A k \in T : m <= k
        <3> HIDE DEF T
        <3> QED
            BY <1>2, <2>1, Least
    <2>3. /\ m \in 1 .. Len(I) /\ m \in S /\ I[m].parent \in S \union {0}
          /\ I[m].parent \in 0 .. m - 1
        BY DEF Rising
    <2>4. Chain(I, m) = {m} \union Chain(I, I[m].parent)
        BY <2>3, ChainEquation
    <2>5. Chain(I, I[m].parent) \subseteq S
        <3>1. CASE I[m].parent = 0
            BY <3>1, ChainEquation
        <3>2. CASE I[m].parent # 0
            <4>1. I[m].parent \notin T
                BY <2>2, <2>3
            <4> QED
                BY <2>3, <3>2, <4>1
        <3> QED
            BY <3>1, <3>2
    <2> QED
        BY <2>2, <2>3, <2>4, <2>5
<1> QED
    BY <1>1, <1>2

LEMMA ChainBelow ==
    ASSUME NEW I, Rising(I), NEW h \in 0 .. Len(I)
    PROVE  Chain(I, h) \subseteq 1 .. h
<1> DEFINE S == 1 .. h
<1>0. Chain(I, 0) = {}
    BY ChainEquation
<1>1. S \in SUBSET (1 .. Len(I)) /\ \A i \in S : I[i].parent \in S \union {0}
    BY DEF Rising
<1>2. h \in S \union {0}
    BY DEF Rising
<1> HIDE DEF S
<1>3. Chain(I, h) \subseteq S
    BY <1>1, <1>2, ChainWithin
<1> QED
    BY <1>3 DEF S

\* A chain stays what it is while its members keep their parents.
LEMMA ChainSame ==
    ASSUME NEW I, NEW J, Rising(I), Rising(J), Len(I) <= Len(J),
           NEW h \in 0 .. Len(I), \A i \in Chain(I, h) : J[i].parent = I[i].parent
    PROVE  Chain(J, h) = Chain(I, h)
<1> DEFINE T == {k \in 0 .. Len(I) : /\ \A i \in Chain(I, k) : J[i].parent = I[i].parent
                                     /\ Chain(J, k) # Chain(I, k)}
<1>1. CASE T = {}
    BY <1>1
<1>2. CASE T # {}
    <2>1. T \subseteq Nat
        BY DEF Rising
    <2>2. PICK m \in T : \A k \in T : m <= k
        <3> HIDE DEF T
        <3> QED
            BY <1>2, <2>1, Least
    <2>3. m # 0
        BY <2>2, ChainEquation
    <2> DEFINE p == I[m].parent
    <2>4. m \in 1 .. Len(I) /\ m \in 1 .. Len(J) /\ p \in 0 .. Len(I) /\ p < m
        BY <2>3 DEF Rising
    <2>5. /\ Chain(I, m) = {m} \union Chain(I, p)
          /\ Chain(J, m) = {m} \union Chain(J, J[m].parent)
        BY <2>4, ChainEquation
    <2>6. J[m].parent = p
        BY <2>2, <2>5
    <2>7. \A i \in Chain(I, p) : J[i].parent = I[i].parent
        BY <2>2, <2>5
    <2>8. p \notin T
        BY <2>2, <2>4
    <2>9. Chain(J, p) = Chain(I, p)
        BY <2>4, <2>7, <2>8
    <2> QED
        BY <2>2, <2>5, <2>6, <2>9
<1> QED
    BY <1>1, <1>2

-----------------------------------------------------------------------------
(* What the operations do to the list of instances. *)

LEMMA SeqFacts ==
    ASSUME NEW I \in Seq(Records)
    PROVE  /\ Len(I) \in Nat /\ DOMAIN I = 1 .. Len(I)
           /\ \A i \in 1 .. Len(I) : I[i] \in Records
BY LenProperties, ElementOfSeq

LEMMA SetPhase ==
    ASSUME NEW I \in Seq(Records), NEW i \in 1 .. Len(I),
           NEW x \in {"new", "open", "failed", "closed"}
    PROVE  LET J == [I EXCEPT ![i].phase = x] IN
           /\ J \in Seq(Records) /\ Len(J) = Len(I)
           /\ \A j \in 1 .. Len(I) : J[j] = IF j = i THEN [I[i] EXCEPT !.phase = x] ELSE I[j]
<1>1. I[i] \in Records
    BY SeqFacts
<1>2. [I[i] EXCEPT !.phase = x] \in Records
    BY <1>1 DEF Records
<1> QED
    BY <1>2, ExceptSeq

LEMMA AddMade ==
    ASSUME NEW I \in Seq(Records), NEW pkg \in Kinds \union {None},
           NEW parent \in 0 .. MaxInst, NEW by \in 0 .. MaxInst,
           NEW phase \in {"new", "open", "failed", "closed"}
    PROVE  LET J == Append(I, Made(pkg, parent, by, phase)) IN
           /\ J \in Seq(Records) /\ Len(J) = Len(I) + 1
           /\ \A j \in 1 .. Len(I) : J[j] = I[j]
           /\ J[Len(I) + 1] = Made(pkg, parent, by, phase)
<1>1. Made(pkg, parent, by, phase) \in Records
    BY InstancesAssumption DEF Made, Records
<1> QED
    BY <1>1, AppendProperties

\* What is left of a deleted instance.
Dead(phase) == [pkg |-> None, parent |-> 0, by |-> 0, phase |-> phase,
                live |-> FALSE, deblocker |-> 0, disklabel |-> 0]

LEMMA DeleteInstance ==
    ASSUME NEW I \in Seq(Records), NEW i \in 1 .. Len(I)
    PROVE  LET J == delete_instance(I, i) IN
           /\ J \in Seq(Records) /\ Len(J) = Len(I)
           /\ \A j \in 1 .. Len(I) : J[j] = IF j = i THEN Dead(I[i].phase) ELSE I[j]
<1>1. I[i] \in Records
    BY SeqFacts
<1>2. Dead(I[i].phase) \in Records
    BY <1>1, InstancesAssumption DEF Dead, Records
<1> QED
    BY <1>2, ExceptSeq DEF delete_instance, Dead

LEMMA ClosePackage ==
    ASSUME NEW I \in Seq(Records), NEW i \in 0 .. Len(I)
    PROVE  LET J == f_close_package(I, i) IN
           /\ J \in Seq(Records) /\ Len(J) = Len(I)
           /\ \A j \in 1 .. Len(I) : J[j] = IF j = i THEN Dead("closed") ELSE I[j]
<1>1. CASE i = 0
    BY <1>1 DEF f_close_package
<1>2. CASE i # 0
    <2> DEFINE J == [I EXCEPT ![i].phase = "closed"]
    <2>1. i \in 1 .. Len(I)
        BY <1>2
    <2>2. /\ J \in Seq(Records) /\ Len(J) = Len(I)
          /\ \A j \in 1 .. Len(I) :
                J[j] = IF j = i THEN [I[i] EXCEPT !.phase = "closed"] ELSE I[j]
        BY <2>1, SetPhase
    <2>3. J[i].phase = "closed"
        <3>1. I[i] \in Records
            BY <2>1, SeqFacts
        <3> QED
            BY <2>1, <2>2, <3>1 DEF Records
    <2>4. f_close_package(I, i) = delete_instance(J, i)
        BY <1>2 DEF f_close_package
    <2> HIDE DEF J
    <2> QED
        BY <2>1, <2>2, <2>3, <2>4, DeleteInstance
<1> QED
    BY <1>1, <1>2

\* An instance of pkg has been added to I and, if its open method was run, the
\* helpers that has opened.
Grown(I, J, pkg, parent, by, phase) ==
    LET k == Len(I) + 1
        both == phase = "open" /\ pkg \in Disks
    IN
    /\ J \in Seq(Records) /\ Len(J) \in k .. k + 2
    /\ \A i \in 1 .. Len(I) : J[i] = I[i]
    /\ J[k].pkg = pkg /\ J[k].parent = parent /\ J[k].by = by /\ J[k].live
    /\ J[k].phase = phase
    /\ J[k].deblocker = IF both THEN k + 1 ELSE 0
    /\ J[k].disklabel = IF both THEN k + 2 ELSE 0
    /\ both => Len(J) = k + 2
    /\ \A i \in k + 1 .. Len(J) :
          /\ J[i].by = 0 /\ J[i].deblocker = 0 /\ J[i].disklabel = 0
          /\ \/ /\ Helper(J[i]) /\ J[i].live /\ J[i].parent = k
                /\ J[i].phase = IF both THEN "open" ELSE "failed"
             \/ ~both /\ J[i] = Dead("closed")

LEMMA OpenEffect ==
    ASSUME NEW I \in Seq(Records), Len(I) + 3 <= MaxInst,
           NEW pkg \in Packages \union Interposers \union {None},
           NEW parent \in 0 .. MaxInst, NEW by \in 0 .. MaxInst,
           NEW r \in [ok : BOOLEAN, deblocker : BOOLEAN, disklabel : BOOLEAN,
                      ask : Interposers \union {None}],
           pkg \in Disks => (r.ok = (r.deblocker /\ r.disklabel))
    PROVE  Grown(I, execute_open(new_instance(I, pkg, parent, by), Len(I) + 1, r),
                 pkg, parent, by, IF r.ok THEN "open" ELSE "failed")
<1> DEFINE k == Len(I) + 1
           new == new_instance(I, pkg, parent, by)
           one == f_open_package(new, Deblocker, k, r.deblocker)
           two == f_open_package(one, DiskLabel, k, r.disklabel)
           J == execute_open(new, k, r)
           phase == IF r.ok THEN "open" ELSE "failed"
<1> SUFFICES Grown(I, J, pkg, parent, by, phase)
    OBVIOUS
<1>0. Len(I) \in Nat /\ k \in 0 .. MaxInst /\ k + 1 \in 0 .. MaxInst /\ k + 2 \in 0 .. MaxInst
    BY SeqFacts, InstancesAssumption
<1>1. /\ new \in Seq(Records) /\ Len(new) = k
      /\ \A j \in 1 .. Len(I) : new[j] = I[j]
      /\ new[k] = Made(pkg, parent, by, "new")
    <2>1. pkg \in Kinds \union {None}
        BY DEF Kinds
    <2>2. new = Append(I, Made(pkg, parent, by, "new"))
        BY DEF new_instance
    <2>3. Made(pkg, parent, by, "new") \in Records
        BY <2>1, InstancesAssumption DEF Made, Records
    <2>4. k = Len(I) + 1
        OBVIOUS
    <2> HIDE DEF k, new, one, two, J, phase
    <2> QED
        BY <2>2, <2>3, <2>4, AppendProperties
<1>2. new[k] \in Records /\ new[k].pkg = pkg /\ k \in 1 .. Len(new)
    <2>1. k \in 1 .. Len(new)
        BY <1>0, <1>1
    <2> QED
        BY <1>1, <2>1, SeqFacts DEF Made
<1>k. Deblocker \in Kinds /\ DiskLabel \in Kinds
    BY DEF Kinds
<1>r. r.ok \in BOOLEAN /\ r.deblocker \in BOOLEAN /\ r.disklabel \in BOOLEAN
    OBVIOUS
<1> HIDE DEF k, new, phase
<1>3. CASE pkg \notin Disks
    <2>1. J = [new EXCEPT ![k].phase = phase]
        BY <1>2, <1>3 DEF execute_open, phase
    <2>2. /\ J \in Seq(Records) /\ Len(J) = k
          /\ \A j \in 1 .. k : J[j] = IF j = k THEN [new[k] EXCEPT !.phase = phase] ELSE new[j]
        <3> DEFINE rec == [new[k] EXCEPT !.phase = phase]
        <3>1. phase \in {"new", "open", "failed", "closed"}
            BY DEF phase
        <3>2. rec \in Records
            BY <1>2, <3>1 DEF Records
        <3>3. J = [new EXCEPT ![k] = rec]
            BY <2>1
        <3> HIDE DEF rec, J
        <3>4. /\ J \in Seq(Records) /\ Len(J) = k
              /\ \A j \in 1 .. k : J[j] = IF j = k THEN rec ELSE new[j]
            BY <1>1, <1>2, <3>2, <3>3, ExceptSeq
        <3> QED
            BY <3>4 DEF rec
    <2>3. J[k] = [Made(pkg, parent, by, "new") EXCEPT !.phase = phase]
        BY <1>0, <1>1, <1>2, <2>2
    <2>4. /\ J[k].pkg = pkg /\ J[k].parent = parent /\ J[k].by = by /\ J[k].live
          /\ J[k].phase = phase /\ J[k].deblocker = 0 /\ J[k].disklabel = 0
        BY <2>3 DEF Made
    <2>5. \A i \in 1 .. Len(I) : J[i] = I[i]
        BY <1>0, <1>1, <2>2 DEF k
    <2>6. k = Len(I) + 1 /\ ~(k + 1 \in k + 1 .. Len(J))
        BY <1>0, <2>2 DEF k
    <2> HIDE DEF J
    <2> QED
        BY <1>0, <1>3, <2>2, <2>4, <2>5, <2>6 DEF Grown
<1>4. /\ one \in Seq(Records) /\ Len(one) = k + 1
      /\ \A j \in 1 .. k : one[j] = new[j]
      /\ one[k + 1] = Made(Deblocker, k, 0, IF r.deblocker THEN "open" ELSE "failed")
    <2> DEFINE x == IF r.deblocker THEN "open" ELSE "failed"
    <2>1. one = Append(new, Made(Deblocker, k, 0, x))
        BY DEF f_open_package
    <2>2. x \in {"new", "open", "failed", "closed"}
        OBVIOUS
    <2> HIDE DEF one, x
    <2>3. 0 \in 0 .. MaxInst
        BY InstancesAssumption
    <2>4. /\ one \in Seq(Records) /\ Len(one) = Len(new) + 1
          /\ \A j \in 1 .. Len(new) : one[j] = new[j]
          /\ one[Len(new) + 1] = Made(Deblocker, k, 0, x)
        BY <1>0, <1>1, <1>k, <2>1, <2>2, <2>3, AddMade
    <2> QED
        BY <1>0, <1>1, <2>4 DEF x
<1> HIDE DEF one
<1>5. /\ two \in Seq(Records) /\ Len(two) = k + 2
      /\ \A j \in 1 .. k + 1 : two[j] = one[j]
      /\ two[k + 2] = Made(DiskLabel, k, 0, IF r.disklabel THEN "open" ELSE "failed")
    <2> DEFINE x == IF r.disklabel THEN "open" ELSE "failed"
    <2>1. two = Append(one, Made(DiskLabel, k, 0, x))
        BY DEF f_open_package
    <2>2. x \in {"new", "open", "failed", "closed"}
        OBVIOUS
    <2> HIDE DEF two, x
    <2>3. 0 \in 0 .. MaxInst
        BY InstancesAssumption
    <2>4. /\ two \in Seq(Records) /\ Len(two) = Len(one) + 1
          /\ \A j \in 1 .. Len(one) : two[j] = one[j]
          /\ two[Len(one) + 1] = Made(DiskLabel, k, 0, x)
        BY <1>0, <1>4, <1>k, <2>1, <2>2, <2>3, AddMade
    <2> QED
        BY <1>0, <1>4, <2>4 DEF x
<1> HIDE DEF two
<1>6. CASE pkg \in Disks /\ ~r.deblocker
    <2>1. J = [one EXCEPT ![k].phase = "failed"]
        BY <1>1, <1>2, <1>6 DEF execute_open, f_ata_disk_open, one
    <2>2. /\ J \in Seq(Records) /\ Len(J) = k + 1
          /\ \A j \in 1 .. k + 1 : J[j] = IF j = k THEN [one[k] EXCEPT !.phase = "failed"]
                                          ELSE one[j]
        <3>1. k \in 1 .. Len(one)
            BY <1>0, <1>4, <1>2, <1>1
        <3> DEFINE rec == [one[k] EXCEPT !.phase = "failed"]
        <3>2. one[k] \in Records
            BY <1>4, <3>1, SeqFacts
        <3>3. rec \in Records
            BY <3>2 DEF Records
        <3>4. J = [one EXCEPT ![k] = rec]
            BY <2>1
        <3> HIDE DEF rec, J
        <3>5. /\ J \in Seq(Records) /\ Len(J) = k + 1
              /\ \A j \in 1 .. k + 1 : J[j] = IF j = k THEN rec ELSE one[j]
            BY <1>4, <3>1, <3>3, <3>4, ExceptSeq
        <3> QED
            BY <3>5 DEF rec
    <2>3. J[k] = [Made(pkg, parent, by, "new") EXCEPT !.phase = "failed"]
        BY <1>0, <1>1, <1>2, <1>4, <2>2
    <2>4. /\ J[k].pkg = pkg /\ J[k].parent = parent /\ J[k].by = by /\ J[k].live
          /\ J[k].phase = "failed" /\ J[k].deblocker = 0 /\ J[k].disklabel = 0
        BY <2>3 DEF Made
    <2>5. \A i \in 1 .. Len(I) : J[i] = I[i]
        BY <1>0, <1>1, <1>4, <2>2 DEF k
    <2>6. J[k + 1] = Made(Deblocker, k, 0, "failed")
        BY <1>0, <1>4, <1>6, <2>2 DEF k
    <2>7. /\ J[k + 1].by = 0 /\ J[k + 1].deblocker = 0 /\ J[k + 1].disklabel = 0
          /\ Helper(J[k + 1]) /\ J[k + 1].live /\ J[k + 1].parent = k
          /\ J[k + 1].phase = "failed"
        BY <2>6 DEF Made, Helper
    <2>8. \A i \in k + 1 .. Len(J) : i = k + 1
        BY <1>0, <2>2
    <2>9. phase = "failed" /\ k = Len(I) + 1
        BY <1>6 DEF k, phase
    <2> HIDE DEF J
    <2> QED
        BY <1>0, <2>2, <2>4, <2>5, <2>7, <2>8, <2>9 DEF Grown
<1>7. CASE pkg \in Disks /\ r.deblocker /\ ~r.disklabel
    <2> DEFINE three == f_close_package(two, k + 1)
    <2>1. J = [three EXCEPT ![k].phase = "failed"]
        BY <1>1, <1>2, <1>7 DEF execute_open, f_ata_disk_open, one, two
    <2>2. /\ three \in Seq(Records) /\ Len(three) = k + 2
          /\ \A j \in 1 .. k + 2 : three[j] = IF j = k + 1 THEN Dead("closed") ELSE two[j]
        BY <1>0, <1>5, ClosePackage
    <2> HIDE DEF three
    <2>3. /\ J \in Seq(Records) /\ Len(J) = k + 2
          /\ \A j \in 1 .. k + 2 : J[j] = IF j = k THEN [three[k] EXCEPT !.phase = "failed"]
                                          ELSE three[j]
        <3>1. k \in 1 .. Len(three)
            BY <1>0, <2>2, <1>2, <1>1
        <3> DEFINE rec == [three[k] EXCEPT !.phase = "failed"]
        <3>2. three[k] \in Records
            BY <2>2, <3>1, SeqFacts
        <3>3. rec \in Records
            BY <3>2 DEF Records
        <3>4. J = [three EXCEPT ![k] = rec]
            BY <2>1
        <3> HIDE DEF rec, J
        <3>5. /\ J \in Seq(Records) /\ Len(J) = k + 2
              /\ \A j \in 1 .. k + 2 : J[j] = IF j = k THEN rec ELSE three[j]
            BY <2>2, <3>1, <3>3, <3>4, ExceptSeq
        <3> QED
            BY <3>5 DEF rec
    <2> HIDE DEF J
    <2>4. three[k] = Made(pkg, parent, by, "new")
        BY <1>0, <1>1, <1>2, <1>4, <1>5, <2>2
    <2>5. J[k] = [Made(pkg, parent, by, "new") EXCEPT !.phase = "failed"]
        BY <1>0, <1>1, <1>2, <2>3, <2>4
    <2>6. /\ J[k].pkg = pkg /\ J[k].parent = parent /\ J[k].by = by /\ J[k].live
          /\ J[k].phase = "failed" /\ J[k].deblocker = 0 /\ J[k].disklabel = 0
        BY <2>5 DEF Made
    <2>7. \A i \in 1 .. Len(I) : J[i] = I[i]
        BY <1>0, <1>1, <1>4, <1>5, <2>2, <2>3 DEF k
    <2>8. J[k + 1] = Dead("closed") /\ J[k + 2] = Made(DiskLabel, k, 0, "failed")
        <3>1. two[k + 2] = Made(DiskLabel, k, 0, "failed")
            BY <1>5, <1>7
        <3>2. k + 1 # k /\ k + 2 # k /\ k + 2 # k + 1
            BY <1>0
        <3>3. k + 1 \in 1 .. k + 2 /\ k + 2 \in 1 .. k + 2
            BY <1>0, <1>1 DEF k
        <3> QED
            BY <2>2, <2>3, <3>1, <3>2, <3>3
    <2>9. /\ J[k + 1].by = 0 /\ J[k + 1].deblocker = 0 /\ J[k + 1].disklabel = 0
          /\ J[k + 2].by = 0 /\ J[k + 2].deblocker = 0 /\ J[k + 2].disklabel = 0
          /\ Helper(J[k + 2]) /\ J[k + 2].live /\ J[k + 2].parent = k
          /\ J[k + 2].phase = "failed"
        BY <2>8 DEF Made, Helper, Dead
    <2>10. \A i \in k + 1 .. Len(J) : i = k + 1 \/ i = k + 2
        BY <1>0, <2>3
    <2>11. phase = "failed" /\ k = Len(I) + 1
        BY <1>7 DEF k, phase
    <2> HIDE DEF J
    <2> QED
        BY <1>0, <2>3, <2>6, <2>7, <2>8, <2>9, <2>10, <2>11 DEF Grown
<1>8. CASE pkg \in Disks /\ r.deblocker /\ r.disklabel
    <2>1. J = [two EXCEPT ![k].phase = "open", ![k].deblocker = k + 1,
                          ![k].disklabel = k + 1 + 1]
        BY <1>1, <1>2, <1>8 DEF execute_open, f_ata_disk_open, one, two
    <2>2. /\ J \in Seq(Records) /\ Len(J) = k + 2
          /\ \A j \in 1 .. k + 2 : j # k => J[j] = two[j]
          /\ J[k] = [two[k] EXCEPT !.phase = "open", !.deblocker = k + 1,
                                   !.disklabel = k + 1 + 1]
        <3> DEFINE rec == [two[k] EXCEPT !.phase = "open", !.deblocker = k + 1,
                                         !.disklabel = k + 1 + 1]
        <3>1. k \in 1 .. Len(two) /\ k + 1 + 1 \in 0 .. MaxInst
            BY <1>0, <1>5, <1>2, <1>1
        <3>2. two[k] \in Records /\ DOMAIN two = 1 .. Len(two)
            BY <1>5, <3>1, SeqFacts
        <3>3. rec \in Records
            BY <1>0, <3>1, <3>2 DEF Records
        <3>4. J = [two EXCEPT ![k] = rec]
            BY <2>1, <3>1, <3>2
        <3> HIDE DEF rec, J
        <3>5. /\ J \in Seq(Records) /\ Len(J) = k + 2
              /\ \A j \in 1 .. k + 2 : J[j] = IF j = k THEN rec ELSE two[j]
            BY <1>5, <3>1, <3>3, <3>4, ExceptSeq
        <3> QED
            BY <1>5, <3>1, <3>5 DEF rec
    <2> HIDE DEF J
    <2>3. two[k] = Made(pkg, parent, by, "new")
        BY <1>0, <1>1, <1>2, <1>4, <1>5
    <2>4. /\ J[k].pkg = pkg /\ J[k].parent = parent /\ J[k].by = by /\ J[k].live
          /\ J[k].phase = "open" /\ J[k].deblocker = k + 1 /\ J[k].disklabel = k + 1 + 1
        BY <2>2, <2>3 DEF Made
    <2>5. \A i \in 1 .. Len(I) : J[i] = I[i]
        BY <1>0, <1>1, <1>4, <1>5, <2>2 DEF k
    <2>6. /\ J[k + 1] = Made(Deblocker, k, 0, "open")
          /\ J[k + 2] = Made(DiskLabel, k, 0, "open")
        <3>1. /\ one[k + 1] = Made(Deblocker, k, 0, "open")
              /\ two[k + 2] = Made(DiskLabel, k, 0, "open")
            BY <1>4, <1>5, <1>8
        <3>2. k + 1 # k /\ k + 2 # k
            BY <1>0
        <3>3. k + 1 \in 1 .. k + 2 /\ k + 2 \in 1 .. k + 2 /\ k + 1 \in 1 .. k + 1
            BY <1>0 DEF k
        <3>4. J[k + 1] = two[k + 1] /\ J[k + 2] = two[k + 2]
            BY <2>2, <3>2, <3>3
        <3>5. two[k + 1] = one[k + 1]
            BY <1>5, <3>3
        <3> QED
            BY <3>1, <3>4, <3>5
    <2>7. /\ J[k + 1].by = 0 /\ J[k + 1].deblocker = 0 /\ J[k + 1].disklabel = 0
          /\ Helper(J[k + 1]) /\ J[k + 1].live /\ J[k + 1].parent = k
          /\ J[k + 1].phase = "open"
          /\ J[k + 2].by = 0 /\ J[k + 2].deblocker = 0 /\ J[k + 2].disklabel = 0
          /\ Helper(J[k + 2]) /\ J[k + 2].live /\ J[k + 2].parent = k
          /\ J[k + 2].phase = "open"
        BY <2>6 DEF Made, Helper
    <2>8. \A i \in k + 1 .. Len(J) : i = k + 1 \/ i = k + 2
        BY <1>0, <2>2
    <2>9. phase = "open" /\ k = Len(I) + 1 /\ k + 1 + 1 = k + 2
        BY <1>0, <1>8 DEF k, phase
    <2>10. J \in Seq(Records) /\ Len(J) = k + 2 /\ Len(J) \in k .. k + 2
        BY <1>0, <2>2
    <2>11. \A i \in k + 1 .. Len(J) :
              /\ J[i].by = 0 /\ J[i].deblocker = 0 /\ J[i].disklabel = 0
              /\ Helper(J[i]) /\ J[i].live /\ J[i].parent = k
              /\ J[i].phase = "open"
        BY <2>7, <2>8
    <2> QED
        BY <1>8, <2>4, <2>5, <2>9, <2>10, <2>11 DEF Grown
<1> QED
    BY <1>3, <1>6, <1>7, <1>8

LEMMA NewEffect ==
    ASSUME NEW I \in Seq(Records), NEW pkg \in Packages \union Interposers \union {None},
           NEW parent \in 0 .. MaxInst
    PROVE  Grown(I, new_instance(I, pkg, parent, 0), pkg, parent, 0, "new")
<1> DEFINE J == Append(I, Made(pkg, parent, 0, "new"))
           k == Len(I) + 1
<1>1. pkg \in Kinds \union {None} /\ 0 \in 0 .. MaxInst /\ Len(I) \in Nat
    BY SeqFacts, InstancesAssumption DEF Kinds
<1> HIDE DEF J
<1>2. /\ J \in Seq(Records) /\ Len(J) = k
      /\ \A j \in 1 .. Len(I) : J[j] = I[j]
      /\ J[k] = Made(pkg, parent, 0, "new")
    BY <1>1, AddMade DEF J
<1>3. /\ J[k].pkg = pkg /\ J[k].parent = parent /\ J[k].by = 0 /\ J[k].live
      /\ J[k].phase = "new" /\ J[k].deblocker = 0 /\ J[k].disklabel = 0
    BY <1>2 DEF Made
<1>4. Len(J) \in k .. k + 2 /\ ~(\E i \in k + 1 .. Len(J) : TRUE)
    BY <1>1, <1>2
<1>5. Grown(I, J, pkg, parent, 0, "new")
    BY <1>2, <1>3, <1>4 DEF Grown
<1> QED
    BY <1>5 DEF new_instance, J

\* Instance d has been deleted, and the instances of H closed.
Removed(I, J, d, H, phase) ==
    /\ J \in Seq(Records) /\ Len(J) = Len(I)
    /\ J[d] = Dead(phase)
    /\ \A i \in 1 .. Len(I) \ {d} : J[i] = IF i \in H THEN Dead("closed") ELSE I[i]

HelpersOf(I, i) == {I[i].deblocker, I[i].disklabel} \ {0}

LEMMA DeleteEffect ==
    ASSUME NEW I \in Seq(Records), NEW d \in 1 .. Len(I)
    PROVE  Removed(I, delete_instance(I, d), d, {}, I[d].phase)
BY DeleteInstance DEF Removed

LEMMA CloseEffect ==
    ASSUME NEW I \in Seq(Records), NEW d \in 1 .. Len(I), Entry(I, d)
    PROVE  Removed(I, delete_instance(execute_close(I, d), d), d, HelpersOf(I, d), "closed")
<1> DEFINE D == I[d].deblocker
           L == I[d].disklabel
           one == f_close_package(I, L)
           two == f_close_package(one, D)
           K == IF I[d].pkg \in Disks THEN two ELSE I
           J == execute_close(I, d)
<1>1. /\ D \in 0 .. Len(I) /\ L \in 0 .. Len(I) /\ D # d /\ L # d
      /\ D # 0 \/ L # 0 => I[d].pkg \in Disks
    <2>1. Len(I) \in Nat
        BY SeqFacts
    <2> QED
        BY <2>1 DEF Entry
<1>2. /\ one \in Seq(Records) /\ Len(one) = Len(I)
      /\ \A j \in 1 .. Len(I) : one[j] = IF j = L THEN Dead("closed") ELSE I[j]
    BY <1>1, ClosePackage
<1>3. /\ two \in Seq(Records) /\ Len(two) = Len(I)
      /\ \A j \in 1 .. Len(I) : two[j] = IF j = D THEN Dead("closed") ELSE one[j]
    <2> HIDE DEF one
    <2> QED
        BY <1>1, <1>2, ClosePackage
<1>4. J = [K EXCEPT ![d].phase = "closed"]
    BY DEF execute_close, f_ata_disk_close
<1> HIDE DEF one, two, J
<1>5. /\ K \in Seq(Records) /\ Len(K) = Len(I)
      /\ \A j \in 1 .. Len(I) : K[j] = IF j \in HelpersOf(I, d) THEN Dead("closed") ELSE I[j]
    <2>1. \A j \in 1 .. Len(I) : j \in HelpersOf(I, d) <=> j = D \/ j = L
        BY DEF HelpersOf
    <2>2. CASE I[d].pkg \in Disks
        BY <1>2, <1>3, <2>1, <2>2
    <2>3. CASE I[d].pkg \notin Disks
        BY <1>1, <2>1, <2>3
    <2> QED
        BY <2>2, <2>3
<1> HIDE DEF K
<1> DEFINE rec == [K[d] EXCEPT !.phase = "closed"]
<1>6. K[d] \in Records
    BY <1>5, SeqFacts
<1>7. rec \in Records /\ rec.phase = "closed"
    BY <1>6 DEF Records
<1>8. J = [K EXCEPT ![d] = rec]
    BY <1>4
<1> HIDE DEF rec
<1>9. /\ J \in Seq(Records) /\ Len(J) = Len(I)
      /\ \A j \in 1 .. Len(I) : J[j] = IF j = d THEN rec ELSE K[j]
    BY <1>5, <1>7, <1>8, ExceptSeq
<1>10. Removed(J, delete_instance(J, d), d, {}, "closed")
    BY <1>7, <1>9, DeleteEffect
<1>11. Removed(I, delete_instance(J, d), d, HelpersOf(I, d), "closed")
    BY <1>5, <1>9, <1>10 DEF Removed
<1> QED
    BY <1>11 DEF J

-----------------------------------------------------------------------------
(* The shape of the list, and its chains, after an operation. *)

Shaped(I) == I \in Seq(Records) /\ \A i \in 1 .. Len(I) : Entry(I, i)

LEMMA ShapedRises ==
    ASSUME NEW I, Shaped(I)
    PROVE  Rising(I) /\ Len(I) \in Nat
<1>1. Len(I) \in Nat
    BY SeqFacts DEF Shaped
<1> QED
    BY <1>1 DEF Shaped, Rising, Entry

\* What can be put on top of an instance.
Fits(I, pkg, parent) ==
    /\ pkg \in Packages \union Interposers \union {None}
    /\ parent \in 0 .. Len(I)
    /\ parent # 0 => ~Helper(I[parent])

LEMMA NotHelper ==
    ASSUME NEW r, r.pkg \in Packages \union Interposers \union {None}
    PROVE  ~Helper(r)
BY ProperTree DEF Helper

LEMMA DeadFields ==
    ASSUME NEW phase
    PROVE  /\ Dead(phase).parent = 0 /\ Dead(phase).by = 0 /\ ~Dead(phase).live
           /\ Dead(phase).deblocker = 0 /\ Dead(phase).disklabel = 0
           /\ Dead(phase).phase = phase /\ Dead(phase).pkg = None
           /\ ~Helper(Dead(phase))
<1>1. Dead(phase).pkg = None
    BY DEF Dead
<1>2. ~Helper(Dead(phase))
    BY <1>1, NotHelper
<1> QED
    BY <1>2 DEF Dead

LEMMA GrownShape ==
    ASSUME NEW I, NEW J, NEW pkg, NEW parent, NEW by,
           NEW phase \in {"new", "open", "failed"},
           Shaped(I), Fits(I, pkg, parent), Grown(I, J, pkg, parent, by, phase)
    PROVE  Shaped(J)
<1> DEFINE n == Len(I)
           k == Len(I) + 1
           both == phase = "open" /\ pkg \in Disks
<1>1. n \in Nat /\ Len(J) \in Nat /\ Len(J) \in k .. k + 2 /\ J \in Seq(Records)
    BY ShapedRises DEF Grown
<1>2. /\ \A i \in 1 .. n : J[i] = I[i]
      /\ J[k].pkg = pkg /\ J[k].parent = parent /\ J[k].live /\ J[k].phase = phase
      /\ J[k].deblocker = IF both THEN k + 1 ELSE 0
      /\ J[k].disklabel = IF both THEN k + 2 ELSE 0
      /\ both => Len(J) = k + 2
    BY DEF Grown
<1>3. ~Helper(J[k])
    BY <1>2, NotHelper DEF Fits
<1>4. ASSUME NEW i \in 1 .. n
      PROVE  Entry(J, i)
    <2>1. Entry(I, i) /\ J[i] = I[i] /\ i <= Len(J)
        BY <1>1, <1>2 DEF Shaped
    <2>2. /\ J[i].parent \in 0 .. i - 1
          /\ J[i].parent # 0 => J[J[i].parent] = I[I[i].parent]
        BY <1>1, <1>2, <2>1 DEF Entry
    <2>3. I[i].deblocker = i + 1 /\ i + 2 <= n => J[i + 1] = I[i + 1] /\ J[i + 2] = I[i + 2]
        BY <1>1, <1>2
    <2>4. i \in Good(I) => i \in Good(J)
        BY <1>1, <2>1 DEF Good
    <2>5. n <= Len(J)
        BY <1>1
    <2> QED
        BY <1>1, <2>1, <2>2, <2>3, <2>4, <2>5 DEF Entry, HelperOf
<1>5. ASSUME NEW i \in k + 1 .. Len(J)
      PROVE  /\ J[i].deblocker = 0 /\ J[i].disklabel = 0
             /\ \/ /\ Helper(J[i]) /\ J[i].live /\ J[i].parent = k
                   /\ J[i].phase = IF both THEN "open" ELSE "failed"
                \/ J[i].parent = 0 /\ ~Helper(J[i]) /\ ~both
    <2>1. \/ /\ Helper(J[i]) /\ J[i].live /\ J[i].parent = k
             /\ J[i].phase = IF both THEN "open" ELSE "failed"
          \/ ~both /\ J[i] = Dead("closed")
        BY DEF Grown
    <2>2. J[i].deblocker = 0 /\ J[i].disklabel = 0
        BY DEF Grown
    <2>3. Dead("closed").parent = 0 /\ ~Helper(Dead("closed"))
        BY DeadFields
    <2>4. J[i] = Dead("closed") => J[i].parent = 0 /\ ~Helper(J[i])
        BY <2>3
    <2> HIDE DEF both, k
    <2> QED
        BY <2>1, <2>2, <2>4
<1>6. Entry(J, k)
    <2>1. J[k].parent \in 0 .. k - 1
        BY <1>1, <1>2 DEF Fits
    <2>2. J[k].parent # 0 => ~Helper(J[J[k].parent])
        BY <1>1, <1>2 DEF Fits
    <2>3. CASE both
        <3>1. k + 1 \in k + 1 .. Len(J) /\ k + 2 \in k + 1 .. Len(J)
            BY <1>1, <1>2, <2>3
        <3>2. HelperOf(J, k + 1, k) /\ HelperOf(J, k + 2, k)
            BY <1>5, <2>3, <3>1 DEF HelperOf
        <3>3. k \in Good(J)
            BY <1>1, <1>2, <1>3, <2>3 DEF Good
        <3> QED
            BY <1>2, <1>3, <2>1, <2>2, <2>3, <3>1, <3>2, <3>3 DEF Entry
    <2>4. CASE ~both
        BY <1>2, <1>3, <2>1, <2>2, <2>4 DEF Entry
    <2> QED
        BY <2>3, <2>4
<1>7. ASSUME NEW i \in k + 1 .. Len(J)
      PROVE  Entry(J, i)
    <2>1. k # 0 /\ k \in 0 .. i - 1 /\ 0 \in 0 .. i - 1
        BY <1>1
    <2>2. both => i = k + 1 \/ i = k + 2
        BY <1>1
    <2> HIDE DEF k, n
    <2>3. CASE both
        BY <1>2, <1>3, <1>5, <2>1, <2>2, <2>3 DEF Entry
    <2>4. CASE ~both
        BY <1>3, <1>5, <2>1, <2>4 DEF Entry
    <2> QED
        BY <2>3, <2>4
<1>8. \A i \in 1 .. Len(J) : i \in 1 .. n \/ i = k \/ i \in k + 1 .. Len(J)
    BY <1>1
<1> QED
    BY <1>1, <1>4, <1>6, <1>7, <1>8 DEF Shaped

LEMMA GrownChains ==
    ASSUME NEW I, NEW J, NEW pkg, NEW parent, NEW by,
           NEW phase \in {"new", "open", "failed"},
           Shaped(I), Fits(I, pkg, parent), Grown(I, J, pkg, parent, by, phase)
    PROVE  /\ \A h \in 0 .. Len(I) : Chain(J, h) = Chain(I, h)
           /\ Chain(J, Len(I) + 1) = {Len(I) + 1} \union Chain(I, parent)
           /\ Good(J) = Good(I) \union (IF phase = "open" THEN {Len(I) + 1} ELSE {})
<1> DEFINE k == Len(I) + 1
<1>1. /\ Rising(I) /\ Rising(J) /\ Len(I) \in Nat /\ Len(J) \in Nat /\ Len(I) <= Len(J)
      /\ Len(J) \in k .. k + 2
    <2>1. Shaped(J)
        BY GrownShape
    <2> QED
        BY <2>1, ShapedRises DEF Grown
<1>2. \A i \in 1 .. Len(I) : J[i] = I[i]
    BY DEF Grown
<1>3. ASSUME NEW h \in 0 .. Len(I)
      PROVE  Chain(J, h) = Chain(I, h)
    <2>1. Chain(I, h) \subseteq 1 .. h
        BY <1>1, ChainBelow
    <2>2. \A i \in Chain(I, h) : J[i].parent = I[i].parent
        BY <1>1, <1>2, <2>1
    <2> QED
        BY <1>1, <2>2, ChainSame
<1>4. Chain(J, k) = {k} \union Chain(I, parent)
    <2>1. k \in 1 .. Len(J) /\ J[k].parent = parent
        BY <1>1 DEF Grown
    <2>2. Chain(J, k) = {k} \union Chain(J, parent)
        BY <1>1, <2>1, ChainEquation
    <2> QED
        BY <1>3, <2>2 DEF Fits
<1>5. ASSUME NEW i \in k + 1 .. Len(J)
      PROVE  i \notin Good(J)
    <2>1. Helper(J[i]) \/ J[i] = Dead("closed")
        BY DEF Grown
    <2> QED
        BY <2>1, DeadFields DEF Good
<1>6. k \in Good(J) <=> phase = "open"
    <2>1. k \in 1 .. Len(J) /\ J[k].pkg = pkg /\ J[k].live /\ J[k].phase = phase
        BY <1>1 DEF Grown
    <2>2. ~Helper(J[k])
        BY <2>1, NotHelper DEF Fits
    <2> QED
        BY <2>1, <2>2 DEF Good
<1>7. \A i \in 1 .. Len(I) : i \in Good(J) <=> i \in Good(I)
    BY <1>1, <1>2 DEF Good
<1>8. Good(J) = Good(I) \union (IF phase = "open" THEN {k} ELSE {})
    <2>1. \A i \in Good(J) : i \in 1 .. Len(I) \/ i = k \/ i \in k + 1 .. Len(J)
        BY <1>1 DEF Good
    <2>2. \A i \in Good(I) : i \in 1 .. Len(I)
        BY DEF Good
    <2> QED
        BY <1>5, <1>6, <1>7, <2>1, <2>2
<1> QED
    BY <1>3, <1>4, <1>8

\* An instance that is live and nobody's helper is taken away, with its helpers
\* or without them.
Removable(I, J, d, H, phase) ==
    /\ Shaped(I) /\ d \in 1 .. Len(I) /\ I[d].live /\ ~Helper(I[d])
    /\ H = {} \/ H = HelpersOf(I, d)
    /\ Removed(I, J, d, H, phase)

\* What is left as it was, and what is not.
Rest(I, J, d, H, phase) ==
    /\ Len(I) \in Nat /\ Len(J) = Len(I) /\ J \in Seq(Records) /\ d \in 1 .. Len(I)
    /\ \A i \in H : /\ i \in 1 .. Len(I) /\ i # d
                    /\ Helper(I[i]) /\ I[i].parent = d /\ I[i].phase = "open"
    /\ \A i \in H \union {d} :
          /\ J[i].parent = 0 /\ J[i].by = 0 /\ ~J[i].live
          /\ J[i].deblocker = 0 /\ J[i].disklabel = 0
          /\ ~Helper(J[i]) /\ J[i].pkg = None
          /\ J[i].phase = IF i = d THEN phase ELSE "closed"
    /\ \A i \in 1 .. Len(I) : i \notin H \union {d} => J[i] = I[i]

LEMMA RemovedEntries ==
    ASSUME NEW I, NEW J, NEW d, NEW H, NEW phase, Removable(I, J, d, H, phase)
    PROVE  Rest(I, J, d, H, phase)
<1>1. Len(I) \in Nat /\ Len(J) = Len(I) /\ J \in Seq(Records) /\ d \in 1 .. Len(I)
    BY ShapedRises DEF Removable, Removed
<1>2. ASSUME NEW i \in H
      PROVE  i \in 1 .. Len(I) /\ i # d /\ Helper(I[i]) /\ I[i].parent = d /\ I[i].phase = "open"
    <2>1. i # 0 /\ (i = I[d].deblocker \/ i = I[d].disklabel) /\ Entry(I, d)
        BY <1>1 DEF Removable, HelpersOf, Shaped
    <2> QED
        BY <1>1, <2>1 DEF Entry, HelperOf
<1>3. J[d] = Dead(phase) /\ \A i \in H : J[i] = Dead("closed")
    BY <1>2 DEF Removable, Removed
<1>4. /\ Dead(phase).parent = 0 /\ Dead(phase).by = 0 /\ ~Dead(phase).live
      /\ Dead(phase).deblocker = 0 /\ Dead(phase).disklabel = 0
      /\ Dead(phase).phase = phase /\ ~Helper(Dead(phase)) /\ Dead(phase).pkg = None
    BY DeadFields
<1>5. /\ Dead("closed").parent = 0 /\ Dead("closed").by = 0 /\ ~Dead("closed").live
      /\ Dead("closed").deblocker = 0 /\ Dead("closed").disklabel = 0
      /\ Dead("closed").phase = "closed" /\ ~Helper(Dead("closed"))
      /\ Dead("closed").pkg = None
    BY DeadFields
<1>6. ASSUME NEW i \in H \union {d}
      PROVE  /\ J[i].parent = 0 /\ J[i].by = 0 /\ ~J[i].live
             /\ J[i].deblocker = 0 /\ J[i].disklabel = 0
             /\ ~Helper(J[i]) /\ J[i].pkg = None
             /\ J[i].phase = IF i = d THEN phase ELSE "closed"
    <2>1. CASE i = d
        BY <1>3, <1>4, <2>1
    <2>2. CASE i # d
        BY <1>3, <1>5, <2>2
    <2> QED
        BY <2>1, <2>2
<1>7. \A i \in 1 .. Len(I) : i \notin H \union {d} => J[i] = I[i]
    BY DEF Removable, Removed
<1> QED
    BY <1>1, <1>2, <1>6, <1>7 DEF Rest

LEMMA RemovedShape ==
    ASSUME NEW I, NEW J, NEW d, NEW H, NEW phase, Removable(I, J, d, H, phase)
    PROVE  Shaped(J)
<1>0. Rest(I, J, d, H, phase)
    BY RemovedEntries
<1>1. /\ Len(I) \in Nat /\ Len(J) = Len(I) /\ J \in Seq(Records) /\ d \in 1 .. Len(I)
      /\ Shaped(I) /\ I[d].live /\ ~Helper(I[d])
    BY <1>0 DEF Removable, Rest
<1>2. \A i \in H : i \in 1 .. Len(I) /\ i # d /\ Helper(I[i]) /\ I[i].parent = d
    BY <1>0 DEF Rest
<1>3. \A i \in H \union {d} : /\ J[i].parent = 0 /\ ~J[i].live /\ J[i].deblocker = 0
                              /\ J[i].disklabel = 0 /\ ~Helper(J[i])
    BY <1>0 DEF Rest
<1>4. \A i \in 1 .. Len(I) : i \notin H \union {d} => J[i] = I[i]
    BY <1>0 DEF Rest
<1>5. ASSUME NEW i \in 1 .. Len(I)
      PROVE  Entry(J, i)
    <2>1. CASE i \in H \union {d}
        <3>1. 0 \in 0 .. i - 1
            OBVIOUS
        <3> QED
            BY <1>3, <2>1, <3>1 DEF Entry
    <2>2. CASE i \notin H \union {d}
        <3> DEFINE p == I[i].parent
        <3>1. Entry(I, i) /\ J[i] = I[i]
            BY <1>1, <1>4, <2>2 DEF Shaped
        <3>2. p \in 0 .. i - 1 /\ (p # 0 => p \in 1 .. Len(I) /\ ~Helper(I[p]))
            BY <1>1, <3>1 DEF Entry
        <3>3. p # 0 => ~Helper(J[p]) /\ (J[p].live => J[p] = I[p])
            BY <1>3, <1>4, <3>2
        <3>4. \/ I[i].deblocker = 0 /\ I[i].disklabel = 0
              \/ /\ I[i].deblocker = i + 1 /\ I[i].disklabel = i + 2
                 /\ i \in Good(J) /\ I[i].pkg \in Disks
                 /\ i + 2 <= Len(J)
                 /\ HelperOf(J, i + 1, i) /\ HelperOf(J, i + 2, i)
            <4>1. CASE I[i].deblocker = 0 /\ I[i].disklabel = 0
                BY <4>1
            <4>2. CASE ~(I[i].deblocker = 0 /\ I[i].disklabel = 0)
                <5>1. /\ I[i].deblocker = i + 1 /\ I[i].disklabel = i + 2
                      /\ i \in Good(I) /\ I[i].pkg \in Disks
                      /\ i + 2 <= Len(I)
                      /\ HelperOf(I, i + 1, i) /\ HelperOf(I, i + 2, i)
                    BY <3>1, <4>2 DEF Entry
                <5>2. i + 1 \in 1 .. Len(I) /\ i + 2 \in 1 .. Len(I)
                    BY <1>1, <5>1
                <5>3. i + 1 \notin H \union {d} /\ i + 2 \notin H \union {d}
                    BY <1>1, <1>2, <2>2, <5>1 DEF HelperOf
                <5>4. J[i + 1] = I[i + 1] /\ J[i + 2] = I[i + 2]
                    BY <1>4, <5>2, <5>3
                <5>5. i \in Good(J)
                    BY <1>1, <3>1, <5>1 DEF Good
                <5> QED
                    BY <1>1, <5>1, <5>4, <5>5 DEF HelperOf
            <4> QED
                BY <4>1, <4>2
        <3>5. Helper(I[i]) =>
                  /\ p # 0
                  /\ I[i].live /\ I[i].phase = "open" /\ I[p].live =>
                        i \in {I[p].deblocker, I[p].disklabel}
            BY <3>1 DEF Entry
        <3> QED
            BY <3>1, <3>2, <3>3, <3>4, <3>5 DEF Entry
    <2> QED
        BY <2>1, <2>2
<1> QED
    BY <1>1, <1>5 DEF Shaped

LEMMA RemovedChains ==
    ASSUME NEW I, NEW J, NEW d, NEW H, NEW phase, Removable(I, J, d, H, phase)
    PROVE  /\ Good(J) = Good(I) \ {d}
           /\ Chain(I, d) = {d} \union Chain(I, I[d].parent)
           /\ d \notin Chain(I, I[d].parent)
           /\ I[d].parent \in 0 .. Len(I)
           /\ \A h \in 0 .. Len(I) :
                 Chain(I, h) \subseteq Good(I) /\ d \notin Chain(I, h) =>
                     Chain(J, h) = Chain(I, h)
<1>0. Rest(I, J, d, H, phase)
    BY RemovedEntries
<1>1. /\ Len(I) \in Nat /\ Len(J) = Len(I) /\ d \in 1 .. Len(I)
      /\ Shaped(I) /\ I[d].live /\ ~Helper(I[d])
    BY <1>0 DEF Removable, Rest
<1>2. Rising(I) /\ Rising(J)
    BY <1>1, RemovedShape, ShapedRises
<1>3. \A i \in H : i \in 1 .. Len(I) /\ Helper(I[i])
    BY <1>0 DEF Rest
<1>4. \A i \in H \union {d} : ~J[i].live
    BY <1>0 DEF Rest
<1>5. \A i \in 1 .. Len(I) : i \notin H \union {d} => J[i] = I[i]
    BY <1>0 DEF Rest
<1>6. Good(J) = Good(I) \ {d}
    <2>1. \A i \in 1 .. Len(I) : i \in Good(J) <=> i \in Good(I) /\ i # d
        <3> TAKE i \in 1 .. Len(I)
        <3>1. CASE i \in H \union {d}
            BY <1>1, <1>3, <1>4, <3>1 DEF Good
        <3>2. CASE i \notin H \union {d}
            BY <1>1, <1>5, <3>2 DEF Good
        <3> QED
            BY <3>1, <3>2
    <2>2. Good(I) \subseteq 1 .. Len(I) /\ Good(J) \subseteq 1 .. Len(I)
        BY <1>1 DEF Good
    <2> QED
        BY <2>1, <2>2
<1>7. I[d].parent \in 0 .. Len(I) /\ I[d].parent \in 0 .. d - 1
    BY <1>1, <1>2 DEF Rising
<1>8. Chain(I, d) = {d} \union Chain(I, I[d].parent)
    BY <1>1, <1>2, ChainEquation
<1>9. d \notin Chain(I, I[d].parent)
    <2>1. Chain(I, I[d].parent) \subseteq 1 .. I[d].parent
        BY <1>2, <1>7, ChainBelow
    <2> QED
        BY <1>1, <1>7, <2>1
<1>10. ASSUME NEW h \in 0 .. Len(I), Chain(I, h) \subseteq Good(I), d \notin Chain(I, h)
       PROVE  Chain(J, h) = Chain(I, h)
    <2>1. \A i \in Chain(I, h) : J[i].parent = I[i].parent
        BY <1>3, <1>5, <1>10 DEF Good
    <2> QED
        BY <1>1, <1>2, <2>1, ChainSame
<1> QED
    BY <1>6, <1>7, <1>8, <1>9, <1>10

\* Branches, and what belongs to whom, after an operation.

LEMMA GrownLine ==
    ASSUME NEW I, NEW J, NEW pkg, NEW parent, NEW by,
           NEW phase \in {"new", "open", "failed"},
           Shaped(I), Fits(I, pkg, parent), Grown(I, J, pkg, parent, by, phase),
           Unbranched(I), parent # 0 => Bare(I, parent)
    PROVE  /\ Unbranched(J) /\ Bare(J, Len(I) + 1)
           /\ \A t \in 1 .. Len(I) : Bare(I, t) /\ t # parent => Bare(J, t)
<1> DEFINE k == Len(I) + 1
<1>1. /\ Len(I) \in Nat /\ Len(J) \in k .. k + 2
      /\ \A i \in 1 .. Len(I) : J[i] = I[i]
      /\ J[k].parent = parent
    BY ShapedRises DEF Grown
<1>2. \A i \in 1 .. Len(I) : I[i].parent < k
    BY <1>1, ShapedRises DEF Rising
<1>3. ASSUME NEW j \in 1 .. Len(J), J[j].live, ~Helper(J[j])
      PROVE  j = k \/ (j \in 1 .. Len(I) /\ J[j] = I[j])
    <2>1. ASSUME j \in k + 1 .. Len(J)
          PROVE  FALSE
        <3>1. Helper(J[j]) \/ J[j] = Dead("closed")
            BY <2>1 DEF Grown
        <3>2. ~Dead("closed").live
            BY DeadFields
        <3> QED
            BY <1>3, <3>1, <3>2
    <2> QED
        BY <1>1, <2>1
<1>4. parent # k
    BY <1>1 DEF Fits
<1>5. Bare(J, k)
    BY <1>1, <1>2, <1>3, <1>4 DEF Bare
<1>6. \A t \in 1 .. Len(I) : Bare(I, t) /\ t # parent => Bare(J, t)
    BY <1>1, <1>3 DEF Bare
<1>7. Unbranched(J)
    <2> SUFFICES ASSUME NEW i \in 1 .. Len(J), NEW j \in 1 .. Len(J),
                        J[i].live, J[j].live, ~Helper(J[i]), ~Helper(J[j]),
                        J[i].parent = J[j].parent, J[i].parent # 0
                 PROVE  i = j
        BY DEF Unbranched
    <2>1. i = k \/ (i \in 1 .. Len(I) /\ J[i] = I[i])
        BY <1>3
    <2>2. j = k \/ (j \in 1 .. Len(I) /\ J[j] = I[j])
        BY <1>3
    <2> QED
        BY <1>1, <2>1, <2>2 DEF Unbranched, Bare
<1> QED
    BY <1>5, <1>6, <1>7

LEMMA RemovedLine ==
    ASSUME NEW I, NEW J, NEW d, NEW H, NEW phase, Removable(I, J, d, H, phase),
           Unbranched(I)
    PROVE  /\ Unbranched(J)
           /\ \A t : Bare(I, t) => Bare(J, t)
           /\ I[d].parent # 0 => Bare(J, I[d].parent)
<1>1. Rest(I, J, d, H, phase)
    BY RemovedEntries
<1>2. Len(J) = Len(I) /\ d \in 1 .. Len(I) /\ I[d].live /\ ~Helper(I[d])
    BY <1>1 DEF Rest, Removable
<1>3. ASSUME NEW j \in 1 .. Len(J), J[j].live
      PROVE  j \in 1 .. Len(I) /\ j # d /\ J[j] = I[j]
    BY <1>1, <1>3 DEF Rest
<1>4. Unbranched(J)
    BY <1>3 DEF Unbranched
<1>5. \A t : Bare(I, t) => Bare(J, t)
    BY <1>3 DEF Bare
<1>6. I[d].parent # 0 => Bare(J, I[d].parent)
    BY <1>2, <1>3 DEF Unbranched, Bare
<1> QED
    BY <1>4, <1>5, <1>6

LEMMA GrownOwned ==
    ASSUME NEW I, NEW J, NEW pkg, NEW parent, NEW by,
           NEW phase \in {"new", "open", "failed"},
           Shaped(I), Fits(I, pkg, parent), Grown(I, J, pkg, parent, by, phase),
           NEW S, NEW T, Owned(I, S),
           \A i \in 1 .. Len(I) : (\E t \in S : i \in Chain(I, t)) => \E t \in T : i \in Chain(J, t),
           phase = "open" => \E t \in T : Len(I) + 1 \in Chain(J, t)
    PROVE  Owned(J, T)
<1> DEFINE k == Len(I) + 1
<1>1. /\ Len(I) \in Nat /\ Len(J) \in k .. k + 2
      /\ \A i \in 1 .. Len(I) : J[i] = I[i]
      /\ J[k].pkg = pkg /\ J[k].live /\ J[k].phase = phase
    BY ShapedRises DEF Grown
<1>2. ~Helper(J[k])
    BY <1>1, NotHelper DEF Fits
<1> SUFFICES ASSUME NEW i \in 1 .. Len(J), J[i].phase = "open"
             PROVE  /\ J[i].live
                    /\ IF Helper(J[i]) THEN J[J[i].parent].live
                       ELSE \E t \in T : i \in Chain(J, t)
    BY DEF Owned
<1>3. CASE i \in 1 .. Len(I)
    <2>1. J[i] = I[i] /\ Entry(I, i)
        BY <1>1, <1>3 DEF Shaped
    <2>2. Helper(I[i]) => I[i].parent \in 1 .. Len(I)
        BY <1>1, <1>3, <2>1 DEF Entry
    <2> QED
        BY <1>1, <1>3, <2>1, <2>2 DEF Owned
<1>4. CASE i = k
    BY <1>1, <1>2, <1>4
<1>5. CASE i \in k + 1 .. Len(J)
    <2>1. (Helper(J[i]) /\ J[i].live /\ J[i].parent = k) \/ J[i] = Dead("closed")
        BY <1>5 DEF Grown
    <2>2. Dead("closed").phase = "closed"
        BY DeadFields
    <2> QED
        BY <1>1, <2>1, <2>2
<1> QED
    BY <1>1, <1>3, <1>4, <1>5

LEMMA RemovedOwned ==
    ASSUME NEW I, NEW J, NEW d, NEW H, NEW phase, Removable(I, J, d, H, phase),
           phase # "open", H = HelpersOf(I, d) \/ I[d].phase # "open",
           NEW S, NEW T, Owned(I, S),
           \A i \in 1 .. Len(I) \ {d} :
              (\E t \in S : i \in Chain(I, t)) => \E t \in T : i \in Chain(J, t)
    PROVE  Owned(J, T)
<1>1. Rest(I, J, d, H, phase)
    BY RemovedEntries
<1>2. /\ Len(J) = Len(I) /\ d \in 1 .. Len(I) /\ I[d].live /\ ~Helper(I[d]) /\ Shaped(I)
      /\ H = {} \/ H = HelpersOf(I, d)
    BY <1>1 DEF Rest, Removable
<1> SUFFICES ASSUME NEW i \in 1 .. Len(J), J[i].phase = "open"
             PROVE  /\ J[i].live
                    /\ IF Helper(J[i]) THEN J[J[i].parent].live
                       ELSE \E t \in T : i \in Chain(J, t)
    BY DEF Owned
<1>3. i \in 1 .. Len(I) /\ i \notin H \union {d} /\ J[i] = I[i]
    BY <1>1, <1>2 DEF Rest
<1>4. CASE Helper(I[i])
    <2> DEFINE p == I[i].parent
    <2>1. Entry(I, i) /\ Entry(I, d)
        BY <1>2, <1>3 DEF Shaped
    <2>2. I[i].live /\ I[p].live /\ p # 0 /\ p \in 1 .. Len(I) /\ ~Helper(I[p])
        BY <1>2, <1>3, <1>4, <2>1 DEF Owned, Entry
    <2>3. i \in {I[p].deblocker, I[p].disklabel}
        BY <1>3, <1>4, <2>1, <2>2 DEF Entry
    <2>4. p # d
        <3>1. SUFFICES ASSUME p = d
                       PROVE  FALSE
            OBVIOUS
        <3>2. i \in HelpersOf(I, d)
            BY <1>3, <2>3, <3>1 DEF HelpersOf
        <3>3. I[d].phase = "open"
            BY <1>3, <2>1, <2>3, <3>1 DEF Entry, Good
        <3> QED
            BY <1>3, <3>2, <3>3
    <2>5. p \notin H
        BY <1>1, <2>2 DEF Rest
    <2>6. J[p] = I[p]
        BY <1>1, <2>2, <2>4, <2>5 DEF Rest
    <2> QED
        BY <1>3, <1>4, <2>2, <2>6
<1>5. CASE ~Helper(I[i])
    BY <1>3, <1>5 DEF Owned
<1> QED
    BY <1>4, <1>5

-----------------------------------------------------------------------------
(* The tree. *)

\* The recursion of Above has a solution: one for the nodes of depth below any n,
\* and no node is deeper than there are nodes.
LEMMA AboveEquation ==
    Above = [p \in Packages |->
                IF p = Root THEN <<>> ELSE Append(Above[ParentOf[p]], ParentOf[p])]
<1>1. PICK depth \in [Packages -> 0 .. Cardinality(Packages)] :
          \A p \in Packages \ {Root} : depth[ParentOf[p]] < depth[p]
    BY ProperTree
<1>2. Cardinality(Packages) \in Nat
    BY ProperTree, FS_CardinalityType
<1> DEFINE D(n) == {p \in Packages : depth[p] < n}
           Up(g, S) == [p \in S |-> IF p = Root THEN <<>>
                                    ELSE Append(g[ParentOf[p]], ParentOf[p])]
           Solved(n) == \E g \in [D(n) -> Seq(Packages)] : g = Up(g, D(n))
           T == {n \in Nat : ~Solved(n)}
<1>3. CASE T # {}
    <2>1. PICK m \in T : \A k \in T : m <= k
        <3> HIDE DEF T
        <3>1. T \subseteq Nat
            BY DEF T
        <3> QED
            BY <1>3, <3>1, Least
    <2>2. m # 0
        <3>1. D(0) = {}
            BY <1>1, <1>2
        <3> DEFINE g == [p \in {} |-> <<>>]
        <3>2. g \in [{} -> Seq(Packages)] /\ g = Up(g, {})
            OBVIOUS
        <3>3. Solved(0)
            BY <3>1, <3>2
        <3> QED
            BY <3>3
    <2>3. m \in Nat /\ m - 1 \in Nat /\ m - 1 \notin T
        <3>1. T \subseteq Nat
            OBVIOUS
        <3> HIDE DEF T
        <3> QED
            BY <2>1, <2>2, <3>1
    <2>4. PICK g \in [D(m - 1) -> Seq(Packages)] : g = Up(g, D(m - 1))
        BY <2>3
    <2> DEFINE f == Up(g, D(m))
    <2>5. ASSUME NEW p \in D(m), p # Root
          PROVE  ParentOf[p] \in D(m - 1) /\ ParentOf[p] \in D(m)
        <3>1. p \in Packages \ {Root} /\ ParentOf[p] \in Packages
            BY <2>5, InstancesAssumption
        <3>2. depth[ParentOf[p]] < depth[p] /\ depth[p] < m
            BY <1>1, <3>1
        <3>3. depth[p] \in Nat /\ depth[ParentOf[p]] \in Nat
            BY <1>1, <1>2, <3>1
        <3> QED
            BY <2>3, <3>1, <3>2, <3>3
    <2>6. f \in [D(m) -> Seq(Packages)]
        <3>1. ASSUME NEW p \in D(m), p # Root
              PROVE  Append(g[ParentOf[p]], ParentOf[p]) \in Seq(Packages)
            <4>1. ParentOf[p] \in D(m - 1) /\ ParentOf[p] \in Packages
                BY <2>5, <3>1
            <4>2. g[ParentOf[p]] \in Seq(Packages)
                BY <2>4, <4>1
            <4> HIDE DEF D
            <4> QED
                BY <4>1, <4>2, AppendProperties
        <3>2. <<>> \in Seq(Packages)
            OBVIOUS
        <3> HIDE DEF D
        <3> QED
            BY <3>1, <3>2
    <2>7. \A q \in D(m - 1) : q \in D(m) /\ g[q] = f[q]
        <3>1. \A q \in D(m - 1) : q \in D(m)
            BY <1>1, <1>2, <2>3
        <3> HIDE DEF D
        <3> QED
            BY <2>4, <3>1
    <2>8. f = Up(f, D(m))
        <3>1. \A p \in D(m) : p # Root => g[ParentOf[p]] = f[ParentOf[p]]
            BY <2>5, <2>7
        <3> HIDE DEF D
        <3> QED
            BY <3>1
    <2>9. Solved(m)
        <3> HIDE DEF D, f, Up
        <3> QED
            BY <2>6, <2>8
    <2> QED
        BY <2>1, <2>9
<1>4. CASE T = {}
    <2> DEFINE N == Cardinality(Packages) + 1
    <2>1. Solved(N)
        <3>1. N \in Nat
            BY <1>2
        <3>2. N \notin T
            <4> HIDE DEF T
            <4> QED
                BY <1>4
        <3> HIDE DEF Solved, N
        <3> QED
            BY <3>1, <3>2
    <2>2. D(N) = Packages
        BY <1>1, <1>2
    <2>3. PICK g : g = Up(g, Packages)
        BY <2>1, <2>2
    <2>4. Above = CHOOSE h : h = Up(h, Packages)
        BY DEF Above
    <2>5. Above = Up(Above, Packages)
        <3> HIDE DEF Up
        <3> QED
            BY <2>3, <2>4
    <2> QED
        BY <2>5
<1> QED
    BY <1>3, <1>4

LEMMA AboveFacts ==
    /\ \A p \in Packages : Above[p] \in Seq(Packages)
    /\ Above[Root] = <<>>
    /\ \A p \in Packages \ {Root} :
          ParentOf[p] \in Packages /\ Above[p] = Append(Above[ParentOf[p]], ParentOf[p])
<1>1. \A p \in Packages : Above[p] = IF p = Root THEN <<>>
                                      ELSE Append(Above[ParentOf[p]], ParentOf[p])
    BY AboveEquation
<1>2. \A p \in Packages \ {Root} : ParentOf[p] \in Packages
    BY InstancesAssumption
<1>3. PICK depth \in [Packages -> 0 .. Cardinality(Packages)] :
          \A p \in Packages \ {Root} : depth[ParentOf[p]] < depth[p]
    BY ProperTree
<1>4. Cardinality(Packages) \in Nat
    BY ProperTree, FS_CardinalityType
<1> DEFINE T == {depth[p] : p \in {q \in Packages : Above[q] \notin Seq(Packages)}}
<1>5. T \subseteq Nat
    BY <1>3, <1>4
<1>6. CASE T # {}
    <2>1. PICK m \in T : \A k \in T : m <= k
        <3> HIDE DEF T
        <3> QED
            BY <1>5, <1>6, Least
    <2>2. PICK p \in Packages : Above[p] \notin Seq(Packages) /\ depth[p] = m
        OBVIOUS
    <2>3. p # Root
        <3>1. Above[Root] = <<>> /\ <<>> \in Seq(Packages)
            BY <1>1, InstancesAssumption
        <3> QED
            BY <2>2, <3>1
    <2>4. ParentOf[p] \in Packages /\ depth[ParentOf[p]] < depth[p]
        BY <1>2, <1>3, <2>3
    <2>5. depth[ParentOf[p]] \notin T
        <3>1. m \in Nat /\ depth[ParentOf[p]] \in Nat
            BY <1>3, <1>4, <1>5, <2>1, <2>4
        <3> HIDE DEF T
        <3> QED
            BY <2>1, <2>2, <2>4, <3>1
    <2>6. Above[ParentOf[p]] \in Seq(Packages)
        BY <2>4, <2>5
    <2>7. Above[p] = Append(Above[ParentOf[p]], ParentOf[p])
        BY <1>1, <2>3
    <2>8. Above[p] \in Seq(Packages)
        BY <2>4, <2>6, <2>7, AppendProperties
    <2> QED
        BY <2>2, <2>8
<1>7. CASE T = {}
    <2>1. \A p \in Packages : Above[p] \in Seq(Packages)
        <3> TAKE p \in Packages
        <3>1. Above[p] \notin Seq(Packages) => depth[p] \in T
            OBVIOUS
        <3> QED
            BY <1>7, <3>1
    <2>2. Root \in Packages
        BY InstancesAssumption
    <2> QED
        BY <1>1, <1>2, <2>1, <2>2
<1> QED
    BY <1>6, <1>7

\* What is above a node that is above another is what comes before it there.
Before(c) == \A i \in 1 .. Len(Above[c]) :
    /\ Above[c][i] \in Packages
    /\ Len(Above[Above[c][i]]) = i - 1
    /\ \A j \in 1 .. i - 1 : Above[Above[c][i]][j] = Above[c][j]

LEMMA AboveBefore == \A c \in Packages : Before(c)
<1>3. PICK depth \in [Packages -> 0 .. Cardinality(Packages)] :
          \A p \in Packages \ {Root} : depth[ParentOf[p]] < depth[p]
    BY ProperTree
<1>4. Cardinality(Packages) \in Nat
    BY ProperTree, FS_CardinalityType
<1> DEFINE T == {depth[p] : p \in {q \in Packages : ~Before(q)}}
<1>5. T \subseteq Nat
    BY <1>3, <1>4
<1>6. CASE T # {}
    <2>1. PICK m \in T : \A k \in T : m <= k
        <3> HIDE DEF T
        <3> QED
            BY <1>5, <1>6, Least
    <2>2. PICK c \in Packages : ~Before(c) /\ depth[c] = m
        OBVIOUS
    <2>3. c # Root
        BY <2>2, AboveFacts DEF Before
    <2> DEFINE p == ParentOf[c]
               A == Above[c]
               B == Above[p]
    <2>4. p \in Packages /\ A = Append(B, p) /\ B \in Seq(Packages) /\ depth[p] < depth[c]
        BY <1>3, <2>3, AboveFacts
    <2>5. depth[p] \notin T
        <3>1. m \in Nat /\ depth[p] \in Nat
            BY <1>3, <1>4, <1>5, <2>1, <2>4
        <3> HIDE DEF T, p
        <3> QED
            BY <2>1, <2>2, <2>4, <3>1
    <2>6. Before(p)
        BY <2>4, <2>5
    <2>7. /\ Len(B) \in Nat /\ Len(A) = Len(B) + 1
          /\ \A i \in 1 .. Len(B) : A[i] = B[i]
          /\ A[Len(B) + 1] = p
        <3> HIDE DEF A, B, p
        <3> QED
            BY <2>4, AppendProperties, LenProperties
    <2>8. ASSUME NEW i \in 1 .. Len(A)
          PROVE  /\ A[i] \in Packages
                 /\ Len(Above[A[i]]) = i - 1
                 /\ \A j \in 1 .. i - 1 : Above[A[i]][j] = A[j]
        <3>1. CASE i = Len(B) + 1
            <4>1. A[i] = p /\ Above[A[i]] = B /\ i - 1 = Len(B)
                BY <2>7, <3>1
            <4> HIDE DEF A, B, p
            <4> QED
                BY <2>4, <2>7, <4>1
        <3>2. CASE i # Len(B) + 1
            <4>1. i \in 1 .. Len(B)
                BY <2>7, <3>2
            <4>2. /\ B[i] \in Packages
                  /\ Len(Above[B[i]]) = i - 1
                  /\ \A j \in 1 .. i - 1 : Above[B[i]][j] = B[j]
                BY <2>6, <4>1 DEF Before
            <4>3. A[i] = B[i] /\ \A j \in 1 .. i - 1 : A[j] = B[j]
                BY <2>7, <4>1
            <4> HIDE DEF A, B, p
            <4> QED
                BY <4>2, <4>3
        <3> QED
            BY <3>1, <3>2
    <2>9. Before(c)
        BY <2>8 DEF Before
    <2> QED
        BY <2>2, <2>9
<1>7. CASE T = {}
    BY <1>7
<1> QED
    BY <1>6, <1>7

\* Going down from a node to one further down: the node below it is next, and
\* the rest of what was skipped is what that one skips.
LEMMA StepDown ==
    ASSUME NEW p \in Packages, NEW c \in Packages, Below(p, c)
    PROVE  /\ Skipped(p, c) \in Seq(Packages)
           /\ Skipped(p, c) = <<>> => Range(Above[c]) = {p} \union Range(Above[p])
           /\ Skipped(p, c) # <<>> =>
                 LET q == Head(Skipped(p, c)) IN
                 /\ q \in Packages /\ Below(q, c)
                 /\ Tail(Skipped(p, c)) = Skipped(q, c)
                 /\ Range(Above[q]) = {p} \union Range(Above[p])
<1> DEFINE A == Above[c]
           n == Len(A)
           s == Skipped(p, c)
<1>1. PICK i \in 1 .. n : A[i] = p
    BY DEF Below
<1>2. A \in Seq(Packages) /\ Above[p] \in Seq(Packages) /\ n \in Nat
    BY AboveFacts, LenProperties
<1>3. /\ Len(Above[p]) = i - 1
      /\ \A j \in 1 .. i - 1 : Above[p][j] = A[j]
    BY <1>1, AboveBefore DEF Before
<1>4. s = SubSeq(A, i + 1, n)
    BY <1>1, <1>2, <1>3 DEF Skipped
<1>5. /\ s \in Seq(Packages) /\ Len(s) = n - i
      /\ \A j \in 1 .. n - i : s[j] = A[i + j]
    <2>1. i + 1 \in 1 .. n + 1 /\ n \in i .. n /\ \A j \in i + 1 .. n : A[j] \in Packages
        BY <1>1, <1>2, ElementOfSeq
    <2> HIDE DEF A, n, s
    <2> QED
        BY <1>1, <1>2, <1>4, <2>1, SubSeqProperties
<1>6. Range(Above[p]) = {A[j] : j \in 1 .. i - 1}
    <2>1. DOMAIN Above[p] = 1 .. i - 1
        BY <1>2, <1>3, LenProperties
    <2> QED
        BY <1>3, <2>1 DEF Range
<1>7. CASE i = n
    <2>1. s = <<>>
        BY <1>2, <1>5, <1>7, EmptySeq
    <2>2. Range(A) = {A[j] : j \in 1 .. n}
        BY <1>2, LenProperties DEF Range
    <2>3. \A j \in 1 .. n : j = n \/ j \in 1 .. i - 1
        BY <1>2, <1>7
    <2>4. Range(A) = {p} \union Range(Above[p])
        BY <1>1, <1>2, <1>6, <1>7, <2>2, <2>3
    <2> QED
        BY <1>5, <2>1, <2>4
<1>8. CASE i # n
    <2> DEFINE q == A[i + 1]
    <2>1. i + 1 \in 1 .. n /\ i + 1 - 1 = i /\ q \in Packages
        BY <1>1, <1>2, <1>8, ElementOfSeq
    <2>2. s # <<>> /\ Head(s) = q /\ Tail(s) = SubSeq(A, i + 2, n)
        <3>1. i + 1 \in 1 .. n /\ n \in i + 1 .. n /\ i + 1 + 1 = i + 2
            BY <2>1
        <3>2. s # <<>>
            BY <1>1, <1>2, <1>5, <1>8, EmptySeq
        <3> HIDE DEF A, n, s
        <3>3. Head(s) = A[i + 1] /\ Tail(s) = SubSeq(A, i + 1 + 1, n)
            BY <1>2, <1>4, <3>1, HeadTailOfSubSeq
        <3> QED
            BY <3>1, <3>2, <3>3
    <2>3. /\ Len(Above[q]) = i
          /\ \A j \in 1 .. i : Above[q][j] = A[j]
        BY <2>1, AboveBefore DEF Before
    <2>4. Above[q] \in Seq(Packages)
        BY <2>1, AboveFacts
    <2>5. Below(q, c)
        BY <2>1 DEF Below
    <2>6. Range(Above[q]) = {A[j] : j \in 1 .. i}
        <3>1. DOMAIN Above[q] = 1 .. i
            BY <2>3, <2>4, LenProperties
        <3> QED
            BY <2>3, <3>1 DEF Range
    <2>7. Range(Above[q]) = {p} \union Range(Above[p])
        <3>1. \A j \in 1 .. i : j = i \/ j \in 1 .. i - 1
            BY <1>1, <1>2
        <3> QED
            BY <1>1, <1>6, <2>6, <3>1
    <2>8. Skipped(q, c) = SubSeq(A, i + 2, n)
        BY <2>3 DEF Skipped
    <2> QED
        BY <1>5, <2>1, <2>2, <2>5, <2>7, <2>8
<1> QED
    BY <1>7, <1>8

\* The nodes on a chain depend on its instances' packages only.
LEMMA SameNodes ==
    ASSUME NEW I, NEW J, NEW g, NEW h, Nodes(J, g) = Nodes(I, h),
           \A i \in Nodes(I, h) : J[i].pkg = I[i].pkg
    PROVE  /\ NodePkgs(J, g) = NodePkgs(I, h)
           /\ Ordered(I, h) => Ordered(J, g)
           /\ \A p : DownTo(I, h, p) => DownTo(J, g, p)
<1>1. NodePkgs(J, g) = NodePkgs(I, h)
    BY DEF NodePkgs
<1>2. Ordered(I, h) => Ordered(J, g)
    BY DEF Ordered
<1>3. \A p : DownTo(I, h, p) => DownTo(J, g, p)
    BY <1>1 DEF DownTo
<1> QED
    BY <1>1, <1>2, <1>3

LEMMA GrownNodes ==
    ASSUME NEW I, NEW J, NEW pkg, NEW parent, NEW by,
           NEW phase \in {"new", "open", "failed"},
           Shaped(I), Fits(I, pkg, parent), Grown(I, J, pkg, parent, by, phase)
    PROVE  /\ \A h \in 0 .. Len(I) :
                 /\ Ordered(I, h) => Ordered(J, h)
                 /\ \A p : DownTo(I, h, p) => DownTo(J, h, p)
           /\ pkg \notin Packages /\ Ordered(I, parent) => Ordered(J, Len(I) + 1)
           /\ \A p : pkg \notin Packages /\ DownTo(I, parent, p) => DownTo(J, Len(I) + 1, p)
           /\ pkg \in Packages /\ Ordered(I, parent)
                 /\ NodePkgs(I, parent) = Range(Above[pkg])
                 => Ordered(J, Len(I) + 1) /\ DownTo(J, Len(I) + 1, pkg)
<1> DEFINE k == Len(I) + 1
<1>1. /\ Len(I) \in Nat /\ Rising(I)
      /\ \A i \in 1 .. Len(I) : J[i] = I[i]
      /\ J[k].pkg = pkg
    BY ShapedRises DEF Grown
<1>2. /\ \A h \in 0 .. Len(I) : Chain(J, h) = Chain(I, h)
      /\ Chain(J, k) = {k} \union Chain(I, parent)
    BY GrownChains
<1>3. \A h \in 0 .. Len(I) : Chain(I, h) \subseteq 1 .. Len(I)
    <2> TAKE h \in 0 .. Len(I)
    <2>1. Chain(I, h) \subseteq 1 .. h
        BY <1>1, ChainBelow
    <2> QED
        BY <1>1, <2>1
<1>4. ASSUME NEW h \in 0 .. Len(I)
      PROVE  Nodes(J, h) = Nodes(I, h) /\ \A i \in Nodes(I, h) : J[i].pkg = I[i].pkg
    <2>1. \A i \in Chain(I, h) : J[i] = I[i]
        BY <1>1, <1>3
    <2> QED
        BY <1>2, <2>1 DEF Nodes
<1>5. ASSUME NEW h \in 0 .. Len(I)
      PROVE  /\ Ordered(I, h) => Ordered(J, h)
             /\ \A p : DownTo(I, h, p) => DownTo(J, h, p)
    BY <1>4, SameNodes
<1>6. parent \in 0 .. Len(I) /\ \A i \in Chain(I, parent) : J[i] = I[i] /\ i < k
    BY <1>1, <1>3 DEF Fits
<1>7. CASE pkg \notin Packages
    <2>1. Nodes(J, k) = Nodes(I, parent) /\ \A i \in Nodes(I, parent) : J[i].pkg = I[i].pkg
        BY <1>1, <1>2, <1>6, <1>7 DEF Nodes
    <2>2. /\ Ordered(I, parent) => Ordered(J, k)
          /\ \A p : DownTo(I, parent, p) => DownTo(J, k, p)
        BY <2>1, SameNodes
    <2> QED
        BY <1>5, <1>7, <2>2
<1>8. CASE pkg \in Packages
    <2> SUFFICES ASSUME Ordered(I, parent), NodePkgs(I, parent) = Range(Above[pkg])
                 PROVE  Ordered(J, k) /\ DownTo(J, k, pkg)
        BY <1>5, <1>8
    <2>1. /\ Nodes(J, k) = {k} \union Nodes(I, parent)
          /\ \A i \in Nodes(I, parent) : J[i].pkg = I[i].pkg /\ i < k /\ i \in Nat
        BY <1>1, <1>2, <1>3, <1>6, <1>8 DEF Nodes
    <2>2. NodePkgs(J, k) = {pkg} \union NodePkgs(I, parent)
        <3>1. NodePkgs(J, k) = {J[i].pkg : i \in {k} \union Nodes(I, parent)}
            BY <2>1 DEF NodePkgs
        <3> QED
            BY <1>1, <2>1, <3>1 DEF NodePkgs
    <2>3. DownTo(J, k, pkg)
        BY <1>1, <2>1, <2>2 DEF DownTo
    <2>4. \A i \in Nodes(I, parent) : I[i].pkg \in Range(Above[pkg])
        BY DEF NodePkgs
    <2>5. Ordered(J, k)
        <3> SUFFICES ASSUME NEW i \in Nodes(J, k), NEW j \in Nodes(J, k), i < j
                     PROVE  J[i].pkg \in Range(Above[J[j].pkg])
            BY DEF Ordered
        <3>1. i \in Nodes(I, parent) /\ J[i].pkg = I[i].pkg
            BY <1>1, <2>1
        <3>2. CASE j = k
            BY <1>1, <2>4, <3>1, <3>2
        <3>3. CASE j # k
            BY <2>1, <3>1, <3>3 DEF Ordered
        <3> QED
            BY <3>2, <3>3
    <2> QED
        BY <2>3, <2>5
<1> QED
    BY <1>7, <1>8

LEMMA RemovedNodes ==
    ASSUME NEW I, NEW J, NEW d, NEW H, NEW phase, Removable(I, J, d, H, phase),
           NEW h \in 0 .. Len(I), Chain(I, h) \subseteq Good(I), d \notin Chain(I, h)
    PROVE  /\ Ordered(I, h) => Ordered(J, h)
           /\ \A p : DownTo(I, h, p) => DownTo(J, h, p)
<1>1. Rest(I, J, d, H, phase)
    BY RemovedEntries
<1>2. Chain(J, h) = Chain(I, h)
    BY RemovedChains
<1>3. \A i \in Chain(I, h) : J[i] = I[i]
    BY <1>1 DEF Rest, Good
<1>4. Nodes(J, h) = Nodes(I, h) /\ \A i \in Nodes(I, h) : J[i].pkg = I[i].pkg
    BY <1>2, <1>3 DEF Nodes
<1> QED
    BY <1>4, SameNodes

LEMMA RemovedAsked ==
    ASSUME NEW I, NEW J, NEW d, NEW H, NEW phase, Removable(I, J, d, H, phase), Asked(I)
    PROVE  Asked(J)
<1>1. Rest(I, J, d, H, phase)
    BY RemovedEntries
<1> QED
    BY <1>1 DEF Rest, Asked

LEMMA GrownAsked ==
    ASSUME NEW I, NEW J, NEW pkg, NEW parent, NEW by,
           NEW phase \in {"new", "open", "failed"},
           Shaped(I), Grown(I, J, pkg, parent, by, phase), Asked(I), by # 0 => by = parent
    PROVE  Asked(J)
<1>1. Len(I) \in Nat
    BY ShapedRises
<1> QED
    BY <1>1 DEF Asked, Grown

-----------------------------------------------------------------------------
(* The invariant through the steps that open a package. *)

\* An instance is put on top of the last one of the call.
PutOnTop(pkg, by, phase) ==
    /\ Building /\ pkg \in Packages \union Interposers \union {None}
    /\ phase \in {"new", "open", "failed"}
    /\ Grown(insts, insts', pkg, call.parent, by, phase) /\ Len(insts') <= MaxInst
    /\ currinst' = Fresh
    /\ call' \in Calls /\ call'.inst = Fresh /\ call'.parent = Fresh
    /\ call'.saveinst = call.saveinst /\ call'.savepkg = call.savepkg
    /\ call'.pc \in IF phase = "open" THEN {"descend", "interpose", "done"} ELSE {"clean"}
    /\ call'.pc = "interpose" => call'.next \in {"descend", "done"}
    /\ ipos' \in [pkg : Interposers \union {None}, by : 0 .. Fresh]
    /\ mishap # "interpose" =>
          /\ by # 0 => by = call.parent
          /\ IF call'.pc = "interpose" THEN ipos'.by = Fresh ELSE ipos' = NoInterposer
    /\ mishap \notin {"chain", "memory"} =>
          IF call.pc \in {"open", "last"} THEN pkg = currpkg ELSE pkg \notin Packages
    /\ UNCHANGED <<currpkg, handles, prompt, calls, mishap, node, misused>>

LEMMA NotInit ==
    ASSUME NEW I, Len(I) \in Nat, Len(I) <= MaxInst
    PROVE  InitInst \notin 0 .. Len(I) /\ InitInst # 0 /\ InitInst \in Nat
BY InstancesAssumption DEF InitInst

\* The instance that is to be built upon.
LEMMA Foundation ==
    ASSUME InstInv, Building
    PROVE  /\ Shaped(insts) /\ Len(insts) \in Nat
           /\ call.parent \in 0 .. Len(insts) /\ call.inst \in 0 .. Len(insts)
           /\ Chain(insts, call.parent) \subseteq Good(insts)
           /\ call.parent # 0 => ~Helper(insts[call.parent])
           /\ \A h \in handles : Chain(insts, call.parent) \cap Chain(insts, h) = {}
           /\ call.saveinst \notin Chain(insts, call.parent)
           /\ ~Quiet /\ call.pc # "clean" /\ Tops = {call.parent, call.inst}
           /\ \A h \in handles : h # call.parent /\ h \in 1 .. Len(insts)
<1>1. Shaped(insts)
    BY DEF InstInv, InstTypeOK, Shape, Shaped
<1>2. Rising(insts) /\ Len(insts) \in Nat
    BY <1>1, ShapedRises
<1>3. call.parent \in 0 .. Len(insts) /\ call.inst \in 0 .. Len(insts)
    BY DEF InstInv, CallTyped
<1>4. ~Quiet /\ call.pc # "clean" /\ Tops = {call.parent, call.inst}
    BY DEF Building, Quiet, Tops
<1>5. /\ Chain(insts, call.parent) \subseteq Good(insts)
      /\ \A h \in handles : Chain(insts, call.parent) \cap Chain(insts, h) = {}
      /\ call.saveinst \notin Chain(insts, call.parent)
    BY <1>4 DEF InstInv, ChainsOK, SelfOK
<1>6. call.parent # 0 => call.parent \in Chain(insts, call.parent)
    BY <1>2, <1>3, ChainEquation
<1>7. call.parent # 0 => ~Helper(insts[call.parent])
    BY <1>5, <1>6 DEF Good
<1>8. \A h \in handles : h # call.parent /\ h \in 1 .. Len(insts)
    <2> TAKE h \in handles
    <2>1. h \in 1 .. Len(insts)
        BY DEF InstInv, CallTyped
    <2>2. h \in Chain(insts, h)
        BY <1>2, <2>1, ChainEquation
    <2> QED
        BY <1>5, <1>6, <2>1, <2>2
<1> QED
    BY <1>1, <1>2, <1>3, <1>4, <1>5, <1>7, <1>8

LEMMA OnTopKeeps ==
    ASSUME InstInv, NEW pkg, NEW by, NEW phase, PutOnTop(pkg, by, phase)
    PROVE  InstInv'
<1> DEFINE k == Fresh
           J == insts'
<1>1. /\ Building /\ pkg \in Packages \union Interposers \union {None}
      /\ phase \in {"new", "open", "failed"}
      /\ Grown(insts, J, pkg, call.parent, by, phase) /\ Len(J) <= MaxInst
      /\ currinst' = k
      /\ call' \in Calls /\ call'.inst = k /\ call'.parent = k
      /\ call'.saveinst = call.saveinst /\ call'.savepkg = call.savepkg
      /\ call'.pc \in IF phase = "open" THEN {"descend", "interpose", "done"} ELSE {"clean"}
      /\ call'.pc = "interpose" => call'.next \in {"descend", "done"}
      /\ ipos' \in [pkg : Interposers \union {None}, by : 0 .. k]
      /\ currpkg' = currpkg /\ handles' = handles /\ prompt' = prompt
      /\ calls' = calls /\ mishap' = mishap /\ node' = node /\ misused' = misused
    BY DEF PutOnTop
<1>2. /\ Shaped(insts) /\ Len(insts) \in Nat
      /\ call.parent \in 0 .. Len(insts) /\ call.inst \in 0 .. Len(insts)
      /\ Chain(insts, call.parent) \subseteq Good(insts)
      /\ call.parent # 0 => ~Helper(insts[call.parent])
      /\ \A h \in handles : Chain(insts, call.parent) \cap Chain(insts, h) = {}
      /\ call.saveinst \notin Chain(insts, call.parent)
      /\ ~Quiet /\ call.pc # "clean" /\ Tops = {call.parent, call.inst}
      /\ \A h \in handles : h # call.parent /\ h \in 1 .. Len(insts)
    BY <1>1, Foundation
<1>3. Fits(insts, pkg, call.parent)
    BY <1>1, <1>2 DEF Fits
<1>4. Shaped(J)
    BY <1>1, <1>2, <1>3, GrownShape
<1>5. /\ \A h \in 0 .. Len(insts) : Chain(J, h) = Chain(insts, h)
      /\ Chain(J, k) = {k} \union Chain(insts, call.parent)
      /\ Good(J) = Good(insts) \union (IF phase = "open" THEN {k} ELSE {})
    <2> HIDE DEF J
    <2>2. Grown(insts, J, pkg, call.parent, by, phase) /\ phase \in {"new", "open", "failed"}
        BY <1>1
    <2>1. /\ \A h \in 0 .. Len(insts) : Chain(J, h) = Chain(insts, h)
          /\ Chain(J, Len(insts) + 1) = {Len(insts) + 1} \union Chain(insts, call.parent)
          /\ Good(J) = Good(insts) \union (IF phase = "open" THEN {Len(insts) + 1} ELSE {})
        BY <1>2, <1>3, <2>2, GrownChains
    <2> QED
        BY <2>1 DEF Fresh
<1>6. k = Len(insts) + 1 /\ k \in 1 .. Len(J) /\ Len(J) \in Nat /\ Len(insts) <= Len(J)
      /\ k # 0
    BY <1>1, <1>2 DEF Grown, Fresh
<1>7. Tops' = {k} /\ ~Quiet'
    <2>1. call'.pc \in {"descend", "interpose", "done", "clean"}
        BY <1>1
    <2> QED
        BY <1>1, <2>1 DEF Tops, Building, Quiet
<1> HIDE DEF k, J
<1>8. InstTypeOK'
    <2>1. insts' \in Seq(Records) /\ Len(insts') <= MaxInst
        BY <1>1, <1>4 DEF Shaped, J
    <2>2. /\ MaxInst \in Nat /\ 0 .. k \subseteq 0 .. MaxInst /\ k \in 0 .. MaxInst
          /\ k \in 0 .. InitInst
        BY <1>1, <1>6, InstancesAssumption DEF InitInst
    <2> QED
        BY <1>1, <2>1, <2>2 DEF InstInv, InstTypeOK, Calls
<1>9. CallTyped'
    <2>1. k \in 0 .. Len(insts') /\ 0 .. Len(insts) \subseteq 0 .. Len(insts') /\ k \in Nat
          /\ 0 .. k \subseteq 0 .. Len(insts') /\ 1 .. Len(insts) \subseteq 1 .. Len(insts')
        BY <1>2, <1>6 DEF J
    <2>2. ipos' \in [pkg : Interposers \union {None}, by : Nat] /\ ipos'.by \in 0 .. k
        BY <1>1, <1>6
    <2>3. call'.pc \in {"descend", "interpose", "done", "clean"}
        BY <1>1
    <2>4. ~Skipping'
        BY <1>1, <2>3 DEF Skipping
    <2>5. /\ {call'.inst, call'.parent, ipos'.by} \subseteq 0 .. Len(insts')
          /\ {call'.saveinst, currinst'} \subseteq 0 .. Len(insts') \union {InitInst}
        BY <1>1, <2>1, <2>2 DEF InstInv, CallTyped
    <2>7. currpkg' \in Packages \union {None}
        BY <1>1 DEF InstInv, CallTyped
    <2>6. handles' \subseteq 1 .. Len(insts') /\ prompt' \in [inst : Nat, pkg : Active]
        BY <1>1, <2>1 DEF InstInv, CallTyped
    <2> QED
        BY <1>1, <1>6, <2>2, <2>3, <2>4, <2>5, <2>6, <2>7 DEF CallTyped
<1>10. Shape'
    BY <1>4 DEF Shape, Shaped, J
<1>11. ChainsOK'
    <2>1. \A h \in handles' : h \in 0 .. Len(insts) /\ Chain(insts', h) = Chain(insts, h)
        BY <1>1, <1>2, <1>5 DEF J
    <2>2. \A h \in handles' : /\ Chain(insts, h) \subseteq Good(insts)
                              /\ k \notin Chain(insts, h)
        <3>1. Good(insts) \subseteq 1 .. Len(insts)
            BY DEF Good
        <3>2. k \notin 1 .. Len(insts)
            BY <1>2, <1>6
        <3> QED
            BY <1>1, <3>1, <3>2 DEF InstInv, ChainsOK
    <2>3. \A h \in handles' : Chain(insts', h) \subseteq Good(insts')
        BY <1>5, <2>1, <2>2 DEF J
    <2>4. \A g, h \in handles' : g # h => Chain(insts', g) \cap Chain(insts', h) = {}
        BY <1>1, <2>1 DEF InstInv, ChainsOK
    <2>5. \A h \in handles' : Chain(insts', k) \cap Chain(insts', h) = {}
        BY <1>1, <1>2, <1>5, <2>1, <2>2 DEF J
    <2>6. Chain(insts', k) \subseteq Good(insts') \union
                             (IF call'.pc = "clean" THEN {call'.inst} ELSE {})
        BY <1>1, <1>2, <1>5 DEF J
    <2>7. insts'[k].live /\ ~Helper(insts'[k])
        <3>1. insts'[k].live /\ insts'[k].pkg = pkg
            BY <1>1, <1>6 DEF Grown, J
        <3> QED
            BY <1>1, <3>1, NotHelper
    <2> QED
        BY <1>1, <1>7, <2>3, <2>4, <2>5, <2>6, <2>7 DEF ChainsOK
<1>12. SelfOK'
    <2>1. call'.saveinst \in Good(insts') \union {0, InitInst}
        BY <1>1, <1>2, <1>5 DEF InstInv, SelfOK, J
    <2>2. call'.saveinst \notin Chain(insts', k)
        <3>1. call.saveinst # k
            BY <1>1, <1>2, <1>6, NotInit DEF InstInv, CallTyped, J
        <3> QED
            BY <1>1, <1>2, <1>5, <3>1 DEF J
    <2>3. call'.pc \notin {"open", "last"}
        BY <1>1
    <2> QED
        BY <1>1, <1>7, <2>1, <2>2, <2>3 DEF SelfOK
<1>13. PromptOK'
    <2>1. call'.pc \notin {"idle", "close"}
        BY <1>1
    <2> QED
        BY <1>1, <1>2, <2>1 DEF InstInv, PromptOK
<1>14. IposOK'
    <2> SUFFICES ASSUME mishap # "interpose"
                 PROVE  IposOK'
        BY <1>1 DEF IposOK
    <2>1. /\ by # 0 => by = call.parent
          /\ IF call'.pc = "interpose" THEN ipos'.by = k ELSE ipos' = NoInterposer
        BY DEF PutOnTop, k
    <2>2. Asked(insts)
        BY DEF InstInv, IposOK
    <2>3. Asked(J)
        BY <1>1, <1>2, <2>1, <2>2, GrownAsked
    <2> QED
        BY <1>1, <2>1, <2>3 DEF IposOK, J
<1>15. LineOK'
    <2> SUFFICES ASSUME mishap \notin {"chain", "memory"}
                 PROVE  LineOK'
        BY <1>1 DEF LineOK
    <2>1. /\ Unbranched(insts) /\ \A h \in handles : Bare(insts, h)
          /\ call.parent # 0 => Bare(insts, call.parent)
        BY <1>1 DEF InstInv, LineOK
    <2>2. /\ Unbranched(J) /\ Bare(J, k)
          /\ \A t \in 1 .. Len(insts) : Bare(insts, t) /\ t # call.parent => Bare(J, t)
        BY <1>1, <1>2, <1>3, <1>6, <2>1, GrownLine
    <2>3. \A h \in handles' : Bare(insts', h)
        BY <1>1, <1>2, <2>1, <2>2 DEF J
    <2>4. call'.pc # "chain"
        BY <1>1
    <2> QED
        BY <1>1, <2>2, <2>3, <2>4 DEF LineOK, J
<1>16. OwnedOK'
    <2> SUFFICES ASSUME mishap \in {"none", "interpose"}
                 PROVE  OwnedOK'
        BY <1>1 DEF OwnedOK
    <2>1. Owned(insts, handles \union Tops)
        BY DEF InstInv, OwnedOK
    <2>2. Chain(insts, call.inst) \subseteq Chain(insts, call.parent)
        BY <1>1 DEF InstInv, LineOK
    <2> DEFINE S == handles \union Tops
               T == handles \union {k}
    <2>3. ASSUME NEW i \in 1 .. Len(insts), NEW t \in S, i \in Chain(insts, t)
          PROVE  \E u \in T : i \in Chain(J, u)
        <3>1. CASE t \in handles
            <4>1. Chain(J, t) = Chain(insts, t)
                BY <1>2, <1>5, <3>1
            <4> QED
                BY <2>3, <3>1, <4>1
        <3>2. CASE t \notin handles
            <4>1. i \in Chain(insts, call.parent)
                BY <1>2, <2>2, <2>3, <3>2
            <4> QED
                BY <1>5, <4>1
        <3> QED
            BY <3>1, <3>2
    <2>4. k \in T /\ k \in Chain(J, k)
        BY <1>5
    <2> HIDE DEF S, T
    <2>5. Owned(J, T)
        BY <1>1, <1>2, <1>3, <1>6, <2>1, <2>3, <2>4, GrownOwned DEF S
    <2>6. call'.pc = "clean" => insts'[call'.inst].phase # "open"
        <3>1. insts'[k].phase = phase
            BY <1>1, <1>6 DEF Grown, J
        <3> QED
            BY <1>1, <3>1
    <2> QED
        BY <1>1, <1>7, <2>5, <2>6 DEF OwnedOK, T, J
<1>17. AncestorsOK'
    <2> SUFFICES ASSUME mishap \notin {"chain", "memory"}
                 PROVE  AncestorsOK'
        BY <1>1 DEF AncestorsOK
    <2>1. /\ \A h \in handles : Ordered(insts, h) /\ \E p \in Packages : DownTo(insts, h, p)
          /\ currpkg \in Packages /\ Ordered(insts, call.parent)
          /\ IF call.pc \in {"open", "last"}
             THEN NodePkgs(insts, call.parent) = Range(Above[currpkg])
             ELSE DownTo(insts, call.parent, currpkg)
        BY <1>1 DEF InstInv, AncestorsOK
    <2>2. IF call.pc \in {"open", "last"} THEN pkg = currpkg ELSE pkg \notin Packages
        BY DEF PutOnTop
    <2>3. /\ \A h \in 0 .. Len(insts) :
                /\ Ordered(insts, h) => Ordered(J, h)
                /\ \A p : DownTo(insts, h, p) => DownTo(J, h, p)
          /\ pkg \notin Packages /\ Ordered(insts, call.parent) => Ordered(J, k)
          /\ \A p : pkg \notin Packages /\ DownTo(insts, call.parent, p) => DownTo(J, k, p)
          /\ pkg \in Packages /\ Ordered(insts, call.parent)
                /\ NodePkgs(insts, call.parent) = Range(Above[pkg])
                => Ordered(J, k) /\ DownTo(J, k, pkg)
        BY <1>1, <1>2, <1>3, <1>6, GrownNodes
    <2>4. \A h \in handles' : Ordered(insts', h) /\ \E p \in Packages : DownTo(insts', h, p)
        BY <1>1, <1>2, <2>1, <2>3 DEF J
    <2>5. Ordered(insts', k) /\ DownTo(insts', k, currpkg)
        <3>1. CASE call.pc \in {"open", "last"}
            BY <2>1, <2>2, <2>3, <3>1 DEF J
        <3>2. CASE call.pc \notin {"open", "last"}
            BY <2>1, <2>2, <2>3, <3>2 DEF J
        <3> QED
            BY <3>1, <3>2
    <2>6. ~Skipping' /\ call'.pc \notin {"open", "last"}
        BY <1>1 DEF Skipping
    <2> QED
        BY <1>1, <2>1, <2>4, <2>5, <2>6 DEF AncestorsOK
<1>18. NodeOK'
    BY <1>1 DEF InstInv, NodeOK
<1> QED
    BY <1>8, <1>9, <1>10, <1>11, <1>12, <1>13, <1>14, <1>15, <1>16, <1>17, <1>18 DEF InstInv

\* An instance of a skipped node, or of an interposer on top of one.
PutInChain(pkg, by, phase) ==
    /\ Skipping /\ pkg \in Packages \union Interposers \union {None}
    /\ phase \in {"open", "failed"}
    /\ Grown(insts, insts', pkg, call.parent, by, phase) /\ Len(insts') <= MaxInst
    /\ currinst' = Fresh
    /\ call' \in Calls /\ call'.inst = call.inst /\ call'.path = call.path
    /\ call'.saveinst = call.saveinst /\ call'.savepkg = call.savepkg
    /\ phase = "open" => call'.parent = Fresh /\ call'.pc \in {"chain", "interpose"}
    /\ phase = "failed" => call'.parent = 0 /\ call'.pc = "chain" /\ mishap = "chain"
    /\ call'.pc = "interpose" => call'.next = "chain"
    /\ ipos' \in [pkg : Interposers \union {None}, by : 0 .. Fresh]
    /\ mishap # "interpose" =>
          /\ by # 0 => by = call.parent
          /\ IF call'.pc = "interpose" THEN ipos'.by = Fresh ELSE ipos' = NoInterposer
    /\ currpkg' \in Packages \union {None}
    /\ mishap \notin {"chain", "memory"} =>
          IF call.pc = "chain"
          THEN /\ call.chain # <<>> /\ pkg = Head(call.chain)
               /\ currpkg' = pkg /\ call'.chain = Tail(call.chain)
          ELSE pkg \notin Packages /\ currpkg' = currpkg /\ call'.chain = call.chain
    /\ UNCHANGED <<handles, prompt, calls, mishap, node, misused>>

LEMMA InChainKeeps ==
    ASSUME InstInv, NEW pkg, NEW by, NEW phase, PutInChain(pkg, by, phase)
    PROVE  InstInv'
<1> DEFINE k == Fresh
           J == insts'
<1>1. /\ Building /\ Skipping /\ pkg \in Packages \union Interposers \union {None}
      /\ phase \in {"new", "open", "failed"} /\ phase \in {"open", "failed"}
      /\ Grown(insts, J, pkg, call.parent, by, phase) /\ Len(J) <= MaxInst
      /\ currinst' = k
      /\ call' \in Calls /\ call'.inst = call.inst /\ call'.path = call.path
      /\ call'.saveinst = call.saveinst /\ call'.savepkg = call.savepkg
      /\ phase = "open" => call'.parent = k /\ call'.pc \in {"chain", "interpose"}
      /\ phase = "failed" => call'.parent = 0 /\ call'.pc = "chain" /\ mishap = "chain"
      /\ call'.pc = "interpose" => call'.next = "chain"
      /\ ipos' \in [pkg : Interposers \union {None}, by : 0 .. k]
      /\ currpkg' \in Packages \union {None} /\ handles' = handles /\ prompt' = prompt
      /\ calls' = calls /\ mishap' = mishap /\ node' = node /\ misused' = misused
    BY DEF PutInChain, Skipping, Building
<1>2. /\ Shaped(insts) /\ Len(insts) \in Nat
      /\ call.parent \in 0 .. Len(insts) /\ call.inst \in 0 .. Len(insts)
      /\ Chain(insts, call.parent) \subseteq Good(insts)
      /\ call.parent # 0 => ~Helper(insts[call.parent])
      /\ \A h \in handles : Chain(insts, call.parent) \cap Chain(insts, h) = {}
      /\ call.saveinst \notin Chain(insts, call.parent)
      /\ ~Quiet /\ call.pc # "clean" /\ Tops = {call.parent, call.inst}
      /\ \A h \in handles : h # call.parent /\ h \in 1 .. Len(insts)
    BY <1>1, Foundation
<1>3. Fits(insts, pkg, call.parent)
    BY <1>1, <1>2 DEF Fits
<1>4. Shaped(J)
    BY <1>1, <1>2, <1>3, GrownShape
<1>5. /\ \A h \in 0 .. Len(insts) : Chain(J, h) = Chain(insts, h)
      /\ Chain(J, k) = {k} \union Chain(insts, call.parent)
      /\ Good(J) = Good(insts) \union (IF phase = "open" THEN {k} ELSE {})
    <2> HIDE DEF J
    <2>2. Grown(insts, J, pkg, call.parent, by, phase) /\ phase \in {"new", "open", "failed"}
        BY <1>1
    <2>1. /\ \A h \in 0 .. Len(insts) : Chain(J, h) = Chain(insts, h)
          /\ Chain(J, Len(insts) + 1) = {Len(insts) + 1} \union Chain(insts, call.parent)
          /\ Good(J) = Good(insts) \union (IF phase = "open" THEN {Len(insts) + 1} ELSE {})
        BY <1>2, <1>3, <2>2, GrownChains
    <2> QED
        BY <2>1 DEF Fresh
<1>6. k = Len(insts) + 1 /\ k \in 1 .. Len(J) /\ Len(J) \in Nat /\ Len(insts) <= Len(J)
      /\ k # 0
    BY <1>1, <1>2 DEF Grown, Fresh
<1>7. /\ Tops' = {call'.parent, call.inst} /\ ~Quiet' /\ Building' /\ Skipping'
      /\ call'.pc \in {"chain", "interpose"} /\ call'.parent \in {0, k}
      /\ call'.pc = "interpose" => call'.parent = k
    <2>1. call'.pc \in {"chain", "interpose"}
        BY <1>1
    <2> QED
        BY <1>1, <2>1 DEF Tops, Building, Quiet, Skipping
<1> HIDE DEF k, J
<1>8. InstTypeOK'
    <2>1. insts' \in Seq(Records) /\ Len(insts') <= MaxInst
        BY <1>1, <1>4 DEF Shaped, J
    <2>2. /\ MaxInst \in Nat /\ 0 .. k \subseteq 0 .. MaxInst /\ k \in 0 .. MaxInst
          /\ 0 \in 0 .. MaxInst /\ k \in 0 .. InitInst
        BY <1>1, <1>6, InstancesAssumption DEF InitInst
    <2>3. currpkg' \in Active
        BY <1>1 DEF Active
    <2> QED
        BY <1>1, <1>7, <2>1, <2>2, <2>3 DEF InstInv, InstTypeOK, Calls
<1>9. CallTyped'
    <2>1. k \in 0 .. Len(insts') /\ 0 .. Len(insts) \subseteq 0 .. Len(insts') /\ k \in Nat
          /\ 0 .. k \subseteq 0 .. Len(insts') /\ 1 .. Len(insts) \subseteq 1 .. Len(insts')
          /\ 0 \in 0 .. Len(insts')
        BY <1>2, <1>6 DEF J
    <2>2. ipos' \in [pkg : Interposers \union {None}, by : Nat] /\ ipos'.by \in 0 .. k
        BY <1>1, <1>6
    <2>3. /\ {call'.inst, call'.parent, ipos'.by} \subseteq 0 .. Len(insts')
          /\ {call'.saveinst, currinst'} \subseteq 0 .. Len(insts') \union {InitInst}
        BY <1>1, <1>7, <2>1, <2>2 DEF InstInv, CallTyped
    <2>4. handles' \subseteq 1 .. Len(insts') /\ prompt' \in [inst : Nat, pkg : Active]
        BY <1>1, <2>1 DEF InstInv, CallTyped
    <2>5. call.path # <<>> /\ Head(call.path) \in Packages
        BY <1>1 DEF InstInv, CallTyped
    <2> QED
        BY <1>1, <1>6, <1>7, <2>2, <2>3, <2>4, <2>5 DEF CallTyped
<1>10. Shape'
    BY <1>4 DEF Shape, Shaped, J
<1>c. Chain(J, 0) = {} /\ Chain(J, call.inst) = Chain(insts, call.inst)
    <2>1. Rising(J)
        BY <1>4, ShapedRises
    <2> QED
        BY <1>2, <1>5, <2>1, ChainEquation
<1>11. ChainsOK'
    <2>1. \A h \in handles' : h \in 0 .. Len(insts) /\ Chain(insts', h) = Chain(insts, h)
        BY <1>1, <1>2, <1>5 DEF J
    <2>2. \A h \in handles' : /\ Chain(insts, h) \subseteq Good(insts)
                              /\ k \notin Chain(insts, h)
        <3>1. Good(insts) \subseteq 1 .. Len(insts)
            BY DEF Good
        <3>2. k \notin 1 .. Len(insts)
            BY <1>2, <1>6
        <3> QED
            BY <1>1, <3>1, <3>2 DEF InstInv, ChainsOK
    <2>3. \A h \in handles' : Chain(insts', h) \subseteq Good(insts')
        BY <1>5, <2>1, <2>2 DEF J
    <2>4. \A g, h \in handles' : g # h => Chain(insts', g) \cap Chain(insts', h) = {}
        BY <1>1, <2>1 DEF InstInv, ChainsOK
    <2>5. \A h \in handles' : /\ Chain(insts', k) \cap Chain(insts', h) = {}
                              /\ Chain(insts', 0) \cap Chain(insts', h) = {}
        BY <1>1, <1>2, <1>5, <1>c, <2>1, <2>2 DEF J
    <2>6. phase = "open" => Chain(insts', k) \subseteq Good(insts')
        BY <1>1, <1>2, <1>5 DEF J
    <2>7. Chain(insts', call'.parent) \subseteq Good(insts')
        <3>1. CASE phase = "open"
            BY <1>1, <2>6, <3>1
        <3>2. CASE phase = "failed"
            BY <1>1, <1>c, <3>2 DEF J
        <3> QED
            BY <1>1, <3>1, <3>2
    <2>8. \A h \in handles' : Chain(insts', call'.parent) \cap Chain(insts', h) = {}
        BY <1>7, <2>5
    <2>9. /\ Chain(insts', call.inst) \subseteq Good(insts')
          /\ \A h \in handles' : Chain(insts', call.inst) \cap Chain(insts', h) = {}
        <3>1. /\ Chain(insts, call.inst) \subseteq Good(insts)
              /\ \A h \in handles : Chain(insts, call.inst) \cap Chain(insts, h) = {}
            BY <1>2 DEF InstInv, ChainsOK
        <3> QED
            BY <1>1, <1>5, <1>c, <2>1, <3>1 DEF J
    <2>10. call'.pc # "clean"
        BY <1>7
    <2> QED
        BY <1>7, <2>3, <2>4, <2>7, <2>8, <2>9, <2>10 DEF ChainsOK
<1>12. SelfOK'
    <2>1. call'.saveinst \in Good(insts') \union {0, InitInst}
        BY <1>1, <1>2, <1>5 DEF InstInv, SelfOK, J
    <2>2. call'.saveinst \notin Chain(insts', k)
        <3>1. call.saveinst # k
            BY <1>1, <1>2, <1>6, NotInit DEF InstInv, CallTyped, J
        <3> QED
            BY <1>1, <1>2, <1>5, <3>1 DEF J
    <2>3. call'.saveinst \notin Chain(insts', call.inst) /\ call'.saveinst \notin Chain(insts', 0)
        BY <1>1, <1>2, <1>c DEF InstInv, SelfOK, J
    <2>4. \A t \in Tops' : call'.saveinst \notin Chain(insts', t)
        BY <1>7, <2>2, <2>3
    <2> QED
        BY <1>1, <1>6, <1>7, <2>1, <2>4 DEF SelfOK
<1>13. PromptOK'
    <2>1. call'.pc \notin {"idle", "close"}
        BY <1>7
    <2> QED
        BY <1>1, <1>2, <2>1 DEF InstInv, PromptOK
<1>14. IposOK'
    <2> SUFFICES ASSUME mishap # "interpose"
                 PROVE  IposOK'
        BY <1>1 DEF IposOK
    <2>1. /\ by # 0 => by = call.parent
          /\ IF call'.pc = "interpose" THEN ipos'.by = k ELSE ipos' = NoInterposer
        BY DEF PutInChain, k
    <2>2. Asked(insts)
        BY DEF InstInv, IposOK
    <2>3. Asked(J)
        BY <1>1, <1>2, <2>1, <2>2, GrownAsked
    <2> QED
        BY <1>1, <1>7, <2>1, <2>3 DEF IposOK, J
<1>15. LineOK'
    <2> SUFFICES ASSUME mishap \notin {"chain", "memory"}
                 PROVE  LineOK'
        BY <1>1 DEF LineOK
    <2>1. /\ Unbranched(insts) /\ \A h \in handles : Bare(insts, h)
          /\ call.parent # 0 => Bare(insts, call.parent)
          /\ Chain(insts, call.inst) \subseteq Chain(insts, call.parent)
        BY <1>1 DEF InstInv, LineOK
    <2>2. /\ Unbranched(J) /\ Bare(J, k)
          /\ \A t \in 1 .. Len(insts) : Bare(insts, t) /\ t # call.parent => Bare(J, t)
        BY <1>1, <1>2, <1>3, <1>6, <2>1, GrownLine
    <2>3. \A h \in handles' : Bare(insts', h)
        BY <1>1, <1>2, <2>1, <2>2 DEF J
    <2>4. call'.parent = k
        BY <1>1
    <2>5. Chain(insts', call.inst) \subseteq Chain(insts', k)
        BY <1>5, <1>c, <2>1 DEF J
    <2>6. call'.pc \notin {"clean", "close"}
        BY <1>7
    <2> QED
        BY <1>1, <1>6, <2>2, <2>3, <2>4, <2>5, <2>6 DEF LineOK, J
<1>16. OwnedOK'
    <2> SUFFICES ASSUME mishap \in {"none", "interpose"}
                 PROVE  OwnedOK'
        BY <1>1 DEF OwnedOK
    <2>1. Owned(insts, handles \union Tops)
        BY DEF InstInv, OwnedOK
    <2>2. Chain(insts, call.inst) \subseteq Chain(insts, call.parent)
        BY <1>1 DEF InstInv, LineOK
    <2>3. call'.parent = k
        BY <1>1
    <2> DEFINE S == handles \union Tops
               T == handles \union {k, call.inst}
    <2>4. ASSUME NEW i \in 1 .. Len(insts), NEW t \in S, i \in Chain(insts, t)
          PROVE  \E u \in T : i \in Chain(J, u)
        <3>1. CASE t \in handles
            <4>1. Chain(J, t) = Chain(insts, t)
                BY <1>2, <1>5, <3>1
            <4> QED
                BY <2>4, <3>1, <4>1
        <3>2. CASE t \notin handles
            <4>1. i \in Chain(insts, call.parent)
                BY <1>2, <2>2, <2>4, <3>2
            <4> QED
                BY <1>5, <4>1
        <3> QED
            BY <3>1, <3>2
    <2>5. k \in T /\ k \in Chain(J, k)
        BY <1>5
    <2> HIDE DEF S, T
    <2>6. Owned(J, T)
        BY <1>1, <1>2, <1>3, <1>6, <2>1, <2>4, <2>5, GrownOwned DEF S
    <2>7. call'.pc # "clean"
        BY <1>7
    <2> QED
        BY <1>1, <1>7, <2>3, <2>6, <2>7 DEF OwnedOK, T, J
<1>17. AncestorsOK'
    <2> SUFFICES ASSUME mishap \notin {"chain", "memory"}
                 PROVE  AncestorsOK'
        BY <1>1 DEF AncestorsOK
    <2> DEFINE c == Head(call.path)
    <2>1. /\ \A h \in handles : Ordered(insts, h) /\ \E p \in Packages : DownTo(insts, h, p)
          /\ currpkg \in Packages /\ Ordered(insts, call.parent)
          /\ DownTo(insts, call.parent, currpkg)
          /\ Found /\ call.chain = Skipped(currpkg, c)
        BY <1>1 DEF InstInv, AncestorsOK, Skipping
    <2>2. IF call.pc = "chain"
          THEN /\ call.chain # <<>> /\ pkg = Head(call.chain)
               /\ currpkg' = pkg /\ call'.chain = Tail(call.chain)
          ELSE pkg \notin Packages /\ currpkg' = currpkg /\ call'.chain = call.chain
        BY DEF PutInChain
    <2>3. /\ \A h \in 0 .. Len(insts) :
                /\ Ordered(insts, h) => Ordered(J, h)
                /\ \A p : DownTo(insts, h, p) => DownTo(J, h, p)
          /\ pkg \notin Packages /\ Ordered(insts, call.parent) => Ordered(J, k)
          /\ \A p : pkg \notin Packages /\ DownTo(insts, call.parent, p) => DownTo(J, k, p)
          /\ pkg \in Packages /\ Ordered(insts, call.parent)
                /\ NodePkgs(insts, call.parent) = Range(Above[pkg])
                => Ordered(J, k) /\ DownTo(J, k, pkg)
        BY <1>1, <1>2, <1>3, <1>6, GrownNodes
    <2>4. \A h \in handles' : Ordered(insts', h) /\ \E p \in Packages : DownTo(insts', h, p)
        BY <1>1, <1>2, <2>1, <2>3 DEF J
    <2>5. call.path # <<>> /\ c \in Packages /\ Below(currpkg, c)
        BY <2>1 DEF Found, Below
    <2> HIDE DEF c
    <2>6. CASE call.pc = "chain"
        <3>1. /\ pkg \in Packages /\ Below(pkg, c) /\ Tail(call.chain) = Skipped(pkg, c)
              /\ Range(Above[pkg]) = {currpkg} \union Range(Above[currpkg])
            <4>1. /\ Skipped(currpkg, c) # <<>> /\ pkg = Head(Skipped(currpkg, c))
                  /\ currpkg \in Packages
                BY <2>1, <2>2, <2>6
            <4>2. LET q == Head(Skipped(currpkg, c)) IN
                  /\ q \in Packages /\ Below(q, c)
                  /\ Tail(Skipped(currpkg, c)) = Skipped(q, c)
                  /\ Range(Above[q]) = {currpkg} \union Range(Above[currpkg])
                BY <2>5, <4>1, StepDown
            <4> QED
                BY <2>1, <4>1, <4>2
        <3>2. NodePkgs(insts, call.parent) = Range(Above[pkg])
            BY <2>1, <3>1 DEF DownTo
        <3>3. Ordered(insts', k) /\ DownTo(insts', k, pkg)
            BY <2>1, <2>3, <3>1, <3>2 DEF J
        <3>4. Found' /\ call'.chain = Skipped(pkg, c)
            BY <1>1, <2>2, <2>5, <2>6, <3>1 DEF Found, c
        <3> QED
            BY <1>1, <1>7, <2>2, <2>4, <2>6, <3>1, <3>3, <3>4 DEF AncestorsOK, c
    <2>7. CASE call.pc # "chain"
        <3>1. Ordered(insts', k) /\ DownTo(insts', k, currpkg)
            BY <2>1, <2>2, <2>3, <2>7 DEF J
        <3>2. Found' /\ call'.chain = Skipped(currpkg, c) /\ currpkg' = currpkg
            BY <1>1, <2>1, <2>2, <2>5, <2>7 DEF Found
        <3> QED
            BY <1>1, <1>7, <2>1, <2>4, <3>1, <3>2 DEF AncestorsOK, c
    <2> QED
        BY <2>6, <2>7
<1>18. NodeOK'
    BY <1>1 DEF InstInv, NodeOK
<1> QED
    BY <1>8, <1>9, <1>10, <1>11, <1>12, <1>13, <1>14, <1>15, <1>16, <1>17, <1>18 DEF InstInv

-----------------------------------------------------------------------------
(* The invariant through the steps that delete an instance. *)

\* The last instance of the call, or the next of those below it.
TakeAway(d, H, phase) ==
    /\ d \in 1 .. Len(insts)
    /\ d = IF call.pc = "unwind" THEN call.parent ELSE call.inst
    /\ Removed(insts, insts', d, H, phase)
    /\ call' \in Calls
    /\ call'.saveinst = call.saveinst /\ call'.savepkg = call.savepkg
    /\ \/ /\ call.pc = "clean" /\ H = {} /\ phase = insts[d].phase
          /\ call'.pc = "unwind" /\ call'.parent = insts[d].parent /\ call'.inst = call.inst
          /\ currinst' = currinst /\ currpkg' = currpkg
       \/ /\ call.pc = "unwind" /\ H = HelpersOf(insts, d) /\ phase = "closed"
          /\ call'.pc = "unwind" /\ call'.parent = insts[d].parent /\ call'.inst = call.inst
          /\ currinst' = currinst /\ currpkg' = currpkg
       \/ /\ call.pc = "close" /\ H = HelpersOf(insts, d) /\ phase = "closed"
          /\ call'.pc = "close" /\ call'.inst = insts[d].parent /\ call'.parent = call.parent
          /\ currinst' = IF currinst = d THEN 0 ELSE currinst
          /\ currpkg' \in Active
    /\ UNCHANGED <<ipos, handles, prompt, calls, mishap, node, misused>>

LEMMA TakenIsRemovable ==
    ASSUME InstInv, NEW d, NEW H, NEW phase, TakeAway(d, H, phase)
    PROVE  /\ Removable(insts, insts', d, H, phase) /\ Tops = {d}
           /\ Chain(insts, insts[d].parent) \subseteq Good(insts)
<1>1. /\ d \in 1 .. Len(insts) /\ call.pc \in {"clean", "unwind", "close"}
      /\ d = IF call.pc = "unwind" THEN call.parent ELSE call.inst
      /\ H = {} \/ H = HelpersOf(insts, d)
      /\ Removed(insts, insts', d, H, phase)
    BY DEF TakeAway
<1>2. Shaped(insts)
    BY DEF InstInv, InstTypeOK, Shape, Shaped
<1>3. Rising(insts) /\ Len(insts) \in Nat
    BY <1>2, ShapedRises
<1>4. Tops = {d}
    BY <1>1 DEF Tops, Building
<1>5. /\ Chain(insts, d) = {d} \union Chain(insts, insts[d].parent)
      /\ insts[d].parent \in 0 .. d - 1 /\ insts[d].parent \in 0 .. Len(insts)
    BY <1>1, <1>3, ChainEquation DEF Rising
<1>6. d \notin Chain(insts, insts[d].parent)
    <2>1. Chain(insts, insts[d].parent) \subseteq 1 .. insts[d].parent
        BY <1>3, <1>5, ChainBelow
    <2> QED
        BY <1>1, <1>5, <2>1
<1>7. Chain(insts, d) \subseteq Good(insts) \union (IF call.pc = "clean" THEN {d} ELSE {})
    BY <1>1, <1>4 DEF InstInv, ChainsOK
<1>8. Chain(insts, insts[d].parent) \subseteq Good(insts)
    BY <1>5, <1>6, <1>7
<1>9. insts[d].live /\ ~Helper(insts[d])
    <2>1. CASE call.pc = "clean"
        BY <1>1, <2>1 DEF InstInv, ChainsOK
    <2>2. CASE call.pc # "clean"
        BY <1>5, <1>7, <2>2 DEF Good
    <2> QED
        BY <2>1, <2>2
<1> QED
    BY <1>1, <1>2, <1>4, <1>8, <1>9 DEF Removable

LEMMA TakingKeeps ==
    ASSUME InstInv, NEW d, NEW H, NEW phase, TakeAway(d, H, phase)
    PROVE  InstInv'
<1> DEFINE J == insts'
           q == insts[d].parent
<1>1. /\ d \in 1 .. Len(insts) /\ call.pc \in {"clean", "unwind", "close"}
      /\ call' \in Calls
      /\ call'.saveinst = call.saveinst /\ call'.savepkg = call.savepkg
      /\ call'.pc = IF call.pc = "close" THEN "close" ELSE "unwind"
      /\ call'.parent = IF call.pc = "close" THEN call.parent ELSE q
      /\ call'.inst = IF call.pc = "close" THEN q ELSE call.inst
      /\ ipos' = ipos /\ handles' = handles /\ prompt' = prompt /\ calls' = calls
      /\ mishap' = mishap /\ node' = node /\ misused' = misused /\ currpkg' \in Active
    BY DEF TakeAway, InstInv, InstTypeOK
<1>2. /\ Removable(insts, J, d, H, phase) /\ Tops = {d}
      /\ Chain(insts, q) \subseteq Good(insts)
    BY TakenIsRemovable
<1>3. Shaped(J)
    BY <1>2, RemovedShape
<1>4. /\ Good(J) = Good(insts) \ {d}
      /\ Chain(insts, d) = {d} \union Chain(insts, q)
      /\ d \notin Chain(insts, q)
      /\ q \in 0 .. Len(insts)
      /\ \A h \in 0 .. Len(insts) :
            Chain(insts, h) \subseteq Good(insts) /\ d \notin Chain(insts, h) =>
                Chain(J, h) = Chain(insts, h)
    BY <1>2, RemovedChains
<1>5. Len(insts) \in Nat /\ Len(J) = Len(insts) /\ J \in Seq(Records)
    <2>1. Rest(insts, J, d, H, phase)
        BY <1>2, RemovedEntries
    <2> QED
        BY <2>1 DEF Rest
<1> HIDE DEF J, q
<1>6. Chain(J, q) = Chain(insts, q)
    BY <1>2, <1>4
<1>7. \A h \in handles : /\ h \in 1 .. Len(insts) /\ h \in 0 .. Len(insts)
                         /\ Chain(insts, h) \subseteq Good(insts)
                         /\ d \notin Chain(insts, h) /\ Chain(J, h) = Chain(insts, h)
    <2> TAKE h \in handles
    <2>1. h \in 1 .. Len(insts) /\ h \in 0 .. Len(insts)
        BY <1>5 DEF InstInv, CallTyped
    <2>2. Chain(insts, h) \subseteq Good(insts) /\ Chain(insts, d) \cap Chain(insts, h) = {}
        BY <1>2 DEF InstInv, ChainsOK
    <2>3. d \notin Chain(insts, h)
        BY <1>4, <2>2
    <2> QED
        BY <1>4, <2>1, <2>2, <2>3
<1>8. Tops' = {q} /\ ~Building'
    BY <1>1 DEF Tops, Building
<1>9. InstTypeOK'
    <2>1. insts' \in Seq(Records) /\ Len(insts') = Len(insts)
        BY <1>5 DEF J
    <2>2. q \in 0 .. MaxInst
        BY <1>4, <1>5, InstancesAssumption DEF InstInv, InstTypeOK
    <2>3. currinst' \in 0 .. InitInst
        BY InstancesAssumption DEF TakeAway, InstInv, InstTypeOK, InitInst
    <2> QED
        BY <1>1, <2>1, <2>2, <2>3 DEF InstInv, InstTypeOK, Calls
<1>10. CallTyped'
    <2>1. Len(insts') = Len(insts)
        BY <1>5 DEF J
    <2>2. currinst' \in 0 .. Len(insts) \union {InitInst}
        BY <1>5 DEF TakeAway, InstInv, CallTyped
    <2>3. ~Skipping' /\ call'.pc \in {"close", "unwind"}
        BY <1>1 DEF Skipping
    <2> QED
        BY <1>1, <1>4, <1>8, <2>1, <2>2, <2>3 DEF InstInv, CallTyped
<1>11. Shape'
    BY <1>3 DEF Shape, Shaped, J
<1>12. ChainsOK'
    <2>1. \A h \in handles' : Chain(insts', h) = Chain(insts, h) /\ Chain(insts, h) \subseteq Good(insts')
        BY <1>1, <1>4, <1>7 DEF J
    <2>2. \A g, h \in handles' : g # h => Chain(insts', g) \cap Chain(insts', h) = {}
        BY <1>1, <2>1 DEF InstInv, ChainsOK
    <2>3. Chain(insts', q) \subseteq Good(insts')
        BY <1>2, <1>4, <1>6 DEF J, q
    <2>4. \A h \in handles' : Chain(insts', q) \cap Chain(insts', h) = {}
        <3>1. \A h \in handles : Chain(insts, d) \cap Chain(insts, h) = {}
            BY <1>2 DEF InstInv, ChainsOK
        <3> QED
            BY <1>1, <1>4, <1>6, <2>1, <3>1 DEF J
    <2>5. call'.pc # "clean"
        BY <1>1
    <2> QED
        BY <1>8, <2>1, <2>2, <2>3, <2>4, <2>5 DEF ChainsOK
<1>13. SelfOK'
    <2>1. CASE call.pc = "close"
        <3>1. currinst \in Good(insts) \union {0, InitInst}
            BY <2>1 DEF InstInv, SelfOK, Quiet
        <3>2. currinst' = IF currinst = d THEN 0 ELSE currinst
            BY <2>1 DEF TakeAway
        <3>3. currinst' \in Good(insts') \union {0, InitInst}
            BY <1>4, <3>1, <3>2 DEF J
        <3> QED
            BY <1>1, <2>1, <3>3 DEF SelfOK, Quiet
    <2>2. CASE call.pc # "close"
        <3>1. /\ call.saveinst \in Good(insts) \union {0, InitInst}
              /\ call.saveinst \notin Chain(insts, d)
            BY <1>1, <1>2, <2>2 DEF InstInv, SelfOK, Quiet
        <3>2. /\ call'.saveinst \in Good(insts') \union {0, InitInst}
              /\ call'.saveinst \notin Chain(insts', q)
            BY <1>1, <1>4, <1>6, <3>1 DEF J
        <3>3. call'.pc = "unwind"
            BY <1>1, <2>2
        <3> QED
            BY <1>8, <3>2, <3>3 DEF SelfOK, Quiet
    <2> QED
        BY <2>1, <2>2
<1>14. PromptOK'
    <2> SUFFICES ASSUME mishap # "memory"
                 PROVE  PromptOK'
        BY <1>1 DEF PromptOK
    <2>1. CASE call.pc = "close"
        <3>1. /\ prompt = [inst |-> IF currinst \in handles \union {InitInst} THEN currinst ELSE 0,
                           pkg |-> call.savepkg]
              /\ currinst \in handles \union {0, InitInst} \union Chain(insts, call.inst)
            BY <2>1 DEF InstInv, PromptOK
        <3>2. currinst' = IF currinst = d THEN 0 ELSE currinst
            BY <2>1 DEF TakeAway
        <3>3. call.inst = d /\ call'.inst = q /\ call'.pc = "close"
            BY <1>1, <2>1 DEF TakeAway
        <3>4. d \notin handles /\ 0 \notin handles
            <4>1. \A h \in handles : h \in Chain(insts, h)
                <5>1. Rising(insts)
                    BY <1>2, ShapedRises DEF Removable
                <5> QED
                    BY <1>7, <5>1, ChainEquation
            <4> QED
                BY <1>7, <4>1
        <3>7. d # InitInst /\ InitInst # 0
            BY <1>1, <1>5, NotInit DEF InstInv, InstTypeOK
        <3>5. currinst' \in handles \union {0, InitInst} \union Chain(insts', q)
            BY <1>4, <1>6, <3>1, <3>2, <3>3 DEF J
        <3>6. (IF currinst' \in handles \union {InitInst} THEN currinst' ELSE 0) =
              (IF currinst \in handles \union {InitInst} THEN currinst ELSE 0)
            BY <3>2, <3>4, <3>7
        <3> QED
            BY <1>1, <3>1, <3>3, <3>5, <3>6 DEF PromptOK, Quiet
    <2>2. CASE call.pc # "close"
        <3>1. call'.pc = "unwind"
            BY <1>1, <2>2
        <3> QED
            BY <1>1, <2>2, <3>1 DEF InstInv, PromptOK, Quiet
    <2> QED
        BY <2>1, <2>2
<1>15. IposOK'
    <2>1. mishap # "interpose" => Asked(J)
        BY <1>2, RemovedAsked DEF InstInv, IposOK
    <2> QED
        BY <1>1, <2>1 DEF InstInv, IposOK, J
<1>16. LineOK'
    <2> SUFFICES ASSUME mishap \notin {"chain", "memory"}
                 PROVE  LineOK'
        BY <1>1 DEF LineOK
    <2>1. Unbranched(insts) /\ \A h \in handles : Bare(insts, h)
        BY DEF InstInv, LineOK
    <2>2. /\ Unbranched(J)
          /\ \A t : Bare(insts, t) => Bare(J, t)
          /\ q # 0 => Bare(J, q)
        BY <1>2, <2>1, RemovedLine DEF q
    <2>3. call'.pc \in {"unwind", "close"}
        BY <1>1
    <2> QED
        BY <1>1, <1>8, <2>1, <2>2, <2>3 DEF LineOK, J
<1>17. OwnedOK'
    <2> SUFFICES ASSUME mishap \in {"none", "interpose"}
                 PROVE  OwnedOK'
        BY <1>1 DEF OwnedOK
    <2>1. Owned(insts, handles \union {d})
        BY <1>2 DEF InstInv, OwnedOK
    <2>2. phase # "open" /\ (H = HelpersOf(insts, d) \/ insts[d].phase # "open")
        <3>1. call.pc = "clean" => d = call.inst /\ insts[d].phase # "open"
            <4>1. call.pc = "clean" => d = call.inst
                BY DEF TakeAway
            <4> QED
                BY <1>1, <4>1 DEF InstInv, OwnedOK
        <3> QED
            BY <3>1 DEF TakeAway
    <2> DEFINE S == handles \union {d}
               T == handles \union {q}
    <2>3. ASSUME NEW i \in 1 .. Len(insts) \ {d}, NEW t \in S, i \in Chain(insts, t)
          PROVE  \E u \in T : i \in Chain(J, u)
        <3>1. CASE t \in handles
            BY <1>7, <2>3, <3>1
        <3>2. CASE t = d
            BY <1>4, <1>6, <2>3, <3>2
        <3> QED
            BY <3>1, <3>2
    <2> HIDE DEF S, T
    <2>4. Owned(J, T)
        BY <1>2, <2>1, <2>2, <2>3, RemovedOwned DEF S
    <2>5. call'.pc # "clean"
        BY <1>1
    <2> QED
        BY <1>1, <1>8, <2>4, <2>5 DEF OwnedOK, T, J
<1>18. AncestorsOK'
    <2> SUFFICES ASSUME mishap \notin {"chain", "memory"}
                 PROVE  AncestorsOK'
        BY <1>1 DEF AncestorsOK
    <2>1. \A h \in handles : Ordered(insts, h) /\ \E p \in Packages : DownTo(insts, h, p)
        BY DEF InstInv, AncestorsOK
    <2>2. \A h \in handles : Ordered(J, h) /\ \E p \in Packages : DownTo(J, h, p)
        BY <1>2, <1>7, <2>1, RemovedNodes
    <2>3. ~Skipping'
        BY <1>1 DEF Skipping
    <2> QED
        BY <1>1, <1>8, <2>2, <2>3 DEF AncestorsOK, J
<1>19. NodeOK'
    BY <1>1 DEF InstInv, NodeOK
<1> QED
    BY <1>9, <1>10, <1>11, <1>12, <1>13, <1>14, <1>15, <1>16, <1>17, <1>18, <1>19 DEF InstInv

-----------------------------------------------------------------------------
(* The invariant through the other steps. *)

LEMMA WhatHolds ==
    ASSUME InstInv
    PROVE  /\ Shaped(insts) /\ Rising(insts) /\ Len(insts) \in Nat /\ Len(insts) <= MaxInst
           /\ Chain(insts, 0) = {}
           /\ \A h \in handles : /\ h \in 1 .. Len(insts) /\ h \in Chain(insts, h)
                                 /\ Chain(insts, h) \subseteq Good(insts)
           /\ Good(insts) \subseteq 1 .. Len(insts)
<1>1. Shaped(insts)
    BY DEF InstInv, InstTypeOK, Shape, Shaped
<1>2. Rising(insts) /\ Len(insts) \in Nat
    BY <1>1, ShapedRises
<1>3. \A h \in handles : h \in 1 .. Len(insts) /\ Chain(insts, h) \subseteq Good(insts)
    BY DEF InstInv, CallTyped, ChainsOK
<1>4. \A h \in handles : h \in Chain(insts, h)
    BY <1>2, <1>3, ChainEquation
<1>5. Chain(insts, 0) = {}
    BY <1>2, ChainEquation
<1> QED
    BY <1>1, <1>2, <1>3, <1>4, <1>5 DEF InstInv, InstTypeOK, Good

LEMMA OwnedMore ==
    ASSUME NEW I, NEW S, NEW T, Owned(I, S),
           \A i : (\E t \in S : i \in Chain(I, t)) => \E t \in T : i \in Chain(I, t)
    PROVE  Owned(I, T)
BY DEF Owned

LEMMA IdleFields ==
    /\ Idle \in Calls /\ Idle.pc = "idle" /\ Idle.inst = 0 /\ Idle.parent = 0
    /\ Idle.saveinst = 0 /\ Idle.next = "idle"
<1>1. <<>> \in Seq(Names) /\ <<>> \in Seq(Packages)
    OBVIOUS
<1> QED
    BY <1>1 DEF Active, Idle, Calls

LEMMA PathsTyped == \A path \in Paths : path \in Seq(Names)
<1> TAKE path \in Paths
<1>1. path \in Seq(Range(path)) /\ Range(path) \subseteq Names
    BY ProperTree DEF Names
<1> QED
    BY <1>1, SeqMonotonic

\* Looking up a path begins.
LEMMA BeginKeeps ==
    ASSUME InstInv, NEW context \in {"open", "exec"}, NEW path \in Paths,
           BeginResolve(context, path)
    PROVE  InstInv'
<1>1. /\ call = Idle /\ calls' = calls + 1 /\ calls < MaxCalls /\ currpkg' = Root
      /\ insts' = insts /\ currinst' = currinst /\ ipos' = ipos /\ handles' = handles
      /\ prompt' = prompt /\ mishap' = mishap /\ node' = node /\ misused' = misused
    BY DEF BeginResolve, LookUp
<1>2. /\ Shaped(insts) /\ Rising(insts) /\ Len(insts) \in Nat /\ Len(insts) <= MaxInst
      /\ Chain(insts, 0) = {}
      /\ \A h \in handles : /\ h \in 1 .. Len(insts) /\ h \in Chain(insts, h)
                            /\ Chain(insts, h) \subseteq Good(insts)
      /\ Good(insts) \subseteq 1 .. Len(insts)
    BY WhatHolds
<1>3. call.pc = "idle" /\ call.inst = 0 /\ call.parent = 0
    BY <1>1, IdleFields
<1>4. /\ call' \in Calls /\ call'.pc \in {"open", "last"} /\ call'.inst = 0 /\ call'.parent = 0
      /\ call'.saveinst = currinst /\ call'.savepkg = currpkg
    <2>1. currinst \in Nat /\ currpkg \in Active /\ path \in Seq(Names)
        BY PathsTyped, InstancesAssumption DEF InstInv, InstTypeOK, InitInst
    <2> QED
        BY <2>1, IdleFields DEF BeginResolve, Calls, Idle
<1>5. Tops = {} /\ Tops' = {0} /\ Building' /\ ~Quiet' /\ Quiet /\ ~Skipping'
    BY <1>3, <1>4 DEF Tops, Building, Quiet, Skipping
<1>6. InstTypeOK'
    BY <1>1, <1>4, InstancesAssumption DEF InstInv, InstTypeOK, Calls, Active
<1>7. CallTyped'
    BY <1>1, <1>2, <1>4, <1>5, InstancesAssumption DEF InstInv, CallTyped
<1>8. Shape'
    BY <1>1 DEF InstInv, Shape
<1>9. ChainsOK'
    BY <1>1, <1>2, <1>4, <1>5 DEF InstInv, ChainsOK
<1>10. SelfOK'
    BY <1>1, <1>2, <1>4, <1>5 DEF InstInv, SelfOK
<1>11. PromptOK'
    BY <1>1, <1>3, <1>4, <1>5 DEF InstInv, PromptOK
<1>12. IposOK'
    BY <1>1, <1>3, <1>4 DEF InstInv, IposOK
<1>13. LineOK'
    BY <1>1, <1>2, <1>3, <1>4 DEF InstInv, LineOK
<1>14. OwnedOK'
    <2> SUFFICES ASSUME mishap \in {"none", "interpose"}
                 PROVE  OwnedOK'
        BY <1>1 DEF OwnedOK
    <2>1. Owned(insts, handles \union Tops)
        BY DEF InstInv, OwnedOK
    <2>2. Owned(insts, handles \union {0})
        BY <1>5, <2>1, OwnedMore
    <2> QED
        BY <1>1, <1>4, <1>5, <2>2 DEF OwnedOK
<1>15. AncestorsOK'
    <2>1. NodePkgs(insts, 0) = Range(Above[Root]) /\ Ordered(insts, 0)
        <3>1. Nodes(insts, 0) = {}
            BY <1>2 DEF Nodes
        <3>2. Range(Above[Root]) = {}
            BY AboveFacts, InstancesAssumption DEF Range
        <3> QED
            BY <3>1, <3>2 DEF NodePkgs, Ordered
    <2>2. Root \in Packages
        BY InstancesAssumption
    <2> QED
        BY <1>1, <1>4, <1>5, <2>1, <2>2 DEF InstInv, AncestorsOK
<1>16. NodeOK'
    BY <1>1 DEF InstInv, NodeOK
<1> QED
    BY <1>6, <1>7, <1>8, <1>9, <1>10, <1>11, <1>12, <1>13, <1>14, <1>15, <1>16 DEF InstInv

\* A call returns.
End == /\ call' = Idle /\ currpkg' \in Active
       /\ \/ /\ \/ call.pc = "done" /\ handles' = handles \union {call.inst}
                \/ call.pc = "clean" /\ call.inst = 0 /\ handles' = handles
                \/ call.pc = "unwind" /\ call.parent = 0 /\ handles' = handles
             /\ currinst' = call.saveinst /\ currpkg' = call.savepkg
          \/ /\ call.pc = "close" /\ call.inst = 0 /\ handles' = handles
             /\ currinst' = currinst /\ currpkg' = call.savepkg
          \/ /\ call.pc = "open" /\ mishap = "memory" /\ handles' = handles
             /\ currinst' = currinst
       /\ UNCHANGED <<insts, ipos, prompt, calls, mishap, node, misused>>

LEMMA EndKeeps ==
    ASSUME InstInv, End
    PROVE  InstInv'
<1>1. /\ insts' = insts /\ ipos' = ipos /\ prompt' = prompt /\ mishap' = mishap
      /\ calls' = calls /\ node' = node /\ misused' = misused /\ currpkg' \in Active
      /\ call.pc \in {"done", "clean", "unwind", "close", "open"}
    BY DEF End
<1>2. /\ Shaped(insts) /\ Rising(insts) /\ Len(insts) \in Nat /\ Len(insts) <= MaxInst
      /\ Chain(insts, 0) = {}
      /\ \A h \in handles : /\ h \in 1 .. Len(insts) /\ h \in Chain(insts, h)
                            /\ Chain(insts, h) \subseteq Good(insts)
      /\ Good(insts) \subseteq 1 .. Len(insts)
    BY WhatHolds
<1>3. /\ call' = Idle /\ call' \in Calls /\ call'.pc = "idle" /\ call'.inst = 0
      /\ call'.parent = 0 /\ call'.saveinst = 0
    BY IdleFields DEF End
<1>4. Tops' = {} /\ ~Building' /\ Quiet' /\ ~Skipping'
    BY <1>3 DEF Tops, Building, Quiet, Skipping
<1>5. call.pc = "done" => /\ call.inst = call.parent /\ call.inst \in 1 .. Len(insts)
                          /\ Tops = {call.inst}
                          /\ Chain(insts, call.inst) \subseteq Good(insts)
                          /\ \A h \in handles : Chain(insts, call.inst) \cap Chain(insts, h) = {}
    <2> SUFFICES ASSUME call.pc = "done"
                 PROVE  /\ call.inst = call.parent /\ call.inst \in 1 .. Len(insts)
                        /\ Tops = {call.inst}
                        /\ Chain(insts, call.inst) \subseteq Good(insts)
                        /\ \A h \in handles : Chain(insts, call.inst) \cap Chain(insts, h) = {}
        OBVIOUS
    <2>1. call.inst = call.parent /\ call.inst \in 1 .. Len(insts)
        BY <1>2 DEF InstInv, CallTyped, Building, Skipping
    <2>2. Tops = {call.inst}
        BY <2>1 DEF Tops, Building
    <2> QED
        BY <2>1, <2>2 DEF InstInv, ChainsOK
<1>6. handles' = IF call.pc = "done" THEN handles \union {call.inst} ELSE handles
    BY DEF End
<1>7. currinst' \in Good(insts) \union {0, InitInst}
    <2>1. CASE call.pc \in {"done", "clean", "unwind"}
        BY <2>1 DEF End, InstInv, SelfOK, Quiet
    <2>2. CASE call.pc = "close"
        BY <2>2 DEF End, InstInv, SelfOK, Quiet
    <2>3. CASE call.pc = "open"
        <3>1. currinst' = IF call.parent = 0 THEN call.saveinst ELSE call.parent
            BY <2>3 DEF End, InstInv, SelfOK
        <3>2. call.saveinst \in Good(insts) \union {0, InitInst}
            BY <2>3 DEF InstInv, SelfOK, Quiet
        <3>3. call.parent # 0 => call.parent \in Good(insts)
            <4>1. Building
                BY <2>3 DEF Building
            <4>2. Chain(insts, call.parent) \subseteq Good(insts) /\ call.parent \in 0 .. Len(insts)
                BY <4>1, Foundation
            <4> QED
                BY <1>2, <4>2, ChainEquation
        <3> QED
            BY <3>1, <3>2, <3>3
    <2> QED
        BY <1>1, <2>1, <2>2, <2>3
<1>8. InstTypeOK'
    <2>1. handles' \subseteq Inst
        <3>1. handles' \subseteq 1 .. Len(insts)
            BY <1>2, <1>5, <1>6
        <3>2. 1 .. Len(insts) \subseteq 1 .. MaxInst
            BY <1>2, InstancesAssumption
        <3> QED
            BY <3>1, <3>2 DEF Inst
    <2>2. currinst' \in 0 .. InitInst
        BY <1>2, <1>7, InstancesAssumption DEF InitInst
    <2> QED
        BY <1>1, <1>3, <2>1, <2>2, InstancesAssumption DEF InstInv, InstTypeOK, Calls
<1>9. CallTyped'
    <2>1. handles' \subseteq 1 .. Len(insts)
        BY <1>2, <1>5, <1>6
    <2>2. currinst' \in 0 .. Len(insts) \union {InitInst}
        BY <1>2, <1>7
    <2> QED
        BY <1>1, <1>2, <1>3, <1>4, <2>1, <2>2 DEF InstInv, CallTyped
<1>10. Shape'
    BY <1>1 DEF InstInv, Shape
<1>11. ChainsOK'
    <2>1. \A h \in handles' : Chain(insts, h) \subseteq Good(insts)
        BY <1>2, <1>5, <1>6
    <2>2. \A g, h \in handles' : g # h => Chain(insts, g) \cap Chain(insts, h) = {}
        BY <1>5, <1>6 DEF InstInv, ChainsOK
    <2> QED
        BY <1>1, <1>3, <1>4, <2>1, <2>2 DEF ChainsOK
<1>12. SelfOK'
    BY <1>1, <1>3, <1>4, <1>7 DEF SelfOK
<1>13. PromptOK'
    <2> SUFFICES ASSUME mishap # "memory"
                 PROVE  PromptOK'
        BY <1>1 DEF PromptOK
    <2>1. CASE call.pc = "close"
        BY <1>1, <1>2, <1>3, <1>4, <1>6, <2>1 DEF End, InstInv, PromptOK
    <2>2. CASE call.pc # "close"
        BY <1>1, <1>3, <1>4, <1>6, <2>2 DEF End, InstInv, PromptOK, Quiet
    <2> QED
        BY <2>1, <2>2
<1>14. IposOK'
    BY <1>1, <1>3 DEF InstInv, IposOK
<1>15. LineOK'
    <2> SUFFICES ASSUME mishap \notin {"chain", "memory"}
                 PROVE  LineOK'
        BY <1>1 DEF LineOK
    <2>1. call.pc = "done" => Bare(insts, call.inst)
        BY <1>5 DEF InstInv, LineOK, Building
    <2> QED
        BY <1>1, <1>3, <1>4, <1>6, <2>1 DEF InstInv, LineOK
<1>16. OwnedOK'
    <2> SUFFICES ASSUME mishap \in {"none", "interpose"}
                 PROVE  OwnedOK'
        BY <1>1 DEF OwnedOK
    <2>1. Owned(insts, handles \union Tops)
        BY DEF InstInv, OwnedOK
    <2>2. \A t \in Tops : Chain(insts, t) = {} \/ t \in handles'
        <3>1. CASE call.pc = "done"
            BY <1>5, <1>6, <3>1
        <3>2. CASE call.pc # "done"
            BY <1>1, <1>2, <3>2 DEF End, Tops, Building
        <3> QED
            BY <3>1, <3>2
    <2>3. Owned(insts, handles')
        BY <1>6, <2>1, <2>2, OwnedMore
    <2> QED
        BY <1>1, <1>3, <1>4, <2>3 DEF OwnedOK
<1>17. AncestorsOK'
    <2> SUFFICES ASSUME mishap \notin {"chain", "memory"}
                 PROVE  AncestorsOK'
        BY <1>1 DEF AncestorsOK
    <2>1. call.pc = "done" => Ordered(insts, call.inst) /\ \E p \in Packages : DownTo(insts, call.inst, p)
        BY <1>5 DEF InstInv, AncestorsOK, Building
    <2> QED
        BY <1>1, <1>4, <1>6, <2>1 DEF InstInv, AncestorsOK
<1>18. NodeOK'
    BY <1>1, <1>6 DEF InstInv, NodeOK
<1> QED
    BY <1>8, <1>9, <1>10, <1>11, <1>12, <1>13, <1>14, <1>15, <1>16, <1>17, <1>18 DEF InstInv

\* A call goes on, or begins to clean up, without opening anything.
Move ==
    /\ Building /\ call' \in Calls
    /\ call'.saveinst = call.saveinst /\ call'.savepkg = call.savepkg
    /\ call'.parent \in {0, call.parent} /\ call'.inst \in {0, call.parent, call.inst}
    /\ \/ /\ call'.pc \in {"open", "last"} /\ call.pc \in {"descend", "chain"}
          /\ call.parent # 0 /\ call'.parent = call.parent /\ call'.inst = call.inst
          /\ currpkg' \in Packages
          /\ mishap \notin {"chain", "memory"} =>
                Below(currpkg, currpkg') /\ Skipped(currpkg, currpkg') = <<>>
       \/ /\ call'.pc = "chain" /\ call.pc = "descend" /\ call'.path = call.path
          /\ call'.parent = call.parent /\ call'.inst = call.inst
          /\ Found /\ call'.chain = Skipped(currpkg, Head(call.path)) /\ currpkg' = currpkg
       \/ /\ call'.pc = "chain" /\ Skipping /\ mishap = "memory" /\ call'.parent = 0
          /\ call'.path = call.path /\ currpkg' = currpkg
       \/ /\ call'.pc = "clean" /\ currpkg' = currpkg
          /\ mishap \in {"chain", "memory"} \/ (mishap = "missing" /\ call'.inst = call.parent)
    /\ ipos' = NoInterposer \/ (ipos' = ipos /\ call.pc # "interpose")
    /\ UNCHANGED <<insts, currinst, handles, prompt, calls, mishap, node, misused>>

LEMMA MoveKeeps ==
    ASSUME InstInv, Move
    PROVE  InstInv'
<1>1. /\ Building /\ call' \in Calls
      /\ call'.saveinst = call.saveinst /\ call'.savepkg = call.savepkg
      /\ call'.parent \in {0, call.parent} /\ call'.inst \in {0, call.parent, call.inst}
      /\ call'.pc \in {"open", "last", "chain", "clean"}
      /\ insts' = insts /\ currinst' = currinst /\ handles' = handles /\ prompt' = prompt
      /\ calls' = calls /\ mishap' = mishap /\ node' = node /\ misused' = misused /\ currpkg' \in Packages \union {None}
    BY DEF Move, InstInv, CallTyped
<1>2. /\ Shaped(insts) /\ Rising(insts) /\ Len(insts) \in Nat /\ Len(insts) <= MaxInst
      /\ Chain(insts, 0) = {}
      /\ \A h \in handles : /\ h \in 1 .. Len(insts) /\ h \in Chain(insts, h)
                            /\ Chain(insts, h) \subseteq Good(insts)
      /\ Good(insts) \subseteq 1 .. Len(insts)
    BY WhatHolds
<1>3. /\ call.parent \in 0 .. Len(insts) /\ call.inst \in 0 .. Len(insts)
      /\ ~Quiet /\ call.pc # "clean" /\ Tops = {call.parent, call.inst}
    BY <1>1, Foundation
<1>4. \A t \in {0, call.parent, call.inst} :
          /\ t \in 0 .. Len(insts)
          /\ Chain(insts, t) \subseteq Good(insts)
          /\ \A h \in handles : Chain(insts, t) \cap Chain(insts, h) = {}
          /\ call.saveinst \notin Chain(insts, t)
          /\ t # 0 => t \in Good(insts)
    <2> TAKE t \in {0, call.parent, call.inst}
    <2>1. t \in 0 .. Len(insts)
        BY <1>2, <1>3
    <2>2. /\ Chain(insts, t) \subseteq Good(insts)
          /\ \A h \in handles : Chain(insts, t) \cap Chain(insts, h) = {}
          /\ call.saveinst \notin Chain(insts, t)
        <3>1. CASE t = 0
            BY <1>2, <3>1
        <3>2. CASE t # 0
            BY <1>3, <3>2 DEF InstInv, ChainsOK, SelfOK
        <3> QED
            BY <3>1, <3>2
    <2>3. t # 0 => t \in Chain(insts, t)
        BY <1>2, <2>1, ChainEquation
    <2> QED
        BY <2>1, <2>2, <2>3
<1>5. ~Quiet' /\ call'.pc \notin {"descend", "interpose", "done", "unwind", "close", "idle"}
    BY <1>1 DEF Quiet
<1>6. Tops' = (IF call'.pc = "clean" THEN {call'.inst} ELSE {call'.parent, call'.inst})
    BY <1>1 DEF Tops, Building
<1>7. Tops' \subseteq {0, call.parent, call.inst}
    BY <1>1, <1>6
<1>8. InstTypeOK'
    <2>1. {call'.parent, call'.inst} \subseteq 0 .. MaxInst
        BY <1>1, InstancesAssumption DEF InstInv, InstTypeOK
    <2>2. ipos'.pkg \in Interposers \union {None} /\ ipos'.by \in 0 .. MaxInst
        BY InstancesAssumption DEF Move, NoInterposer, InstInv, InstTypeOK
    <2> QED
        BY <1>1, <2>1, <2>2 DEF InstInv, InstTypeOK, Calls, Active
<1>9. CallTyped'
    <2>1. ipos' \in [pkg : Interposers \union {None}, by : Nat] /\ ipos'.by \in 0 .. Len(insts)
        BY <1>2 DEF Move, NoInterposer, InstInv, CallTyped
    <2>2. Skipping' => call'.path # <<>> /\ Head(call'.path) \in Packages
        <3> SUFFICES ASSUME call'.pc = "chain"
                     PROVE  call'.path # <<>> /\ Head(call'.path) \in Packages
            BY <1>5 DEF Skipping
        <3>1. CASE Found
            BY <3>1 DEF Move, Found, Below, InstInv, CallTyped
        <3>2. CASE Skipping
            BY <3>2 DEF Move, InstInv, CallTyped
        <3> QED
            BY <3>1, <3>2 DEF Move
    <2>3. Building' /\ call'.pc \notin {"open", "last"} => Skipping'
        BY <1>1 DEF Building, Skipping
    <2>4. /\ {call'.inst, call'.parent} \subseteq 0 .. Len(insts)
          /\ call'.saveinst \in 0 .. Len(insts) \union {InitInst}
        BY <1>1, <1>4 DEF InstInv, CallTyped
    <2> QED
        BY <1>1, <1>5, <2>1, <2>2, <2>3, <2>4 DEF InstInv, CallTyped
<1>10. Shape'
    BY <1>1 DEF InstInv, Shape
<1>11. ChainsOK'
    <2>1. call'.pc = "clean" /\ call'.inst # 0 =>
              insts[call'.inst].live /\ ~Helper(insts[call'.inst])
        BY <1>1, <1>4 DEF Good
    <2> QED
        BY <1>1, <1>4, <1>7, <2>1 DEF InstInv, ChainsOK
<1>12. SelfOK'
    <2>1. call'.saveinst \in Good(insts) \union {0, InitInst}
        BY <1>1, <1>3 DEF InstInv, SelfOK
    <2>2. \A t \in Tops' : call'.saveinst \notin Chain(insts, t)
        BY <1>1, <1>4, <1>7
    <2>3. call'.pc \in {"open", "last", "chain"} /\ call'.parent # 0 =>
              currinst = call'.parent
        BY <1>1 DEF Move, InstInv, SelfOK
    <2>4. call'.pc \in {"open", "last"} => call'.parent # 0
        BY DEF Move
    <2> QED
        BY <1>1, <1>5, <2>1, <2>2, <2>3, <2>4 DEF SelfOK
<1>13. PromptOK'
    BY <1>1, <1>3, <1>5 DEF InstInv, PromptOK
<1>14. IposOK'
    BY <1>1, <1>5 DEF Move, InstInv, IposOK
<1>15. LineOK'
    <2> SUFFICES ASSUME mishap \notin {"chain", "memory"}
                 PROVE  LineOK'
        BY <1>1 DEF LineOK
    <2>1. /\ Unbranched(insts) /\ \A h \in handles : Bare(insts, h)
          /\ call.parent # 0 => Bare(insts, call.parent)
          /\ Chain(insts, call.inst) \subseteq Chain(insts, call.parent)
        BY <1>1 DEF InstInv, LineOK
    <2>2. CASE call'.pc = "clean"
        <3>1. call'.inst = call.parent
            BY <2>2 DEF Move
        <3> QED
            BY <1>1, <2>1, <2>2, <3>1 DEF LineOK, Building
    <2>3. CASE call'.pc # "clean"
        <3>1. call'.parent = call.parent /\ call'.inst = call.inst
            BY <2>3 DEF Move
        <3>2. call'.pc = "chain" => call.parent # 0
            BY <2>3 DEF Move, InstInv, CallTyped
        <3> QED
            BY <1>1, <1>5, <2>1, <2>3, <3>1, <3>2 DEF LineOK
    <2> QED
        BY <2>2, <2>3
<1>16. OwnedOK'
    <2> SUFFICES ASSUME mishap \in {"none", "interpose"}
                 PROVE  OwnedOK'
        BY <1>1 DEF OwnedOK
    <2>1. call'.pc # "clean" /\ call'.parent = call.parent /\ call'.inst = call.inst
        BY DEF Move
    <2> QED
        BY <1>1, <1>3, <1>6, <2>1 DEF InstInv, OwnedOK
<1>17. AncestorsOK'
    <2> SUFFICES ASSUME mishap \notin {"chain", "memory"}
                 PROVE  AncestorsOK'
        BY <1>1 DEF AncestorsOK
    <2>1. /\ \A h \in handles : Ordered(insts, h) /\ \E p \in Packages : DownTo(insts, h, p)
          /\ currpkg \in Packages /\ Ordered(insts, call.parent)
          /\ call.pc \notin {"open", "last"} => DownTo(insts, call.parent, currpkg)
          /\ Skipping => Found /\ call.chain = Skipped(currpkg, Head(call.path))
        BY <1>1 DEF InstInv, AncestorsOK
    <2>2. CASE call'.pc = "clean"
        BY <1>1, <2>1, <2>2 DEF AncestorsOK, Building, Skipping
    <2>3. CASE call'.pc = "chain"
        <3>1. /\ call'.path = call.path /\ call'.parent = call.parent /\ call.pc = "descend"
              /\ Found /\ call'.chain = Skipped(currpkg, Head(call.path)) /\ currpkg' = currpkg
            BY <2>3 DEF Move
        <3>2. DownTo(insts', call'.parent, currpkg') /\ Ordered(insts', call'.parent)
            BY <1>1, <2>1, <3>1
        <3>3. Found' /\ call'.chain = Skipped(currpkg', Head(call'.path))
            BY <3>1 DEF Found
        <3> QED
            BY <1>1, <2>1, <2>3, <3>1, <3>2, <3>3 DEF AncestorsOK
    <2>4. CASE call'.pc \in {"open", "last"}
        <3>1. /\ call.pc \in {"descend", "chain"} /\ call'.parent = call.parent
              /\ currpkg' \in Packages
              /\ Below(currpkg, currpkg') /\ Skipped(currpkg, currpkg') = <<>>
            BY <2>4 DEF Move
        <3>2. DownTo(insts, call.parent, currpkg)
            BY <2>1, <3>1
        <3>3. Range(Above[currpkg']) = {currpkg} \union Range(Above[currpkg])
            BY <2>1, <3>1, StepDown
        <3>4. NodePkgs(insts', call'.parent) = Range(Above[currpkg'])
            BY <1>1, <3>1, <3>2, <3>3 DEF DownTo
        <3>5. Ordered(insts', call'.parent) /\ ~Skipping'
            BY <1>1, <2>1, <2>4, <3>1 DEF Skipping
        <3> QED
            BY <1>1, <2>1, <2>4, <3>1, <3>4, <3>5 DEF AncestorsOK
    <2> QED
        BY <1>1, <2>2, <2>3, <2>4
<1>18. NodeOK'
    BY <1>1 DEF InstInv, NodeOK
<1> QED
    BY <1>8, <1>9, <1>10, <1>11, <1>12, <1>13, <1>14, <1>15, <1>16, <1>17, <1>18 DEF InstInv

\* An ihandle is given back, by close-dev or end-package.
BeginsClosing(h) ==
    /\ call = Idle /\ h \in handles /\ handles' = handles \ {h}
    /\ call' \in Calls /\ call'.pc = "close" /\ call'.inst = h /\ call'.parent = 0
    /\ call'.savepkg = currpkg' /\ call'.saveinst = 0
    /\ \/ /\ currinst' = currinst /\ currpkg' = currpkg /\ node' = node
          /\ prompt' = IF currinst = h THEN [prompt EXCEPT !.inst = 0] ELSE prompt
          /\ misused' = (misused \/ node.parent = h)
       \/ /\ currinst' = h /\ currpkg' = None /\ node' = NoNode
          /\ prompt' = [inst |-> 0, pkg |-> None]
          /\ misused' = misused
    /\ UNCHANGED <<insts, ipos, calls, mishap>>

LEMMA ClosingKeeps ==
    ASSUME InstInv, NEW h, BeginsClosing(h), ~misused'
    PROVE  InstInv'
<1>1. /\ call = Idle /\ h \in handles /\ handles' = handles \ {h}
      /\ call' \in Calls /\ call'.pc = "close" /\ call'.inst = h /\ call'.parent = 0
      /\ call'.savepkg = currpkg' /\ call'.saveinst = 0 /\ currpkg' \in Active
      /\ insts' = insts /\ currinst' \in {currinst, h} /\ ipos' = ipos
      /\ calls' = calls /\ mishap' = mishap
    BY DEF BeginsClosing, InstInv, InstTypeOK, Active
<1>2. /\ Shaped(insts) /\ Rising(insts) /\ Len(insts) \in Nat /\ Len(insts) <= MaxInst
      /\ Chain(insts, 0) = {}
      /\ \A g \in handles : /\ g \in 1 .. Len(insts) /\ g \in Chain(insts, g)
                            /\ Chain(insts, g) \subseteq Good(insts)
      /\ Good(insts) \subseteq 1 .. Len(insts)
    BY WhatHolds
<1>3. call.pc = "idle" /\ call.inst = 0 /\ call.parent = 0
    BY <1>1, IdleFields
<1>4. /\ Tops = {} /\ Tops' = {h} /\ Quiet /\ Quiet'
      /\ ~Building /\ ~Building' /\ ~Skipping'
    BY <1>1, <1>3 DEF Tops, Building, Quiet, Skipping
<1>5. h \in 0 .. MaxInst /\ h # 0 /\ h # InitInst /\ InitInst # 0 /\ h \in 0 .. InitInst
    BY <1>1, <1>2, InstancesAssumption DEF InitInst
<1>6. InstTypeOK'
    <2>1. currinst' \in 0 .. InitInst
        BY <1>1, <1>5 DEF InstInv, InstTypeOK
    <2>2. node' \in [parent : 0 .. MaxInst, under : Packages \union {None}]
        <3>1. NoNode \in [parent : 0 .. MaxInst, under : Packages \union {None}]
            BY InstancesAssumption DEF NoNode
        <3> QED
            BY <3>1 DEF BeginsClosing, InstInv, InstTypeOK
    <2>3. misused' \in BOOLEAN
        <3>1. (misused \/ node.parent = h) \in BOOLEAN
            OBVIOUS
        <3>2. misused \in BOOLEAN
            BY DEF InstInv, InstTypeOK
        <3> QED
            BY <3>1, <3>2 DEF BeginsClosing
    <2>4. ASSUME NEW b, b \in BOOLEAN, misused' = b
          PROVE  InstTypeOK'
        BY <1>1, <1>5, <2>1, <2>2, <2>4, InstancesAssumption DEF InstInv, InstTypeOK, Calls
    <2> QED
        BY <2>3, <2>4
<1>7. prompt' \in [inst : Nat, pkg : Active]
    BY DEF BeginsClosing, InstInv, CallTyped, Active
<1>8. CallTyped'
    <2>1. currinst' \in 0 .. Len(insts) \union {InitInst}
        BY <1>1, <1>2 DEF InstInv, CallTyped
    <2> QED
        BY <1>1, <1>2, <1>4, <1>7, <2>1 DEF InstInv, CallTyped
<1>9. Shape'
    BY <1>1 DEF InstInv, Shape
<1>10. ChainsOK'
    BY <1>1, <1>2, <1>4 DEF InstInv, ChainsOK
<1>11. SelfOK'
    <2>1. currinst' \in Good(insts) \union {0, InitInst}
        BY <1>1, <1>2, <1>4 DEF InstInv, SelfOK
    <2> QED
        BY <1>1, <1>4, <2>1 DEF SelfOK
<1>12. PromptOK'
    <2> SUFFICES ASSUME mishap # "memory"
                 PROVE  PromptOK'
        BY <1>1 DEF PromptOK
    <2>1. /\ prompt = [inst |-> currinst, pkg |-> currpkg]
          /\ currinst \in handles \union {0, InitInst}
        BY <1>3 DEF InstInv, PromptOK
    <2>2. prompt' = [inst |-> IF currinst' \in handles' \union {InitInst} THEN currinst' ELSE 0,
                     pkg |-> currpkg']
        <3>1. 0 \notin handles /\ h \notin handles' \union {InitInst}
            BY <1>1, <1>2, <1>5
        <3>2. CASE currinst' = h
            <4>1. prompt' = [inst |-> 0, pkg |-> currpkg']
                BY <1>5, <2>1, <3>2 DEF BeginsClosing
            <4> QED
                BY <3>1, <3>2, <4>1
        <3>3. CASE currinst' # h
            <4>1. currinst' = currinst /\ currpkg' = currpkg /\ prompt' = prompt
                BY <3>3 DEF BeginsClosing
            <4> QED
                BY <1>1, <2>1, <3>1, <3>3, <4>1
        <3> QED
            BY <3>2, <3>3
    <2>3. currinst' \in handles' \union {0, InitInst} \union Chain(insts, h)
        BY <1>1, <1>2, <2>1
    <2> QED
        BY <1>1, <1>4, <2>2, <2>3 DEF PromptOK
<1>13. IposOK'
    BY <1>1, <1>3 DEF InstInv, IposOK
<1>14. LineOK'
    BY <1>1, <1>4 DEF InstInv, LineOK
<1>15. OwnedOK'
    <2> SUFFICES ASSUME mishap \in {"none", "interpose"}
                 PROVE  OwnedOK'
        BY <1>1 DEF OwnedOK
    <2>1. Owned(insts, handles \union Tops) /\ handles \union Tops = handles' \union Tops'
        BY <1>1, <1>4 DEF InstInv, OwnedOK
    <2> QED
        BY <1>1, <2>1 DEF OwnedOK
<1>16. AncestorsOK'
    BY <1>1, <1>4 DEF InstInv, AncestorsOK
<1>17. NodeOK'
    <2>1. (node' = node /\ node.parent # h) \/ node' = NoNode
        BY DEF BeginsClosing
    <2> QED
        BY <1>1, <2>1 DEF InstInv, NodeOK, NoNode
<1> QED
    BY <1>6, <1>8, <1>9, <1>10, <1>11, <1>12, <1>13, <1>14, <1>15, <1>16, <1>17 DEF InstInv

\* Between calls my-self and the active package are set, or a node is made or
\* finished.
Between ==
    /\ call = Idle /\ call' = Idle /\ currpkg' \in Active
    /\ \/ currinst' = currinst /\ prompt' = [prompt EXCEPT !.pkg = currpkg']
       \/ /\ currinst' \in handles \union {0, InitInst}
          /\ prompt' = [inst |-> currinst', pkg |-> currpkg']
    /\ node'.parent \in handles \union {0}
    /\ node' \in [parent : 0 .. MaxInst, under : Packages \union {None}]
    /\ calls' \in 0 .. MaxCalls
    /\ UNCHANGED <<insts, ipos, handles, mishap, misused>>

LEMMA BetweenKeeps ==
    ASSUME InstInv, Between
    PROVE  InstInv'
<1>1. /\ call = Idle /\ call' = call /\ currpkg' \in Active
      /\ currinst' \in handles \union {currinst, 0, InitInst} /\ insts' = insts /\ ipos' = ipos
      /\ handles' = handles /\ calls' \in 0 .. MaxCalls /\ mishap' = mishap
      /\ node'.parent \in handles \union {0}
      /\ node' \in [parent : 0 .. MaxInst, under : Packages \union {None}]
      /\ misused' = misused
    BY DEF Between
<1>2. /\ Shaped(insts) /\ Rising(insts) /\ Len(insts) \in Nat /\ Len(insts) <= MaxInst
      /\ \A g \in handles : /\ g \in 1 .. Len(insts) /\ g \in Chain(insts, g)
                            /\ Chain(insts, g) \subseteq Good(insts)
      /\ Good(insts) \subseteq 1 .. Len(insts)
    BY WhatHolds
<1>3. call.pc = "idle" /\ call.inst = 0 /\ call.parent = 0
    BY <1>1, IdleFields
<1>4. Tops = {} /\ Tops' = {} /\ Quiet /\ Quiet' /\ ~Building /\ ~Building' /\ ~Skipping'
    BY <1>1, <1>3 DEF Tops, Building, Quiet, Skipping
<1>5. currinst' \in Good(insts) \union {0, InitInst}
    BY <1>1, <1>2, <1>4 DEF InstInv, SelfOK
<1>6. /\ currinst' \in 0 .. Len(insts) \union {InitInst} /\ currinst' \in 0 .. InitInst
      /\ currinst' \in Nat
    BY <1>2, <1>5, InstancesAssumption DEF InitInst
<1>7. InstTypeOK'
    BY <1>1, <1>6 DEF InstInv, InstTypeOK
<1>8. CallTyped'
    <2>1. prompt' \in [inst : Nat, pkg : Active]
        BY <1>1, <1>2, <1>6 DEF Between, InstInv, CallTyped
    <2> QED
        BY <1>1, <1>2, <1>4, <1>6, <2>1 DEF InstInv, CallTyped, Building
<1>9. Shape' /\ ChainsOK'
    BY <1>1, <1>4 DEF InstInv, Shape, ChainsOK
<1>10. SelfOK'
    BY <1>1, <1>4, <1>5, <1>3 DEF SelfOK
<1>11. PromptOK'
    <2> SUFFICES ASSUME mishap # "memory"
                 PROVE  PromptOK'
        BY <1>1 DEF PromptOK
    <2>1. /\ prompt = [inst |-> currinst, pkg |-> currpkg]
          /\ currinst \in handles \union {0, InitInst}
        BY <1>3 DEF InstInv, PromptOK
    <2>2. /\ prompt' = [inst |-> currinst', pkg |-> currpkg']
          /\ currinst' \in handles \union {0, InitInst}
        BY <1>1, <2>1 DEF Between
    <2> QED
        BY <1>1, <1>3, <1>4, <2>2 DEF PromptOK
<1>12. IposOK' /\ OwnedOK'
    BY <1>1, <1>4 DEF InstInv, IposOK, OwnedOK
<1>13. LineOK' /\ AncestorsOK'
    BY <1>1, <1>3, <1>4 DEF InstInv, LineOK, AncestorsOK
<1>14. NodeOK'
    BY <1>1 DEF NodeOK
<1> QED
    BY <1>7, <1>8, <1>9, <1>10, <1>11, <1>12, <1>13, <1>14 DEF InstInv

LEMMA StutterKeeps ==
    ASSUME InstInv, UNCHANGED instVars
    PROVE  InstInv'
<1>1. /\ insts' = insts /\ currinst' = currinst /\ currpkg' = currpkg /\ ipos' = ipos
      /\ call' = call /\ handles' = handles /\ prompt' = prompt /\ calls' = calls
      /\ mishap' = mishap /\ node' = node /\ misused' = misused
    BY DEF instVars
<1>2. Building' = Building /\ Quiet' = Quiet /\ Skipping' = Skipping
    BY <1>1 DEF Building, Quiet, Skipping
<1>3. Tops' = Tops
    BY <1>1, <1>2 DEF Tops
<1>4. InstTypeOK' /\ Shape' /\ PromptOK' /\ IposOK' /\ NodeOK'
    BY <1>1, <1>2 DEF InstInv, InstTypeOK, Shape, PromptOK, IposOK, NodeOK
<1>5. CallTyped' /\ SelfOK'
    BY <1>1, <1>2, <1>3 DEF InstInv, CallTyped, SelfOK
<1>6. ChainsOK' /\ LineOK' /\ OwnedOK'
    BY <1>1, <1>2, <1>3 DEF InstInv, ChainsOK, LineOK, OwnedOK
<1>7. AncestorsOK'
    BY <1>1, <1>2 DEF InstInv, AncestorsOK, Found
<1> QED
    BY <1>4, <1>5, <1>6, <1>7 DEF InstInv

-----------------------------------------------------------------------------
(* Which of these steps an action is. *)

Scheduled == [pkg : Interposers \union {None}, by : 0 .. Len(insts)]

LEMMA NewAndOpenEffect ==
    ASSUME InstInv, NEW pkg \in Packages \union Interposers \union {None},
           NEW by \in 0 .. Len(insts), NEW r \in Outcomes(pkg), NEW scheduled \in Scheduled,
           NewAndOpen(pkg, by, r, scheduled)
    PROVE  /\ Grown(insts, insts', pkg, call.parent, by, IF r.ok THEN "open" ELSE "failed")
           /\ Len(insts') <= MaxInst /\ currinst' = Fresh /\ Fresh \in Nat
           /\ ipos' \in [pkg : Interposers \union {None}, by : 0 .. Fresh]
           /\ mishap # "interpose" /\ scheduled = NoInterposer =>
                 IF r.ok /\ ipos'.pkg # None THEN ipos'.by = Fresh ELSE ipos' = NoInterposer
<1>1. /\ Len(insts) + 3 <= MaxInst
      /\ insts' = execute_open(new_instance(insts, pkg, call.parent, by), Len(insts) + 1, r)
      /\ currinst' = Fresh
      /\ ipos' = IF r.ask = None THEN scheduled ELSE [pkg |-> r.ask, by |-> Fresh]
    BY DEF NewAndOpen, Fresh
<1>2. /\ insts \in Seq(Records) /\ Len(insts) \in Nat /\ Fresh \in Nat
      /\ call.parent \in 0 .. MaxInst /\ by \in 0 .. MaxInst
    <2>1. Len(insts) \in Nat
        BY WhatHolds
    <2> QED
        BY <1>1, <2>1, InstancesAssumption DEF InstInv, InstTypeOK, Fresh
<1>3. /\ r \in [ok : BOOLEAN, deblocker : BOOLEAN, disklabel : BOOLEAN,
                ask : Interposers \union {None}]
      /\ pkg \in Disks => (r.ok = (r.deblocker /\ r.disklabel))
      /\ r.ask # None => r.ok \/ mishap = "interpose"
    BY DEF Outcomes
<1>4. Grown(insts, insts', pkg, call.parent, by, IF r.ok THEN "open" ELSE "failed")
    BY <1>1, <1>2, <1>3, OpenEffect
<1>5. Len(insts') <= MaxInst
    <2>1. Len(insts') \in Len(insts) + 1 .. Len(insts) + 3
        BY <1>2, <1>4 DEF Grown
    <2> QED
        BY <1>1, <1>2, <2>1, InstancesAssumption
<1>6. ipos' \in [pkg : Interposers \union {None}, by : 0 .. Fresh]
    <2>1. scheduled \in [pkg : Interposers \union {None}, by : 0 .. Fresh]
        BY <1>2 DEF Scheduled, Fresh
    <2> QED
        BY <1>1, <1>2, <1>3, <2>1
<1>7. mishap # "interpose" /\ scheduled = NoInterposer =>
          IF r.ok /\ ipos'.pkg # None THEN ipos'.by = Fresh ELSE ipos' = NoInterposer
    BY <1>1, <1>3 DEF NoInterposer
<1> QED
    BY <1>1, <1>2, <1>4, <1>5, <1>6, <1>7

LEMMA OpensOnTop ==
    ASSUME InstInv, Building, NEW pkg \in Packages \union Interposers \union {None},
           NEW by \in 0 .. Len(insts), NEW scheduled \in Scheduled, NEW c \in Calls,
           NEW pc \in {"descend", "done"},
           OpenOnTop(pkg, by, scheduled, c, pc),
           c.saveinst = call.saveinst, c.savepkg = call.savepkg,
           mishap # "interpose" => scheduled = NoInterposer /\ (by # 0 => by = call.parent),
           mishap \notin {"chain", "memory"} =>
              IF call.pc \in {"open", "last"} THEN pkg = currpkg ELSE pkg \notin Packages,
           UNCHANGED <<currpkg, handles, prompt, calls, mishap, node, misused>>
    PROVE  \E phase : PutOnTop(pkg, by, phase)
<1>1. PICK r \in Outcomes(pkg) :
        /\ NewAndOpen(pkg, by, r, scheduled)
        /\ call' = LET d == [c EXCEPT !.inst = Fresh, !.parent = Fresh]
                   IN IF r.ok THEN Then(d, pc) ELSE [d EXCEPT !.pc = "clean"]
    BY DEF OpenOnTop
<1> DEFINE phase == IF r.ok THEN "open" ELSE "failed"
<1>2. /\ Grown(insts, insts', pkg, call.parent, by, phase)
      /\ Len(insts') <= MaxInst /\ currinst' = Fresh /\ Fresh \in Nat
      /\ ipos' \in [pkg : Interposers \union {None}, by : 0 .. Fresh]
      /\ mishap # "interpose" /\ scheduled = NoInterposer =>
            IF r.ok /\ ipos'.pkg # None THEN ipos'.by = Fresh ELSE ipos' = NoInterposer
    BY <1>1, NewAndOpenEffect
<1>3. r.ok \in BOOLEAN
    BY DEF Outcomes
<1>4. /\ call' \in Calls /\ call'.inst = Fresh /\ call'.parent = Fresh
      /\ call'.saveinst = call.saveinst /\ call'.savepkg = call.savepkg
      /\ call'.pc = IF ~r.ok THEN "clean" ELSE IF ipos'.pkg = None THEN pc ELSE "interpose"
      /\ call'.pc = "interpose" => call'.next = pc
    BY <1>1, <1>2, <1>3 DEF Calls, Then
<1>5. phase \in {"open", "failed"} /\ (phase = "open" <=> r.ok)
    BY <1>3
<1>6. /\ call'.pc \in IF phase = "open" THEN {"descend", "interpose", "done"} ELSE {"clean"}
      /\ call'.pc = "interpose" => call'.next \in {"descend", "done"}
    BY <1>4, <1>5
<1>7. mishap # "interpose" =>
          /\ by # 0 => by = call.parent
          /\ IF call'.pc = "interpose" THEN ipos'.by = Fresh ELSE ipos' = NoInterposer
    BY <1>2, <1>4
<1> HIDE DEF phase
<1>8. PutOnTop(pkg, by, phase)
    BY <1>2, <1>4, <1>5, <1>6, <1>7 DEF PutOnTop
<1> QED
    BY <1>8

LEMMA OpensInChain ==
    ASSUME InstInv, Skipping, NEW pkg \in Packages \union Interposers \union {None},
           NEW by \in 0 .. Len(insts), NEW scheduled \in Scheduled, NEW c \in Calls,
           OpenInChain(pkg, by, scheduled, c),
           c.inst = call.inst, c.path = call.path, c.pc \in {"chain", "interpose"},
           c.saveinst = call.saveinst, c.savepkg = call.savepkg,
           mishap # "interpose" => scheduled = NoInterposer /\ (by # 0 => by = call.parent),
           currpkg' \in Packages \union {None},
           mishap \notin {"chain", "memory"} =>
              IF call.pc = "chain"
              THEN /\ call.chain # <<>> /\ pkg = Head(call.chain)
                   /\ currpkg' = pkg /\ c.chain = Tail(call.chain)
              ELSE pkg \notin Packages /\ currpkg' = currpkg /\ c.chain = call.chain,
           UNCHANGED <<handles, prompt, calls, mishap, node, misused>>
    PROVE  \E phase : PutInChain(pkg, by, phase)
<1>1. PICK r \in Outcomes(pkg) :
        /\ r.ok \/ mishap = "chain"
        /\ NewAndOpen(pkg, by, r, scheduled)
        /\ call' = IF r.ok THEN Then([c EXCEPT !.parent = Fresh], "chain")
                   ELSE [c EXCEPT !.parent = 0, !.pc = "chain"]
    BY DEF OpenInChain
<1> DEFINE phase == IF r.ok THEN "open" ELSE "failed"
<1>2. /\ Grown(insts, insts', pkg, call.parent, by, phase)
      /\ Len(insts') <= MaxInst /\ currinst' = Fresh /\ Fresh \in Nat
      /\ ipos' \in [pkg : Interposers \union {None}, by : 0 .. Fresh]
      /\ mishap # "interpose" /\ scheduled = NoInterposer =>
            IF r.ok /\ ipos'.pkg # None THEN ipos'.by = Fresh ELSE ipos' = NoInterposer
    BY <1>1, NewAndOpenEffect
<1>3. r.ok \in BOOLEAN
    BY DEF Outcomes
<1>4. /\ call' \in Calls /\ call'.inst = call.inst /\ call'.path = call.path
      /\ call'.parent = IF r.ok THEN Fresh ELSE 0
      /\ call'.chain = c.chain
      /\ call'.saveinst = call.saveinst /\ call'.savepkg = call.savepkg
      /\ call'.pc = IF ~r.ok \/ ipos'.pkg = None THEN "chain" ELSE "interpose"
      /\ call'.pc = "interpose" => call'.next = "chain"
    BY <1>1, <1>2, <1>3 DEF Calls, Then
<1>5. phase \in {"open", "failed"} /\ (phase = "open" <=> r.ok)
    BY <1>3
<1>6. mishap # "interpose" =>
          /\ by # 0 => by = call.parent
          /\ IF call'.pc = "interpose" THEN ipos'.by = Fresh ELSE ipos' = NoInterposer
    BY <1>2, <1>4
<1>7. /\ phase = "open" => call'.parent = Fresh /\ call'.pc \in {"chain", "interpose"}
      /\ phase = "failed" => call'.parent = 0 /\ call'.pc = "chain" /\ mishap = "chain"
    BY <1>1, <1>4, <1>5
<1>8. mishap \notin {"chain", "memory"} =>
          IF call.pc = "chain"
          THEN /\ call.chain # <<>> /\ pkg = Head(call.chain)
               /\ currpkg' = pkg /\ call'.chain = Tail(call.chain)
          ELSE pkg \notin Packages /\ currpkg' = currpkg /\ call'.chain = call.chain
    BY <1>4
<1> HIDE DEF phase
<1>9. PutInChain(pkg, by, phase)
    BY <1>2, <1>4, <1>5, <1>6, <1>7, <1>8 DEF PutInChain
<1> QED
    BY <1>9

LEMMA SequenceEnds ==
    ASSUME NEW S, NEW s \in Seq(S), s # <<>>
    PROVE  Head(s) \in S /\ Tail(s) \in Seq(S)
BY HeadTailProperties

\* What is known of the interposer that is scheduled.
LEMMA ScheduledTyped ==
    ASSUME InstInv
    PROVE  /\ ipos \in Scheduled /\ NoInterposer \in Scheduled
           /\ ipos.by \in 0 .. Len(insts) /\ 0 \in 0 .. Len(insts)
           /\ ipos.pkg \in Interposers \union {None} /\ ipos.pkg \notin Packages
           /\ call \in Calls /\ currpkg \in Active
           /\ Building => currpkg \in Packages \union {None}
           /\ mishap # "interpose" =>
                 IF call.pc = "interpose" THEN ipos.by = call.parent ELSE ipos = NoInterposer
<1>1. Len(insts) \in Nat
    BY WhatHolds
<1>2. ipos \in [pkg : Interposers \union {None}, by : Nat] /\ ipos.by \in 0 .. Len(insts)
    BY DEF InstInv, CallTyped
<1>3. ipos \in Scheduled /\ NoInterposer \in Scheduled
    BY <1>1, <1>2 DEF Scheduled, NoInterposer
<1>4. ipos.pkg \in Interposers \union {None} /\ ipos.pkg \notin Packages
    BY <1>2, ProperTree
<1> QED
    BY <1>1, <1>2, <1>3, <1>4 DEF InstInv, CallTyped, IposOK, InstTypeOK, Building

OnTop == \E pkg, by, phase : PutOnTop(pkg, by, phase)
InChain == \E pkg, by, phase : PutInChain(pkg, by, phase)
Taking == \E d, H, phase : TakeAway(d, H, phase)

LEMMA OpenNodeIs ==
    ASSUME InstInv, OpenNode
    PROVE  OnTop
<1>1. call.pc = "open" /\ OpenOnTop(currpkg, 0, ipos, call, "descend") /\ Building
    BY DEF OpenNode, Building
<1>2. UNCHANGED <<currpkg, handles, prompt, calls, mishap, node, misused>>
    BY DEF OpenNode
<1>3. \E phase : PutOnTop(currpkg, 0, phase)
    BY <1>1, <1>2, ScheduledTyped, OpensOnTop
<1> QED
    BY <1>3 DEF OnTop

LEMMA OpenLastIs ==
    ASSUME InstInv, OpenLast
    PROVE  OnTop
<1>1. call.pc = "last" /\ OpenOnTop(currpkg, 0, ipos, call, "done") /\ Building
    BY DEF OpenLast, Building
<1>2. UNCHANGED <<currpkg, handles, prompt, calls, mishap, node, misused>>
    BY DEF OpenLast
<1>3. \E phase : PutOnTop(currpkg, 0, phase)
    BY <1>1, <1>2, ScheduledTyped, OpensOnTop
<1> QED
    BY <1>3 DEF OnTop

LEMMA OpenInterposerIs ==
    ASSUME InstInv, OpenInterposer
    PROVE  OnTop
<1> DEFINE pkg == Head(call.path)
           c == [call EXCEPT !.path = Tail(@)]
<1>1. /\ call.pc = "descend" /\ call.path # <<>> /\ pkg \in Interposers
      /\ OpenOnTop(pkg, 0, ipos, c, "descend") /\ Building
    BY DEF OpenInterposer, Building
<1>2. UNCHANGED <<currpkg, handles, prompt, calls, mishap, node, misused>>
    BY DEF OpenInterposer
<1>3. Tail(call.path) \in Seq(Names)
    BY <1>1, ScheduledTyped, SequenceEnds DEF Calls
<1>4. c \in Calls /\ c.saveinst = call.saveinst /\ c.savepkg = call.savepkg
    BY <1>3, ScheduledTyped DEF Calls
<1>5. pkg \notin Packages
    BY <1>1, ProperTree
<1> HIDE DEF pkg, c
<1>6. \E phase : PutOnTop(pkg, 0, phase)
    BY <1>1, <1>2, <1>4, <1>5, ScheduledTyped, OpensOnTop
<1> QED
    BY <1>6 DEF OnTop

LEMMA ExecuteLastIs ==
    ASSUME InstInv, ExecuteLast
    PROVE  OnTop
<1>1. /\ call.pc = "last" /\ Len(insts) < MaxInst
      /\ insts' = new_instance(insts, currpkg, call.parent, 0) /\ currinst' = Fresh
      /\ call' = [call EXCEPT !.inst = Fresh, !.parent = Fresh, !.pc = "clean"]
      /\ UNCHANGED <<currpkg, ipos, handles, prompt, calls, mishap, node, misused>> /\ Building
    BY DEF ExecuteLast, Building
<1>2. /\ insts \in Seq(Records) /\ Len(insts) \in Nat /\ call.parent \in 0 .. MaxInst
      /\ Fresh \in Nat
    BY WhatHolds DEF InstInv, InstTypeOK, Fresh
<1>3. Grown(insts, insts', currpkg, call.parent, 0, "new")
    BY <1>1, <1>2, ScheduledTyped, NewEffect
<1>4. Len(insts') <= MaxInst
    <2>1. Len(insts') = Len(insts) + 1
        BY <1>1, <1>2, AppendProperties DEF new_instance
    <2> QED
        BY <1>1, <1>2, <2>1, InstancesAssumption
<1>5. /\ call' \in Calls /\ call'.inst = Fresh /\ call'.parent = Fresh
      /\ call'.saveinst = call.saveinst /\ call'.savepkg = call.savepkg
      /\ call'.pc = "clean"
    BY <1>1, <1>2, ScheduledTyped DEF Calls
<1>6. ipos' \in [pkg : Interposers \union {None}, by : 0 .. Fresh]
    BY <1>1, <1>2, ScheduledTyped DEF Scheduled, Fresh
<1>7. PutOnTop(currpkg, 0, "new")
    BY <1>1, <1>3, <1>4, <1>5, <1>6, ScheduledTyped DEF PutOnTop
<1> QED
    BY <1>7 DEF OnTop

LEMMA InterposeIs ==
    ASSUME InstInv, Interpose
    PROVE  OnTop \/ InChain
<1>1. /\ call.pc = "interpose" /\ UNCHANGED <<currpkg, handles, prompt, calls, mishap, node, misused>>
      /\ call.next \in {"descend", "chain", "done"} /\ Building
    BY ScheduledTyped DEF Interpose, Building, Calls, InstInv, CallTyped
<1>2. CASE call.next = "chain"
    <2>1. OpenInChain(ipos.pkg, ipos.by, NoInterposer, call) /\ Skipping
        BY <1>1, <1>2 DEF Interpose, Skipping
    <2>2. currpkg' \in Packages \union {None} /\ currpkg' = currpkg
        BY <1>1, ScheduledTyped
    <2>3. \E phase : PutInChain(ipos.pkg, ipos.by, phase)
        BY <1>1, <2>1, <2>2, ScheduledTyped, OpensInChain
    <2> QED
        BY <2>3 DEF InChain
<1>3. CASE call.next # "chain"
    <2>1. OpenOnTop(ipos.pkg, ipos.by, NoInterposer, call, call.next)
        BY <1>3 DEF Interpose
    <2>2. \E phase : PutOnTop(ipos.pkg, ipos.by, phase)
        BY <1>1, <1>3, <2>1, ScheduledTyped, OpensOnTop
    <2> QED
        BY <2>2 DEF OnTop
<1> QED
    BY <1>2, <1>3

LEMMA OpenSkippedIs ==
    ASSUME InstInv, OpenSkipped
    PROVE  InChain
<1> DEFINE pkg == Head(call.chain)
           c == [call EXCEPT !.chain = Tail(@)]
<1>1. /\ call.pc = "chain" /\ call.chain # <<>> /\ currpkg' = pkg
      /\ OpenInChain(pkg, 0, ipos, c) /\ Skipping
      /\ UNCHANGED <<handles, prompt, calls, mishap, node, misused>>
    BY DEF OpenSkipped, Skipping
<1>2. pkg \in Packages /\ Tail(call.chain) \in Seq(Packages)
    BY <1>1, ScheduledTyped, SequenceEnds DEF Calls
<1>3. /\ c \in Calls /\ c.saveinst = call.saveinst /\ c.savepkg = call.savepkg
      /\ c.inst = call.inst /\ c.path = call.path /\ c.pc = "chain"
      /\ c.chain = Tail(call.chain)
    BY <1>1, <1>2, ScheduledTyped DEF Calls
<1> HIDE DEF c
<1>4. pkg = Head(call.chain)
    OBVIOUS
<1> HIDE DEF pkg
<1>5. \E phase : PutInChain(pkg, 0, phase)
    BY <1>1, <1>2, <1>3, <1>4, ScheduledTyped, OpensInChain
<1> QED
    BY <1>5 DEF InChain

LEMMA DescendIs ==
    ASSUME InstInv, Descend
    PROVE  Move
<1> DEFINE child == Head(call.path)
<1>1. /\ call.pc = "descend" /\ Found /\ Building
      /\ UNCHANGED <<insts, currinst, ipos, handles, prompt, calls, mishap, node, misused>>
    BY DEF Descend, Building
<1>2. child \in Packages /\ Below(currpkg, child)
    BY <1>1 DEF Found, Below
<1>3. currpkg \in Packages
    <2>1. Above[child] \in Seq(Packages)
        BY <1>2, AboveFacts
    <2>2. \A i \in 1 .. Len(Above[child]) : Above[child][i] \in Packages
        BY <2>1, ElementOfSeq
    <2> QED
        BY <1>2, <2>2 DEF Below
<1>4. Skipped(currpkg, child) \in Seq(Packages)
    BY <1>2, <1>3, StepDown
<1>5. Tail(call.path) \in Seq(Names)
    BY <1>1, ScheduledTyped, SequenceEnds DEF Found, Calls
<1>6. call.parent # 0 /\ currinst = call.parent /\ call.parent \in Nat
    BY <1>1, ScheduledTyped DEF InstInv, CallTyped, SelfOK, Calls
<1>7. CASE Skipped(currpkg, child) = <<>>
    <2>1. currpkg' = child /\ call' = [call EXCEPT !.path = Tail(@),
              !.pc = IF Tail(call.path) = <<>> THEN "last" ELSE "open"]
        BY <1>7 DEF Descend, Arrive
    <2>2. /\ call' \in Calls /\ call'.pc \in {"open", "last"} /\ call'.parent = call.parent
          /\ call'.inst = call.inst /\ call'.saveinst = call.saveinst
          /\ call'.savepkg = call.savepkg
        BY <1>5, <2>1, ScheduledTyped DEF Calls
    <2> QED
        BY <1>1, <1>2, <1>6, <1>7, <2>1, <2>2 DEF Move
<1>8. CASE Skipped(currpkg, child) # <<>>
    <2>1. /\ currpkg' = currpkg
          /\ call' = [call EXCEPT !.pc = "chain", !.chain = Skipped(currpkg, child),
                                  !.parent = currinst]
        BY <1>8 DEF Descend
    <2>2. /\ call' \in Calls /\ call'.pc = "chain" /\ call'.parent = call.parent
          /\ call'.inst = call.inst /\ call'.saveinst = call.saveinst
          /\ call'.path = call.path /\ call'.chain = Skipped(currpkg, Head(call.path))
          /\ call'.savepkg = call.savepkg
        BY <1>4, <1>6, <2>1, ScheduledTyped DEF Calls
    <2> QED
        BY <1>1, <2>1, <2>2 DEF Move
<1> QED
    BY <1>7, <1>8

LEMMA NoSuchNodeIs ==
    ASSUME InstInv, NoSuchNode
    PROVE  Move
<1>1. /\ call.pc = "descend" /\ Building /\ mishap = "missing"
      /\ call' = [call EXCEPT !.pc = "clean"]
      /\ UNCHANGED <<insts, currinst, currpkg, ipos, handles, prompt, calls, mishap, node, misused>>
    BY DEF NoSuchNode, Building
<1>2. call.inst = call.parent
    BY <1>1 DEF InstInv, CallTyped, Skipping
<1>3. /\ call' \in Calls /\ call'.pc = "clean" /\ call'.parent = call.parent
      /\ call'.inst = call.inst /\ call'.saveinst = call.saveinst
      /\ call'.savepkg = call.savepkg
    BY <1>1, ScheduledTyped DEF Calls
<1> QED
    BY <1>1, <1>2, <1>3 DEF Move

LEMMA EndOfSkippedIs ==
    ASSUME InstInv, EndOfSkipped
    PROVE  Move
<1>1. /\ call.pc = "chain" /\ call.chain = <<>> /\ Building /\ Skipping
      /\ UNCHANGED <<insts, currinst, ipos, handles, prompt, calls, mishap, node, misused>>
    BY DEF EndOfSkipped, Building, Skipping
<1>2. CASE call.parent = 0
    <2>1. mishap \in {"chain", "memory"}
        BY <1>1, <1>2 DEF InstInv, LineOK
    <2>2. call' = [call EXCEPT !.pc = "clean"] /\ currpkg' = currpkg
        BY <1>2 DEF EndOfSkipped
    <2>3. /\ call' \in Calls /\ call'.pc = "clean" /\ call'.parent = call.parent
          /\ call'.inst = call.inst /\ call'.saveinst = call.saveinst
          /\ call'.savepkg = call.savepkg
        BY <2>2, ScheduledTyped DEF Calls
    <2> QED
        BY <1>1, <2>1, <2>2, <2>3 DEF Move
<1>3. CASE call.parent # 0
    <2>1. /\ currpkg' = Head(call.path)
          /\ call' = [call EXCEPT !.path = Tail(@),
                         !.pc = IF Tail(call.path) = <<>> THEN "last" ELSE "open"]
        BY <1>3 DEF EndOfSkipped, Arrive
    <2>2. call.path # <<>> /\ Head(call.path) \in Packages
        BY <1>1 DEF InstInv, CallTyped
    <2>3. Tail(call.path) \in Seq(Names)
        BY <2>2, ScheduledTyped, SequenceEnds DEF Calls
    <2>4. /\ call' \in Calls /\ call'.pc \in {"open", "last"} /\ call'.parent = call.parent
          /\ call'.inst = call.inst /\ call'.saveinst = call.saveinst
          /\ call'.savepkg = call.savepkg
        BY <2>1, <2>3, ScheduledTyped DEF Calls
    <2>5. mishap \notin {"chain", "memory"} =>
              Below(currpkg, currpkg') /\ Skipped(currpkg, currpkg') = <<>>
        BY <1>1, <2>1 DEF InstInv, AncestorsOK, Found
    <2> QED
        BY <1>1, <1>3, <2>1, <2>2, <2>4, <2>5 DEF Move
<1> QED
    BY <1>2, <1>3

LEMMA NoMemoryIs ==
    ASSUME InstInv, NoMemory
    PROVE  Move \/ End
<1>1. /\ mishap = "memory"
      /\ ipos' = IF call.pc = "interpose" THEN NoInterposer ELSE ipos
      /\ UNCHANGED <<insts, currinst, currpkg, handles, prompt, calls, mishap, node, misused>>
    BY DEF NoMemory
<1>2. call.parent \in Nat
    BY ScheduledTyped DEF Calls
<1>3. CASE call.pc = "open" /\ call' = Idle
    BY <1>1, <1>3, ScheduledTyped DEF End
<1>4. CASE /\ call.pc \in {"interpose", "descend", "last"}
           /\ call' = [call EXCEPT !.pc = "clean",
                         !.inst = IF call.context = "exec" /\ call.pc = "last" THEN 0
                                  ELSE call.parent]
    <2>1. /\ call' \in Calls /\ call'.pc = "clean" /\ call'.parent = call.parent
          /\ call'.inst \in {0, call.parent} /\ call'.saveinst = call.saveinst
          /\ call'.savepkg = call.savepkg
        BY <1>2, <1>4, ScheduledTyped DEF Calls
    <2>2. Building
        BY <1>4 DEF Building
    <2> QED
        BY <1>1, <2>1, <2>2 DEF Move
<1>5. CASE /\ call.pc = "interpose" /\ call.next = "chain"
           /\ call' = [call EXCEPT !.parent = 0, !.pc = "chain"]
    <2>1. /\ call' \in Calls /\ call'.pc = "chain" /\ call'.parent = 0
          /\ call'.inst = call.inst /\ call'.saveinst = call.saveinst
          /\ call'.savepkg = call.savepkg /\ call'.path = call.path
        BY <1>5, ScheduledTyped DEF Calls
    <2>2. Building /\ Skipping
        BY <1>5 DEF Building, Skipping
    <2> QED
        BY <1>1, <2>1, <2>2 DEF Move
<1>6. CASE /\ call.pc = "chain" /\ call.chain # <<>>
           /\ call' = [call EXCEPT !.chain = Tail(@), !.parent = 0]
    <2>1. Tail(call.chain) \in Seq(Packages)
        BY <1>6, ScheduledTyped, SequenceEnds DEF Calls
    <2>2. /\ call' \in Calls /\ call'.pc = "chain" /\ call'.parent = 0
          /\ call'.inst = call.inst /\ call'.saveinst = call.saveinst
          /\ call'.savepkg = call.savepkg /\ call'.path = call.path
        BY <1>6, <2>1, ScheduledTyped DEF Calls
    <2>3. Building /\ Skipping
        BY <1>6 DEF Building, Skipping
    <2> QED
        BY <1>1, <1>6, <2>2, <2>3 DEF Move
<1> QED
    BY <1>3, <1>4, <1>5, <1>6 DEF NoMemory

LEMMA HandOverIs ==
    ASSUME InstInv, HandOver
    PROVE  End
<1>1. /\ call.pc = "done" /\ handles' = handles \union {call.inst} /\ call' = Idle
      /\ currinst' = call.saveinst /\ currpkg' = call.savepkg
      /\ UNCHANGED <<insts, ipos, prompt, calls, mishap, node, misused>>
    BY DEF HandOver, Return
<1>2. call.savepkg \in Active
    BY ScheduledTyped DEF Calls
<1> QED
    BY <1>1, <1>2 DEF End

\* What the instance that is taken away knows of others.
LEMMA Taken ==
    ASSUME InstInv, NEW d \in 0 .. Len(insts), d # 0
    PROVE  /\ d \in 1 .. Len(insts) /\ insts[d].parent \in Nat /\ insts \in Seq(Records)
           /\ Entry(insts, d)
<1>1. Len(insts) \in Nat /\ Rising(insts)
    BY WhatHolds
<1>2. d \in 1 .. Len(insts)
    BY <1>1
<1>3. insts[d].parent \in 0 .. d - 1
    BY <1>2, <1>1 DEF Rising
<1> QED
    BY <1>1, <1>2, <1>3 DEF InstInv, InstTypeOK, Shape

LEMMA CleanExitIs ==
    ASSUME InstInv, CleanExit
    PROVE  Taking \/ End
<1> DEFINE d == call.inst
<1>1. call.pc = "clean" /\ UNCHANGED <<ipos, handles, prompt, calls, mishap, node, misused>>
    BY DEF CleanExit
<1>2. /\ call.savepkg \in Active /\ d \in 0 .. Len(insts)
    BY ScheduledTyped DEF Calls, InstInv, CallTyped
<1>3. CASE d = 0
    <2>1. /\ insts' = insts /\ call' = Idle
          /\ currinst' = call.saveinst /\ currpkg' = call.savepkg
        BY <1>3 DEF CleanExit, Return
    <2> QED
        BY <1>1, <1>2, <1>3, <2>1 DEF End
<1>4. CASE d # 0
    <2>1. /\ insts' = delete_instance(insts, d)
          /\ call' = [call EXCEPT !.parent = insts[d].parent, !.pc = "unwind"]
          /\ UNCHANGED <<currinst, currpkg>>
        BY <1>4 DEF CleanExit
    <2>2. d \in 1 .. Len(insts) /\ insts[d].parent \in Nat /\ insts \in Seq(Records)
        BY <1>2, <1>4, Taken
    <2>3. Removed(insts, insts', d, {}, insts[d].phase)
        BY <2>1, <2>2, DeleteEffect
    <2>4. /\ call' \in Calls /\ call'.pc = "unwind" /\ call'.parent = insts[d].parent
          /\ call'.inst = call.inst /\ call'.saveinst = call.saveinst
          /\ call'.savepkg = call.savepkg
        BY <2>1, <2>2, ScheduledTyped DEF Calls
    <2>5. TakeAway(d, {}, insts[d].phase)
        BY <1>1, <2>1, <2>2, <2>3, <2>4 DEF TakeAway
    <2> QED
        BY <2>5 DEF Taking
<1> QED
    BY <1>3, <1>4

LEMMA CloseParentIs ==
    ASSUME InstInv, CloseParent
    PROVE  Taking \/ End
<1> DEFINE d == call.parent
<1>1. call.pc = "unwind" /\ UNCHANGED <<ipos, handles, prompt, calls, mishap, node, misused>>
    BY DEF CloseParent
<1>2. /\ call.savepkg \in Active /\ d \in 0 .. Len(insts)
    BY ScheduledTyped DEF Calls, InstInv, CallTyped
<1>3. CASE d = 0
    <2>1. /\ insts' = insts /\ call' = Idle
          /\ currinst' = call.saveinst /\ currpkg' = call.savepkg
        BY <1>3 DEF CloseParent, Return
    <2> QED
        BY <1>1, <1>2, <1>3, <2>1 DEF End
<1>4. CASE d # 0
    <2>1. /\ insts' = delete_instance(execute_close(insts, d), d)
          /\ call' = [call EXCEPT !.parent = insts[d].parent]
          /\ UNCHANGED <<currinst, currpkg>>
        BY <1>4 DEF CloseParent
    <2>2. /\ d \in 1 .. Len(insts) /\ insts[d].parent \in Nat /\ insts \in Seq(Records)
          /\ Entry(insts, d)
        BY <1>2, <1>4, Taken
    <2>3. Removed(insts, insts', d, HelpersOf(insts, d), "closed")
        BY <2>1, <2>2, CloseEffect
    <2>4. /\ call' \in Calls /\ call'.pc = "unwind" /\ call'.parent = insts[d].parent
          /\ call'.inst = call.inst /\ call'.saveinst = call.saveinst
          /\ call'.savepkg = call.savepkg
        BY <1>1, <2>1, <2>2, ScheduledTyped DEF Calls
    <2>5. TakeAway(d, HelpersOf(insts, d), "closed")
        BY <1>1, <2>1, <2>2, <2>3, <2>4 DEF TakeAway
    <2> QED
        BY <2>5 DEF Taking
<1> QED
    BY <1>3, <1>4

LEMMA CloseNextIs ==
    ASSUME InstInv, CloseNext
    PROVE  Taking \/ End
<1> DEFINE d == call.inst
<1>1. call.pc = "close" /\ UNCHANGED <<ipos, handles, prompt, calls, mishap, node, misused>>
    BY DEF CloseNext
<1>2. /\ call.savepkg \in Active /\ d \in 0 .. Len(insts)
      /\ currpkg \in Active /\ None \in Active
    BY ScheduledTyped DEF Active, Calls, InstInv, CallTyped
<1>3. CASE d = 0
    <2>1. insts' = insts /\ call' = Idle /\ currinst' = currinst /\ currpkg' = call.savepkg
        BY <1>3 DEF CloseNext
    <2> QED
        BY <1>1, <1>2, <1>3, <2>1 DEF End
<1>4. CASE d # 0
    <2>1. /\ insts' = delete_instance(execute_close(insts, d), d)
          /\ currinst' = IF currinst = d THEN 0 ELSE currinst
          /\ currpkg' = IF currinst = d THEN None ELSE currpkg
          /\ call' = [call EXCEPT !.inst = insts[d].parent]
        BY <1>4 DEF CloseNext
    <2>2. /\ d \in 1 .. Len(insts) /\ insts[d].parent \in Nat /\ insts \in Seq(Records)
          /\ Entry(insts, d)
        BY <1>2, <1>4, Taken
    <2>3. Removed(insts, insts', d, HelpersOf(insts, d), "closed")
        BY <2>1, <2>2, CloseEffect
    <2>4. /\ call' \in Calls /\ call'.pc = "close" /\ call'.inst = insts[d].parent
          /\ call'.parent = call.parent /\ call'.saveinst = call.saveinst
          /\ call'.savepkg = call.savepkg
        BY <1>1, <2>1, <2>2, ScheduledTyped DEF Calls
    <2>5. currpkg' \in Active
        BY <1>2, <2>1
    <2>6. TakeAway(d, HelpersOf(insts, d), "closed")
        BY <1>1, <2>1, <2>2, <2>3, <2>4, <2>5 DEF TakeAway
    <2> QED
        BY <2>6 DEF Taking
<1> QED
    BY <1>3, <1>4

LEMMA BeginCloseIs ==
    ASSUME NEW h \in Nat, h # 0, BeginClose(h), currpkg' \in Active
    PROVE  /\ call' \in Calls /\ call'.pc = "close" /\ call'.inst = h /\ call'.parent = 0
           /\ call'.savepkg = currpkg' /\ call'.saveinst = 0
<1>1. call' = [Idle EXCEPT !.pc = "close", !.inst = h, !.savepkg = currpkg']
    BY DEF BeginClose
<1> QED
    BY <1>1, IdleFields DEF Calls, Idle

LEMMA CloseDevIs ==
    ASSUME InstInv, NEW h \in handles, close_dev(h)
    PROVE  BeginsClosing(h)
<1>1. /\ call = Idle /\ handles' = handles \ {h} /\ BeginClose(h) /\ currpkg' = currpkg
      /\ prompt' = IF currinst = h THEN [prompt EXCEPT !.inst = 0] ELSE prompt
      /\ misused' = (misused \/ node.parent = h)
      /\ UNCHANGED <<insts, currinst, ipos, calls, mishap, node>>
    BY DEF close_dev
<1>2. h \in Nat /\ h # 0 /\ currpkg' \in Active
    BY <1>1, WhatHolds DEF InstInv, InstTypeOK
<1>3. /\ call' \in Calls /\ call'.pc = "close" /\ call'.inst = h /\ call'.parent = 0
      /\ call'.savepkg = currpkg' /\ call'.saveinst = 0
    BY <1>1, <1>2, BeginCloseIs
<1> QED
    BY <1>1, <1>3 DEF BeginsClosing

\* What the words that make nodes know of them.
LEMMA NodeFacts ==
    ASSUME InstInv
    PROVE  /\ calls \in 0 .. MaxCalls /\ node.parent \in handles \union {0}
           /\ node.under \in Packages \union {None}
           /\ \A h \in handles : h \in 1 .. MaxInst /\ h \in Nat /\ h # 0
           /\ \A h \in handles \union {0}, p \in Packages \union {None} :
                 /\ [parent |-> h, under |-> p] \in [parent : 0 .. MaxInst, under : Packages \union {None}]
                 /\ [parent |-> h, under |-> p].parent = h
           /\ NoNode \in [parent : 0 .. MaxInst, under : Packages \union {None}]
           /\ NoNode.parent = 0
<1>1. calls \in 0 .. MaxCalls /\ node \in [parent : 0 .. MaxInst, under : Packages \union {None}]
    BY DEF InstInv, InstTypeOK
<1>2. \A h \in handles : h \in 1 .. MaxInst /\ h \in Nat /\ h # 0
    BY WhatHolds, InstancesAssumption
<1>3. NoNode \in [parent : 0 .. MaxInst, under : Packages \union {None}] /\ NoNode.parent = 0
    BY InstancesAssumption DEF NoNode
<1>4. 0 \in 0 .. MaxInst /\ \A h \in handles \union {0} : h \in 0 .. MaxInst
    BY <1>2, InstancesAssumption
<1> QED
    BY <1>1, <1>2, <1>3, <1>4 DEF InstInv, NodeOK

LEMMA MakeNodeIs ==
    ASSUME InstInv, call = Idle, NEW h \in handles \union {0}, NEW p \in Packages, MakeNode(h, p),
           UNCHANGED <<insts, ipos, call, handles, calls, mishap, misused>>
    PROVE  Between
<1>1. /\ node' = [parent |-> h, under |-> p] /\ currinst' = InitInst /\ currpkg' = NewNode
      /\ prompt' = [inst |-> currinst', pkg |-> currpkg']
    BY DEF MakeNode
<1>2. /\ node' \in [parent : 0 .. MaxInst, under : Packages \union {None}]
      /\ node'.parent \in handles \union {0}
    BY <1>1, NodeFacts
<1> QED
    BY <1>1, <1>2, NodeFacts DEF Between, Active

LEMMA NewDeviceIs ==
    ASSUME InstInv, new_device
    PROVE  Between
BY MakeNodeIs DEF new_device

LEMMA FinishDeviceIs ==
    ASSUME InstInv, finish_device
    PROVE  Between
<1>1. /\ call = Idle /\ call' = call /\ currinst' = node.parent /\ node' = NoNode
      /\ currpkg # None
      /\ currpkg' = IF currpkg = NewNode THEN node.under ELSE ParentOf[currpkg]
      /\ prompt' = [inst |-> currinst', pkg |-> currpkg']
      /\ UNCHANGED <<insts, ipos, handles, calls, mishap, misused>>
    BY DEF finish_device, UpToParents
<1>2. currpkg' \in Active
    <2>1. CASE currpkg = NewNode
        BY <1>1, <2>1, NodeFacts DEF Active
    <2>2. CASE currpkg # NewNode
        <3>1. currpkg \in Packages
            BY <1>1, <2>2 DEF InstInv, InstTypeOK, Active
        <3> QED
            BY <1>1, <2>2, <3>1, InstancesAssumption DEF Active
    <2> QED
        BY <2>1, <2>2
<1> QED
    BY <1>1, <1>2, NodeFacts DEF Between

LEMMA EndPackageIs ==
    ASSUME InstInv, end_package
    PROVE  Between \/ \E h : BeginsClosing(h)
<1> DEFINE h == node.parent
<1>1. /\ call = Idle /\ handles' = handles \ {h} /\ currinst' = h /\ node' = NoNode
      /\ BeginClose(h) /\ currpkg' = None /\ prompt' = [inst |-> 0, pkg |-> None]
      /\ UNCHANGED <<insts, ipos, calls, mishap, misused>>
    BY DEF end_package, UpToParents
<1>2. h \in handles \union {0} /\ currpkg' \in Active
    BY <1>1, NodeFacts DEF Active
<1> HIDE DEF h
<1>3. CASE h = 0
    <2>1. call' = Idle /\ handles' = handles
        BY <1>1, <1>3, NodeFacts DEF BeginClose
    <2> QED
        BY <1>1, <1>2, <1>3, <2>1, NodeFacts DEF Between
<1>4. CASE h # 0
    <2>1. h \in handles /\ h \in Nat
        BY <1>2, <1>4, NodeFacts
    <2>2. /\ call' \in Calls /\ call'.pc = "close" /\ call'.inst = h /\ call'.parent = 0
          /\ call'.savepkg = currpkg' /\ call'.saveinst = 0
        BY <1>1, <1>2, <1>4, <2>1, BeginCloseIs
    <2>3. BeginsClosing(h)
        BY <1>1, <2>1, <2>2 DEF BeginsClosing
    <2> QED
        BY <2>3
<1> QED
    BY <1>3, <1>4

LEMMA BeginPackageIs ==
    ASSUME InstInv, NEW h \in handles, begin_package(h)
    PROVE  Between
<1>1. /\ call = Idle /\ insts[h].pkg \in Packages
      /\ UNCHANGED <<insts, ipos, call, handles, calls, mishap, misused>>
    BY DEF begin_package
<1>2. CASE MakeNode(h, insts[h].pkg)
    BY <1>1, <1>2, MakeNodeIs
<1>3. CASE ~MakeNode(h, insts[h].pkg)
    <2>1. /\ currinst' = h /\ currpkg' = insts[h].pkg /\ node' = node
          /\ prompt' = [inst |-> currinst', pkg |-> currpkg']
        BY <1>3 DEF begin_package
    <2>2. node' \in [parent : 0 .. MaxInst, under : Packages \union {None}]
        BY <2>1 DEF InstInv, InstTypeOK
    <2> QED
        BY <1>1, <2>1, <2>2, NodeFacts DEF Between, Active
<1> QED
    BY <1>2, <1>3

LEMMA FindDeviceIs ==
    ASSUME InstInv, NEW name, find_device(name)
    PROVE  Between
<1>1. /\ call = Idle /\ call' = call /\ calls < MaxCalls /\ calls' = calls + 1
      /\ currpkg' = IF name = Root \/ Below(Root, name) THEN name ELSE None
      /\ prompt' = [prompt EXCEPT !.pkg = currpkg']
      /\ UNCHANGED <<insts, currinst, ipos, handles, mishap, node, misused>>
    BY DEF find_device, LookUp
<1>2. calls' \in 0 .. MaxCalls
    BY <1>1, InstancesAssumption DEF InstInv, InstTypeOK
<1>3. currpkg' \in Active
    BY <1>1, InstancesAssumption DEF Below, Active
<1>4. node' \in [parent : 0 .. MaxInst, under : Packages \union {None}]
    BY <1>1 DEF InstInv, InstTypeOK
<1> QED
    BY <1>1, <1>2, <1>3, <1>4, NodeFacts DEF Between

\* Every step is one of these.
Step == \/ OnTop \/ InChain \/ Taking \/ Move \/ End \/ Between
        \/ \E h : BeginsClosing(h)
        \/ \E context \in {"open", "exec"}, path \in Paths : BeginResolve(context, path)
        \/ UNCHANGED instVars

LEMMA StepIs ==
    ASSUME InstInv, [InstNext]_instVars
    PROVE  Step
<1>1. CASE Resolving
    BY <1>1, OpenNodeIs, InterposeIs, OpenInterposerIs, DescendIs, NoSuchNodeIs, OpenSkippedIs,
       EndOfSkippedIs, OpenLastIs, ExecuteLastIs, NoMemoryIs, HandOverIs, CleanExitIs,
       CloseParentIs DEF Resolving, Step
<1>2. CASE \E context \in {"open", "exec"}, path \in Paths : BeginResolve(context, path)
    BY <1>2 DEF Step
<1>3. CASE \E h \in handles : close_dev(h) \/ begin_package(h)
    BY <1>3, CloseDevIs, BeginPackageIs DEF Step
<1>4. CASE CloseNext
    BY <1>4, CloseNextIs DEF Step
<1>5. CASE new_device \/ finish_device \/ end_package
    BY <1>5, NewDeviceIs, FinishDeviceIs, EndPackageIs DEF Step
<1>6. CASE \E path \in Paths : path # <<>> /\ find_device(Head(path))
    BY <1>6, FindDeviceIs DEF Step
<1>7. CASE UNCHANGED instVars
    BY <1>7 DEF Step
<1> QED
    BY <1>1, <1>2, <1>3, <1>4, <1>5, <1>6, <1>7 DEF InstNext

-----------------------------------------------------------------------------
(* The theorems. *)

LEMMA InvHoldsAtFirst ==
    ASSUME InstInit
    PROVE  InstInv
<1>1. /\ insts = <<>> /\ currinst = 0 /\ currpkg = None /\ ipos = NoInterposer
      /\ call = Idle /\ handles = {} /\ prompt = [inst |-> 0, pkg |-> None]
      /\ calls = 0 /\ mishap \in Mishaps /\ node = NoNode /\ misused = FALSE
    BY DEF InstInit
<1>2. /\ insts \in Seq(Records) /\ Len(insts) = 0 /\ DOMAIN insts = {}
      /\ ~(\E i \in 1 .. Len(insts) : TRUE)
    BY <1>1
<1>3. /\ call \in Calls /\ call.pc = "idle" /\ call.inst = 0 /\ call.parent = 0
      /\ call.saveinst = 0 /\ call.next = "idle"
    BY <1>1, IdleFields
<1>4. ~Building /\ Quiet /\ ~Skipping /\ Tops = {}
    BY <1>3 DEF Building, Quiet, Skipping, Tops
<1>5. InstTypeOK
    <2>1. NoNode \in [parent : 0 .. MaxInst, under : Packages \union {None}]
        BY InstancesAssumption DEF NoNode
    <2>2. MaxInst \in Nat /\ 0 \in 0 .. MaxInst /\ 0 \in 0 .. InitInst /\ 0 <= MaxInst
        BY InstancesAssumption DEF InitInst
    <2>3. None \in Active /\ NoInterposer.pkg = None /\ NoInterposer.by = 0
        BY DEF Active, NoInterposer
    <2>4. /\ misused \in BOOLEAN /\ handles \subseteq Inst /\ currpkg \in Active
          /\ node \in [parent : 0 .. MaxInst, under : Packages \union {None}]
          /\ currinst \in 0 .. InitInst /\ insts \in Seq(Records) /\ Len(insts) <= MaxInst
          /\ ipos.pkg \in Interposers \union {None} /\ ipos.by \in 0 .. MaxInst
        BY <1>1, <1>2, <2>1, <2>2, <2>3
    <2>5. calls \in 0 .. MaxCalls
        BY <1>1, InstancesAssumption
    <2>6. /\ call.pc \in {"idle", "open", "interpose", "descend", "chain", "last",
                         "done", "clean", "unwind", "close"}
          /\ call.next \in {"idle", "descend", "chain", "done"}
          /\ call.context \in {"open", "exec"}
          /\ call.inst \in 0 .. MaxInst /\ call.parent \in 0 .. MaxInst
        BY <1>3, <2>2 DEF Calls
    <2> QED
        BY <1>1, <2>4, <2>5, <2>6 DEF InstTypeOK
<1>6. CallTyped
    BY <1>1, <1>2, <1>3, <1>4 DEF CallTyped, NoInterposer, Active
<1>7. Shape /\ ChainsOK /\ SelfOK /\ PromptOK /\ NodeOK
    BY <1>1, <1>2, <1>3, <1>4 DEF Shape, ChainsOK, SelfOK, PromptOK, NodeOK, NoNode
<1>8. IposOK /\ LineOK /\ OwnedOK /\ AncestorsOK
    BY <1>1, <1>2, <1>3, <1>4 DEF IposOK, LineOK, OwnedOK, AncestorsOK, Asked, Unbranched, Owned
<1> QED
    BY <1>5, <1>6, <1>7, <1>8 DEF InstInv

LEMMA InvKept ==
    ASSUME InstInv, [InstNext]_instVars, ~misused'
    PROVE  InstInv'
BY StepIs, OnTopKeeps, InChainKeeps, TakingKeeps, MoveKeeps, EndKeeps, BetweenKeeps,
   ClosingKeeps, BeginKeeps, StutterKeeps DEF Step, OnTop, InChain, Taking

\* What callers have done cannot be undone.
LEMMA StaysMisused ==
    ASSUME misused, [InstNext]_instVars
    PROVE  misused'
BY DEF InstNext, instVars, Resolving, BeginResolve, OpenNode, Interpose, OpenInterposer, Descend,
   NoSuchNode, OpenSkipped, EndOfSkipped, OpenLast, ExecuteLast, NoMemory, HandOver, CleanExit,
   CloseParent, close_dev, begin_package, CloseNext, new_device, finish_device, end_package,
   find_device

\* The inductive invariant: how the instances hang together, whose chains are
\* whose, and what is left to be done by the call that is under way, until a
\* caller closes the instance below which it makes a node.
THEOREM Invariance == InstSpec => [](misused \/ InstInv)
<1>1. (misused \/ InstInv) /\ [InstNext]_instVars => (misused \/ InstInv)'
    BY InvKept, StaysMisused
<1> QED
    BY <1>1, InvHoldsAtFirst, PTL DEF InstSpec

LEMMA GoodIsUsable ==
    ASSUME InstInv
    PROVE  /\ DOMAIN insts = 1 .. Len(insts) /\ Len(insts) \in Nat
           /\ Good(insts) \subseteq Usable
           /\ \A i \in 1 .. Len(insts) : Helpers(i) \subseteq Usable
<1>1. DOMAIN insts = 1 .. Len(insts) /\ Len(insts) \in Nat
    BY SeqFacts DEF InstInv, InstTypeOK
<1>2. Good(insts) \subseteq Usable
    BY <1>1 DEF Good, Usable, Opened
<1>3. ASSUME NEW i \in 1 .. Len(insts)
      PROVE  Helpers(i) \subseteq Usable
    <2>1. Entry(insts, i)
        BY DEF InstInv, Shape
    <2>2. CASE insts[i].deblocker = 0 /\ insts[i].disklabel = 0
        BY <2>2 DEF Helpers
    <2>3. CASE /\ insts[i].deblocker = i + 1 /\ insts[i].disklabel = i + 2
               /\ i + 2 <= Len(insts)
               /\ HelperOf(insts, i + 1, i) /\ HelperOf(insts, i + 2, i)
        <3>1. i + 1 \in DOMAIN insts /\ i + 2 \in DOMAIN insts
            BY <1>1, <2>3
        <3>2. i + 1 \in Usable /\ i + 2 \in Usable
            BY <2>3, <3>1 DEF HelperOf, Usable, Opened
        <3> QED
            BY <2>3, <3>2 DEF Helpers
    <2> QED
        BY <2>1, <2>2, <2>3 DEF Entry
<1> QED
    BY <1>1, <1>2, <1>3

\* Whatever fails while devices are opened and closed, an instance that somebody
\* can still call (through an ihandle, as my-parent, as a disk's helper or as
\* my-self, also that of a node begun with begin-package) is open and has not been
\* deleted, until a caller closes the instance below which it makes a node.
THEOREM UsedStaysLive == InstSpec => []UsedIsLive
<1>1. misused \/ InstInv => UsedIsLive
    <2> SUFFICES ASSUME InstInv
                 PROVE  HandlesAreLive /\ SelfIsLive
        BY DEF UsedIsLive
    <2>1. \A h \in handles : \A i \in Chain(insts, h) : i \in Good(insts) /\ i \in 1 .. Len(insts)
        BY WhatHolds
    <2>2. HandlesAreLive
        BY <2>1, GoodIsUsable DEF HandlesAreLive
    <2>3. node.parent \in Usable \union {0}
        BY <2>1, WhatHolds, GoodIsUsable DEF InstInv, NodeOK
    <2>4. SelfIsLive
        BY <2>3, GoodIsUsable, IdleFields DEF InstInv, SelfOK, Quiet, SelfIsLive
    <2> QED
        BY <2>2, <2>4
<1> QED
    BY <1>1, Invariance, PTL

\* When open-dev, execute-device-method or close-dev has returned, whether or not
\* an open method of a named node failed, whatever is open belongs to an ihandle
\* somebody has.  Left out are paths that name no node, skipped nodes whose open
\* method fails and running out of memory, where the code leaves instances open.
THEOREM NothingIsLeft == InstSpec => []NothingLeft
<1>1. misused \/ InstInv => NothingLeft
    <2> DEFINE Mine(h) == Chain(insts, h) \union UNION {Helpers(i) : i \in Chain(insts, h)}
    <2> SUFFICES ASSUME InstInv, call = Idle, mishap \in {"none", "interpose"}
                 PROVE  Opened = UNION {Mine(h) : h \in handles}
        BY DEF NothingLeft
    <2>1. Tops = {}
        BY IdleFields DEF Tops, Building
    <2>2. Owned(insts, handles)
        BY <2>1 DEF InstInv, OwnedOK
    <2>3. ASSUME NEW i \in 1 .. Len(insts), insts[i].phase = "open", ~Helper(insts[i])
          PROVE  \E h \in handles : i \in Chain(insts, h)
        BY <2>2, <2>3 DEF Owned
    <2>4. ASSUME NEW i \in Opened
          PROVE  \E h \in handles : i \in Mine(h)
        <3>1. i \in 1 .. Len(insts) /\ insts[i].phase = "open" /\ i # 0
            BY GoodIsUsable DEF Opened
        <3>2. CASE ~Helper(insts[i])
            BY <2>3, <3>1, <3>2
        <3>3. CASE Helper(insts[i])
            <4> DEFINE p == insts[i].parent
            <4>1. insts[i].live /\ insts[p].live
                BY <2>2, <3>1, <3>3 DEF Owned
            <4>2. Entry(insts, i)
                BY <3>1 DEF InstInv, Shape
            <4>3. p # 0 /\ p \in 0 .. i - 1 /\ i \in {insts[p].deblocker, insts[p].disklabel}
                BY <3>1, <3>3, <4>1, <4>2 DEF Entry
            <4>4. p \in 1 .. Len(insts)
                BY <3>1, <4>3, GoodIsUsable
            <4>5. Entry(insts, p)
                BY <4>4 DEF InstInv, Shape
            <4>6. p \in Good(insts)
                BY <3>1, <4>3, <4>5 DEF Entry
            <4>7. PICK h \in handles : p \in Chain(insts, h)
                BY <2>3, <4>4, <4>6 DEF Good
            <4>8. i \in Helpers(p)
                BY <3>1, <4>3 DEF Helpers
            <4> QED
                BY <4>7, <4>8
        <3> QED
            BY <3>2, <3>3
    <2>5. ASSUME NEW h \in handles
          PROVE  Mine(h) \subseteq Opened
        <3>1. Chain(insts, h) \subseteq Good(insts) /\ Good(insts) \subseteq 1 .. Len(insts)
            BY WhatHolds
        <3> QED
            BY <3>1, GoodIsUsable DEF Usable
    <2> QED
        BY <2>4, <2>5
<1> QED
    BY <1>1, Invariance, PTL

\* Opening and closing leave my-self and the active package as the callers of
\* begin-package, new-device, finish-device, end-package, find-device and
\* close-dev have set them, unless memory runs out, when the code may return with
\* the innermost instance as my-self.
THEOREM SelfIsRestored == InstSpec => []SelfRestored
<1>1. misused \/ InstInv => SelfRestored
    BY IdleFields DEF InstInv, PromptOK, SelfRestored
<1> QED
    BY <1>1, Invariance, PTL

\* What open-dev returns is on top of the nodes above its device, all of them and
\* in the order of the tree, with nothing in between but interposers, where no
\* skipped node fails to open and memory does not run out; and each interposer is
\* on top of the instance that asked for it, where no method asks and then fails.
THEOREM IsWellFormed == InstSpec => []WellFormed
<1>1. InstInv => InterposedWhereAsked
    <2> SUFFICES ASSUME InstInv, mishap # "interpose", NEW i \in DOMAIN insts, insts[i].by # 0
                 PROVE  insts[i].parent = insts[i].by
        BY DEF InterposedWhereAsked
    <2> QED
        BY GoodIsUsable DEF InstInv, IposOK, Asked
<1>2. InstInv => AllAncestors
    <2> SUFFICES ASSUME InstInv, mishap \notin {"chain", "memory"}, NEW h \in handles
                 PROVE  LET nodes == {i \in Chain(insts, h) : insts[i].pkg \in Packages}
                            device == insts[Max(nodes)].pkg
                        IN /\ {insts[i].pkg : i \in nodes} = {device} \union Range(Above[device])
                           /\ \A i, j \in nodes : i < j => insts[i].pkg \in Range(Above[insts[j].pkg])
        BY DEF AllAncestors
    <2> DEFINE nodes == Nodes(insts, h)
    <2>1. nodes \subseteq Nat
        <3>1. Chain(insts, h) \subseteq 1 .. Len(insts) /\ Len(insts) \in Nat
            BY WhatHolds
        <3> QED
            BY <3>1 DEF Nodes
    <2>2. PICK p \in Packages : DownTo(insts, h, p)
        BY DEF InstInv, AncestorsOK
    <2>3. PICK i \in nodes : insts[i].pkg = p /\ \A j \in nodes : j <= i
        BY <2>2 DEF DownTo
    <2> HIDE DEF nodes
    <2>4. Max(nodes) = i
        <3>1. \A j \in nodes : i >= j
            BY <2>1, <2>3
        <3>2. \A x \in nodes : (\A y \in nodes : x >= y) => x = i
            BY <2>1, <2>3
        <3> QED
            BY <2>3, <3>1, <3>2 DEF Max
    <2>5. {insts[j].pkg : j \in nodes} = {p} \union Range(Above[p])
        BY <2>2 DEF DownTo, NodePkgs, nodes
    <2>6. \A j, k \in nodes : j < k => insts[j].pkg \in Range(Above[insts[k].pkg])
        BY DEF InstInv, AncestorsOK, Ordered, nodes
    <2>7. nodes = {j \in Chain(insts, h) : insts[j].pkg \in Packages}
        BY DEF nodes, Nodes
    <2> QED
        BY <2>3, <2>4, <2>5, <2>6, <2>7
<1>3. misused \/ InstInv => WellFormed
    BY <1>1, <1>2 DEF WellFormed, InstInv
<1> QED
    BY <1>3, Invariance, PTL

\* What a step may never do: run the close method of an instance that is not open,
\* or that still has an open one on top of it (f_close_dev and clean_exit close
\* them from an ihandle to the root).  Where skipped nodes fail or memory runs out
\* an instance may have two on top of it, and the code closes it too early.
ClosesInOrder ==
    ~misused /\ mishap \notin {"chain", "memory"} =>
        \A i \in DOMAIN insts :
            insts[i].phase # "closed" /\ insts'[i].phase = "closed" =>
                /\ insts[i].phase = "open"
                /\ \A j \in DOMAIN insts : insts'[j].parent = i =>
                      ~(insts'[j].phase = "open" /\ insts'[j].live)

LEMMA TakenInOrder ==
    ASSUME InstInv, NEW d, NEW H, NEW phase, TakeAway(d, H, phase)
    PROVE  ClosesInOrder
<1> SUFFICES ASSUME mishap \notin {"chain", "memory"}, NEW i \in 1 .. Len(insts),
                    insts[i].phase # "closed", insts'[i].phase = "closed"
             PROVE  /\ insts[i].phase = "open"
                    /\ \A j \in 1 .. Len(insts) : insts'[j].parent = i =>
                          ~(insts'[j].phase = "open" /\ insts'[j].live)
    BY GoodIsUsable DEF ClosesInOrder
<1>1. /\ d \in 1 .. Len(insts) /\ Removed(insts, insts', d, H, phase)
      /\ call.pc \in {"clean", "unwind", "close"}
      /\ d = IF call.pc = "unwind" THEN call.parent ELSE call.inst
      /\ call.pc = "clean" => H = {} /\ phase = insts[d].phase
      /\ call.pc # "clean" => H = HelpersOf(insts, d)
    BY DEF TakeAway
<1>2. /\ insts'[d] = Dead(phase)
      /\ \A j \in 1 .. Len(insts) \ {d} :
            insts'[j] = IF j \in H THEN Dead("closed") ELSE insts[j]
    BY <1>1 DEF Removed
<1>3. /\ Dead(phase).parent = 0 /\ Dead("closed").parent = 0 /\ Dead(phase).phase = phase
    BY DEF Dead
<1>4. i \in H \/ i = d
    BY <1>2
<1>5. call.pc # "clean" /\ H = HelpersOf(insts, d) /\ d # 0
    BY <1>1, <1>2, <1>3, <1>4
<1>6. Tops = {d} /\ d \in Chain(insts, d)
    BY <1>1, TakenIsRemovable, WhatHolds, ChainEquation
<1>7. d \in Good(insts)
    BY <1>5, <1>6 DEF InstInv, ChainsOK
<1>8. Bare(insts, d)
    BY <1>1, <1>5 DEF InstInv, LineOK
<1>9. \A j \in 1 .. Len(insts) : Entry(insts, j)
    BY DEF InstInv, Shape
<1>10. CASE i = d
    <2> SUFFICES ASSUME NEW j \in 1 .. Len(insts), insts'[j].parent = d,
                        insts'[j].phase = "open", insts'[j].live
                 PROVE  FALSE
        BY <1>7, <1>10 DEF Good
    <2>1. j # d /\ j \notin H /\ insts'[j] = insts[j]
        BY <1>2, <1>3, <1>5
    <2>2. Helper(insts[j])
        BY <1>8, <2>1 DEF Bare
    <2>3. j \in {insts[d].deblocker, insts[d].disklabel} /\ j # 0
        BY <1>7, <1>9, <2>1, <2>2 DEF Entry, Good
    <2> QED
        BY <1>5, <2>1, <2>3 DEF HelpersOf
<1>11. CASE i # d
    <2>1. HelperOf(insts, i, d)
        <3>1. i \in {insts[d].deblocker, insts[d].disklabel} /\ i # 0
            BY <1>4, <1>5, <1>11 DEF HelpersOf
        <3> QED
            BY <1>1, <1>9, <3>1 DEF Entry
    <2> SUFFICES ASSUME NEW j \in 1 .. Len(insts), insts'[j].parent = i,
                        insts'[j].phase = "open", insts'[j].live
                 PROVE  FALSE
        BY <2>1 DEF HelperOf
    <2>2. insts'[j] = insts[j] /\ i # 0
        BY <1>2, <1>3
    <2> QED
        BY <1>9, <2>1, <2>2 DEF Entry, HelperOf
<1> QED
    BY <1>10, <1>11

LEMMA OthersCloseNothing ==
    ASSUME InstInv, Step, ~Taking
    PROVE  ClosesInOrder
<1>1. DOMAIN insts = 1 .. Len(insts)
    BY GoodIsUsable
<1>2. ASSUME NEW pkg, NEW parent, NEW by, NEW phase,
             Grown(insts, insts', pkg, parent, by, phase)
      PROVE  ClosesInOrder
    BY <1>1, <1>2 DEF Grown, ClosesInOrder
<1>3. CASE OnTop
    BY <1>2, <1>3 DEF OnTop, PutOnTop
<1>4. CASE InChain
    BY <1>2, <1>4 DEF InChain, PutInChain
<1>5. CASE insts' = insts
    BY <1>5 DEF ClosesInOrder
<1>6. Move \/ End \/ Between \/ (\E h : BeginsClosing(h)) \/ UNCHANGED instVars => insts' = insts
    BY DEF Move, End, Between, BeginsClosing, instVars
<1>7. ASSUME NEW context, NEW path, BeginResolve(context, path)
      PROVE  insts' = insts
    BY <1>7 DEF BeginResolve
<1> QED
    BY <1>3, <1>4, <1>5, <1>6, <1>7 DEF Step

\* The close method is run of what is open only, and of an instance after those
\* on top of it, where no skipped node fails to open and memory does not run out.
\* An instance that is deleted without being closed is no longer on top of any.
THEOREM ClosedInOrder == InstSpec => CloseInOrder
<1>1. (misused \/ InstInv) /\ [InstNext]_instVars => ClosesInOrder
    <2>1. InstInv /\ [InstNext]_instVars => ClosesInOrder
        BY StepIs, TakenInOrder, OthersCloseNothing DEF Taking
    <2> QED
        BY <2>1 DEF ClosesInOrder
<1>2. ClosesInOrder => [~misused /\ mishap \notin {"chain", "memory"} =>
          \A i \in DOMAIN insts :
              insts[i].phase # "closed" /\ insts'[i].phase = "closed" =>
                  /\ insts[i].phase = "open"
                  /\ \A j \in DOMAIN insts : insts'[j].parent = i =>
                        ~(insts'[j].phase = "open" /\ insts'[j].live)]_instVars
    BY DEF ClosesInOrder
<1> QED
    BY <1>1, <1>2, Invariance, PTL DEF InstSpec, CloseInOrder
=============================================================================
