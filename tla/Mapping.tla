------------------------------ MODULE Mapping ------------------------------
(***************************************************************************)
(* What an MMU node promises: each page of the virtual address space is    *)
(* unmapped or stands for one physical page in one mode, and a call to map *)
(* or unmap a region changes the pages of the region and no others.        *)
(*                                                                         *)
(* Mmu (bin/of/edb7312) is shown to implement this specification.          *)
(***************************************************************************)
EXTENDS Integers

CONSTANTS Pages,        \* the virtual pages
          Frames,       \* the physical pages
          Modes,        \* access modes
          Unmapped      \* what translating an unmapped page gives

VARIABLE map            \* what each page stands for

MapInit == map \in [Pages -> [phys : Frames, mode : Modes] \union {Unmapped}]

\* The pages lo .. hi become hi - lo + 1 pages from frame p on, in one mode.
MapIn(lo, hi, p, m) ==
    /\ lo <= hi
    /\ map' = [v \in Pages |->
                  IF v \in lo .. hi THEN [phys |-> p + v - lo, mode |-> m]
                  ELSE map[v]]

MapOut(lo, hi) ==
    /\ lo <= hi
    /\ map' = [v \in Pages |-> IF v \in lo .. hi THEN Unmapped ELSE map[v]]

MapNext == \E lo, hi \in Pages :
              \/ /\ map'[lo] # Unmapped
                 /\ MapIn(lo, hi, map'[lo].phys, map'[lo].mode)
              \/ MapOut(lo, hi)

MapSpec == MapInit /\ [][MapNext]_map
=============================================================================
