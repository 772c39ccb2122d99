------------------------------- MODULE MCMmu -------------------------------
EXTENDS MmuProofs

CONSTANT Limit          \* regions end below this page

\* Pages become the frames of their number in any mode, or the frames above
\* them in one.
MCMapReqs ==
    {r \in [virt : Pages, size : 1 .. Limit, phys : Frames, mode : Modes] :
        /\ r.virt + r.size <= Limit
        /\ r.phys = r.virt \/ (r.phys = r.virt + 1 /\ r.mode = "mem")}
MCUnmapReqs == {r \in [virt : Pages, size : 1 .. Limit] : r.virt + r.size <= Limit}

\* Nothing mapped, or the first section.
MCTables == {[s \in Sections |-> FaultEntry],
             [s \in Sections |-> IF s = 0 THEN SectionEntry(0, "mem")
                                 ELSE FaultEntry]}
=============================================================================
