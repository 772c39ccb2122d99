----------------------------- MODULE MCDeblock -----------------------------
(* Instances of Deblock for TLC.                                             *)
EXTENDS Deblock

\* Access up to and past the end of a sound device.
ToTheEnd == [seeks |-> {0, 6, 8}, lens |-> {1, 2, 5}, reach |-> 10, faulty |-> FALSE]

\* Random access, clear of the end of a device whose transfers may fail.
Failing == [seeks |-> {0, 3}, lens |-> {1, 3, 4}, reach |-> 6, faulty |-> TRUE]

BothUses == {ToTheEnd, Failing}
=============================================================================
