------------------------ MODULE MCDeblockWholeBlock ------------------------
(* A caller whose writes end with a block, which the theorems leave out.     *)
EXTENDS Deblock

FromTheStart == [seeks |-> {0}, lens |-> {1, 4}, reach |-> 8, faulty |-> FALSE]

OneUse == {FromTheStart}
=============================================================================
