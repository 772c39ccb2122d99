-------------------------- MODULE MCAllocBelowTop --------------------------
(* The instance of AllocBelowTop.cfg, which meets the assumption that the   *)
(* proofs rest on.                                                           *)
EXTENDS MCAlloc, AllocBelowTop
=============================================================================
