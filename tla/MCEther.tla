------------------------------ MODULE MCEther ------------------------------
(* The instance of Ether for TLC.                                            *)
EXTENDS Ether
=============================================================================
