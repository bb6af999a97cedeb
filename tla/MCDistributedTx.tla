--------------------------- MODULE MCDistributedTx ---------------------------
(* Instances of DistributedTx for TLC.                                     *)
EXTENDS DistributedTx, TLC
=============================================================================
