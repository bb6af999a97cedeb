--------------------------- MODULE MCManagedBeans ---------------------------
(* Instances of ManagedBeans for TLC.                                      *)
EXTENDS ManagedBeans, TLC
=============================================================================
