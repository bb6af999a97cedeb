---------------------------- MODULE MCEnlistment ----------------------------
(* Instances of Enlistment for TLC.                                        *)
EXTENDS Enlistment, TLC

Symmetry == Permutations(Requests)
AllMethods == Methods
=============================================================================
