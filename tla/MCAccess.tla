------------------------------- MODULE MCAccess -------------------------------
(* Instances of Access for TLC.                                            *)
EXTENDS AccessProperties, TLC

CONSTANTS o1, o2, p1, p2
Symmetry == Permutations(Orders) \cup Permutations(Readers)
=============================================================================
