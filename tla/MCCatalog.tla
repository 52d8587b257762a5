------------------------------- MODULE MCCatalog -------------------------------
(* Instances of Catalog for TLC.                                           *)
EXTENDS CatalogProperties, TLC

CONSTANTS s1, s2, s3, l1, l2, l3, q1, q2
Symmetry == Permutations(Requests)
=============================================================================
