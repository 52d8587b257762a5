----------------------------- MODULE MCIdentity -----------------------------
(* Instances of Identity for TLC.                                          *)
EXTENDS IdentityProperties, TLC

CONSTANTS s1, s2, s3, t1, t2, t3, t4, l1, l2, l3, q1, q2

RequestSymmetry == Permutations(Requests)
=============================================================================
