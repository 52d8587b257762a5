----------------------------- MODULE MCCommerce -----------------------------
(* Instances of Commerce for TLC.                                          *)
EXTENDS CommerceProperties, TLC

CONSTANTS o1, o2, o3, r1, r2, h1, h2

\* Ids, and processes of one kind, are interchangeable in the safety runs.
OrderSymmetry == Permutations(OrderIds \ Foreign)
HookSymmetry == Permutations(Hooks)
RequestSymmetry == Permutations(Requests)
Symmetry == OrderSymmetry \cup HookSymmetry \cup RequestSymmetry
=============================================================================
