------------------------------ MODULE MCOutbox ------------------------------
(* Instances of Outbox for TLC.                                            *)
EXTENDS LettersProperties, TLC

CONSTANTS m1, m2, h1, h2, q1, q2

Symmetry == Permutations(Relays) \cup Permutations(Messages)
=============================================================================
