------------------------------ MODULE MCPayments ------------------------------
(* Payments on small instances: two overlapping requests, or one at a time. *)
EXTENDS Payments, TLC
CONSTANTS s1, s2, e1, e2
Symmetry == Permutations(Sessions)
=============================================================================
