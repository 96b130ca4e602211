------------------------------ MODULE MCIdentity ------------------------------
(* One address, three overlapping requests, two fields, two tokens.          *)
EXTENDS Identity, TLC
CONSTANTS e1, r1, r2, r3, company, taxid
Symmetry == Permutations(Reqs) \cup Permutations(Fields)
=============================================================================
