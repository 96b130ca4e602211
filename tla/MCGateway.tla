------------------------------- MODULE MCGateway ------------------------------
(* A gateway with all three carriers, two staff requests and two faults.      *)
EXTENDS Gateway, TLC

StaffSymmetry == Permutations(Staff)
=============================================================================
