------------------------------ MODULE MCDispatch ------------------------------
(* Dispatch on small instances: one order, two workers, one or two requests. *)
EXTENDS Dispatch
CONSTANTS o1, w1, w2, s1, s2
=============================================================================
