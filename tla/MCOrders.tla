------------------------------- MODULE MCOrders -------------------------------
(* One quote of a CSE tariff and two of another carrier, two requests.       *)
EXTENDS Orders, TLC
CONSTANTS cse, std, exp, r1, r2
MCOffers == {{}, Rates}
NotLate == "late" \notin marks
Symmetry == Permutations(Reqs) \cup Permutations(Rates \ CseRates)
=============================================================================
