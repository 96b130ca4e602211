------------------------------ MODULE MCTracking ------------------------------
(* Tracking on small instances: two pollers, two handlers, and parcels whose  *)
(* carrier reports a delivery, an arrival or what nobody understands.         *)
EXTENDS Tracking
CONSTANTS w1, w2, h1, h2
MCPaths == {<<"in_transit", "delivered">>, <<"cancelled", "delivered">>,
            <<"arrived">>, <<"carrier_unknown">>}
=============================================================================
