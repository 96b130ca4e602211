----------------------------- MODULE OrderStatus -----------------------------
(***************************************************************************)
(* The order status machine of backend/app/common/status_machine.py: the   *)
(* table of allowed transitions that every service consults, and that the  *)
(* services consult against whatever copy of the order they hold.          *)
(***************************************************************************)

\* The table ALLOWED_ORDER_TRANSITIONS, one entry per source status.
AllowedTransitions ==
  [ draft                     |-> {"shipment_details_completed", "cancelled"},
    shipment_details_completed |-> {"ready_for_checkout", "cancelled"},
    ready_for_checkout        |-> {"awaiting_payment", "cancelled"},
    awaiting_payment          |-> {"payment_under_review", "cancelled"},
    payment_under_review      |-> {"paid", "payment_rejected", "cancelled"},
    paid                      |-> {"dispatch_queued", "cancelled"},
    dispatch_queued           |-> {"sent_to_carrier", "dispatch_failed", "cancelled"},
    sent_to_carrier           |-> {"picked_up", "out_for_delivery", "in_transit",
                                   "arrived", "delivered", "return_requested",
                                   "delivery_failed", "customs_hold", "cancelled",
                                   "dispatch_queued"},
    picked_up                 |-> {"out_for_delivery", "in_transit", "delivered",
                                   "return_requested", "delivery_failed", "customs_hold"},
    in_transit                |-> {"arrived", "out_for_delivery", "delivered",
                                   "return_requested", "delivery_failed", "customs_hold"},
    out_for_delivery          |-> {"delivered", "return_requested", "delivery_failed"},
    delivery_failed           |-> {"out_for_delivery", "in_transit", "return_requested",
                                   "delivered"},
    customs_hold              |-> {"in_transit", "delivered", "return_requested"},
    arrived                   |-> {"out_for_delivery", "delivered", "return_requested"},
    delivered                 |-> {"return_requested"},
    return_requested          |-> {"return_in_progress", "cancelled"},
    return_in_progress        |-> {"returned"},
    returned                  |-> {},
    cancelled                 |-> {},
    payment_rejected          |-> {"awaiting_payment", "payment_under_review", "cancelled"},
    dispatch_failed           |-> {"dispatch_queued", "cancelled"},
    pending_manual_dispatch   |-> {"dispatch_queued", "dispatch_failed", "cancelled"},
    pending_manual            |-> {"dispatch_queued", "dispatch_failed", "cancelled"} ]

Statuses == DOMAIN AllowedTransitions

\* can_transition; transition_order is the same test, raising when it is false.
CanTransition(current, new) ==
  current \in Statuses /\ new \in AllowedTransitions[current]

=============================================================================
