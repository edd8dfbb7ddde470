---------------------------- MODULE OrderStatus ----------------------------
(***************************************************************************)
(* The statuses of an order in backend/cmd/order-service and the moves the *)
(* service's two tables allow between them.                                *)
(***************************************************************************)

Terminal == {"delivered", "cancelled"}

Statuses == {"placed", "restaurant_accepted", "preparing", "ready_for_pickup",
             "rider_assigned", "rider_arrived_restaurant", "picked_up",
             "rider_arrived_customer"} \cup Terminal

\* The forward edge out of each status, cancellation aside.
Forward == {<<"placed", "restaurant_accepted">>,
            <<"restaurant_accepted", "preparing">>,
            <<"preparing", "ready_for_pickup">>,
            <<"ready_for_pickup", "rider_assigned">>,
            <<"rider_assigned", "rider_arrived_restaurant">>,
            <<"rider_arrived_restaurant", "picked_up">>,
            <<"picked_up", "rider_arrived_customer">>,
            <<"rider_arrived_customer", "delivered">>}

isValidStatusTransition(current, new) ==
    \/ <<current, new>> \in Forward
    \/ current \in Statuses \ Terminal /\ new = "cancelled"

canCancelOrder(status) ==
    status \in {"placed", "restaurant_accepted", "preparing",
                "ready_for_pickup", "rider_assigned", "rider_arrived_restaurant"}
=============================================================================
