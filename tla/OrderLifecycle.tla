--------------------------- MODULE OrderLifecycle ---------------------------
(***************************************************************************)
(* What the order service promises about the status column however its     *)
(* handlers, cascade goroutines and ETA loop interleave, fail or crash:    *)
(* every status ever stored is a legal successor of a status the order     *)
(* really had at some time, which need not be the one it has now.          *)
(* OrderService implements this specification.                             *)
(***************************************************************************)
EXTENDS OrderStatus

CONSTANT Orders

VARIABLES
    status,     \* the status column of each order, "absent" before creation
    past        \* every status the column has held

lvars == <<status, past>>

Become(o, s) ==
    /\ status' = [status EXCEPT ![o] = s]
    /\ past' = [past EXCEPT ![o] = @ \cup {s}]

LifecycleInit ==
    /\ status = [o \in Orders |-> "absent"]
    /\ past = [o \in Orders |-> {}]

Place(o) == status[o] = "absent" /\ Become(o, "placed")

\* An update or cancellation is legal from some status the order has had.
Advance(o) ==
    \E s \in past[o], t \in Statuses : isValidStatusTransition(s, t) /\ Become(o, t)

\* Nothing but existence is asked of an order that gets a rider.
Assign(o) == status[o] # "absent" /\ Become(o, "rider_assigned")

\* Only an order that had a rider goes back to the matching pool.
Unassign(o) == "rider_assigned" \in past[o] /\ Become(o, "placed")

\* A stale Save may bring an active status back, never a terminal one.
Restore(o) == \E s \in past[o] \ Terminal : Become(o, s)

LifecycleNext ==
    \E o \in Orders :
        Place(o) \/ Advance(o) \/ Assign(o) \/ Unassign(o) \/ Restore(o)

LifecycleSpec == LifecycleInit /\ [][LifecycleNext]_lvars
=============================================================================
