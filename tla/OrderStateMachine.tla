-------------------------- MODULE OrderStateMachine --------------------------
(***************************************************************************)
(* backend/pkg/order/order_state_machine.go: the state of an order is the  *)
(* last event of its log.  A transition reads the log, checks the event id *)
(* and the table, and appends; then it tells the web sockets.              *)
(*                                                                         *)
(* Event store and notifier are interfaces: the store appends and returns  *)
(* the log in order.  Someone else puts the first event there.  Push and   *)
(* audit calls are left out: their errors are ignored, and they change     *)
(* nothing here.                                                           *)
(***************************************************************************)
EXTENDS Integers, Sequences

CONSTANTS
    Orders,    \* order ids
    EventIds,  \* event ids a client may send again
    Generated, \* stands for an event id made for one call
    Procs      \* goroutines

VARIABLES
    log,   \* events of each order
    call,  \* the transition each goroutine is making
    shown  \* the state each order's sockets were told last

vars == <<log, call, shown>>

ValidTransitions ==
    [placed                   |-> {"restaurant_accepted", "restaurant_rejected", "customer_cancelled"},
     restaurant_accepted      |-> {"preparing", "customer_cancelled", "rider_reassignment"},
     restaurant_rejected      |-> {"refund_initiated"},
     preparing                |-> {"ready_for_pickup", "customer_cancelled"},
     ready_for_pickup         |-> {"rider_assigned", "customer_cancelled"},
     rider_assigned           |-> {"rider_arrived_restaurant", "rider_reassignment",
                                   "customer_cancelled"},
     rider_reassignment       |-> {"rider_assigned"},
     rider_arrived_restaurant |-> {"picked_up", "customer_cancelled"},
     picked_up                |-> {"rider_arrived_customer", "delivery_failed"},
     rider_arrived_customer   |-> {"delivered", "delivery_failed"},
     delivered                |-> {},
     customer_cancelled       |-> {"refund_initiated"},
     refund_initiated         |-> {"refunded"},
     refunded                 |-> {},
     delivery_failed          |-> {"delivered", "refund_initiated"}]

States == DOMAIN ValidTransitions

Event == [from : States, to : States, id : EventIds \cup {Generated}]

Placed == [from |-> "placed", to |-> "placed", id |-> Generated]

Idle == [pc |-> "idle"]

Call == [pc : {"transition", "save", "emit"}, order : Orders, event : Event]

Current(o) == log[o][Len(log[o])].to

Init ==
    /\ log \in [Orders -> {<<>>, <<Placed>>}]
    /\ call = [p \in Procs |-> Idle]
    /\ shown = [o \in Orders |-> "placed"]

Hold(p, pc, o, e) == call' = [call EXCEPT ![p] = [pc |-> pc, order |-> o, event |-> e]]

Return(p) == call' = [call EXCEPT ![p] = Idle]

-----------------------------------------------------------------------------

Seen(o, id) == \E i \in 1 .. Len(log[o]) : log[o][i].id = id /\ id # Generated

\* Faulty: every state the table knows will do.
isKnownState(from, to) == to \in States

isValidTransition(from, to) == to \in ValidTransitions[from]

\* Faulty: the event id is not looked for.
ValidateUnseen(p, o, to, id) ==
    /\ log[o] # <<>>
    /\ isValidTransition(Current(o), to)
    /\ Hold(p, "save", o, [from |-> Current(o), to |-> to, id |-> id])

\* An event seen before is answered like a good one, and the rest is refused:
\* either way nothing more happens.
Validate(p, o, to, id) ==
    /\ log[o] # <<>>
    /\ ~Seen(o, id)
    /\ isValidTransition(Current(o), to)
    /\ Hold(p, "save", o, [from |-> Current(o), to |-> to, id |-> id])

TransitionState(p, o, to, id) ==
    /\ call[p] = Idle
    /\ Validate(p, o, to, id)
    /\ UNCHANGED <<log, shown>>

HandleDeliveryFailure(p, o) ==
    /\ call[p] = Idle
    /\ Validate(p, o, "delivery_failed", Generated)
    /\ UNCHANGED <<log, shown>>

\* An edge-case handler that reads the state, and then calls TransitionState,
\* which reads it again.
Intend(p, o, states, to) ==
    /\ call[p] = Idle
    /\ log[o] # <<>>
    /\ Current(o) \in states
    /\ Hold(p, "transition", o, [from |-> Current(o), to |-> to, id |-> Generated])
    /\ UNCHANGED <<log, shown>>

HandleRestaurantOffline(p, o) ==
    Intend(p, o, {"restaurant_accepted", "preparing"}, "customer_cancelled")

HandleRiderCancellation(p, o) == Intend(p, o, {"rider_assigned"}, "rider_reassignment")

TransitionIntended(p) ==
    /\ call[p].pc = "transition"
    /\ LET e == call[p].event
       IN  \/ Validate(p, call[p].order, e.to, e.id)
           \/ ~isValidTransition(Current(call[p].order), e.to) /\ Return(p)
    /\ UNCHANGED <<log, shown>>

SaveEvent(p) ==
    /\ call[p].pc = "save"
    /\ log' = [log EXCEPT ![call[p].order] = Append(@, call[p].event)]
    /\ Hold(p, "emit", call[p].order, call[p].event)
    /\ UNCHANGED shown

\* Faulty: sockets are told where the order came from.
EmitFrom(p) ==
    /\ call[p].pc = "emit"
    /\ shown' = [shown EXCEPT ![call[p].order] = call[p].event.from]
    /\ Return(p)
    /\ UNCHANGED log

EmitWebSocketEvent(p) ==
    /\ call[p].pc = "emit"
    /\ shown' = [shown EXCEPT ![call[p].order] = call[p].event.to]
    /\ Return(p)
    /\ UNCHANGED log

-----------------------------------------------------------------------------
(* Failures.                                                               *)

\* A read or the append fails, or the notifier does, which is only printed.
Error(p) ==
    /\ call[p] # Idle
    /\ Return(p)
    /\ UNCHANGED <<log, shown>>

Crash ==
    /\ call' = [p \in Procs |-> Idle]
    /\ UNCHANGED <<log, shown>>

-----------------------------------------------------------------------------

Request(p, o) ==
    \/ \E to \in States, id \in EventIds \cup {Generated} : TransitionState(p, o, to, id)
    \/ HandleRestaurantOffline(p, o)
    \/ HandleRiderCancellation(p, o)
    \/ HandleDeliveryFailure(p, o)

Continue(p) == TransitionIntended(p) \/ SaveEvent(p) \/ EmitWebSocketEvent(p)

Fault == Crash \/ \E p \in Procs : Error(p)

Next == (\E p \in Procs : Continue(p) \/ \E o \in Orders : Request(p, o)) \/ Fault

Spec == Init /\ [][Next]_vars

-----------------------------------------------------------------------------
(* Properties.                                                             *)

TypeOK ==
    /\ log \in [Orders -> Seq(Event)]
    /\ call \in [Procs -> {Idle} \cup Call]
    /\ shown \in [Orders -> States]

\* Somewhere before position i the order was in one of the states.
Before(o, i, states) == \E j \in 1 .. i - 1 : log[o][j].to \in states

\* No money goes back and no food is handed over without cause, though
\* transitions are validated against logs that others have appended to since.
EveryStepHasItsCause ==
    \A o \in Orders : \A i \in 1 .. Len(log[o]) :
        LET to == log[o][i].to
        IN  /\ to = "refund_initiated" =>
                 Before(o, i, {"restaurant_rejected", "customer_cancelled", "delivery_failed"})
            /\ to = "refunded" => Before(o, i, {"refund_initiated"})
            /\ to \in {"delivered", "delivery_failed"} => Before(o, i, {"picked_up"})
            /\ to = "picked_up" => Before(o, i, {"rider_arrived_restaurant"})
            /\ to = "rider_arrived_restaurant" => Before(o, i, {"rider_assigned"})

\* "performs a state transition with idempotency check"
\* (order_state_machine.go:137): the log is one legal path, each event takes
\* over where the last one ended, and no event id is applied twice.
LogIsPath ==
    \A o \in Orders : \A i \in 2 .. Len(log[o]) :
        /\ log[o][i].from = log[o][i - 1].to
        /\ isValidTransition(log[o][i].from, log[o][i].to)
        /\ log[o][i].id # Generated => \A j \in 1 .. i - 1 : log[o][j].id # log[o][i].id

\* When no transition is under way, the sockets show the order's state.
ShownIsCurrent ==
    (\A p \in Procs : call[p] = Idle) =>
        \A o \in Orders : log[o] # <<>> => shown[o] = Current(o)
=============================================================================
