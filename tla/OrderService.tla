---------------------------- MODULE OrderService ----------------------------
(***************************************************************************)
(* The order service of the backend (backend/cmd/order-service): request   *)
(* handlers that talk to Postgres one autocommit statement at a time, the  *)
(* goroutine AssignRider starts to take an order back from a silent rider, *)
(* and the background loop that rewrites delivery estimates.               *)
(*                                                                         *)
(* Every database or Kafka call is one action, so that any two handlers,   *)
(* cascade goroutines and the recalculator interleave between their calls. *)
(*                                                                         *)
(* Abstractions: an order row keeps the two columns that decide what may   *)
(* happen next, status and rider.  A history row or event with a generated *)
(* uuid is identified by the kind of step that made it, so two assignments *)
(* of one order share a row; rows of client events keep their event_id.    *)
(* Prices are in no action.                                                *)
(***************************************************************************)
EXTENDS Naturals, OrderStatus

CONSTANTS
    Orders,     \* order ids
    Riders,     \* rider ids
    NoRider,    \* a NULL rider_id
    EventIds,   \* the event_id values clients send
    Updates,    \* the status updates clients ask for: <<status, event_id>>
    Procs,      \* request goroutines: how many handlers may run at once
    Timers,     \* cascade goroutines: how many may be alive at once (a bound)
    MaxItems    \* items of every order (a bound)

VARIABLES
    order,      \* table orders: the row of each order id
    items,      \* table order_items: rows stored for each order id
    history,    \* table order_status_histories
    topic,      \* the messages on Kafka topic order-events
    call,       \* the handler each request goroutine is running
    timer,      \* the cascade goroutines
    eta,        \* rows the ETA recalculator read and has not handled yet
    past        \* history variable: the statuses each row has held

vars == <<order, items, history, topic, call, timer, eta, past>>

-----------------------------------------------------------------------------

ASSUME OrderServiceAssumption ==
    /\ NoRider \notin Riders
    /\ MaxItems \in Nat \ {0}
    /\ Updates \subseteq Statuses \X EventIds
    /\ EventIds \cap {"init", "cancel", "assign", "cascade", "eta-shift"} = {}

StoredRow == [status : Statuses, rider : Riders \cup {NoRider}]

\* A row that was never inserted.
Absent == [status |-> "absent", rider |-> NoRider]

Row == StoredRow \cup {Absent}

Placed == [status |-> "placed", rider |-> NoRider]

Event == EventIds \cup {"init", "cancel", "assign", "cascade"}

HistoryRow == [order : Orders, event : Event, status : Statuses]

EtaMessage(o) == [order |-> o, event |-> "eta-shift", status |-> "none"]

Exists(o) == order[o].status # "absent"

\* event_id has a unique index over the whole table, whatever the order.
Taken(e) == e \in EventIds /\ \E h \in history : h.event = e

-----------------------------------------------------------------------------
\* What a handler holds between two calls: where it is, and its locals.
Call == [pc     : {"items", "load", "column", "save", "history", "publish", "spawn"},
         order  : Orders,
         status : Statuses,
         event  : Event,
         row    : Row]

Idle == [pc |-> "idle"]

Return(p) == call' = [call EXCEPT ![p] = Idle]
Goto(p, pc) == call' = [call EXCEPT ![p].pc = pc]

\* The row of o becomes r: a full-row Save, or an insert.
Store(o, r) ==
    /\ order' = [order EXCEPT ![o] = r]
    /\ past' = [past EXCEPT ![o] = @ \cup {r.status}]

Goroutine == [pc    : {"sleeping", "save", "history"},
              order : Orders,
              rider : Riders]

Init ==
    /\ order = [o \in Orders |-> Absent]
    /\ items = [o \in Orders |-> 0]
    /\ history = {}
    /\ topic = {}
    /\ call = [p \in Procs |-> Idle]
    /\ timer = [t \in Timers |-> Idle]
    /\ eta = {}
    /\ past = [o \in Orders |-> {}]

-----------------------------------------------------------------------------
(* CreateOrder: insert the order, then each item, then history and event.  *)

CreateOrder(p, o) ==
    /\ call[p] = Idle
    /\ ~Exists(o)
    /\ Store(o, Placed)
    /\ call' = [call EXCEPT ![p] = [pc |-> "items", order |-> o, status |-> "placed",
                                    event |-> "init", row |-> Placed]]
    /\ UNCHANGED <<items, history, topic, timer, eta>>

CreateItem(p) ==
    LET o == call[p].order IN
    /\ call[p].pc = "items"
    /\ items' = [items EXCEPT ![o] = @ + 1]
    /\ IF items[o] + 1 = MaxItems THEN Goto(p, "history") ELSE UNCHANGED call
    /\ UNCHANGED <<order, history, topic, timer, eta, past>>

-----------------------------------------------------------------------------
(* UpdateOrderStatus: look the event up, load and validate, write the      *)
(* status column.  A known event ends the call with no effect.             *)

StartUpdate(p, o, s, e) ==
    /\ call[p] = Idle
    /\ call' = [call EXCEPT ![p] = [pc |-> "load", order |-> o, status |-> s,
                                    event |-> e, row |-> Absent]]
    /\ UNCHANGED <<order, items, history, topic, timer, eta, past>>

UpdateOrderStatus(p, o, s, e) == ~Taken(e) /\ StartUpdate(p, o, s, e)

\* Faulty: any order that is not over takes any status.
UpdateLoadLenient(p) ==
    /\ call[p].pc = "load"
    /\ IF order[call[p].order].status \notin Terminal \cup {"absent"}
       THEN Goto(p, "column")
       ELSE Return(p)
    /\ UNCHANGED <<order, items, history, topic, timer, eta, past>>

UpdateLoad(p) ==
    LET row == order[call[p].order] IN
    /\ call[p].pc = "load"
    /\ IF isValidStatusTransition(row.status, call[p].status)
       THEN call' = [call EXCEPT ![p].pc = "column", ![p].row = row]
       ELSE Return(p)
    /\ UNCHANGED <<order, items, history, topic, timer, eta, past>>

UpdateStatusColumn(p) ==
    LET o == call[p].order IN
    /\ call[p].pc = "column"
    /\ Store(o, [order[o] EXCEPT !.status = call[p].status])
    /\ Goto(p, "history")
    /\ UNCHANGED <<items, history, topic, timer, eta>>

-----------------------------------------------------------------------------
(* CancelOrder and AssignRider: load the row, change the copy, Save all of *)
(* it.  AssignRider looks at no status.                                    *)

CancelOrder(p, o) ==
    /\ call[p] = Idle
    /\ canCancelOrder(order[o].status)
    /\ call' = [call EXCEPT ![p] = [pc |-> "save", order |-> o, status |-> "cancelled",
                                    event |-> "cancel",
                                    row |-> [order[o] EXCEPT !.status = "cancelled"]]]
    /\ UNCHANGED <<order, items, history, topic, timer, eta, past>>

\* Faulty: the error of the load is dropped, and Save inserts the row.
AssignRiderUpserts(p, o, r) ==
    /\ call[p] = Idle
    /\ call' = [call EXCEPT ![p] = [pc |-> "save", order |-> o,
                                    status |-> "rider_assigned", event |-> "assign",
                                    row |-> [status |-> "rider_assigned", rider |-> r]]]
    /\ UNCHANGED <<order, items, history, topic, timer, eta, past>>

AssignRider(p, o, r) ==
    /\ call[p] = Idle
    /\ Exists(o)
    /\ call' = [call EXCEPT ![p] = [pc |-> "save", order |-> o,
                                    status |-> "rider_assigned", event |-> "assign",
                                    row |-> [status |-> "rider_assigned", rider |-> r]]]
    /\ UNCHANGED <<order, items, history, topic, timer, eta, past>>

SaveRow(p) ==
    /\ call[p].pc = "save"
    /\ Store(call[p].order, call[p].row)
    /\ Goto(p, "history")
    /\ UNCHANGED <<items, history, topic, timer, eta>>

-----------------------------------------------------------------------------
(* The tail every handler shares: history row, then Kafka message.         *)

Message(p) == [order |-> call[p].order, event |-> call[p].event, status |-> call[p].status]

AfterPublish(p) == IF call[p].event = "assign" THEN Goto(p, "spawn") ELSE Return(p)

\* A second row with the same event_id is refused and the handler returns
\* the error, after the status was written.
CreateHistory(p) ==
    /\ call[p].pc = "history"
    /\ IF Taken(call[p].event)
       THEN Return(p) /\ UNCHANGED history
       ELSE Goto(p, "publish") /\ history' = history \cup {Message(p)}
    /\ UNCHANGED <<order, items, topic, timer, eta, past>>

PublishMessage(p) ==
    /\ call[p].pc = "publish"
    /\ topic' = topic \cup {Message(p)}
    /\ AfterPublish(p)
    /\ UNCHANGED <<order, items, history, timer, eta, past>>

SpawnCascade(p, t) ==
    /\ call[p].pc = "spawn"
    /\ timer[t] = Idle
    /\ timer' = [timer EXCEPT ![t] = [pc |-> "sleeping", order |-> call[p].order,
                                      rider |-> call[p].row.rider]]
    /\ Return(p)
    /\ UNCHANGED <<order, items, history, topic, eta, past>>

-----------------------------------------------------------------------------
(* The 15s cascade goroutine: sleep, read, revert, log.  It publishes      *)
(* nothing.  How long a handler takes against the 15s is left open.        *)

TimerGoto(t, pc) == timer' = [timer EXCEPT ![t].pc = pc]
TimerExit(t) == timer' = [timer EXCEPT ![t] = Idle]

\* The row still shows the rider the goroutine was started for.
Unaccepted(t) == order[timer[t].order] = [status |-> "rider_assigned",
                                          rider |-> timer[t].rider]

\* Faulty: looks for an order without a rider.
CascadeWakeMisses(t) ==
    /\ timer[t].pc = "sleeping"
    /\ IF order[timer[t].order] = [status |-> "rider_assigned", rider |-> NoRider]
       THEN TimerGoto(t, "save")
       ELSE TimerExit(t)
    /\ UNCHANGED <<order, items, history, topic, call, eta, past>>

CascadeWake(t) ==
    /\ timer[t].pc = "sleeping"
    /\ IF Unaccepted(t) THEN TimerGoto(t, "save") ELSE TimerExit(t)
    /\ UNCHANGED <<order, items, history, topic, call, eta, past>>

\* Faulty: the reverted row keeps its rider.
CascadeSaveKeepsRider(t) ==
    /\ timer[t].pc = "save"
    /\ Store(timer[t].order, [status |-> "placed", rider |-> timer[t].rider])
    /\ TimerGoto(t, "history")
    /\ UNCHANGED <<items, history, topic, call, eta>>

CascadeSave(t) ==
    /\ timer[t].pc = "save"
    /\ Store(timer[t].order, Placed)
    /\ TimerGoto(t, "history")
    /\ UNCHANGED <<items, history, topic, call, eta>>

CascadeHistory(t) ==
    /\ timer[t].pc = "history"
    /\ history' = history \cup {[order |-> timer[t].order, event |-> "cascade",
                                 status |-> "placed"]}
    /\ TimerExit(t)
    /\ UNCHANGED <<order, items, topic, call, eta, past>>

-----------------------------------------------------------------------------
(* The ETA recalculator: read every active order, then for each either     *)
(* leave it or Save the row as it was read.                                *)

EtaTick ==
    /\ eta = {}
    /\ eta' = {[order |-> o, row |-> order[o]] :
                 o \in {x \in Orders : Exists(x) /\ order[x].status \notin Terminal}}
    /\ UNCHANGED <<order, items, history, topic, call, timer, past>>

EtaUpdate(s) ==
    /\ Store(s.order, s.row)
    /\ topic' = topic \cup {EtaMessage(s.order)}
    /\ eta' = eta \ {s}
    /\ UNCHANGED <<items, history, call, timer>>

EtaSkip(s) ==
    /\ eta' = eta \ {s}
    /\ UNCHANGED <<order, items, history, topic, call, timer, past>>

-----------------------------------------------------------------------------
(* Failures of the environment.                                            *)

\* The recalculator ignores the error of its Save, and of its publish.
EtaError(s) ==
    /\ eta' = eta \ {s}
    /\ \/ topic' = topic \cup {EtaMessage(s.order)} /\ UNCHANGED <<order, past>>
       \/ Store(s.order, s.row) /\ UNCHANGED topic
    /\ UNCHANGED <<items, history, call, timer>>

\* Faulty: an item that cannot be stored ends the loop, not the request.
RequestErrorSkipsItems(p) ==
    /\ call[p].pc \in {"items", "load", "column", "save", "history"}
    /\ IF call[p].pc = "items" THEN Goto(p, "history") ELSE Return(p)
    /\ UNCHANGED <<order, items, history, topic, timer, eta, past>>

\* A statement fails with no effect and the handler returns its error.
RequestError(p) ==
    /\ call[p].pc \in {"items", "load", "column", "save", "history"}
    /\ Return(p)
    /\ UNCHANGED <<order, items, history, topic, timer, eta, past>>

\* The error of the event_id lookup is dropped: the event counts as new.
LookupError(p, o, s, e) == Taken(e) /\ StartUpdate(p, o, s, e)

\* Faulty: so does every other handler.
HistoryErrorIgnoredByAll(p) ==
    /\ call[p].pc = "history"
    /\ Goto(p, "publish")
    /\ UNCHANGED <<order, items, history, topic, timer, eta, past>>

\* AssignRider ignores a history error and goes on to publish.
HistoryErrorIgnored(p) ==
    /\ call[p].pc = "history"
    /\ call[p].event = "assign"
    /\ Goto(p, "publish")
    /\ UNCHANGED <<order, items, history, topic, timer, eta, past>>

\* No producer, or a send that failed: the error is dropped.
PublishLost(p) ==
    /\ call[p].pc = "publish"
    /\ AfterPublish(p)
    /\ UNCHANGED <<order, items, history, topic, timer, eta, past>>

\* The goroutine gives up when its read fails, but ignores the error of its
\* Save and still logs the revert; the error of that insert is ignored too.
CascadeError(t) ==
    /\ \/ timer[t].pc \in {"sleeping", "history"} /\ TimerExit(t)
       \/ timer[t].pc = "save" /\ TimerGoto(t, "history")
    /\ UNCHANGED <<order, items, history, topic, call, eta, past>>

\* The process stops; it comes back with the tables and the topic only.
Crash ==
    /\ call' = [p \in Procs |-> Idle]
    /\ timer' = [t \in Timers |-> Idle]
    /\ eta' = {}
    /\ UNCHANGED <<order, items, history, topic, past>>

-----------------------------------------------------------------------------

Request(p) ==
    \E o \in Orders :
        \/ CreateOrder(p, o)
        \/ CancelOrder(p, o)
        \/ \E r \in Riders : AssignRider(p, o, r)
        \/ \E u \in Updates : UpdateOrderStatus(p, o, u[1], u[2])

Continue(p) ==
    \/ CreateItem(p)
    \/ UpdateLoad(p)
    \/ UpdateStatusColumn(p)
    \/ SaveRow(p)
    \/ CreateHistory(p)
    \/ PublishMessage(p)
    \/ \E t \in Timers : SpawnCascade(p, t)

Cascade(t) == CascadeWake(t) \/ CascadeSave(t) \/ CascadeHistory(t)

Eta == EtaTick \/ \E s \in eta : EtaUpdate(s) \/ EtaSkip(s)

Fault ==
    \/ \E p \in Procs : RequestError(p) \/ HistoryErrorIgnored(p) \/ PublishLost(p)
    \/ \E p \in Procs, o \in Orders, u \in Updates : LookupError(p, o, u[1], u[2])
    \/ \E t \in Timers : CascadeError(t)
    \/ \E s \in eta : EtaError(s)
    \/ Crash

CalmNext ==
    \/ \E p \in Procs : Request(p) \/ Continue(p)
    \/ \E t \in Timers : Cascade(t)

Next == CalmNext \/ Eta \/ Fault

Spec == Init /\ [][Next]_vars

\* Goroutines that were started go on running; nobody has to send requests.
Fairness ==
    /\ \A p \in Procs : WF_vars(Continue(p))
    /\ \A t \in Timers : WF_vars(Cascade(t))

-----------------------------------------------------------------------------
(* Properties.                                                             *)

TypeOK ==
    /\ order \in [Orders -> Row]
    /\ items \in [Orders -> Nat]
    /\ history \subseteq HistoryRow
    /\ topic \subseteq HistoryRow \cup {EtaMessage(o) : o \in Orders}
    /\ call \in [Procs -> {Idle} \cup Call]
    /\ timer \in [Timers -> {Idle} \cup Goroutine]
    /\ eta \subseteq [order : Orders, row : StoredRow]
    /\ past \in [Orders -> SUBSET Statuses]

\* Consumers of order-events never learn of a step the audit trail does not
\* have: whatever interleaves, fails or crashes, a published status message
\* has its row in the history with the same order, event and status.  (An
\* assignment is exempt: AssignRider ignores the error of its insert.)
PublishedIsRecorded ==
    \A m \in topic : m.event \notin {"assign", "eta-shift"} => m \in history

\* Chain of custody: a status update is validated against a copy of the row
\* that may be stale when it is written, and full-row Saves bring old
\* statuses back; still no interleaving delivers an order that was never
\* assigned, collected and brought to the customer.
CustodyChain ==
    \A o \in Orders :
        /\ "delivered" \in past[o] => "rider_arrived_customer" \in past[o]
        /\ "rider_arrived_customer" \in past[o] => "picked_up" \in past[o]
        /\ "picked_up" \in past[o] => "rider_arrived_restaurant" \in past[o]
        /\ "rider_arrived_restaurant" \in past[o] => "rider_assigned" \in past[o]
        /\ "ready_for_pickup" \in past[o] => "preparing" \in past[o]
        /\ "preparing" \in past[o] => "restaurant_accepted" \in past[o]

\* An order back in the matching pool shows no rider: the cascade clears
\* status and rider in one Save, and no other writer, however stale its
\* copy, separates the two again.
PlacedHasNoRider ==
    \A o \in Orders : order[o].status = "placed" => order[o].rider = NoRider

\* The creation record and event exist only for complete orders: CreateOrder
\* may stop between two inserts and leave a visible order without its items,
\* but then it has neither logged nor announced it.
CreationLoggedWhole ==
    \A o \in Orders :
        [order |-> o, event |-> "init", status |-> "placed"] \in history
            => items[o] = MaxItems

\* OrderService implements OrderLifecycle: see there.
Lifecycle == INSTANCE OrderLifecycle WITH status <- [o \in Orders |-> order[o].status]

ImplementsLifecycle == Lifecycle!LifecycleSpec

\* "protect status endpoints against duplicate execution" (README.md:54): no
\* status is written for an event the history already has.
EventWrittenOnce ==
    [][\A p \in Procs :
         UpdateStatusColumn(p) => ~Taken(call[p].event)]_vars

\* "Reverts orders to matching pools to trigger re-assignments if the
\* assigned rider fails to accept within 15 seconds" (README.md:66): no
\* order waits for the same rider for ever.
AssignmentResolves ==
    \A o \in Orders, r \in Riders :
        order[o] = [status |-> "rider_assigned", rider |-> r]
            ~> order[o] # [status |-> "rider_assigned", rider |-> r]

\* "If rider still hasn't moved the order status forward, revert and trigger
\* cascade" (order_service.go:326): a revert hits only an order that still
\* waits for that rider.
CascadeSparesAccepted ==
    [][\A t \in Timers : CascadeSave(t) => Unaccepted(t)]_vars
=============================================================================
