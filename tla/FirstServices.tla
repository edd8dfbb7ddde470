--------------------------- MODULE FirstServices ----------------------------
(* The first services, backend/*-service: the limit on one-time            *)
(* passwords, and tables of rows. Each is specified by itself; no state    *)
(* is shared but the goroutines.                                           *)
EXTENDS Goroutines, Integers, Sequences

-----------------------------------------------------------------------------
(* backend/auth-service/handlers.go: how otpHandler limits the requests of *)
(* one phone number.  It holds a lock from first to last, so that a request*)
(* is one action.  The clock counts in units of a cooldown.                *)

CONSTANTS
    MaxCount, Hour,  \* requests an hour, 3 in the code; the hour
    Cooldowns,       \* after the first request, the second, ...
    TrackerMaxTime   \* bound of the clock

VARIABLES
    trackerNow,
    tracker,  \* Count and LastRequest; the count is 0 if there is no tracker
    granted   \* history variable: times of the requests that were let through

trackerVars == <<trackerNow, tracker, granted>>

TrackerInit ==
    /\ trackerNow = 0
    /\ tracker = [count |-> 0, last |-> 0]
    /\ granted = <<>>

\* Faulty: the hour is that of the first request.
GrantWithinHour(count) ==
    /\ tracker' = [count |-> count, last |-> IF count = 1 THEN trackerNow ELSE tracker.last]
    /\ granted' = Append(granted, trackerNow)

Grant(count) ==
    /\ tracker' = [count |-> count, last |-> trackerNow]
    /\ granted' = Append(granted, trackerNow)

\* The first request, or the first after an hour without any.
FirstRequest ==
    /\ tracker.count = 0 \/ trackerNow - tracker.last > Hour
    /\ Grant(1)
    /\ UNCHANGED trackerNow

NextRequest ==
    /\ tracker.count \in 1..(MaxCount - 1)
    /\ trackerNow - tracker.last \in Cooldowns[tracker.count]..Hour
    /\ Grant(tracker.count + 1)
    /\ UNCHANGED trackerNow

\* Any other request is refused, and changes nothing.
TrackerTick ==
    /\ trackerNow < TrackerMaxTime
    /\ trackerNow' = trackerNow + 1
    /\ UNCHANGED <<tracker, granted>>

TrackerNext == FirstRequest \/ NextRequest \/ TrackerTick

-----------------------------------------------------------------------------
(* Properties.                                                             *)

TrackerTypeOK ==
    /\ trackerNow \in 0..TrackerMaxTime
    /\ tracker \in [count : 0..MaxCount, last : 0..TrackerMaxTime]
    /\ granted \in Seq(0..TrackerMaxTime)

\* "Limit to maximum of 3 requests per hour" (auth-service/handlers.go:92): no
\* hour, whenever it begins, has more.
AnyHourWithinLimit ==
    \A i \in DOMAIN granted :
        i > MaxCount => granted[i] - granted[i - MaxCount] > Hour

-----------------------------------------------------------------------------
(* The first services, backend/order-service, payment-service,             *)
(* rider-service and notification-service: rows are created, and changed by*)
(* reading them and writing them back.  The ids of all but riders are the  *)
(* second they are created in.  Each statement is an action.               *)

CONSTANTS
    RowMaxTime,          \* bound of the clock
    Statuses, RiderIds,  \* of an order; no rider is ""
    Places               \* where a rider is

VARIABLES
    second,  \* the clock
    row,     \* for each table and id, its row: two columns, or Absent
    made,    \* history variable: creations that were answered with the row
    asked    \* history variable: the columns as they were last asked for

rowVars == <<call, second, row, made, asked>>

Tables == {"orders", "payments", "riders", "notifications"}

\* The id of a rider is the user's, 0 for all of them.
Ids == 0..RowMaxTime

Absent == <<>>

RowInit ==
    /\ call = [p \in Procs |-> Idle]
    /\ second = 0
    /\ row = [t \in Tables |-> [id \in Ids |-> Absent]]
    /\ made = [t \in Tables |-> [id \in Ids |-> 0]]
    /\ asked = row

\* Faulty: the row that is there is replaced.
Overwrite(table, id, columns) ==
    /\ row' = [row EXCEPT ![table][id] = columns]
    /\ asked' = [asked EXCEPT ![table][id] = columns]
    /\ made' = [made EXCEPT ![table][id] = @ + 1]
    /\ UNCHANGED <<call, second>>

\* The primary key makes db.Create fail if the row is there.
Create(table, id, columns) ==
    /\ row[table][id] = Absent
    /\ row' = [row EXCEPT ![table][id] = columns]
    /\ asked' = [asked EXCEPT ![table][id] = columns]
    /\ made' = [made EXCEPT ![table][id] = @ + 1]
    /\ UNCHANGED <<call, second>>

CreateOrder == Create("orders", second, <<"PLACED", "">>)

Charge ==
    \E status \in {"COMPLETED", "PENDING"} : Create("payments", second, <<status, "">>)

\* A new rider is at latitude and longitude 0.
Register == Create("riders", 0, <<"offline", "origin">>)

SendNotification == Create("notifications", second, <<"unread", "">>)

-----------------------------------------------------------------------------
(* Changes: First reads the row, Save writes all of it.                    *)

\* Keep leaves a column as it was read.
Keep == "keep"

With(columns, change) == [i \in 1..2 |-> IF change[i] = Keep THEN columns[i] ELSE change[i]]

First(p, table, id, change) ==
    /\ call[p] = Idle
    /\ row[table][id] # Absent
    /\ Goto(p, [pc |-> "save", table |-> table, id |-> id, columns |-> With(row[table][id], change)])
    /\ asked' = [asked EXCEPT ![table][id] = With(@, change)]
    /\ UNCHANGED <<second, row, made>>

\* Faulty: without a rider in the request the order has none.
UpdateStatusAndRider(p, id) ==
    \E status \in Statuses, rider \in RiderIds \cup {""} :
        /\ call[p] = Idle
        /\ row["orders"][id] # Absent
        /\ Goto(p, [pc |-> "save", table |-> "orders", id |-> id, columns |-> <<status, rider>>])
        /\ asked' = [asked EXCEPT !["orders"][id] =
                       With(@, <<status, IF rider = "" THEN Keep ELSE rider>>)]
        /\ UNCHANGED <<second, row, made>>

\* Any status may follow any other; a rider is set if one is named.
UpdateStatus(p, id) ==
    \E status \in Statuses, rider \in RiderIds \cup {Keep} :
        First(p, "orders", id, <<status, rider>>)

Refund(p, id) == First(p, "payments", id, <<"REFUNDED", Keep>>)

UpdateLocation(p) == \E place \in Places : First(p, "riders", 0, <<Keep, place>>)

UpdateAvailability(p) ==
    \E status \in {"online", "offline"} : First(p, "riders", 0, <<status, Keep>>)

Save(p) ==
    /\ At(p, "save")
    /\ row' = [row EXCEPT ![call[p].table][call[p].id] = call[p].columns]
    /\ Return(p)
    /\ UNCHANGED <<second, made, asked>>

RowTick ==
    /\ second < RowMaxTime
    /\ second' = second + 1
    /\ UNCHANGED <<call, row, made, asked>>

\* The row could not be saved, and the caller is told so.
RowFail ==
    \E p \in Procs :
        /\ At(p, "save") /\ Return(p)
        /\ UNCHANGED <<second, row, made, asked>>

RowWork(p) ==
    \/ \E id \in Ids : UpdateStatus(p, id) \/ Refund(p, id)
    \/ UpdateLocation(p) \/ UpdateAvailability(p)
    \/ Save(p)

Make == CreateOrder \/ Charge \/ Register \/ SendNotification

RowNext == (\E p \in Procs : RowWork(p)) \/ Make \/ RowTick \/ RowFail

-----------------------------------------------------------------------------
(* Properties.                                                             *)

RowTypeOK == second \in Ids /\ made \in [Tables -> [Ids -> Nat]]

\* An id is given once (order-service/main.go:99): of two orders, payments or
\* notifications of the same second, one is refused, and none replaced.
IdGivenOnce == \A t \in Tables, id \in Ids : made[t][id] <= 1

\* The status and rider of an order, the switch and place of a rider and the
\* status of a payment are those last asked for (order-service/main.go:184).
ColumnsKept == row = asked

-----------------------------------------------------------------------------
(* All of it, each part taking its steps while the others stand still.     *)

vars == <<call, trackerNow, tracker, granted, second, row, made, asked>>

Init == TrackerInit /\ RowInit

Next ==
    \/ TrackerNext /\ UNCHANGED <<call, second, row, made, asked>>
    \/ RowNext /\ UNCHANGED <<trackerNow, tracker, granted>>

Spec == Init /\ [][Next]_vars

TypeOK == TrackerTypeOK /\ RowTypeOK
=============================================================================
