------------------------- MODULE OrderEventSourcing -------------------------
(***************************************************************************)
(* backend/pkg/event_sourcing: an order is what its events replay to, from *)
(* the latest snapshot on.  Publishers read the latest version and then    *)
(* save an event with the next; CreateSnapshot replays, then reads the     *)
(* version it will stand for.                                              *)
(*                                                                         *)
(* Both stores are interfaces.  GetEvents returns the events of at least   *)
(* the version asked for ("from snapshot version onwards"), by version and *)
(* then as they were saved; nothing makes versions unique; the latest      *)
(* snapshot is the one saved last.  A timestamp is the number of events    *)
(* the order had when the event was made.  Callers create an order once,   *)
(* before anything else happens to it: the code asks no such thing.        *)
(***************************************************************************)
EXTENDS Integers, SequencesExt

CONSTANTS
    Orders,    \* order ids
    Statuses,  \* statuses of orders, "placed" among them
    Procs      \* goroutines

VARIABLES
    events,    \* event store: events of each order, as they were saved
    snapshot,  \* latest snapshot of each order
    call       \* what each goroutine is doing

vars == <<events, snapshot, call>>

Kind == [type : {"order_created", "payment_completed", "rider_assigned"}]
          \cup [type : {"status_changed"}, status : Statuses]

Event == [version : Nat, kind : Kind, at : Nat]

\* An order as its events tell it.
NoState == [status |-> "none", paid |-> FALSE]

State == {NoState} \cup [status : Statuses, paid : BOOLEAN]

NoSnapshot == [version |-> 0, state |-> NoState]

Idle == [pc |-> "idle"]

Call ==
    [pc : {"save"}, order : Orders, event : Event]
      \cup [pc : {"replay", "version", "store"}, order : Orders, base : [version : Nat, state : State]]

Init ==
    /\ events = [o \in Orders |-> <<>>]
    /\ snapshot = [o \in Orders |-> NoSnapshot]
    /\ call = [p \in Procs |-> Idle]

Return(p) == call' = [call EXCEPT ![p] = Idle]

-----------------------------------------------------------------------------
(* Replay.                                                                 *)

\* Nothing but a creation makes an order of nothing.
applyEvent(state, e) ==
    IF e.kind.type = "order_created" THEN [status |-> "placed", paid |-> FALSE]
    ELSE IF state = NoState THEN state
    ELSE CASE e.kind.type = "status_changed"    -> [state EXCEPT !.status = e.kind.status]
           [] e.kind.type = "payment_completed" -> [state EXCEPT !.paid = TRUE]
           [] OTHER                             -> state

Versions(o) == {events[o][i].version : i \in 1 .. Len(events[o])}

GetLatestVersion(o) == Max({0} \cup Versions(o))

\* Events come by version, and then as they were saved.
InOrder(list, asked) ==
    LET before(i, j) == \/ list[i].version < list[j].version
                        \/ list[i].version = list[j].version /\ i <= j
        place(i)     == Cardinality({j \in asked : before(j, i)})
    IN  [k \in 1 .. Cardinality(asked) |-> list[CHOOSE i \in asked : place(i) = k]]

\* Faulty: an event is taken for the snapshot's own.
GetEventsAfter(o, version) ==
    InOrder(events[o], {i \in 1 .. Len(events[o]) :
                           version = 0 \/ events[o][i].version > version + 1})

GetEvents(o, version) ==
    InOrder(events[o], {i \in 1 .. Len(events[o]) : events[o][i].version >= version})

Replay(state, list) == FoldLeft(applyEvent, state, list)

GetOrderState(o) == Replay(snapshot[o].state, GetEvents(o, snapshot[o].version))

NoStage == [last |-> "", since |-> 0, times |-> [s \in Statuses |-> 0]]

\* Time goes on to at; what is counted is the stage the order was in.
Spend(stage, at) ==
    IF stage.last = "" THEN stage.times
    ELSE [stage.times EXCEPT ![stage.last] = @ + at - stage.since]

\* Faulty: every event ends a stage, but only a status change begins one.
EndStageAlways(stage, e) ==
    [last  |-> IF e.kind.type = "status_changed" THEN e.kind.status ELSE stage.last,
     since |-> IF e.kind.type = "status_changed" THEN e.at ELSE stage.since,
     times |-> Spend(stage, e.at)]

EndStage(stage, e) ==
    IF e.kind.type # "status_changed" THEN stage
    ELSE [last |-> e.kind.status, since |-> e.at, times |-> Spend(stage, e.at)]

\* The time before the first change of status is in no stage.
GetTimeInStage(o, now) == Spend(FoldLeft(EndStage, NoStage, GetEvents(o, 0)), now)

-----------------------------------------------------------------------------
(* Publishers.                                                             *)

Publish(p, o, version, kind) ==
    /\ call[p] = Idle
    /\ call' = [call EXCEPT ![p] = [pc |-> "save", order |-> o,
                                    event |-> [version |-> version, kind |-> kind, at |-> Len(events[o])]]]
    /\ UNCHANGED <<events, snapshot>>

PublishOrderCreatedEvent(p, o) ==
    /\ events[o] = <<>>
    /\ \A q \in Procs : call[q] # Idle => call[q].order # o
    /\ Publish(p, o, 1, [type |-> "order_created"])

\* Faulty: the version is counted from the snapshot.
PublishAfterSnapshot(p, o, kind) == Publish(p, o, snapshot[o].version + 2, kind)

PublishNext(p, o, kind) ==
    /\ events[o] # <<>>
    /\ Publish(p, o, GetLatestVersion(o) + 1, kind)

PublishStatusChangedEvent(p, o, s) ==
    PublishNext(p, o, [type |-> "status_changed", status |-> s])

PublishPaymentCompletedEvent(p, o) == PublishNext(p, o, [type |-> "payment_completed"])

PublishRiderAssignedEvent(p, o) == PublishNext(p, o, [type |-> "rider_assigned"])

SaveEvent(p) ==
    /\ call[p].pc = "save"
    /\ events' = [events EXCEPT ![call[p].order] = Append(@, call[p].event)]
    /\ Return(p)
    /\ UNCHANGED snapshot

-----------------------------------------------------------------------------
(* CreateSnapshot.                                                         *)

Base(p, o, pc, version, state) ==
    /\ call' = [call EXCEPT ![p] = [pc |-> pc, order |-> o,
                                    base |-> [version |-> version, state |-> state]]]
    /\ UNCHANGED <<events, snapshot>>

GetLatestSnapshot(p, o) ==
    /\ call[p] = Idle
    /\ Base(p, o, "replay", snapshot[o].version, snapshot[o].state)

ReplayEvents(p) ==
    /\ call[p].pc = "replay"
    /\ LET c == call[p]
       IN  Base(p, c.order, "version", c.base.version,
                Replay(c.base.state, GetEvents(c.order, c.base.version)))

ReadVersion(p) ==
    /\ call[p].pc = "version"
    /\ LET c == call[p]
       IN  Base(p, c.order, "store", GetLatestVersion(c.order), c.base.state)

SaveSnapshot(p) ==
    /\ call[p].pc = "store"
    /\ snapshot' = [snapshot EXCEPT ![call[p].order] = call[p].base]
    /\ Return(p)
    /\ UNCHANGED events

\* The lookup's error counts as "no snapshot": all events are replayed.
SnapshotLookupError(p, o) ==
    /\ call[p] = Idle
    /\ Base(p, o, "replay", 0, NoState)

\* A store fails or the process stops: the call ends where it is.
Stop(p) ==
    /\ call[p] # Idle
    /\ Return(p)
    /\ UNCHANGED <<events, snapshot>>

-----------------------------------------------------------------------------

Publishes(p, o) ==
    \/ PublishOrderCreatedEvent(p, o)
    \/ \E s \in Statuses : PublishStatusChangedEvent(p, o, s)
    \/ PublishPaymentCompletedEvent(p, o)
    \/ PublishRiderAssignedEvent(p, o)

Snapshots(p, o) == GetLatestSnapshot(p, o) \/ SnapshotLookupError(p, o)

Continue(p) ==
    SaveEvent(p) \/ ReplayEvents(p) \/ ReadVersion(p) \/ SaveSnapshot(p) \/ Stop(p)

Next ==
    \E p \in Procs :
        \/ Continue(p)
        \/ \E o \in Orders : Publishes(p, o) \/ Snapshots(p, o)

Spec == Init /\ [][Next]_vars

-----------------------------------------------------------------------------
(* Properties.                                                             *)

TypeOK ==
    /\ events \in [Orders -> Seq(Event)]
    /\ snapshot \in [Orders -> [version : Nat, state : State]]
    /\ call \in [Procs -> {Idle} \cup Call]

\* However publishers race, no version is left out, so that asking for the
\* events from a version on misses none; and a snapshot is of a version there is.
NoVersionGap ==
    \A o \in Orders :
        /\ Versions(o) = 1 .. GetLatestVersion(o)
        /\ snapshot[o].version \in Versions(o) \cup {0}

\* "reconstructs the current state by replaying events"
\* (order_event_sourcing.go:109): the state is that of the whole history,
\* whether there is a snapshot or not.
SnapshotAgrees ==
    \A o \in Orders : GetOrderState(o) = Replay(NoState, GetEvents(o, 0))

\* An order whose last change of status did not end it.
Active(o) ==
    FoldLeft(EndStage, NoStage, GetEvents(o, 0)).last \notin {"delivered", "cancelled"}

\* "accurate 'time spent in each stage' analytics" (order_event_sourcing.go:14):
\* no time is negative, and all together they are the time since the first
\* change of status, while an order is active.  (The last stage of one that is
\* not goes on growing at :246, though :245 says "if order is still active".)
StageTimesAddUp ==
    \A o \in Orders :
        LET now     == Len(events[o])
            times   == GetTimeInStage(o, now)
            changes == {events[o][i].at : i \in
                          {j \in 1 .. now : events[o][j].kind.type = "status_changed"}}
        IN  /\ \A s \in Statuses : times[s] >= 0
            /\ Active(o) /\ changes # {} =>
                 FoldFunction(+, 0, times) = now - (CHOOSE t \in changes : \A u \in changes : t <= u)

\* Events are told apart, and put in order, by their versions.
VersionsDiffer ==
    \A o \in Orders : \A i, j \in 1 .. Len(events[o]) :
        events[o][i].version = events[o][j].version => i = j
=============================================================================
