--------------------------- MODULE MCOrderService ---------------------------
(* Small instances of OrderService for TLC.                                *)
EXTENDS OrderService, TLC

CONSTANTS
    MaxFaults,  \* failures and crashes in a behaviour
    MaxTicks    \* ticks of the ETA recalculator in a behaviour

\* Update requests of an order that a rider takes at once, one event_id each.
DeliveryUpdates ==
    {<<"rider_arrived_restaurant", "e1">>, <<"picked_up", "e2">>,
     <<"rider_arrived_customer", "e3">>, <<"delivered", "e4">>}

\* Update requests of an order on its way through the kitchen.
KitchenUpdates ==
    {<<"restaurant_accepted", "e1">>, <<"preparing", "e2">>,
     <<"ready_for_pickup", "e3">>, <<"rider_assigned", "e4">>}

VARIABLES
    stage,      \* which updates clients ask for in a behaviour: of the kitchen, or of the delivery
    faults, ticks,
    undone      \* whether the recalculator has put back a row that had changed since it was read

mcvars == <<vars, stage, faults, ticks, undone>>

MCInit ==
    /\ Init
    /\ stage \in {"kitchen", "delivery"}
    /\ faults = 0 /\ ticks = 0 /\ undone = FALSE

\* What may be asked for at a stage; in the kitchen one rider will do.
StageUpdates == IF stage = "kitchen" THEN KitchenUpdates ELSE DeliveryUpdates
StageRiders == IF stage = "kitchen" THEN {CHOOSE r \in Riders : TRUE} ELSE Riders

Asked(c) ==
    /\ c.pc = "load" => <<c.status, c.event>> \in StageUpdates
    /\ c.pc = "save" /\ c.event = "assign" => c.row.rider \in StageRiders

\* The steps of OrderService, with a budget for the two kinds of step that
\* could otherwise be repeated at will and multiply the states.
MCNext ==
    /\ \/ CalmNext /\ UNCHANGED <<faults, ticks>>
       \/ EtaTick /\ ticks < MaxTicks /\ ticks' = ticks + 1 /\ UNCHANGED faults
       \/ \E s \in eta : (EtaUpdate(s) \/ EtaSkip(s)) /\ UNCHANGED <<faults, ticks>>
       \/ Fault /\ faults < MaxFaults /\ faults' = faults + 1 /\ UNCHANGED ticks
    /\ \A p \in Procs : call[p] = Idle => Asked(call'[p])
    /\ UNCHANGED stage
    /\ undone' = (undone \/ \E s \in eta \ eta' :
                                order[s.order] # s.row /\ order'[s.order] = s.row)

MCSpec == MCInit /\ [][MCNext]_mcvars

\* Goroutines that were started go on, among ticks of the recalculator.
MCFairSpec == MCSpec /\ Fairness

\* EventWrittenOnce, as long as nothing fails: no status is written for an event
\* the history already has.
FaultlessWrittenOnce ==
    [][faults' = 0 => \A p \in Procs : UpdateStatusColumn(p) => ~Taken(call[p].event)]_mcvars

\* AssignmentResolves, as long as nothing fails and the recalculator puts no
\* older row back.
KeptAssignmentResolves == [](faults = 0 /\ ~undone) => AssignmentResolves

AllUpdates == KitchenUpdates \cup DeliveryUpdates

UpdateEvents == {u[2] : u \in Updates}

\* Ids are interchangeable: no action and no safety property tells two
\* riders, request goroutines or cascade goroutines apart.
Symmetry ==
    Permutations(Riders)
        \cup Permutations(Procs) \cup Permutations(Timers)
=============================================================================
