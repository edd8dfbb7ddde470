-------------------------- MODULE MCOrderLibraries --------------------------
(* The order libraries of backend/pkg in one run.  They share no state, so *)
(* a behaviour exercises one of them, its subject, and TLC need not        *)
(* multiply their states.                                                  *)
EXTENDS Integers, FiniteSets, Sequences, TLC

CONSTANTS
    Orders, Procs, Goroutines,
    EventIds, Generated,          \* state machine
    Statuses,                     \* event sourcing
    Keys, NoKey,                  \* payments
    MaxAttempts, MaxRetries, UpdateInserts,
    MaxLog,      \* events of an order's log, with the calls about to append
    MaxStale,    \* transitions that begin while another is under way
    MaxEvents,   \* events of an order, with those about to be saved
    MaxVersions, \* versions of a projected order
    MaxRetried,  \* retries of failed attempts in a behaviour
    MaxFaults    \* failures, restarts and clean-ups in a behaviour

ASSUME OrderLibrariesAssumption ==
    /\ IsFiniteSet(Statuses) /\ "placed" \in Statuses /\ "" \notin Statuses
    /\ NoKey \notin Keys
    /\ MaxRetries \in Nat \ {0}
    /\ MaxAttempts \in Nat
    /\ UpdateInserts \in BOOLEAN

VARIABLES
    subject,
    calm,    \* whether so far one call ran at a time, and nothing failed that
             \* matters to what the subject promises
    faults, stale, retried,
    log, transition, shown,
    events, snapshot, publisher,
    write, made, read, cache, run, answer,
    key, attempt, payment, charged, paid

Machine == INSTANCE OrderStateMachine WITH call <- transition

Sourcing == INSTANCE OrderEventSourcing WITH call <- publisher

Projection == INSTANCE OrderProjection

Payment == INSTANCE IdempotentPayment WITH call <- payment

budgets == <<faults, stale, retried>>

machineVars == <<log, transition, shown>>

sourcingVars == <<events, snapshot, publisher>>

projectionVars == <<write, made, read, cache, run, answer>>

paymentVars == <<key, attempt, payment, charged, paid>>

vars == <<subject, calm, budgets, machineVars, sourcingVars, projectionVars, paymentVars>>

Idle == [pc |-> "idle"]

BusyIn(calls) == {p \in DOMAIN calls : calls[p] # Idle}

\* Nobody but one goroutine is at work.
One(calls) == \A p, q \in DOMAIN calls : calls[p] # Idle /\ calls[q] # Idle => p = q

CalmAfter(calls) == calm' = (calm /\ One(calls))

-----------------------------------------------------------------------------
(* The steps of each subject, with budgets for what comes from outside.    *)

\* Transitions of which none begins while another is under way are calm.
MachineNext ==
    /\ \/ /\ \E p \in Procs, o \in Orders :
               /\ Len(log[o]) + Cardinality(BusyIn(transition)) < MaxLog
               /\ Machine!Request(p, o)
          /\ stale' = IF BusyIn(transition) = {} THEN stale ELSE stale + 1
          /\ stale' <= MaxStale
          /\ calm' = (calm /\ stale' = 0)
          /\ UNCHANGED <<faults, retried>>
       \/ (\E p \in Procs : Machine!Continue(p)) /\ UNCHANGED <<calm, budgets>>
       \/ /\ Machine!Fault
          /\ faults < MaxFaults /\ faults' = faults + 1
          /\ UNCHANGED <<calm, stale, retried>>
    /\ UNCHANGED <<sourcingVars, projectionVars, paymentVars>>

SourcingNext ==
    /\ \/ \E p \in Procs : Sourcing!Continue(p)
       \/ \E p \in Procs, o \in Orders :
            \/ Sourcing!Snapshots(p, o)
            \/ /\ Len(events[o]) + Cardinality(BusyIn(publisher)) < MaxEvents
               /\ Sourcing!Publishes(p, o)
    /\ CalmAfter(publisher')
    /\ UNCHANGED <<budgets, machineVars, projectionVars, paymentVars>>

ProjectionNext ==
    /\ \/ /\ \E g \in Goroutines : \/ Projection!Command(g) \/ Projection!Query(g)
                                   \/ Projection!Continue(g)
          /\ \A o \in Orders : made'[o] <= MaxVersions
          /\ CalmAfter(run')
       \/ (\E g \in Goroutines : Projection!Stop(g)) /\ calm' = FALSE
    /\ UNCHANGED <<budgets, machineVars, sourcingVars, paymentVars>>

\* Retries are calm if they are of the last attempt of a key, and failures
\* unless they make the service forget one.
PaymentNext ==
    /\ \/ /\ \E p \in Procs : Payment!Request(p) \/ Payment!Continue(p)
          /\ CalmAfter(payment')
          /\ UNCHANGED <<faults, retried>>
       \/ \E p \in Procs, a \in Payment!Attempts :
            /\ retried < MaxRetried
            /\ Payment!RetryFailedPayment(p, a)
            /\ retried' = retried + 1
            /\ calm' = (calm /\ BusyIn(payment) = {} /\ Payment!IsLast(a, attempt[a].key))
            /\ UNCHANGED faults
       \/ /\ faults < MaxFaults
          /\ faults' = faults + 1
          /\ \/ Payment!Stop /\ UNCHANGED calm
             \/ Payment!Forget /\ calm' = FALSE
          /\ UNCHANGED retried
    /\ UNCHANGED <<stale, machineVars, sourcingVars, projectionVars>>

Init ==
    /\ subject \in {"machine", "sourcing", "projection", "payment"}
    /\ calm = TRUE
    /\ faults = 0 /\ stale = 0 /\ retried = 0
    /\ Machine!Init
    /\ subject # "machine" => log = [o \in Orders |-> <<>>]
    /\ Sourcing!Init
    /\ Projection!Init
    /\ Payment!Init

Next ==
    /\ UNCHANGED subject
    /\ \/ subject = "machine" /\ MachineNext
       \/ subject = "sourcing" /\ SourcingNext
       \/ subject = "projection" /\ ProjectionNext
       \/ subject = "payment" /\ PaymentNext

\* What is not the subject can do nothing, and fairness asks nothing of it.
Spec == Init /\ [][Next]_vars /\ Projection!Fairness /\ Payment!Fairness

-----------------------------------------------------------------------------
(* The properties.  Each module says what the conjuncts mean.              *)

TypeOK ==
    /\ Machine!TypeOK
    /\ Sourcing!TypeOK
    /\ Projection!TypeOK
    /\ Payment!TypeOK

\* However callers race, no money goes back and no food is handed over without
\* cause (order_state_machine.go:52), and no version of an event is left out
\* (order_event_sourcing.go:299); call by call, the log is one path of the table
\* (:137), versions differ, the sockets were told where the log ends (:217), and
\* read model and cache have the order the write model has (order_cqrs.go:122).
RecordsAreSound ==
    /\ Machine!EveryStepHasItsCause
    /\ Sourcing!NoVersionGap
    /\ calm => Machine!LogIsPath /\ Sourcing!VersionsDiffer
    /\ calm /\ faults = 0 => Machine!ShownIsCurrent
    /\ calm /\ BusyIn(run) = {} => Projection!ReadModelAgrees

\* Call by call, a snapshot changes nothing about the state events replay to
\* (order_event_sourcing.go:109), and the times in stages of an order that is
\* active add up (:14).
ReplayIsSound == calm => Sourcing!SnapshotAgrees /\ Sourcing!StageTimesAddUp

\* What is stored as completed was charged (idempotency_payment.go:157); and
\* where updates insert, though calls fail and processes stop, a key is charged
\* once (:86) and answered, once completed, with a completed payment (:94).
ChargesAreSound ==
    /\ Payment!CompletedWasCharged
    /\ calm /\ UpdateInserts => Payment!ChargedOnce /\ Payment!RepeatSeesPayment

\* While nothing fails, the version written last is the one read in the end
\* (order_cqrs.go:258), and no key stays pending (idempotency_payment.go:140).
SettlesInTheEnd ==
    /\ \A o \in Orders : <>[](calm => write[o] \in {Projection!None, read[o]})
    /\ \A k \in Keys :
         key[k] = "pending" /\ faults = 0 ~> key[k] # "pending" \/ faults > 0

\* "processes a payment with idempotency guarantee" (idempotency_payment.go:86):
\* whatever updates do, a key is charged once, call by call.
KeyIsChargedOnce == calm => Payment!ChargedOnce
=============================================================================
