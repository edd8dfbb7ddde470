----------------------------- MODULE MCBackground -----------------------------
(* Small instances of WebSocketHub, PaymentService and OrderPaymentSaga    *)
(* for TLC, in one run.  They share no state: a behaviour                  *)
(* exercises one of them, its part, with a budget for what comes from      *)
(* outside, and leaves the others as they begin, where no fair step is     *)
(* enabled.                                                                *)
EXTENDS WebSocketHub, PaymentService, OrderPaymentSaga, FiniteSets, TLC

CONSTANTS
    MaxSends,     \* messages sent through the hub in a behaviour
    MaxPings,     \* pings read in a behaviour
    MaxRequests,  \* payment requests in a behaviour that get past their checks
    MaxFaults     \* failures and crashes in a behaviour

VARIABLES
    part,  \* which of the three a behaviour exercises
    sends, pings,
    paymentFaults, requests,
    paymentCalm,    \* whether so far nothing failed and no two requests were under way
    sagaCalm        \* whether so far nothing failed but steps, no failure was reported from
                    \* outside, and no two workers were on the saga at once

-----------------------------------------------------------------------------
(* The hub, with a budget of messages from outside.                        *)

mcHubVars == <<hubVars, sends, pings>>

MCHubInit == HubInit /\ sends = 0 /\ pings = 0

MCHubNext ==
    /\ HubNext
    /\ sends' = IF \E s \in Senders : sender[s].pc = "idle" /\ sender'[s].pc = "lock"
                THEN sends + 1 ELSE sends
    /\ pings' = IF \E c \in Clients : reader[c] = "read" /\ reader'[c] = "pong"
                THEN pings + 1 ELSE pings
    /\ sends' <= MaxSends
    /\ pings' <= MaxPings

Roomy == \A c \in Clients : queue[c] < Capacity

\* As long as every channel has room, a client that is gone is forgotten, and
\* no sender waits for ever (handler.go:62, hub.go:75).
RoomyProgress == []Roomy => GoneIsForgotten /\ SendReturns

-----------------------------------------------------------------------------
(* Payments: when no more requests come, the service stops once those in   *)
(* it are done.                                                            *)

mcPaymentVars == <<paymentVars, paymentFaults, requests, paymentCalm>>

MCPaymentInit == PaymentInit /\ paymentFaults = 0 /\ requests = 0 /\ paymentCalm = TRUE

Step ==
    \/ /\ requests < MaxRequests
       /\ \E p \in Procs : Handle(p)
       /\ requests' = requests + 1
       /\ UNCHANGED paymentFaults
    \/ \E p \in Procs : WriteRow(p) /\ UNCHANGED <<paymentFaults, requests>>
    \/ /\ PaymentFault
       /\ paymentFaults < MaxFaults
       /\ paymentFaults' = paymentFaults + 1
       /\ UNCHANGED requests

MCPaymentNext ==
    /\ Step
    /\ paymentCalm' = /\ paymentCalm /\ paymentFaults' = 0
                      /\ Cardinality({p \in Procs : call'[p] # PaymentIdle}) <= 1

MCPaymentSpec == MCPaymentInit /\ [][MCPaymentNext]_mcPaymentVars

\* An answered webhook's payment is completed, and stays so, whatever else is
\* under way, as long as nothing fails.
FaultlessAckedIsCompleted == paymentFaults = 0 => AckedIsCompleted

\* When requests come one at a time and none fails, an order has one payment,
\* "payment already exists for this order" (payment_service.go:35), and a
\* stored refund survives the requests that come after it.
CalmPaymentsKept ==
    /\ [](paymentCalm => OnePaymentPerOrder)
    /\ [][paymentCalm' => RefundIsKept]_mcPaymentVars

-----------------------------------------------------------------------------
(* The saga, whose states are finite.                                      *)

mcSagaVars == <<sagaVars, sagaCalm>>

MCSagaInit == SagaInit /\ sagaCalm = TRUE

MCSagaNext ==
    \/ /\ SagaCalmNext
       /\ sagaCalm' = (sagaCalm /\ Cardinality({w \in Workers : worker'[w] # SagaIdle}) <= 1)
    \/ /\ (\E w \in Workers : HandlePaymentFailure(w)) \/ SagaFault
       /\ sagaCalm' = FALSE

MCSagaSpec == MCSagaInit /\ [][MCSagaNext]_mcSagaVars /\ SagaFairness

\* OrderPaymentSaga's properties of a saga left alone: executeSaga by itself,
\* or retried by one caller at a time.  It takes effect as a whole or not at all
\* (order_payment_saga.go:35), undoes the latest step first (:180), and carries
\* out no step twice (:232) ...
CalmSagaIsClean == sagaCalm => AllOrNothing /\ UndoneInReverse /\ NoStepRepeated

\* ... and ends, completed or compensated (:139).
CalmSagaEnds == []sagaCalm => SagaEnds

-----------------------------------------------------------------------------
(* The run.                                                                *)

backgroundVars == <<part, mcHubVars, mcPaymentVars, mcSagaVars>>

BackgroundInit ==
    /\ part \in {"hub", "payment", "saga"}
    /\ MCHubInit /\ MCPaymentInit /\ MCSagaInit

BackgroundNext ==
    /\ UNCHANGED part
    /\ IF part = "hub" THEN MCHubNext ELSE UNCHANGED mcHubVars
    /\ IF part = "payment" THEN MCPaymentNext ELSE UNCHANGED mcPaymentVars
    /\ IF part = "saga" THEN MCSagaNext ELSE UNCHANGED mcSagaVars

BackgroundSpec ==
    /\ BackgroundInit /\ [][BackgroundNext]_backgroundVars
    /\ HubFairness /\ SagaFairness

\* A user's clients, the clients of a type, and everyone.
UserTypeAll == {{c} : c \in Clients} \cup {Clients}
=============================================================================
