-------------------------- MODULE OrderPaymentSaga --------------------------
(***************************************************************************)
(* backend/pkg/saga: one saga that creates an order, initiates its payment *)
(* and confirms it, and compensates what it did when a step fails.         *)
(*                                                                         *)
(* A worker is a goroutine in executeSaga, HandlePaymentFailure or         *)
(* RetryFailedSaga, with its own copy of the saga; the repository keeps    *)
(* the copy saved last.  Order and payment services are interfaces: a step *)
(* stands for its effect there, which may not have happened ("none"), may  *)
(* stand ("done") or be compensated ("undone").  Steps count from 1.       *)
(***************************************************************************)
EXTENDS Integers

CONSTANTS
    N,          \* number of steps
    NoSaga,     \* what the repository has before the saga was started
    Workers     \* goroutines that work on the saga

VARIABLES
    saved,      \* the saga in the repository
    worker,     \* what each worker is doing, and with which copy
    effect      \* what has become of each step in the other services

sagaVars == <<saved, worker, effect>>

Steps == 1..N

States == {"started", "order_created", "payment_failed", "completed",
           "compensating", "compensated"}

Saga == [state : States, currentStep : Steps, completed : SUBSET Steps]

ASSUME SagaAssumption == N \in Nat \ {0} /\ NoSaga \notin Saga

SagaIdle == [pc |-> "idle"]

\* i is the step to execute, or the one to compensate next.
Worker == [pc : {"reset", "save", "execute", "failed", "compensate", "finish"},
           i : 0..N, saga : Saga]

Fresh == [state |-> "started", currentStep |-> 1, completed |-> {}]

SagaInit ==
    /\ saved = NoSaga
    /\ worker = [w \in Workers |-> SagaIdle]
    /\ effect = [i \in Steps |-> "none"]

Goto(w, pc, i, saga) ==
    worker' = [worker EXCEPT ![w] = [pc |-> pc, i |-> i, saga |-> saga]]

-----------------------------------------------------------------------------
(* Calls that put a worker on the saga.                                    *)

StartOrderPaymentSaga(w) ==
    /\ worker[w] = SagaIdle
    /\ saved = NoSaga
    /\ saved' = Fresh
    /\ Goto(w, "save", 1, Fresh)
    /\ UNCHANGED effect

\* Whatever the saga's state, what was done before its current step is undone.
HandlePaymentFailure(w) ==
    /\ worker[w] = SagaIdle
    /\ saved # NoSaga
    /\ Goto(w, "failed", saved.currentStep, [saved EXCEPT !.state = "payment_failed"])
    /\ UNCHANGED <<saved, effect>>

\* Faulty: a completed saga may be run again, too.
RetryAnySaga(w) ==
    /\ worker[w] = SagaIdle
    /\ saved # NoSaga
    /\ saved.state \in {"compensated", "completed"}
    /\ Goto(w, "reset", 1, Fresh)
    /\ UNCHANGED <<saved, effect>>

\* No code sets the state "failed", from which one could retry as well.
RetryFailedSaga(w) ==
    /\ worker[w] = SagaIdle
    /\ saved # NoSaga
    /\ saved.state = "compensated"
    /\ Goto(w, "reset", 1, Fresh)
    /\ UNCHANGED <<saved, effect>>

-----------------------------------------------------------------------------
(* executeSaga.                                                            *)

SaveReset(w) ==
    /\ worker[w].pc = "reset"
    /\ saved' = worker[w].saga
    /\ Goto(w, "save", 1, worker[w].saga)
    /\ UNCHANGED effect

\* Faulty: the last step counts as done when it is begun.
SaveStepEarly(w) ==
    LET W == worker[w]
        saga == [W.saga EXCEPT !.currentStep = W.i, !.state = "order_created"]
    IN  /\ W.pc = "save"
        /\ saved' = saga
        /\ IF W.i = N THEN Goto(w, "finish", 0, [saga EXCEPT !.state = "completed"])
                      ELSE Goto(w, "execute", W.i, saga)
        /\ UNCHANGED effect

\* The state saved before each step, whichever it is, is "order_created".
SaveStep(w) ==
    LET W == worker[w]
        saga == [W.saga EXCEPT !.currentStep = W.i, !.state = "order_created"]
    IN  /\ W.pc = "save"
        /\ saved' = saga
        /\ Goto(w, "execute", W.i, saga)
        /\ UNCHANGED effect

\* The step is carried out, and the loop goes on to the next or ends.
Executed(w) ==
    LET W == worker[w]
        saga == [W.saga EXCEPT !.completed = @ \cup {W.i}]
    IN  IF W.i < N
        THEN Goto(w, "save", W.i + 1, saga)
        ELSE Goto(w, "finish", 0, [saga EXCEPT !.state = "completed"])

\* The step's error sends the worker to compensate.
Failed(w) == Goto(w, "failed", worker[w].i, [worker[w].saga EXCEPT !.state = "compensating"])

ExecuteStep(w) ==
    /\ worker[w].pc = "execute"
    /\ effect' = [effect EXCEPT ![worker[w].i] = "done"]
    /\ Executed(w)
    /\ UNCHANGED saved

\* The service refuses: a payment is declined.
ExecuteRefused(w) ==
    /\ worker[w].pc = "execute"
    /\ Failed(w)
    /\ UNCHANGED <<saved, effect>>

\* The saga is completed, or compensated: the last save.
SaveFinal(w) ==
    /\ worker[w].pc = "finish"
    /\ saved' = worker[w].saga
    /\ worker' = [worker EXCEPT ![w] = SagaIdle]
    /\ UNCHANGED effect

-----------------------------------------------------------------------------
(* compensateSaga.                                                         *)

\* Faulty: the failure is saved, and that is all.
SaveFailedOnly(w) ==
    /\ worker[w].pc = "failed"
    /\ saved' = worker[w].saga
    /\ worker' = [worker EXCEPT ![w] = SagaIdle]
    /\ UNCHANGED effect

\* The failure is saved; compensation starts below the step that failed.
SaveFailed(w) ==
    LET W == worker[w]
    IN  /\ W.pc = "failed"
        /\ saved' = W.saga
        /\ Goto(w, "compensate", W.i - 1, W.saga)
        /\ UNCHANGED effect

\* Faulty: the loop ends before the first step, or one step too late.
BelowSecond(w) ==
    LET W == worker[w]
    IN  IF W.i > 2
        THEN Goto(w, "compensate", W.i - 1, W.saga)
        ELSE Goto(w, "finish", 0, [W.saga EXCEPT !.state = "compensated"])

\* On to the step before, until there is none.
Below(w) ==
    LET W == worker[w]
    IN  IF W.i > 1
        THEN Goto(w, "compensate", W.i - 1, W.saga)
        ELSE Goto(w, "finish", 0, [W.saga EXCEPT !.state = "compensated"])

\* Faulty: whatever was completed is undone from the first step on.
CompensateForward(w) ==
    LET W == worker[w]
    IN  /\ W.pc = "compensate"
        /\ effect' = [i \in Steps |->
                        IF i = W.saga.currentStep - W.i /\ i \in W.saga.completed
                        THEN "undone" ELSE effect[i]]
        /\ Below(w)
        /\ UNCHANGED saved

\* Faulty: no one looks whether a step was completed.
CompensateAny(w) ==
    /\ worker[w].pc = "compensate"
    /\ effect' = [i \in Steps |-> IF i = worker[w].i + 1 THEN "undone" ELSE effect[i]]
    /\ Below(w)
    /\ UNCHANGED saved

CompensateStep(w) ==
    /\ worker[w].pc = "compensate"
    /\ effect' = [i \in Steps |->
                    IF i = worker[w].i /\ i \in worker[w].saga.completed
                    THEN "undone" ELSE effect[i]]
    /\ Below(w)
    /\ UNCHANGED saved

-----------------------------------------------------------------------------
(* Failures.                                                               *)

\* The step takes effect, but its answer is an error.
ExecuteAnswerLost(w) ==
    /\ worker[w].pc = "execute"
    /\ effect' = [effect EXCEPT ![worker[w].i] = "done"]
    /\ Failed(w)
    /\ UNCHANGED saved

\* The compensation fails, which is printed and forgotten.
CompensateError(w) ==
    /\ worker[w].pc = "compensate"
    /\ worker[w].i \in worker[w].saga.completed
    /\ Below(w)
    /\ UNCHANGED <<saved, effect>>

\* SaveSaga fails, and the worker gives up where it is.
SaveSagaError(w) ==
    /\ worker[w].pc \in {"reset", "save", "failed", "finish"}
    /\ worker' = [worker EXCEPT ![w] = SagaIdle]
    /\ UNCHANGED <<saved, effect>>

SagaCrash ==
    /\ worker' = [w \in Workers |-> SagaIdle]
    /\ UNCHANGED <<saved, effect>>

-----------------------------------------------------------------------------

SagaWork(w) ==
    \/ SaveReset(w) \/ SaveStep(w) \/ ExecuteStep(w) \/ ExecuteRefused(w)
    \/ SaveFailed(w) \/ CompensateStep(w) \/ SaveFinal(w)

Request(w) == StartOrderPaymentSaga(w) \/ RetryFailedSaga(w)

SagaCalmNext == \E w \in Workers : Request(w) \/ SagaWork(w)

SagaFault ==
    \/ \E w \in Workers : ExecuteAnswerLost(w) \/ CompensateError(w) \/ SaveSagaError(w)
    \/ SagaCrash

SagaNext == SagaCalmNext \/ (\E w \in Workers : HandlePaymentFailure(w)) \/ SagaFault

SagaSpec == SagaInit /\ [][SagaNext]_sagaVars

\* A goroutine on the saga is scheduled until it is done; no one has to retry.
SagaFairness == \A w \in Workers : WF_sagaVars(SagaWork(w))

-----------------------------------------------------------------------------
(* Properties.                                                             *)

SagaTypeOK ==
    /\ saved \in Saga \cup {NoSaga}
    /\ worker \in [Workers -> {SagaIdle} \cup Worker]
    /\ effect \in [Steps -> {"none", "done", "undone"}]

\* Whoever works on the saga, with however old a copy, a step that was never
\* carried out is not compensated: no refund of a payment no one confirmed.
NothingUndoneUndone ==
    [][\A i \in Steps : effect[i] = "none" => effect'[i] # "undone"]_sagaVars

\* A saga saved as completed has carried out each of its steps.
CompletedWasCarriedOut ==
    saved # NoSaga /\ saved.state = "completed" => \A i \in Steps : effect[i] # "none"

Resting == saved # NoSaga /\ \A w \in Workers : worker[w] = SagaIdle

\* "implements the saga pattern for order+payment consistency"
\* (order_payment_saga.go:35): when the saga rests, all of it was done, or
\* nothing of it stands.
AllOrNothing ==
    Resting =>
        \/ saved.state = "completed" /\ \A i \in Steps : effect[i] = "done"
        \/ saved.state = "compensated" /\ \A i \in Steps : effect[i] # "done"

\* "Compensate in reverse order" (order_payment_saga.go:180): a step is not
\* undone before the later ones are.
UndoneInReverse ==
    \A i, j \in Steps : i < j /\ effect[i] = "undone" => effect[j] # "done"

\* "saga is not in a retryable state" (order_payment_saga.go:232): a step
\* whose effect stands is not carried out again.
NoStepRepeated ==
    \A w \in Workers : worker[w].pc = "execute" => effect[worker[w].i] # "done"

\* A saga that was started or retried ends.
SagaEnds ==
    saved # NoSaga ~> saved # NoSaga /\ saved.state \in {"completed", "compensated"}
=============================================================================
