------------------------------ MODULE SagaProofs ------------------------------
(***************************************************************************)
(* What OrderPaymentSaga keeps for any number of steps and workers, with   *)
(* workers on stale copies, failures and crashes at any point: nothing is  *)
(* compensated that was never carried out, and a saga called completed has *)
(* carried out every step.  Both rest on a copy, however old, listing only *)
(* steps that were carried out, which no later step can change.            *)
(*                                                                         *)
(* The last part is about calm behaviours of the saga of MCBackground,     *)
(* with one worker at a time and no failure but a step's: the steps that   *)
(* stand are then always a prefix, which grows and shrinks by one.         *)
(***************************************************************************)
EXTENDS MCBackground, FiniteSetTheorems, TLAPS

Effects == [Steps -> {"none", "done", "undone"}]

\* Every step the copy lists, and all of them if it is completed, took effect.
Honest(saga, eff) ==
    /\ \A i \in saga.completed : eff[i] # "none"
    /\ saga.state = "completed" => \A i \in Steps : eff[i] # "none"

\* A worker on its way up has completed all steps below.
OnItsWay(W) ==
    /\ W.pc \in {"reset", "save", "execute", "failed"} => W.i \in Steps
    /\ W.pc \in {"save", "execute"} => \A j \in Steps : j < W.i => j \in W.saga.completed

HonestCopies ==
    /\ saved # NoSaga => Honest(saved, effect)
    /\ \A w \in Workers :
         worker[w] # SagaIdle => Honest(worker[w].saga, effect) /\ OnItsWay(worker[w])

IInv == SagaTypeOK /\ HonestCopies

\* What was carried out stays carried out, if only to be undone.
Grown == \A i \in Steps : effect[i] # "none" => effect'[i] # "none"

-----------------------------------------------------------------------------

LEMMA FreshIsSaga == Fresh \in Saga /\ Fresh # NoSaga /\ Honest(Fresh, effect)
BY SagaAssumption DEF Fresh, Saga, States, Steps, Honest

LEMMA InitIInv == SagaInit => IInv
BY SagaAssumption DEF SagaInit, IInv, SagaTypeOK, HonestCopies, Steps

\* A worker leaves the saga, or goes on with an honest copy.
LEMMA WorkerStep ==
    ASSUME IInv, NEW w \in Workers, NEW W \in Worker \cup {SagaIdle},
           worker' = [worker EXCEPT ![w] = W],
           saved' \in Saga \cup {NoSaga}, effect' \in Effects, Grown,
           saved' # saved => Honest(saved', effect'),
           W # SagaIdle => Honest(W.saga, effect') /\ OnItsWay(W)
    PROVE  IInv'
<1>1. SagaTypeOK' BY DEF IInv, SagaTypeOK, Effects
<1>2. ASSUME NEW saga \in Saga, Honest(saga, effect) PROVE Honest(saga, effect')
    BY <1>2 DEF Honest, Grown, Saga
<1>3. saved' # NoSaga => Honest(saved', effect')
    BY <1>2 DEF IInv, SagaTypeOK, HonestCopies
<1>4. ASSUME NEW v \in Workers, worker'[v] # SagaIdle
      PROVE  Honest(worker'[v].saga, effect') /\ OnItsWay(worker'[v])
  <2>1. CASE v = w BY <1>4, <2>1 DEF IInv, SagaTypeOK
  <2>2. CASE v # w
    <3>1. worker'[v] = worker[v] /\ worker[v].saga \in Saga
        BY <1>4, <2>2 DEF IInv, SagaTypeOK, Worker
    <3> QED BY <1>4, <3>1, <1>2 DEF IInv, HonestCopies
  <2> QED BY <2>1, <2>2
<1> QED BY <1>1, <1>3, <1>4 DEF IInv, HonestCopies

LEMMA RequestStep ==
    ASSUME IInv, NEW w \in Workers
    PROVE  /\ StartOrderPaymentSaga(w) => IInv'
           /\ RetryFailedSaga(w) => IInv'
           /\ HandlePaymentFailure(w) => IInv'
<1> USE SagaAssumption
<1>1. ASSUME StartOrderPaymentSaga(w) PROVE IInv'
  <2>1. PICK W : W = [pc |-> "save", i |-> 1, saga |-> Fresh]
                 /\ worker' = [worker EXCEPT ![w] = W]
      BY <1>1 DEF StartOrderPaymentSaga, Goto
  <2>2. W \in Worker BY <2>1, FreshIsSaga DEF Worker
  <2>3. OnItsWay(W) BY <2>1 DEF OnItsWay, Steps, Fresh
  <2>4. saved' = Fresh /\ effect' = effect BY <1>1 DEF StartOrderPaymentSaga
  <2>5. effect' \in Effects /\ Grown BY <2>4 DEF IInv, SagaTypeOK, Effects, Grown
  <2> QED BY <2>1, <2>2, <2>3, <2>4, <2>5, FreshIsSaga, WorkerStep
<1>2. ASSUME RetryFailedSaga(w) PROVE IInv'
  <2>1. PICK W : W = [pc |-> "reset", i |-> 1, saga |-> Fresh]
                 /\ worker' = [worker EXCEPT ![w] = W]
      BY <1>2 DEF RetryFailedSaga, Goto
  <2>2. W \in Worker BY <2>1, FreshIsSaga DEF Worker
  <2>3. OnItsWay(W) BY <2>1 DEF OnItsWay, Steps
  <2>4. saved' = saved /\ effect' = effect BY <1>2 DEF RetryFailedSaga
  <2>5. effect' \in Effects /\ Grown /\ saved' \in Saga \cup {NoSaga}
      BY <2>4 DEF IInv, SagaTypeOK, Effects, Grown
  <2> QED BY <2>1, <2>2, <2>3, <2>4, <2>5, FreshIsSaga, WorkerStep
<1>3. ASSUME HandlePaymentFailure(w) PROVE IInv'
  <2>1. PICK W : W = [pc |-> "failed", i |-> saved.currentStep,
                      saga |-> [saved EXCEPT !.state = "payment_failed"]]
                 /\ worker' = [worker EXCEPT ![w] = W]
      BY <1>3 DEF HandlePaymentFailure, Goto
  <2>2. saved \in Saga /\ Honest(saved, effect)
      BY <1>3 DEF HandlePaymentFailure, IInv, SagaTypeOK, HonestCopies
  <2>3. W.saga \in Saga /\ W.saga.state = "payment_failed"
        /\ W.saga.completed = saved.completed /\ W.i \in Steps /\ W.pc = "failed"
      BY <2>1, <2>2 DEF Saga, States
  <2>4. W \in Worker /\ OnItsWay(W) BY <2>1, <2>3 DEF Worker, OnItsWay, Steps
  <2>5. saved' = saved /\ effect' = effect BY <1>3 DEF HandlePaymentFailure
  <2>6. effect' \in Effects /\ Grown /\ saved' \in Saga \cup {NoSaga}
      BY <2>5 DEF IInv, SagaTypeOK, Effects, Grown
  <2>7. Honest(W.saga, effect') BY <2>2, <2>3, <2>5 DEF Honest
  <2> QED BY <2>1, <2>4, <2>5, <2>6, <2>7, WorkerStep
<1> QED BY <1>1, <1>2, <1>3

\* What a worker that holds the saga holds.
LEMMA Holding ==
    ASSUME IInv, NEW w \in Workers, worker[w] # SagaIdle
    PROVE  /\ worker[w] \in Worker /\ worker[w].saga \in Saga /\ worker[w].i \in 0..N
           /\ Honest(worker[w].saga, effect) /\ OnItsWay(worker[w])
           /\ effect \in Effects /\ saved \in Saga \cup {NoSaga}
BY DEF IInv, SagaTypeOK, HonestCopies, Worker, Effects

LEMMA SaveSteps ==
    ASSUME IInv, NEW w \in Workers
    PROVE  /\ SaveReset(w) => IInv'
           /\ SaveStep(w) => IInv'
           /\ SaveFailed(w) => IInv'
           /\ SaveFinal(w) => IInv'
<1> USE SagaAssumption
<1> DEFINE W == worker[w]
<1>1. ASSUME SaveReset(w) PROVE IInv'
  <2>1. W # SagaIdle /\ W.pc = "reset" BY <1>1 DEF SaveReset, SagaIdle
  <2>2. PICK V : V = [pc |-> "save", i |-> 1, saga |-> W.saga]
                 /\ worker' = [worker EXCEPT ![w] = V]
      BY <1>1 DEF SaveReset, Goto
  <2>3. saved' = W.saga /\ effect' = effect BY <1>1 DEF SaveReset
  <2>4. effect' \in Effects /\ Grown BY <2>1, <2>3, Holding DEF Grown
  <2>5. V \in Worker /\ OnItsWay(V) /\ Honest(V.saga, effect') /\ V.saga = W.saga
      BY <2>1, <2>2, <2>3, Holding DEF Worker, OnItsWay, Steps
  <2>6. W.saga \in Saga BY <2>1, Holding
  <2> QED BY <2>2, <2>3, <2>4, <2>5, <2>6, WorkerStep
<1>2. ASSUME SaveStep(w) PROVE IInv'
  <2>1. W # SagaIdle /\ W.pc = "save" BY <1>2 DEF SaveStep, SagaIdle
  <2>2. PICK saga : saga = [W.saga EXCEPT !.currentStep = W.i, !.state = "order_created"]
                    /\ saved' = saga /\ effect' = effect
                    /\ worker' = [worker EXCEPT ![w] = [pc |-> "execute", i |-> W.i,
                                                        saga |-> saga]]
      BY <1>2 DEF SaveStep, Goto
  <2>3. PICK V : V = [pc |-> "execute", i |-> W.i, saga |-> saga]
                 /\ worker' = [worker EXCEPT ![w] = V]
      BY <2>2
  <2>4. effect' \in Effects /\ Grown BY <2>1, <2>2, Holding DEF Grown
  <2>5. W.i \in Steps /\ W.saga \in Saga /\ Honest(W.saga, effect) /\ OnItsWay(W)
      BY <2>1, Holding DEF OnItsWay
  <2>6. saga \in Saga /\ saga.completed = W.saga.completed /\ saga.state = "order_created"
      BY <2>2, <2>5 DEF Saga, States
  <2>7. Honest(saga, effect') BY <2>2, <2>5, <2>6 DEF Honest
  <2>8. V \in Worker /\ OnItsWay(V) /\ V.saga = saga
      BY <2>1, <2>3, <2>5, <2>6 DEF Worker, OnItsWay, Steps
  <2> QED BY <2>2, <2>3, <2>4, <2>6, <2>7, <2>8, WorkerStep
<1>3. ASSUME SaveFailed(w) PROVE IInv'
  <2>1. W # SagaIdle /\ W.pc = "failed" BY <1>3 DEF SaveFailed, SagaIdle
  <2>2. PICK V : V = [pc |-> "compensate", i |-> W.i - 1, saga |-> W.saga]
                 /\ worker' = [worker EXCEPT ![w] = V]
      BY <1>3 DEF SaveFailed, Goto
  <2>3. saved' = W.saga /\ effect' = effect BY <1>3 DEF SaveFailed
  <2>4. effect' \in Effects /\ Grown BY <2>1, <2>3, Holding DEF Grown
  <2>5. W.i \in Steps BY <2>1, Holding DEF OnItsWay
  <2>6. V \in Worker /\ OnItsWay(V) /\ Honest(V.saga, effect') /\ V.saga = W.saga
      BY <2>1, <2>2, <2>3, <2>5, Holding DEF Worker, OnItsWay, Steps
  <2>7. W.saga \in Saga BY <2>1, Holding
  <2> QED BY <2>2, <2>3, <2>4, <2>6, <2>7, WorkerStep
<1>4. ASSUME SaveFinal(w) PROVE IInv'
  <2>1. W # SagaIdle BY <1>4 DEF SaveFinal, SagaIdle
  <2>2. saved' = W.saga /\ effect' = effect /\ worker' = [worker EXCEPT ![w] = SagaIdle]
      BY <1>4 DEF SaveFinal
  <2>3. effect' \in Effects /\ Grown BY <2>1, <2>2, Holding DEF Grown
  <2> QED BY <2>1, <2>2, <2>3, Holding, WorkerStep
<1> QED BY <1>1, <1>2, <1>3, <1>4

\* A step that takes effect, and whose worker notes it, or fails to.
LEMMA ExecuteSteps ==
    ASSUME IInv, NEW w \in Workers
    PROVE  /\ ExecuteStep(w) => IInv'
           /\ ExecuteRefused(w) => IInv'
           /\ ExecuteAnswerLost(w) => IInv'
<1> USE SagaAssumption
<1> DEFINE W == worker[w]
<1>1. ASSUME W.pc = "execute"
      PROVE  /\ W # SagaIdle /\ W.i \in Steps /\ W.saga \in Saga /\ Honest(W.saga, effect)
             /\ \A j \in Steps : j < W.i => j \in W.saga.completed
             /\ effect \in Effects
  <2>1. W # SagaIdle BY <1>1 DEF SagaIdle
  <2> QED BY <1>1, <2>1, Holding DEF OnItsWay
<1>2. ASSUME W.pc = "execute", effect' = [effect EXCEPT ![W.i] = "done"]
      PROVE  effect' \in Effects /\ Grown /\ effect'[W.i] # "none"
    BY <1>1, <1>2 DEF Effects, Grown
<1>3. ASSUME W.pc = "execute", Failed(w), effect' \in Effects, Grown, UNCHANGED saved
      PROVE  IInv'
  <2>1. PICK V : V = [pc |-> "failed", i |-> W.i,
                      saga |-> [W.saga EXCEPT !.state = "compensating"]]
                 /\ worker' = [worker EXCEPT ![w] = V]
      BY <1>3 DEF Failed, Goto
  <2>2. V.saga \in Saga /\ V.saga.completed = W.saga.completed
        /\ V.saga.state = "compensating"
      BY <1>1, <1>3, <2>1 DEF Saga, States
  <2>3. V \in Worker /\ OnItsWay(V) BY <1>1, <1>3, <2>1, <2>2 DEF Worker, OnItsWay, Steps
  <2>4. Honest(V.saga, effect') BY <1>1, <1>3, <2>2 DEF Honest, Grown, Saga
  <2>5. saved' \in Saga \cup {NoSaga} BY <1>3 DEF IInv, SagaTypeOK
  <2> QED BY <1>3, <2>1, <2>3, <2>4, <2>5, WorkerStep
<1>4. ASSUME ExecuteStep(w) PROVE IInv'
  <2>1. W.pc = "execute" /\ effect' = [effect EXCEPT ![W.i] = "done"] /\ saved' = saved
      BY <1>4 DEF ExecuteStep
  <2>2. effect' \in Effects /\ Grown /\ effect'[W.i] # "none" BY <2>1, <1>2
  <2>3. saved' \in Saga \cup {NoSaga} BY <2>1 DEF IInv, SagaTypeOK
  <2>4. PICK saga : saga = [W.saga EXCEPT !.completed = W.saga.completed \cup {W.i}] OBVIOUS
  <2>5. saga \in Saga /\ saga.completed = W.saga.completed \cup {W.i}
        /\ saga.state = W.saga.state
      BY <1>1, <2>1, <2>4 DEF Saga
  <2>6. Honest(saga, effect') BY <1>1, <2>1, <2>2, <2>5 DEF Honest, Grown, Saga
  <2>7. CASE W.i < N
    <3>1. PICK V : V = [pc |-> "save", i |-> W.i + 1, saga |-> saga]
                   /\ worker' = [worker EXCEPT ![w] = V]
        BY <1>4, <2>4, <2>7 DEF ExecuteStep, Executed, Goto
    <3>2. V \in Worker /\ OnItsWay(V) /\ V.saga = saga
        BY <1>1, <2>1, <2>5, <2>7, <3>1 DEF Worker, OnItsWay, Steps
    <3> QED BY <2>1, <2>2, <2>3, <2>6, <3>1, <3>2, WorkerStep
  <2>8. CASE ~(W.i < N)
    <3>1. PICK V : V = [pc |-> "finish", i |-> 0, saga |-> [saga EXCEPT !.state = "completed"]]
                   /\ worker' = [worker EXCEPT ![w] = V]
        BY <1>4, <2>4, <2>8 DEF ExecuteStep, Executed, Goto
    <3>2. V.saga \in Saga /\ V.saga.completed = saga.completed
        BY <2>5, <3>1 DEF Saga, States
    <3>3. V \in Worker /\ OnItsWay(V) BY <3>1, <3>2 DEF Worker, OnItsWay, Steps
    <3>4. saga.completed = Steps
        BY <1>1, <2>1, <2>5, <2>8 DEF Steps, Saga
    <3>5. Honest(V.saga, effect') BY <2>6, <3>2, <3>4 DEF Honest
    <3> QED BY <2>1, <2>2, <2>3, <3>1, <3>3, <3>5, WorkerStep
  <2> QED BY <2>7, <2>8
<1>5. ASSUME ExecuteRefused(w) PROVE IInv'
  <2>1. W.pc = "execute" /\ Failed(w) /\ UNCHANGED <<saved, effect>>
      BY <1>5 DEF ExecuteRefused
  <2>2. effect' \in Effects /\ Grown BY <2>1, <1>1 DEF Grown
  <2> QED BY <2>1, <2>2, <1>3
<1>6. ASSUME ExecuteAnswerLost(w) PROVE IInv'
    BY <1>6, <1>2, <1>3 DEF ExecuteAnswerLost
<1> QED BY <1>4, <1>5, <1>6

\* A compensation undoes only what the copy lists, which took effect.
LEMMA CompensateSteps ==
    ASSUME IInv, NEW w \in Workers
    PROVE  /\ CompensateStep(w) => IInv'
           /\ CompensateError(w) => IInv'
<1> USE SagaAssumption
<1> DEFINE W == worker[w]
<1>1. ASSUME W.pc = "compensate"
      PROVE  /\ W # SagaIdle /\ W.i \in 0..N /\ W.saga \in Saga /\ Honest(W.saga, effect)
             /\ effect \in Effects
  <2>1. W # SagaIdle BY <1>1 DEF SagaIdle
  <2> QED BY <2>1, Holding
<1>2. ASSUME W.pc = "compensate", Below(w), effect' \in Effects, Grown, UNCHANGED saved
      PROVE  IInv'
  <2>1. PICK V : /\ worker' = [worker EXCEPT ![w] = V]
                 /\ V = IF W.i > 1
                        THEN [pc |-> "compensate", i |-> W.i - 1, saga |-> W.saga]
                        ELSE [pc |-> "finish", i |-> 0,
                              saga |-> [W.saga EXCEPT !.state = "compensated"]]
      BY <1>2 DEF Below, Goto
  <2>2. V.saga \in Saga /\ V.saga.completed = W.saga.completed
        /\ (V.saga.state = "completed" => W.saga.state = "completed")
      BY <1>1, <1>2, <2>1 DEF Saga, States
  <2>3. V \in Worker /\ OnItsWay(V) BY <1>1, <1>2, <2>1, <2>2 DEF Worker, OnItsWay
  <2>4. Honest(V.saga, effect') BY <1>1, <1>2, <2>2 DEF Honest, Grown, Saga
  <2>5. saved' \in Saga \cup {NoSaga} BY <1>2 DEF IInv, SagaTypeOK
  <2> QED BY <1>2, <2>1, <2>3, <2>4, <2>5, WorkerStep
<1>3. ASSUME CompensateStep(w) PROVE IInv'
  <2>1. effect' \in Effects /\ Grown
      BY <1>1, <1>3 DEF CompensateStep, Effects, Grown, Steps
  <2> QED BY <1>2, <1>3, <2>1 DEF CompensateStep
<1>4. ASSUME CompensateError(w) PROVE IInv'
  <2>1. effect' \in Effects /\ Grown
      BY <1>1, <1>4 DEF CompensateError, Grown
  <2> QED BY <1>2, <1>4, <2>1 DEF CompensateError
<1> QED BY <1>3, <1>4

LEMMA NextIInv == IInv /\ [SagaNext]_sagaVars => IInv'
<1> SUFFICES ASSUME IInv, [SagaNext]_sagaVars PROVE IInv'
    OBVIOUS
<1>1. ASSUME NEW w \in Workers, Request(w) \/ HandlePaymentFailure(w) PROVE IInv'
    BY <1>1, RequestStep DEF Request
<1>2. ASSUME NEW w \in Workers, SagaWork(w) PROVE IInv'
    BY <1>2, SaveSteps, ExecuteSteps, CompensateSteps DEF SagaWork
<1>3. ASSUME NEW w \in Workers, ExecuteAnswerLost(w) \/ CompensateError(w) PROVE IInv'
    BY <1>3, ExecuteSteps, CompensateSteps
<1>4. ASSUME NEW w \in Workers, SaveSagaError(w) PROVE IInv'
  <2>1. worker' = [worker EXCEPT ![w] = SagaIdle] /\ UNCHANGED <<saved, effect>>
      BY <1>4 DEF SaveSagaError
  <2>2. Grown /\ effect' \in Effects /\ saved' \in Saga \cup {NoSaga}
      BY <2>1 DEF Grown, IInv, SagaTypeOK, Effects
  <2> QED BY <2>1, <2>2, WorkerStep
<1>5. CASE SagaCrash
    BY <1>5 DEF SagaCrash, IInv, SagaTypeOK, HonestCopies
<1>6. CASE UNCHANGED sagaVars
    BY <1>6 DEF sagaVars, IInv, SagaTypeOK, HonestCopies
<1> QED BY <1>1, <1>2, <1>3, <1>4, <1>5, <1>6 DEF SagaNext, SagaCalmNext, SagaFault

THEOREM Invariance == SagaSpec => []IInv
BY InitIInv, NextIInv, PTL DEF SagaSpec

-----------------------------------------------------------------------------

\* Every variable keeps its type, with any number of steps and workers.
THEOREM TypeCorrect == SagaSpec => []SagaTypeOK
<1>1. IInv => SagaTypeOK BY DEF IInv
<1> QED BY <1>1, Invariance, PTL

\* A saga that is saved as completed has carried out each step, though
\* workers overwrite each other's copies.
THEOREM CompletedIsHonest == SagaSpec => []CompletedWasCarriedOut
<1>1. IInv => CompletedWasCarriedOut
    BY DEF IInv, HonestCopies, Honest, CompletedWasCarriedOut
<1> QED BY <1>1, Invariance, PTL

\* compensateSaga undoes no step that was never carried out, whichever copy
\* of the saga it works from.
THEOREM NothingUndoneIsUndone == SagaSpec => NothingUndoneUndone
<1> DEFINE A == \A i \in Steps : effect[i] = "none" => effect'[i] # "undone"
<1>1. IInv /\ [SagaNext]_sagaVars => [A]_sagaVars
  <2> SUFFICES ASSUME IInv, SagaNext PROVE A
      OBVIOUS
  <2>1. ASSUME UNCHANGED effect PROVE A BY <2>1
  <2>2. ASSUME NEW w \in Workers, effect' = [effect EXCEPT ![worker[w].i] = "done"]
        PROVE  A
      BY <2>2 DEF IInv, SagaTypeOK
  <2>3. ASSUME NEW w \in Workers, CompensateStep(w) PROVE A
    <3>1. worker[w] # SagaIdle BY <2>3 DEF CompensateStep, SagaIdle
    <3>2. Honest(worker[w].saga, effect) BY <3>1, Holding
    <3> QED BY <2>3, <3>2 DEF CompensateStep, Honest
  <2>4. ASSUME NEW w \in Workers, Request(w) \/ HandlePaymentFailure(w) \/ SagaWork(w)
        PROVE  A
      BY <2>1, <2>2, <2>3, <2>4
         DEF Request, StartOrderPaymentSaga, RetryFailedSaga, HandlePaymentFailure, SagaWork,
             SaveReset, SaveStep, ExecuteStep, ExecuteRefused, SaveFailed, SaveFinal
  <2>5. SagaFault => A
      BY <2>1, <2>2 DEF SagaFault, ExecuteAnswerLost, CompensateError, SaveSagaError, SagaCrash
  <2> QED BY <2>4, <2>5 DEF SagaNext, SagaCalmNext
<1> QED BY <1>1, Invariance, PTL DEF SagaSpec, NothingUndoneUndone

-----------------------------------------------------------------------------
(* A saga left alone.                                                      *)

Busy == {w \in Workers : worker[w] # SagaIdle}

OneBusy == \A v, w \in Workers : worker[v] # SagaIdle /\ worker[w] # SagaIdle => v = w

\* The steps that stand are those below step k.
StandBelow(k, eff) == \A j \in Steps : eff[j] = "done" <=> j < k

\* They do, and the copy lists them.
KnownBelow(k, saga, eff) ==
    StandBelow(k, eff) /\ \A j \in Steps : j < k => j \in saga.completed

CalmWorker(W, eff) ==
    /\ W.pc = "reset" => W.i = 1
    /\ W.pc \in {"reset", "save", "execute", "failed"} => KnownBelow(W.i, W.saga, eff)
    /\ W.pc = "compensate" => KnownBelow(W.i + 1, W.saga, eff)
    /\ W.pc = "finish" =>
         \/ W.saga.state = "completed" /\ StandBelow(N + 1, eff)
         \/ W.saga.state = "compensated" /\ StandBelow(1, eff)

\* How a saga may rest.
Rests(sv, eff) ==
    IF sv # NoSaga /\ sv.state = "completed" THEN StandBelow(N + 1, eff)
    ELSE /\ sv # NoSaga => sv.state = "compensated"
         /\ StandBelow(1, eff)

Settled ==
    /\ \A w \in Workers :
         worker[w] # SagaIdle => saved # NoSaga /\ CalmWorker(worker[w], effect)
    /\ (\A w \in Workers : worker[w] = SagaIdle) => Rests(saved, effect)

\* Only finitely many workers are ever busy, so that they can be counted.
CalmIInv == IInv /\ IsFiniteSet(Busy) /\ (sagaCalm => OneBusy /\ Settled)

LEMMA AtMostOne ==
    ASSUME NEW S, IsFiniteSet(S), Cardinality(S) <= 1, NEW x \in S, NEW y \in S
    PROVE  x = y
<1>1. Cardinality(S) \in Nat BY FS_CardinalityType
<1>2. Cardinality(S) # 0 BY FS_EmptySet
<1>3. Cardinality(S) = 1 BY <1>1, <1>2
<1>4. PICK z : S = {z} BY <1>3, FS_Singleton
<1> QED BY <1>4

LEMMA InitCalm == MCSagaInit => CalmIInv
<1> SUFFICES ASSUME MCSagaInit PROVE CalmIInv
    OBVIOUS
<1>1. IInv BY InitIInv DEF MCSagaInit
<1>2. \A w \in Workers : worker[w] = SagaIdle BY DEF MCSagaInit, SagaInit
<1>3. Busy = {} BY <1>2 DEF Busy
<1>4. StandBelow(1, effect) BY SagaAssumption DEF MCSagaInit, SagaInit, StandBelow, Steps
<1>5. OneBusy /\ Settled BY <1>2, <1>4 DEF OneBusy, Settled, Rests, MCSagaInit, SagaInit
<1> QED BY <1>1, <1>3, <1>5, FS_EmptySet DEF CalmIInv

\* A step makes at most one worker busy.
LEMMA BusyStep ==
    ASSUME IInv, IsFiniteSet(Busy), [SagaNext]_sagaVars
    PROVE  IsFiniteSet(Busy')
<1>1. worker \in [Workers -> {SagaIdle} \cup Worker] BY DEF IInv, SagaTypeOK
<1>2. ASSUME NEW w \in Workers, NEW W, worker' = [worker EXCEPT ![w] = W]
      PROVE  IsFiniteSet(Busy')
  <2>1. Busy' \in SUBSET (Busy \cup {w}) BY <1>1, <1>2 DEF Busy
  <2>2. IsFiniteSet(Busy \cup {w}) BY FS_AddElement
  <2> QED BY <2>1, <2>2, FS_Subset
<1>3. ASSUME UNCHANGED worker PROVE IsFiniteSet(Busy')
  <2>1. Busy' = Busy BY <1>3 DEF Busy
  <2> QED BY <2>1
<1>4. ASSUME SagaCrash PROVE IsFiniteSet(Busy')
  <2>1. Busy' = {} BY <1>4 DEF SagaCrash, Busy
  <2> QED BY <2>1, FS_EmptySet
<1>5. ASSUME NEW w \in Workers,
             \/ Request(w) \/ HandlePaymentFailure(w) \/ SagaWork(w)
             \/ ExecuteAnswerLost(w) \/ CompensateError(w) \/ SaveSagaError(w)
      PROVE  \E W : worker' = [worker EXCEPT ![w] = W]
    BY <1>5 DEF Request, StartOrderPaymentSaga, RetryFailedSaga, HandlePaymentFailure, SagaWork,
                SaveReset, SaveStep, ExecuteStep, Executed, ExecuteRefused, Failed,
                SaveFailed, CompensateStep, Below, SaveFinal, ExecuteAnswerLost,
                CompensateError, SaveSagaError, Goto
<1>6. CASE UNCHANGED sagaVars BY <1>3, <1>6 DEF sagaVars
<1> QED BY <1>2, <1>4, <1>5, <1>6 DEF SagaNext, SagaCalmNext, SagaFault

\* What the monitor's sagaCalm says of a step.
LEMMA CalmNextStep ==
    ASSUME CalmIInv, [MCSagaNext]_mcSagaVars, sagaCalm'
    PROVE  sagaCalm /\ OneBusy' /\ (SagaCalmNext \/ UNCHANGED sagaVars)
<1>1. CASE MCSagaNext
  <2>1. SagaCalmNext /\ sagaCalm /\ Cardinality(Busy') <= 1 BY <1>1 DEF MCSagaNext, Busy
  <2>2. IsFiniteSet(Busy') BY <2>1, BusyStep DEF CalmIInv, SagaNext
  <2>3. OneBusy' BY <2>1, <2>2, AtMostOne DEF OneBusy, Busy
  <2> QED BY <2>1, <2>3
<1>2. CASE UNCHANGED mcSagaVars BY <1>2 DEF mcSagaVars, sagaVars, CalmIInv, OneBusy
<1> QED BY <1>1, <1>2

\* Steps of the one worker on the saga, which holds V after it.
LEMMA SoloStep ==
    ASSUME IInv, Settled, NEW w \in Workers, NEW V, worker' = [worker EXCEPT ![w] = V],
           \A v \in Workers \ {w} : worker[v] = SagaIdle,
           V # SagaIdle => saved' # NoSaga /\ CalmWorker(V, effect'),
           V = SagaIdle => Rests(saved', effect')
    PROVE  Settled'
BY DEF Settled, IInv, SagaTypeOK

LEMMA CalmRequest ==
    ASSUME IInv, OneBusy', Settled, NEW w \in Workers, Request(w)
    PROVE  Settled'
<1> USE SagaAssumption
<1>1. PICK V : /\ worker' = [worker EXCEPT ![w] = V]
               /\ V \in {[pc |-> "save", i |-> 1, saga |-> Fresh],
                         [pc |-> "reset", i |-> 1, saga |-> Fresh]}
    BY DEF Request, StartOrderPaymentSaga, RetryFailedSaga, Goto
<1>2. V # SagaIdle /\ V.i = 1 /\ V.pc \in {"save", "reset"} BY <1>1 DEF SagaIdle
<1>3. \A v \in Workers \ {w} : worker[v] = SagaIdle
  <2>1. worker'[w] = V /\ \A v \in Workers \ {w} : worker'[v] = worker[v]
      BY <1>1 DEF IInv, SagaTypeOK
  <2> QED BY <2>1, <1>2 DEF OneBusy
<1>4. Rests(saved, effect)
    BY <1>3 DEF Settled, Request, StartOrderPaymentSaga, RetryFailedSaga
<1>5. StandBelow(1, effect)
    BY <1>4 DEF Rests, Request, StartOrderPaymentSaga, RetryFailedSaga
<1>6. saved' # NoSaga /\ effect' = effect
    BY FreshIsSaga DEF Request, StartOrderPaymentSaga, RetryFailedSaga
<1>7. CalmWorker(V, effect') BY <1>2, <1>5, <1>6 DEF CalmWorker, KnownBelow, Steps
<1> QED BY <1>1, <1>2, <1>3, <1>6, <1>7, SoloStep

LEMMA CalmWork ==
    ASSUME IInv, OneBusy, Settled, NEW w \in Workers, SagaWork(w)
    PROVE  Settled'
<1> USE SagaAssumption
<1> DEFINE W == worker[w]
<1>1. W # SagaIdle
    BY DEF SagaWork, SaveReset, SaveStep, ExecuteStep, ExecuteRefused, SaveFailed,
           CompensateStep, SaveFinal, SagaIdle
<1>2. /\ W \in Worker /\ W.saga \in Saga /\ W.i \in 0..N /\ OnItsWay(W)
      /\ effect \in Effects /\ saved # NoSaga /\ CalmWorker(W, effect)
    BY <1>1, Holding DEF Settled
<1>3. \A v \in Workers \ {w} : worker[v] = SagaIdle BY <1>1 DEF OneBusy
<1>4. N \in Nat /\ W.i \in Int BY <1>2
<1>5. \A saga \in Saga : saga # NoSaga OBVIOUS
<1>6. ASSUME NEW V, V # SagaIdle, worker' = [worker EXCEPT ![w] = V],
             saved' \in Saga \cup {saved}, CalmWorker(V, effect')
      PROVE  Settled'
    BY <1>2, <1>3, <1>5, <1>6, SoloStep
<1>7. ASSUME SaveReset(w) PROVE Settled'
  <2>1. PICK V : V = [pc |-> "save", i |-> 1, saga |-> W.saga]
                 /\ worker' = [worker EXCEPT ![w] = V]
      BY <1>7 DEF SaveReset, Goto
  <2>2. saved' = W.saga /\ effect' = effect /\ W.pc = "reset" BY <1>7 DEF SaveReset
  <2>3. CalmWorker(V, effect') /\ V # SagaIdle
      BY <2>1, <2>2, <1>2 DEF CalmWorker, KnownBelow, SagaIdle
  <2> QED BY <2>1, <2>2, <2>3, <1>2, <1>6
<1>8. ASSUME SaveStep(w) PROVE Settled'
  <2>1. PICK saga : saga = [W.saga EXCEPT !.currentStep = W.i, !.state = "order_created"]
                    /\ saved' = saga /\ effect' = effect /\ W.pc = "save"
                    /\ worker' = [worker EXCEPT ![w] = [pc |-> "execute", i |-> W.i,
                                                        saga |-> saga]]
      BY <1>8 DEF SaveStep, Goto
  <2>2. W.i \in Steps BY <1>2, <2>1 DEF OnItsWay
  <2>3. saga \in Saga /\ saga.completed = W.saga.completed
      BY <2>1, <2>2, <1>2 DEF Saga, States
  <2>4. PICK V : V = [pc |-> "execute", i |-> W.i, saga |-> saga]
                 /\ worker' = [worker EXCEPT ![w] = V]
      BY <2>1
  <2>5. CalmWorker(V, effect') /\ V # SagaIdle
      BY <2>1, <2>3, <2>4, <1>2 DEF CalmWorker, KnownBelow, SagaIdle
  <2> QED BY <2>1, <2>3, <2>4, <2>5, <1>6
<1>9. ASSUME ExecuteStep(w) PROVE Settled'
  <2>1. W.pc = "execute" /\ effect' = [effect EXCEPT ![W.i] = "done"] /\ saved' = saved
      BY <1>9 DEF ExecuteStep
  <2>2. W.i \in Steps BY <1>2, <2>1 DEF OnItsWay
  <2>3. PICK saga : saga = [W.saga EXCEPT !.completed = W.saga.completed \cup {W.i}] OBVIOUS
  <2>4. saga.completed = W.saga.completed \cup {W.i} BY <2>3, <1>2 DEF Saga
  <2>5. KnownBelow(W.i, W.saga, effect) BY <2>1, <1>2 DEF CalmWorker
  <2>6. StandBelow(W.i + 1, effect')
    <3> SUFFICES ASSUME NEW j \in Steps PROVE effect'[j] = "done" <=> j < W.i + 1
        BY DEF StandBelow
    <3>1. effect[j] = "done" <=> j < W.i BY <2>5 DEF KnownBelow, StandBelow
    <3>2. effect'[j] = IF j = W.i THEN "done" ELSE effect[j] BY <2>1, <1>2 DEF Effects
    <3> QED BY <3>1, <3>2, <1>4 DEF Steps
  <2>7. KnownBelow(W.i + 1, saga, effect')
      BY <2>4, <2>5, <2>6, <1>4 DEF KnownBelow, Steps
  <2>8. CASE W.i < N
    <3>1. PICK V : V = [pc |-> "save", i |-> W.i + 1, saga |-> saga]
                   /\ worker' = [worker EXCEPT ![w] = V]
        BY <1>9, <2>3, <2>8 DEF ExecuteStep, Executed, Goto
    <3>2. CalmWorker(V, effect') /\ V # SagaIdle BY <3>1, <2>7 DEF CalmWorker, SagaIdle
    <3> QED BY <3>1, <3>2, <2>1, <1>6
  <2>9. CASE ~(W.i < N)
    <3>1. PICK V : V = [pc |-> "finish", i |-> 0, saga |-> [saga EXCEPT !.state = "completed"]]
                   /\ worker' = [worker EXCEPT ![w] = V]
        BY <1>9, <2>3, <2>9 DEF ExecuteStep, Executed, Goto
    <3>2. V.saga.state = "completed" BY <3>1, <2>3, <1>2 DEF Saga
    <3>3. W.i = N BY <2>2, <2>9 DEF Steps
    <3>4. CalmWorker(V, effect') /\ V # SagaIdle BY <3>1, <3>2, <3>3, <2>6 DEF CalmWorker, SagaIdle
    <3> QED BY <3>1, <3>4, <2>1, <1>6
  <2> QED BY <2>8, <2>9
<1>10. ASSUME ExecuteRefused(w) PROVE Settled'
  <2>1. W.pc = "execute" /\ UNCHANGED <<saved, effect>> BY <1>10 DEF ExecuteRefused
  <2>2. PICK V : V = [pc |-> "failed", i |-> W.i,
                      saga |-> [W.saga EXCEPT !.state = "compensating"]]
                 /\ worker' = [worker EXCEPT ![w] = V]
      BY <1>10 DEF ExecuteRefused, Failed, Goto
  <2>3. V.saga.completed = W.saga.completed BY <2>2, <1>2 DEF Saga
  <2>4. CalmWorker(V, effect') /\ V # SagaIdle
      BY <2>1, <2>2, <2>3, <1>2 DEF CalmWorker, KnownBelow, SagaIdle
  <2> QED BY <2>1, <2>2, <2>4, <1>6
<1>11. ASSUME SaveFailed(w) PROVE Settled'
  <2>1. W.pc = "failed" /\ saved' = W.saga /\ effect' = effect BY <1>11 DEF SaveFailed
  <2>2. PICK V : V = [pc |-> "compensate", i |-> W.i - 1, saga |-> W.saga]
                 /\ worker' = [worker EXCEPT ![w] = V]
      BY <1>11 DEF SaveFailed, Goto
  <2>3. V.i + 1 = W.i BY <2>2, <1>4
  <2>4. CalmWorker(V, effect') /\ V # SagaIdle
      BY <2>1, <2>2, <2>3, <1>2 DEF CalmWorker, SagaIdle
  <2> QED BY <2>1, <2>2, <2>4, <1>2, <1>6
<1>12. ASSUME CompensateStep(w) PROVE Settled'
  <2>1. /\ W.pc = "compensate" /\ saved' = saved
        /\ effect' = [i \in Steps |-> IF i = W.i /\ i \in W.saga.completed
                                      THEN "undone" ELSE effect[i]]
      BY <1>12 DEF CompensateStep
  <2>2. KnownBelow(W.i + 1, W.saga, effect) BY <2>1, <1>2 DEF CalmWorker
  <2>3. KnownBelow(W.i, W.saga, effect')
    <3> SUFFICES ASSUME NEW j \in Steps
                 PROVE  /\ effect'[j] = "done" <=> j < W.i
                        /\ j < W.i => j \in W.saga.completed
        BY DEF KnownBelow, StandBelow
    <3>1. /\ effect[j] = "done" <=> j < W.i + 1
          /\ j < W.i + 1 => j \in W.saga.completed
        BY <2>2 DEF KnownBelow, StandBelow
    <3>2. effect'[j] = IF j = W.i /\ j \in W.saga.completed THEN "undone" ELSE effect[j]
        BY <2>1
    <3> QED BY <3>1, <3>2, <1>4 DEF Steps
  <2>4. CASE W.i > 1
    <3>1. PICK V : V = [pc |-> "compensate", i |-> W.i - 1, saga |-> W.saga]
                   /\ worker' = [worker EXCEPT ![w] = V]
        BY <1>12, <2>4 DEF CompensateStep, Below, Goto
    <3>2. V.i + 1 = W.i BY <3>1, <1>4
    <3>3. CalmWorker(V, effect') /\ V # SagaIdle BY <3>1, <3>2, <2>3 DEF CalmWorker, SagaIdle
    <3> QED BY <3>1, <3>3, <2>1, <1>6
  <2>5. CASE ~(W.i > 1)
    <3>1. PICK V : V = [pc |-> "finish", i |-> 0,
                        saga |-> [W.saga EXCEPT !.state = "compensated"]]
                   /\ worker' = [worker EXCEPT ![w] = V]
        BY <1>12, <2>5 DEF CompensateStep, Below, Goto
    <3>2. V.saga.state = "compensated" BY <3>1, <1>2 DEF Saga
    <3>3. StandBelow(1, effect')
        BY <2>3, <2>5, <1>2 DEF KnownBelow, StandBelow, Steps
    <3>4. CalmWorker(V, effect') /\ V # SagaIdle BY <3>1, <3>2, <3>3 DEF CalmWorker, SagaIdle
    <3> QED BY <3>1, <3>4, <2>1, <1>6
  <2> QED BY <2>4, <2>5
<1>13. ASSUME SaveFinal(w) PROVE Settled'
  <2>1. /\ W.pc = "finish" /\ saved' = W.saga /\ effect' = effect
        /\ worker' = [worker EXCEPT ![w] = SagaIdle]
      BY <1>13 DEF SaveFinal
  <2>2. Rests(saved', effect') BY <2>1, <1>2, <1>5 DEF CalmWorker, Rests
  <2> QED BY <2>1, <2>2, <1>3, SoloStep
<1> QED BY <1>7, <1>8, <1>9, <1>10, <1>11, <1>12, <1>13 DEF SagaWork

LEMMA CalmStep == CalmIInv /\ [MCSagaNext]_mcSagaVars => CalmIInv'
<1> SUFFICES ASSUME CalmIInv, [MCSagaNext]_mcSagaVars PROVE CalmIInv'
    OBVIOUS
<1>1. [SagaNext]_sagaVars BY DEF MCSagaNext, SagaNext, mcSagaVars
<1>2. IInv' /\ IsFiniteSet(Busy') BY <1>1, NextIInv, BusyStep DEF CalmIInv
<1>3. ASSUME sagaCalm' PROVE OneBusy' /\ Settled'
  <2>1. OneBusy /\ Settled /\ OneBusy' /\ (SagaCalmNext \/ UNCHANGED sagaVars)
      BY <1>3, CalmNextStep DEF CalmIInv
  <2>2. CASE SagaCalmNext BY <2>1, <2>2, CalmRequest, CalmWork DEF SagaCalmNext, CalmIInv
  <2>3. CASE UNCHANGED sagaVars BY <2>1, <2>3 DEF sagaVars, Settled
  <2> QED BY <2>1, <2>2, <2>3
<1> QED BY <1>2, <1>3 DEF CalmIInv

\* A saga left alone, or retried by one caller at a time, takes effect as a
\* whole or not at all, undoes later steps first, and repeats none, for any
\* number of steps and whichever of them is refused.
THEOREM CleanWhenCalm == MCSagaSpec => []CalmSagaIsClean
<1>1. CalmIInv => CalmSagaIsClean
  <2> SUFFICES ASSUME CalmIInv, sagaCalm PROVE AllOrNothing /\ UndoneInReverse /\ NoStepRepeated
      BY DEF CalmSagaIsClean
  <2> USE SagaAssumption DEF CalmIInv
  <2>1. AllOrNothing
    <3> SUFFICES ASSUME Resting
                 PROVE  \/ saved.state = "completed" /\ \A i \in Steps : effect[i] = "done"
                        \/ saved.state = "compensated" /\ \A i \in Steps : effect[i] # "done"
        BY DEF AllOrNothing
    <3> QED BY DEF Resting, Settled, Rests, StandBelow, Steps
  <2>2. \E k \in Int : StandBelow(k, effect)
    <3>1. CASE \A w \in Workers : worker[w] = SagaIdle BY <3>1 DEF Settled, Rests
    <3>2. ASSUME NEW w \in Workers, worker[w] # SagaIdle
          PROVE  \E k \in Int : StandBelow(k, effect)
      <4>1. CalmWorker(worker[w], effect) BY <3>2 DEF Settled
      <4>2. worker[w] \in Worker /\ worker[w].i \in 0..N BY <3>2, Holding
      <4>3. worker[w].pc \in {"reset", "save", "execute", "failed", "compensate", "finish"}
          BY <4>2 DEF Worker
      <4> QED BY <4>1, <4>2, <4>3 DEF CalmWorker, KnownBelow
    <3> QED BY <3>1, <3>2
  <2>3. UndoneInReverse BY <2>2 DEF UndoneInReverse, StandBelow, Steps
  <2>4. NoStepRepeated
    <3> SUFFICES ASSUME NEW w \in Workers, worker[w].pc = "execute"
                 PROVE  effect[worker[w].i] # "done"
        BY DEF NoStepRepeated
    <3>1. worker[w] # SagaIdle BY DEF SagaIdle
    <3>2. worker[w].i \in Steps BY <3>1, Holding DEF OnItsWay
    <3>3. StandBelow(worker[w].i, effect) BY <3>1 DEF Settled, CalmWorker, KnownBelow
    <3> QED BY <3>2, <3>3 DEF StandBelow, Steps
  <2> QED BY <2>1, <2>3, <2>4
<1> QED BY <1>1, InitCalm, CalmStep, PTL DEF MCSagaSpec
=============================================================================
