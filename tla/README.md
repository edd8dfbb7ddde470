# Verification of the CraveX backend

TLA+ models of the Go backend of CraveX (`backend/`), their TLC runs, and
theorems about them that TLAPS checks. `PROJECT.json` maps every definition to
the source lines it stands for and lists the runs, mutants, findings, hazards
and theorems.

    tlc -workers 2 -config order_races.cfg MCOrderService.tla
    tlapm OrderServiceProofs.tla

## 1. Inventory of the system

CraveX is a food-delivery platform: four Flutter apps, and a Go backend of gin
services over Postgres (gorm), Redis and Kafka. The repository holds three
generations of backend code: the services under `backend/cmd`, which are what
runs; libraries under `backend/pkg`, written against interfaces and mostly wired
to nothing but their tests; and the first services (`backend/order-service` etc.).

All handlers run concurrently, one goroutine per request. **No service opens a
transaction or takes a row lock**: every gorm call is a statement of its own, so
every "load, decide, write" in the code is a place where another handler, a
background goroutine or a crash can come between. That is the system's main
difficulty and the main subject of the models.

| component | state | operations | hard behaviour | correct when | section |
|---|---|---|---|---|---|
| Order service `cmd/order-service` | orders, items, status history (unique `event_id`), Kafka `order-events`, sleeping cascade goroutines | create, update status, cancel, assign rider; 15 s rejection cascade; 60 s ETA recalculator | load-then-write races, stale full-row saves, timeouts lost on restart, duplicate events, dropped publish errors | statuses follow the lifecycle, history precedes topic, silent riders are replaced, events apply once | 3 |
| Payment service `cmd/payment-service` | payments | create, process (also from Stripe's webhook), refund | check-then-create, webhook redelivery, stale saves | one payment per order, no refund lost or uncovered, paid stays paid | 4 |
| WebSocket hub `pkg/websocket` | clients, subscriptions, channels | register, unregister, targeted sends, pumps | lock held while blocking on a channel that the holder of the other lock drains | the hub never stops, closed channels are never written | 5 |
| Saga `pkg/saga` | saga rows and steps | execute, compensate, payment failure, retry | compensation while steps run, crash between steps | an order ends paid and confirmed or fully undone | 6 |
| Outbox `pkg/outbox` | outbox rows, retry counts | save alone or in a transaction, process, retry, fail | crash between publish and mark, several processors | every saved message is published, none given up early | 7 |
| Order state machine `pkg/order/order_state_machine.go` | append-only log of events | transition, cancel, restaurant offline, rider cancels | read the log, then append | the log is one legal path, no event twice | 8 |
| Idempotent payment `pkg/payment/idempotency_payment.go` | idempotency keys, attempts | process with key, retry, clean-up | two requests with one key, failure after charge | one charge per key | 8 |
| Event sourcing `pkg/event_sourcing`, CQRS `pkg/cqrs` | event log, snapshots; write model, read model, cache | append, snapshot, replay; command, project, query | version race, snapshot skips events, projections out of order | replay equals state, read model catches up | 8 |
| Wallets `cmd/payment-service` | balances, wallet transactions | get, add and withdraw funds | balance read-modify-write, ledger row after balance | balance equals ledger | 9 |
| Rider service `cmd/rider-service` | riders, earnings | register, update, switches, earnings; location stream, nearby search | full-row save against column updates, totals read-modify-write | totals equal the earnings rows, search is sorted by score | 9, 10 |
| Auth service `cmd/auth-service` | users, refresh tokens | register, login, refresh, change password, delete account | check-then-create, rotation race, delete error ignored | one account per number; a refresh token is used once | 9 |
| Restaurant service `cmd/restaurant-service` | restaurants, menu categories and items, Redis lists | edits, menu and nearby search through the cache | a list read before an edit and stored after it; edits that delete no key | a menu read after an edit shows it, a stale list goes away | 9 |
| Notification service `cmd/notification-service` | notifications, preferences | send, bulk send, mark read, preferences | bulk send that stops half way, create-if-absent race | nobody on the list is passed over, preferences are kept | 9 |
| Auth library `pkg/auth` | tokens, OTP counters in Redis | token pair, refresh, revoke; OTP limits and cooldown | counter without expiry, refresh reuse | limits hold, locks end, a login has one token | 10 |
| Rate limiters `pkg/middleware`, `pkg/cache` | windows and buckets in Redis | allow | get-then-set counters; a window that counts seconds | limits hold, nobody is refused for less, counts end | 10 |
| Rider library `pkg/rider` | hexagons, incentives, deviation alerts | assign in waves, complete, deviate | riders move while searched, bonus paid twice | the best rider is chosen, a bonus is earned | 10 |
| Notification orchestration `pkg/notification` | preferences, counters | send over channels | limiter map without a lock, check then count | disabled channels are spared | 10 |
| Messaging `pkg/messaging`, `pkg/database/migration.go` | offsets, channel; migration versions | produce, consume; up, down | rebalance with a full channel, crash between two migrations | no message is passed over; history equals schema | 10 |
| Fraud and review libraries `pkg/fraud`, `pkg/review` | reviews, counters | check, score | lookups that fail, check-then-create | one review per order, no verdict without its factors | 10 |
| Pricing `pkg/cart`, `pkg/menu`; ETA `pkg/eta` | none; last time shown | totals, checkout; recalculate | rounding, prices that change | parts add up, what is charged is current | 10 |
| Routing `cmd/routing-service` | population of routes | nearest neighbour, genetic search | randomness, routes that share slices, stale lengths | every stop once | 10 |
| Secrets `pkg/config`, uptime `pkg/monitoring` | cache of a secret; fail counts | get, rotate; check | fill after rotation, caches of other processes, rounds that overlap a stop | a rotated secret is told, every third failure alerts | 10 |
| First services `backend/*-service` | one table each; OTP tracker | create, read, write back; OTP | ids by the second, lost updates | an id is given once, columns are kept | 10 |
| Stub services of `pkg`, tokens and cryptography, RBAC, logging, storage; demand and supply, GPS spoofing | none or a cache | I/O, lookups, statistics | few | - | 11 |
| Flutter apps `apps/`, `lib/`, `packages/` | UI state | screens | UI only | - | 11 |

How the parts interact: the apps call the services over HTTP; the order service
publishes to Kafka `order-events`, which the notification side consumes; the
payment service is called by clients and by Stripe's webhook. The services do
not call each other. In every `cmd/*/main.go` the line
`protected.Use(authMiddleware.Authenticate())` is commented out, so handlers that
need `user_id` answer 401 over HTTP as deployed; the models take the service
layer as its authors meant it to be called.

## 2. Plan

Done, in this order:

1. **OrderService**, its abstract specification **OrderLifecycle**, and their
   proofs: the core of the product and the code with the most concurrency.
2. **PaymentService** and **WalletService** (`cmd/payment-service`): stale rows,
   webhooks, balance against ledger; proofs of types, covered refunds, answered
   webhooks, one payment per order call by call.
3. **WebSocketHub** (`pkg/websocket`): a lock, unbuffered channels, a deadlock;
   proofs that hub and senders never use a closed channel.
4. **OrderPaymentSaga** (`pkg/saga`): compensation with several goroutines on
   several copies; proofs that no copy, however old, undoes what was not done, and
   that one worker at a time leaves all or nothing. **MCBackground** has the small
   instances of payments, hub and saga.
5. **Outbox** (`pkg/outbox`): at-least-once delivery by several processors; proofs that
   nothing is lost, nothing is given up early, and that one processor publishes once.
6. **IdempotentPayment**, **OrderStateMachine**, **OrderEventSourcing**,
   **OrderProjection**: the order libraries, composed by **MCOrderLibraries**; proofs
   that no step lacks its cause, that a key is charged once where updates insert, and that events replay to the
   same order with a snapshot and without.
7. **RiderService**, **RestaurantService**, **AuthService**,
   **NotificationService**: the other services, composed by **MCServices**; proofs
   of all their safety properties, from no overdraft to the items of the menu shown.
8. **AuthLibrary**, **RateLimiters**, **RiderLibrary**, **DeliveryTracking**,
   **NotificationOrchestration**, **Migrations**, **KafkaConsumer**, **Pricing**,
   **AbuseDetection**, **RoutingAlgorithms**, **SecretsManager**,
   **UptimeMonitor**, **FirstServices**: libraries and the first services over a common
   **Goroutines**, composed by **MCLibraries**; proofs of all their safety properties,
   from the limits of Redis to what a sort, a sum of prices or a crossover computes.

Left: a composition in which one client drives orders and payments with the outbox between the order service and
its consumers (nothing in the code wires them together yet).
No module with a theorem uses a RECURSIVE operator.

Every module follows the same pattern. The module of a component holds the code:
one action per call that other goroutines can see, faults as actions of their own,
and the properties. Its `MC` module adds the budgets of a small instance. Where a
promise of the code holds only while nothing fails, or only for requests that
come one at a time, the `MC` module keeps a history variable (`calm`) that says so
and states the promise under that condition, in the same run as the properties that
hold always; for properties of one component the prefix of the name says which
condition (`Calm...`, `Faultless...`, `Roomy...`). A `...Proofs` module holds the
theorems (`MessagingProofs` those about hub and outbox; `LibraryLemmas` goes before
`LibraryProofs`). All type invariants are theorems; no run repeats those of sections 3 to 7.
Of what the passing runs check, every invariant is a theorem and every action property;
only progress is not.

The promises under a condition are proved like the others, of the `MC` module's
specification, which has the condition as a variable: the invariant is "always this,
and while calm also that". Budgets are guards there, so such a theorem holds for
every budget; `MCLibraries`, whose bounds are those of TLC alone, has a specification
without them for its proofs. That calls come one at a time means in the invariants that any two
goroutines with a call in hand are the same one (`One`, `OneBusy`); where the `MC` module
counts busy goroutines instead, the invariant also says that there are finitely many.

Definitions marked *Faulty* are variants of the definition that follows them
with a plausible bug. No action uses them; each is there so that a property can be
seen to fail when the code is broken that way. Properties with several conjuncts
have several of them, one per conjunct where the bugs differ.

The modules composed by `MCBackground`, `MCOrderLibraries`, `MCServices` and `MCLibraries`
share no state, so a product of them would multiply states without adding behaviours.
There a behaviour picks a `subject` (`part`) at the start and exercises that one alone;
the others stay as they are. What a run says of each subject is what a run of
its own would.

## 3. The order service

### Modules

| module | what it is |
|---|---|
| `OrderStatus` | the statuses and the two tables `isValidStatusTransition`, `canCancelOrder` |
| `OrderService` | the service: state, actions, faults, properties |
| `OrderLifecycle` | what the status column promises; `OrderService` implements it |
| `MCOrderService` | small instances, budgets for faults and ticks |
| `OrderServiceProofs` | the inductive invariant, types, clean pool, refinement, custody, history before topic, whole creations, events written once |

### State and actions

`order`, `items`, `history` and `topic` are the three tables and the Kafka topic.
`call[p]` is the handler that request goroutine `p` is running: its program
counter and locals (the request, the row it loaded). `timer[t]` is a cascade
goroutine, `eta` the rows the recalculator has read and not yet handled. `past` is
a history variable, the statuses each row has held.

**One action is one database or Kafka call** with the code up to the next one.
`UpdateOrderStatus -> UpdateLoad -> UpdateStatusColumn -> CreateHistory ->
PublishMessage` is `UpdateOrderStatus` of the code; `CancelOrder -> SaveRow -> ...`
and `AssignRider -> SaveRow -> ... -> SpawnCascade` are the two handlers that write
whole rows. `CascadeWake -> CascadeSave -> CascadeHistory` is the goroutine,
`EtaTick` and then `EtaUpdate` or `EtaSkip` per row the recalculator. A tick may
start only when the last one is through, as `for range ticker.C` has it.

Two kinds of write matter: `UpdateStatus` changes the status column alone,
`Save` writes back every column of the copy the handler holds. `Store` is both,
called with a row built from the current one or from the copy.

Failures are actions of their own: a statement fails (`RequestError`), the
`event_id` lookup fails and counts as "not seen" (`LookupError`, the code drops
that error), AssignRider's history insert fails and is ignored
(`HistoryErrorIgnored`), Kafka loses the message (`PublishLost`), goroutine steps
fail (`CascadeError`, `EtaError`), the process stops (`Crash`: tables and topic
survive, goroutines do not).

Abstractions: rows keep status and rider; a generated event id is the kind of
step that made it; the 15 s and 60 s are arbitrary delays, which also covers slow
handlers; prices and read-only queries are left out; `Delete` of the repository
has no caller; a request has at least one item.

### Runs

| run | instance | checks |
|---|---|---|
| `order_races` | 1 order, 1 rider, 2 handlers, 1 cascade goroutine, 1 tick, no faults; 1.65 M states | `CustodyChain`, `PlacedHasNoRider`, `ImplementsLifecycle` |
| `order_single` | 1 handler at a time, 2 riders, 1 goroutine, 1 tick, 1 fault; 1.17 M states | `PublishedIsRecorded`, `CreationLoggedWhole`; as long as nothing fails: `FaultlessWrittenOnce`; and the recalculator puts no older row back: `KeptAssignmentResolves` |
| `order_cascade_race` | 1 handler, 1 goroutine | violates `CascadeSparesAccepted` |
| `order_reassignment` | the same, with 1 tick | violates `AssignmentResolves` |

The passing runs have two stages, which a behaviour picks one of: updates of the kitchen, where
one rider is enough, or of the delivery.

Bounds. One order is enough for all but the event index: orders share nothing
but `event_id`s, and the instances give each event one meaning. Two handlers are
enough for the races the code has, each being one stale copy against one writer;
the cascade goroutine and the recalculator are third and fourth actors. Two items
distinguish "some" from "all". `Timers` bounds goroutines alive at once: a
handler at its `go` statement waits for a free slot, which removes behaviours but
adds none. One fault reaches every error path from every state; the safety
theorems below have no such bounds.

Fairness. `WF(Continue(p))` and `WF(Cascade(t))`: Go keeps running a goroutine
that can run, database calls return. Nobody has to send requests, and the
recalculator need not tick. `KeptAssignmentResolves` needs only that the sleeping
goroutine wakes. It is stated without failures and restarts, for the sleeping
goroutine is all there is and a `Crash` forgets it, and for behaviours in which the
recalculator, which runs all the while, has saved no row that changed since it was read
(`undone`): where it has, `order_reassignment` shows what becomes of the order.

### What the runs say

Two findings. In `order_cascade_race` the cascade saves a stale row over an acceptance. In
`order_reassignment` the recalculator reads an order that has a rider, the cascade puts the
order back into the pool, and the recalculator saves the row it read: the order has its
silent rider again, and the goroutine that would revert it has ended. That takes one handler,
one tick and no failure.
The model shows more that no run states. `EventWrittenOnce` fails outside its run's
conditions: with two handlers the `event_id` guard is a check-then-act around the status
write. A restart forgets the goroutine that would take an order back. Some is in the abstract specification
because the code does it: AssignRider checks no status, so finished orders come back
and orders that were never prepared are picked up (Assign); the recalculator
writes old statuses back (Restore). Cascade reverts are recorded but not published.

What does hold in spite of all this is the more useful part: stale copies never
break the custody chain, because the forward table admits only one predecessor
per status and statuses in `past` stay there; rider and status are never torn
apart in the pool; the topic never runs ahead of the history.

### Proofs

`OrderServiceProofs` proves, for every set of orders, riders, events, handlers and
goroutines:

- `LifeInvariant`: `Spec => []LifeInv`. None of the properties is inductive as it
  stands, because what a handler will write was decided earlier. `LifeInv` adds
  what the copies in flight say about the tables: a validated update holds a status
  from the order's past of which the new one is a legal successor (`InCall`), a
  cascade about to save is of an order that had a rider (`CascadeInv`), rows in the
  recalculator's hands were active once and placed ones have no rider (`EtaInv`),
  rows never vanish (`Present`).
- `TypeCorrect`, `PoolIsClean`: conjuncts of it.
- `Refinement`: `Spec => ImplementsLifecycle`, each `Store` mapped to one of Place,
  Advance, Assign, Unassign, Restore, everything else to a stutter.
- `Custody`: `CustodyChain` is an invariant of the abstract specification, carried
  over by the refinement.
- `PublishedWasRecorded`: a handler at its publish has its row (`RecordedFirst`).
- `CreationIsWhole`: every order has at most one creating handler, which alone adds
  items, and logs when they are complete (`CreationInv`).
- `WrittenOnce`: `EventWrittenOnce`, of every behaviour of `Next`, races, faults and crashes
  included, in which no lookup of an event fails (`LookupsAnswered`) and no two handlers
  are at the same client event at a time (`EventsApart`): a handler that is still to write
  the column came for an event without a row (`StillNew`). That is what the guard is worth;
  both conditions are needed. `WrittenOnceWhileFaultless` carries it over to `MCSpec`, for
  `FaultlessWrittenOnce`: the run's single handler keeps events apart.

Assumption used: `OrderServiceAssumption` (the null rider is no rider, orders have
items, updates name real statuses, client event ids are not the generated ones).

Only model-checked: `KeptAssignmentResolves`, which is liveness.

## 4. Payments

`PaymentService`, `MCBackground`, `PaymentProofs`.

`payment` is the table; `call[p]` is the handler a request goroutine runs, which
holds **the whole row it is going to write**: `CreatePayment`, `ProcessPayment`,
`StripeWebhook` and `RefundPayment` read and decide in one action (their one query
and the code after it), `WriteRow` is the insert or Save. `Complete` is what
the webhook and the client's call share. `acked` is a history variable, the payments
for which a webhook was answered; `made` numbers the transaction ids the code generates.

Faults: the lookup in CreatePayment fails, which the code takes for "no payment yet"
(`LookupError`); the write fails (`PaymentWriteError`); the load fails, which only the
webhook's caller does not notice (`WebhookError`); a restart (`PaymentCrash`).

Assumed: a webhook's signature and timestamp are good; writing the `jsonb` column
`gateway_response` succeeds. Refunds are not zero (`binding:"required"`). The
amounts in the instance are one price and refunds below it, at it and above it.

| run | instance | checks |
|---|---|---|
| `background` | 1 order, 2 payments, 2 handlers, 1 fault, 6 requests | always: `RefundIsCovered`, `PaidStaysPaid`; without faults: `FaultlessAckedIsCompleted`; one request at a time and no fault: `CalmPaymentsKept` (an order has one payment, a stored refund survives what comes after it) |

Two payments are the least that can share an order, two handlers the least that
can hold a stale row; six requests let each of them create, complete, refund and
be completed again. Each conditional property fails without its condition: two
requests insert two payments, a late Save drops a refund, a failed query leaves an
answered webhook's payment pending. Refunds are judged one by one against the
amount, so their sum is not bounded and no property says it is.

Proved in `PaymentProofs`, for every set of orders, payments and goroutines and
every amount: `TypeCorrect`, `RefundsCovered`, `PaidIsFinal`. The invariant is about
the rows that handlers hold: a row about to be saved is completed and of the order and
amount the stored one has (`HeldRowFits`), refunds in it are covered (`Sound`), a row
about to be inserted has an id of its own (`FreshIds`). That is why a stale Save can
drop a refund but never uncover one. Assumption: `PaymentAssumption` (amounts are
integers, 0 is no refund).

Proved too, of `MCPaymentSpec`: `AckedWhileFaultless` (`FaultlessAckedIsCompleted`) and
`KeptWhenCalm` (`CalmPaymentsKept`). For the first the invariant follows the webhook:
one that is about to save holds a completed row (`WebhooksComplete`), and by `PaidIsFinal`'s
argument no other copy takes that back. For the second, `Calm` says what
the one request under way knows: a row it inserts is of an order without
payment, a row it saves differs from the stored one only in what the request changed,
so that a refund that is stored stays stored. All of these properties are theorems.

## 5. The WebSocket hub

`WebSocketHub`, `MCBackground`, `MessagingProofs`.

The goroutines are `run` (Hub.Run), `sender[s]` (callers of SendToUser, SendToType,
SendToTopic), `reader[c]` (a connection's handler, then its readPump) and
`writer[c]` (its writePump). `register` and `unregister` are unbuffered, so one
action (`Register`, `UnregisterReader`, `UnregisterSender`) is both ends of an
exchange. The `sync.RWMutex` is not a variable: a sender holds it for reading in
"send" and "unregister" (`Reading`), Run holds it in the single step `RunAdd` or
`RunDelete`, and waits for it after `RunLock`, from when on no new reader gets in, as Go
documents. `queue[c]` counts the messages in a `Send` channel of capacity 256;
`closed` and `panic` record what a send or close on a closed channel does. The
broadcast branch of Run is left out: no code sends on that channel.

| run | instance | checks |
|---|---|---|
| `background` | 2 clients, 2 senders, capacity 2, 2 messages, 2 pings; 0.58 M states with those of sections 4 and 6 | `HubNeverPanics`, `LoopSeesNoDeletion`; as long as no channel fills up: `RoomyProgress` (a client that is gone is forgotten for good, every send returns) |

Two pings fill a channel, which the messages of two senders then find
full: the client is reported twice by senders and once by its reader. Capacity stands
for 256; the theorems hold for any.

Fairness: Run, the senders and the readPumps take the steps they can
(goroutines are scheduled). **Nothing is assumed of peers**: they need not
read, write or leave, so writePump's steps have no fairness, and a channel may fill
up and stay full. The runs stop when messages run out and may end in a panic, so they
do not look for deadlocks. There is one, and it is why `RoomyProgress` has its
condition: a sender that meets a full channel waits on `unregister` under the read
lock while Run, which should receive it, waits for the write lock to handle another
client. The model also shows that readPump answers a ping on a channel that Run
may have closed, which panics (`panic = "pong"`).

Proved in `MessagingProofs`, for any clients, senders, audiences and capacity:
`HubTypeCorrect`, `NoHubPanic`, `StableLoop`. The invariant says that a registered
client's channel is open (`OpenChannels`), that a client about to be added was never seen
before (`RunHolds`, `NewIsUnknown`), and that while a sender loops the map only
grows (`LoopSeesNoDeletion`). Assumption: `HubAssumption`.

## 6. The order payment saga

`OrderPaymentSaga`, `MCBackground`, `SagaProofs`.

`worker[w]` is a goroutine in executeSaga, HandlePaymentFailure or RetryFailedSaga
with its own copy of the saga; `saved` is what the repository has, `effect[i]` what has
become of step `i` in the order and payment services. Both services and the repository
are interfaces in the code, without an implementation that is wired up; the model
takes the repository to keep copies, as one over a database does. Each `SaveSaga`,
`Execute` and `Compensate` is an action.

Faults: a step takes effect but its answer is lost (`ExecuteAnswerLost`), a
compensation fails and is counted as done (`CompensateError`), a save fails
(`SaveSagaError`), a restart (`SagaCrash`; nothing resumes a saga).

| run | instance | checks |
|---|---|---|
| `background` | 3 steps, 2 workers, all states | always: `CompletedWasCarriedOut`, `NothingUndoneUndone`; no fault, no reported failure, one worker at a time: `CalmSagaIsClean` (all or nothing, undone in reverse, no step twice), `CalmSagaEnds` |

The code has three steps; two workers are an executor and a second goroutine on
another copy. There are no budgets: the state space is finite. Fairness: a
goroutine on the saga takes its steps (`WF(Work(w))`); nobody has to retry.
A payment failure reported while `executeSaga` runs is outside the calm for a reason:
it compensates on a copy of its own what the executor goes on to do, and the order
can end cancelled with the payment confirmed, though no call failed.

Proved in `SagaProofs`, for any number of steps and workers: `TypeCorrect`,
`CompletedIsHonest`, `NothingUndoneIsUndone`. Copies may be as old as they like, because
what they claim cannot become false: an effect once there never returns to
"none" (`Honest`, `HonestCopies`). Assumption: `SagaAssumption`.

`CleanWhenCalm` proves `CalmSagaIsClean`, of `MCSagaSpec`. While one worker is on the saga, its
place in the code says which effects are there: steps below the one it executes
are done, steps above the one it compensates are undone (`CalmWorker`); between
workers, the saved status says the same of all steps (`Rests`), which is what the next
one starts from (`Settled`). Termination (`CalmSagaEnds`) is model-checked only.

## 7. The outbox

`Outbox`, `MCOutbox`, `MessagingProofs`.

`event[m]` is how far the caller of a message is, `row[m]` its row, `proc[p]` a
processor: its batch of **copies** of rows and the copy in hand. Callers save alone
(`SaveEvent`) or in a transaction (`SaveInTransaction`, `Commit`); a processor polls
(`GetPendingMessages`), tries one message after the other (`PublishMessage`,
`PublishError`) and stores the outcome (`MarkAsProcessed`, `MarkAsFailed`,
`SaveRetryCount`, the last of which overwrites the row with the copy). `sent` and
`errors` are history variables.

`OutboxRepository` and `MessagePublisher` are interfaces. The model takes the Mark
calls to change the status of a row that is there and SaveMessage to insert or
overwrite, at once: `SaveEventWithTransaction` opens a transaction and commits it, but its
SaveMessage is not told of it (`outbox_pattern.go:197`), so that the row of a transaction that
is still open can be read, and stays if the commit fails. The order of rows in a batch is left
open.

Faults: a save or commit fails, a commit's answer is lost, a publish's answer is lost
(`PublishAnswerLost`), an outcome cannot be stored (`MarkError`), a restart (`Crash`).
A publish that fails is no fault but a step of the processor.

| run | instance | checks |
|---|---|---|
| `outbox_all` | 2 messages, 1 of them in a transaction, 2 processors, batches of 2, 2 retries, 1 fault; 0.99 M states | always: `NothingLost`, `GivenUpAfterRetries`; no fault, one processor at a time: `CalmPublishedOnce`; faults that end: `SavedIsSettled` |
| `outbox_phantom` | the same | violates `RolledBackIsNotPublished` |

`outbox_phantom` is a finding: the comment above the call says that the row is part of the
transaction, and a message of a transaction that was rolled back is published.

Two processors are one stale copy against one writer; two retries distinguish the
first error from the last. Fairness: every processor takes its steps, polls included
(`StartOutboxProcessor`'s ticker); callers and clean-up need not act. The budget of faults is
what "the faults end" means in `SavedIsSettled`; restarts are among them.

Proved in `MessagingProofs`, for any messages, processors, batch size and number of retries:
`TypeCorrect`, `NoMessageLost`, `NotGivenUpEarly`. Every claim in a copy
(its message was inserted, it had so many errors, it was published) stays true as
the histories grow (`Grown`, `StillHonest`), so an old copy can undo progress but never
store a falsehood (`HonestRow`). Assumption: `OutboxAssumption`.

`PublishedOnceWhenCalm` proves `CalmPublishedOnce`, of `MCSpec`: a row that is still
pending has not been sent, unless the one processor at work has just sent it and is
about to mark it (`CalmRow`), and the rest of its batch are messages that are still to be
sent, each once (`CalmProcessor`). Settling (`SavedIsSettled`) is model-checked only.

## 8. The order libraries

`OrderStateMachine`, `OrderEventSourcing`, `OrderProjection`, `IdempotentPayment`,
`MCOrderLibraries`, `OrderLibraryProofs`.

Repositories, event stores, caches and the payment gateway are interfaces in this
code. Each module's header says what its model takes them to do, which is what
the code needs of them and no more: nothing makes versions unique, saves
overwrite, an answer may be lost. Each of their calls is an action.

- `OrderStateMachine`: `TransitionState` reads the log of an order, checks event id
  and table, appends, and tells the web sockets. `HandleDeliveryFailure`,
  `HandleRestaurantOffline` and `HandleRiderCancellation` look at the state first and then make one.
- `OrderEventSourcing`: publishers read the latest version and save an event with the
  next; `CreateSnapshot` replays and then reads the version it will stand for.
- `OrderProjection`: a command writes the write model and leaves a goroutine behind
  that copies the order to read model and cache; queries fill the cache.
- `IdempotentPayment`: a request under a key, its retries, `RetryFailedPayment`, the
  clean-up of keys. An attempt is only ever passed to `UpdateAttempt`; `SaveAttempt`, which
  the interface has beside it, is called by nobody. What an update does to an attempt that is
  not there the interface does not say: the constant `UpdateInserts` does, and both answers
  are checked.

| run | instance | checks |
|---|---|---|
| `order_libraries` | 1 order, 1 key; 2 callers, 3 goroutines for projections; 1 overlapping transition, 4 events, 3 versions, 3 attempts of 2 charges, 1 fault, updates insert; 0.67 M states | `TypeOK`, `RecordsAreSound`, `ReplayIsSound`, `ChargesAreSound`, `SettlesInTheEnd` |
| `payment_key` | the same, but an update of an attempt that is not there stores nothing | violates `KeyIsChargedOnce` |

`RecordsAreSound`: however transitions race, nothing is refunded and no food is
handed over without cause (`EveryStepHasItsCause`), and racing publishers leave no version
out (`NoVersionGap`). Call by call, the log is one legal path (`LogIsPath`), versions
differ, read model and cache have what the write model has, and if nothing fails
either, the sockets show where the log ended (`ShownIsCurrent`).
`ReplayIsSound`: call by call, a snapshot changes nothing about the replayed state, and
times in the stages of an order that is active add up (`Active`; those of one that ended go on
growing at `order_event_sourcing.go:246`, against the comment above it).
`ChargesAreSound`: what is stored as completed was charged (`CompletedWasCharged`);
where updates insert, if requests do not overlap and no key or answer is lost, a key is
charged once and a repeated request is answered with the completed payment.
`SettlesInTheEnd`: left alone, the version written last is the one read in the end, and
no key stays pending. It needs weak fairness of the projection goroutines and of
the payment requests: calls return, and goroutines that can run do. Commands,
queries, retries and clean-ups need not come.

One order and one key suffice since they share nothing. Two callers are one
stale read against one writer; three goroutines are two projections out of order and a
query or a deletion between them. Ten events let a log reach every end of the table;
three attempts are a first one, a second request's and a retry's.

`payment_key` is a finding: where an update stores nothing that is not there, a completed key
has no attempts, the request falls through (`idempotency_payment.go:98`) and charges again,
though nothing fails and nothing overlaps. The model shows more: a query that hits the cache
throws the cached text away and returns an empty order (`order_cqrs.go:205`; `AnswerIsAnOrder`
says so, and no run states it, since it is the result of one call); orders deleted from the write model stay in the read
model, and a request that dies leaves its key pending until the clean-up.

Proved in `OrderLibraryProofs`, for every set of orders, keys and goroutines and every bound:
`RecordsStaySound`, `ReplayStaysSound` and `ChargesStaySound` (`RecordsAreSound`,
`ReplayIsSound`, `ChargesAreSound`) and the types (`LibraryTypes`), from two invariants, `LibraryIInv`, which always holds, and
`LibraryCalm`, which holds while calls come one at a time.

- Transitions: an event about to be appended was validated against a log that has
  its cause, and a log only grows (`MachineIInv`). Callers that come one at a time append
  to the very log they validated against (`SaveFits`), which keeps it a path.
- Publishers: the versions of an order are 1 up to the latest, with repetitions, and what a
  publisher is about to save is one more than a version that is there (`SourcingIInv`).
  One at a time, versions are positions and a snapshot is the state its version was
  (`WasAt`), as is what a snapshot under way has replayed so far (`BaseFits`).
- Replay: the states a list of events goes through (`History`) are unique; `Replay` and
  `GetTimeInStage`, which are folds, are the last of theirs (`Replayed`, `Staged`). From a
  snapshot, `GetEvents` gives the snapshot's own event again, which changes nothing, because
  `applyEvent` applied twice is `applyEvent` (`Applied`, `ReplayFrom`); so the state is that
  of the whole history (`ReplaysAlike`). A change of status ends a stage and gives it the
  time since the last one (`SpentSince`): the times are never negative, and while the order is
  active add up to the time since the first change (`TimesAddUp`).
- Projections: a version the write model has is in read model and cache, or the
  goroutine that will copy it has not come to its end (`ProjectionCalm`).
- Payments: what a request holds is told by where it is, an attempt of its own under its
  key, charged if it is about to say so (`PaymentKnows`), whether updates insert or not. Where
  they do, one at a time, a charged
  attempt is the last of its key and was charged once (`PaidOnce`): `RetryFailedPayment`
  retries what failed before the charge, and every later request finds the
  payment. A clean-up, a failed lookup or a lost answer ends the calm (`Forget`), and
  with it the promise; dying between two calls (`Stop`) does not.

Assumption: `OrderLibrariesAssumption` (the null key is no key, at least one try; the
statuses are finitely many, an order is placed first, and no status is empty). Only
model-checked: `SettlesInTheEnd`. The induction that the folds need is that of section 10,
and its lemmas are repeated here.

## 9. The services

`WalletService`, `RiderService`, `RestaurantService`, `AuthService`,
`NotificationService`, `MCServices`, `ServiceProofs`.

- `WalletService`: `wallet` is the balance of each user, `ledger` the transactions in
  order. `GetWallet` starts a request and reads the balance, `NewBalance` is the arithmetic
  and the "insufficient balance" test on it; `CreateWallet`, `UpdateBalance` and
  `CreateTransaction` are the three writes, each a call of its own.
- `RiderService`: a profile with two switches and running totals, and the table of
  earnings; `UpdateRider` and `AddEarning` save whole copies, `UpdateSwitch` a column.
- `RestaurantService`: items, categories and restaurants as rows with version numbers, an
  item with its category, which gorm saves along with it; lists in Redis, which readers fill
  after they missed. A cached menu has the items and their categories; edits of items delete it,
  edits of categories do not.
- `AuthService`: users and refresh tokens with their unique index and foreign key;
  rotation is find, create the successor, delete the old one.
- `NotificationService`: single and bulk sends, reading, deleting, preferences that are
  created on first use.

| run | instance | checks |
|---|---|---|
| `services` | 2 handlers and, by subject: 1 user, 2 amounts, 4 requests, 1 fault; 2 riders, 1 switch, 2 earnings; 1 restaurant with 1 item and 1 category, 3 versions; 2 accounts, 1 number, 3 tokens; 2 receivers, 1 channel, 2 bulk sends; 1.42 M states | `ServicesTypeOK`, `NeverOverdrawn`, `BooksAgree`, `OneOfEach`, `WritesAreKept`, `StaleGoesAway` |
| `menu_categories` | the same | violates `MenuFollowsEdits` |

`menu_categories` is a finding: `backend/README.md:87` promises that category edits invalidate
the menu, and `UpdateCategory` and `DeleteCategory` leave the key. One edit, with nothing else
under way, is enough; the stale menu stays until it expires.

Faults: any error of a lookup counts as "not there" where the code has it so
(`LookupError`), a statement fails or the process stops (`Stop`), a deletion from the
cache fails unnoticed.

Always: no balance is negative (`NeverOverdrawn`), a rider's totals never say more than
the earnings rows, a phone number has one account, nobody further up a bulk list
has fewer of its notifications than those below (`NobodyIsPassedOver`), and a stale
list leaves the cache (`StaleGoesAway`, under fairness of calls and of Redis' time to
live). For calls that come one at a time and do not fail: the ledger adds up line by
line to the balance (`StatementAgrees`), totals and rows agree, one profile per user, a refresh token has one successor, and
switches, passwords, preferences and the items of the menu are what was asked for last. Each of
these is lost when calls overlap: two withdrawals find one balance enough, write the
same new one, and the ledger shows more going out than came in; a profile saved late
brings an old password back; a menu read before an edit is stored after it.

Rows of different users share nothing, except in the unique indexes, for which
there are two accounts and one number. Two amounts make a balance that is enough for
one withdrawal but not for both. Three versions are an edit before, during and after
the read of a list.

What was asked for last (`switched`, `chosen`, the password) is a history taken
at the write, where the database orders the requests. Rows of a rider have two switches, of
which the instance flips one: they are columns of their own and take the same steps.

Proved in `ServiceProofs`, of `ServicesSpec`, for every set of users, amounts, ids, numbers,
tokens, channels and goroutines and every budget: all the safety properties of the run
(`ServicesTypeCorrect`, `NoOverdraft`, `BooksAlwaysAgree`, `OneOfEachIsKept`,
`WritesAreNotLost`). Two of them are also proved of the services on their own, where
requests never run out (`WalletAlwaysCovered`, `OneAccount`). What always holds is
`ServicesIInv`:

- every balance written was computed from one that was enough (`HeldBalance`);
- a rider's totals, and those in a copy about to be saved, say no more than the rows,
  less the rows whose count is still to come (`Covered`, `Counting`);
- the lookup before the insert is worth nothing, a failed one counting as "free";
  what carries `OneAccountPerPhone` is that both `Create` and the `Save` of an old copy, which
  can bring a deleted account back, ask the unique index;
- whoever is below on a bulk list has no more of its notifications than those
  above, less the sends that are half way (`NotificationIInv`).

`ServicesCalm` holds while calls come one at a time: the ledger's last line shows the
balance, unless the handler that changed the balance has the line in hand
(`WalletCalm`); a spent token is gone, or its successor was just created
(`AuthCalm`); the cached menu has the items there are, whatever it says of categories, or the edit that
outdates it is about to delete it (`RestaurantCalm`); what a handler saves is what was chosen, with its own
change (`RiderCallFits`, `AuthCallFits`, `NotificationCalm`).

Assumptions: `WalletAssumption` (amounts are positive, as the binding `gt=0` has it),
`ServicesAssumption` (there is a password; null values are no values; "available" is a
switch). Only model-checked: `StaleGoesAway`, which is liveness.

## 10. The libraries

`MCLibraries` composes thirteen modules with 24 subjects, over `Goroutines`: each
goroutine is in the middle of at most one call, a record with the step it takes
next and what it has read.

| module | models |
|---|---|
| `AuthLibrary` | `SendOTPWithChecks` and `VerifyOTPWithChecks`, each Redis command an action; refresh tokens of one login |
| `RateLimiters` | the fixed-window limiter (also `CheckRateLimit` of `pkg/cache`), the sliding window, the token bucket, command by command, with a clock |
| `RiderLibrary` | `AssignBestRider` over hexagons while riders move; deviation alerts from all locations of the window; runs of the incentive engine |
| `DeliveryTracking` | `TrackRiderLocation`; the ranking of `FindAvailableNearby`; the time of delivery: calculation, recalculation and what the customer is told |
| `NotificationOrchestration` | preferences, limiter and channels of one notification |
| `Migrations` | `Up` and `Down`, transaction by transaction, by two migrators |
| `KafkaConsumer` | one partition from the producer to the reader of the channel, with rebalances and crashes; Kafka and its client as this code uses them |
| `Pricing` | carts in exact arithmetic, checkout against prices that change; validation and recalculation of menu items, with customization rules and without |
| `AbuseDetection` | scores of orders, coupons and users, lookup by lookup; checks of reviews |
| `RoutingAlgorithms` | nearest neighbour while the clock goes on; the genetic search: selection, crossover, mutation |
| `SecretsManager` | the caches of one secret in several processes against AWS |
| `UptimeMonitor` | rounds of checks, fail counts and alerts |
| `FirstServices` | the OTP tracker under its lock; rows created by the second, read and written back |

| run | instance | checks |
|---|---|---|
| `libraries` | 2 goroutines; limits of 1 to 3 and windows of 2 to 4 (`libraries.cfg`), 3 migrations, 3 stops, 2 riders, 2 hexagons, 2 checks, a channel of 2; 0.48 M states | `LibrariesTypeOK`, `LimitsHold`, `DoneOnce`, `JudgedRightly`, `ShownIsSo`, `BestIsChosen` |

- `LimitsHold`: no hour has more OTPs than the first service allows; the OTP limits of
  the library are exceeded by no more requests than are checked at once; the window
  limiter holds unless Redis fails, and the reviews of a user and day are within their limit
  but for those checked at once. Call by call the token bucket serves no more than a full
  bucket and its refills, and the sliding window refuses only whoever came in more seconds of
  the window than the limit: it is not said that it serves no more requests, which it does.
  Counts expire and windows end, unless a call stopped between `INCR` and `EXPIRE`.
- `DoneOnce`: ids are given once; behind the committed offset no message is passed over
  but those in the channel at a crash; the migration history is the schema, wherever
  migrators stop, and none is left out below another unless an up meets a down; every
  stop is in each route once; every rider is ranked once, best first. Call by call: one
  review per order, one refresh token per login.
- `JudgedRightly`: three failures in a row alert, and nothing else does; a rider is
  reported whose every location of the last three minutes lay off the route, if there was one
  before each tick, and an alert has a location off the route; an order is never treated
  worse for a lookup that failed; bonuses are paid to those who earned them, and reported.
- `ShownIsSo`: the parts of a price add up to a paisa for each that was rounded; what is
  charged is within one percent of what the cart costs; a valid item is priced
  with all that was asked for, and above nothing if it has rules that demand a quantity; small
  moves never add up to a rider shown elsewhere. Call by call: a process that has rotated a
  secret is not given an older one, disabled channels are spared, a row's columns are those last asked for.
- `BestIsChosen`: no rider who stood in the area all the while would have been better.

`calm` is "serial" while there was one call at a time and nothing failed,
"overlapped" while nothing failed, then "faulty". `Bounds` cuts off what grows
without end, and the instances' constants are the smallest that keep the cases apart:
a limit of 2 is passed by a third call, a fourth stop adds no new kind of
crossover to the ranges of a slice of three, the prices are ones whose percentages
round both ways. A subject stops at its bound, so the run does not look for deadlocks.
The two goroutines are interchangeable (`Symmetry`). Nothing of liveness is claimed
here: the modules state it as safety (a count that is kept has an expiry).

### Proofs

Proved in `LibraryLemmas` and `LibraryProofs`, of `UnboundedSpec`, which is `LibrariesSpec`
without `Bounds`, for every number of goroutines, every limit, window, rate, clock, price,
list of riders and set of stops: all the properties of the run (`LimitsAlwaysHold`,
`AllIsDoneOnce`, `AllIsJudgedRightly`, `AllIsShownAsIs`, `TheBestIsChosen` and
`LibrariesAreTyped`, with `LibrariesWithinBounds` for what TLC checks). They follow from one
invariant, `LibrariesIInv` (`LibrariesInvariance`), with a part per subject. Each part says
what holds while that library is the subject, and that its variables are otherwise as they
were in the beginning. What carries the parts:

- one-time passwords: requests counted, and those past the check that are not counted yet
  (`Checked`), are at most the limit and all goroutines but one, since whoever passes finds a
  count below the limit; a count without an expiry has a goroutine at its `EXPIRE`;
- reviews: the same sum (`DayBounded`), per user and day;
- the window: served is the count, or the limit if that is less, which needs no order of calls;
- the sliding window: call by call the members of the set are seconds of the window of the
  call under way (`Span`), and in each of them somebody asked, so that whoever finds more
  members than the limit came in more seconds of the window than that (`WindowHolds`);
- the bucket: up to when it was last written, the tokens in it and the requests served
  are no more than a full bucket and its refills (`Funded`), and none was served
  since (`QuietAfter`); a refill keeps this (`FundedNow`), a request uses up one token of it;
- the first OTP service: the last requests granted, as many as are counted, come after an
  hour without any, in order (`FirstHolds`);
- Kafka: the messages before the offsets committed, marked and read have all arrived, which
  means handled, waiting in the channel, or lost with it in a crash (`Arrived`, `Covered`);
- migrations: while no up met a down (`OneWay`), an up still has to do whatever is not
  applied, and a down whatever is applied above what it has to do (`Orderly`);
- rows: an id is made at most once, and a column differs from what was asked for last only
  while the call that saves it is under way (`RowOnce`, `RowKept`);
- refresh tokens: a login has one token that is not revoked, none once it ended or while the
  successor is about to be saved (`TokenOnce`); reviews: an order has one (`OnceHolds`);
- uptime: the fail count is the number of failures at the end of the results (`Trailing`), and
  three are an alert; deviations: the streak is the end of the history (`Streak`), where all
  locations of each tick lay off the route (`Astray`), however many there were;
- fraud: a score is a sum of weights over the checks that fired, so a lookup that failed can
  only lower it (`FraudIInv`);
- incentives: a rule is in one place of a run (`Apart`), so a run pays it once; credits are the
  payouts reported and those in the hands of a run (`Balanced`), of rules whose orders
  were completed (`DueRules`);
- prices: a total is the sum of its parts, each rounded to the paisa (`CartHolds`, `MenuHolds`);
  the rest is arithmetic of sums, products and roundings for every cart;
- tracking: where the rider was shown last, the others are near (`TrackingHolds`);
- secrets and preferences, call by call: no process holds, or is about to store, a value older
  than its own last rotation (`SecretHolds`), and channels under way are wanted (`SpareHolds`);
- assignment: of the riders who stand still the search has found those where it has
  looked (`LookedAt`), and chooses the best of those found;
- the ranking: exchanges keep a list of all riders once (`Rankings`), and round by round its
  beginning is sorted and no worse than the rest (`SortedUpto`);
- nearest neighbour: route and waiting list are without repetition and share out the
  stops (`ListsOnce`);
- the genetic search: whatever pointers of a population point to is a tour of all stops
  (`Toured`), before and after crossover and mutation, which never take a tour away
  (`Heaps`). Nothing is said of its length.

What is promised call by call holds because no other goroutine is at work (`One`), which
`Called` ensures while `calm` is "serial" (`SerialStep`).

Prices, scores, routes and ranks are folds over sequences and sets. The theorems of induction
take a predicate as parameter, which the provers cannot instantiate; here the *set* of what
the claim holds of takes its place. `SetInduction` (from well-foundedness of strict subsets)
and `NumberInduction` are then statements of the first order, and so are their uses: a
recursion over finite sets has one function that satisfies it (`Recursion`,
`RecursionUnique`), a sum does not depend on the order of its terms (`Totals`), and a
left fold goes through a run of states, so that an invariant of its step is one of the fold
(`Loop`). Every fold of the models is read through one of these.

Assumptions: `LibrariesAssumption` (finitely many goroutines, rules, zones, stops, hexagons and
versions; limits, amounts and times are natural numbers, and not 0 where a division, a window or
a first request needs it: the number of OTPs, the reviews a day and the windows' lengths;
detours and lengths of routes are any integers) and `SlidingAssumption` (the clock of the sliding
window starts at its end). Nothing of the run is model-checked only.

What the models show and no property states. Some of it is against a comment of the code,
quoted here; a property that held all the same would only hide it.

- Limits: all limiters let requests through when Redis fails. The sliding window is said to count
  requests (`rate_limiter.go:104`, `:107`, `:117`) and counts the seconds in which some came,
  since a second is its member's name: any number in one second is one. "Max 10 notifications
  per hour per type" is a count that is never reset (`notification_orchestration.go:344`), so that
  a user gets ten in all. A burst is "more than 10 five-star reviews in an hour"
  (`review_authenticity.go:259`), and the code accepts up to 14.
- Tokens: a pair refreshed without device id forgets its device.
- Money: an incentive bonus is paid again at each run; coupons ignore their maximal
  discount and minimal order; add-ons named twice are counted once and priced twice. Of an
  item without customization rules neither quantity nor groups are checked (`menu_model.go:180`),
  so that it is valid with quantity 0, for nothing.
- Riders: a deviation is one of "more than 3 minutes" (`route_deviation_alert.go:13`, `:99`), but
  the code takes the share of what it knows of the last 3 minutes (`:106-118`): the first location
  may be enough. Alerts come again every 30 s, and not at all once the rider goes dark; the
  location stream compares its first point with (0, 0).
- Routes: the children of a crossover keep length 0 (`routing_algorithm.go:310-333`), and so win
  every tournament and the final choice, whatever route they are. A mutation swaps stops and leaves
  the length as it was (`:353-361`), of the elite too when it shares a pointer with them. So
  the best route found may be lost, and the one returned (`:377`) may be any tour.
- Kafka: a group without a committed offset starts at the newest message, after a
  rebalance too.
- Secrets: a `GetSecret` that began before a rotation puts the old value into the cache, and
  the caches of other processes keep it until it expires (`secrets_manager.go:100`, `:189`).
- ETA: "only if delta > 2 min" (`eta_prediction.go:207`) compares nanoseconds with 120, so that
  every change is pushed (`:207-216`).
- First services: an id has the resolution of a second; concurrent PATCHes lose
  updates; payments of any status are refunded.

Read in the code, next to what is modelled: `VerifyOTP` hands out a refresh token that is
never stored (`cmd/auth-service/internal/handlers/auth_handler.go:124`); accounts with tokens cannot be
deleted, the foreign key forbids it; the rider routes name no id, so that their
handlers answer 400.

## 11. Not modelled

- `pkg/order/order_service.go` and the rider, payment, notification, restaurant,
  routing and auth services of `pkg`: drafts whose database calls are stubs. They store
  nothing and answer empty records, so no state follows from a call.
- Tokens and cryptography (JWT manager, webhook signatures, encryption of personal data),
  RBAC, monitoring but for uptime, storage, logging, errors: lookups, I/O and formatting.
- Demand and supply of the routing service and the detection of GPS spoofing:
  floating point without memory.
- Within modelled parts: the blacklist of riders, which the search does not ask; the cache
  of delivery times, which nothing reads back; uncached searches of the
  restaurant service; prices in the order service; access tokens; alerts of high latency.
- The first restaurant service, which only inserts and lists; logins that always succeed.
- The Flutter apps.

Beyond the provers' reach, and model-checked only: progress under fairness
(`KeptAssignmentResolves`, `RoomyProgress`, `CalmSagaEnds`, `SavedIsSettled`, `SettlesInTheEnd`,
`StaleGoesAway`).
