--------------------------- MODULE PaymentService ---------------------------
(***************************************************************************)
(* Payments of backend/cmd/payment-service: one row per payment, created   *)
(* for an order, completed by a client's call or by Stripe's webhook, and  *)
(* refunded.  Each repository call is one action, so handlers interleave   *)
(* between the row they load and the row they Save.                        *)
(*                                                                         *)
(* A payment keeps the columns the handlers read or decide by.  A refund   *)
(* of 0 is NULL (the request must not be 0), a transaction of 0 is none;   *)
(* generated transaction ids are numbered in the order they were made.     *)
(* That a webhook carries a good signature and a fresh timestamp is        *)
(* assumed: Stripe signs each delivery anew.                               *)
(***************************************************************************)
EXTENDS Integers

CONSTANTS
    Orders,         \* order ids
    Payments,       \* payment ids
    NoOrder,        \* the order of a payment that was never inserted
    Amounts,        \* amounts orders cost
    RefundAmounts,  \* amounts refund requests ask for
    Procs           \* request goroutines

VARIABLES
    payment,    \* table payments
    call,       \* the handler each request goroutine is running
    made,       \* transaction ids generated so far
    acked       \* history variable: payments whose success Stripe was told we know

paymentVars == <<payment, call, made, acked>>

ASSUME PaymentAssumption ==
    /\ Amounts \subseteq Int
    /\ RefundAmounts \subseteq Int \ {0}
    /\ NoOrder \notin Orders

PaymentAbsent == [order |-> NoOrder, amount |-> 0, status |-> "absent", txn |-> 0, refund |-> 0]

PaymentRow == [order : Orders, amount : Amounts, status : {"pending", "completed"},
        txn : Nat, refund : Int]

PaymentIdle == [pc |-> "idle"]

Call == [pc   : {"insert", "save"},
         kind : {"create", "process", "webhook", "refund"},
         id   : Payments,
         row  : PaymentRow]

Exists(id) == payment[id] # PaymentAbsent

Paid(o) == \E id \in Payments : payment[id].order = o

PaymentInit ==
    /\ payment = [id \in Payments |-> PaymentAbsent]
    /\ call = [p \in Procs |-> PaymentIdle]
    /\ made = 0
    /\ acked = {}

Hold(p, pc, kind, id, row) ==
    call' = [call EXCEPT ![p] = [pc |-> pc, kind |-> kind, id |-> id, row |-> row]]

-----------------------------------------------------------------------------
(* Handlers, up to the row they will write.                                *)

\* The row CreatePayment inserts under a fresh id.
StartCreate(p, id, o, a) ==
    /\ call[p] = PaymentIdle
    /\ ~Exists(id)
    /\ \A q \in Procs : call[q] # PaymentIdle => call[q].id # id
    /\ Hold(p, "insert", "create", id,
            [order |-> o, amount |-> a, status |-> "pending", txn |-> 0, refund |-> 0])
    /\ UNCHANGED <<payment, made, acked>>

CreatePayment(p, id, o, a) == ~Paid(o) /\ StartCreate(p, id, o, a)

\* Faulty: the payment is built anew, not taken from the row.
CompleteForgets(p, id, kind) ==
    /\ call[p] = PaymentIdle
    /\ Exists(id)
    /\ made' = made + 1
    /\ Hold(p, "save", kind, id,
            [payment[id] EXCEPT !.status = "completed", !.txn = made + 1, !.refund = 0])
    /\ UNCHANGED <<payment, acked>>

\* Whatever its status, the payment becomes completed, under a new id.
Complete(p, id, kind) ==
    /\ call[p] = PaymentIdle
    /\ Exists(id)
    /\ made' = made + 1
    /\ Hold(p, "save", kind, id,
            [payment[id] EXCEPT !.status = "completed", !.txn = made + 1])
    /\ UNCHANGED <<payment, acked>>

ProcessPayment(p, id) == Complete(p, id, "process")

StripeWebhook(p, id) == Complete(p, id, "webhook")

\* Faulty: the payment is not looked at before it is refunded.
RefundUnchecked(p, id, a) ==
    /\ call[p] = PaymentIdle
    /\ Exists(id)
    /\ Hold(p, "save", "refund", id, [payment[id] EXCEPT !.refund = a])
    /\ UNCHANGED <<payment, made, acked>>

\* Faulty: a refund reopens the payment.
RefundReopens(p, id, a) ==
    /\ call[p] = PaymentIdle
    /\ payment[id].status = "completed"
    /\ a <= payment[id].amount
    /\ Hold(p, "save", "refund", id,
            [payment[id] EXCEPT !.status = "pending", !.refund = a])
    /\ UNCHANGED <<payment, made, acked>>

\* A second refund is judged like the first, and the status stays completed.
RefundPayment(p, id, a) ==
    /\ call[p] = PaymentIdle
    /\ payment[id].status = "completed"
    /\ a <= payment[id].amount
    /\ Hold(p, "save", "refund", id, [payment[id] EXCEPT !.refund = a])
    /\ UNCHANGED <<payment, made, acked>>

-----------------------------------------------------------------------------
(* The write, and the answer.                                              *)

\* Only the webhook's caller takes the answer for good, whatever it says.
Answer(p) ==
    /\ call' = [call EXCEPT ![p] = PaymentIdle]
    /\ acked' = IF call[p].kind = "webhook" THEN acked \cup {call[p].id} ELSE acked

\* Faulty: the webhook's row is left for later when the answer is given.
WriteRowLater(p) ==
    /\ call[p] # PaymentIdle
    /\ payment' = IF call[p].kind = "webhook" THEN payment
                  ELSE [payment EXCEPT ![call[p].id] = call[p].row]
    /\ Answer(p)
    /\ UNCHANGED made

WriteRow(p) ==
    /\ call[p] # PaymentIdle
    /\ payment' = [payment EXCEPT ![call[p].id] = call[p].row]
    /\ Answer(p)
    /\ UNCHANGED made

-----------------------------------------------------------------------------
(* Failures.                                                               *)

\* CreatePayment drops the error of its lookup: the order counts as unpaid.
LookupError(p, id, o, a) == Paid(o) /\ StartCreate(p, id, o, a)

\* The write fails and the handler returns its error, but the webhook drops it.
PaymentWriteError(p) ==
    /\ call[p] # PaymentIdle
    /\ Answer(p)
    /\ UNCHANGED <<payment, made>>

\* The load fails: only the webhook's caller does not notice.
WebhookError(p, id) ==
    /\ call[p] = PaymentIdle
    /\ Exists(id)
    /\ acked' = acked \cup {id}
    /\ UNCHANGED <<payment, call, made>>

PaymentCrash ==
    /\ call' = [p \in Procs |-> PaymentIdle]
    /\ UNCHANGED <<payment, made, acked>>

-----------------------------------------------------------------------------

Handle(p) ==
    \E id \in Payments :
        \/ \E o \in Orders, a \in Amounts : CreatePayment(p, id, o, a)
        \/ ProcessPayment(p, id)
        \/ StripeWebhook(p, id)
        \/ \E a \in RefundAmounts : RefundPayment(p, id, a)

PaymentCalmNext == \E p \in Procs : Handle(p) \/ WriteRow(p)

PaymentFault ==
    \/ \E p \in Procs, id \in Payments :
         \/ \E o \in Orders, a \in Amounts : LookupError(p, id, o, a)
         \/ WebhookError(p, id)
    \/ \E p \in Procs : PaymentWriteError(p)
    \/ PaymentCrash

PaymentNext == PaymentCalmNext \/ PaymentFault

PaymentSpec == PaymentInit /\ [][PaymentNext]_paymentVars

-----------------------------------------------------------------------------
(* Properties.                                                             *)

PaymentTypeOK ==
    /\ payment \in [Payments -> {PaymentAbsent} \cup PaymentRow]
    /\ call \in [Procs -> {PaymentIdle} \cup Call]
    /\ made \in Nat
    /\ acked \subseteq Payments

\* A stored refund is of a payment that was paid, and no more than was paid,
\* though handlers save whole rows they read before others wrote theirs.
RefundIsCovered ==
    \A id \in Payments :
        payment[id].refund # 0 =>
            /\ payment[id].status = "completed"
            /\ payment[id].txn # 0
            /\ payment[id].refund <= payment[id].amount

\* No stale Save takes a completed payment back, or moves it to another
\* order or amount.
PaidStaysPaid ==
    [][\A id \in Payments : payment[id].status = "completed" =>
         /\ payment'[id].status = "completed"
         /\ payment'[id].order = payment[id].order
         /\ payment'[id].amount = payment[id].amount]_paymentVars

\* "payment already exists for this order" (payment_service.go:35): an order
\* has at most one payment.
OnePaymentPerOrder ==
    \A i, j \in Payments :
        Exists(i) /\ Exists(j) /\ payment[i].order = payment[j].order => i = j

\* A webhook that was answered is not sent again, so its payment must be
\* completed: "handle secure transaction state updates
\* (`payment_intent.succeeded`)" (backend/README.md:109).
AckedIsCompleted == \A id \in acked : payment[id].status = "completed"

\* "refund processed successfully" (payment_handler.go:148): a refund that
\* was stored is not forgotten by this write.
RefundIsKept == \A id \in Payments : payment[id].refund # 0 => payment'[id].refund # 0
=============================================================================
