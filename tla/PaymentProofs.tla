---------------------------- MODULE PaymentProofs ----------------------------
(***************************************************************************)
(* What PaymentService keeps for any number of orders, payments and        *)
(* request goroutines, whatever fails: types, the cover of refunds, and    *)
(* that a paid payment stays paid.  A row is written long after it was     *)
(* read, so the invariant is about the rows that handlers still hold.      *)
(*                                                                         *)
(* The last part is about the payments of MCBackground, and so about what  *)
(* the service keeps only as long as nothing fails, or as requests come    *)
(* one at a time.                                                          *)
(***************************************************************************)
EXTENDS MCBackground, FiniteSetTheorems, TLAPS

\* A row that may stand in the table: completed means paid, and a refund is
\* covered by what was paid.
Sound(r) ==
    /\ r.status = "completed" => r.txn # 0
    /\ r.refund # 0 => r.status = "completed" /\ r.refund <= r.amount

\* A row about to be saved is of the stored payment's order and amount,
\* and completed.
HeldRowFits(c) ==
    c.pc = "save" =>
        /\ Exists(c.id)
        /\ c.row.status = "completed"
        /\ c.row.order = payment[c.id].order
        /\ c.row.amount = payment[c.id].amount

\* A row about to be inserted has an id no one else has.
FreshId(p) ==
    call[p].pc = "insert" =>
        /\ ~Exists(call[p].id)
        /\ \A q \in Procs \ {p} : call[q] # PaymentIdle => call[q].id # call[p].id

RowsSound == \A id \in Payments : Sound(payment[id])

HeldRows == \A p \in Procs : call[p] # PaymentIdle => Sound(call[p].row) /\ HeldRowFits(call[p])

FreshIds == \A p \in Procs : FreshId(p)

IInv == PaymentTypeOK /\ RowsSound /\ HeldRows /\ FreshIds

-----------------------------------------------------------------------------

LEMMA IdleIsNoCall == PaymentIdle \notin Call /\ \A c \in Call : c.pc # "idle"
BY DEF PaymentIdle, Call

LEMMA AbsentIsNoRow == PaymentAbsent \notin PaymentRow
BY DEF PaymentAbsent, PaymentRow

LEMMA InitIInv == PaymentInit => IInv
BY DEF PaymentInit, IInv, PaymentTypeOK, RowsSound, Sound, HeldRows, FreshIds, FreshId, PaymentIdle, PaymentAbsent

\* A goroutine takes up a sound row under an id that keeps FreshIds true.
LEMMA Held ==
    ASSUME IInv, NEW p \in Procs, call[p] = PaymentIdle, NEW c \in Call,
           call' = [call EXCEPT ![p] = c], UNCHANGED payment,
           Sound(c.row), HeldRowFits(c),
           c.pc = "insert" => /\ ~Exists(c.id)
                              /\ \A q \in Procs : call[q] # PaymentIdle => call[q].id # c.id,
           c.pc = "save" => Exists(c.id)
    PROVE  /\ call' \in [Procs -> {PaymentIdle} \cup Call]
           /\ (RowsSound /\ HeldRows /\ FreshIds)'
<1>0. call \in [Procs -> {PaymentIdle} \cup Call] BY DEF IInv, PaymentTypeOK
<1>1. call' \in [Procs -> {PaymentIdle} \cup Call] BY <1>0
<1>2. RowsSound' BY DEF IInv, RowsSound
<1>3. HeldRows'
  <2> SUFFICES ASSUME NEW q \in Procs, call'[q] # PaymentIdle
               PROVE  (Sound(call[q].row) /\ HeldRowFits(call[q]))'
      BY DEF HeldRows
  <2>1. CASE q = p BY <2>1, <1>0 DEF HeldRowFits, Exists
  <2>2. CASE q # p BY <2>2, <1>0 DEF IInv, HeldRows, HeldRowFits, Exists
  <2> QED BY <2>1, <2>2
<1>4. FreshIds'
  <2> SUFFICES ASSUME NEW q \in Procs, call'[q].pc = "insert"
               PROVE  FreshId(q)'
      BY DEF FreshIds, FreshId
  <2>1. CASE q = p BY <2>1, <1>0 DEF FreshId, Exists
  <2>2. CASE q # p
    <3>1. call'[q] = call[q] /\ call'[p] = c BY <2>2, <1>0
    <3>2. ~Exists(call[q].id)
          /\ \A r \in Procs \ {q} : call[r] # PaymentIdle => call[r].id # call[q].id
        BY <3>1 DEF IInv, FreshIds, FreshId
    <3>3. call[q] # PaymentIdle BY <3>1 DEF PaymentIdle
    <3>4. c.id # call[q].id BY <3>2, <3>3, <3>1 DEF Call
    <3> QED BY <3>1, <3>2, <3>4, <1>0 DEF FreshId, Exists
  <2> QED BY <2>1, <2>2
<1> QED BY <1>1, <1>2, <1>3, <1>4

\* What starting a handler does: the row it holds is sound, and no id clashes.
LEMMA StartStep ==
    ASSUME IInv, NEW p \in Procs, NEW id \in Payments, PaymentAssumption
    PROVE  /\ \A o \in Orders, a \in Amounts : StartCreate(p, id, o, a) => IInv'
           /\ \A k \in {"process", "webhook"} : Complete(p, id, k) => IInv'
           /\ \A a \in RefundAmounts : RefundPayment(p, id, a) => IInv'
<1> USE DEF PaymentAssumption
<1>1. ASSUME NEW o \in Orders, NEW a \in Amounts, StartCreate(p, id, o, a)
      PROVE  IInv'
  <2> DEFINE c == [pc |-> "insert", kind |-> "create", id |-> id,
                   row |-> [order |-> o, amount |-> a, status |-> "pending",
                            txn |-> 0, refund |-> 0]]
  <2>1. c \in Call BY DEF Call, PaymentRow
  <2>2. call' = [call EXCEPT ![p] = c] /\ call[p] = PaymentIdle /\ UNCHANGED payment
      BY <1>1 DEF StartCreate, Hold
  <2>3. Sound(c.row) /\ HeldRowFits(c) BY DEF Sound, HeldRowFits
  <2>4. ~Exists(c.id) /\ \A q \in Procs : call[q] # PaymentIdle => call[q].id # c.id
      BY <1>1 DEF StartCreate
  <2>5. c.pc = "insert" OBVIOUS
  <2> HIDE DEF c
  <2>6. call' \in [Procs -> {PaymentIdle} \cup Call] /\ (RowsSound /\ HeldRows /\ FreshIds)'
      BY <2>1, <2>2, <2>3, <2>4, <2>5, Held
  <2> QED BY <2>6, <1>1 DEF StartCreate, IInv, PaymentTypeOK
<1>2. ASSUME NEW k \in {"process", "webhook"}, Complete(p, id, k)
      PROVE  IInv'
  <2> DEFINE c == [pc |-> "save", kind |-> k, id |-> id,
                   row |-> [payment[id] EXCEPT !.status = "completed", !.txn = made + 1]]
  <2>1. payment[id] \in PaymentRow BY <1>2 DEF Complete, Exists, IInv, PaymentTypeOK
  <2>2. c.row \in PaymentRow /\ c.row.status = "completed" /\ c.row.txn = made + 1
        /\ c.row.order = payment[id].order /\ c.row.amount = payment[id].amount
        /\ c.row.refund = payment[id].refund
    <3>1. made + 1 \in Nat BY DEF IInv, PaymentTypeOK
    <3> QED BY <2>1, <3>1 DEF PaymentRow
  <2>3. c \in Call BY <2>2 DEF Call
  <2>4. call' = [call EXCEPT ![p] = c] /\ call[p] = PaymentIdle /\ UNCHANGED payment
      BY <1>2 DEF Complete, Hold
  <2>5. Sound(c.row)
      BY <2>2, <2>1 DEF Sound, IInv, RowsSound, PaymentTypeOK, PaymentRow
  <2>6. c.pc = "save" /\ c.id = id /\ Exists(id) BY <1>2 DEF Complete
  <2> HIDE DEF c
  <2>7. HeldRowFits(c) BY <2>2, <2>6 DEF HeldRowFits
  <2>8. call' \in [Procs -> {PaymentIdle} \cup Call] /\ (RowsSound /\ HeldRows /\ FreshIds)'
      BY <2>3, <2>4, <2>5, <2>6, <2>7, Held
  <2> QED BY <2>8, <1>2 DEF Complete, IInv, PaymentTypeOK
<1>3. ASSUME NEW a \in RefundAmounts, RefundPayment(p, id, a)
      PROVE  IInv'
  <2> DEFINE c == [pc |-> "save", kind |-> "refund", id |-> id,
                   row |-> [payment[id] EXCEPT !.refund = a]]
  <2>1. payment[id].status = "completed" /\ a <= payment[id].amount
      BY <1>3 DEF RefundPayment
  <2>2. payment[id] \in PaymentRow /\ Exists(id) BY <2>1 DEF IInv, PaymentTypeOK, PaymentAbsent, Exists
  <2>3. c.row \in PaymentRow /\ c.row.status = "completed" /\ c.row.txn = payment[id].txn
        /\ c.row.order = payment[id].order /\ c.row.amount = payment[id].amount
        /\ c.row.refund = a
      BY <2>1, <2>2 DEF PaymentRow
  <2>4. c \in Call BY <2>3 DEF Call
  <2>5. call' = [call EXCEPT ![p] = c] /\ call[p] = PaymentIdle /\ UNCHANGED payment
      BY <1>3 DEF RefundPayment, Hold
  <2>6. Sound(c.row)
      BY <2>1, <2>2, <2>3 DEF Sound, IInv, RowsSound
  <2>7. c.pc = "save" /\ c.id = id OBVIOUS
  <2> HIDE DEF c
  <2>8. HeldRowFits(c) BY <2>2, <2>3, <2>7 DEF HeldRowFits
  <2>9. call' \in [Procs -> {PaymentIdle} \cup Call] /\ (RowsSound /\ HeldRows /\ FreshIds)'
      BY <2>2, <2>4, <2>5, <2>6, <2>7, <2>8, Held
  <2> QED BY <2>9, <1>3 DEF RefundPayment, IInv, PaymentTypeOK
<1> QED BY <1>1, <1>2, <1>3

\* A goroutine that ends, and takes nothing with it, disturbs no other.
LEMMA Ended ==
    ASSUME IInv, NEW p \in Procs, Answer(p), UNCHANGED payment
    PROVE  /\ call' \in [Procs -> {PaymentIdle} \cup Call]
           /\ (RowsSound /\ HeldRows /\ FreshIds)'
BY DEF IInv, PaymentTypeOK, Answer, RowsSound, HeldRows, HeldRowFits, Exists, FreshIds,
       FreshId, PaymentIdle

LEMMA WriteStep ==
    ASSUME IInv, NEW p \in Procs, WriteRow(p)
    PROVE  IInv'
<1> DEFINE c == call[p]
<1>1. c \in Call /\ c # PaymentIdle BY DEF WriteRow, IInv, PaymentTypeOK
<1>2. c.id \in Payments /\ c.row \in PaymentRow /\ c.pc \in {"insert", "save"}
      /\ c.row.refund \in Int /\ c.row # PaymentAbsent
    BY <1>1, AbsentIsNoRow DEF Call, PaymentRow
<1>3. payment' = [payment EXCEPT ![c.id] = c.row] BY DEF WriteRow
<1>4. call' = [call EXCEPT ![p] = PaymentIdle] BY DEF WriteRow, Answer
<1>5. Sound(c.row) /\ HeldRowFits(c) BY <1>1 DEF IInv, HeldRows
<1> HIDE DEF c
<1>6. PaymentTypeOK'
  <2>1. payment' \in [Payments -> {PaymentAbsent} \cup PaymentRow] BY <1>2, <1>3 DEF IInv, PaymentTypeOK
  <2>2. call' \in [Procs -> {PaymentIdle} \cup Call] BY <1>4 DEF IInv, PaymentTypeOK
  <2>3. made' \in Nat /\ acked' \subseteq Payments
      BY <1>2 DEF WriteRow, Answer, IInv, PaymentTypeOK, c
  <2> QED BY <2>1, <2>2, <2>3 DEF PaymentTypeOK
<1>7. RowsSound' BY <1>2, <1>3, <1>5 DEF IInv, PaymentTypeOK, RowsSound
<1>8. ASSUME NEW q \in Procs, q # p, call[q] # PaymentIdle
      PROVE  /\ call[q].pc = "insert" => call[q].id # c.id
             /\ c.pc = "insert" => call[q].id # c.id
             /\ call[q].pc = "save" => Exists(call[q].id) /\ call[q].id \in Payments
  BY <1>8, <1>1 DEF IInv, FreshIds, FreshId, HeldRows, HeldRowFits, c, PaymentTypeOK, Call
<1>9. HeldRows'
  <2> SUFFICES ASSUME NEW q \in Procs, call'[q] # PaymentIdle
               PROVE  (Sound(call[q].row) /\ HeldRowFits(call[q]))'
      BY DEF HeldRows
  <2>1. q # p /\ call'[q] = call[q] BY <1>4 DEF IInv, PaymentTypeOK
  <2>2. Sound(call[q].row) /\ HeldRowFits(call[q]) BY <2>1 DEF IInv, HeldRows
  <2>3. CASE call[q].pc = "save" /\ call[q].id = c.id
    <3>1. c.pc = "save" BY <2>3, <2>1, <1>8, <1>2
    <3>2. c.row.order = payment[c.id].order /\ c.row.amount = payment[c.id].amount
        BY <3>1, <1>5 DEF HeldRowFits
    <3>3. payment'[c.id] = c.row BY <1>2, <1>3 DEF IInv, PaymentTypeOK
    <3> QED BY <2>1, <2>2, <2>3, <3>2, <3>3, <1>2 DEF HeldRowFits, Exists
  <2>4. CASE call[q].pc = "save" /\ call[q].id # c.id
    <3>1. payment'[call[q].id] = payment[call[q].id]
        BY <2>4, <1>3, <1>8, <2>1 DEF IInv, PaymentTypeOK
    <3> QED BY <2>1, <2>2, <3>1 DEF HeldRowFits, Exists
  <2>5. CASE call[q].pc # "save" BY <2>5, <2>1, <2>2 DEF HeldRowFits
  <2> QED BY <2>3, <2>4, <2>5
<1>10. FreshIds'
  <2> SUFFICES ASSUME NEW q \in Procs, call'[q].pc = "insert"
               PROVE  FreshId(q)'
      BY DEF FreshIds, FreshId
  <2>1. q # p /\ call'[q] = call[q] /\ call[q] # PaymentIdle
      BY <1>4 DEF IInv, PaymentTypeOK, PaymentIdle
  <2>2. ~Exists(call[q].id) /\ call[q].id # c.id /\ call[q].id \in Payments
      BY <2>1, <1>8 DEF IInv, PaymentTypeOK, FreshIds, FreshId, Call
  <2>3. payment'[call[q].id] = PaymentAbsent BY <2>2, <1>3 DEF IInv, PaymentTypeOK, Exists
  <2>4. \A r \in Procs \ {q} : call[r] # PaymentIdle => call[r].id # call[q].id
      BY <2>1 DEF IInv, FreshIds, FreshId
  <2> QED BY <2>1, <2>3, <2>4, <1>4 DEF IInv, PaymentTypeOK, Exists, FreshId
<1> QED BY <1>6, <1>7, <1>9, <1>10 DEF IInv

LEMMA NextIInv == IInv /\ [PaymentNext]_paymentVars => IInv'
<1> SUFFICES ASSUME IInv, [PaymentNext]_paymentVars PROVE IInv'
    OBVIOUS
<1>1. ASSUME NEW p \in Procs, Handle(p) PROVE IInv'
  <2> PICK id \in Payments :
        \/ \E o \in Orders, a \in Amounts : CreatePayment(p, id, o, a)
        \/ ProcessPayment(p, id)
        \/ StripeWebhook(p, id)
        \/ \E a \in RefundAmounts : RefundPayment(p, id, a)
      BY <1>1 DEF Handle
  <2> QED BY StartStep, PaymentAssumption DEF CreatePayment, ProcessPayment, StripeWebhook
<1>2. ASSUME NEW p \in Procs, WriteRow(p) PROVE IInv'
    BY <1>2, WriteStep
<1>3. ASSUME NEW p \in Procs, NEW id \in Payments, NEW o \in Orders, NEW a \in Amounts,
             LookupError(p, id, o, a)
      PROVE  IInv'
    BY <1>3, StartStep, PaymentAssumption DEF LookupError
<1>4. ASSUME NEW p \in Procs, NEW id \in Payments, WebhookError(p, id) PROVE IInv'
    BY <1>4 DEF WebhookError, IInv, PaymentTypeOK, RowsSound, HeldRows, HeldRowFits, Exists,
                FreshIds, FreshId
<1>5. ASSUME NEW p \in Procs, PaymentWriteError(p) PROVE IInv'
  <2>1. call' \in [Procs -> {PaymentIdle} \cup Call] /\ (RowsSound /\ HeldRows /\ FreshIds)'
      BY <1>5, Ended DEF PaymentWriteError
  <2>2. acked' \subseteq Payments
      BY <1>5 DEF PaymentWriteError, Answer, IInv, PaymentTypeOK, Call
  <2> QED BY <1>5, <2>1, <2>2 DEF PaymentWriteError, IInv, PaymentTypeOK
<1>6. CASE PaymentCrash
    BY <1>6 DEF PaymentCrash, IInv, PaymentTypeOK, RowsSound, HeldRows, HeldRowFits, FreshIds, FreshId,
                PaymentIdle
<1>7. CASE UNCHANGED paymentVars
    BY <1>7 DEF paymentVars, IInv, PaymentTypeOK, RowsSound, HeldRows, HeldRowFits, FreshIds, FreshId,
                Exists
<1> QED BY <1>1, <1>2, <1>3, <1>4, <1>5, <1>6, <1>7 DEF PaymentNext, PaymentCalmNext, PaymentFault

THEOREM Invariance == PaymentSpec => []IInv
BY InitIInv, NextIInv, PTL DEF PaymentSpec

-----------------------------------------------------------------------------

\* Every variable keeps its type, through every handler and failure.
THEOREM TypeCorrect == PaymentSpec => []PaymentTypeOK
<1>1. IInv => PaymentTypeOK BY DEF IInv
<1> QED BY <1>1, Invariance, PTL

\* A stored refund is of a paid payment and within its amount, although
\* RefundPayment judges a row that others may have saved over since.
THEOREM RefundsCovered == PaymentSpec => []RefundIsCovered
<1>1. IInv => RefundIsCovered BY DEF IInv, RowsSound, Sound, RefundIsCovered
<1> QED BY <1>1, Invariance, PTL

\* What PaidStaysPaid says of a step.
Kept ==
    \A id \in Payments : payment[id].status = "completed" =>
        /\ payment'[id].status = "completed"
        /\ payment'[id].order = payment[id].order
        /\ payment'[id].amount = payment[id].amount

LEMMA KeptStep == IInv /\ [PaymentNext]_paymentVars => Kept
<1> SUFFICES ASSUME IInv, [PaymentNext]_paymentVars PROVE Kept
    OBVIOUS
<1>1. ASSUME NEW p \in Procs, WriteRow(p) PROVE Kept
  <2> SUFFICES ASSUME NEW id \in Payments, payment[id].status = "completed"
               PROVE  /\ payment'[id].status = "completed"
                      /\ payment'[id].order = payment[id].order
                      /\ payment'[id].amount = payment[id].amount
      BY DEF Kept
  <2>1. payment' = [payment EXCEPT ![call[p].id] = call[p].row] BY <1>1 DEF WriteRow
  <2>2. CASE id # call[p].id BY <2>1, <2>2 DEF IInv, PaymentTypeOK
  <2>3. CASE id = call[p].id
    <3>1. Exists(id) BY DEF Exists, PaymentAbsent
    <3>2. call[p].pc = "save"
        BY <3>1, <2>3, <1>1 DEF WriteRow, IInv, PaymentTypeOK, Call, FreshIds, FreshId
    <3>3. HeldRowFits(call[p]) BY <1>1 DEF WriteRow, IInv, HeldRows
    <3> QED BY <3>2, <3>3, <2>1, <2>3 DEF HeldRowFits, IInv, PaymentTypeOK
  <2> QED BY <2>2, <2>3
<1>2. ASSUME UNCHANGED payment PROVE Kept BY <1>2 DEF Kept
<1>3. ASSUME NEW p \in Procs, Handle(p) PROVE UNCHANGED payment
    BY <1>3 DEF Handle, CreatePayment, StartCreate, ProcessPayment, StripeWebhook,
                Complete, RefundPayment
<1>4. PaymentFault => UNCHANGED payment
    BY DEF PaymentFault, LookupError, StartCreate, WebhookError, PaymentWriteError, PaymentCrash
<1> QED BY <1>1, <1>2, <1>3, <1>4 DEF PaymentNext, PaymentCalmNext, paymentVars

\* No Save of an older copy takes a completed payment back.
THEOREM PaidIsFinal == PaymentSpec => PaidStaysPaid
<1>1. IInv /\ [PaymentNext]_paymentVars => [Kept]_paymentVars BY KeptStep
<1> QED BY <1>1, Invariance, PTL DEF PaymentSpec, PaidStaysPaid, Kept

-----------------------------------------------------------------------------
(* While nothing fails, and while requests come one at a time.             *)

Busy == {p \in Procs : call[p] # PaymentIdle}

OneBusy == \A p, q \in Procs : call[p] # PaymentIdle /\ call[q] # PaymentIdle => p = q

\* What a webhook is about to save is a completed payment.
WebhooksComplete ==
    \A p \in Procs : call[p] # PaymentIdle /\ call[p].kind = "webhook" => call[p].row.status = "completed"

\* What a lone request is about to write: a payment of an order that has none,
\* or a row that has the stored one's refund.
CalmCall(c) ==
    /\ c.pc = "insert" => ~Paid(c.row.order)
    /\ c.pc = "save" /\ payment[c.id].refund # 0 => c.row.refund # 0

Calm ==
    /\ paymentFaults = 0
    /\ OneBusy
    /\ OnePaymentPerOrder
    /\ \A p \in Procs : call[p] # PaymentIdle => CalmCall(call[p])

\* Only finitely many requests are ever under way, so that they can be counted.
MCIInv ==
    /\ IInv
    /\ IsFiniteSet(Busy)
    /\ paymentFaults \in Nat
    /\ WebhooksComplete
    /\ FaultlessAckedIsCompleted
    /\ paymentCalm => Calm

LEMMA AtMostOne ==
    ASSUME NEW S, IsFiniteSet(S), Cardinality(S) <= 1, NEW x \in S, NEW y \in S
    PROVE  x = y
<1>1. Cardinality(S) \in Nat BY FS_CardinalityType
<1>2. Cardinality(S) # 0 BY FS_EmptySet
<1>3. Cardinality(S) = 1 BY <1>1, <1>2
<1>4. PICK z : S = {z} BY <1>3, FS_Singleton
<1> QED BY <1>4

LEMMA InitMCIInv == MCPaymentInit => MCIInv
<1> SUFFICES ASSUME MCPaymentInit PROVE MCIInv
    OBVIOUS
<1>1. IInv BY InitIInv DEF MCPaymentInit
<1>2. /\ \A p \in Procs : call[p] = PaymentIdle
      /\ \A id \in Payments : payment[id] = PaymentAbsent
      /\ acked = {}
    BY DEF MCPaymentInit, PaymentInit
<1>3. Busy = {} BY <1>2 DEF Busy
<1>4. WebhooksComplete /\ FaultlessAckedIsCompleted
    BY <1>2 DEF WebhooksComplete, FaultlessAckedIsCompleted, AckedIsCompleted
<1>5. OneBusy /\ OnePaymentPerOrder /\ \A p \in Procs : call[p] # PaymentIdle => CalmCall(call[p])
    BY <1>2 DEF OneBusy, OnePaymentPerOrder, Exists
<1> QED BY <1>1, <1>3, <1>4, <1>5, FS_EmptySet DEF MCPaymentInit, MCIInv, Calm

\* What each step does to the calls: one is taken up, one ends, all end, or
\* nothing changes.
LEMMA CallsStep ==
    ASSUME IInv, [PaymentNext]_paymentVars
    PROVE  \/ \E p \in Procs : \E c : call' = [call EXCEPT ![p] = c]
           \/ call' = [p \in Procs |-> PaymentIdle]
           \/ call' = call
BY DEF PaymentNext, PaymentCalmNext, PaymentFault, Handle, CreatePayment, StartCreate, Hold, ProcessPayment,
       StripeWebhook, Complete, RefundPayment, WriteRow, Answer, LookupError, WebhookError,
       PaymentWriteError, PaymentCrash, paymentVars

LEMMA BusyStep ==
    ASSUME IInv, IsFiniteSet(Busy), [PaymentNext]_paymentVars
    PROVE  IsFiniteSet(Busy')
<1>1. call \in [Procs -> {PaymentIdle} \cup Call] BY DEF IInv, PaymentTypeOK
<1>2. ASSUME NEW p \in Procs, NEW c, call' = [call EXCEPT ![p] = c]
      PROVE  IsFiniteSet(Busy')
  <2>1. Busy' \in SUBSET (Busy \cup {p}) BY <1>1, <1>2 DEF Busy
  <2>2. IsFiniteSet(Busy \cup {p}) BY FS_AddElement
  <2> QED BY <2>1, <2>2, FS_Subset
<1>3. ASSUME call' = [p \in Procs |-> PaymentIdle] PROVE IsFiniteSet(Busy')
  <2>1. Busy' = {} BY <1>3 DEF Busy
  <2> QED BY <2>1, FS_EmptySet
<1>4. ASSUME call' = call PROVE IsFiniteSet(Busy')
  <2>1. Busy' = Busy BY <1>4 DEF Busy
  <2> QED BY <2>1
<1> QED BY <1>2, <1>3, <1>4, CallsStep

\* A step of PaymentService leaves webhooks with completed payments in hand.
LEMMA WebhooksStep ==
    ASSUME IInv, WebhooksComplete, [PaymentNext]_paymentVars
    PROVE  WebhooksComplete'
<1>1. call \in [Procs -> {PaymentIdle} \cup Call] BY DEF IInv, PaymentTypeOK
<1>2. ASSUME NEW p \in Procs, NEW c, call' = [call EXCEPT ![p] = c],
             c # PaymentIdle /\ c.kind = "webhook" => c.row.status = "completed"
      PROVE  WebhooksComplete'
    BY <1>1, <1>2 DEF WebhooksComplete
<1>3. ASSUME NEW p \in Procs, Handle(p) PROVE WebhooksComplete'
  <2> PICK id \in Payments :
        \/ \E o \in Orders, a \in Amounts : CreatePayment(p, id, o, a)
        \/ ProcessPayment(p, id)
        \/ StripeWebhook(p, id)
        \/ \E a \in RefundAmounts : RefundPayment(p, id, a)
      BY <1>3 DEF Handle
  <2>1. CASE \E o \in Orders, a \in Amounts : CreatePayment(p, id, o, a)
      BY <2>1, <1>2 DEF CreatePayment, StartCreate, Hold
  <2>2. ASSUME NEW k, Complete(p, id, k) PROVE WebhooksComplete'
    <3>1. payment[id] \in PaymentRow BY <2>2 DEF Complete, Exists, IInv, PaymentTypeOK
    <3> DEFINE r == [payment[id] EXCEPT !.status = "completed", !.txn = made + 1]
    <3>2. r.status = "completed" BY <3>1 DEF PaymentRow
    <3>3. call' = [call EXCEPT ![p] = [pc |-> "save", kind |-> k, id |-> id, row |-> r]]
        BY <2>2 DEF Complete, Hold
    <3> HIDE DEF r
    <3> QED BY <3>2, <3>3, <1>2
  <2>3. CASE \E a \in RefundAmounts : RefundPayment(p, id, a)
      BY <2>3, <1>2 DEF RefundPayment, Hold
  <2> QED BY <2>1, <2>2, <2>3 DEF ProcessPayment, StripeWebhook
<1>4. ASSUME NEW p \in Procs, NEW id \in Payments, NEW o \in Orders, NEW a \in Amounts,
             LookupError(p, id, o, a)
      PROVE  WebhooksComplete'
    BY <1>4, <1>2 DEF LookupError, StartCreate, Hold
<1>5. ASSUME NEW p \in Procs, WriteRow(p) \/ PaymentWriteError(p) PROVE WebhooksComplete'
  <2>1. call' = [call EXCEPT ![p] = PaymentIdle] BY <1>5 DEF WriteRow, PaymentWriteError, Answer
  <2> QED BY <2>1, <1>2
<1>6. ASSUME call' = call PROVE WebhooksComplete' BY <1>6 DEF WebhooksComplete
<1>7. CASE PaymentCrash BY <1>7 DEF PaymentCrash, WebhooksComplete
<1> QED BY <1>3, <1>4, <1>5, <1>6, <1>7 DEF PaymentNext, PaymentCalmNext, PaymentFault, WebhookError, paymentVars

\* Failures are counted.
LEMMA FaultsStep ==
    ASSUME [MCPaymentNext]_mcPaymentVars, paymentFaults \in Nat
    PROVE  /\ paymentFaults' \in Nat
           /\ paymentFaults' = 0 =>
                /\ paymentFaults = 0
                /\ (\E p \in Procs : Handle(p) \/ WriteRow(p)) \/ UNCHANGED paymentVars
<1>1. \/ (\E p \in Procs : Handle(p) \/ WriteRow(p)) /\ UNCHANGED paymentFaults
      \/ paymentFaults' = paymentFaults + 1
      \/ UNCHANGED <<paymentVars, paymentFaults>>
    BY DEF MCPaymentNext, Step, mcPaymentVars
<1> QED BY <1>1

\* As long as nothing fails, only a write answers a webhook, and what it writes
\* is completed; others keep it so.
LEMMA AckedStep ==
    ASSUME MCIInv, [MCPaymentNext]_mcPaymentVars, paymentFaults' = 0
    PROVE  AckedIsCompleted'
<1>1. IInv /\ IInv' /\ WebhooksComplete /\ [PaymentNext]_paymentVars /\ Kept
    BY NextIInv, KeptStep DEF MCIInv, MCPaymentNext, Step, PaymentCalmNext, PaymentNext, mcPaymentVars
<1>2. paymentFaults = 0 /\ (PaymentCalmNext \/ UNCHANGED paymentVars)
    BY FaultsStep DEF MCIInv, PaymentCalmNext
<1>3. AckedIsCompleted BY <1>2 DEF MCIInv, FaultlessAckedIsCompleted
<1>4. ASSUME NEW p \in Procs, WriteRow(p), call[p].kind = "webhook"
      PROVE  payment'[call[p].id].status = "completed"
    BY <1>1, <1>4 DEF WriteRow, WebhooksComplete, IInv, PaymentTypeOK, Call
<1>5. ASSUME NEW id \in acked' PROVE payment'[id].status = "completed"
  <2>1. CASE id \in acked
    <3>1. id \in Payments /\ payment[id].status = "completed"
        BY <2>1, <1>1, <1>3 DEF IInv, PaymentTypeOK, AckedIsCompleted
    <3> QED BY <3>1, <1>1 DEF Kept
  <2>2. CASE id \notin acked
    <3>1. PICK p \in Procs : WriteRow(p)
        BY <2>2, <1>2 DEF PaymentCalmNext, Handle, CreatePayment, StartCreate, ProcessPayment,
                          StripeWebhook, Complete, RefundPayment, paymentVars
    <3>2. id = call[p].id /\ call[p].kind = "webhook" BY <3>1, <2>2 DEF WriteRow, Answer
    <3> QED BY <3>1, <3>2, <1>4
  <2> QED BY <2>1, <2>2
<1> QED BY <1>5 DEF AckedIsCompleted

\* What the monitor's paymentCalm says of a step.
LEMMA CalmNextStep ==
    ASSUME MCIInv, [MCPaymentNext]_mcPaymentVars, paymentCalm'
    PROVE  paymentCalm /\ paymentFaults' = 0 /\ OneBusy' /\ (PaymentCalmNext \/ UNCHANGED paymentVars)
<1>1. CASE MCPaymentNext
  <2>1. paymentCalm /\ paymentFaults' = 0 /\ Cardinality(Busy') <= 1 BY <1>1 DEF MCPaymentNext, Busy
  <2>2. PaymentCalmNext BY <1>1, <2>1 DEF MCPaymentNext, Step, PaymentCalmNext, MCIInv
  <2>3. IsFiniteSet(Busy') BY <2>2, BusyStep DEF MCIInv, PaymentNext
  <2>4. OneBusy' BY <2>1, <2>3, AtMostOne DEF OneBusy, Busy
  <2> QED BY <2>1, <2>2, <2>4
<1>2. CASE UNCHANGED mcPaymentVars BY <1>2 DEF mcPaymentVars, paymentVars, MCIInv, Calm, OneBusy
<1> QED BY <1>1, <1>2

\* A request that starts alone looks at rows that stay as they are until it
\* writes.
LEMMA CalmHandle ==
    ASSUME IInv, Calm, OneBusy', NEW p \in Procs, Handle(p)
    PROVE  OnePaymentPerOrder' /\ \A q \in Procs : call'[q] # PaymentIdle => CalmCall(call[q])'
<1>1. call \in [Procs -> {PaymentIdle} \cup Call] BY DEF IInv, PaymentTypeOK
<1>2. PICK id \in Payments :
        \/ \E o \in Orders, a \in Amounts : CreatePayment(p, id, o, a)
        \/ ProcessPayment(p, id)
        \/ StripeWebhook(p, id)
        \/ \E a \in RefundAmounts : RefundPayment(p, id, a)
    BY DEF Handle
<1>3. payment' = payment
    BY <1>2 DEF CreatePayment, StartCreate, ProcessPayment, StripeWebhook, Complete,
                RefundPayment
<1>4. OnePaymentPerOrder' BY <1>3 DEF Calm, OnePaymentPerOrder, Exists
<1>5. ASSUME NEW c, call' = [call EXCEPT ![p] = c], c.pc \in {"insert", "save"},
             CalmCall(c)
      PROVE  \A q \in Procs : call'[q] # PaymentIdle => CalmCall(call[q])'
  <2>1. call'[p] = c /\ c # PaymentIdle BY <1>1, <1>5 DEF PaymentIdle
  <2>2. \A q \in Procs : call'[q] # PaymentIdle => q = p BY <2>1 DEF OneBusy
  <2> QED BY <2>1, <2>2, <1>3, <1>5 DEF CalmCall, Paid
<1>6. CASE \E o \in Orders, a \in Amounts : CreatePayment(p, id, o, a)
    BY <1>4, <1>5, <1>6 DEF CreatePayment, StartCreate, Hold, CalmCall
<1>7. ASSUME NEW k, Complete(p, id, k)
      PROVE  \A q \in Procs : call'[q] # PaymentIdle => CalmCall(call[q])'
  <2> DEFINE r == [payment[id] EXCEPT !.status = "completed", !.txn = made + 1]
  <2>1. payment[id] \in PaymentRow BY <1>7 DEF Complete, Exists, IInv, PaymentTypeOK
  <2>2. r.refund = payment[id].refund BY <2>1 DEF PaymentRow
  <2>3. call' = [call EXCEPT ![p] = [pc |-> "save", kind |-> k, id |-> id, row |-> r]]
      BY <1>7 DEF Complete, Hold
  <2> HIDE DEF r
  <2> QED BY <2>2, <2>3, <1>5 DEF CalmCall
<1>8. ASSUME NEW a \in RefundAmounts, RefundPayment(p, id, a)
      PROVE  \A q \in Procs : call'[q] # PaymentIdle => CalmCall(call[q])'
  <2> DEFINE r == [payment[id] EXCEPT !.refund = a]
  <2>1. payment[id] \in PaymentRow BY <1>8 DEF RefundPayment, IInv, PaymentTypeOK, PaymentAbsent
  <2>2. r.refund = a /\ a # 0 BY <2>1, PaymentAssumption DEF PaymentRow
  <2>3. call' = [call EXCEPT ![p] = [pc |-> "save", kind |-> "refund", id |-> id, row |-> r]]
      BY <1>8 DEF RefundPayment, Hold
  <2> HIDE DEF r
  <2> QED BY <2>2, <2>3, <1>5 DEF CalmCall
<1> QED BY <1>2, <1>4, <1>6, <1>7, <1>8 DEF ProcessPayment, StripeWebhook

\* A request that is alone writes a first payment of its order, or a row that
\* keeps order and refund.
LEMMA CalmWrite ==
    ASSUME IInv, Calm, NEW p \in Procs, WriteRow(p)
    PROVE  /\ OnePaymentPerOrder' /\ RefundIsKept
           /\ \A q \in Procs : call'[q] = PaymentIdle
<1> DEFINE c == call[p]
<1>1. c \in Call /\ c # PaymentIdle /\ CalmCall(c) BY DEF WriteRow, IInv, PaymentTypeOK, Calm
<1>2. c.id \in Payments /\ c.pc \in {"insert", "save"} BY <1>1 DEF Call
<1>3. /\ payment'[c.id] = c.row
      /\ \A id \in Payments \ {c.id} : payment'[id] = payment[id]
    BY <1>2 DEF WriteRow, IInv, PaymentTypeOK
<1>4. \A q \in Procs : call'[q] = PaymentIdle
    BY <1>1 DEF WriteRow, Answer, Calm, OneBusy, IInv, PaymentTypeOK
<1>5. CASE c.pc = "insert"
  <2>1. ~Exists(c.id) BY <1>5 DEF IInv, FreshIds, FreshId
  <2>2. \A id \in Payments : payment[id].order # c.row.order
      BY <1>1, <1>5 DEF CalmCall, Paid
  <2>3. OnePaymentPerOrder' BY <1>2, <1>3, <2>2 DEF Calm, OnePaymentPerOrder, Exists
  <2>4. RefundIsKept BY <1>2, <1>3, <2>1 DEF RefundIsKept, Exists, PaymentAbsent
  <2> QED BY <1>4, <2>3, <2>4
<1>6. CASE c.pc = "save"
  <2>1. HeldRowFits(c) BY <1>1 DEF IInv, HeldRows
  <2>2. Exists(c.id) /\ c.row.order = payment[c.id].order
        /\ (payment[c.id].refund # 0 => c.row.refund # 0)
      BY <1>1, <1>6, <2>1 DEF HeldRowFits, CalmCall
  <2>3. OnePaymentPerOrder' BY <1>2, <1>3, <2>2 DEF Calm, OnePaymentPerOrder, Exists
  <2>4. RefundIsKept BY <1>2, <1>3, <2>2 DEF RefundIsKept
  <2> QED BY <1>4, <2>3, <2>4
<1> QED BY <1>2, <1>5, <1>6

LEMMA MCStep == MCIInv /\ [MCPaymentNext]_mcPaymentVars => MCIInv' /\ (paymentCalm' => RefundIsKept)
<1> SUFFICES ASSUME MCIInv, [MCPaymentNext]_mcPaymentVars
             PROVE  MCIInv' /\ (paymentCalm' => RefundIsKept)
    OBVIOUS
<1>1. [PaymentNext]_paymentVars BY DEF MCPaymentNext, Step, PaymentCalmNext, PaymentNext, mcPaymentVars
<1>2. IInv' /\ IsFiniteSet(Busy') /\ WebhooksComplete'
    BY <1>1, NextIInv, BusyStep, WebhooksStep DEF MCIInv
<1>3. paymentFaults' \in Nat BY FaultsStep DEF MCIInv
<1>4. FaultlessAckedIsCompleted' BY AckedStep DEF FaultlessAckedIsCompleted
<1>5. ASSUME paymentCalm' PROVE Calm' /\ RefundIsKept
  <2>1. paymentCalm /\ Calm /\ paymentFaults' = 0 /\ OneBusy' /\ (PaymentCalmNext \/ UNCHANGED paymentVars)
      BY <1>5, CalmNextStep DEF MCIInv
  <2>2. CASE UNCHANGED paymentVars
      BY <2>1, <2>2 DEF paymentVars, Calm, OnePaymentPerOrder, Exists, CalmCall, Paid, RefundIsKept
  <2>3. ASSUME NEW p \in Procs, Handle(p) PROVE Calm' /\ RefundIsKept
    <3>1. payment' = payment
        BY <2>3 DEF Handle, CreatePayment, StartCreate, ProcessPayment, StripeWebhook,
                    Complete, RefundPayment
    <3> QED BY <2>1, <2>3, <3>1, CalmHandle DEF MCIInv, Calm, RefundIsKept
  <2>4. ASSUME NEW p \in Procs, WriteRow(p) PROVE Calm' /\ RefundIsKept
      BY <2>1, <2>4, CalmWrite DEF MCIInv, Calm
  <2> QED BY <2>1, <2>2, <2>3, <2>4 DEF PaymentCalmNext
<1> QED BY <1>2, <1>3, <1>4, <1>5 DEF MCIInv

THEOREM MCInvariance == MCPaymentSpec => []MCIInv
BY InitMCIInv, MCStep, PTL DEF MCPaymentSpec

\* A webhook that was answered stays answered for: until something fails, its
\* payment is completed, however requests interleave.
THEOREM AckedWhileFaultless == MCPaymentSpec => []FaultlessAckedIsCompleted
<1>1. MCIInv => FaultlessAckedIsCompleted BY DEF MCIInv
<1> QED BY <1>1, MCInvariance, PTL

\* One request at a time keeps one payment per order and every stored refund:
\* what races break is not broken by any sequence of requests.
THEOREM KeptWhenCalm == MCPaymentSpec => CalmPaymentsKept
<1>1. MCIInv => (paymentCalm => OnePaymentPerOrder) BY DEF MCIInv, Calm
<1>2. MCIInv /\ [MCPaymentNext]_mcPaymentVars => [paymentCalm' => RefundIsKept]_mcPaymentVars BY MCStep
<1> QED BY <1>1, <1>2, MCInvariance, PTL DEF MCPaymentSpec, CalmPaymentsKept
=============================================================================
