-------------------------- MODULE IdempotentPayment --------------------------
(***************************************************************************)
(* backend/pkg/payment/idempotency_payment.go: a payment is charged under  *)
(* a client's idempotency key, with retries inside a request and retries   *)
(* of attempts that failed.  Each repository or gateway call is an action. *)
(*                                                                         *)
(* The repositories are interfaces.  SaveKey must overwrite, for a failed  *)
(* key is used again; UpdateKeyStatus changes a key that is there.  An     *)
(* attempt is only ever updated, SaveAttempt is called by nobody: whether  *)
(* an update of an attempt that is not there inserts it, as the Save of    *)
(* gorm does that is the code base's usual update, is UpdateInserts.       *)
(* Attempts are numbered as they are made, and GetAttemptsByKey lists them *)
(* so; a number that nothing refers to any more is free again.             *)
(***************************************************************************)
EXTENDS Integers

CONSTANTS
    Keys,         \* idempotency keys
    MaxAttempts,  \* attempts ever made
    MaxRetries,   \* charges tried for one attempt, at least one
    Procs,        \* request goroutines
    NoKey,
    UpdateInserts \* whether UpdateAttempt stores an attempt that is not there

VARIABLES
    key,      \* status of each idempotency key
    attempt,  \* table of payment attempts
    call,     \* the request each goroutine runs, with its copy of the attempt
    charged,  \* history variable: what the gateway charged for each attempt
    paid      \* history variable: and under each key

vars == <<key, attempt, call, charged, paid>>

Attempts == 1 .. MaxAttempts

Absent == [key |-> NoKey, status |-> "absent", number |-> 0]

Row == [key : Keys, status : {"pending", "processing", "completed", "failed"},
        number : 1 .. MaxRetries]

Idle == [pc |-> "idle"]

\* What a request does next: save or reset its key, store the attempt's
\* status, call the gateway, or store what became of the key.
Call == [pc : {"saveKey", "resetKey", "processing", "charge", "completed",
               "completeKey", "failed", "failKey"},
         id : Attempts, row : Row]

OfKey(k) == {a \in Attempts : attempt[a].key = k}

IsLast(a, k) == a \in OfKey(k) /\ \A b \in OfKey(k) : b <= a

Fresh(a) ==
    /\ attempt[a] = Absent
    /\ \A p \in Procs : call[p] # Idle => call[p].id # a
    /\ \A b \in 1 .. a - 1 : attempt[b] # Absent \/ \E p \in Procs :
                               call[p] # Idle /\ call[p].id = b

Init ==
    /\ key = [k \in Keys |-> "absent"]
    /\ attempt = [a \in Attempts |-> Absent]
    /\ call = [p \in Procs |-> Idle]
    /\ charged = [a \in Attempts |-> 0]
    /\ paid = [k \in Keys |-> 0]

Hold(p, pc, a, row) == call' = [call EXCEPT ![p] = [pc |-> pc, id |-> a, row |-> row]]

Return(p) == call' = [call EXCEPT ![p] = Idle]

Then(p, pc) == Hold(p, pc, call[p].id, call[p].row)

-----------------------------------------------------------------------------
(* Requests, up to the first call that writes.                             *)

NewAttempt(p, k) ==
    /\ call[p] = Idle
    /\ \E a \in Attempts :
         /\ Fresh(a)
         /\ Hold(p, "saveKey", a, [key |-> k, status |-> "pending", number |-> 1])
    /\ UNCHANGED <<key, attempt, charged, paid>>

\* Faulty: only a completed key is looked for.
ProcessUnlessCompleted(p, k) == key[k] # "completed" /\ NewAttempt(p, k)

\* A completed key is answered with its last attempt, a pending one refused;
\* a completed key without attempts would be charged anew.
ProcessPaymentWithIdempotency(p, k) ==
    /\ key[k] # "pending"
    /\ key[k] = "completed" => OfKey(k) = {}
    /\ NewAttempt(p, k)

RetryFailedPayment(p, a) ==
    /\ call[p] = Idle
    /\ attempt[a].status = "failed"
    /\ Hold(p, "resetKey", a, [attempt[a] EXCEPT !.status = "pending", !.number = 1])
    /\ UNCHANGED <<key, attempt, charged, paid>>

-----------------------------------------------------------------------------
(* The calls of a request.                                                 *)

SaveKey(p) ==
    /\ call[p].pc = "saveKey"
    /\ key' = [key EXCEPT ![call[p].row.key] = "pending"]
    /\ Then(p, "processing")
    /\ UNCHANGED <<attempt, charged, paid>>

SetKey(k, status) == key' = [key EXCEPT ![k] = IF @ = "absent" THEN @ ELSE status]

ResetKey(p) ==
    /\ call[p].pc = "resetKey"
    /\ SetKey(call[p].row.key, "pending")
    /\ Then(p, "processing")
    /\ UNCHANGED <<attempt, charged, paid>>

StoreAttempt(p, status) ==
    IF UpdateInserts \/ attempt[call[p].id] # Absent
    THEN attempt' = [attempt EXCEPT ![call[p].id] = [call[p].row EXCEPT !.status = status]]
    ELSE UNCHANGED attempt

StoreProcessing(p) ==
    /\ call[p].pc = "processing"
    /\ StoreAttempt(p, "processing")
    /\ Then(p, "charge")
    /\ UNCHANGED <<key, charged, paid>>

Pay(p) ==
    /\ charged' = [charged EXCEPT ![call[p].id] = @ + 1]
    /\ paid' = [paid EXCEPT ![call[p].row.key] = @ + 1]

Charge(p) ==
    /\ call[p].pc = "charge"
    /\ Pay(p)
    /\ Then(p, "completed")
    /\ UNCHANGED <<key, attempt>>

ChargeRefused(p) ==
    /\ call[p].pc = "charge"
    /\ Then(p, "failed")
    /\ UNCHANGED <<key, attempt, charged, paid>>

StoreCompleted(p) ==
    /\ call[p].pc = "completed"
    /\ StoreAttempt(p, "completed")
    /\ Then(p, "completeKey")
    /\ UNCHANGED <<key, charged, paid>>

\* Faulty: one try more than was configured.
AfterFailureOnceMore(p) ==
    IF call[p].row.number <= MaxRetries
    THEN Hold(p, "processing", call[p].id, [call[p].row EXCEPT !.number = @ + 1])
    ELSE Then(p, "failKey")

\* Faulty: the key is left pending when the last try fails.
AfterFailureKeepsKey(p) ==
    IF call[p].row.number < MaxRetries
    THEN Hold(p, "processing", call[p].id, [call[p].row EXCEPT !.number = @ + 1])
    ELSE Return(p)

\* The loop goes round again, or has used its last try.
AfterFailure(p) ==
    IF call[p].row.number < MaxRetries
    THEN Hold(p, "processing", call[p].id, [call[p].row EXCEPT !.number = @ + 1])
    ELSE Then(p, "failKey")

StoreFailed(p) ==
    /\ call[p].pc = "failed"
    /\ StoreAttempt(p, "failed")
    /\ AfterFailure(p)
    /\ UNCHANGED <<key, charged, paid>>

\* Faulty: the key is completed whatever the outcome.
FinishKeyCompleted(p) ==
    /\ call[p].pc \in {"completeKey", "failKey"}
    /\ SetKey(call[p].row.key, "completed")
    /\ Return(p)
    /\ UNCHANGED <<attempt, charged, paid>>

FinishKey(p) ==
    /\ call[p].pc \in {"completeKey", "failKey"}
    /\ SetKey(call[p].row.key, IF call[p].pc = "completeKey" THEN "completed" ELSE "failed")
    /\ Return(p)
    /\ UNCHANGED <<attempt, charged, paid>>

CleanupExpiredKeys(k) ==
    /\ key[k] # "absent"
    /\ key' = [key EXCEPT ![k] = "absent"]
    /\ UNCHANGED <<attempt, call, charged, paid>>

-----------------------------------------------------------------------------
(* Failures.                                                               *)

\* The lookup's error counts as "never used".
LookupError(p, k) == key[k] # "absent" /\ NewAttempt(p, k)

\* A repository call fails: the request ends, whether with an error or, when
\* it was the last call, as if nothing were amiss.
StoreError(p) ==
    /\ call[p] # Idle
    /\ call[p].pc # "charge"
    /\ Return(p)
    /\ UNCHANGED <<key, attempt, charged, paid>>

\* The gateway charges, and its answer is an error.
ChargeAnswerLost(p) ==
    /\ call[p].pc = "charge"
    /\ Pay(p)
    /\ Then(p, "failed")
    /\ UNCHANGED <<key, attempt>>

Crash ==
    /\ call' = [p \in Procs |-> Idle]
    /\ UNCHANGED <<key, attempt, charged, paid>>

-----------------------------------------------------------------------------

Continue(p) ==
    \/ SaveKey(p) \/ ResetKey(p)
    \/ StoreProcessing(p) \/ Charge(p) \/ ChargeRefused(p)
    \/ StoreCompleted(p) \/ StoreFailed(p) \/ FinishKey(p)

Request(p) == \E k \in Keys : ProcessPaymentWithIdempotency(p, k)

Retry(p) == \E a \in Attempts : RetryFailedPayment(p, a)

\* A request that ends early leaves its key as it is.
Stop == Crash \/ \E p \in Procs : StoreError(p)

\* What makes the service charge again: a key that is not found, or an answer
\* that is.
Forget ==
    \/ \E k \in Keys : CleanupExpiredKeys(k) \/ \E p \in Procs : LookupError(p, k)
    \/ \E p \in Procs : ChargeAnswerLost(p)

Next == (\E p \in Procs : Request(p) \/ Retry(p) \/ Continue(p)) \/ Stop \/ Forget

Spec == Init /\ [][Next]_vars

\* Calls return, and goroutines that can run do.
Fairness == \A p \in Procs : WF_vars(Continue(p))

-----------------------------------------------------------------------------
(* Properties.                                                             *)

TypeOK ==
    /\ key \in [Keys -> {"absent", "pending", "completed", "failed"}]
    /\ attempt \in [Attempts -> {Absent} \cup Row]
    /\ call \in [Procs -> {Idle} \cup Call]
    /\ charged \in [Attempts -> Nat]
    /\ paid \in [Keys -> Nat]

\* What is stored as completed, an attempt or a key, was charged, however
\* requests, retries, clean-ups and failures interleave.
CompletedWasCharged ==
    /\ \A a \in Attempts : attempt[a].status = "completed" => charged[a] > 0
    /\ \A k \in Keys : key[k] = "completed" => paid[k] > 0

\* "processes a payment with idempotency guarantee"
\* (idempotency_payment.go:86): a key is charged once.
ChargedOnce == \A k \in Keys : paid[k] <= 1

\* "Return cached response" (idempotency_payment.go:94): what a request with
\* a completed key is answered, its last attempt, is a completed one.
RepeatSeesPayment ==
    \A k \in Keys, a \in Attempts :
        key[k] = "completed" /\ IsLast(a, k) => attempt[a].status = "completed"
=============================================================================
