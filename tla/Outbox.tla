-------------------------------- MODULE Outbox --------------------------------
(***************************************************************************)
(* The transactional outbox of backend/pkg/outbox: callers save messages   *)
(* before they commit the change these announce, processors poll for       *)
(* pending ones, publish them and mark what became of them.                *)
(*                                                                         *)
(* Repository and publisher are interfaces: SaveMessage inserts or         *)
(* overwrites a row, the Mark calls change the status of one that is       *)
(* there.  Nothing keeps two processors, say of two instances of a         *)
(* service, from holding copies of the same row.                           *)
(***************************************************************************)
EXTENDS Integers, FiniteSets

CONSTANTS
    Messages,    \* messages callers want to send, one uuid each
    InTransaction,  \* those saved by SaveEventWithTransaction
    Processors,  \* processor goroutines
    BatchSize,   \* most messages taken in one poll
    MaxRetries,  \* publish errors after which a message is given up
    NoCopy

VARIABLES
    event,       \* how far the caller of each message is
    row,         \* the outbox table
    proc,        \* where each processor is, with its copies of rows
    sent,        \* history variable: how often each message was published
    errors       \* history variable: how often publishing it gave an error

vars == <<event, row, proc, sent, errors>>

Copy == [id : Messages, retries : Nat]

ASSUME OutboxAssumption ==
    /\ BatchSize \in Nat \ {0}
    /\ MaxRetries \in Nat \ {0}
    /\ NoCopy \notin Copy

Absent == [status |-> "absent", retries |-> 0]

Row == [status : {"absent", "pending", "processed", "failed"}, retries : Nat]

\* Faulty: the last retry is never taken up.
PendingOffByOne ==
    {m \in Messages : row[m].status = "pending" /\ row[m].retries < MaxRetries - 1}

Pending == {m \in Messages : row[m].status = "pending"}

\* What a processor is about to do with the message in hand, or with the rest
\* of its batch.
Processor == [pc    : {"idle", "publish", "processed", "failed", "retry"},
              batch : SUBSET Copy,
              copy  : Copy \cup {NoCopy}]

Idle == [pc |-> "idle", batch |-> {}, copy |-> NoCopy]

Init ==
    /\ event = [m \in Messages |-> "new"]
    /\ row = [m \in Messages |-> Absent]
    /\ proc = [p \in Processors |-> Idle]
    /\ sent = [m \in Messages |-> 0]
    /\ errors = [m \in Messages |-> 0]

-----------------------------------------------------------------------------
(* Callers.                                                                *)

Insert(m) == row' = [row EXCEPT ![m] = [status |-> "pending", retries |-> 0]]

\* SaveEvent by itself: the row is there at once.
SaveEvent(m) ==
    /\ m \notin InTransaction
    /\ event[m] = "new"
    /\ event' = [event EXCEPT ![m] = "saved"]
    /\ Insert(m)
    /\ UNCHANGED <<proc, sent, errors>>

\* SaveEventWithTransaction.  It calls SaveMessage without the transaction, as
\* SaveEvent does: the row is there, and pending, before the commit.
SaveInTransaction(m) ==
    /\ m \in InTransaction
    /\ event[m] = "new"
    /\ event' = [event EXCEPT ![m] = "open"]
    /\ Insert(m)
    /\ UNCHANGED <<proc, sent, errors>>

Commit(m) ==
    /\ event[m] = "open"
    /\ event' = [event EXCEPT ![m] = "saved"]
    /\ UNCHANGED <<row, proc, sent, errors>>

\* Faulty: whatever is old is deleted, processed or not.
CleanupAnything(m) ==
    /\ row[m].status # "absent"
    /\ row' = [row EXCEPT ![m] = Absent]
    /\ UNCHANGED <<event, proc, sent, errors>>

CleanupProcessedMessages(m) ==
    /\ row[m].status = "processed"
    /\ row' = [row EXCEPT ![m] = Absent]
    /\ UNCHANGED <<event, proc, sent, errors>>

-----------------------------------------------------------------------------
(* Processors.                                                             *)

\* A poll takes as many pending rows as fit in a batch.
GetPendingMessages(p) ==
    /\ proc[p] = Idle
    /\ \E batch \in SUBSET Pending :
         /\ batch # {}
         /\ Cardinality(batch) <= BatchSize
         /\ batch # Pending => Cardinality(batch) = BatchSize
         /\ proc' = [proc EXCEPT ![p] =
                      [pc    |-> "publish",
                       batch |-> {[id |-> m, retries |-> row[m].retries] : m \in batch},
                       copy  |-> NoCopy]]
    /\ UNCHANGED <<event, row, sent, errors>>

\* Message c of the batch has been tried; what follows is pc.
Tried(p, c, pc) ==
    proc' = [proc EXCEPT ![p] = [pc |-> pc, batch |-> proc[p].batch \ {c}, copy |-> c]]

\* On to the next message of the batch, or to the next poll.
Advance(p) ==
    proc' = [proc EXCEPT ![p] = IF proc[p].batch = {} THEN Idle
                                ELSE [@ EXCEPT !.pc = "publish", !.copy = NoCopy]]

\* Faulty: what was published is left pending.
PublishForgets(p, c) ==
    /\ proc[p].pc = "publish"
    /\ c \in proc[p].batch
    /\ sent' = [sent EXCEPT ![c.id] = @ + 1]
    /\ Tried(p, c, "retry")
    /\ UNCHANGED <<event, row, errors>>

PublishMessage(p, c) ==
    /\ proc[p].pc = "publish"
    /\ c \in proc[p].batch
    /\ sent' = [sent EXCEPT ![c.id] = @ + 1]
    /\ Tried(p, c, "processed")
    /\ UNCHANGED <<event, row, errors>>

\* Faulty: the last retry is not made.
AfterErrorEarly(p, c) ==
    LET counted == [c EXCEPT !.retries = @ + 1]
    IN  proc' = [proc EXCEPT ![p] =
                   [pc    |-> IF counted.retries + 1 >= MaxRetries THEN "failed" ELSE "retry",
                    batch |-> proc[p].batch \ {c}, copy |-> counted]]

\* The error is counted in the copy, and the count decides.
AfterError(p, c) ==
    LET counted == [c EXCEPT !.retries = @ + 1]
    IN  proc' = [proc EXCEPT ![p] =
                   [pc    |-> IF counted.retries >= MaxRetries THEN "failed" ELSE "retry",
                    batch |-> proc[p].batch \ {c}, copy |-> counted]]

PublishError(p, c) ==
    /\ proc[p].pc = "publish"
    /\ c \in proc[p].batch
    /\ errors' = [errors EXCEPT ![c.id] = @ + 1]
    /\ AfterError(p, c)
    /\ UNCHANGED <<event, row, sent>>

Mark(m, status) ==
    row' = [row EXCEPT ![m].status = IF @ = "absent" THEN @ ELSE status]

MarkAsProcessed(p) ==
    /\ proc[p].pc = "processed"
    /\ Mark(proc[p].copy.id, "processed")
    /\ Advance(p)
    /\ UNCHANGED <<event, sent, errors>>

MarkAsFailed(p) ==
    /\ proc[p].pc = "failed"
    /\ Mark(proc[p].copy.id, "failed")
    /\ Advance(p)
    /\ UNCHANGED <<event, sent, errors>>

\* The whole copy is saved, and in it the row is pending.
SaveRetryCount(p) ==
    /\ proc[p].pc = "retry"
    /\ row' = [row EXCEPT ![proc[p].copy.id] =
                 [status |-> "pending", retries |-> proc[p].copy.retries]]
    /\ Advance(p)
    /\ UNCHANGED <<event, sent, errors>>

-----------------------------------------------------------------------------
(* Failures.                                                               *)

\* Saving fails, and a transaction is rolled back.
SaveError(m) ==
    /\ event[m] = "new"
    /\ event' = [event EXCEPT ![m] = "refused"]
    /\ UNCHANGED <<row, proc, sent, errors>>

\* The commit fails, and what the caller changed is rolled back.
CommitError(m) ==
    /\ event[m] = "open"
    /\ event' = [event EXCEPT ![m] = "aborted"]
    /\ UNCHANGED <<row, proc, sent, errors>>

\* The commit takes effect, but its answer is an error.
CommitAnswerLost(m) ==
    /\ event[m] = "open"
    /\ event' = [event EXCEPT ![m] = "unsure"]
    /\ UNCHANGED <<row, proc, sent, errors>>

\* The message is published, but the answer is an error.
PublishAnswerLost(p, c) ==
    /\ proc[p].pc = "publish"
    /\ c \in proc[p].batch
    /\ sent' = [sent EXCEPT ![c.id] = @ + 1]
    /\ errors' = [errors EXCEPT ![c.id] = @ + 1]
    /\ AfterError(p, c)
    /\ UNCHANGED <<event, row>>

\* What became of the message cannot be stored, which is printed and forgotten.
MarkError(p) ==
    /\ proc[p].pc \in {"processed", "failed", "retry"}
    /\ Advance(p)
    /\ UNCHANGED <<event, row, sent, errors>>

Crash ==
    /\ proc' = [p \in Processors |-> Idle]
    /\ event' = [m \in Messages |-> IF event[m] = "open" THEN "aborted" ELSE event[m]]
    /\ UNCHANGED <<row, sent, errors>>

-----------------------------------------------------------------------------

Work(p) ==
    \/ GetPendingMessages(p)
    \/ \E c \in proc[p].batch : PublishMessage(p, c) \/ PublishError(p, c)
    \/ MarkAsProcessed(p)
    \/ MarkAsFailed(p)
    \/ SaveRetryCount(p)

Caller(m) ==
    SaveEvent(m) \/ SaveInTransaction(m) \/ Commit(m) \/ CleanupProcessedMessages(m)

CalmNext ==
    \/ \E p \in Processors : Work(p)
    \/ \E m \in Messages : Caller(m)

Fault ==
    \/ \E m \in Messages : SaveError(m) \/ CommitError(m) \/ CommitAnswerLost(m)
    \/ \E p \in Processors :
         \/ \E c \in proc[p].batch : PublishAnswerLost(p, c)
         \/ MarkError(p)
    \/ Crash

Next == CalmNext \/ Fault

Spec == Init /\ [][Next]_vars

\* The ticker makes every processor poll, and a poll goes through its batch.
Fairness == \A p \in Processors : WF_vars(Work(p))

-----------------------------------------------------------------------------
(* Properties.                                                             *)

TypeOK ==
    /\ event \in [Messages -> {"new", "open", "saved", "refused", "aborted", "unsure"}]
    /\ row \in [Messages -> Row]
    /\ proc \in [Processors -> Processor]
    /\ sent \in [Messages -> Nat]
    /\ errors \in [Messages -> Nat]

\* What a caller was told is saved has been published, or is still to be, or
\* is kept as failed: no stale copy, clean-up, error or restart loses it.
NothingLost ==
    \A m \in Messages : event[m] = "saved" =>
        sent[m] > 0 \/ row[m].status \in {"pending", "failed"}

\* "part of the same transaction" (outbox_pattern.go:196): nothing is published
\* of a transaction that was rolled back.
RolledBackIsNotPublished ==
    \A m \in Messages : event[m] = "aborted" => sent[m] = 0

\* A message is given up only after as many errors as the processor was
\* configured for, though processors overwrite each other's counts.
GivenUpAfterRetries ==
    \A m \in Messages : row[m].status = "failed" => errors[m] >= MaxRetries

\* A published message is published once, and not given up.
PublishedOnce ==
    \A m \in Messages : sent[m] <= 1 /\ (sent[m] = 1 => row[m].status # "failed")

\* A saved message is dealt with for good: published, or given up.
SavedIsSettled ==
    \A m \in Messages : event[m] = "saved" ~> [](row[m].status # "pending")
=============================================================================
