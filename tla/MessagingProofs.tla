--------------------------- MODULE MessagingProofs ---------------------------
(***************************************************************************)
(* What carries messages, proved for any values of the constants: the      *)
(* outbox (pkg/outbox) and the hub of web sockets (pkg/websocket).         *)
(*                                                                         *)
(* Outbox keeps, for any number of messages and processors, any batch size *)
(* and any number of retries, whatever fails: nothing saved is lost,       *)
(* and nothing is given up early.                                          *)
(* Processors overwrite each other's rows with old copies; what saves them *)
(* is that every claim a copy makes stays true while it grows old.         *)
(* The second part is about calm behaviours of MCOutbox, in which one      *)
(* processor is busy at a time and only publishing fails: each message is  *)
(* published once.                                                         *)
(*                                                                         *)
(* The last part is what the lock of WebSocketHub protects, for any number *)
(* of clients and senders and any capacity: neither Run nor a sender uses  *)
(* a channel after it was closed, and no one deletes what a sender is      *)
(* looping over.                                                           *)
(***************************************************************************)
EXTENDS MCOutbox, WebSocketHub, FiniteSetTheorems, TLAPS

\* How far a caller is once its row has been inserted.
Inserted == {"open", "saved", "aborted", "unsure"}

\* A copy is of a row that was inserted, and counts no more errors than there were.
HonestCopy(c, ev, er) == ev[c.id] \in Inserted /\ c.retries <= er[c.id]

\* What a processor is about to store of the message in hand is true.
HonestProcessor(P, ev, st, er) ==
    /\ \A c \in P.batch : HonestCopy(c, ev, er)
    /\ P.pc \in {"processed", "failed", "retry"} => P.copy \in Copy /\ HonestCopy(P.copy, ev, er)
    /\ P.pc = "processed" => st[P.copy.id] > 0
    /\ P.pc = "failed" => er[P.copy.id] >= MaxRetries

\* So is what a row says, and a row may be missing only once it was published.
HonestRow(m) ==
    /\ row[m].retries <= errors[m]
    /\ row[m].status = "processed" => sent[m] > 0
    /\ row[m].status = "failed" => errors[m] >= MaxRetries
    /\ row[m].status # "absent" => event[m] \in Inserted
    /\ row[m].status = "absent" /\ event[m] \in Inserted => sent[m] > 0

HonestRows == \A m \in Messages : HonestRow(m)

\* Only what was inserted is published.
PublishedWasInserted == \A m \in Messages : sent[m] > 0 => event[m] \in Inserted

HonestProcessors == \A p \in Processors : HonestProcessor(proc[p], event, sent, errors)

IInv == TypeOK /\ HonestRows /\ HonestProcessors /\ PublishedWasInserted

\* What a step may do to the histories and to callers without disturbing the
\* copies that others hold.
Grown ==
    \A m \in Messages :
        /\ sent'[m] >= sent[m]
        /\ errors'[m] >= errors[m]
        /\ event[m] \in Inserted => event'[m] \in Inserted

-----------------------------------------------------------------------------

LEMMA IdleIsHonest ==
    \A ev, st, er : Idle \in Processor /\ HonestProcessor(Idle, ev, st, er)
BY DEF Idle, Processor, HonestProcessor

LEMMA InitIInv == Init => IInv
BY OutboxAssumption, IdleIsHonest
   DEF Init, IInv, TypeOK, HonestRows, HonestRow, HonestProcessors, PublishedWasInserted,
       Inserted, Row, Absent

\* A processor that was honest stays so while the histories grow.
LEMMA StillHonest ==
    ASSUME TypeOK, TypeOK', Grown, NEW P \in Processor, HonestProcessor(P, event, sent, errors)
    PROVE  HonestProcessor(P, event', sent', errors')
<1>1. ASSUME NEW c \in Copy, HonestCopy(c, event, errors)
      PROVE  HonestCopy(c, event', errors')
  <2>1. c.id \in Messages /\ c.retries \in Nat BY DEF Copy
  <2>2. errors[c.id] \in Nat /\ errors'[c.id] \in Nat BY <2>1 DEF TypeOK
  <2> QED BY <1>1, <2>1, <2>2 DEF HonestCopy, Grown
<1>2. P.batch \subseteq Copy BY DEF Processor
<1>3. ASSUME P.copy \in Copy
      PROVE  /\ sent[P.copy.id] > 0 => sent'[P.copy.id] > 0
             /\ errors[P.copy.id] >= MaxRetries => errors'[P.copy.id] >= MaxRetries
  <2>1. P.copy.id \in Messages BY <1>3 DEF Copy
  <2> QED BY <2>1, OutboxAssumption DEF TypeOK, Grown
<1> QED BY <1>1, <1>2, <1>3 DEF HonestProcessor

\* Steps of one processor, which leaves callers alone.
LEMMA ProcessorStep ==
    ASSUME IInv, NEW p \in Processors, NEW P \in Processor,
           proc' = [proc EXCEPT ![p] = P], UNCHANGED event,
           row' \in [Messages -> Row],
           sent' \in [Messages -> Nat], errors' \in [Messages -> Nat], Grown,
           HonestProcessor(P, event', sent', errors'),
           HonestRows', PublishedWasInserted'
    PROVE  IInv'
<1>1. TypeOK' BY DEF IInv, TypeOK
<1>2. ASSUME NEW q \in Processors
      PROVE  HonestProcessor(proc'[q], event', sent', errors')
  <2>1. CASE q = p BY <2>1 DEF IInv, TypeOK
  <2>2. CASE q # p
    <3>1. proc'[q] = proc[q] /\ proc[q] \in Processor BY <2>2 DEF IInv, TypeOK
    <3> QED BY <3>1, <1>1, StillHonest DEF IInv, HonestProcessors
  <2> QED BY <2>1, <2>2
<1>3. HonestProcessors' BY <1>2 DEF HonestProcessors
<1> QED BY <1>1, <1>3 DEF IInv

\* Steps of one message's caller, or of the clean-up.
LEMMA CallerStep ==
    ASSUME IInv, UNCHANGED <<proc, sent, errors>>, NEW m \in Messages, NEW r \in Row,
           NEW e \in {"open", "saved", "refused", "aborted", "unsure"} \cup {event[m]},
           event' = [event EXCEPT ![m] = e], row' = [row EXCEPT ![m] = r],
           event[m] \in Inserted => e \in Inserted,
           HonestRow(m)'
    PROVE  IInv'
<1>1. TypeOK' BY DEF IInv, TypeOK
<1>2. Grown BY DEF Grown, IInv, TypeOK
<1>3. HonestRows' BY DEF IInv, TypeOK, HonestRows, HonestRow
<1>4. HonestProcessors'
  <2> SUFFICES ASSUME NEW q \in Processors
               PROVE  HonestProcessor(proc'[q], event', sent', errors')
      BY DEF HonestProcessors
  <2>1. proc'[q] = proc[q] /\ proc[q] \in Processor BY DEF IInv, TypeOK
  <2> QED BY <2>1, <1>1, <1>2, StillHonest DEF IInv, HonestProcessors
<1>5. PublishedWasInserted'
    BY DEF IInv, TypeOK, PublishedWasInserted, Inserted
<1> QED BY <1>1, <1>3, <1>4, <1>5 DEF IInv

LEMMA CallersStep ==
    ASSUME IInv, NEW m \in Messages, Caller(m) \/ SaveError(m) \/ CommitError(m) \/ CommitAnswerLost(m)
    PROVE  IInv'
<1> DEFINE new == [status |-> "pending", retries |-> 0]
<1>1. new \in Row /\ Absent \in Row BY DEF Row, Absent
<1>2. row[m] \in Row /\ errors[m] \in Nat /\ sent[m] \in Nat BY DEF IInv, TypeOK
<1>3. event = [event EXCEPT ![m] = event[m]] /\ row = [row EXCEPT ![m] = row[m]]
    BY DEF IInv, TypeOK
<1>4. HonestRow(m) BY DEF IInv, HonestRows
<1>5. ASSUME NEW e \in {"open", "saved"}, event[m] = "new",
             event' = [event EXCEPT ![m] = e], Insert(m), UNCHANGED <<proc, sent, errors>>
      PROVE  IInv'
  <2>1. row' = [row EXCEPT ![m] = new] BY <1>5 DEF Insert
  <2>2. event'[m] = e /\ row'[m] = new BY <1>5, <2>1 DEF IInv, TypeOK
  <2>3. HonestRow(m)' BY <1>2, <2>2, <1>5 DEF HonestRow, Inserted
  <2> QED BY <1>1, <1>5, <2>1, <2>3, CallerStep DEF Inserted
<1>6. ASSUME NEW e \in {"saved", "refused", "aborted", "unsure"},
             event[m] = IF e = "refused" THEN "new" ELSE "open",
             event' = [event EXCEPT ![m] = e], UNCHANGED <<row, proc, sent, errors>>
      PROVE  IInv'
  <2>1. event'[m] = e BY <1>6 DEF IInv, TypeOK
  <2>2. HonestRow(m)' BY <1>4, <1>6, <2>1 DEF HonestRow, Inserted
  <2>3. row' = [row EXCEPT ![m] = row[m]] BY <1>3, <1>6
  <2> QED BY <1>2, <1>6, <2>2, <2>3, CallerStep DEF Inserted
<1>7. ASSUME CleanupProcessedMessages(m) PROVE IInv'
  <2>1. row' = [row EXCEPT ![m] = Absent] /\ row'[m] = Absent
      BY <1>7 DEF CleanupProcessedMessages, IInv, TypeOK
  <2>2. HonestRow(m)'
      BY <1>4, <1>7, <2>1, <1>2 DEF HonestRow, CleanupProcessedMessages, Absent
  <2>3. event' = [event EXCEPT ![m] = event[m]] BY <1>3, <1>7 DEF CleanupProcessedMessages
  <2> QED BY <1>1, <1>7, <2>1, <2>2, <2>3, CallerStep DEF CleanupProcessedMessages
<1>8. CASE Caller(m)
    BY <1>8, <1>5, <1>6, <1>7 DEF Caller, SaveEvent, SaveInTransaction, Commit
<1>9. CASE SaveError(m) BY <1>9, <1>6 DEF SaveError
<1>10. CASE CommitError(m) \/ CommitAnswerLost(m)
    BY <1>10, <1>6 DEF CommitError, CommitAnswerLost
<1> QED BY <1>8, <1>9, <1>10

\* What a processor holds after Advance is honest if what it held was.
LEMMA Advanced ==
    ASSUME IInv, NEW p \in Processors, Advance(p)
    PROVE  \E P \in Processor :
             /\ proc' = [proc EXCEPT ![p] = P]
             /\ HonestProcessor(P, event, sent, errors)
<1>1. proc[p] \in Processor /\ HonestProcessor(proc[p], event, sent, errors)
    BY DEF IInv, TypeOK, HonestProcessors
<1>2. CASE proc[p].batch = {} BY <1>2, IdleIsHonest DEF Advance
<1>3. CASE proc[p].batch # {}
  <2> DEFINE P == [proc[p] EXCEPT !.pc = "publish", !.copy = NoCopy]
  <2>1. P \in Processor /\ P.pc = "publish" /\ P.batch = proc[p].batch BY <1>1 DEF Processor
  <2>2. HonestProcessor(P, event, sent, errors) BY <1>1, <2>1 DEF HonestProcessor
  <2>3. proc' = [proc EXCEPT ![p] = P] BY <1>3 DEF Advance
  <2> QED BY <2>1, <2>2, <2>3
<1> QED BY <1>2, <1>3

\* An honest row r takes the place of message m's.
Stored(m, r) ==
    /\ row' = [row EXCEPT ![m] = r]
    /\ r.retries <= errors[m]
    /\ r.status = "processed" => sent[m] > 0
    /\ r.status = "failed" => errors[m] >= MaxRetries
    /\ r.status = "absent" => row[m].status = "absent"

\* A processor stores what became of a message, or fails to.
LEMMA MarkStep ==
    ASSUME IInv, NEW p \in Processors,
           MarkAsProcessed(p) \/ MarkAsFailed(p) \/ SaveRetryCount(p) \/ MarkError(p)
    PROVE  IInv'
<1> DEFINE c == proc[p].copy
<1>1. Advance(p) /\ UNCHANGED <<event, sent, errors>>
      /\ proc[p].pc \in {"processed", "failed", "retry"}
    BY DEF MarkAsProcessed, MarkAsFailed, SaveRetryCount, MarkError
<1>2. c \in Copy /\ HonestCopy(c, event, errors)
      /\ (proc[p].pc = "processed" => sent[c.id] > 0)
      /\ (proc[p].pc = "failed" => errors[c.id] >= MaxRetries)
    BY <1>1 DEF IInv, HonestProcessors, HonestProcessor
<1>3. c.id \in Messages /\ c.retries \in Nat BY <1>2 DEF Copy
<1>4. row[c.id] \in Row /\ HonestRow(c.id) BY <1>3 DEF IInv, TypeOK, HonestRows
<1>5. \E r \in Row : Stored(c.id, r)
  <2>1. ASSUME NEW status \in {"processed", "failed"}, proc[p].pc = status, Mark(c.id, status)
        PROVE  \E r \in Row : Stored(c.id, r)
    <3> DEFINE r == [row[c.id] EXCEPT !.status = IF row[c.id].status = "absent"
                                                 THEN row[c.id].status ELSE status]
    <3>1. r \in Row /\ r.retries = row[c.id].retries
          /\ r.status = IF row[c.id].status = "absent" THEN "absent" ELSE status
        BY <1>4, <2>1 DEF Row
    <3>2. row' = [row EXCEPT ![c.id] = r] BY <2>1 DEF Mark
    <3> HIDE DEF r
    <3> QED BY <3>1, <3>2, <2>1, <1>2, <1>4 DEF HonestRow, Stored
  <2>2. ASSUME SaveRetryCount(p) PROVE \E r \in Row : Stored(c.id, r)
    <3> DEFINE r == [status |-> "pending", retries |-> c.retries]
    <3>1. r \in Row /\ r.status = "pending" /\ r.retries = c.retries BY <1>3 DEF Row
    <3>2. row' = [row EXCEPT ![c.id] = r] BY <2>2 DEF SaveRetryCount
    <3> HIDE DEF r
    <3> QED BY <3>1, <3>2, <1>2 DEF HonestCopy, Stored
  <2>3. ASSUME MarkError(p) PROVE \E r \in Row : Stored(c.id, r)
    <3>1. row' = [row EXCEPT ![c.id] = row[c.id]]
        BY <2>3 DEF MarkError, IInv, TypeOK
    <3> QED BY <3>1, <1>4 DEF HonestRow, Stored
  <2> QED BY <2>1, <2>2, <2>3 DEF MarkAsProcessed, MarkAsFailed
<1>6. PICK r \in Row : Stored(c.id, r) BY <1>5
<1>7. row' \in [Messages -> Row] BY <1>6 DEF IInv, TypeOK, Stored
<1>8. HonestRows'
  <2> SUFFICES ASSUME NEW m \in Messages PROVE HonestRow(m)' BY DEF HonestRows
  <2>1. CASE m = c.id
    <3>1. row'[m] = r BY <2>1, <1>6, <1>3 DEF IInv, TypeOK, Stored
    <3> QED BY <3>1, <2>1, <1>1, <1>2, <1>4, <1>6 DEF HonestRow, HonestCopy, Stored
  <2>2. CASE m # c.id
    <3>1. row'[m] = row[m] BY <2>2, <1>6 DEF IInv, TypeOK, Stored
    <3> QED BY <3>1, <1>1 DEF IInv, HonestRows, HonestRow
  <2> QED BY <2>1, <2>2
<1>9. PublishedWasInserted' BY <1>1 DEF IInv, PublishedWasInserted
<1>10. Grown BY <1>1 DEF IInv, TypeOK, Grown
<1>11. PICK P \in Processor : /\ proc' = [proc EXCEPT ![p] = P]
                              /\ HonestProcessor(P, event, sent, errors)
    BY <1>1, Advanced
<1> QED BY <1>1, <1>7, <1>8, <1>9, <1>10, <1>11, ProcessorStep DEF IInv, TypeOK

\* A poll copies rows, and rows are honest.
LEMMA PollStep ==
    ASSUME IInv, NEW p \in Processors, GetPendingMessages(p)
    PROVE  IInv'
<1>1. PICK batch \in SUBSET Pending :
        proc' = [proc EXCEPT ![p] =
                  [pc    |-> "publish",
                   batch |-> {[id |-> m, retries |-> row[m].retries] : m \in batch},
                   copy  |-> NoCopy]]
    BY DEF GetPendingMessages
<1> DEFINE P == [pc    |-> "publish",
                 batch |-> {[id |-> m, retries |-> row[m].retries] : m \in batch},
                 copy  |-> NoCopy]
<1>2. UNCHANGED <<event, row, sent, errors>> BY DEF GetPendingMessages
<1>3. ASSUME NEW c \in P.batch PROVE c \in Copy /\ HonestCopy(c, event, errors)
  <2>1. PICK m \in batch : c = [id |-> m, retries |-> row[m].retries] BY <1>3
  <2>2. m \in Messages /\ row[m] \in Row /\ HonestRow(m) /\ row[m].status = "pending"
      BY DEF Pending, IInv, TypeOK, HonestRows
  <2> QED BY <2>1, <2>2 DEF Copy, Row, HonestCopy, HonestRow
<1>4. P \in Processor BY <1>3 DEF Processor
<1>5. HonestProcessor(P, event, sent, errors) BY <1>3 DEF HonestProcessor
<1>6. proc' = [proc EXCEPT ![p] = P] BY <1>1
<1> HIDE DEF P
<1>7. Grown BY <1>2 DEF IInv, TypeOK, Grown
<1>8. HonestRows' /\ PublishedWasInserted'
    BY <1>2 DEF IInv, HonestRows, HonestRow, PublishedWasInserted
<1> QED BY <1>2, <1>4, <1>5, <1>6, <1>7, <1>8, ProcessorStep DEF IInv, TypeOK

\* What AfterError leaves in a processor's hands is typed, and gives a message
\* up only when its count says so.
LEMMA AfterErrorCopy ==
    ASSUME IInv, NEW p \in Processors, NEW c \in proc[p].batch, AfterError(p, c)
    PROVE  \E P \in Processor :
             /\ proc' = [proc EXCEPT ![p] = P]
             /\ P.batch = proc[p].batch \ {c} /\ P.copy \in Copy
             /\ P.copy.id = c.id /\ P.copy.retries = c.retries + 1
             /\ P.pc \in {"failed", "retry"}
             /\ P.pc = "failed" => c.retries + 1 >= MaxRetries
<1>1. proc[p].batch \subseteq Copy BY DEF IInv, TypeOK, Processor
<1>2. c.id \in Messages /\ c.retries \in Nat BY <1>1 DEF Copy
<1> DEFINE counted == [c EXCEPT !.retries = c.retries + 1]
           P == [pc    |-> IF counted.retries >= MaxRetries THEN "failed" ELSE "retry",
                 batch |-> proc[p].batch \ {c}, copy |-> counted]
<1>3. counted \in Copy /\ counted.id = c.id /\ counted.retries = c.retries + 1
    BY <1>1, <1>2 DEF Copy
<1>4. proc' = [proc EXCEPT ![p] = P] BY DEF AfterError
<1> HIDE DEF counted
<1>5. P \in Processor BY <1>1, <1>3 DEF Processor
<1> QED BY <1>3, <1>4, <1>5

\* A message of the batch is tried, and published, or not, or one cannot tell.
LEMMA PublishStep ==
    ASSUME IInv, NEW p \in Processors, NEW c \in proc[p].batch,
           PublishMessage(p, c) \/ PublishError(p, c) \/ PublishAnswerLost(p, c)
    PROVE  IInv'
<1>1. proc[p] \in Processor /\ HonestProcessor(proc[p], event, sent, errors)
      /\ proc[p].batch \subseteq Copy /\ UNCHANGED <<event, row>>
    BY DEF IInv, TypeOK, Processor, HonestProcessors, PublishMessage, PublishError,
           PublishAnswerLost
<1>2. c \in Copy /\ HonestCopy(c, event, errors) BY <1>1 DEF HonestProcessor
<1>3. c.id \in Messages /\ c.retries \in Nat /\ sent[c.id] \in Nat /\ errors[c.id] \in Nat
    BY <1>2 DEF Copy, IInv, TypeOK
<1>4. /\ sent' = sent \/ sent' = [sent EXCEPT ![c.id] = sent[c.id] + 1]
      /\ errors' = errors \/ errors' = [errors EXCEPT ![c.id] = errors[c.id] + 1]
    BY DEF PublishMessage, PublishError, PublishAnswerLost
<1>5. sent' \in [Messages -> Nat] /\ errors' \in [Messages -> Nat]
    BY <1>3, <1>4 DEF IInv, TypeOK
<1>6. ASSUME NEW m \in Messages
      PROVE  sent'[m] >= sent[m] /\ errors'[m] >= errors[m]
             /\ (m # c.id => sent'[m] = sent[m])
    BY <1>3, <1>4 DEF IInv, TypeOK
<1>7. Grown BY <1>1, <1>6 DEF Grown
<1>8. HonestRows'
  <2> SUFFICES ASSUME NEW m \in Messages PROVE HonestRow(m)' BY DEF HonestRows
  <2>1. HonestRow(m) /\ row[m] \in Row /\ sent[m] \in Nat /\ errors[m] \in Nat
        /\ sent'[m] \in Nat /\ errors'[m] \in Nat
      BY <1>5 DEF IInv, TypeOK, HonestRows
  <2>2. row[m].retries \in Nat BY <2>1 DEF Row
  <2> QED BY <1>1, <1>6, <2>1, <2>2, OutboxAssumption DEF HonestRow
<1>9. PublishedWasInserted'
    BY <1>1, <1>2, <1>6 DEF IInv, PublishedWasInserted, HonestCopy, Inserted
<1>10. \E P \in Processor : proc' = [proc EXCEPT ![p] = P]
                            /\ HonestProcessor(P, event', sent', errors')
  <2>1. \A b \in proc[p].batch : HonestCopy(b, event', errors')
      <3> SUFFICES ASSUME NEW b \in proc[p].batch PROVE HonestCopy(b, event', errors')
          OBVIOUS
      <3>2. b.id \in Messages /\ b.retries \in Nat /\ HonestCopy(b, event, errors)
          BY <1>1 DEF Copy, HonestProcessor
      <3>3. errors[b.id] \in Nat /\ errors'[b.id] \in Nat BY <3>2, <1>5 DEF IInv, TypeOK
      <3> QED BY <1>1, <1>6, <3>2, <3>3 DEF HonestCopy
  <2>2. CASE PublishMessage(p, c)
    <3> DEFINE P == [pc |-> "processed", batch |-> proc[p].batch \ {c}, copy |-> c]
    <3>1. P \in Processor BY <1>1, <1>2 DEF Processor
    <3>2. proc' = [proc EXCEPT ![p] = P] BY <2>2 DEF PublishMessage, Tried
    <3>3. sent'[c.id] > 0 BY <2>2, <1>3 DEF PublishMessage, IInv, TypeOK
    <3>4. HonestProcessor(P, event', sent', errors')
        BY <2>1, <3>3, <1>2 DEF HonestProcessor
    <3> QED BY <3>1, <3>2, <3>4
  <2>3. CASE PublishError(p, c) \/ PublishAnswerLost(p, c)
    <3>1. AfterError(p, c) /\ errors'[c.id] = errors[c.id] + 1
        BY <2>3, <1>3 DEF PublishError, PublishAnswerLost, IInv, TypeOK
    <3>2. PICK P \in Processor :
             /\ proc' = [proc EXCEPT ![p] = P]
             /\ P.batch = proc[p].batch \ {c} /\ P.copy \in Copy
             /\ P.copy.id = c.id /\ P.copy.retries = c.retries + 1
             /\ P.pc \in {"failed", "retry"}
             /\ P.pc = "failed" => c.retries + 1 >= MaxRetries
        BY <3>1, AfterErrorCopy
    <3>3. c.retries <= errors[c.id] BY <1>2 DEF HonestCopy
    <3>4. HonestCopy(P.copy, event', errors')
        BY <1>1, <1>2, <1>3, <3>1, <3>2, <3>3 DEF HonestCopy
    <3>5. P.pc = "failed" => errors'[P.copy.id] >= MaxRetries
        BY <1>3, <3>1, <3>2, <3>3, OutboxAssumption
    <3>6. HonestProcessor(P, event', sent', errors')
        BY <2>1, <3>2, <3>4, <3>5 DEF HonestProcessor
    <3> QED BY <3>2, <3>6
  <2> QED BY <2>2, <2>3
<1>11. PICK P \in Processor : proc' = [proc EXCEPT ![p] = P]
                              /\ HonestProcessor(P, event', sent', errors')
    BY <1>10
<1>12. row' \in [Messages -> Row] BY <1>1 DEF IInv, TypeOK
<1> QED BY <1>1, <1>5, <1>7, <1>8, <1>9, <1>11, <1>12, ProcessorStep

\* A restart forgets copies and rolls open transactions back.
LEMMA CrashStep ==
    ASSUME IInv, Crash
    PROVE  IInv'
<1>1. TypeOK' BY IdleIsHonest DEF Crash, IInv, TypeOK
<1>2. HonestRows'
    BY DEF Crash, IInv, TypeOK, HonestRows, HonestRow, Inserted
<1>3. HonestProcessors' BY IdleIsHonest DEF Crash, HonestProcessors
<1>4. PublishedWasInserted' BY DEF Crash, IInv, TypeOK, PublishedWasInserted, Inserted
<1> QED BY <1>1, <1>2, <1>3, <1>4 DEF IInv

\* Every step of Outbox keeps the invariant.
LEMMA NextStep == IInv /\ [Next]_vars => IInv'
<1> SUFFICES ASSUME IInv, [Next]_vars PROVE IInv'
    OBVIOUS
<1>1. ASSUME NEW p \in Processors, Work(p) PROVE IInv'
  <2>1. CASE GetPendingMessages(p) BY <2>1, PollStep
  <2>2. CASE \E c \in proc[p].batch : PublishMessage(p, c) \/ PublishError(p, c)
      BY <2>2, PublishStep
  <2>3. CASE MarkAsProcessed(p) \/ MarkAsFailed(p) \/ SaveRetryCount(p)
      BY <2>3, MarkStep
  <2> QED BY <1>1, <2>1, <2>2, <2>3 DEF Work
<1>2. ASSUME NEW m \in Messages, Caller(m) PROVE IInv'
    BY <1>2, CallersStep
<1>3. CASE Fault
  <2>1. CASE \E m \in Messages : SaveError(m) \/ CommitError(m) \/ CommitAnswerLost(m)
      BY <2>1, CallersStep
  <2>2. CASE \E p \in Processors :
               \/ \E c \in proc[p].batch : PublishAnswerLost(p, c)
               \/ MarkError(p)
      BY <2>2, PublishStep, MarkStep
  <2> QED BY <1>3, <2>1, <2>2, CrashStep DEF Fault
<1>4. CASE UNCHANGED vars
    BY <1>4 DEF vars, IInv, TypeOK, HonestRows, HonestRow, HonestProcessors,
                PublishedWasInserted
<1> QED BY <1>1, <1>2, <1>3, <1>4 DEF Next, CalmNext

THEOREM Invariance == Spec => []IInv
<1> QED BY InitIInv, NextStep, PTL DEF Spec

-----------------------------------------------------------------------------

\* Every variable keeps its type.
THEOREM TypeCorrect == Spec => []TypeOK
<1>1. IInv => TypeOK BY DEF IInv
<1> QED BY <1>1, Invariance, PTL

\* A message whose caller was told it is saved is published, still to be
\* published, or kept as failed, whatever processors, clean-up and faults do.
THEOREM NoMessageLost == Spec => []NothingLost
<1>1. IInv => NothingLost
    BY DEF IInv, TypeOK, Row, HonestRows, HonestRow, Inserted, NothingLost
<1> QED BY <1>1, Invariance, PTL

\* No processor gives a message up early, however stale its count.
THEOREM NotGivenUpEarly == Spec => []GivenUpAfterRetries
<1>1. IInv => GivenUpAfterRetries
    BY DEF IInv, HonestRows, HonestRow, GivenUpAfterRetries
<1> QED BY <1>1, Invariance, PTL

-----------------------------------------------------------------------------
(* Calm behaviours.                                                        *)

Busy == {p \in Processors : proc[p] # Idle}

OneBusy == \A p, q \in Processors : proc[p] # Idle /\ proc[q] # Idle => p = q

InHand == {"processed", "failed", "retry"}

\* What a lone processor has to deal with is pending, and was published only
\* if that is what it is about to store.
CalmProcessor(P, rw, st) ==
    /\ \A c \in P.batch : rw[c.id].status = "pending" /\ st[c.id] = 0
    /\ \A c, d \in P.batch : c.id = d.id => c = d
    /\ P.pc \in InHand =>
         /\ rw[P.copy.id].status = "pending"
         /\ st[P.copy.id] = IF P.pc = "processed" THEN 1 ELSE 0
         /\ \A c \in P.batch : c.id # P.copy.id

CalmRow(m) ==
    /\ sent[m] <= 1
    /\ row[m].status = "failed" => sent[m] = 0
    /\ row[m].status = "pending" =>
         \/ sent[m] = 0
         \/ \E p \in Processors : proc[p].pc = "processed" /\ proc[p].copy.id = m

Calm ==
    /\ faults = 0
    /\ OneBusy
    /\ \A p \in Processors : CalmProcessor(proc[p], row, sent)
    /\ \A m \in Messages : CalmRow(m)

\* Only finitely many processors are ever busy, so that they can be counted.
CalmIInv == IInv /\ IsFiniteSet(Busy) /\ faults \in Nat /\ (calm => Calm)

LEMMA AtMostOne ==
    ASSUME NEW S, IsFiniteSet(S), Cardinality(S) <= 1, NEW x \in S, NEW y \in S
    PROVE  x = y
<1>1. Cardinality(S) \in Nat BY FS_CardinalityType
<1>2. Cardinality(S) # 0 BY FS_EmptySet
<1>3. Cardinality(S) = 1 BY <1>1, <1>2
<1>4. PICK z : S = {z} BY <1>3, FS_Singleton
<1> QED BY <1>4

LEMMA IdleIsCalm == \A rw, st : CalmProcessor(Idle, rw, st)
BY DEF Idle, CalmProcessor, InHand

LEMMA InitCalm == MCInit => CalmIInv
<1> SUFFICES ASSUME MCInit PROVE CalmIInv
    OBVIOUS
<1>1. IInv BY InitIInv DEF MCInit
<1>2. \A p \in Processors : proc[p] = Idle BY DEF MCInit, Init
<1>3. Busy = {} BY <1>2 DEF Busy
<1>4. OneBusy BY <1>2 DEF OneBusy
<1>5. \A p \in Processors : CalmProcessor(proc[p], row, sent) BY <1>2, IdleIsCalm
<1>6. \A m \in Messages : CalmRow(m) BY DEF MCInit, Init, CalmRow, Absent
<1> QED BY <1>1, <1>3, <1>4, <1>5, <1>6, FS_EmptySet DEF MCInit, CalmIInv, Calm

\* A step makes at most one processor busy.
LEMMA BusyStep ==
    ASSUME IInv, IsFiniteSet(Busy), [Next]_vars
    PROVE  IsFiniteSet(Busy')
<1>1. proc \in [Processors -> Processor] BY DEF IInv, TypeOK
<1>2. ASSUME NEW p \in Processors, NEW P, proc' = [proc EXCEPT ![p] = P]
      PROVE  IsFiniteSet(Busy')
  <2>1. Busy' \in SUBSET (Busy \cup {p}) BY <1>1, <1>2 DEF Busy
  <2>2. IsFiniteSet(Busy \cup {p}) BY FS_AddElement
  <2> QED BY <2>1, <2>2, FS_Subset
<1>3. ASSUME UNCHANGED proc PROVE IsFiniteSet(Busy')
  <2>1. Busy' = Busy BY <1>3 DEF Busy
  <2> QED BY <2>1
<1>4. ASSUME Crash PROVE IsFiniteSet(Busy')
  <2>1. Busy' = {} BY <1>4 DEF Crash, Busy
  <2> QED BY <2>1, FS_EmptySet
<1>5. ASSUME NEW p \in Processors,
             \/ Work(p)
             \/ \E c \in proc[p].batch : PublishAnswerLost(p, c)
             \/ MarkError(p)
      PROVE  IsFiniteSet(Busy')
  <2>1. \E P : proc' = [proc EXCEPT ![p] = P]
      BY <1>5 DEF Work, GetPendingMessages, PublishMessage, Tried, PublishError, AfterError,
                  MarkAsProcessed, MarkAsFailed, SaveRetryCount, Advance, PublishAnswerLost,
                  MarkError
  <2> QED BY <2>1, <1>2
<1>6. ASSUME NEW m \in Messages, Caller(m) \/ SaveError(m) \/ CommitError(m) \/ CommitAnswerLost(m)
      PROVE  IsFiniteSet(Busy')
    BY <1>3, <1>6 DEF Caller, SaveEvent, SaveInTransaction, Commit, CleanupProcessedMessages,
                      SaveError, CommitError, CommitAnswerLost
<1>7. CASE UNCHANGED vars BY <1>3, <1>7 DEF vars
<1> QED BY <1>4, <1>5, <1>6, <1>7 DEF Next, CalmNext, Fault

\* What the monitor's calm says of the next state.
LEMMA CalmNextStep ==
    ASSUME CalmIInv, [MCNext]_mcvars, calm'
    PROVE  calm /\ faults' = 0 /\ OneBusy' /\ (CalmNext \/ UNCHANGED vars)
<1>1. CASE MCNext
  <2>1. calm /\ faults' = 0 /\ Cardinality(Busy') <= 1 BY <1>1 DEF MCNext, CalmIInv, Busy
  <2>2. CalmNext BY <1>1, <2>1 DEF MCNext, CalmIInv
  <2>3. IsFiniteSet(Busy') BY <2>2, BusyStep DEF CalmIInv, Next
  <2>4. OneBusy' BY <2>1, <2>3, AtMostOne DEF OneBusy, Busy
  <2> QED BY <2>1, <2>2, <2>4
<1>2. CASE UNCHANGED mcvars BY <1>2 DEF mcvars, vars, CalmIInv, Calm, OneBusy
<1> QED BY <1>1, <1>2

\* Steps of the one processor that is busy.
LEMMA SoloStep ==
    ASSUME IInv, IInv', NEW p \in Processors,
           \A q \in Processors \ {p} : proc'[q] = Idle,
           CalmProcessor(proc'[p], row', sent'),
           \A m \in Messages :
               /\ sent'[m] <= 1
               /\ row'[m].status = "failed" => sent'[m] = 0
               /\ row'[m].status = "pending" =>
                    sent'[m] = 0 \/ (proc'[p].pc = "processed" /\ proc'[p].copy.id = m)
    PROVE  /\ \A q \in Processors : CalmProcessor(proc'[q], row', sent')
           /\ \A m \in Messages : CalmRow(m)'
<1>1. \A q \in Processors : CalmProcessor(proc'[q], row', sent') BY IdleIsCalm
<1>2. \A m \in Messages : CalmRow(m)' BY DEF CalmRow
<1> QED BY <1>1, <1>2

LEMMA CalmWork ==
    ASSUME CalmIInv, Calm, IInv', OneBusy', NEW p \in Processors, Work(p)
    PROVE  /\ \A q \in Processors : CalmProcessor(proc'[q], row', sent')
           /\ \A m \in Messages : CalmRow(m)'
<1> DEFINE P == proc[p]
<1> USE DEF InHand
<1>1. IInv /\ IInv' /\ TypeOK /\ TypeOK' BY DEF CalmIInv, IInv
<1>2. P \in Processor /\ P.batch \subseteq Copy /\ CalmProcessor(P, row, sent)
    BY <1>1 DEF TypeOK, Processor, Calm
<1>3. \A m \in Messages :
        /\ CalmRow(m) /\ row[m] \in Row /\ sent[m] \in Nat
        /\ row'[m] \in Row /\ sent'[m] \in Nat
    BY <1>1 DEF TypeOK, Calm
<1>4. ASSUME P # Idle
      PROVE  /\ \A q \in Processors \ {p} : proc[q] = Idle
             /\ \A m \in Messages : row[m].status = "pending" =>
                  sent[m] = 0 \/ (P.pc = "processed" /\ P.copy.id = m)
  <2>1. \A q \in Processors \ {p} : proc[q] = Idle BY <1>4 DEF Calm, OneBusy
  <2>2. \A q \in Processors \ {p} : proc[q].pc # "processed" BY <2>1 DEF Idle
  <2> QED BY <2>1, <2>2, <1>3 DEF CalmRow
<1>5. CASE GetPendingMessages(p)
  <2>1. PICK batch \in SUBSET Pending :
          /\ batch # {}
          /\ proc' = [proc EXCEPT ![p] =
               [pc    |-> "publish",
                batch |-> {[id |-> m, retries |-> row[m].retries] : m \in batch},
                copy  |-> NoCopy]]
      BY <1>5 DEF GetPendingMessages
  <2>2. /\ proc'[p].pc = "publish"
        /\ proc'[p].batch = {[id |-> m, retries |-> row[m].retries] : m \in batch}
        /\ \A q \in Processors \ {p} : proc'[q] = proc[q]
      BY <2>1, <1>1 DEF TypeOK
  <2>3. \A q \in Processors \ {p} : proc'[q] = Idle
    <3>1. proc'[p] # Idle BY <2>2 DEF Idle
    <3> QED BY <3>1 DEF OneBusy
  <2>4. proc[p] = Idle /\ row' = row /\ sent' = sent BY <1>5 DEF GetPendingMessages
  <2>5. \A q \in Processors : proc[q].pc # "processed" BY <2>2, <2>3, <2>4 DEF Idle
  <2>6. \A m \in Messages : row[m].status = "pending" => sent[m] = 0
      BY <1>3, <2>5 DEF CalmRow
  <2>7. \A c \in proc'[p].batch : c.id \in batch /\ c.retries = row[c.id].retries
      BY <2>2
  <2>8. \A c, d \in proc'[p].batch : c.id = d.id => c = d BY <2>2
  <2>9. \A m \in batch : m \in Messages /\ row[m].status = "pending" BY DEF Pending
  <2>10. CalmProcessor(proc'[p], row', sent')
      BY <2>2, <2>4, <2>6, <2>7, <2>8, <2>9 DEF CalmProcessor
  <2> QED BY <1>1, <1>3, <2>3, <2>4, <2>6, <2>10, SoloStep DEF CalmRow
<1>6. ASSUME NEW c \in P.batch, PublishMessage(p, c) \/ PublishError(p, c)
      PROVE  /\ \A q \in Processors : CalmProcessor(proc'[q], row', sent')
             /\ \A m \in Messages : CalmRow(m)'
  <2>1. P.pc = "publish" /\ P # Idle BY <1>6 DEF PublishMessage, PublishError, Idle
  <2>2. c \in Copy /\ c.id \in Messages BY <1>2 DEF Copy
  <2>3. row[c.id].status = "pending" /\ sent[c.id] = 0 BY <1>2 DEF CalmProcessor
  <2>4. row' = row BY <1>6 DEF PublishMessage, PublishError
  <2>5. /\ proc'[p].pc \in InHand /\ proc'[p].copy.id = c.id
        /\ proc'[p].batch = P.batch \ {c}
        /\ \A q \in Processors \ {p} : proc'[q] = proc[q]
        /\ sent' = [sent EXCEPT ![c.id] = IF proc'[p].pc = "processed" THEN 1 ELSE 0]
    <3>1. CASE PublishMessage(p, c)
        BY <3>1, <1>1, <2>2, <2>3 DEF PublishMessage, Tried, TypeOK
    <3>2. CASE PublishError(p, c)
      <4>1. AfterError(p, c) /\ sent' = sent BY <3>2 DEF PublishError
      <4>2. PICK R \in Processor :
               /\ proc' = [proc EXCEPT ![p] = R]
               /\ R.batch = P.batch \ {c} /\ R.copy.id = c.id /\ R.pc \in {"failed", "retry"}
          BY <1>1, <4>1, AfterErrorCopy
      <4>3. proc'[p] = R /\ \A q \in Processors \ {p} : proc'[q] = proc[q]
          BY <4>2, <1>1 DEF TypeOK
      <4>4. sent = [sent EXCEPT ![c.id] = 0] BY <2>2, <2>3, <1>1 DEF TypeOK
      <4> QED BY <4>1, <4>2, <4>3, <4>4
    <3> QED BY <1>6, <3>1, <3>2
  <2>6. \A d \in P.batch \ {c} : d.id # c.id /\ d.id \in Messages
      BY <1>2 DEF CalmProcessor, Copy
  <2>7. sent'[c.id] = (IF proc'[p].pc = "processed" THEN 1 ELSE 0)
        /\ \A m \in Messages \ {c.id} : sent'[m] = sent[m]
      BY <2>2, <2>5, <1>1 DEF TypeOK
  <2>8. CalmProcessor(proc'[p], row', sent')
      BY <1>2, <2>3, <2>4, <2>5, <2>6, <2>7 DEF CalmProcessor
  <2>9. \A q \in Processors \ {p} : proc'[q] = Idle BY <1>4, <2>1, <2>5
  <2>10. ASSUME NEW m \in Messages
         PROVE  /\ sent'[m] <= 1
                /\ row'[m].status = "failed" => sent'[m] = 0
                /\ row'[m].status = "pending" =>
                     sent'[m] = 0 \/ (proc'[p].pc = "processed" /\ proc'[p].copy.id = m)
    <3>1. CASE m = c.id BY <3>1, <2>3, <2>4, <2>5, <2>7
    <3>2. CASE m # c.id
      <4>1. row'[m] = row[m] /\ sent'[m] = sent[m] BY <3>2, <2>4, <2>7
      <4> QED BY <4>1, <1>3, <1>4, <2>1 DEF CalmRow
    <3> QED BY <3>1, <3>2
  <2> QED BY <1>1, <2>8, <2>9, <2>10, SoloStep
<1>7. ASSUME MarkAsProcessed(p) \/ MarkAsFailed(p) \/ SaveRetryCount(p)
      PROVE  /\ \A q \in Processors : CalmProcessor(proc'[q], row', sent')
             /\ \A m \in Messages : CalmRow(m)'
  <2> DEFINE id == P.copy.id
  <2>1. /\ P.pc \in InHand /\ P # Idle /\ sent' = sent /\ Advance(p)
      BY <1>7 DEF MarkAsProcessed, MarkAsFailed, SaveRetryCount, Idle
  <2>2. id \in Messages
      BY <1>1, <2>1 DEF IInv, HonestProcessors, HonestProcessor, Copy
  <2>3. /\ row[id].status = "pending"
        /\ sent[id] = (IF P.pc = "processed" THEN 1 ELSE 0)
        /\ \A c \in P.batch : c.id # id
      BY <1>2, <2>1 DEF CalmProcessor
  <2>4. /\ \A m \in Messages \ {id} : row'[m] = row[m]
        /\ row'[id].status = CASE P.pc = "processed" -> "processed"
                               [] P.pc = "failed"    -> "failed"
                               [] P.pc = "retry"     -> "pending"
      BY <1>1, <1>7, <2>2, <2>3
      DEF MarkAsProcessed, MarkAsFailed, SaveRetryCount, Mark, TypeOK, Row
  <2>5. proc'[p].pc \in {"idle", "publish"} /\ proc'[p].batch = P.batch
        /\ \A q \in Processors \ {p} : proc'[q] = proc[q]
    <3>1. CASE P.batch = {} BY <3>1, <2>1, <1>1 DEF Advance, Idle, TypeOK
    <3>2. CASE P.batch # {} BY <3>2, <2>1, <1>1, <1>2 DEF Advance, TypeOK, Processor
    <3> QED BY <3>1, <3>2
  <2>6. \A c \in P.batch : c.id \in Messages BY <1>2 DEF Copy
  <2>7. CalmProcessor(proc'[p], row', sent')
      BY <1>2, <2>1, <2>3, <2>4, <2>5, <2>6 DEF CalmProcessor
  <2>8. \A q \in Processors \ {p} : proc'[q] = Idle BY <1>4, <2>1, <2>5
  <2>9. ASSUME NEW m \in Messages
        PROVE  /\ sent'[m] <= 1
               /\ row'[m].status = "failed" => sent'[m] = 0
               /\ row'[m].status = "pending" => sent'[m] = 0
    <3>1. CASE m = id BY <3>1, <2>1, <2>3, <2>4
    <3>2. CASE m # id BY <3>2, <2>1, <2>4, <1>3, <1>4 DEF CalmRow
    <3> QED BY <3>1, <3>2
  <2> QED BY <1>1, <2>7, <2>8, <2>9, SoloStep
<1> QED BY <1>5, <1>6, <1>7 DEF Work

LEMMA CalmCaller ==
    ASSUME CalmIInv, Calm, IInv', OneBusy', NEW m \in Messages, Caller(m)
    PROVE  /\ \A q \in Processors : CalmProcessor(proc'[q], row', sent')
           /\ \A n \in Messages : CalmRow(n)'
<1>1. IInv /\ IInv' /\ TypeOK /\ TypeOK' BY DEF CalmIInv, IInv
<1>2. UNCHANGED <<proc, sent>>
      /\ \A n \in Messages \ {m} : row'[n] = row[n]
    BY <1>1 DEF Caller, SaveEvent, SaveInTransaction, Commit, Insert, TypeOK,
                CleanupProcessedMessages
<1>3. row' = row \/ row[m].status # "pending"
  <2>1. ASSUME event[m] = "new" PROVE row[m].status # "pending"
      BY <1>1, <2>1 DEF IInv, HonestRows, HonestRow, Inserted
  <2> QED BY <2>1 DEF Caller, SaveEvent, SaveInTransaction, Commit, CleanupProcessedMessages
<1>4. ASSUME row'[m].status = "pending", row' # row PROVE sent[m] = 0
  <2>1. event[m] = "new"
      BY <1>1, <1>4 DEF Caller, SaveEvent, SaveInTransaction, Commit,
                        CleanupProcessedMessages, TypeOK, Absent
  <2> QED BY <1>1, <2>1 DEF IInv, TypeOK, PublishedWasInserted, Inserted
<1>5. ASSUME row'[m].status = "failed" PROVE row' = row
    BY <1>1, <1>5 DEF Caller, SaveEvent, SaveInTransaction, Commit, Insert, TypeOK,
                      CleanupProcessedMessages, Absent
<1>6. ASSUME NEW q \in Processors PROVE CalmProcessor(proc'[q], row', sent')
  <2>1. proc[q] \in Processor /\ CalmProcessor(proc[q], row, sent) /\ proc[q].batch \subseteq Copy
      BY <1>1 DEF TypeOK, Calm, Processor
  <2>2. \A c \in proc[q].batch : c.id \in Messages BY <2>1 DEF Copy
  <2>3. proc[q].pc \in InHand => proc[q].copy.id \in Messages
      BY <1>1 DEF IInv, HonestProcessors, HonestProcessor, Copy, InHand
  <2>4. \A n \in Messages : row[n].status = "pending" => row'[n] = row[n]
      BY <1>2, <1>3
  <2> QED BY <1>2, <2>1, <2>2, <2>3, <2>4 DEF CalmProcessor
<1>7. ASSUME NEW n \in Messages PROVE CalmRow(n)'
  <2>1. CalmRow(n) BY DEF Calm
  <2> QED BY <1>2, <1>4, <1>5, <2>1 DEF CalmRow
<1> QED BY <1>6, <1>7

LEMMA CalmStep == CalmIInv /\ [MCNext]_mcvars => CalmIInv'
<1> SUFFICES ASSUME CalmIInv, [MCNext]_mcvars PROVE CalmIInv'
    OBVIOUS
<1>1. [Next]_vars BY DEF MCNext, Next, mcvars
<1>2. IInv' /\ IsFiniteSet(Busy') BY <1>1, NextStep, BusyStep DEF CalmIInv
<1>3. faults' \in Nat BY DEF CalmIInv, MCNext, mcvars
<1>4. ASSUME calm' PROVE Calm'
  <2>1. calm /\ Calm /\ faults' = 0 /\ OneBusy' /\ (CalmNext \/ UNCHANGED vars)
      BY <1>4, CalmNextStep DEF CalmIInv
  <2>2. CASE CalmNext BY <1>2, <2>1, <2>2, CalmWork, CalmCaller DEF CalmNext, Calm
  <2>3. CASE UNCHANGED vars BY <2>1, <2>3 DEF vars, Calm, CalmRow
  <2> QED BY <2>1, <2>2, <2>3
<1> QED BY <1>2, <1>3, <1>4 DEF CalmIInv

\* Calm behaviours publish each message once: whatever the publisher's errors
\* and the retries they cause, no message leaves twice and none that left is
\* given up.
THEOREM PublishedOnceWhenCalm == MCSpec => []CalmPublishedOnce
<1>1. CalmIInv => CalmPublishedOnce
  <2> SUFFICES ASSUME CalmIInv, calm, NEW m \in Messages
               PROVE  sent[m] <= 1 /\ (sent[m] = 1 => row[m].status # "failed")
      BY DEF CalmPublishedOnce, PublishedOnce
  <2> QED BY DEF CalmIInv, Calm, CalmRow
<1> QED BY <1>1, InitCalm, CalmStep, PTL DEF MCSpec

-----------------------------------------------------------------------------
(* The hub of web sockets.                                                 *)

\* A client that is not registered yet is unknown to hub and senders.
Unregistered(c) == reader[c] \in {"none", "register"}

NewIsUnknown ==
    \A c \in Clients : Unregistered(c) =>
        /\ c \notin clients \cup closed
        /\ c # run.client
        /\ \A s \in Senders : c # sender[s].full

NewConnection == \A c \in Clients : conn[c] = "none" => reader[c] = "none"

\* Run adds a client once, before anyone could close its channel.
RunHolds ==
    /\ run.pc # "select" => run.client \in Clients
    /\ run.pc \in {"register", "add"} => run.client \notin clients \cup closed

SenderHolds ==
    \A s \in Senders : sender[s].pc = "unregister" => sender[s].full \in Clients

OpenChannels == clients \cap closed = {}

HubIInv ==
    /\ HubTypeOK
    /\ NewIsUnknown
    /\ NewConnection
    /\ RunHolds
    /\ SenderHolds
    /\ OpenChannels
    /\ LoopSeesNoDeletion
    /\ HubNeverPanics

-----------------------------------------------------------------------------

LEMMA HubInitIInv == HubInit => HubIInv
BY HubAssumption
   DEF HubInit, HubIInv, HubTypeOK, NewIsUnknown, Unregistered, NewConnection, RunHolds, SenderHolds,
       OpenChannels, LoopSeesNoDeletion, HubNeverPanics, Reading, RunSelect, SenderIdle

USE DEF HubIInv, NewIsUnknown, Unregistered, NewConnection, RunHolds, SenderHolds,
        OpenChannels, LoopSeesNoDeletion, HubNeverPanics

\* Steps of Run that take a client over a channel.
LEMMA ExchangeStep ==
    ASSUME HubIInv
    PROVE  /\ \A c \in Clients : Register(c) => HubIInv'
           /\ \A c \in Clients : UnregisterReader(c) => HubIInv'
           /\ \A s \in Senders : UnregisterSender(s) => HubIInv'
<1> USE HubAssumption
<1>1. ASSUME NEW c \in Clients, Register(c) PROVE HubIInv'
    BY <1>1 DEF Register, HubTypeOK, Reading, RunSelect
<1>2. ASSUME NEW c \in Clients, UnregisterReader(c) PROVE HubIInv'
    BY <1>2 DEF UnregisterReader, HubTypeOK, Reading, RunSelect
<1>3. ASSUME NEW s \in Senders, UnregisterSender(s) PROVE HubIInv'
    BY <1>3 DEF UnregisterSender, HubTypeOK, Reading, RunSelect
<1> QED BY <1>1, <1>2, <1>3

\* Steps of Run under the lock, and the one that asks for it.
LEMMA LockedStep == HubIInv /\ (RunLock \/ RunAdd \/ RunDelete) => HubIInv'
<1> USE HubAssumption
<1>1. HubIInv /\ RunLock => HubIInv'
    BY DEF RunLock, HubTypeOK, Reading
<1>2. HubIInv /\ RunAdd => HubIInv'
    BY DEF RunAdd, HubTypeOK, Reading, RunSelect
<1>3. HubIInv /\ RunDelete => HubIInv'
    BY DEF RunDelete, HubTypeOK, Reading, RunSelect
<1> QED BY <1>1, <1>2, <1>3

\* A sender that has found no channel full goes on with its loop.
LEMMA SenderMoves ==
    ASSUME HubIInv, NEW s \in Senders, NEW r,
           r \in [pc : {"lock", "send"}, left : SUBSET Clients,
                  full : Clients \cup {NoClient}],
           r.full = sender[s].full,
           r.pc = "send" => r.left \subseteq clients,
           sender' = [sender EXCEPT ![s] = r],
           UNCHANGED <<clients, run, queue, closed, conn, reader, writer, panic>>
    PROVE  HubIInv'
<1>1. HubTypeOK' BY DEF HubTypeOK
<1>2. \A t \in Senders : sender'[t].full = sender[t].full BY DEF HubTypeOK
<1>3. \A t \in Senders : t # s => sender'[t] = sender[t] BY DEF HubTypeOK
<1>4. sender'[s] = r BY DEF HubTypeOK
<1>5. NewIsUnknown' BY <1>2
<1>6. LoopSeesNoDeletion' BY <1>3, <1>4 DEF Reading
<1>7. SenderHolds' BY <1>3, <1>4
<1> QED BY <1>1, <1>5, <1>6, <1>7

LEMMA SenderStep ==
    ASSUME HubIInv, NEW s \in Senders
    PROVE  /\ \A a \in Audiences : SendTo(s, a) => HubIInv'
           /\ Sender(s) => HubIInv'
<1> USE HubAssumption
<1>1. ASSUME NEW a \in Audiences, SendTo(s, a) PROVE HubIInv'
  <2>1. a \in SUBSET Clients OBVIOUS
  <2>2. PICK r : /\ sender' = [sender EXCEPT ![s] = r]
                 /\ r = [sender[s] EXCEPT !.pc = "lock", !.left = a]
      BY <1>1 DEF SendTo
  <2>3. sender[s] \in [pc : {"idle", "lock", "send", "unregister"}, left : SUBSET Clients,
                       full : Clients \cup {NoClient}]
      BY DEF HubTypeOK
  <2>4. r \in [pc : {"lock", "send"}, left : SUBSET Clients, full : Clients \cup {NoClient}]
        /\ r.full = sender[s].full /\ r.pc = "lock"
      BY <2>1, <2>2, <2>3
  <2>5. UNCHANGED <<clients, run, queue, closed, conn, reader, writer, panic>>
      BY <1>1 DEF SendTo
  <2> HIDE DEF HubIInv
  <2> QED BY <2>2, <2>4, <2>5, SenderMoves
<1>2. ASSUME SenderLock(s) PROVE HubIInv'
  <2>1. PICK r : /\ sender' = [sender EXCEPT ![s] = r]
                 /\ r = [sender[s] EXCEPT !.pc = "send", !.left = sender[s].left \cap clients]
      BY <1>2 DEF SenderLock
  <2>2. sender[s] \in [pc : {"idle", "lock", "send", "unregister"}, left : SUBSET Clients,
                       full : Clients \cup {NoClient}]
      BY DEF HubTypeOK
  <2>3. r \in [pc : {"lock", "send"}, left : SUBSET Clients, full : Clients \cup {NoClient}]
        /\ r.full = sender[s].full
      BY <2>1, <2>2
  <2>5. r.pc = "send" => r.left \subseteq clients BY <2>1, <2>2
  <2>4. UNCHANGED <<clients, run, queue, closed, conn, reader, writer, panic>>
      BY <1>2 DEF SenderLock
  <2> HIDE DEF HubIInv
  <2> QED BY <2>1, <2>3, <2>4, <2>5, SenderMoves
<1>3. ASSUME NEW c \in Clients, SendMessage(s, c) PROVE HubIInv'
  <2>1. c \in clients /\ c \notin closed /\ ~Unregistered(c)
      BY <1>3 DEF SendMessage, Reading
  <2>2. CASE queue[c] < Capacity
      BY <1>3, <2>1, <2>2 DEF SendMessage, HubTypeOK, Reading
  <2>3. CASE ~(queue[c] < Capacity)
      BY <1>3, <2>1, <2>3 DEF SendMessage, HubTypeOK, Reading
  <2> QED BY <2>2, <2>3
<1>4. SenderUnlock(s) => HubIInv'
    BY DEF SenderUnlock, HubTypeOK, Reading, SenderIdle
<1> QED BY <1>1, <1>2, <1>3, <1>4 DEF Sender

LEMMA ConnectionStep ==
    ASSUME HubIInv, NEW c \in Clients
    PROVE  /\ ReadPump(c) \/ WriteClosed(c) => HubIInv'
           /\ HandleWebSocket(c) \/ Disconnect(c) \/ ReadPing(c) => HubIInv'
           /\ WriteMessage(c) \/ WriteError(c) => HubIInv'
<1> USE HubAssumption
<1>1. SendPong(c) => HubIInv'
    BY DEF SendPong, HubTypeOK, Reading
<1>2. ReadError(c) => HubIInv'
    BY DEF ReadError, HubTypeOK, Reading
<1>3. WriteClosed(c) => HubIInv'
    BY DEF WriteClosed, HubTypeOK, Reading
<1>4. HandleWebSocket(c) => HubIInv'
    BY DEF HandleWebSocket, HubTypeOK, Reading
<1>5. Disconnect(c) => HubIInv'
    BY DEF Disconnect, HubTypeOK, Reading
<1>6. ReadPing(c) => HubIInv'
    BY DEF ReadPing, HubTypeOK, Reading
<1>7. WriteMessage(c) => HubIInv'
    BY DEF WriteMessage, HubTypeOK, Reading
<1>8. WriteError(c) => HubIInv'
    BY DEF WriteError, HubTypeOK, Reading
<1> QED BY <1>1, <1>2, <1>3, <1>4, <1>5, <1>6, <1>7, <1>8 DEF ReadPump

LEMMA HubNextIInv == HubIInv /\ [HubNext]_hubVars => HubIInv'
<1> SUFFICES ASSUME HubIInv, [HubNext]_hubVars PROVE HubIInv'
    OBVIOUS
<1>1. CASE Run BY <1>1, ExchangeStep, LockedStep DEF Run
<1>2. ASSUME NEW s \in Senders, Sender(s) PROVE HubIInv'
    BY <1>2, SenderStep
<1>3. ASSUME NEW c \in Clients, ReadPump(c) \/ WriteClosed(c) PROVE HubIInv'
    BY <1>3, ConnectionStep
<1>4. CASE Environment BY <1>4, SenderStep, ConnectionStep DEF Environment
<1>5. CASE UNCHANGED hubVars BY <1>5 DEF hubVars, HubTypeOK, Reading
<1> QED BY <1>1, <1>2, <1>3, <1>4, <1>5 DEF HubNext

THEOREM HubInvariance == HubSpec => []HubIInv
BY HubInitIInv, HubNextIInv, PTL DEF HubSpec

\* Every variable keeps its type; no Send channel holds more than it can.
THEOREM HubTypeCorrect == HubSpec => []HubTypeOK
BY HubInvariance, PTL

\* Run and the senders never use a closed channel, however many of them
\* report the same client.
THEOREM NoHubPanic == HubSpec => []HubNeverPanics
BY HubInvariance, PTL

\* Run deletes no client that a sender's loop has yet to visit.
THEOREM StableLoop == HubSpec => []LoopSeesNoDeletion
BY HubInvariance, PTL
=============================================================================
