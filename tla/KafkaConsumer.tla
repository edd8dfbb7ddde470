--------------------------- MODULE KafkaConsumer ----------------------------
(* backend/pkg/messaging/kafka_consumer.go: a consumer group of one member *)
(* and the messages of one partition, which kafka_producer.go sends.  Kafka*)
(* and its client are modelled from how they are used: marked offsets are  *)
(* committed now and then, and a group without any starts at the end.      *)
EXTENDS Functions, Integers, Sequences

CONSTANT ChannelSize  \* of messageChan, 100 in the code

VARIABLES
    log,        \* messages of the partition; the next has this offset
    committed,  \* offset the group has committed, None if it has not
    marked,     \* offset to commit next, None if there is none
    position,   \* offset ConsumeClaim is at, None if there is no session
    put,        \* whether the message there is in the channel already
    channel,    \* offsets in messageChan
    handled,    \* offsets taken out of it
    from,       \* history variable: where the group began
    lost        \* history variable: offsets in the channel at a crash

vars == <<log, committed, marked, position, put, channel, handled, from, lost>>

None == -1

Init ==
    /\ log = 0
    /\ committed = None /\ marked = None
    /\ position = None /\ put = FALSE
    /\ channel = <<>>
    /\ handled = {} /\ lost = {}
    /\ from = 0

PublishMessage ==
    /\ log' = log + 1
    /\ UNCHANGED <<committed, marked, position, put, channel, handled, from, lost>>

\* Consume begins a session; OffsetNewest is where there is no offset.
Consume ==
    /\ position = None
    /\ position' = IF committed = None THEN log ELSE committed
    /\ from' = IF committed = None THEN log ELSE from
    /\ UNCHANGED <<log, committed, marked, put, channel, handled, lost>>

\* Faulty: the message is marked, and then put into the channel.
MarkBeforePut ==
    /\ position # None /\ position < log
    /\ \/ ~put /\ put' = TRUE /\ marked' = position + 1 /\ UNCHANGED <<position, channel>>
       \/ /\ put /\ Len(channel) < ChannelSize
          /\ channel' = Append(channel, position)
          /\ position' = position + 1 /\ put' = FALSE
          /\ UNCHANGED marked
    /\ UNCHANGED <<log, committed, handled, from, lost>>

\* ConsumeClaim: a message is put into the channel, if need be once there is
\* room, and then marked.
ConsumeClaim ==
    /\ position # None /\ position < log
    /\ \/ /\ ~put /\ Len(channel) < ChannelSize
          /\ channel' = Append(channel, position)
          /\ put' = TRUE
          /\ UNCHANGED <<position, marked>>
       \/ /\ put
          /\ marked' = position + 1 /\ position' = position + 1
          /\ put' = FALSE
          /\ UNCHANGED channel
    /\ UNCHANGED <<log, committed, handled, from, lost>>

\* The client commits what was marked, by a timer of its own.
Commit ==
    /\ marked # None
    /\ committed' = marked /\ marked' = None
    /\ UNCHANGED <<log, position, put, channel, handled, from, lost>>

\* Whoever reads Messages takes one.
Receive ==
    /\ channel # <<>>
    /\ handled' = handled \cup {Head(channel)}
    /\ channel' = Tail(channel)
    /\ UNCHANGED <<log, committed, marked, position, put, from, lost>>

\* A rebalance ends the session, once no message waits for room in the channel;
\* what was marked is committed, if that works.
Rebalance ==
    /\ position # None /\ ~put
    /\ position = log \/ Len(channel) < ChannelSize
    /\ committed' \in {committed} \cup ({marked} \ {None})
    /\ position' = None /\ marked' = None
    /\ UNCHANGED <<log, put, channel, handled, from, lost>>

Crash ==
    /\ position' = None /\ marked' = None /\ put' = FALSE
    /\ channel' = <<>>
    /\ lost' = lost \cup Range(channel)
    /\ UNCHANGED <<log, committed, handled, from>>

Next == PublishMessage \/ Consume \/ ConsumeClaim \/ Commit \/ Receive \/ Rebalance \/ Crash

Spec == Init /\ [][Next]_vars

-----------------------------------------------------------------------------
(* Properties.                                                             *)

TypeOK ==
    /\ {committed, marked, position} \subseteq {None} \cup 0..log
    /\ Range(channel) \cup handled \cup lost \subseteq 0..(log - 1)
    /\ Len(channel) <= ChannelSize

\* Behind what is committed or consumed, no message since the group began is
\* passed over: it was handled, waits in the channel or was there at a crash.
NothingPassedOver ==
    \A o \in 0..(log - 1) :
        o >= from /\ (o < committed \/ o < position) =>
            o \in handled \cup Range(channel) \cup lost
=============================================================================
