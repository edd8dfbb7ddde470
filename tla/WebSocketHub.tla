---------------------------- MODULE WebSocketHub ----------------------------
(***************************************************************************)
(* The hub of backend/pkg/websocket: the goroutine Run, which owns changes *)
(* of the map of clients, the goroutines that call SendToUser, SendToType  *)
(* and SendToTopic, and for each connection its handler, readPump and      *)
(* writePump.                                                              *)
(*                                                                         *)
(* register and unregister are unbuffered channels: one action stands for  *)
(* both ends of an exchange.  Send is a buffered channel, kept as the      *)
(* number of messages in it.  A connection is used once, as its client id  *)
(* is new.  The broadcast channel is left out: no code sends on it.        *)
(***************************************************************************)
EXTENDS Integers, FiniteSets

CONSTANTS
    Clients,    \* connections, one client each
    NoClient,
    Senders,    \* goroutines that send messages through the hub
    Audiences,  \* the clients of a user, or of a type, or all: whom a message is for
    Capacity    \* capacity of a client's Send channel

VARIABLES
    clients,    \* Hub.clients
    run,        \* where Run is, and with which client
    sender,     \* where each sender is in its loop over the clients
    queue,      \* messages in each client's Send channel
    closed,     \* clients whose Send channel is closed
    conn,       \* each client's connection
    reader,     \* each client's handler, then its readPump
    writer,     \* each client's writePump
    panic       \* who brought the process down by using a closed channel

hubVars == <<clients, run, sender, queue, closed, conn, reader, writer, panic>>

ASSUME HubAssumption ==
    /\ NoClient \notin Clients
    /\ Audiences \subseteq SUBSET Clients
    /\ Capacity \in Nat \ {0}

SenderIdle == [pc |-> "idle", left |-> {}, full |-> NoClient]

RunSelect == [pc |-> "select", client |-> NoClient]

HubInit ==
    /\ clients = {}
    /\ run = RunSelect
    /\ sender = [s \in Senders |-> SenderIdle]
    /\ queue = [c \in Clients |-> 0]
    /\ closed = {}
    /\ conn = [c \in Clients |-> "none"]
    /\ reader = [c \in Clients |-> "none"]
    /\ writer = [c \in Clients |-> "none"]
    /\ panic = "none"

\* Senders that hold the read lock.
Reading == {s \in Senders : sender[s].pc \in {"send", "unregister"}}

-----------------------------------------------------------------------------
(* Run.                                                                    *)

\* HandleWebSocket's register, and the pumps it starts once it is taken.
Register(c) ==
    /\ run = RunSelect
    /\ reader[c] = "register"
    /\ run' = [pc |-> "register", client |-> c]
    /\ reader' = [reader EXCEPT ![c] = "read"]
    /\ writer' = [writer EXCEPT ![c] = "write"]
    /\ UNCHANGED <<clients, sender, queue, closed, conn, panic>>

\* The end of readPump, which closes the connection once it is taken.
UnregisterReader(c) ==
    /\ run = RunSelect
    /\ reader[c] = "unregister"
    /\ run' = [pc |-> "unregister", client |-> c]
    /\ reader' = [reader EXCEPT ![c] = "done"]
    /\ conn' = [conn EXCEPT ![c] = "closed"]
    /\ UNCHANGED <<clients, sender, queue, closed, writer, panic>>

\* A sender that found a client's channel full.
UnregisterSender(s) ==
    /\ run = RunSelect
    /\ sender[s].pc = "unregister"
    /\ run' = [pc |-> "unregister", client |-> sender[s].full]
    /\ sender' = [sender EXCEPT ![s].pc = "send", ![s].full = NoClient]
    /\ UNCHANGED <<clients, queue, closed, conn, reader, writer, panic>>

\* Run asks for the lock: from here on no sender gets the read lock.
RunLock ==
    /\ run.pc \in {"register", "unregister"}
    /\ run' = [run EXCEPT !.pc = IF @ = "register" THEN "add" ELSE "delete"]
    /\ UNCHANGED <<clients, sender, queue, closed, conn, reader, writer, panic>>

\* Faulty: the lock is never given back.
RunAddLocked ==
    /\ run.pc = "add"
    /\ Reading = {}
    /\ clients' = clients \cup {run.client}
    /\ UNCHANGED <<run, sender, queue, closed, conn, reader, writer, panic>>

RunAdd ==
    /\ run.pc = "add"
    /\ Reading = {}
    /\ clients' = clients \cup {run.client}
    /\ run' = RunSelect
    /\ UNCHANGED <<sender, queue, closed, conn, reader, writer, panic>>

\* Faulty: the client is closed without a look at the map.
RunDeleteUnchecked ==
    /\ run.pc = "delete"
    /\ Reading = {}
    /\ clients' = clients \ {run.client}
    /\ closed' = closed \cup {run.client}
    /\ panic' = IF run.client \in closed THEN "hub" ELSE panic
    /\ run' = RunSelect
    /\ UNCHANGED <<sender, queue, conn, reader, writer>>

\* Faulty: the lock is not taken.
RunDeleteUnlocked ==
    /\ run.pc = "delete"
    /\ clients' = clients \ {run.client}
    /\ closed' = IF run.client \in clients THEN closed \cup {run.client} ELSE closed
    /\ panic' = IF run.client \in clients \cap closed THEN "hub" ELSE panic
    /\ run' = RunSelect
    /\ UNCHANGED <<sender, queue, conn, reader, writer>>

\* A client that is still registered is removed, and its channel closed.
RunDelete ==
    /\ run.pc = "delete"
    /\ Reading = {}
    /\ clients' = clients \ {run.client}
    /\ closed' = IF run.client \in clients THEN closed \cup {run.client} ELSE closed
    /\ panic' = IF run.client \in clients \cap closed THEN "hub" ELSE panic
    /\ run' = RunSelect
    /\ UNCHANGED <<sender, queue, conn, reader, writer>>

-----------------------------------------------------------------------------
(* Senders.                                                                *)

\* SendToUser, SendToType and SendToTopic ask for the read lock.
SendTo(s, audience) ==
    /\ sender[s] = SenderIdle
    /\ sender' = [sender EXCEPT ![s] = [@ EXCEPT !.pc = "lock", !.left = audience]]
    /\ UNCHANGED <<clients, run, queue, closed, conn, reader, writer, panic>>

\* The loop is over those of the audience that are registered by then.
SenderLock(s) ==
    /\ sender[s].pc = "lock"
    /\ run.pc \notin {"add", "delete"}
    /\ sender' = [sender EXCEPT ![s] = [@ EXCEPT !.pc = "send",
                                                 !.left = sender[s].left \cap clients]]
    /\ UNCHANGED <<clients, run, queue, closed, conn, reader, writer, panic>>

\* One round of the loop: send, or find the channel full.
SendMessage(s, c) ==
    /\ sender[s].pc = "send"
    /\ c \in sender[s].left
    /\ IF c \in closed
       THEN panic' = "hub" /\ UNCHANGED <<sender, queue>>
       ELSE /\ UNCHANGED panic
            /\ IF queue[c] < Capacity
               THEN /\ queue' = [queue EXCEPT ![c] = @ + 1]
                    /\ sender' = [sender EXCEPT ![s].left = @ \ {c}]
               ELSE /\ sender' = [sender EXCEPT ![s].pc = "unregister",
                                                ![s].left = @ \ {c}, ![s].full = c]
                    /\ UNCHANGED queue
    /\ UNCHANGED <<clients, run, closed, conn, reader, writer>>

SenderUnlock(s) ==
    /\ sender[s].pc = "send"
    /\ sender[s].left = {}
    /\ sender' = [sender EXCEPT ![s] = SenderIdle]
    /\ UNCHANGED <<clients, run, queue, closed, conn, reader, writer, panic>>

-----------------------------------------------------------------------------
(* A connection: its handler, readPump and writePump.                      *)

HandleWebSocket(c) ==
    /\ conn[c] = "none"
    /\ conn' = [conn EXCEPT ![c] = "open"]
    /\ reader' = [reader EXCEPT ![c] = "register"]
    /\ UNCHANGED <<clients, run, sender, queue, closed, writer, panic>>

\* The peer goes away, or is silent for 60 seconds.
Disconnect(c) ==
    /\ conn[c] = "open"
    /\ conn' = [conn EXCEPT ![c] = "closed"]
    /\ UNCHANGED <<clients, run, sender, queue, closed, reader, writer, panic>>

\* readPump takes a "ping"; its other messages change nothing.
ReadPing(c) ==
    /\ reader[c] = "read"
    /\ conn[c] = "open"
    /\ reader' = [reader EXCEPT ![c] = "pong"]
    /\ UNCHANGED <<clients, run, sender, queue, closed, conn, writer, panic>>

\* The answer to a ping waits for room in the channel.
SendPong(c) ==
    /\ reader[c] = "pong"
    /\ \/ /\ c \in closed
          /\ panic' = "pong"
          /\ UNCHANGED <<reader, queue>>
       \/ /\ c \notin closed /\ queue[c] < Capacity
          /\ queue' = [queue EXCEPT ![c] = @ + 1]
          /\ reader' = [reader EXCEPT ![c] = "read"]
          /\ UNCHANGED panic
    /\ UNCHANGED <<clients, run, sender, closed, conn, writer>>

\* Faulty: readPump ends without a word to the hub.
ReadErrorSilent(c) ==
    /\ reader[c] = "read"
    /\ conn[c] = "closed"
    /\ reader' = [reader EXCEPT ![c] = "done"]
    /\ UNCHANGED <<clients, run, sender, queue, closed, conn, writer, panic>>

ReadError(c) ==
    /\ reader[c] = "read"
    /\ conn[c] = "closed"
    /\ reader' = [reader EXCEPT ![c] = "unregister"]
    /\ UNCHANGED <<clients, run, sender, queue, closed, conn, writer, panic>>

WriteMessage(c) ==
    /\ writer[c] = "write"
    /\ conn[c] = "open"
    /\ queue[c] > 0
    /\ queue' = [queue EXCEPT ![c] = @ - 1]
    /\ UNCHANGED <<clients, run, sender, closed, conn, reader, writer, panic>>

\* A write fails, of a message or of a ping, and writePump closes up.
WriteError(c) ==
    /\ writer[c] = "write"
    /\ \/ queue[c] > 0 /\ queue' = [queue EXCEPT ![c] = @ - 1]
       \/ UNCHANGED queue
    /\ writer' = [writer EXCEPT ![c] = "done"]
    /\ conn' = [conn EXCEPT ![c] = "closed"]
    /\ UNCHANGED <<clients, run, sender, closed, reader, panic>>

\* writePump has emptied a closed channel.
WriteClosed(c) ==
    /\ writer[c] = "write"
    /\ c \in closed
    /\ queue[c] = 0
    /\ writer' = [writer EXCEPT ![c] = "done"]
    /\ conn' = [conn EXCEPT ![c] = "closed"]
    /\ UNCHANGED <<clients, run, sender, queue, closed, reader, panic>>

-----------------------------------------------------------------------------

Run ==
    \/ \E c \in Clients : Register(c) \/ UnregisterReader(c)
    \/ \E s \in Senders : UnregisterSender(s)
    \/ RunLock \/ RunAdd \/ RunDelete

Sender(s) ==
    \/ SenderLock(s)
    \/ \E c \in Clients : SendMessage(s, c)
    \/ SenderUnlock(s)

ReadPump(c) == SendPong(c) \/ ReadError(c)

\* What comes from outside: new connections and messages, and lost peers.
Environment ==
    \/ \E s \in Senders, a \in Audiences : SendTo(s, a)
    \/ \E c \in Clients :
         HandleWebSocket(c) \/ Disconnect(c) \/ ReadPing(c) \/ WriteMessage(c)
            \/ WriteError(c)

HubNext ==
    /\ panic = "none"
    /\ \/ Run
       \/ \E s \in Senders : Sender(s)
       \/ \E c \in Clients : ReadPump(c) \/ WriteClosed(c)
       \/ Environment

HubSpec == HubInit /\ [][HubNext]_hubVars

\* Goroutines that can take a step do; nothing is assumed of peers, who may
\* never read, write or leave.
HubFairness ==
    /\ WF_hubVars(panic = "none" /\ Run)
    /\ \A s \in Senders : WF_hubVars(panic = "none" /\ Sender(s))
    /\ \A c \in Clients : WF_hubVars(panic = "none" /\ ReadPump(c))

HubFairSpec == HubSpec /\ HubFairness

-----------------------------------------------------------------------------
(* Properties.                                                             *)

HubTypeOK ==
    /\ clients \subseteq Clients
    /\ run \in [pc : {"select", "register", "unregister", "add", "delete"},
                client : Clients \cup {NoClient}]
    /\ sender \in [Senders -> [pc : {"idle", "lock", "send", "unregister"},
                               left : SUBSET Clients,
                               full : Clients \cup {NoClient}]]
    /\ queue \in [Clients -> 0..Capacity]
    /\ closed \subseteq Clients
    /\ conn \in [Clients -> {"none", "open", "closed"}]
    /\ reader \in [Clients -> {"none", "register", "read", "pong", "unregister", "done"}]
    /\ writer \in [Clients -> {"none", "write", "done"}]
    /\ panic \in {"none", "hub", "pong"}

\* Run and the senders never send on a channel that is closed, nor close it
\* twice, though several of them report the same client.
HubNeverPanics == panic # "hub"

\* While a sender loops over the map, no client it has yet to visit leaves.
LoopSeesNoDeletion == \A s \in Reading : sender[s].left \subseteq clients

\* A client that is gone is forgotten for good.
GoneIsForgotten ==
    \A c \in Clients : conn[c] = "closed" ~> [](c \notin clients)

\* A message is handed to everyone it is for, and its sender let go.
SendReturns ==
    \A s \in Senders : sender[s].pc = "lock" ~> sender[s].pc = "idle"
=============================================================================
