------------------------- MODULE OrderServiceProofs -------------------------
(***************************************************************************)
(* Theorems about OrderService, for every set of orders, riders, events,   *)
(* request goroutines and cascade goroutines.                              *)
(***************************************************************************)
EXTENDS MCOrderService, TLAPS

(***************************************************************************)
(* Type correctness.                                                       *)
(***************************************************************************)

\* Saving a row of the right type keeps the table and its history typed.
LEMMA StoreType ==
    ASSUME TypeOK, NEW o \in Orders, NEW r \in StoredRow, Store(o, r)
    PROVE  /\ order' \in [Orders -> Row]
           /\ past' \in [Orders -> SUBSET Statuses]
  BY DEF TypeOK, Store, Row, StoredRow

\* What a running handler holds.
LEMMA CallType ==
    ASSUME TypeOK, NEW p \in Procs, call[p].pc # "idle"
    PROVE  /\ call[p] \in Call
           /\ call[p].order \in Orders
           /\ call[p].status \in Statuses
           /\ call[p].event \in Event
           /\ call[p].row \in Row
  BY DEF TypeOK, Call, Idle

LEMMA TimerType ==
    ASSUME TypeOK, NEW t \in Timers, timer[t].pc # "idle"
    PROVE  /\ timer[t] \in Goroutine
           /\ timer[t].order \in Orders
           /\ timer[t].rider \in Riders
  BY DEF TypeOK, Goroutine, Idle

LEMMA GotoType ==
    ASSUME TypeOK, NEW p \in Procs, call[p].pc # "idle",
           NEW pc \in {"items", "load", "column", "save", "history", "publish", "spawn"},
           Goto(p, pc)
    PROVE  call' \in [Procs -> {Idle} \cup Call]
<1>1. [call[p] EXCEPT !.pc = pc] \in Call
  BY CallType DEF Call
<1> QED
  BY <1>1 DEF TypeOK, Goto

LEMMA ReturnType ==
    ASSUME TypeOK, NEW p \in Procs, Return(p)
    PROVE  call' \in [Procs -> {Idle} \cup Call]
  BY DEF TypeOK, Return

LEMMA StoreCallType ==
    ASSUME TypeOK, NEW p \in Procs, NEW c \in Call, call' = [call EXCEPT ![p] = c]
    PROVE  call' \in [Procs -> {Idle} \cup Call]
  BY DEF TypeOK

LEMMA TimerGotoType ==
    ASSUME TypeOK, NEW t \in Timers, timer[t].pc # "idle",
           NEW pc \in {"sleeping", "save", "history"}, TimerGoto(t, pc)
    PROVE  timer' \in [Timers -> {Idle} \cup Goroutine]
<1>1. [timer[t] EXCEPT !.pc = pc] \in Goroutine
  BY TimerType DEF Goroutine
<1> QED
  BY <1>1 DEF TypeOK, TimerGoto

LEMMA TimerExitType ==
    ASSUME TypeOK, NEW t \in Timers, TimerExit(t)
    PROVE  timer' \in [Timers -> {Idle} \cup Goroutine]
  BY DEF TypeOK, TimerExit

LEMMA MessageType ==
    ASSUME TypeOK, NEW p \in Procs, call[p].pc # "idle"
    PROVE  Message(p) \in HistoryRow
  BY CallType DEF Message, HistoryRow

LEMMA RowTypes ==
    ASSUME TypeOK
    PROVE  /\ Placed \in StoredRow
           /\ \A r \in Riders : [status |-> "rider_assigned", rider |-> r] \in StoredRow
           /\ \A o \in Orders :
                /\ order[o] \in Row
                /\ Exists(o) <=> (order[o] \in StoredRow)
                /\ (order[o].status = "absent") <=> (order[o] = Absent)
  BY DEF TypeOK, Row, StoredRow, Placed, Absent, Exists, Statuses, Terminal

\* A row never disappears, and an order with a row has a past.
Present ==
    \A o \in Orders :
        /\ order[o].status # "absent" => order[o].status \in past[o]
        /\ past[o] # {} => order[o].status # "absent"

\* What the locals of a running handler say about the tables.
InCall(p) ==
    LET o == call[p].order IN
    /\ call[p].pc \in {"load", "column"} => call[p].event \in EventIds
    /\ call[p].event = "assign" => call[p].row.rider \in Riders
    /\ call[p].pc = "spawn" => call[p].event = "assign"
    /\ call[p].pc = "column" =>
         /\ call[p].row.status \in past[o]
         /\ isValidStatusTransition(call[p].row.status, call[p].status)
    /\ call[p].pc = "save" =>
         /\ call[p].row \in StoredRow
         /\ call[p].event \in {"cancel", "assign"}
         /\ past[o] # {}
         /\ call[p].event = "assign" => call[p].row.status = "rider_assigned"
         /\ call[p].event = "cancel" =>
              /\ call[p].row.status = "cancelled"
              /\ \E s \in past[o] : canCancelOrder(s)

CallInv == \A p \in Procs : call[p].pc # "idle" => InCall(p)

CascadeInv ==
    \A t \in Timers : timer[t].pc = "save" => "rider_assigned" \in past[timer[t].order]

EtaInv ==
    \A s \in eta :
        /\ s.row.status \in past[s.order] \ Terminal
        /\ s.row.status = "placed" => s.row.rider = NoRider

LifeInv == TypeOK /\ Present /\ CallInv /\ CascadeInv /\ EtaInv /\ PlacedHasNoRider

(***************************************************************************)
(* Frames: what storing a row, and what a step of one goroutine, leave     *)
(* true of everything else.                                                *)
(***************************************************************************)

LEMMA StoreFacts ==
    ASSUME TypeOK, Present, NEW o \in Orders, NEW r \in StoredRow, Store(o, r)
    PROVE  /\ order' \in [Orders -> Row]
           /\ past' \in [Orders -> SUBSET Statuses]
           /\ \A x \in Orders : past[x] \subseteq past'[x]
           /\ order'[o] = r /\ r.status \in past'[o]
           /\ \A x \in Orders \ {o} : order'[x] = order[x] /\ past'[x] = past[x]
           /\ Present'
<1>1. r.status # "absent"
  BY DEF StoredRow, Statuses, Terminal
<1>2. /\ order' \in [Orders -> Row]
      /\ past' \in [Orders -> SUBSET Statuses]
  BY StoreType
<1>3. /\ \A x \in Orders : past[x] \subseteq past'[x]
      /\ order'[o] = r /\ r.status \in past'[o]
      /\ \A x \in Orders \ {o} : order'[x] = order[x] /\ past'[x] = past[x]
  BY DEF TypeOK, Store
<1> QED
  BY <1>1, <1>2, <1>3 DEF Present

LEMMA CallFrame ==
    ASSUME TypeOK, CallInv, NEW p \in Procs,
           \A x \in Orders : past[x] \subseteq past'[x],
           \A q \in Procs \ {p} : call'[q] = call[q],
           call'[p].pc # "idle" => InCall(p)'
    PROVE  CallInv'
<1> SUFFICES ASSUME NEW q \in Procs, q # p, call'[q].pc # "idle"
             PROVE  InCall(q)'
  BY DEF CallInv
<1>1. InCall(q) /\ call'[q] = call[q] /\ call[q].order \in Orders
  BY CallType DEF CallInv
<1> QED
  BY <1>1 DEF InCall

LEMMA CascadeFrame ==
    ASSUME TypeOK, CascadeInv, UNCHANGED timer,
           \A x \in Orders : past[x] \subseteq past'[x]
    PROVE  CascadeInv'
  BY TimerType DEF CascadeInv

LEMMA EtaFrame ==
    ASSUME TypeOK, EtaInv, eta' \subseteq eta,
           \A x \in Orders : past[x] \subseteq past'[x]
    PROVE  EtaInv'
  BY DEF EtaInv, TypeOK

\* A stored row keeps the pool clean unless it is placed and has a rider.
LEMMA PoolFrame ==
    ASSUME PlacedHasNoRider, NEW o \in Orders, NEW r \in StoredRow,
           order'[o] = r, \A x \in Orders \ {o} : order'[x] = order[x],
           r.status = "placed" => r.rider = NoRider
    PROVE  PlacedHasNoRider'
  BY DEF PlacedHasNoRider

-----------------------------------------------------------------------------
(* Steps of a request goroutine.                                           *)

\* The steps that leave the tables alone change one handler's locals.
LEMMA LocalStep ==
    ASSUME LifeInv, NEW p \in Procs,
           UNCHANGED <<order, past, eta>>,
           call' \in [Procs -> {Idle} \cup Call],
           \A q \in Procs \ {p} : call'[q] = call[q],
           call'[p].pc # "idle" => InCall(p)'
    PROVE  Present' /\ CallInv' /\ EtaInv' /\ PlacedHasNoRider'
<1>1. CallInv'
  BY CallFrame DEF LifeInv
<1>2. EtaInv'
  BY EtaFrame DEF LifeInv
<1> QED
  BY <1>1, <1>2 DEF LifeInv, Present, PlacedHasNoRider

LEMMA CreateOrderStep ==
    ASSUME LifeInv, NEW p \in Procs, NEW o \in Orders, CreateOrder(p, o)
    PROVE  LifeInv'
<1> DEFINE c == [pc |-> "items", order |-> o, status |-> "placed",
                 event |-> "init", row |-> Placed]
<1>1. Placed \in StoredRow /\ c \in Call
  BY DEF StoredRow, Placed, Call, Row, Event, Statuses
<1>2. call' = [call EXCEPT ![p] = c] /\ Store(o, Placed)
      /\ UNCHANGED <<items, history, topic, timer, eta>>
  BY DEF CreateOrder
<1>3. /\ order' \in [Orders -> Row]
      /\ past' \in [Orders -> SUBSET Statuses]
      /\ \A x \in Orders : past[x] \subseteq past'[x]
      /\ order'[o] = Placed
      /\ \A x \in Orders \ {o} : order'[x] = order[x]
      /\ Present'
  BY <1>1, <1>2, StoreFacts DEF LifeInv
<1>4. TypeOK'
  BY <1>1, <1>2, <1>3, StoreCallType DEF LifeInv, TypeOK
<1>5. CallInv'
  <2>1. call'[p] = c /\ \A q \in Procs \ {p} : call'[q] = call[q]
    BY <1>2 DEF LifeInv, TypeOK
  <2>2. InCall(p)'
    BY <2>1 DEF InCall
  <2> QED
    BY <1>3, <2>1, <2>2, CallFrame DEF LifeInv
<1>6. PlacedHasNoRider'
  BY <1>1, <1>3, PoolFrame DEF Placed, LifeInv
<1> QED
  BY <1>2, <1>3, <1>4, <1>5, <1>6, CascadeFrame, EtaFrame DEF LifeInv

LEMMA StartUpdateStep ==
    ASSUME LifeInv, NEW p \in Procs, NEW o \in Orders, NEW s \in Statuses,
           NEW e \in EventIds, StartUpdate(p, o, s, e)
    PROVE  LifeInv'
<1> DEFINE c == [pc |-> "load", order |-> o, status |-> s, event |-> e, row |-> Absent]
<1>1. c \in Call
  BY DEF Call, Row, Event
<1>2. call' = [call EXCEPT ![p] = c]
      /\ UNCHANGED <<order, items, history, topic, timer, eta, past>>
  BY DEF StartUpdate
<1>3. call'[p] = c /\ \A q \in Procs \ {p} : call'[q] = call[q]
  BY <1>2 DEF LifeInv, TypeOK
<1>4. InCall(p)'
  BY <1>3, OrderServiceAssumption DEF InCall
<1>5. call' \in [Procs -> {Idle} \cup Call]
  BY <1>1, <1>2, StoreCallType DEF LifeInv
<1> QED
  BY <1>2, <1>3, <1>4, <1>5, LocalStep, CascadeFrame DEF LifeInv, TypeOK

LEMMA UpdateLoadStep ==
    ASSUME LifeInv, NEW p \in Procs, UpdateLoad(p)
    PROVE  LifeInv'
<1> DEFINE row == order[call[p].order]
           c == [call[p] EXCEPT !.pc = "column", !.row = row]
<1>1. /\ call[p].pc = "load" /\ call[p] \in Call /\ call[p].order \in Orders
      /\ call[p].event \in EventIds
  BY CallType DEF UpdateLoad, LifeInv, CallInv, InCall
<1>2. UNCHANGED <<order, items, history, topic, timer, eta, past>>
  BY DEF UpdateLoad
<1>3. CASE isValidStatusTransition(row.status, call[p].status)
  <2>1. call' = [call EXCEPT ![p] = c] /\ c \in Call
    BY <1>1, <1>3, RowTypes DEF UpdateLoad, Call, LifeInv
  <2>2. call'[p] = c /\ \A q \in Procs \ {p} : call'[q] = call[q]
    BY <2>1 DEF LifeInv, TypeOK
  <2>3. row.status # "absent" /\ row.status \in past[call[p].order]
    BY <1>1, <1>3 DEF isValidStatusTransition, Forward, LifeInv, Present, Statuses, Terminal
  <2>4. InCall(p)'
    BY <1>1, <1>2, <1>3, <2>2, <2>3, OrderServiceAssumption DEF InCall, Call
  <2>5. call' \in [Procs -> {Idle} \cup Call]
    BY <2>1, StoreCallType DEF LifeInv
  <2> QED
    BY <1>2, <2>2, <2>4, <2>5, LocalStep, CascadeFrame DEF LifeInv, TypeOK
<1>4. CASE ~isValidStatusTransition(row.status, call[p].status)
  <2>1. Return(p)
    BY <1>4 DEF UpdateLoad
  <2>2. /\ call' \in [Procs -> {Idle} \cup Call]
        /\ call'[p].pc = "idle" /\ \A q \in Procs \ {p} : call'[q] = call[q]
    BY <2>1, ReturnType DEF LifeInv, TypeOK, Return, Idle
  <2> QED
    BY <1>2, <2>2, LocalStep, CascadeFrame DEF LifeInv, TypeOK
<1> QED
  BY <1>3, <1>4

LEMMA CancelOrderStep ==
    ASSUME LifeInv, NEW p \in Procs, NEW o \in Orders, CancelOrder(p, o)
    PROVE  LifeInv'
<1> DEFINE r == [order[o] EXCEPT !.status = "cancelled"]
           c == [pc |-> "save", order |-> o, status |-> "cancelled",
                 event |-> "cancel", row |-> r]
<1>1. call' = [call EXCEPT ![p] = c] /\ canCancelOrder(order[o].status)
      /\ UNCHANGED <<order, items, history, topic, timer, eta, past>>
  BY DEF CancelOrder
<1>2. order[o].status # "absent" /\ order[o].status \in past[o]
  BY <1>1 DEF LifeInv, Present, canCancelOrder
<1>3. r \in StoredRow /\ r.status = "cancelled" /\ c \in Call
  BY <1>2, RowTypes DEF LifeInv, Row, StoredRow, Absent, Call, Event, Statuses, Terminal
<1>4. call'[p] = c /\ \A q \in Procs \ {p} : call'[q] = call[q]
  BY <1>1 DEF LifeInv, TypeOK
<1>5. InCall(p)'
  <2>1. /\ call'[p].pc = "save" /\ call'[p].order = o /\ call'[p].row = r
        /\ call'[p].event = "cancel" /\ past' = past
    BY <1>1, <1>4
  <2>2. \E s \in past[o] : canCancelOrder(s)
    BY <1>1, <1>2
  <2> HIDE DEF r
  <2> QED
    BY <1>3, <2>1, <2>2 DEF InCall
<1>6. call' \in [Procs -> {Idle} \cup Call]
  BY <1>1, <1>3, StoreCallType DEF LifeInv
<1> QED
  BY <1>1, <1>4, <1>5, <1>6, LocalStep, CascadeFrame DEF LifeInv, TypeOK

LEMMA AssignRiderStep ==
    ASSUME LifeInv, NEW p \in Procs, NEW o \in Orders, NEW r \in Riders,
           AssignRider(p, o, r)
    PROVE  LifeInv'
<1> DEFINE w == [status |-> "rider_assigned", rider |-> r]
           c == [pc |-> "save", order |-> o, status |-> "rider_assigned",
                 event |-> "assign", row |-> w]
<1>1. call' = [call EXCEPT ![p] = c] /\ order[o].status # "absent"
      /\ UNCHANGED <<order, items, history, topic, timer, eta, past>>
  BY DEF AssignRider, Exists
<1>2. past[o] # {}
  BY <1>1 DEF LifeInv, Present
<1>3. w \in StoredRow /\ c \in Call
  BY RowTypes DEF LifeInv, Row, Call, Event, Statuses
<1>4. call'[p] = c /\ \A q \in Procs \ {p} : call'[q] = call[q]
  BY <1>1 DEF LifeInv, TypeOK
<1>5. InCall(p)'
  BY <1>1, <1>2, <1>3, <1>4 DEF InCall
<1>6. call' \in [Procs -> {Idle} \cup Call]
  BY <1>1, <1>3, StoreCallType DEF LifeInv
<1> QED
  BY <1>1, <1>4, <1>5, <1>6, LocalStep, CascadeFrame DEF LifeInv, TypeOK

\* A step of a handler that stores a row and moves on to the history insert.
LEMMA StoreStep ==
    ASSUME LifeInv, NEW p \in Procs, call[p].pc \in {"column", "save"},
           NEW r \in StoredRow, Store(call[p].order, r), r.status # "placed",
           Goto(p, "history"), UNCHANGED <<items, history, topic, timer, eta>>
    PROVE  LifeInv'
<1> DEFINE o == call[p].order
<1>1. o \in Orders
  BY CallType DEF LifeInv
<1>2. /\ order' \in [Orders -> Row]
      /\ past' \in [Orders -> SUBSET Statuses]
      /\ \A x \in Orders : past[x] \subseteq past'[x]
      /\ order'[o] = r
      /\ \A x \in Orders \ {o} : order'[x] = order[x]
      /\ Present'
  BY <1>1, StoreFacts DEF LifeInv
<1>3. call' \in [Procs -> {Idle} \cup Call]
  BY GotoType DEF LifeInv
<1>4. TypeOK'
  BY <1>2, <1>3 DEF LifeInv, TypeOK
<1>5. /\ call'[p] = [call[p] EXCEPT !.pc = "history"] /\ call[p] \in Call
      /\ \A q \in Procs \ {p} : call'[q] = call[q]
  BY CallType DEF LifeInv, TypeOK, Goto
<1>6. InCall(p)'
  <2>1. InCall(p)
    BY DEF LifeInv, CallInv
  <2> QED
    BY <1>5, <2>1 DEF InCall, Call
<1>7. PlacedHasNoRider'
  BY <1>1, <1>2, PoolFrame DEF LifeInv
<1> QED
  BY <1>2, <1>4, <1>5, <1>6, <1>7, CallFrame, CascadeFrame, EtaFrame DEF LifeInv

LEMMA UpdateStatusColumnStep ==
    ASSUME LifeInv, NEW p \in Procs, UpdateStatusColumn(p)
    PROVE  LifeInv'
<1> DEFINE o == call[p].order
           r == [order[o] EXCEPT !.status = call[p].status]
<1>1. /\ call[p].pc = "column" /\ o \in Orders /\ call[p].status \in Statuses
      /\ call[p].row.status \in past[o]
      /\ isValidStatusTransition(call[p].row.status, call[p].status)
  BY CallType DEF UpdateStatusColumn, LifeInv, CallInv, InCall
<1>2. order[o] \in StoredRow
  BY <1>1, RowTypes DEF LifeInv, Present, Exists
<1>3. r \in StoredRow /\ r.status = call[p].status
  BY <1>1, <1>2 DEF StoredRow
<1>4. r.status # "placed"
  BY <1>1, <1>3 DEF isValidStatusTransition, Forward
<1> QED
  BY <1>1, <1>3, <1>4, StoreStep DEF UpdateStatusColumn

LEMMA SaveRowStep ==
    ASSUME LifeInv, NEW p \in Procs, SaveRow(p)
    PROVE  LifeInv'
<1>1. /\ call[p].pc = "save" /\ call[p].row \in StoredRow
      /\ call[p].row.status # "placed"
  BY DEF SaveRow, LifeInv, CallInv, InCall
<1> QED
  BY <1>1, StoreStep DEF SaveRow

\* Every other step of a handler changes only where it stands, the items,
\* the history, the topic or the goroutines it starts.
LEMMA TailStep ==
    ASSUME LifeInv, NEW p \in Procs,
           \/ Return(p)
           \/ call[p].pc # "idle" /\ \E pc \in {"items", "history", "publish"} : Goto(p, pc)
           \/ call[p].pc # "idle" /\ call[p].event = "assign" /\ Goto(p, "spawn")
           \/ UNCHANGED call,
           UNCHANGED <<order, past, eta>>
    PROVE  /\ call' \in [Procs -> {Idle} \cup Call]
           /\ Present' /\ CallInv' /\ EtaInv' /\ PlacedHasNoRider'
<1>1. CASE Return(p)
  <2>1. call' \in [Procs -> {Idle} \cup Call]
    BY <1>1, ReturnType DEF LifeInv
  <2>2. call'[p].pc = "idle" /\ \A q \in Procs \ {p} : call'[q] = call[q]
    BY <1>1 DEF LifeInv, TypeOK, Return, Idle
  <2> QED
    BY <2>1, <2>2, LocalStep
<1>2. ASSUME call[p].pc # "idle", NEW pc \in {"items", "history", "publish", "spawn"},
             Goto(p, pc), pc = "spawn" => call[p].event = "assign"
      PROVE  /\ call' \in [Procs -> {Idle} \cup Call]
             /\ Present' /\ CallInv' /\ EtaInv' /\ PlacedHasNoRider'
  <2>1. call' \in [Procs -> {Idle} \cup Call]
    BY <1>2, GotoType DEF LifeInv
  <2>2. /\ call'[p] = [call[p] EXCEPT !.pc = pc] /\ call[p] \in Call
        /\ \A q \in Procs \ {p} : call'[q] = call[q]
    BY <1>2, CallType DEF LifeInv, TypeOK, Goto
  <2>3. InCall(p)
    BY <1>2 DEF LifeInv, CallInv
  <2>4. InCall(p)'
    BY <1>2, <2>2, <2>3 DEF InCall, Call
  <2> QED
    BY <2>1, <2>2, <2>4, LocalStep
<1>3. CASE UNCHANGED call
  BY <1>3 DEF LifeInv, TypeOK, Present, CallInv, InCall, EtaInv, PlacedHasNoRider
<1> QED
  BY <1>1, <1>2, <1>3

LEMMA ContinueStep ==
    ASSUME LifeInv, NEW p \in Procs, Continue(p)
    PROVE  LifeInv'
<1>1. CASE CreateItem(p)
  <2>1. /\ call[p].pc = "items" /\ call[p].order \in Orders
        /\ UNCHANGED <<order, history, topic, timer, eta, past>>
        /\ (Goto(p, "history") \/ UNCHANGED call)
    BY <1>1, CallType DEF CreateItem, LifeInv
  <2>2. items' \in [Orders -> Nat]
    BY <1>1, <2>1 DEF CreateItem, LifeInv, TypeOK
  <2> QED
    BY <2>1, <2>2, TailStep, CascadeFrame DEF LifeInv, TypeOK
<1>2. CASE UpdateLoad(p)
  BY <1>2, UpdateLoadStep
<1>3. CASE UpdateStatusColumn(p)
  BY <1>3, UpdateStatusColumnStep
<1>4. CASE SaveRow(p)
  BY <1>4, SaveRowStep
<1>5. CASE CreateHistory(p)
  <2>1. /\ call[p].pc = "history" /\ (Return(p) \/ Goto(p, "publish"))
        /\ UNCHANGED <<order, items, topic, timer, eta, past>>
        /\ (history' = history \/ history' = history \cup {Message(p)})
    BY <1>5 DEF CreateHistory
  <2>2. history' \subseteq HistoryRow
    BY <2>1, MessageType DEF LifeInv, TypeOK
  <2> QED
    BY <2>1, <2>2, TailStep, CascadeFrame DEF LifeInv, TypeOK
<1>6. CASE PublishMessage(p)
  <2>1. /\ call[p].pc = "publish"
        /\ (Return(p) \/ (Goto(p, "spawn") /\ call[p].event = "assign"))
        /\ UNCHANGED <<order, items, history, timer, eta, past>>
        /\ topic' = topic \cup {Message(p)}
    BY <1>6 DEF PublishMessage, AfterPublish
  <2>2. topic' \subseteq HistoryRow \cup {EtaMessage(o) : o \in Orders}
    BY <2>1, MessageType DEF LifeInv, TypeOK
  <2> QED
    BY <2>1, <2>2, TailStep, CascadeFrame DEF LifeInv, TypeOK
<1>7. ASSUME NEW t \in Timers, SpawnCascade(p, t)
      PROVE  LifeInv'
  <2> DEFINE g == [pc |-> "sleeping", order |-> call[p].order, rider |-> call[p].row.rider]
  <2>1. /\ call[p].pc = "spawn" /\ Return(p) /\ timer' = [timer EXCEPT ![t] = g]
        /\ UNCHANGED <<order, items, history, topic, eta, past>>
    BY <1>7 DEF SpawnCascade
  <2>2. call[p].row.rider \in Riders
    BY <2>1 DEF LifeInv, CallInv, InCall
  <2>3. g \in Goroutine
    BY <2>1, <2>2, CallType DEF LifeInv, Goroutine
  <2>4. timer' \in [Timers -> {Idle} \cup Goroutine]
    BY <2>1, <2>3 DEF LifeInv, TypeOK
  <2>5. CascadeInv'
    BY <2>1 DEF LifeInv, TypeOK, CascadeInv
  <2> QED
    BY <2>1, <2>4, <2>5, TailStep DEF LifeInv, TypeOK
<1> QED
  BY <1>1, <1>2, <1>3, <1>4, <1>5, <1>6, <1>7 DEF Continue

-----------------------------------------------------------------------------
(* Steps of the other goroutines, and failures.                            *)

\* A background writer stores a row it may store and touches no handler.
LEMMA BackgroundStore ==
    ASSUME LifeInv, NEW o \in Orders, NEW r \in StoredRow, Store(o, r),
           r.status = "placed" => r.rider = NoRider,
           eta' \subseteq eta, UNCHANGED <<items, history, call>>,
           topic' \subseteq HistoryRow \cup {EtaMessage(x) : x \in Orders},
           timer' \in [Timers -> {Idle} \cup Goroutine],
           \A t \in Timers : timer'[t].pc = "save" => timer'[t] = timer[t]
    PROVE  LifeInv'
<1>1. /\ order' \in [Orders -> Row]
      /\ past' \in [Orders -> SUBSET Statuses]
      /\ \A x \in Orders : past[x] \subseteq past'[x]
      /\ order'[o] = r
      /\ \A x \in Orders \ {o} : order'[x] = order[x]
      /\ Present'
  BY StoreFacts DEF LifeInv
<1>2. TypeOK'
  BY <1>1 DEF LifeInv, TypeOK
<1>3. CallInv'
  BY <1>1, CallType DEF LifeInv, CallInv, InCall
<1>4. CascadeInv'
  BY <1>1, TimerType DEF LifeInv, CascadeInv
<1> QED
  BY <1>1, <1>2, <1>3, <1>4, EtaFrame, PoolFrame DEF LifeInv

LEMMA CascadeStep ==
    ASSUME LifeInv, NEW t \in Timers, Cascade(t)
    PROVE  LifeInv'
<1>1. CASE CascadeWake(t)
  <2>1. /\ timer[t].pc = "sleeping" /\ timer[t].order \in Orders
        /\ UNCHANGED <<order, items, history, topic, call, eta, past>>
    BY <1>1, TimerType DEF CascadeWake, LifeInv
  <2>2. CASE Unaccepted(t) /\ TimerGoto(t, "save")
    <3>1. timer' \in [Timers -> {Idle} \cup Goroutine]
      BY <2>1, <2>2, TimerGotoType DEF LifeInv
    <3>2. "rider_assigned" \in past[timer[t].order]
      BY <2>1, <2>2 DEF Unaccepted, LifeInv, Present
    <3>3. CascadeInv'
      BY <2>1, <2>2, <3>2, TimerType DEF TimerGoto, LifeInv, TypeOK, CascadeInv
    <3> QED
      BY <2>1, <3>1, <3>3 DEF LifeInv, TypeOK, Present, CallInv, InCall, EtaInv,
                              PlacedHasNoRider
  <2>3. CASE TimerExit(t)
    <3>1. timer' \in [Timers -> {Idle} \cup Goroutine] /\ CascadeInv'
      BY <2>1, <2>3, TimerExitType DEF TimerExit, LifeInv, TypeOK, CascadeInv, Idle
    <3> QED
      BY <2>1, <3>1 DEF LifeInv, TypeOK, Present, CallInv, InCall, EtaInv,
                        PlacedHasNoRider
  <2> QED
    BY <1>1, <2>2, <2>3 DEF CascadeWake
<1>2. CASE CascadeSave(t)
  <2>1. /\ timer[t].pc = "save" /\ timer[t].order \in Orders
        /\ Store(timer[t].order, Placed) /\ TimerGoto(t, "history")
        /\ UNCHANGED <<items, history, topic, call, eta>>
    BY <1>2, TimerType DEF CascadeSave, LifeInv
  <2>2. Placed \in StoredRow /\ Placed.rider = NoRider
    BY RowTypes DEF Placed, LifeInv
  <2>3. timer' \in [Timers -> {Idle} \cup Goroutine]
    BY <2>1, TimerGotoType DEF LifeInv
  <2>4. \A u \in Timers : timer'[u].pc = "save" => timer'[u] = timer[u]
    BY <2>1, TimerType DEF TimerGoto, Goroutine, LifeInv, TypeOK
  <2> QED
    BY <2>1, <2>2, <2>3, <2>4, BackgroundStore DEF LifeInv, TypeOK
<1>3. CASE CascadeHistory(t)
  <2>1. /\ timer[t].pc = "history" /\ timer[t].order \in Orders /\ TimerExit(t)
        /\ UNCHANGED <<order, items, topic, call, eta, past>>
        /\ history' = history \cup {[order |-> timer[t].order, event |-> "cascade",
                                    status |-> "placed"]}
    BY <1>3, TimerType DEF CascadeHistory, LifeInv
  <2>2. history' \subseteq HistoryRow
    BY <2>1 DEF LifeInv, TypeOK, HistoryRow, Event, Statuses
  <2>3. timer' \in [Timers -> {Idle} \cup Goroutine] /\ CascadeInv'
    BY <2>1, TimerExitType DEF TimerExit, LifeInv, TypeOK, CascadeInv, Idle
  <2> QED
    BY <2>1, <2>2, <2>3 DEF LifeInv, TypeOK, Present, CallInv, InCall, EtaInv,
                            PlacedHasNoRider
<1> QED
  BY <1>1, <1>2, <1>3 DEF Cascade

LEMMA EtaStep ==
    ASSUME LifeInv, Eta \/ \E s \in eta : EtaError(s)
    PROVE  LifeInv'
<1>1. CASE EtaTick
  <2>1. UNCHANGED <<order, items, history, topic, call, timer, past>>
    BY <1>1 DEF EtaTick
  <2>2. ASSUME NEW s \in eta'
        PROVE  /\ s \in [order : Orders, row : StoredRow]
               /\ s.row.status \in past[s.order] \ Terminal
               /\ s.row.status = "placed" => s.row.rider = NoRider
    <3>1. PICK o \in Orders : /\ s = [order |-> o, row |-> order[o]]
                              /\ Exists(o) /\ order[o].status \notin Terminal
      BY <1>1 DEF EtaTick
    <3> QED
      BY <3>1, RowTypes DEF LifeInv, Present, PlacedHasNoRider, Exists
  <2>3. eta' \subseteq [order : Orders, row : StoredRow] /\ EtaInv'
    BY <2>1, <2>2 DEF EtaInv
  <2> QED
    BY <2>1, <2>3 DEF LifeInv, TypeOK, Present, CallInv, InCall, CascadeInv,
                      PlacedHasNoRider
<1>2. ASSUME NEW s \in eta, EtaUpdate(s) \/ EtaSkip(s) \/ EtaError(s)
      PROVE  LifeInv'
  <2>1. /\ s.order \in Orders /\ s.row \in StoredRow
        /\ s.row.status = "placed" => s.row.rider = NoRider
    BY DEF LifeInv, TypeOK, EtaInv
  <2>2. /\ eta' \subseteq eta /\ UNCHANGED <<items, history, call, timer>>
        /\ (topic' = topic \/ topic' = topic \cup {EtaMessage(s.order)})
        /\ (Store(s.order, s.row) \/ UNCHANGED <<order, past>>)
    BY <1>2 DEF EtaUpdate, EtaSkip, EtaError
  <2>3. topic' \subseteq HistoryRow \cup {EtaMessage(x) : x \in Orders}
    BY <2>1, <2>2 DEF LifeInv, TypeOK
  <2>4. CASE Store(s.order, s.row)
    BY <2>1, <2>2, <2>3, <2>4, BackgroundStore DEF LifeInv, TypeOK
  <2>5. CASE UNCHANGED <<order, past>>
    BY <2>2, <2>3, <2>5, EtaFrame DEF LifeInv, TypeOK, Present, CallInv, InCall,
                                      CascadeInv, PlacedHasNoRider
  <2> QED
    BY <2>2, <2>4, <2>5
<1> QED
  BY <1>1, <1>2 DEF Eta

LEMMA FaultStep ==
    ASSUME LifeInv, Fault
    PROVE  LifeInv'
<1>1. ASSUME NEW p \in Procs,
             RequestError(p) \/ HistoryErrorIgnored(p) \/ PublishLost(p)
      PROVE  LifeInv'
  <2>1. /\ call[p].pc # "idle"
        /\ UNCHANGED <<order, items, history, topic, timer, eta, past>>
        /\ \/ Return(p)
           \/ Goto(p, "publish")
           \/ call[p].event = "assign" /\ Goto(p, "spawn")
    BY <1>1 DEF RequestError, HistoryErrorIgnored, PublishLost, AfterPublish
  <2> QED
    BY <2>1, TailStep, CascadeFrame DEF LifeInv, TypeOK
<1>2. ASSUME NEW t \in Timers, CascadeError(t)
      PROVE  LifeInv'
  <2>1. /\ timer[t].pc # "idle"
        /\ UNCHANGED <<order, items, history, topic, call, eta, past>>
        /\ (TimerExit(t) \/ TimerGoto(t, "history"))
    BY <1>2 DEF CascadeError
  <2>2. timer' \in [Timers -> {Idle} \cup Goroutine]
    BY <2>1, TimerExitType, TimerGotoType DEF LifeInv
  <2>3. CascadeInv'
    BY <2>1, TimerType DEF LifeInv, TypeOK, CascadeInv, TimerExit, TimerGoto, Idle, Goroutine
  <2> QED
    BY <2>1, <2>2, <2>3 DEF LifeInv, TypeOK, Present, CallInv, InCall, EtaInv,
                            PlacedHasNoRider
<1>3. CASE Crash
  BY <1>3 DEF Crash, LifeInv, TypeOK, Present, CallInv, CascadeInv, EtaInv,
              PlacedHasNoRider, Idle
<1>4. ASSUME NEW p \in Procs, NEW o \in Orders, NEW u \in Updates,
             LookupError(p, o, u[1], u[2])
      PROVE  LifeInv'
  BY <1>4, StartUpdateStep, OrderServiceAssumption DEF LookupError
<1> QED
  BY <1>1, <1>2, <1>3, <1>4, EtaStep DEF Fault

(***************************************************************************)
(* The invariant, and what follows from it.                                *)
(***************************************************************************)

LEMMA LifeInit == Init => LifeInv
  BY OrderServiceAssumption
     DEF Init, LifeInv, TypeOK, Present, CallInv, CascadeInv, EtaInv, PlacedHasNoRider,
         Row, Absent, Idle

LEMMA LifeNext == LifeInv /\ [Next]_vars => LifeInv'
<1> SUFFICES ASSUME LifeInv, [Next]_vars PROVE LifeInv'
  OBVIOUS
<1>1. ASSUME NEW p \in Procs, Request(p) PROVE LifeInv'
  <2>1. \A u \in Updates : u[1] \in Statuses /\ u[2] \in EventIds
    BY OrderServiceAssumption
  <2> QED
    BY <1>1, <2>1, CreateOrderStep, CancelOrderStep, AssignRiderStep,
       StartUpdateStep DEF Request, UpdateOrderStatus
<1>2. ASSUME NEW p \in Procs, Continue(p) PROVE LifeInv'
  BY <1>2, ContinueStep
<1>3. ASSUME NEW t \in Timers, Cascade(t) PROVE LifeInv'
  BY <1>3, CascadeStep
<1>4. CASE Eta
  BY <1>4, EtaStep
<1>5. CASE Fault
  BY <1>5, FaultStep
<1>6. CASE UNCHANGED vars
  BY <1>6 DEF vars, LifeInv, TypeOK, Present, CallInv, InCall, CascadeInv, EtaInv,
              PlacedHasNoRider
<1> QED
  BY <1>1, <1>2, <1>3, <1>4, <1>5, <1>6 DEF Next, CalmNext

\* The inductive invariant: everything a running goroutine holds was true of
\* the tables at some time before.
THEOREM LifeInvariant == Spec => []LifeInv
  BY LifeInit, LifeNext, PTL DEF Spec

\* Every variable keeps its type, for any number of goroutines of each kind.
THEOREM TypeCorrect == Spec => []TypeOK
<1>1. LifeInv => TypeOK
  BY DEF LifeInv
<1> QED
  BY <1>1, LifeInvariant, PTL

\* An order back in the matching pool never shows a rider (order_service.go
\* 327-330 against all other writers of the row).
THEOREM PoolIsClean == Spec => []PlacedHasNoRider
<1>1. LifeInv => PlacedHasNoRider
  BY DEF LifeInv
<1> QED
  BY <1>1, LifeInvariant, PTL

(***************************************************************************)
(* OrderService implements OrderLifecycle.                                 *)
(***************************************************************************)

\* Storing a row is what the lifecycle calls becoming its status.
LEMMA StoreBecomes ==
    ASSUME TypeOK, NEW o \in Orders, NEW r \in StoredRow, Store(o, r)
    PROVE  Lifecycle!Become(o, r.status)
  BY DEF TypeOK, Store, Lifecycle!Become, Row, StoredRow

\* A step that leaves order and past alone is a stuttering step.
LEMMA NoStore ==
    ASSUME UNCHANGED <<order, past>>
    PROVE  UNCHANGED Lifecycle!lvars
  BY DEF Lifecycle!lvars

LEMMA RefineColumn ==
    ASSUME LifeInv, NEW p \in Procs, NEW o \in Orders, o = call[p].order,
           UpdateStatusColumn(p)
    PROVE  Lifecycle!LifecycleNext
<1>1. /\ call[p].status \in Statuses
      /\ call[p].row.status \in past[o]
      /\ isValidStatusTransition(call[p].row.status, call[p].status)
  BY CallType DEF UpdateStatusColumn, LifeInv, CallInv, InCall
<1>2. PICK r \in StoredRow : Store(o, r) /\ r.status = call[p].status
  <2>1. order[o] \in StoredRow
    BY <1>1, RowTypes DEF LifeInv, Present, Exists
  <2>2. /\ [order[o] EXCEPT !.status = call[p].status] \in StoredRow
        /\ [order[o] EXCEPT !.status = call[p].status].status = call[p].status
    BY <1>1, <2>1 DEF StoredRow
  <2> QED
    BY <2>2 DEF UpdateStatusColumn
<1>3. Lifecycle!Become(o, r.status)
  BY <1>2, StoreBecomes DEF LifeInv
<1>4. PICK s \in past[o] : isValidStatusTransition(s, r.status) /\ r.status \in Statuses
  BY <1>1, <1>2
<1>5. Lifecycle!isValidStatusTransition(s, r.status) /\ r.status \in Lifecycle!Statuses
  BY <1>4 DEF Lifecycle!isValidStatusTransition,
     isValidStatusTransition, Lifecycle!Forward, Forward, Lifecycle!Statuses, Statuses,
     Lifecycle!Terminal, Terminal
<1>6. Lifecycle!Advance(o)
  BY <1>3, <1>4, <1>5 DEF Lifecycle!Advance
<1> QED
  BY <1>6 DEF Lifecycle!LifecycleNext

LEMMA RefineSave ==
    ASSUME LifeInv, NEW p \in Procs, NEW o \in Orders, o = call[p].order, SaveRow(p)
    PROVE  Lifecycle!LifecycleNext
<1>1. InCall(p) /\ call[p].pc = "save"
  BY DEF SaveRow, LifeInv, CallInv
<1>2. PICK r \in StoredRow : Store(o, r) /\ r = call[p].row
  BY <1>1 DEF SaveRow, InCall
<1>3. Lifecycle!Become(o, r.status)
  BY <1>2, StoreBecomes DEF LifeInv
<1>4. CASE call[p].event = "assign"
  <2>1. r.status = "rider_assigned" /\ order[o].status # "absent"
    BY <1>1, <1>2, <1>4 DEF LifeInv, InCall, Present
  <2>2. Lifecycle!Assign(o)
    BY <1>3, <2>1 DEF Lifecycle!Assign
  <2> QED
    BY <2>2 DEF Lifecycle!LifecycleNext
<1>5. CASE call[p].event = "cancel"
  <2>1. PICK s \in past[o] : canCancelOrder(s)
    BY <1>1, <1>5 DEF InCall
  <2>2. r.status = "cancelled"
    BY <1>1, <1>2, <1>5 DEF InCall
  <2>3. /\ Lifecycle!isValidStatusTransition(s, "cancelled")
        /\ "cancelled" \in Lifecycle!Statuses
    BY <2>1 DEF canCancelOrder, Lifecycle!isValidStatusTransition, Lifecycle!Statuses,
                Lifecycle!Terminal
  <2>4. Lifecycle!Advance(o)
    BY <1>3, <2>1, <2>2, <2>3 DEF Lifecycle!Advance
  <2> QED
    BY <2>4 DEF Lifecycle!LifecycleNext
<1> QED
  BY <1>1, <1>4, <1>5 DEF InCall

LEMMA RefineContinue ==
    ASSUME LifeInv, NEW p \in Procs, Continue(p)
    PROVE  [Lifecycle!LifecycleNext]_(Lifecycle!lvars)
<1>1. CASE UpdateStatusColumn(p)
  <2>1. call[p].order \in Orders
    BY <1>1, CallType DEF UpdateStatusColumn, LifeInv
  <2> QED
    BY <1>1, <2>1, RefineColumn
<1>2. CASE SaveRow(p)
  <2>1. call[p].order \in Orders
    BY <1>2, CallType DEF SaveRow, LifeInv
  <2> QED
    BY <1>2, <2>1, RefineSave
<1>3. CASE UNCHANGED <<order, past>>
  BY <1>3, NoStore
<1> QED
  BY <1>1, <1>2, <1>3
     DEF Continue, CreateItem, UpdateLoad, CreateHistory, PublishMessage, SpawnCascade

LEMMA RefineBackground ==
    ASSUME LifeInv, (\E t \in Timers : Cascade(t)) \/ Eta \/ Fault
    PROVE  [Lifecycle!LifecycleNext]_(Lifecycle!lvars)
<1>1. ASSUME NEW t \in Timers, CascadeSave(t)
      PROVE  Lifecycle!LifecycleNext
  <2>1. /\ timer[t].order \in Orders /\ Store(timer[t].order, Placed)
        /\ "rider_assigned" \in past[timer[t].order]
    BY <1>1, TimerType DEF CascadeSave, LifeInv, CascadeInv
  <2>2. Lifecycle!Become(timer[t].order, "placed")
    BY <2>1, RowTypes, StoreBecomes DEF Placed, LifeInv
  <2> QED
    BY <2>1, <2>2 DEF Lifecycle!Unassign, Lifecycle!LifecycleNext
<1>2. ASSUME NEW s \in eta, Store(s.order, s.row)
      PROVE  Lifecycle!LifecycleNext
  <2>1. /\ s.order \in Orders /\ s.row \in StoredRow
        /\ s.row.status \in past[s.order] \ Terminal
    BY DEF LifeInv, TypeOK, EtaInv
  <2>2. Lifecycle!Become(s.order, s.row.status)
    BY <1>2, <2>1, StoreBecomes DEF LifeInv
  <2>3. Lifecycle!Restore(s.order)
    BY <2>1, <2>2 DEF Lifecycle!Restore, Lifecycle!Terminal, Terminal
  <2> QED
    BY <2>1, <2>3 DEF Lifecycle!LifecycleNext
<1>3. CASE UNCHANGED <<order, past>>
  BY <1>3, NoStore
<1> QED
  BY <1>1, <1>2, <1>3
     DEF Cascade, CascadeWake, CascadeHistory, Eta, EtaTick, EtaUpdate, EtaSkip, Fault,
         EtaError, RequestError, HistoryErrorIgnored, PublishLost, LookupError,
         StartUpdate, CascadeError, Crash

LEMMA RefineNext ==
    ASSUME LifeInv, [Next]_vars
    PROVE  [Lifecycle!LifecycleNext]_(Lifecycle!lvars)
<1>1. ASSUME NEW p \in Procs, NEW o \in Orders, CreateOrder(p, o)
      PROVE  Lifecycle!LifecycleNext
  <2>1. Lifecycle!Become(o, "placed") /\ order[o].status = "absent"
    BY <1>1, RowTypes, StoreBecomes DEF CreateOrder, Exists, Placed, LifeInv
  <2> QED
    BY <2>1 DEF Lifecycle!Place, Lifecycle!LifecycleNext
<1>2. CASE UNCHANGED <<order, past>>
  BY <1>2, NoStore
<1>3. ASSUME NEW p \in Procs, Request(p)
      PROVE  [Lifecycle!LifecycleNext]_(Lifecycle!lvars)
  BY <1>1, <1>2, <1>3 DEF Request, CancelOrder, AssignRider, UpdateOrderStatus,
                             StartUpdate
<1> QED
  BY <1>2, <1>3, RefineContinue, RefineBackground DEF Next, CalmNext, vars

\* Whatever interleaves, fails or restarts, every status the service stores is
\* a legal successor of one the order had before.
THEOREM Refinement == Spec => ImplementsLifecycle
<1>1. Init => Lifecycle!LifecycleInit
  BY DEF Init, Lifecycle!LifecycleInit, Absent
<1>2. LifeInv /\ [Next]_vars => [Lifecycle!LifecycleNext]_(Lifecycle!lvars)
  BY RefineNext
<1> QED
  BY <1>1, <1>2, LifeInvariant, PTL DEF Spec, ImplementsLifecycle, Lifecycle!LifecycleSpec

\* No order is delivered that was not assigned, collected and brought.
THEOREM Custody == Spec => []CustodyChain
<1>1. Init => CustodyChain
  BY DEF Init, CustodyChain
<1>2. ASSUME LifeInv, CustodyChain, Lifecycle!LifecycleNext
      PROVE  CustodyChain'
  <2>1. PICK o \in Orders :
            \/ Lifecycle!Place(o) \/ Lifecycle!Advance(o) \/ Lifecycle!Assign(o)
            \/ Lifecycle!Unassign(o) \/ Lifecycle!Restore(o)
    BY <1>2 DEF Lifecycle!LifecycleNext
  <2>2. \A s : Lifecycle!Become(o, s) =>
            /\ past'[o] = past[o] \cup {s}
            /\ \A x \in Orders \ {o} : past'[x] = past[x]
    BY <1>2 DEF LifeInv, TypeOK, Lifecycle!Become
  <2>3. CASE Lifecycle!Advance(o)
    <3>1. PICK s \in past[o], t \in Lifecycle!Statuses :
            Lifecycle!isValidStatusTransition(s, t) /\ Lifecycle!Become(o, t)
      BY <2>3 DEF Lifecycle!Advance
    <3>2. \/ t = "cancelled"
          \/ <<s, t>> \in Lifecycle!Forward
      BY <3>1 DEF Lifecycle!isValidStatusTransition
    <3> QED
      BY <1>2, <2>2, <3>1, <3>2 DEF CustodyChain, Lifecycle!Forward
  <2>4. CASE Lifecycle!Restore(o)
    <3>1. PICK s \in past[o] : Lifecycle!Become(o, s)
      BY <2>4 DEF Lifecycle!Restore
    <3> QED
      BY <1>2, <2>2, <3>1 DEF CustodyChain
  <2>5. ASSUME NEW s \in {"placed", "rider_assigned"}, Lifecycle!Become(o, s)
        PROVE  CustodyChain'
    BY <1>2, <2>2, <2>5 DEF CustodyChain
  <2> QED
    BY <2>1, <2>3, <2>4, <2>5 DEF Lifecycle!Place, Lifecycle!Assign, Lifecycle!Unassign
<1>3. LifeInv /\ CustodyChain /\ [Next]_vars => CustodyChain'
  <2>1. CustodyChain /\ UNCHANGED Lifecycle!lvars => CustodyChain'
    BY DEF CustodyChain, Lifecycle!lvars
  <2> QED
    BY <1>2, <2>1, RefineNext
<1> QED
  BY <1>1, <1>3, LifeInvariant, PTL DEF Spec


(***************************************************************************)
(* Published messages have their history row.                              *)
(***************************************************************************)

\* A handler about to publish has recorded what it will publish.
RecordedFirst ==
    \A p \in Procs :
        call[p].pc = "publish" /\ call[p].event # "assign" => Message(p) \in history

AuditInv == RecordedFirst /\ PublishedIsRecorded

\* Rows are never taken out of the history.
LEMMA HistoryGrows ==
    ASSUME [Next]_vars
    PROVE  history \subseteq history'
  BY DEF Next, CalmNext, Request, Continue, Cascade, Eta, Fault, vars, CreateOrder,
         CreateItem, UpdateOrderStatus, StartUpdate, UpdateLoad, UpdateStatusColumn,
         CancelOrder, AssignRider, SaveRow, CreateHistory, PublishMessage, SpawnCascade,
         CascadeWake, CascadeSave, CascadeHistory, EtaTick, EtaUpdate, EtaSkip, EtaError,
         RequestError, HistoryErrorIgnored, PublishLost, LookupError, CascadeError, Crash

\* A step that gives no handler a message to publish.
LEMMA NobodyPublishes ==
    ASSUME RecordedFirst, history \subseteq history',
           \A q \in Procs : call'[q].pc = "publish" /\ call'[q].event # "assign"
                              => call'[q] = call[q]
    PROVE  RecordedFirst'
  BY DEF RecordedFirst, Message

\* A step of one handler that leaves it anywhere but at the publish.
LEMMA HandlerMoves ==
    ASSUME TypeOK, NEW p \in Procs,
           \/ Return(p)
           \/ \E pc \in {"history", "spawn"} : Goto(p, pc)
           \/ \E c : c.pc # "publish" /\ call' = [call EXCEPT ![p] = c]
    PROVE  \A q \in Procs : call'[q].pc = "publish" => call'[q] = call[q]
<1>1. CASE Return(p)
  BY <1>1 DEF Return, Idle, TypeOK
<1>2. ASSUME NEW pc \in {"history", "spawn"}, Goto(p, pc)
      PROVE  \A q \in Procs : call'[q].pc = "publish" => call'[q] = call[q]
  <2>1. \A q \in Procs \ {p} : call'[q] = call[q]
    BY <1>2 DEF Goto, TypeOK
  <2>2. call'[p] = [call[p] EXCEPT !.pc = pc]
    BY <1>2 DEF Goto, TypeOK
  <2>3. call[p] \in {Idle} \cup Call
    BY DEF TypeOK
  <2>4. [call[p] EXCEPT !.pc = pc].pc = pc
    BY <2>3 DEF Idle, Call
  <2> QED
    BY <2>1, <2>2, <2>4
<1>3. ASSUME NEW c, c.pc # "publish", call' = [call EXCEPT ![p] = c]
      PROVE  \A q \in Procs : call'[q].pc = "publish" => call'[q] = call[q]
  BY <1>3 DEF TypeOK
<1> QED
  BY <1>1, <1>2, <1>3

LEMMA RecordedStep ==
    ASSUME TypeOK, RecordedFirst, [Next]_vars
    PROVE  RecordedFirst'
<1>1. history \subseteq history'
  BY HistoryGrows
<1> DEFINE Still == \A q \in Procs : call'[q].pc = "publish" => call'[q] = call[q]
<1>2. ASSUME NEW p \in Procs, Request(p) PROVE Still
  <2>1. \E c : c.pc # "publish" /\ call' = [call EXCEPT ![p] = c]
    BY <1>2 DEF Request, CreateOrder, CancelOrder, AssignRider, UpdateOrderStatus,
                StartUpdate
  <2> QED
    BY <2>1, HandlerMoves
<1>3. ASSUME NEW p \in Procs,
             CreateItem(p) \/ UpdateLoad(p) \/ UpdateStatusColumn(p) \/ SaveRow(p)
               \/ PublishMessage(p) \/ PublishLost(p) \/ RequestError(p)
               \/ \E t \in Timers : SpawnCascade(p, t)
      PROVE  Still
  <2>1. CASE UNCHANGED call
    BY <2>1
  <2>2. CASE UpdateLoad(p)
    <3>1. CASE Return(p)
      BY <3>1, HandlerMoves
    <3>2. CASE call' = [call EXCEPT ![p].pc = "column",
                                    ![p].row = order[call[p].order]]
      <4>1. call[p] \in Call
        BY <2>2, CallType DEF UpdateLoad
      <4>2. [call[p] EXCEPT !.pc = "column", !.row = order[call[p].order]].pc = "column"
        BY <4>1 DEF Call
      <4> QED
        BY <3>2, <4>2 DEF TypeOK
    <3> QED
      BY <2>2, <3>1, <3>2 DEF UpdateLoad
  <2>3. CASE Return(p) \/ \E pc \in {"history", "spawn"} : Goto(p, pc)
    BY <2>3, HandlerMoves
  <2> QED
    BY <1>3, <2>1, <2>2, <2>3
       DEF CreateItem, UpdateStatusColumn, SaveRow, PublishMessage, PublishLost,
           AfterPublish, RequestError, SpawnCascade
<1>4. ASSUME NEW p \in Procs, CreateHistory(p) PROVE RecordedFirst'
  <2>1. CASE Return(p)
    BY <1>1, <2>1, HandlerMoves, NobodyPublishes
  <2>2. CASE Goto(p, "publish") /\ history' = history \cup {Message(p)}
    <3>1. call[p] \in Call
      BY <1>4, CallType DEF CreateHistory
    <3>2. /\ \A q \in Procs \ {p} : call'[q] = call[q]
          /\ call'[p] = [call[p] EXCEPT !.pc = "publish"]
      BY <2>2 DEF Goto, TypeOK
    <3>3. Message(p)' = Message(p)
      BY <3>1, <3>2 DEF Message, Call
    <3> QED
      BY <1>1, <2>2, <3>2, <3>3 DEF RecordedFirst, Message
  <2> QED
    BY <1>4, <2>1, <2>2 DEF CreateHistory
<1>5. ASSUME NEW p \in Procs, HistoryErrorIgnored(p) PROVE RecordedFirst'
  <2>1. call[p] \in Call /\ call[p].event = "assign"
    BY <1>5, CallType DEF HistoryErrorIgnored
  <2>2. /\ \A q \in Procs \ {p} : call'[q] = call[q]
        /\ call'[p] = [call[p] EXCEPT !.pc = "publish"]
    BY <1>5 DEF HistoryErrorIgnored, Goto, TypeOK
  <2>3. call'[p].event = "assign"
    BY <2>1, <2>2 DEF Call
  <2> QED
    BY <1>1, <2>2, <2>3, NobodyPublishes
<1>6. ASSUME NEW p \in Procs, NEW o \in Orders, NEW u \in Updates,
             LookupError(p, o, u[1], u[2])
      PROVE  Still
  <2>1. \E c : c.pc # "publish" /\ call' = [call EXCEPT ![p] = c]
    BY <1>6 DEF LookupError, StartUpdate
  <2> QED
    BY <2>1, HandlerMoves
<1>7. CASE UNCHANGED call
  BY <1>1, <1>7, NobodyPublishes
<1>8. CASE Crash
  BY <1>8 DEF Crash, RecordedFirst, Idle
<1>9. Still => RecordedFirst'
  BY <1>1, NobodyPublishes
<1> HIDE DEF Still
<1>10. ASSUME NEW p \in Procs, Continue(p) PROVE RecordedFirst'
  BY <1>3, <1>4, <1>9, <1>10 DEF Continue
<1>11. ASSUME (\E t \in Timers : Cascade(t)) \/ Eta PROVE UNCHANGED call
  BY <1>11 DEF Cascade, CascadeWake, CascadeSave, CascadeHistory, Eta, EtaTick,
               EtaUpdate, EtaSkip
<1>12. CASE Fault
  <2>1. ASSUME (\E t \in Timers : CascadeError(t)) \/ (\E s \in eta : EtaError(s))
        PROVE  UNCHANGED call
    BY <2>1 DEF CascadeError, EtaError
  <2> QED
    BY <1>12, <1>3, <1>5, <1>6, <1>7, <1>8, <1>9, <2>1 DEF Fault
<1> QED
  BY <1>2, <1>7, <1>9, <1>10, <1>11, <1>12 DEF Next, CalmNext, vars

LEMMA PublishedStep ==
    ASSUME AuditInv, [Next]_vars
    PROVE  PublishedIsRecorded'
<1>1. history \subseteq history'
  BY HistoryGrows
<1>2. ASSUME NEW m \in topic', m \notin topic,
             m.event \notin {"assign", "eta-shift"}
      PROVE  m \in history
  <2>1. \/ \E p \in Procs : PublishMessage(p) /\ m = Message(p)
        \/ \E s \in eta : m = EtaMessage(s.order)
    BY <1>2 DEF Next, CalmNext, Request, Continue, Cascade, Eta, Fault, vars, CreateOrder,
         CreateItem, UpdateOrderStatus, StartUpdate, UpdateLoad, UpdateStatusColumn,
         CancelOrder, AssignRider, SaveRow, CreateHistory, PublishMessage, SpawnCascade,
         CascadeWake, CascadeSave, CascadeHistory, EtaTick, EtaUpdate, EtaSkip, EtaError,
         RequestError, HistoryErrorIgnored, PublishLost, LookupError, CascadeError, Crash
  <2> QED
    BY <1>2, <2>1 DEF AuditInv, RecordedFirst, PublishMessage, Message, EtaMessage
<1> QED
  BY <1>1, <1>2 DEF AuditInv, PublishedIsRecorded

\* Consumers of order-events never learn of a step the audit trail lacks,
\* whatever interleaves, fails or crashes (the write, history, publish order
\* of every handler but AssignRider).
THEOREM PublishedWasRecorded == Spec => []PublishedIsRecorded
<1>1. Init => AuditInv
  BY DEF Init, AuditInv, RecordedFirst, PublishedIsRecorded, Idle
<1>2. TypeOK /\ AuditInv /\ [Next]_vars => AuditInv'
  BY RecordedStep, PublishedStep DEF AuditInv
<1>3. AuditInv => PublishedIsRecorded
  BY DEF AuditInv
<1> QED
  BY <1>1, <1>2, <1>3, TypeCorrect, PTL DEF Spec

(***************************************************************************)
(* A creation that is recorded is complete.                                *)
(***************************************************************************)

CreationRow(o) == [order |-> o, event |-> "init", status |-> "placed"]

Creating(p) == call[p].pc # "idle" /\ call[p].event = "init"

\* An order that is not stored has neither items nor a creation row.
NothingBefore ==
    \A o \in Orders : ~Exists(o) => items[o] = 0 /\ CreationRow(o) \notin history

\* What the handler that creates an order knows of it.
CreatesWhole(p) ==
    LET o == call[p].order IN
    /\ Exists(o)
    /\ call[p].pc = "items" => items[o] < MaxItems /\ CreationRow(o) \notin history
    /\ call[p].pc = "history" => items[o] = MaxItems

\* Every order is created by one handler, and only creations add items.
OneCreator ==
    /\ \A p \in Procs : call[p].pc = "items" => call[p].event = "init"
    /\ \A p, q \in Procs :
         Creating(p) /\ Creating(q) /\ call[p].order = call[q].order => p = q

CreationInv ==
    /\ NothingBefore
    /\ \A p \in Procs : Creating(p) => CreatesWhole(p)
    /\ OneCreator
    /\ CreationLoggedWhole

\* A stored order stays stored.
LEMMA OrdersStay ==
    ASSUME LifeInv, [Next]_vars, NEW o \in Orders, Exists(o)
    PROVE  Exists(o)'
<1>1. LifeInv' /\ past[o] # {}
  BY LifeNext DEF LifeInv, Present, Exists
<1>2. past[o] \subseteq past'[o]
  <2>1. CASE UNCHANGED Lifecycle!lvars
    BY <2>1 DEF Lifecycle!lvars
  <2>2. ASSUME NEW x \in Orders, NEW s, Lifecycle!Become(x, s)
        PROVE  past[o] \subseteq past'[o]
    BY <2>2 DEF Lifecycle!Become, LifeInv, TypeOK
  <2>3. CASE Lifecycle!LifecycleNext
    BY <2>2, <2>3 DEF Lifecycle!LifecycleNext, Lifecycle!Place, Lifecycle!Advance,
                      Lifecycle!Assign, Lifecycle!Unassign, Lifecycle!Restore
  <2> QED
    BY <2>1, <2>3, RefineNext
<1> QED
  BY <1>1, <1>2 DEF LifeInv, Present, Exists

\* Steps that store no item and log no creation, and let every creating
\* handler go on, if at all, from the insert of its history row.
LEMMA CreationFrame ==
    ASSUME LifeInv, CreationInv, [Next]_vars, UNCHANGED items,
           \A o \in Orders : CreationRow(o) \in history' =>
               \/ CreationRow(o) \in history
               \/ \E p \in Procs :
                    call[p].pc = "history" /\ Creating(p) /\ call[p].order = o,
           \A p \in Procs :
               \/ call'[p] = call[p]
               \/ call'[p].pc = "idle"
               \/ call'[p].pc # "items" /\ call'[p].event # "init"
               \/ /\ Creating(p) /\ call'[p].pc = "publish"
                  /\ call'[p].order = call[p].order
    PROVE  CreationInv'
<1>1. \A p \in Procs : Creating(p)' =>
          /\ Creating(p) /\ call'[p].order = call[p].order /\ call[p].order \in Orders
          /\ call'[p].pc \in {"items", "history"} => call'[p].pc = call[p].pc
  BY CallType DEF Creating, LifeInv
<1>2. ASSUME NEW p \in Procs, call[p].pc = "history", Creating(p)
      PROVE  Exists(call[p].order) /\ items[call[p].order] = MaxItems
  BY <1>2 DEF CreationInv, CreatesWhole
<1>3. NothingBefore'
  BY <1>2, OrdersStay DEF CreationInv, NothingBefore
<1>4. CreationLoggedWhole'
  BY <1>2 DEF CreationInv, CreationLoggedWhole, CreationRow
<1>5. OneCreator'
  <2>1. \A p \in Procs : call'[p].pc = "items" => call'[p].event = "init"
    BY DEF CreationInv, OneCreator
  <2> QED
    BY <1>1, <2>1 DEF CreationInv, OneCreator
<1>6. ASSUME NEW p \in Procs, Creating(p)'
      PROVE  CreatesWhole(p)'
  <2>1. CreatesWhole(p) /\ Exists(call[p].order)'
    BY <1>1, <1>6, OrdersStay DEF CreationInv, CreatesWhole
  <2>2. ASSUME call[p].pc = "items", CreationRow(call[p].order) \in history'
        PROVE  FALSE
    <3>1. PICK q \in Procs : call[q].pc = "history" /\ Creating(q)
                             /\ call[q].order = call[p].order
      BY <1>1, <1>6, <2>1, <2>2 DEF CreatesWhole
    <3> QED
      BY <1>1, <1>6, <2>2, <3>1 DEF CreationInv, OneCreator
  <2> QED
    BY <1>1, <1>6, <2>1, <2>2 DEF CreatesWhole, Exists
<1> QED
  BY <1>3, <1>4, <1>5, <1>6 DEF CreationInv

LEMMA CreateOrderKeeps ==
    ASSUME LifeInv, CreationInv, NEW p \in Procs, NEW o \in Orders, CreateOrder(p, o)
    PROVE  CreationInv'
<1>1. [Next]_vars
  BY DEF Next, CalmNext, Request
<1>2. /\ call'[p] = [pc |-> "items", order |-> o, status |-> "placed",
                     event |-> "init", row |-> Placed]
      /\ \A q \in Procs \ {p} : call'[q] = call[q]
      /\ call[p].pc = "idle"
      /\ UNCHANGED <<items, history>>
      /\ ~Exists(o) /\ Exists(o)'
  BY DEF CreateOrder, LifeInv, TypeOK, Idle, Exists, Store, Placed
<1>3. items[o] = 0 /\ CreationRow(o) \notin history
  BY <1>2 DEF CreationInv, NothingBefore
<1>4. \A q \in Procs : Creating(q) => call[q].order \in Orders /\ call[q].order # o
  BY <1>2, CallType DEF CreationInv, CreatesWhole, Creating, LifeInv
<1>5. NothingBefore' /\ CreationLoggedWhole'
  BY <1>1, <1>2, OrdersStay
     DEF CreationInv, NothingBefore, CreationLoggedWhole, CreationRow
<1>6. OneCreator'
  BY <1>2, <1>4 DEF CreationInv, OneCreator, Creating
<1>7. ASSUME NEW q \in Procs, Creating(q)'
      PROVE  CreatesWhole(q)'
  <2>1. CASE q = p
    BY <1>2, <1>3, <2>1, OrderServiceAssumption DEF CreatesWhole, Exists
  <2>2. CASE q # p
    <3>1. call'[q] = call[q] /\ Creating(q)
      BY <1>2, <1>7, <2>2 DEF Creating
    <3>2. CreatesWhole(q) /\ Exists(call[q].order)'
      BY <1>1, <1>4, <3>1, OrdersStay DEF CreationInv, CreatesWhole
    <3> QED
      BY <1>2, <3>1, <3>2 DEF CreatesWhole, Exists
  <2> QED
    BY <2>1, <2>2
<1> QED
  BY <1>5, <1>6, <1>7 DEF CreationInv

LEMMA CreateItemKeeps ==
    ASSUME LifeInv, CreationInv, NEW p \in Procs, CreateItem(p)
    PROVE  CreationInv'
<1> DEFINE o == call[p].order
<1>1. /\ call[p].pc = "items" /\ Creating(p) /\ CreatesWhole(p)
      /\ call[p] \in Call /\ o \in Orders
  BY CallType DEF CreateItem, CreationInv, OneCreator, Creating, LifeInv
<1>2. /\ UNCHANGED <<order, history>>
      /\ items[o] \in Nat /\ items'[o] = items[o] + 1
      /\ \A x \in Orders \ {o} : items'[x] = items[x]
      /\ \A q \in Procs \ {p} : call'[q] = call[q]
      /\ IF items[o] + 1 = MaxItems
         THEN call'[p] = [call[p] EXCEPT !.pc = "history"]
         ELSE call'[p] = call[p]
  BY <1>1 DEF CreateItem, Goto, LifeInv, TypeOK
<1>3. items[o] < MaxItems /\ CreationRow(o) \notin history /\ Exists(o)
  BY <1>1 DEF CreatesWhole
<1>4. /\ call'[p].order = o /\ call'[p].event = "init"
      /\ call'[p].pc = "items" => items'[o] < MaxItems
      /\ call'[p].pc = "history" => items'[o] = MaxItems
      /\ call'[p].pc \in {"items", "history"}
  BY <1>1, <1>2, <1>3, OrderServiceAssumption DEF Call, Creating
<1>5. NothingBefore' /\ CreationLoggedWhole'
  BY <1>2, <1>3 DEF CreationInv, NothingBefore, CreationLoggedWhole, CreationRow, Exists
<1>6. OneCreator'
  BY <1>1, <1>2, <1>4 DEF CreationInv, OneCreator, Creating
<1>7. ASSUME NEW q \in Procs, Creating(q)'
      PROVE  CreatesWhole(q)'
  <2>1. CASE q = p
    BY <1>2, <1>3, <1>4, <2>1 DEF CreatesWhole, Exists
  <2>2. CASE q # p
    <3>1. call'[q] = call[q] /\ Creating(q) /\ CreatesWhole(q)
          /\ call[q].order \in Orders /\ call[q].order # o
      BY <1>1, <1>2, <1>7, <2>2, CallType DEF Creating, CreationInv, OneCreator, LifeInv
    <3> QED
      BY <1>2, <3>1 DEF CreatesWhole, Exists
  <2> QED
    BY <2>1, <2>2
<1> QED
  BY <1>5, <1>6, <1>7 DEF CreationInv


\* What any other step of a request goroutine does to its locals.
HandlerGoesOn(p) ==
    /\ \A q \in Procs \ {p} : call'[q] = call[q]
    /\ \/ call'[p] = call[p]
       \/ call'[p].pc = "idle"
       \/ call'[p].pc # "items" /\ call'[p].event # "init"
       \/ /\ Creating(p) /\ call'[p].pc = "publish"
          /\ call'[p].order = call[p].order

LEMMA ReturnGoesOn ==
    ASSUME TypeOK, NEW p \in Procs, Return(p)
    PROVE  HandlerGoesOn(p)
  BY DEF HandlerGoesOn, Return, Idle, TypeOK

LEMMA GotoGoesOn ==
    ASSUME TypeOK, NEW p \in Procs, call[p].pc # "idle",
           NEW pc \in {"column", "history", "publish", "spawn"}, Goto(p, pc),
           call[p].event # "init" \/ pc = "publish"
    PROVE  HandlerGoesOn(p)
<1>1. /\ call[p] \in Call /\ call'[p] = [call[p] EXCEPT !.pc = pc]
      /\ \A q \in Procs \ {p} : call'[q] = call[q]
  BY CallType DEF Goto, TypeOK
<1>2. /\ call'[p].pc = pc /\ call'[p].event = call[p].event
      /\ call'[p].order = call[p].order
  BY <1>1 DEF Call
<1> QED
  BY <1>1, <1>2 DEF HandlerGoesOn, Creating

LEMMA BeginGoesOn ==
    ASSUME TypeOK, NEW p \in Procs, NEW c, call' = [call EXCEPT ![p] = c],
           c.pc # "items", c.event # "init"
    PROVE  HandlerGoesOn(p)
  BY DEF HandlerGoesOn, TypeOK

LEMMA RequestGoesOn ==
    ASSUME TypeOK, NEW p \in Procs, NEW o \in Orders,
           \/ CancelOrder(p, o)
           \/ \E r \in Riders : AssignRider(p, o, r)
           \/ \E u \in Updates : UpdateOrderStatus(p, o, u[1], u[2])
           \/ \E u \in Updates : LookupError(p, o, u[1], u[2])
    PROVE  HandlerGoesOn(p) /\ UNCHANGED <<items, history>>
<1>1. CASE CancelOrder(p, o)
  <2>1. \E c : /\ c.pc = "save" /\ c.event = "cancel"
              /\ call' = [call EXCEPT ![p] = c]
    BY <1>1 DEF CancelOrder
  <2> QED
    BY <1>1, <2>1, BeginGoesOn DEF CancelOrder
<1>2. ASSUME NEW r \in Riders, AssignRider(p, o, r)
      PROVE  HandlerGoesOn(p) /\ UNCHANGED <<items, history>>
  <2>1. \E c : /\ c.pc = "save" /\ c.event = "assign"
              /\ call' = [call EXCEPT ![p] = c]
    BY <1>2 DEF AssignRider
  <2> QED
    BY <1>2, <2>1, BeginGoesOn DEF AssignRider
<1>3. ASSUME NEW u \in Updates, StartUpdate(p, o, u[1], u[2])
      PROVE  HandlerGoesOn(p) /\ UNCHANGED <<items, history>>
  <2>1. u[2] # "init"
    BY OrderServiceAssumption
  <2>2. \E c : /\ c.pc = "load" /\ c.event = u[2]
              /\ call' = [call EXCEPT ![p] = c]
    BY <1>3 DEF StartUpdate
  <2> QED
    BY <1>3, <2>1, <2>2, BeginGoesOn DEF StartUpdate
<1> QED
  BY <1>1, <1>2, <1>3 DEF UpdateOrderStatus, LookupError

LEMMA ContinueGoesOn ==
    ASSUME LifeInv, NEW p \in Procs,
           Continue(p) \/ RequestError(p) \/ HistoryErrorIgnored(p) \/ PublishLost(p),
           ~CreateItem(p)
    PROVE  /\ HandlerGoesOn(p)
           /\ UNCHANGED items
           /\ \A o \in Orders : CreationRow(o) \in history' =>
                \/ CreationRow(o) \in history
                \/ call[p].pc = "history" /\ Creating(p) /\ call[p].order = o
<1> USE DEF LifeInv
<1>1. CASE UpdateLoad(p)
  <2>1. call[p] \in Call /\ call[p].event # "init"
    BY <1>1, CallType, OrderServiceAssumption DEF UpdateLoad, CallInv, InCall
  <2>2. CASE call' = [call EXCEPT ![p].pc = "column",
                                  ![p].row = order[call[p].order]]
    <3> DEFINE c == [call[p] EXCEPT !.pc = "column", !.row = order[call[p].order]]
    <3>1. c.pc # "items" /\ c.event # "init"
      BY <2>1 DEF Call
    <3>2. call' = [call EXCEPT ![p] = c]
      BY <2>2 DEF TypeOK
    <3> HIDE DEF c
    <3>3. HandlerGoesOn(p)
      BY <3>1, <3>2, BeginGoesOn
    <3> QED
      BY <1>1, <3>3 DEF UpdateLoad
  <2>3. CASE Return(p)
    BY <1>1, <2>3, ReturnGoesOn DEF UpdateLoad
  <2> QED
    BY <1>1, <2>2, <2>3 DEF UpdateLoad
<1>2. CASE UpdateStatusColumn(p) \/ SaveRow(p) \/ HistoryErrorIgnored(p)
  <2>1. call[p].event # "init" /\ call[p].pc # "idle"
    BY <1>2, OrderServiceAssumption
       DEF UpdateStatusColumn, SaveRow, HistoryErrorIgnored, CallInv, InCall
  <2> QED
    BY <1>2, <2>1, GotoGoesOn DEF UpdateStatusColumn, SaveRow, HistoryErrorIgnored
<1>3. CASE CreateHistory(p)
  <2>1. \A o \in Orders : CreationRow(o) = Message(p) =>
            Creating(p) /\ call[p].order = o /\ call[p].pc = "history"
    BY <1>3 DEF CreationRow, Message, Creating, CreateHistory
  <2>2. HandlerGoesOn(p)
    BY <1>3, ReturnGoesOn, GotoGoesOn DEF CreateHistory
  <2> QED
    BY <1>3, <2>1, <2>2 DEF CreateHistory
<1>4. CASE \/ PublishMessage(p) \/ PublishLost(p) \/ RequestError(p)
           \/ \E t \in Timers : SpawnCascade(p, t)
  BY <1>4, ReturnGoesOn, GotoGoesOn
     DEF PublishMessage, PublishLost, AfterPublish, RequestError, SpawnCascade
<1> QED
  BY <1>1, <1>2, <1>3, <1>4 DEF Continue

LEMMA CreationNext ==
    ASSUME LifeInv, CreationInv, [Next]_vars
    PROVE  CreationInv'
<1>1. ASSUME NEW p \in Procs, HandlerGoesOn(p), UNCHANGED items,
             \A o \in Orders : CreationRow(o) \in history' =>
                \/ CreationRow(o) \in history
                \/ call[p].pc = "history" /\ Creating(p) /\ call[p].order = o
      PROVE  CreationInv'
  BY <1>1, CreationFrame DEF HandlerGoesOn
<1>2. ASSUME NEW p \in Procs, Request(p) PROVE CreationInv'
  <2>1. PICK o \in Orders :
          \/ CreateOrder(p, o)
          \/ CancelOrder(p, o)
          \/ \E r \in Riders : AssignRider(p, o, r)
          \/ \E u \in Updates : UpdateOrderStatus(p, o, u[1], u[2])
    BY <1>2 DEF Request
  <2>2. CASE CreateOrder(p, o)
    BY <2>2, CreateOrderKeeps
  <2>3. CASE ~CreateOrder(p, o)
    <3>1. HandlerGoesOn(p) /\ UNCHANGED <<items, history>>
      BY <2>1, <2>3, RequestGoesOn DEF LifeInv
    <3> QED
      BY <1>1, <3>1
  <2> QED
    BY <2>2, <2>3
<1>3. ASSUME NEW p \in Procs,
             Continue(p) \/ RequestError(p) \/ HistoryErrorIgnored(p) \/ PublishLost(p)
      PROVE  CreationInv'
  BY <1>1, <1>3, CreateItemKeeps, ContinueGoesOn
<1>4. CASE (\E t \in Timers : Cascade(t) \/ CascadeError(t)) \/ Eta
           \/ (\E s \in eta : EtaError(s)) \/ UNCHANGED vars
  <2>1. /\ UNCHANGED <<items, call>>
        /\ history' = history \/ \E t \in Timers : history' = history \cup
              {[order |-> timer[t].order, event |-> "cascade", status |-> "placed"]}
    BY <1>4 DEF Cascade, CascadeWake, CascadeSave, CascadeHistory, Eta, EtaTick,
                EtaUpdate, EtaSkip, CascadeError, EtaError, vars
  <2> QED
    BY <2>1, CreationFrame DEF CreationRow
<1>5. CASE Crash
  BY <1>5, CreationFrame DEF Crash, Idle
<1>6. ASSUME NEW p \in Procs, NEW o \in Orders, NEW u \in Updates,
             LookupError(p, o, u[1], u[2])
      PROVE  CreationInv'
  <2>1. HandlerGoesOn(p) /\ UNCHANGED <<items, history>>
    BY <1>6, RequestGoesOn DEF LifeInv
  <2> QED
    BY <1>1, <2>1
<1> QED
  BY <1>2, <1>3, <1>4, <1>5, <1>6 DEF Next, CalmNext, Fault

\* An order whose creation was recorded, and only then announced, has all its
\* items, though CreateOrder may stop between any two of its inserts.
THEOREM CreationIsWhole == Spec => []CreationLoggedWhole
<1>1. Init => CreationInv
  BY OrderServiceAssumption
     DEF Init, CreationInv, NothingBefore, Creating, OneCreator, CreationLoggedWhole, Idle
<1>2. LifeInv /\ CreationInv /\ [Next]_vars => CreationInv'
  BY CreationNext
<1>3. CreationInv => CreationLoggedWhole
  BY DEF CreationInv
<1> QED
  BY <1>1, <1>2, <1>3, LifeInvariant, PTL DEF Spec

(***************************************************************************)
(* Events are written once, if no two handlers are at the same one.        *)
(***************************************************************************)

\* Handlers that overlap are there for different events of clients.
EventsApart ==
    \A p, q \in Procs :
        /\ call[p].pc # "idle" /\ call[p].event \in EventIds
        /\ call[q].pc # "idle" /\ call[q].event = call[p].event
        => p = q

\* Every lookup of an event_id is answered.
LookupsAnswered ==
    Next /\ \A p \in Procs, o \in Orders, u \in Updates : ~LookupError(p, o, u[1], u[2])

\* A handler that still is to write the status came for an event of a client
\* that has no row.
StillNew ==
    \A p \in Procs : call[p].pc \in {"load", "column"} =>
        call[p].event \in EventIds /\ ~Taken(call[p].event)

\* What a step may do to a handler and the rows, for that to last.
LEMMA StaysNew ==
    ASSUME StillNew,
           \A p \in Procs : call'[p].pc \in {"load", "column"} =>
               \/ call'[p].event = call[p].event /\ call[p].pc \in {"load", "column"}
               \/ call'[p].event \in EventIds /\ ~Taken(call'[p].event),
           \A h \in history' : h \in history \/ h.event \notin EventIds
               \/ \A p \in Procs : call'[p].pc \in {"load", "column"} => h.event # call'[p].event
    PROVE  StillNew'
BY DEF StillNew, Taken

\* Whoever moves on has the event it came with, and only UpdateLoad is followed
\* by the status column.
LEMMA MovesOn ==
    ASSUME TypeOK, StillNew, history' = history, NEW p \in Procs, NEW c,
           call' = [call EXCEPT ![p] = c],
           c.pc \in {"load", "column"} =>
               \/ c.event = call[p].event /\ call[p].pc \in {"load", "column"}
               \/ c.event \in EventIds /\ ~Taken(c.event)
    PROVE  StillNew'
<1>1. \A q \in Procs : call'[q] = IF q = p THEN c ELSE call[q] BY DEF TypeOK
<1> QED BY <1>1, StaysNew

LEMMA GoesOn ==
    ASSUME TypeOK, StillNew, history' = history, NEW p \in Procs,
           \/ Return(p)
           \/ \E pc \in {"history", "publish", "spawn"} : Goto(p, pc)
    PROVE  StillNew'
<1>1. CASE Return(p) BY <1>1, MovesOn DEF Return, Idle
<1>2. ASSUME NEW pc \in {"history", "publish", "spawn"}, Goto(p, pc) PROVE StillNew'
  <2>1. \A q \in Procs : call'[q] = IF q = p THEN [call[p] EXCEPT !.pc = pc] ELSE call[q]
      BY <1>2 DEF Goto, TypeOK
  <2>2. call'[p].pc = pc
    <3>1. call[p] = Idle \/ call[p] \in Call BY DEF TypeOK
    <3>2. CASE call[p] = Idle BY <2>1, <3>2 DEF Idle
    <3>3. CASE call[p] \in Call BY <2>1, <3>3 DEF Call
    <3> QED BY <3>1, <3>2, <3>3
  <2>3. \A q \in Procs : call'[q].pc \in {"load", "column"} => call'[q] = call[q]
      BY <2>1, <2>2
  <2> QED BY <2>3, StaysNew
<1> QED BY <1>1, <1>2

LEMMA RequestNew ==
    ASSUME TypeOK, StillNew, NEW p \in Procs, Request(p)
    PROVE  StillNew'
<1>1. PICK o \in Orders : \/ CreateOrder(p, o) \/ CancelOrder(p, o)
                          \/ \E r \in Riders : AssignRider(p, o, r)
                          \/ \E u \in Updates : UpdateOrderStatus(p, o, u[1], u[2])
    BY DEF Request
<1>2. CASE CreateOrder(p, o) BY <1>2, MovesOn DEF CreateOrder
<1>3. CASE CancelOrder(p, o) BY <1>3, MovesOn DEF CancelOrder
<1>4. ASSUME NEW r \in Riders, AssignRider(p, o, r) PROVE StillNew'
    BY <1>4, MovesOn DEF AssignRider
<1>5. ASSUME NEW u \in Updates, UpdateOrderStatus(p, o, u[1], u[2]) PROVE StillNew'
  <2>1. u[2] \in EventIds BY OrderServiceAssumption
  <2> DEFINE c == [pc |-> "load", order |-> o, status |-> u[1], event |-> u[2], row |-> Absent]
  <2>2. c.event = u[2] OBVIOUS
  <2>3. history' = history /\ call' = [call EXCEPT ![p] = c] /\ ~Taken(u[2])
      BY <1>5 DEF UpdateOrderStatus, StartUpdate
  <2> HIDE DEF c
  <2> QED BY <2>1, <2>2, <2>3, MovesOn
<1> QED BY <1>1, <1>2, <1>3, <1>4, <1>5

\* The row of an event is written by its only handler, which is past the column.
LEMMA HistoryNew ==
    ASSUME TypeOK, StillNew, EventsApart, NEW p \in Procs, CreateHistory(p)
    PROVE  StillNew'
<1>1. CASE Taken(call[p].event) BY <1>1, GoesOn DEF CreateHistory
<1>2. CASE ~Taken(call[p].event)
  <2>1. call[p].pc = "history" /\ Goto(p, "publish") /\ history' = history \cup {Message(p)}
      BY <1>2 DEF CreateHistory
  <2>2. \A q \in Procs : call'[q] = IF q = p THEN [call[p] EXCEPT !.pc = "publish"] ELSE call[q]
      BY <2>1 DEF Goto, TypeOK
  <2>3. call'[p].pc = "publish" BY <2>1, <2>2 DEF TypeOK, Call, Idle
  <2>4. \A q \in Procs : call'[q].pc \in {"load", "column"} => q # p /\ call'[q] = call[q]
      BY <2>2, <2>3
  <2>5. Message(p).event = call[p].event BY DEF Message
  <2>6. ASSUME NEW q \in Procs, call'[q].pc \in {"load", "column"}, call[p].event \in EventIds
        PROVE  call[p].event # call'[q].event
      BY <2>1, <2>4, <2>6 DEF EventsApart
  <2> QED BY <2>1, <2>4, <2>5, <2>6, StaysNew
<1> QED BY <1>1, <1>2

LEMMA ContinueNew ==
    ASSUME TypeOK, StillNew, EventsApart, NEW p \in Procs, Continue(p)
    PROVE  StillNew'
<1>1. CASE CreateItem(p)
  <2>1. history' = history /\ (Goto(p, "history") \/ call' = call)
      BY <1>1 DEF CreateItem
  <2> QED BY <2>1, GoesOn, StaysNew
<1>2. CASE UpdateLoad(p)
  <2> DEFINE c == [call[p] EXCEPT !.pc = "column", !.row = order[call[p].order]]
  <2>1. history' = history /\ (Return(p) \/ call' = [call EXCEPT ![p] = c])
        /\ call[p].pc = "load"
      BY <1>2 DEF UpdateLoad
  <2>2. c.event = call[p].event BY <2>1 DEF TypeOK, Call, Idle
  <2> HIDE DEF c
  <2> QED BY <2>1, <2>2, GoesOn, MovesOn
<1>3. CASE CreateHistory(p) BY <1>3, HistoryNew
<1>4. CASE UpdateStatusColumn(p) \/ SaveRow(p) \/ PublishMessage(p) \/ \E t \in Timers : SpawnCascade(p, t)
    BY <1>4, GoesOn DEF UpdateStatusColumn, SaveRow, PublishMessage, AfterPublish, SpawnCascade
<1> QED BY <1>1, <1>2, <1>3, <1>4 DEF Continue

LEMMA NewNext ==
    ASSUME TypeOK, StillNew, EventsApart, [LookupsAnswered]_vars
    PROVE  StillNew'
<1>1. ASSUME NEW p \in Procs, RequestError(p) \/ HistoryErrorIgnored(p) \/ PublishLost(p)
      PROVE  StillNew'
    BY <1>1, GoesOn DEF RequestError, HistoryErrorIgnored, PublishLost, AfterPublish
<1>2. CASE (\E t \in Timers : Cascade(t) \/ CascadeError(t)) \/ Eta
           \/ (\E s \in eta : EtaError(s)) \/ UNCHANGED vars
  <2>1. /\ call' = call
        /\ history' = history \/ \E t \in Timers : history' = history \cup
              {[order |-> timer[t].order, event |-> "cascade", status |-> "placed"]}
    BY <1>2 DEF Cascade, CascadeWake, CascadeSave, CascadeHistory, Eta, EtaTick,
                EtaUpdate, EtaSkip, CascadeError, EtaError, vars
  <2>2. "cascade" \notin EventIds BY OrderServiceAssumption
  <2> QED BY <2>1, <2>2, StaysNew
<1>3. CASE Crash BY <1>3, StaysNew DEF Crash, Idle
<1> QED
  BY <1>1, <1>2, <1>3, RequestNew, ContinueNew DEF LookupsAnswered, Next, CalmNext, Fault

\* "protect status endpoints against duplicate execution" (README.md:54): no
\* status is written for an event the history already has, whatever interleaves,
\* fails or crashes, if every lookup of an event is answered and no two handlers
\* are at the same event at a time.  Without either, the guard is a check that
\* the write does not repeat.
THEOREM WrittenOnce ==
    Init /\ [][LookupsAnswered]_vars /\ []EventsApart => EventWrittenOnce
<1>1. Init => StillNew BY DEF Init, StillNew, Idle
<1>2. TypeOK /\ StillNew /\ EventsApart /\ [LookupsAnswered]_vars => StillNew'
  BY NewNext
<1>3. StillNew /\ [LookupsAnswered]_vars =>
        [\A p \in Procs : UpdateStatusColumn(p) => ~Taken(call[p].event)]_vars
  BY DEF StillNew, UpdateStatusColumn
<1>4. [LookupsAnswered]_vars => [Next]_vars BY DEF LookupsAnswered
<1>5. Init /\ [][LookupsAnswered]_vars => []TypeOK
  BY <1>4, TypeCorrect, PTL DEF Spec
<1> QED
  BY <1>1, <1>2, <1>3, <1>5, PTL DEF EventWrittenOnce

\* Without failures lookups are answered.
LEMMA FaultlessNew ==
    ASSUME TypeOK, StillNew, EventsApart, [MCNext]_mcvars, faults \in Nat, faults' = 0
    PROVE  StillNew'
<1>1. CalmNext \/ Eta \/ UNCHANGED vars
    BY DEF MCNext, Eta, mcvars
<1>2. CASE Eta \/ UNCHANGED vars
  <2>1. call' = call /\ history' = history
      BY <1>2 DEF Eta, EtaTick, EtaUpdate, EtaSkip, vars
  <2> QED BY <2>1, StaysNew
<1>3. CASE CalmNext
  <2>1. ASSUME NEW t \in Timers, Cascade(t) PROVE StillNew'
    <3>1. /\ call' = call
          /\ history' = history \/ history' = history \cup
                {[order |-> timer[t].order, event |-> "cascade", status |-> "placed"]}
        BY <2>1 DEF Cascade, CascadeWake, CascadeSave, CascadeHistory
    <3>2. "cascade" \notin EventIds BY OrderServiceAssumption
    <3> QED BY <3>1, <3>2, StaysNew
  <2> QED BY <1>3, <2>1, RequestNew, ContinueNew DEF CalmNext
<1> QED BY <1>1, <1>2, <1>3

\* The same of a service nothing has failed of so far, with the recalculator
\* at work: no status is written for an event the history already has, if no two
\* handlers are at the same event at a time.
THEOREM WrittenOnceWhileFaultless == MCSpec /\ []EventsApart => FaultlessWrittenOnce
<1> DEFINE Inv == faults \in Nat /\ (faults = 0 => StillNew)
<1>1. MCInit => Inv BY DEF MCInit, Init, StillNew, Idle
<1>2. ASSUME [MCNext]_mcvars PROVE [Next]_vars
  BY <1>2 DEF MCNext, Next, Eta, mcvars
<1>3. ASSUME faults \in Nat, [MCNext]_mcvars
      PROVE  faults' \in Nat /\ (faults' = 0 => faults = 0)
  BY <1>3 DEF MCNext, mcvars
<1>4. TypeOK /\ Inv /\ EventsApart /\ [MCNext]_mcvars => Inv'
  BY <1>3, FaultlessNew
<1>5. Inv /\ [MCNext]_mcvars =>
        [faults' = 0 => \A p \in Procs : UpdateStatusColumn(p) => ~Taken(call[p].event)]_mcvars
  BY <1>3 DEF StillNew, UpdateStatusColumn
<1>6. MCInit => Init BY DEF MCInit
<1>7. MCSpec => []TypeOK
  BY <1>2, <1>6, TypeCorrect, PTL DEF Spec, MCSpec
<1> QED
  BY <1>1, <1>4, <1>5, <1>7, PTL DEF FaultlessWrittenOnce, MCSpec

=============================================================================
