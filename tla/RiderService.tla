---------------------------- MODULE RiderService ----------------------------
(***************************************************************************)
(* backend/cmd/rider-service: rider profiles with their two switches and   *)
(* running totals, and the table of earnings.  Each repository call is an  *)
(* action.                                                                 *)
(*                                                                         *)
(* This is the service layer: the routes of main.go name no rider, so the  *)
(* handlers that change one answer 400, and nothing calls AddEarning yet.  *)
(* Left out: vehicle, licence and location, which nothing else here        *)
(* depends on, and the ranking of riders nearby, which changes nothing.    *)
(***************************************************************************)
EXTENDS Integers

CONSTANTS
    Users, RiderIds,
    Switches,  \* columns a request may set: "online", "available"
    Amounts,   \* what a delivery may earn
    Procs      \* handler goroutines

VARIABLES
    rider,     \* table of riders
    earnings,  \* for each rider, number and sum of the rows of rider_earnings
    call,      \* what each handler is doing
    asked      \* history variable: how the switches of each rider were last asked to be

vars == <<rider, earnings, call, asked>>

Absent == [user |-> "none"]

Row == [user : Users, switches : SUBSET Switches, total : Nat, deliveries : Nat]

Idle == [pc |-> "idle"]

Call == [pc : {"create"}, user : Users]
          \cup [pc : {"count"}, id : RiderIds, amount : Amounts]
          \cup [pc : {"save"}, id : RiderIds, row : Row,
                named : SUBSET Switches, on : SUBSET Switches]

Riders == {r \in RiderIds : rider[r] # Absent}

Init ==
    /\ rider = [r \in RiderIds |-> Absent]
    /\ earnings = [r \in RiderIds |-> [rows |-> 0, sum |-> 0]]
    /\ call = [p \in Procs |-> Idle]
    /\ asked = [r \in RiderIds |-> {}]

Goto(p, c) == call' = [call EXCEPT ![p] = c]

Return(p) == Goto(p, Idle)

\* Only what is named is set.
Switched(old, named, on) == (old \ named) \cup on

-----------------------------------------------------------------------------
(* Requests, up to the first call that writes.                             *)

\* Faulty: nobody asks whether the user has a profile.
CreateRiderUnasked(p, u) ==
    /\ call[p] = Idle
    /\ Goto(p, [pc |-> "create", user |-> u])
    /\ UNCHANGED <<rider, earnings, asked>>

CreateRider(p, u) ==
    /\ call[p] = Idle
    /\ \A r \in Riders : rider[r].user # u
    /\ Goto(p, [pc |-> "create", user |-> u])
    /\ UNCHANGED <<rider, earnings, asked>>

Create(p) ==
    /\ call[p].pc = "create"
    /\ \E r \in RiderIds \ Riders :
         /\ rider' = [rider EXCEPT ![r] = [user |-> call[p].user, switches |-> {"available"},
                                           total |-> 0, deliveries |-> 0]]
         /\ asked' = [asked EXCEPT ![r] = {"available"}]
    /\ Return(p)
    /\ UNCHANGED earnings

\* Faulty: a switch that is not named counts as off.
UpdateRiderDefaults(p, r) ==
    /\ call[p] = Idle
    /\ r \in Riders
    /\ \E named \in SUBSET Switches : \E on \in SUBSET named :
         Goto(p, [pc |-> "save", id |-> r, row |-> [rider[r] EXCEPT !.switches = on],
                  named |-> named, on |-> on])
    /\ UNCHANGED <<rider, earnings, asked>>

\* The request names some of the switches; the others stay as they were read.
UpdateRider(p, r) ==
    /\ call[p] = Idle
    /\ r \in Riders
    /\ \E named \in SUBSET Switches : \E on \in SUBSET named :
         Goto(p, [pc    |-> "save", id |-> r,
                  row   |-> [rider[r] EXCEPT !.switches = Switched(@, named, on)],
                  named |-> named, on |-> on])
    /\ UNCHANGED <<rider, earnings, asked>>

Save(p) ==
    /\ call[p].pc = "save"
    /\ rider' = [rider EXCEPT ![call[p].id] = call[p].row]
    /\ asked' = [asked EXCEPT ![call[p].id] = Switched(@, call[p].named, call[p].on)]
    /\ Return(p)
    /\ UNCHANGED earnings

\* ToggleOnlineStatus and UpdateAvailability write their column only.
UpdateSwitch(r, s, on) ==
    /\ r \in Riders
    /\ LET set(old) == IF on THEN old \cup {s} ELSE old \ {s}
       IN  /\ rider' = [rider EXCEPT ![r].switches = set(@)]
           /\ asked' = [asked EXCEPT ![r] = set(@)]
    /\ UNCHANGED <<earnings, call>>

-----------------------------------------------------------------------------
(* AddEarning.                                                             *)

AddEarning(p, r, amount) ==
    /\ call[p] = Idle
    /\ r \in Riders
    /\ earnings' = [earnings EXCEPT ![r] = [rows |-> @.rows + 1, sum |-> @.sum + amount]]
    /\ Goto(p, [pc |-> "count", id |-> r, amount |-> amount])
    /\ UNCHANGED <<rider, asked>>

\* Faulty: the amount is counted twice.
CountTwice(p) ==
    /\ call[p].pc = "count"
    /\ LET r == call[p].id
       IN  Goto(p, [pc |-> "save", id |-> r, named |-> {}, on |-> {},
                    row |-> [rider[r] EXCEPT !.total = @ + 2 * call[p].amount,
                                             !.deliveries = @ + 1]])
    /\ UNCHANGED <<rider, earnings, asked>>

\* The rider is read again, and then saved as a whole.
Count(p) ==
    /\ call[p].pc = "count"
    /\ LET r == call[p].id
       IN  Goto(p, [pc |-> "save", id |-> r, named |-> {}, on |-> {},
                    row |-> [rider[r] EXCEPT !.total = @ + call[p].amount,
                                             !.deliveries = @ + 1]])
    /\ UNCHANGED <<rider, earnings, asked>>

-----------------------------------------------------------------------------
(* Failures.                                                               *)

\* Any error of the lookup counts as "no profile".
LookupError(p, u) ==
    /\ call[p] = Idle
    /\ Goto(p, [pc |-> "create", user |-> u])
    /\ UNCHANGED <<rider, earnings, asked>>

\* A statement fails, or the process stops.
Stop(p) ==
    /\ call[p] # Idle
    /\ Return(p)
    /\ UNCHANGED <<rider, earnings, asked>>

-----------------------------------------------------------------------------

Request(p) ==
    \/ \E u \in Users : CreateRider(p, u)
    \/ \E r \in RiderIds : UpdateRider(p, r)

Earn(p) == \E r \in RiderIds, amount \in Amounts : AddEarning(p, r, amount)

Toggle == \E r \in RiderIds, s \in Switches, on \in BOOLEAN : UpdateSwitch(r, s, on)

Continue(p) == Create(p) \/ Save(p) \/ Count(p)

Fault == \E p \in Procs : Stop(p) \/ \E u \in Users : LookupError(p, u)

Next == Toggle \/ Fault \/ \E p \in Procs : Request(p) \/ Earn(p) \/ Continue(p)

Spec == Init /\ [][Next]_vars

-----------------------------------------------------------------------------
(* Properties.                                                             *)

TypeOK ==
    /\ rider \in [RiderIds -> {Absent} \cup Row]
    /\ earnings \in [RiderIds -> [rows : Nat, sum : Nat]]
    /\ call \in [Procs -> {Idle} \cup Call]
    /\ asked \in [RiderIds -> SUBSET Switches]

\* However stale copies of a rider are saved, its totals never say more than
\* the rows of rider_earnings do.
TotalsWithinEarnings ==
    \A r \in Riders :
        rider[r].total <= earnings[r].sum /\ rider[r].deliveries <= earnings[r].rows

\* "Update rider total earnings" (rider_service.go:214): totals and rows agree.
TotalsAgree ==
    \A r \in Riders :
        rider[r].total = earnings[r].sum /\ rider[r].deliveries = earnings[r].rows

\* "user already has a rider profile" (rider_service.go:38): no user has two.
OneProfile == \A r, s \in Riders : rider[r].user = rider[s].user => r = s

\* A rider is online and available as last asked for.
SwitchesKept == \A r \in Riders : rider[r].switches = asked[r]
=============================================================================
