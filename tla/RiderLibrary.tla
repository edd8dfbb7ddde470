---------------------------- MODULE RiderLibrary ----------------------------
(* backend/pkg/rider: assignment, deviations from the route, and bonuses.  *)
(* Each is specified by itself; no state is shared but the goroutines.     *)
EXTENDS Goroutines, Integers, Sequences, SequencesExt

-----------------------------------------------------------------------------
(* backend/pkg/rider/advanced_assignment.go: AssignBestRider looks for     *)
(* riders hexagon by hexagon while they move and take other orders.        *)
(* Searches only read, so there is one at a time.  Left out: the terms of  *)
(* the score, which is a parameter, and the blacklist, which the search    *)
(* does not ask.                                                           *)

CONSTANTS
    Riders, Hexes,  \* hexagons, numbered in the order they are looked at
    Score(_)        \* scoreRider

VARIABLES
    place,  \* hexagon a rider is available in, 0 if in none
    moved,  \* history variable: riders the search may have missed
    result  \* rider assigned, 0 if none

assignmentVars == <<call, place, moved, result>>

AssignmentInit ==
    /\ call = [p \in Procs |-> Idle]
    /\ place = [r \in Riders |-> 0]
    /\ moved = {}
    /\ result = 0

\* The caller names the riders to leave out.
AssignBestRider(p, excluded) ==
    /\ Busy = {}
    /\ Goto(p, [pc |-> "collect", hex |-> 1, found |-> {}, excluded |-> excluded])
    /\ moved' = {} /\ result' = 0
    /\ UNCHANGED place

Reach(p, found) ==
    Goto(p, IF call[p].hex + 1 \in Hexes
              THEN [call[p] EXCEPT !.hex = @ + 1, !.found = found]
              ELSE [call[p] EXCEPT !.pc = "choose", !.found = found])

In(hex) == {r \in Riders : place[r] = hex}

\* Faulty: the riders of a neighbour take the place of those found.
CollectAnew(p) ==
    /\ At(p, "collect")
    /\ Reach(p, In(call[p].hex))
    /\ UNCHANGED <<place, moved, result>>

\* getRidersInHexArea: one hexagon after the other.
Collect(p) ==
    /\ At(p, "collect")
    /\ Reach(p, call[p].found \cup In(call[p].hex))
    /\ UNCHANGED <<place, moved, result>>

Eligible(p) == call[p].found \ call[p].excluded

\* selectBestRider; with nobody eligible the call fails.
Choose(p) ==
    /\ At(p, "choose")
    /\ \/ \E r \in Eligible(p) :
            /\ \A s \in Eligible(p) : Score(s) <= Score(r)
            /\ result' = r
       \/ Eligible(p) = {} /\ result' = 0
    /\ Return(p)
    /\ UNCHANGED <<place, moved>>

Move(r, hex) ==
    /\ place' = [place EXCEPT ![r] = hex]
    /\ moved' = moved \cup {r}
    /\ UNCHANGED <<call, result>>

\* A neighbour cannot be read, and is passed over.
SkipHex(p) ==
    /\ At(p, "collect") /\ call[p].hex > 1
    /\ Reach(p, call[p].found)
    /\ moved' = moved \cup In(call[p].hex)
    /\ UNCHANGED <<place, result>>

\* A rider's orders cannot be read, and the rider is passed over.
SkipRider(p, r) ==
    /\ At(p, "choose") /\ r \in Eligible(p)
    /\ Goto(p, [call[p] EXCEPT !.found = @ \ {r}])
    /\ moved' = moved \cup {r}
    /\ UNCHANGED <<place, result>>

\* Its own hexagon, or its neighbours, cannot be looked up: nobody is assigned.
SearchError(p) ==
    /\ At(p, "collect") /\ call[p].hex <= 2
    /\ Return(p)
    /\ UNCHANGED <<place, moved, result>>

AssignmentFail == \E p \in Procs : SkipHex(p) \/ SearchError(p) \/ \E r \in Riders : SkipRider(p, r)

AssignmentWork(p) ==
    \/ Collect(p) \/ Choose(p)
    \/ \E excluded \in SUBSET Riders : AssignBestRider(p, excluded)

AssignmentNext ==
    \/ \E p \in Procs : AssignmentWork(p)
    \/ AssignmentFail
    \/ \E r \in Riders, hex \in Hexes \cup {0} : Move(r, hex)

-----------------------------------------------------------------------------
(* Properties.                                                             *)

AssignmentTypeOK ==
    /\ place \in [Riders -> Hexes \cup {0}]
    /\ moved \subseteq Riders
    /\ result \in Riders \cup {0}

\* Riders of the area that have not moved since the search began.
Standing(p) == {r \in Riders \ (moved \cup call[p].excluded) : place[r] # 0}

\* The rider chosen is none of those to leave out, and no rider who stood in
\* the area all the while would have been better, or found instead of nobody.
BestOfThoseStanding ==
    [][\A p \in Procs :
         At(p, "choose") /\ ~At(p, "choose")' =>
             /\ result' \notin call[p].excluded
             /\ \A r \in Standing(p) : result' # 0 /\ Score(r) <= Score(result')]_assignmentVars

-----------------------------------------------------------------------------
(* backend/pkg/rider/route_deviation_alert.go: MonitorRiderRoute, which    *)
(* looks every half minute how far a rider is from the route.  Geometry is *)
(* abstracted to bands of the distance; others record locations, as many   *)
(* between two ticks as they like, and each counts.                        *)

CONSTANTS
    Window  \* ticks in three minutes, 6 in the code

VARIABLES
    here,     \* band of the rider's last location
    since,    \* locations recorded since the last tick, on the route and off
    history,  \* locations recorded before each of the last ticks
    alert,    \* severity of the alert the last tick raised, or "none"
    streak    \* history variable: ticks in a row before which there were
              \* locations, and all of them deviated

deviationVars == <<here, since, history, alert, streak>>

Bands == 0..3  \* up to 500 m, 750 m, 1000 m, and beyond

Deviating(band) == band > 0

Severity(band) == IF band = 3 THEN "high" ELSE IF band = 2 THEN "medium" ELSE "low"

Nothing == [on |-> 0, off |-> 0]

DeviationInit ==
    /\ here = 0 /\ since = Nothing
    /\ history = <<>>
    /\ alert = "none"
    /\ streak = 0

Record(band) ==
    /\ here' = band
    /\ since' = IF Deviating(band) THEN [since EXCEPT !.off = @ + 1]
                ELSE [since EXCEPT !.on = @ + 1]
    /\ UNCHANGED <<history, alert, streak>>

Recorded(h) == SumFunctionOnSet([i \in DOMAIN h |-> h[i].on + h[i].off], DOMAIN h)

PersistentDeviations(h) == SumFunctionOnSet([i \in DOMAIN h |-> h[i].off], DOMAIN h)

\* Faulty: half of them will do, and so no location at all.
PersistentHalf(h) == PersistentDeviations(h) >= Recorded(h) \div 2

\* More than half of the locations of the last three minutes deviate.
Persistent(h) == PersistentDeviations(h) > Recorded(h) \div 2

\* The severity of the alert that is due, if any.
CheckRouteDeviation(h) == IF Deviating(here) /\ Persistent(h) THEN Severity(here) ELSE "none"

\* A lookup before the alert may fail, or the alert itself.
CreateAlert(severity) == alert' \in {severity, "failed"}

DeviationTick ==
    /\ history' = Append(IF Len(history) = Window THEN Tail(history) ELSE history, since)
    /\ CreateAlert(CheckRouteDeviation(history'))
    /\ since' = Nothing
    /\ streak' = IF since.on = 0 /\ since.off > 0
                   THEN IF streak = Window THEN Window ELSE streak + 1
                 ELSE 0
    /\ UNCHANGED here

DeviationNext == DeviationTick \/ \E band \in Bands : Record(band)

-----------------------------------------------------------------------------
(* Properties.                                                             *)

DeviationTypeOK ==
    /\ here \in Bands /\ since \in [on : Nat, off : Nat]
    /\ history \in Seq([on : Nat, off : Nat])
    /\ alert \in {"none", "low", "medium", "high", "failed"}

\* "deviates >500m from expected route to customer for >3 min" (line 13 of
\* route_deviation_alert.go): a rider seen off the route, and nowhere else, for
\* three minutes is reported, unless a lookup fails, wherever the rider was before.
\* The converse is not so: one location may be enough, and three minutes (line 99)
\* are not waited for.
LastingIsReported == streak = Window => alert # "none"

\* An alert follows only on locations of the last three minutes that deviate.
AlertIsFounded ==
    alert \in {"low", "medium", "high"} =>
        /\ Deviating(here) \/ since # Nothing
        /\ \E i \in DOMAIN history : history[i].off > 0

-----------------------------------------------------------------------------
(* backend/pkg/rider/incentive_engine.go: bonuses of one rider.  The job   *)
(* that pays them may run again, and beside itself.  Rules, orders and     *)
(* wallets are repositories; each call to one is an action.                *)

CONSTANTS
    Rules,                \* rules, read in any order
    Zones,                \* zones of orders
    TargetCount, ZoneIDs  \* of each rule; without zones, a rule is for all

VARIABLES
    completed,  \* for each zone, orders the rider has completed in the window
    active,     \* rules GetActiveRules answers
    credits,    \* for each rule, bonuses credited to the wallet
    payouts     \* for each rule, payouts reported to the callers

incentiveVars == <<call, completed, active, credits, payouts>>

IncentiveInit ==
    /\ call = [p \in Procs |-> Idle]
    /\ completed = [z \in Zones |-> 0]
    /\ active = Rules
    /\ credits = [r \in Rules |-> 0] /\ payouts = [r \in Rules |-> 0]

CompleteOrder(zone) ==
    /\ completed' = [completed EXCEPT ![zone] = @ + 1]
    /\ UNCHANGED <<call, active, credits, payouts>>

Deactivate(rule) ==
    /\ active' = active \ {rule}
    /\ UNCHANGED <<call, completed, credits, payouts>>

ProcessIncentivePayouts(p) ==
    /\ call[p] = Idle
    /\ \E rules \in SetToSeqs(active) :
         Goto(p, [pc |-> "evaluate", todo |-> rules, earned |-> <<>>, paid |-> {}])
    /\ UNCHANGED <<completed, active, credits, payouts>>

\* Faulty: orders of all zones count for a rule of some.
CountAllZones(rule) == <<Zones, TargetCount[rule]>>

\* evaluateRule: the zones whose orders count, and how many are asked for.
Counted(rule) == <<IF ZoneIDs[rule] = {} THEN Zones ELSE ZoneIDs[rule], TargetCount[rule]>>

Orders(zones) == SumFunctionOnSet(completed, zones)

EvaluateRule(p) ==
    /\ At(p, "evaluate") /\ call[p].todo # <<>>
    /\ LET rule == Head(call[p].todo)
           met  == Orders(Counted(rule)[1]) >= Counted(rule)[2]
       IN  Goto(p, [call[p] EXCEPT !.todo = Tail(@),
                                   !.earned = IF met THEN Append(@, rule) ELSE @])
    /\ UNCHANGED <<completed, active, credits, payouts>>

CreditRiderWallet(p) ==
    /\ At(p, "evaluate") /\ call[p].todo = <<>> /\ call[p].earned # <<>>
    /\ LET rule == Head(call[p].earned)
       IN  /\ credits' = [credits EXCEPT ![rule] = @ + 1]
           /\ Goto(p, [call[p] EXCEPT !.earned = Tail(@), !.paid = @ \cup {rule}])
    /\ UNCHANGED <<completed, active, payouts>>

\* Faulty: a bonus that was not credited is reported.
ReportAll(p) ==
    /\ At(p, "evaluate") /\ call[p].todo = <<>> /\ call[p].earned = <<>>
    /\ payouts' = [r \in Rules |-> IF r \in active THEN payouts[r] + 1 ELSE payouts[r]]
    /\ Return(p)
    /\ UNCHANGED <<completed, active, credits>>

Report(p) ==
    /\ At(p, "evaluate") /\ call[p].todo = <<>> /\ call[p].earned = <<>>
    /\ payouts' = [r \in Rules |-> IF r \in call[p].paid THEN payouts[r] + 1 ELSE payouts[r]]
    /\ Return(p)
    /\ UNCHANGED <<completed, active, credits>>

\* A rule whose orders cannot be read, or a bonus that cannot be credited, is
\* passed over.
SkipRule(p) ==
    /\ At(p, "evaluate")
    /\ \/ call[p].todo # <<>> /\ Goto(p, [call[p] EXCEPT !.todo = Tail(@)])
       \/ call[p].todo = <<>> /\ call[p].earned # <<>> /\ Goto(p, [call[p] EXCEPT !.earned = Tail(@)])
    /\ UNCHANGED <<completed, active, credits, payouts>>

IncentiveFail == \E p \in Procs : SkipRule(p)

IncentiveWork(p) == ProcessIncentivePayouts(p) \/ EvaluateRule(p) \/ CreditRiderWallet(p) \/ Report(p)

IncentiveNext ==
    \/ \E p \in Procs : IncentiveWork(p)
    \/ \E z \in Zones : CompleteOrder(z)
    \/ \E r \in active : Deactivate(r)
    \/ IncentiveFail

-----------------------------------------------------------------------------
(* Properties.                                                             *)

IncentiveTypeOK ==
    /\ completed \in [Zones -> Nat]
    /\ credits \in [Rules -> Nat] /\ payouts \in [Rules -> Nat]

\* "complete 5 orders between 12-3pm" (incentive_engine.go:13): a bonus was
\* credited only to a rider who had completed the orders of its rule.
CreditedWasEarned ==
    \A r \in Rules :
        credits[r] > 0 =>
            Orders(IF ZoneIDs[r] = {} THEN Zones ELSE ZoneIDs[r]) >= TargetCount[r]

\* Every bonus that was credited is reported by the run that credited it, and
\* nothing else is, whichever rules and bonuses fail; a run ends when it is done.
ReportedWasCredited ==
    \A r \in Rules :
        credits[r] = payouts[r] + Cardinality({p \in Procs : At(p, "evaluate") /\ r \in call[p].paid})

-----------------------------------------------------------------------------
(* All of it, each part taking its steps while the others stand still.     *)

vars == <<call, place, moved, result, here, since, history, alert, streak, completed, active,
          credits, payouts>>

Init == AssignmentInit /\ DeviationInit /\ IncentiveInit

Next ==
    \/ AssignmentNext /\ UNCHANGED <<here, since, history, alert, streak, completed, active, credits, payouts>>
    \/ DeviationNext /\ UNCHANGED <<call, place, moved, result, completed, active, credits, payouts>>
    \/ IncentiveNext /\ UNCHANGED <<place, moved, result, here, since, history, alert, streak>>

Spec == Init /\ [][Next]_vars

TypeOK == AssignmentTypeOK /\ DeviationTypeOK /\ IncentiveTypeOK
=============================================================================
