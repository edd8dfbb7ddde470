-------------------------- MODULE DeliveryTracking --------------------------
(* What a customer is shown of riders and deliveries: where the rider is,  *)
(* who is near, and when the order will come.  Each is specified by        *)
(* itself; they share no state.                                            *)
EXTENDS Integers, SequencesExt

-----------------------------------------------------------------------------
(* backend/cmd/rider-service: TrackRiderLocation, the stream that follows  *)
(* one rider for one client, while UpdateLocation moves the rider.         *)
(* Coordinates count in steps of which Threshold make 0.0001 degrees.      *)

CONSTANTS
    Coordinates,  \* latitudes, and longitudes, 0 among them
    Threshold

VARIABLES
    at,       \* latitude and longitude of the rider's row, Nowhere while they are null
    open,     \* whether the client listens
    last,     \* the coordinates the stream compares with
    tracked,  \* the coordinates the client received last, Nowhere if none
    seen      \* history variable: whether the stream has read the row as it is now

trackingVars == <<at, open, last, tracked, seen>>

Nowhere == <<>>

Points == Coordinates \X Coordinates

TrackingInit ==
    /\ at = Nowhere
    /\ open = FALSE
    /\ last = <<0, 0>>
    /\ tracked = Nowhere
    /\ seen = FALSE

UpdateLocation(point) ==
    /\ at' = point
    /\ seen' = FALSE
    /\ UNCHANGED <<open, last, tracked>>

\* Each request is a loop of its own, which starts to compare at zero.
TrackRiderLocation ==
    /\ ~open
    /\ open' = TRUE
    /\ last' = <<0, 0>> /\ tracked' = Nowhere
    /\ seen' = FALSE
    /\ UNCHANGED at

Apart(a, b) == IF a < b THEN b - a ELSE a - b

Near(a, b) == \A i \in 1..2 : Apart(a[i], b[i]) <= Threshold

\* Faulty: the stream compares with what it read last, not with what it sent.
TickForgets ==
    /\ open
    /\ seen' = TRUE
    /\ IF at = Nowhere THEN UNCHANGED <<last, tracked>>
       ELSE last' = at /\ tracked' = IF Near(at, last) THEN tracked ELSE at
    /\ UNCHANGED <<at, open>>

\* Every two seconds.  Only a point that is not near the last one is sent.
Tick ==
    /\ open
    /\ seen' = TRUE
    /\ IF at = Nowhere \/ Near(at, last) THEN UNCHANGED <<last, tracked>>
       ELSE last' = at /\ tracked' = at
    /\ UNCHANGED <<at, open>>

\* A row that cannot be read is reported, and the loop goes on.
TickError ==
    /\ open
    /\ UNCHANGED trackingVars

ClientGone ==
    /\ open
    /\ open' = FALSE
    /\ UNCHANGED <<at, last, tracked, seen>>

TrackingNext ==
    \/ \E point \in Points : UpdateLocation(point)
    \/ TrackRiderLocation \/ Tick \/ TickError \/ ClientGone

-----------------------------------------------------------------------------
(* Properties.                                                             *)

TrackingTypeOK ==
    /\ at \in Points \cup {Nowhere} /\ tracked \in Points \cup {Nowhere}
    /\ last \in Points
    /\ open \in BOOLEAN /\ seen \in BOOLEAN

\* "Only push if location changed significantly" (rider_handler.go:286): though
\* small moves are not sent, they never add up to a rider who is shown elsewhere
\* than where the stream last read.  Zero stands for what was not shown yet.
ShownIsNear ==
    open /\ seen /\ at # Nowhere => Near(at, IF tracked = Nowhere THEN <<0, 0>> ELSE tracked)

-----------------------------------------------------------------------------
(* backend/cmd/rider-service: FindAvailableNearby ranks the riders that    *)
(* the database found, with importSort.  A rider's score is a number; the  *)
(* terms of distance and rating that make it up are left out.              *)

CONSTANTS
    Scores,    \* scores of riders, all above 0
    MaxRiders  \* bound on how many riders are found

VARIABLES
    nearby,  \* scores of the riders found, 0 for a rider whose location is null
    ranked   \* the answer: positions in nearby

rankingVars == <<nearby, ranked>>

RankingInit == nearby = <<>> /\ ranked = <<>>

Located(found) == FoldLeftDomain(LAMBDA s, i : IF found[i] > 0 THEN Append(s, i) ELSE s, <<>>, found)

\* Two riders change places if the later one has the higher score.
Exchange(found, riders, i, j) ==
    IF found[riders[i]] < found[riders[j]]
      THEN [riders EXCEPT ![i] = riders[j], ![j] = riders[i]]
      ELSE riders

\* The numbers above i, up to n.
Above(i, n) == [k \in 1..(n - i) |-> i + k]

\* Faulty: the inner loop starts one too late.
ImportSortLate(found, riders) ==
    LET pass(s, i) == FoldLeft(LAMBDA t, j : Exchange(found, t, i, j), s, Above(i + 1, Len(riders)))
    IN  FoldLeft(pass, riders, Above(0, Len(riders) - 1))

\* The inner loop of importSort, over j.
Pass(found, riders, i) ==
    FoldLeft(LAMBDA s, j : Exchange(found, s, i, j), riders, Above(i, Len(riders)))

\* importSort, its outer loop, over i.
ImportSort(found, riders) ==
    FoldLeft(LAMBDA s, i : Pass(found, s, i), riders, Above(0, Len(riders)))

FindAvailableNearby(found) ==
    /\ nearby' = found
    /\ ranked' = ImportSort(found, Located(found))

RankingNext == \E n \in 0..MaxRiders : \E found \in [1..n -> Scores \cup {0}] : FindAvailableNearby(found)

-----------------------------------------------------------------------------
(* Properties.                                                             *)

RankingTypeOK ==
    /\ nearby \in Seq(Scores \cup {0})
    /\ ranked \in Seq(1..MaxRiders)

\* "Sort by score descending" (rider_service.go:147): the answer holds every rider
\* whose location is known once, and nobody before a rider of higher score.
BestFirst ==
    /\ {ranked[i] : i \in DOMAIN ranked} = {r \in DOMAIN nearby : nearby[r] > 0}
    /\ \A i, j \in DOMAIN ranked :
         i < j => ranked[i] # ranked[j] /\ nearby[ranked[i]] >= nearby[ranked[j]]

-----------------------------------------------------------------------------
(* backend/pkg/eta/eta_prediction.go: the delivery time of an order, as    *)
(* the kitchen's queue and the traffic change.  Times are in minutes after *)
(* the order, in tenths where the buffer of 10% counts.                    *)

CONSTANTS
    Averages, Queues, Complexities,  \* of the kitchen: minutes, orders, minutes
    Travels                          \* minutes

VARIABLES
    kitchen,     \* what the history says of the restaurant, and of the way
    calculated,  \* time the last calculation gave
    shown        \* time the customer was last told

etaVars == <<kitchen, calculated, shown>>

\* The factor of the peak hour less 1, cut to a whole number.
Peaks == {0, 1}

Kitchens == [average : Averages, queue : Queues, complexity : Complexities,
             peak : Peaks, travel : Travels]

Within(low, high, n) == Max({low, Min({high, n})})

\* calculatePrepTimeEstimate: the data may be missing, all of it or some.
CalculatePrepTimeEstimate(k) ==
    {15} \cup
    {Within(5, 60, k.average + 2 * q + c + k.average * p) :
        q \in {0, k.queue}, c \in {5, k.complexity}, p \in {0, k.peak}}

\* There and back again, and a tenth of it all.
CalculateETA(k) == {11 * (prep + 2 * k.travel) : prep \in CalculatePrepTimeEstimate(k)}

ETAInit ==
    /\ kitchen = [average |-> Min(Averages), queue |-> Min(Queues),
                  complexity |-> Min(Complexities), peak |-> 0, travel |-> Min(Travels)]
    /\ calculated = 0 /\ shown = 0

Change(k) ==
    /\ kitchen' = k
    /\ UNCHANGED <<calculated, shown>>

Order ==
    /\ calculated' \in CalculateETA(kitchen)
    /\ shown' = calculated'
    /\ UNCHANGED kitchen

\* "only if delta > 2 min" (eta_prediction.go:207), but the difference is one of
\* nanoseconds and compared with 120: any is enough.
Beyond(eta, previous) == eta # previous

RecalculateETA ==
    /\ shown > 0
    /\ calculated' \in CalculateETA(kitchen)
    /\ shown' = IF Beyond(calculated', shown) THEN calculated' ELSE shown
    /\ UNCHANGED kitchen

ETANext == Order \/ RecalculateETA \/ \E k \in Kitchens : Change(k)

-----------------------------------------------------------------------------
(* Properties.                                                             *)

ETATypeOK == kitchen \in Kitchens /\ calculated \in Nat /\ shown \in Nat

-----------------------------------------------------------------------------
(* All of it, each part taking its steps while the others stand still.     *)

vars == <<at, open, last, tracked, seen, nearby, ranked, kitchen, calculated, shown>>

Init == TrackingInit /\ RankingInit /\ ETAInit

Next ==
    \/ TrackingNext /\ UNCHANGED <<nearby, ranked, kitchen, calculated, shown>>
    \/ RankingNext /\ UNCHANGED <<at, open, last, tracked, seen, kitchen, calculated, shown>>
    \/ ETANext /\ UNCHANGED <<at, open, last, tracked, seen, nearby, ranked>>

Spec == Init /\ [][Next]_vars

TypeOK == TrackingTypeOK /\ RankingTypeOK /\ ETATypeOK
=============================================================================
