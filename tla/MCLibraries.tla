----------------------------- MODULE MCLibraries ----------------------------
(* The libraries of backend/pkg, the algorithms of the routing and rider   *)
(* services and the first services, in one run.  They share no state: a    *)
(* behaviour exercises one of them, its subject.  The limits are           *)
(* parameters; each instance names its other bounds.                       *)
EXTENDS Goroutines, Sequences, TLC

CONSTANTS
    MaxRequests, CaptchaThreshold, AuthIds, Devices,     \* AuthLibrary
    RateLimit, SlidingWindow, SlidingMaxTime,            \* RateLimiters
    Capacity, RefillRate, BucketMaxTime,
    Type, NotificationLimit,                             \* NotificationOrchestration
    Reviewers, PerUser, DailyReviews, ReviewBurst,       \* AbuseDetection
    MaxCount, Cooldowns, Hour, TrackerMaxTime,           \* FirstServices
    RowMaxTime, Statuses, RiderIds, Places,
    Versions, NoDown,                                    \* Migrations
    Stops, Detour(_, _), BuiltLength(_),                 \* RoutingAlgorithms
    Population, Generations, Elitism,
    Riders, Hexes, RiderScore(_), Window,                \* RiderLibrary
    Rules, Zones, TargetCount, ZoneIDs,
    Monitored,                                           \* UptimeMonitor
    ChannelSize,                                         \* KafkaConsumer
    Prices, Quantities, Rates, AddOns, Variants,         \* Pricing
    MinSelect, MaxSelect, MinQuantity, MaxQuantity, MaxIDs,
    Managers, Values, NoValue,                                 \* SecretsManager
    Coordinates, Threshold, Scores, MaxRiders,           \* DeliveryTracking
    Averages, Queues, Complexities, Travels

ASSUME LibrariesAssumption ==
    /\ IsFiniteSet(Procs) /\ IsFiniteSet(Versions) /\ Versions \subseteq Nat
    /\ IsFiniteSet(Rules) /\ IsFiniteSet(Zones)
    /\ \A r \in Rules : ZoneIDs[r] \subseteq Zones /\ TargetCount[r] \in Nat
    /\ {MaxRequests, SlidingWindow, DailyReviews, MaxCount, Window} \subseteq Nat \ {0}
    /\ {RateLimit, SlidingMaxTime, Capacity, RefillRate, BucketMaxTime, NotificationLimit,
        ReviewBurst, Hour, TrackerMaxTime, RowMaxTime, ChannelSize, MinQuantity, MaxQuantity, MaxIDs,
        Threshold, MaxRiders} \subseteq Nat
    /\ \A S \in {Prices, Quantities, Averages, Queues, Complexities, Travels} :
         IsFiniteSet(S) /\ S # {} /\ S \subseteq Nat
    /\ Rates \cup AddOns \cup Variants \subseteq Nat /\ Scores \subseteq Nat \ {0}
    /\ 0 \in Coordinates /\ Coordinates \subseteq Int
    /\ 1 \in Values /\ Values \subseteq Nat /\ NoValue \notin Values /\ 0 \notin Riders
    /\ IsFiniteSet(Hexes) /\ Hexes = 1..Cardinality(Hexes)
    /\ IsFiniteSet(Stops)
    /\ \A a \in Stops \cup {0}, b \in Stops : Detour(a, b) \in Int
    /\ \A tour \in [1..Cardinality(Stops) -> Stops] : BuiltLength(tour) \in Int
    /\ {Population, Elitism} \subseteq Nat \ {0} /\ Generations \in Nat

\* The clock of the window begins at its end.
ASSUME SlidingAssumption == SlidingWindow <= SlidingMaxTime

VARIABLES
    subject,
    calm,  \* history variable: "serial" while there was one call at a time and
           \* nothing failed, "overlapped" while nothing failed, or "faulty"
    requests, failures, cooldown,
    token, ended,
    applied, schema, mixed,
    delivered, reviews, today, fiveStars,
    heap, population, offspring, phase, generation,
    waiting, route, ready, done,
    place, moved, result,
    enabled, count,
    current, expires, limiterServed,
    windowNow, seconds, windowAsked, windowRefused,
    bucketNow, bucket, bucketServed,
    checks, pending, running, fails, alerted, recent,
    log, committed, marked, position, put, channel, handled, from, lost,
    here, since, history, alert, streak,
    check, facts, step, found, action, risk, fraudAlert,
    cart, fees, quote, charged,
    available, request, valid, price,
    completed, active, credits, payouts,
    stored, cached, rotated, told,
    trackerNow, tracker, granted,
    second, row, made, asked,
    kitchen, calculated, shown,
    at, open, last, tracked, seen,
    nearby, ranked

-----------------------------------------------------------------------------
(* The instances.                                                          *)

Auth == INSTANCE AuthLibrary WITH Ids <- AuthIds

Migrator == INSTANCE Migrations

Abuse == INSTANCE AbuseDetection
    WITH Users <- Reviewers, Daily <- DailyReviews, Burst <- ReviewBurst

Routing == INSTANCE RoutingAlgorithms

Fleet == INSTANCE RiderLibrary WITH Score <- RiderScore

Orchestration == INSTANCE NotificationOrchestration WITH Limit <- NotificationLimit

Limiters == INSTANCE RateLimiters WITH Window <- SlidingWindow

Monitor == INSTANCE UptimeMonitor WITH Checks <- Monitored

Consumer == INSTANCE KafkaConsumer

Pricer == INSTANCE Pricing

Secrets == INSTANCE SecretsManager

First == INSTANCE FirstServices

Tracking == INSTANCE DeliveryTracking

-----------------------------------------------------------------------------
(* Which steps there are, and how calm they leave the behaviour.           *)

\* A call of a process, which overlaps one of another that is under way.
Called ==
    calm' = IF /\ calm = "serial"
               /\ \/ Busy # {} /\ call' = call
                  \/ \E p, q \in Busy \cup {b \in Procs : call'[b] # Idle} : p # q
              THEN "overlapped" ELSE calm

Calls ==
    /\ \/ subject = "otp" /\ (Auth!ResetOTPCounters \/ \E p \in Procs : Auth!OtpWork(p))
       \/ subject = "tokens" /\ \/ \E p \in Procs : Auth!TokenWork(p)
                                \/ \E device \in Devices : Auth!GenerateTokenPair(device)
                                \/ Auth!Revoke
       \/ subject = "migrations" /\ \E p \in Procs : Migrator!Work(p)
       \/ subject = "review" /\ \E p \in Procs : Abuse!ReviewWork(p)
       \/ subject = "assignment" /\ \E p \in Procs : Fleet!AssignmentWork(p)
       \/ subject = "notification" /\ \/ \E p \in Procs : Orchestration!Work(p)
                                      \/ \E preferences \in {{}, {"marketing", "push"}, {"push"}} :
                                           Orchestration!SetPreferences(preferences)
       \/ subject = "limiter" /\ \E p \in Procs : Limiters!LimiterWork(p)
       \/ subject = "window" /\ \E p \in Procs : Limiters!SlidingWork(p)
       \/ subject = "bucket" /\ \E p \in Procs : Limiters!BucketWork(p)
       \/ subject = "incentives" /\ \E p \in Procs : Fleet!IncentiveWork(p)
       \/ subject = "secrets" /\ \E p \in Procs : Secrets!Work(p)
       \/ subject = "legacy" /\ (First!Make \/ \E p \in Procs : First!RowWork(p))
    /\ Called

\* What goes on around the calls: time, orders, riders.
World ==
    /\ \/ subject = "otp" /\ Auth!KeysExpire
       \/ subject = "tokens" /\ \E t \in Auth!Stored : Auth!Expire(t)
       \/ subject = "review" /\ (Abuse!TimePasses \/ \E o \in Abuse!Orders : Abuse!Deliver(o))
       \/ subject = "assignment" /\ \E r \in Riders, hex \in Hexes \cup {0} : Fleet!Move(r, hex)
       \/ subject = "limiter" /\ Limiters!WindowEnds
       \/ subject = "window" /\ Limiters!SlidingTick
       \/ subject = "bucket" /\ Limiters!BucketTick
       \/ subject = "incentives" /\ \/ \E z \in Zones : Fleet!CompleteOrder(z)
                                    \/ \E r \in active : Fleet!Deactivate(r)
       \/ subject = "secrets" /\ \E m \in Managers : Secrets!Expire(m)
       \/ subject = "legacy" /\ First!RowTick
    /\ UNCHANGED calm

Faults ==
    /\ \/ subject = "otp" /\ Auth!OtpFail
       \/ subject = "tokens" /\ Auth!TokenFail
       \/ subject = "migrations" /\ Migrator!Fail
       \/ subject = "review" /\ Abuse!ReviewFail
       \/ subject = "assignment" /\ Fleet!AssignmentFail
       \/ subject = "notification" /\ Orchestration!Fail
       \/ subject = "limiter" /\ Limiters!LimiterFail
       \/ subject = "window" /\ Limiters!SlidingFail
       \/ subject = "bucket" /\ Limiters!BucketFail
       \/ subject = "incentives" /\ Fleet!IncentiveFail
       \/ subject = "secrets" /\ Secrets!Fail
       \/ subject = "legacy" /\ First!RowFail
    /\ calm' = "faulty"

\* The subjects that make no calls.
Steps ==
    /\ \/ subject = "genetic" /\ Routing!GeneticNext
       \/ subject = "nearest" /\ Routing!NeighborNext
       \/ subject = "uptime" /\ Monitor!Next
       \/ subject = "kafka" /\ Consumer!Next
       \/ subject = "deviation" /\ Fleet!DeviationNext
       \/ subject = "fraud" /\ Abuse!FraudNext
       \/ subject = "cart" /\ Pricer!CartNext
       \/ subject = "menu" /\ Pricer!MenuNext
       \/ subject = "tracker" /\ First!TrackerNext
       \/ subject = "eta" /\ Tracking!ETANext
       \/ subject = "tracking" /\ Tracking!TrackingNext
       \/ subject = "ranking" /\ Tracking!RankingNext
    /\ UNCHANGED <<call, calm>>

\* What grows without end is cut off here; one legacy table is in use.
Bounds ==
    /\ \A t, u \in First!Tables : made'[t] # made[t] => u = t \/ \A id \in First!Ids : made[u][id] = 0
    /\ failures'.n <= 3
    /\ \A o \in Abuse!Orders : reviews'[o] <= 2
    /\ current' <= 4 /\ limiterServed' <= 3
    /\ \A t \in 0..BucketMaxTime : bucketServed'[t] - bucketServed'[t - 1] <= 3
    /\ log' <= 3
    /\ since'.on + since'.off <= 2
    /\ \A z \in Zones : completed'[z] <= 1
    /\ \A r \in Rules : credits'[r] <= 2 /\ payouts'[r] <= 2

Frame ==
    /\ IF subject = "otp" THEN TRUE ELSE UNCHANGED <<requests, failures, cooldown>>
    /\ IF subject = "tokens" THEN TRUE ELSE UNCHANGED <<token, ended>>
    /\ IF subject = "migrations" THEN TRUE ELSE UNCHANGED <<applied, schema, mixed>>
    /\ IF subject = "review" THEN TRUE ELSE UNCHANGED <<delivered, reviews, today, fiveStars>>
    /\ IF subject = "genetic" THEN TRUE ELSE UNCHANGED <<heap, population, offspring, phase, generation>>
    /\ IF subject = "nearest" THEN TRUE ELSE UNCHANGED <<waiting, route, ready, done>>
    /\ IF subject = "assignment" THEN TRUE ELSE UNCHANGED <<place, moved, result>>
    /\ IF subject = "notification" THEN TRUE ELSE UNCHANGED <<enabled, count>>
    /\ IF subject = "limiter" THEN TRUE ELSE UNCHANGED <<current, expires, limiterServed>>
    /\ IF subject = "window" THEN TRUE ELSE UNCHANGED <<windowNow, seconds, windowAsked, windowRefused>>
    /\ IF subject = "bucket" THEN TRUE ELSE UNCHANGED <<bucketNow, bucket, bucketServed>>
    /\ IF subject = "uptime" THEN TRUE ELSE UNCHANGED <<checks, pending, running, fails, alerted, recent>>
    /\ IF subject = "kafka" THEN TRUE
       ELSE UNCHANGED <<log, committed, marked, position, put, channel, handled, from, lost>>
    /\ IF subject = "deviation" THEN TRUE ELSE UNCHANGED <<here, since, history, alert, streak>>
    /\ IF subject = "fraud" THEN TRUE ELSE UNCHANGED <<check, facts, step, found, action, risk, fraudAlert>>
    /\ IF subject = "cart" THEN TRUE ELSE UNCHANGED <<cart, fees, quote, charged>>
    /\ IF subject = "menu" THEN TRUE ELSE UNCHANGED <<available, request, valid, price>>
    /\ IF subject = "incentives" THEN TRUE ELSE UNCHANGED <<completed, active, credits, payouts>>
    /\ IF subject = "secrets" THEN TRUE ELSE UNCHANGED <<stored, cached, rotated, told>>
    /\ IF subject = "tracker" THEN TRUE ELSE UNCHANGED <<trackerNow, tracker, granted>>
    /\ IF subject = "legacy" THEN TRUE ELSE UNCHANGED <<second, row, made, asked>>
    /\ IF subject = "eta" THEN TRUE ELSE UNCHANGED <<kitchen, calculated, shown>>
    /\ IF subject = "tracking" THEN TRUE ELSE UNCHANGED <<at, open, last, tracked, seen>>
    /\ IF subject = "ranking" THEN TRUE ELSE UNCHANGED <<nearby, ranked>>

Subjects == {"otp", "tokens", "migrations", "review", "genetic", "nearest", "assignment",
             "notification", "limiter", "window", "bucket", "uptime", "kafka", "deviation",
             "fraud", "cart", "menu", "incentives", "secrets", "tracker", "legacy", "eta",
             "tracking", "ranking"}

LibrariesInit ==
    /\ subject \in Subjects
    /\ calm = "serial"
    /\ Auth!Init /\ Migrator!Init /\ Abuse!Init /\ Routing!Init /\ Fleet!Init
    /\ Orchestration!Init /\ Limiters!Init /\ Monitor!Init /\ Consumer!Init
    /\ Pricer!Init /\ Secrets!Init /\ First!Init /\ Tracking!Init

Unbounded ==
    /\ UNCHANGED subject
    /\ Calls \/ World \/ Faults \/ Steps
    /\ Frame

LibrariesNext == Unbounded /\ Bounds

librariesVars ==
    <<subject, calm, Auth!vars, Migrator!vars, Abuse!vars, Routing!vars, Fleet!vars,
      Orchestration!vars, Limiters!vars, Monitor!vars, Consumer!vars, Pricer!vars, Secrets!vars,
      First!vars, Tracking!vars>>

\* What LibraryProofs is about: the bounds are those of TLC.
UnboundedSpec == LibrariesInit /\ [][Unbounded]_librariesVars

LibrariesSpec == LibrariesInit /\ [][LibrariesNext]_librariesVars

-----------------------------------------------------------------------------
(* Values of the small instance that a cfg cannot write.                   *)

CooldownOf == [i \in 1..MaxCount |-> i]

\* Routes in ascending order are the shortest.
AscendingLength(tour) == IF tour[1] < tour[2] THEN IF tour[2] < tour[3] THEN 1 ELSE 2 ELSE 3

AscendingDetour(a, b) == IF a < b THEN b - a ELSE 2 * (a - b)

ScoreById(r) == r

TwoTargets == <<1, 2>>

FirstZoneOrAll == <<{"z1"}, {}>>

SmallGrid == -1..3

Symmetry == Permutations(Procs)

Serial == calm = "serial"

Quiet == calm # "faulty" /\ Busy = {}

-----------------------------------------------------------------------------
(* The properties, each of several subjects: their modules say what the    *)
(* conjuncts mean.                                                         *)

\* Every store, cache, clock and list keeps its type.
LibrariesTypeOK ==
    /\ Auth!TypeOK /\ Migrator!TypeOK /\ Abuse!TypeOK /\ Routing!TypeOK /\ Fleet!TypeOK
    /\ Orchestration!TypeOK /\ Limiters!TypeOK /\ Monitor!TypeOK /\ Consumer!TypeOK
    /\ Pricer!TypeOK /\ Secrets!TypeOK /\ First!TypeOK /\ Tracking!TypeOK

\* Limits hold, however their window slides (auth-service/handlers.go:92,
\* rate_limiter.go:51, 141): always, or exceeded only by those checked at once
\* (otp_abuse_prevention.go:13, review_authenticity.go:13), or when calls come one
\* at a time.  Nobody is refused for less (rate_limiter.go:117), nor for good: the
\* counts end (rate_limiter.go:46), unless a call stopped in between.
LimitsHold ==
    /\ First!AnyHourWithinLimit
    /\ Auth!RequestsBounded
    /\ calm # "faulty" => Limiters!ServedWithinLimit /\ Abuse!ReviewsWithinLimit
    /\ Serial => Limiters!RefusedExceeded /\ Limiters!ServedWithinBudget
    /\ Quiet => Auth!CountersExpire /\ Limiters!WindowsEnd

\* What is to be done is done once, and nothing is left out: rows and their ids
\* (order-service/main.go:99), messages (kafka_consumer.go:69), migrations
\* (migration.go:18), stops of a route (routing_algorithm.go:49, 210), riders
\* ranked (rider_service.go:147); call by call also reviews of an order
\* (review_authenticity.go:134) and refresh tokens of a login
\* (jwt_refresh_token.go:114).
DoneOnce ==
    /\ First!IdGivenOnce
    /\ Consumer!NothingPassedOver
    /\ Migrator!HistoryIsSchema /\ Migrator!NoneLeftOut
    /\ Routing!OnlyLateLeftOut /\ Routing!EachStopOnce
    /\ Tracking!BestFirst
    /\ Serial => Abuse!OneReviewPerOrder
    /\ Serial /\ Busy = {} => Auth!OneTokenPerLogin

\* Alerts and verdicts have their grounds, and grounds have their alert: of
\* checks that fail (uptime_monitor.go:183), of riders off their route
\* (route_deviation_alert.go:13, 124), of orders that look like fraud
\* (order_fraud_detection.go:12); bonuses are paid to those who earned them, and
\* reported (incentive_engine.go:13, 173).
JudgedRightly ==
    /\ Monitor!AlertedIfDown
    /\ Fleet!LastingIsReported /\ Fleet!AlertIsFounded
    /\ Abuse!NeverTooStrict
    /\ Fleet!CreditedWasEarned /\ Fleet!ReportedWasCredited

\* What is shown, told or charged is what there is: prices (cart_pricing.go:130,
\* 279, menu_model.go:217) and the place of a rider (rider_handler.go:286); call by
\* call also secrets a process rotated (secrets_manager.go:16), rows
\* (order-service/main.go:184), and preferences of notifications
\* (notification_orchestration.go:135).
ShownIsSo ==
    /\ Pricer!PartsAddUp /\ Pricer!ChargedIsCurrent /\ Pricer!ValidIsPricedInFull
    /\ Tracking!ShownIsNear
    /\ Serial => Secrets!OwnRotationIsSeen /\ Orchestration!DisabledIsSpared
    /\ Serial /\ Busy = {} => First!ColumnsKept

\* The rider chosen for an order is no worse than those there were to choose from
\* all the while (advanced_assignment.go:129).
BestIsChosen == Fleet!BestOfThoseStanding
=============================================================================
