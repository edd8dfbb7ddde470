----------------------------- MODULE MCServices -----------------------------
(* The services of backend/cmd that keep to themselves, in one run: the    *)
(* wallets of the payment service, the rider, restaurant, auth and         *)
(* notification services.  They share no state, so a behaviour exercises   *)
(* one of them, its subject, and TLC need not multiply their states.       *)
EXTENDS WalletService, FiniteSets, TLC

CONSTANTS
    RiderIds, Switches,
    Items, Categories, Restaurants, NoCategory,  \* restaurant service
    Ids, Phones, Passwords, Tokens, NoToken, \* auth service
    v1, v2, Channels,                        \* notification service
    MaxFaults,    \* failures and restarts of a wallet's requests
    MaxRequests,  \* requests to wallets
    MaxEarnings,  \* earnings of a rider
    MaxMade,      \* versions of restaurants, items and categories
    MaxBulk       \* bulk notifications for a user

\* A new rider is available, and what stands for nothing is not a value.
ASSUME ServicesAssumption ==
    /\ Passwords # {}
    /\ NoToken \notin Tokens
    /\ "available" \in Switches
    /\ "absent" \notin Channels
    /\ Items \cap Categories = {}
    /\ NoCategory \notin Items \cup Categories \cup Restaurants

VARIABLES
    subject,
    calm,          \* whether so far one call ran at a time and nothing failed
    faults, requests,
    rider, earnings, riderCall, asked,
    row, category, made, cache, restaurantCall,
    user, token, authCall, secret, spent,
    inbox, preference, notificationCall, bulk, chosen

Rider == INSTANCE RiderService WITH Amounts <- {1}, call <- riderCall

Restaurant == INSTANCE RestaurantService WITH call <- restaurantCall

Auth == INSTANCE AuthService WITH call <- authCall

Notification == INSTANCE NotificationService
    WITH List <- <<v1, v2>>, Default <- Channels, call <- notificationCall

walletVars == <<vars, faults, requests>>

riderVars == <<rider, earnings, riderCall, asked>>

restaurantVars == <<row, category, made, cache, restaurantCall>>

authVars == <<user, token, authCall, secret, spent>>

notificationVars == <<inbox, preference, notificationCall, bulk, chosen>>

mcvars == <<subject, calm, walletVars, riderVars, restaurantVars, authVars, notificationVars>>

BusyIn(calls) == {p \in Procs : calls[p] # Idle}

\* A call that begins while another one runs ends the calm.
CalmAfter(calls) == calm' = (calm /\ Cardinality(BusyIn(calls)) <= 1)

Bulk == {p \in Procs : notificationCall[p] # Idle /\ notificationCall[p].pc = "bulk"}

-----------------------------------------------------------------------------
(* The steps of each subject, with budgets for what comes from outside.    *)

\* When no more requests come, the service stops once those in it are done.
WalletNext ==
    /\ \/ /\ requests < MaxRequests
          /\ \E p \in Procs : Request(p)
          /\ requests' = requests + 1
          /\ CalmAfter(call')
          /\ UNCHANGED faults
       \/ \E p \in Procs : Continue(p) /\ UNCHANGED <<faults, requests, calm>>
       \/ Fault /\ faults < MaxFaults /\ faults' = faults + 1 /\ calm' = FALSE /\ UNCHANGED requests
    /\ UNCHANGED <<riderVars, restaurantVars, authVars, notificationVars>>

RiderNext ==
    /\ \/ /\ \E p \in Procs : Rider!Request(p) \/ Rider!Continue(p) \/ Rider!Earn(p)
          /\ \A r \in RiderIds : earnings'[r].rows <= MaxEarnings
          /\ CalmAfter(riderCall')
       \/ Rider!Toggle /\ calm' = (calm /\ BusyIn(riderCall) = {})
       \/ Rider!Fault /\ calm' = FALSE
    /\ UNCHANGED <<walletVars, restaurantVars, authVars, notificationVars>>

RestaurantNext ==
    /\ \/ /\ \/ \E p \in Procs : \/ Restaurant!Change(p) \/ Restaurant!Read(p)
                                 \/ Restaurant!Continue(p)
             \/ \E k \in Restaurant!Lists : Restaurant!Expire(k)
          /\ made' <= MaxMade
          /\ CalmAfter(restaurantCall')
       \/ (\E p \in Procs : Restaurant!Stop(p)) /\ calm' = FALSE
    /\ UNCHANGED <<walletVars, riderVars, authVars, notificationVars>>

\* Tokens and ids run out.
AuthNext ==
    /\ \/ /\ \E p \in Procs : Auth!Request(p) \/ Auth!Continue(p)
          /\ CalmAfter(authCall')
       \/ Auth!Others /\ UNCHANGED calm
       \/ Auth!Fault /\ calm' = FALSE
    /\ UNCHANGED <<walletVars, riderVars, restaurantVars, notificationVars>>

\* Sending does not touch preferences, which calm is about.
NotificationNext ==
    /\ \/ /\ \E p \in Procs : Notification!Send(p)
          /\ \A u \in {v1, v2} : bulk[u] + Cardinality(Bulk') <= MaxBulk
          /\ UNCHANGED calm
       \/ /\ \E p \in Procs : Notification!Change(p) \/ Notification!Continue(p)
          /\ CalmAfter(notificationCall')
       \/ Notification!Sort /\ UNCHANGED calm
       \/ Notification!Fault /\ calm' = FALSE
    /\ UNCHANGED <<walletVars, riderVars, restaurantVars, authVars>>

ServicesInit ==
    /\ subject \in {"wallet", "rider", "restaurant", "auth", "notification"}
    /\ calm = TRUE
    /\ Init /\ faults = 0 /\ requests = 0
    /\ Rider!Init /\ Restaurant!Init /\ Auth!Init /\ Notification!Init

ServicesNext ==
    /\ UNCHANGED subject
    /\ \/ subject = "wallet" /\ WalletNext
       \/ subject = "rider" /\ RiderNext
       \/ subject = "restaurant" /\ RestaurantNext
       \/ subject = "auth" /\ AuthNext
       \/ subject = "notification" /\ NotificationNext

\* What is not the subject can do nothing, and fairness asks nothing of it.
ServicesSpec == ServicesInit /\ [][ServicesNext]_mcvars /\ Restaurant!Fairness

-----------------------------------------------------------------------------
(* The properties.  Each module says what the conjuncts mean.              *)

\* Every table, cache and call keeps its type.
ServicesTypeOK ==
    /\ TypeOK
    /\ Rider!TypeOK
    /\ Restaurant!TypeOK
    /\ Auth!TypeOK
    /\ Notification!TypeOK

\* Running totals agree with the rows they sum up: a wallet's balance with its
\* ledger (payment_service.go:162), a rider's earnings with their table
\* (rider_service.go:214), for calls that come one at a time; and whatever
\* races, a rider's totals never say more than the table does.
BooksAgree ==
    /\ calm => StatementAgrees
    /\ calm /\ BusyIn(riderCall) = {} => Rider!TotalsAgree
    /\ Rider!TotalsWithinEarnings

\* There is one of each: one account of a phone number (auth_service.go:43),
\* always, though it is looked up and created in two calls; one profile of a
\* rider (rider_service.go:36) and one successor of a refresh token
\* (auth_service.go:139), for calls that come one at a time.
OneOfEach ==
    /\ Auth!OneAccountPerPhone
    /\ calm => Rider!OneProfile /\ Auth!TokenUsedOnce

\* What was asked for is there: a notification for everyone on a bulk list up
\* to the last who had one (notification_service.go:49), always; the switches
\* of a rider (rider_service.go:96), passwords (auth_service.go:192),
\* preferences (notification_service.go:134) and the items of the menu shown
\* (restaurant_service.go:266), for calls that come one at a time.
WritesAreKept ==
    /\ Notification!NobodyIsPassedOver
    /\ calm => /\ Rider!SwitchesKept
               /\ Auth!PasswordKept
               /\ Notification!PreferenceKept
               /\ Restaurant!MenuIsFresh

\* The menu shown is the one written last, its categories too
\* (README.md:87 of backend), for calls that come one at a time.
MenuFollowsEdits == calm => Restaurant!MenuFollowsEdits

\* A stale list goes away with its time to live (restaurant_service.go:160,
\* 288), whoever put it there.
StaleGoesAway == Restaurant!StaleGoesAway
=============================================================================
