--------------------------- MODULE AbuseDetection ---------------------------
(* backend/pkg/fraud and backend/pkg/review: which orders, coupons and     *)
(* reviews are refused. Each is specified by itself; no state is shared    *)
(* but the goroutines.                                                     *)
EXTENDS FiniteSetsExt, Functions, Goroutines, Integers

-----------------------------------------------------------------------------
(* backend/pkg/fraud/order_fraud_detection.go: DetectOrderFraud,           *)
(* CheckCouponAbuse and GetFraudScore add up a risk, lookup by lookup.     *)
(* Each lookup is an action; one that fails leaves its factors out.        *)

VARIABLES
    check,      \* what is checked: an order, a coupon or a user
    facts,      \* risk factors that are true of it
    step,       \* lookup that is next
    found,      \* factors found so far
    action,     \* the verdict
    risk,       \* the score behind it
    fraudAlert  \* whether a fraud alert was raised

fraudVars == <<check, facts, step, found, action, risk, fraudAlert>>

Checks == {"order", "coupon", "user"}

\* Factors by the lookup that shows them.  Of the devices one may be blacklisted,
\* and two new; no address of the network is suspicious.  The score of a user
\* counts an account of some days, or one order less, on top of the milder factor.
Shown(c) ==
    CASE c = "order" ->
           [user      |-> {"new_account", "high_value_order", "cod_payment", "unverified_user"},
            addresses |-> {"new_address"},
            devices   |-> {"new_device", "blacklisted_device"},
            history   |-> {"first_order"}]
      [] c = "coupon" ->
           [devices |-> {"new_device", "second_new_device"},
            user    |-> {"very_new_account"}]
      [] c = "user" ->
           [user    |-> {"account_of_weeks", "account_of_days", "unverified_user"},
            history |-> {"few_orders", "first_order"}]

Factors(c) == UNION {Shown(c)[l] : l \in DOMAIN Shown(c)}

\* A factor that comes only with a milder one.
Implies == {<<"second_new_device", "new_device">>, <<"account_of_days", "account_of_weeks">>,
            <<"first_order", "few_orders">>}

Possible(c) ==
    {order \in SUBSET Factors(c) :
       \A i \in Implies : i[1] \in order /\ i[2] \in Factors(c) => i[2] \in order}

OrderWeight(f) ==
    CASE f = "blacklisted_device" -> 50
      [] f = "cod_payment" -> 25
      [] f \in {"new_account", "first_order"} -> 20
      [] f \in {"high_value_order", "new_address"} -> 15
      [] OTHER -> 10

CouponWeight(f) == IF f = "very_new_account" THEN 30 ELSE 20

UserWeight(f) ==
    CASE f = "unverified_user" -> 20
      [] f = "few_orders" -> 10
      [] OTHER -> 15

Weights(c) ==
    CASE c = "order" -> [f \in Factors(c) |-> OrderWeight(f)]
      [] c = "coupon" -> [f \in Factors(c) |-> CouponWeight(f)]
      [] c = "user" -> [f \in Factors(c) |-> UserWeight(f)]

Sum(c, factors) == SumFunctionOnSet(Weights(c), factors)

\* Faulty: the score wraps around.
ScoreModulo(c, factors) == Sum(c, factors) % 100

\* The cap; coupons have none, and do not reach it.
Score(c, factors) == Min({Sum(c, factors), 100})

OrderVerdict(score) ==
    IF score >= 70 THEN "reject"
    ELSE IF score >= 50 THEN "review"
    ELSE IF score >= 30 THEN "require_prepayment"
    ELSE "approve"

CouponVerdict(score) ==
    IF score >= 50 THEN "reject" ELSE IF score >= 30 THEN "review" ELSE "approve"

\* A user gets a score only.
Verdict(c, score) ==
    CASE c = "order" -> OrderVerdict(score)
      [] c = "coupon" -> CouponVerdict(score)
      [] c = "user" -> "scored"

FraudInit ==
    /\ check = "order" /\ facts = {} /\ found = {}
    /\ step = "none" /\ action = "none" /\ risk = 0
    /\ fraudAlert = FALSE

Start(c, first, factors) ==
    /\ step = "none"
    /\ check' = c /\ facts' = factors /\ found' = {}
    /\ step' = first /\ action' = "none" /\ risk' = 0
    /\ fraudAlert' = FALSE

DetectOrderFraud(order) == Start("order", "user", order)

CheckCouponAbuse(coupon) == Start("coupon", "devices", coupon)

GetFraudScore(user) == Start("user", "user", user)

After(lookup) ==
    CASE lookup = "user" /\ check = "order" -> "addresses"
      [] lookup = "user" /\ check = "user" -> "history"
      [] lookup = "addresses" -> "devices"
      [] lookup = "devices" /\ check = "order" -> "history"
      [] lookup = "devices" /\ check = "coupon" -> "user"
      [] OTHER -> "decide"

GoOn(factors) ==
    /\ found' = found \cup factors
    /\ step' = After(step)
    /\ UNCHANGED <<check, facts, action, risk, fraudAlert>>

LookUp ==
    /\ step \in DOMAIN Shown(check)
    /\ GoOn(facts \cap Shown(check)[step])

\* Without the user there is no answer but about a coupon.
UserError ==
    /\ step = "user" /\ check # "coupon"
    /\ step' = "none"
    /\ UNCHANGED <<check, facts, found, action, risk, fraudAlert>>

\* Without the rest there is one.  A device that cannot be checked is not taken
\* to be blacklisted.
LookUpError ==
    /\ step \in DOMAIN Shown(check)
    /\ step = "user" => check = "coupon"
    /\ \/ GoOn({})
       \/ step = "devices" /\ check = "order" /\ GoOn(facts \cap {"new_device"})

\* The error of the alert service is ignored, and the alert is lost.
Decide(alerted) ==
    /\ step = "decide"
    /\ risk' = Score(check, found)
    /\ action' = Verdict(check, risk')
    /\ fraudAlert' = (alerted /\ check = "order" /\ risk' >= 50)
    /\ step' = "none"
    /\ UNCHANGED <<check, facts, found>>

FraudNext ==
    \/ \E order \in Possible("order") : DetectOrderFraud(order)
    \/ \E coupon \in Possible("coupon") : CheckCouponAbuse(coupon)
    \/ \E user \in Possible("user") : GetFraudScore(user)
    \/ LookUp \/ LookUpError \/ UserError
    \/ \E alerted \in BOOLEAN : Decide(alerted)

-----------------------------------------------------------------------------
(* Properties.                                                             *)

FraudTypeOK ==
    /\ check \in Checks /\ facts \in Possible(check) /\ found \subseteq facts
    /\ step \in {"none", "decide"} \cup DOMAIN Shown(check)
    /\ risk \in 0..100

Strictness(verdict) ==
    CASE verdict = "reject" -> 3
      [] verdict = "review" -> 2
      [] verdict = "require_prepayment" -> 1
      [] OTHER -> 0

\* "= higher risk score" (order_fraud_detection.go:12): nothing is treated worse
\* than it would be with one more factor, or than all that is true of it calls
\* for, so that a failed lookup never harms a customer; support hears only of
\* orders that are held.
NeverTooStrict ==
    action # "none" =>
        /\ \A f \in Factors(check) \ found :
             Strictness(action) <= Strictness(Verdict(check, Score(check, found \cup {f})))
        /\ Strictness(action) <= Strictness(Verdict(check, Score(check, facts)))
        /\ risk <= Score(check, facts)
        /\ fraudAlert => action \in {"review", "reject"}

-----------------------------------------------------------------------------
(* backend/pkg/review/review_authenticity.go: which reviews are posted.    *)
(* Each call to the repositories, which are interfaces, is an action.      *)
(* One restaurant.  A review that the detector takes for fake, by its text *)
(* alone, is refused.                                                      *)

CONSTANTS
    Users, PerUser,  \* customers, and orders of each
    Daily,           \* reviews of a user a day, 5 in the code
    Burst            \* five-star reviews an hour that do not stop another: 14 in the
                     \* code, though from 11 on it calls them suspicious (:259)

VARIABLES
    delivered,  \* orders delivered
    reviews,    \* for each order, its reviews
    today,      \* for each user, reviews of the last day
    fiveStars   \* five-star reviews of the last hour

reviewVars == <<call, delivered, reviews, today, fiveStars>>

store == <<delivered, reviews, today, fiveStars>>

Orders == Users \X (1..PerUser)

Customer(order) == order[1]

ReviewInit ==
    /\ call = [p \in Procs |-> Idle]
    /\ delivered = {}
    /\ reviews = [o \in Orders |-> 0]
    /\ today = [u \in Users |-> 0]
    /\ fiveStars = 0

Deliver(order) ==
    /\ delivered' = delivered \cup {order}
    /\ UNCHANGED <<call, reviews, today, fiveStars>>

\* The order has to be the user's own, and delivered.
PostReview(p, user, order, five) ==
    /\ call[p] = Idle
    /\ Customer(order) = user
    /\ order \in delivered
    /\ Goto(p, [pc |-> "reviewed", order |-> order, five |-> five])
    /\ UNCHANGED store

Proceed(p, to) == Goto(p, [call[p] EXCEPT !.pc = to])

\* Faulty: a second review is one too few to mind.
CheckReviewedTwice(p) ==
    /\ At(p, "reviewed")
    /\ IF reviews[call[p].order] > 1 THEN Return(p) ELSE Proceed(p, "limit")
    /\ UNCHANGED store

CheckReviewed(p) ==
    /\ At(p, "reviewed")
    /\ IF reviews[call[p].order] > 0 THEN Return(p) ELSE Proceed(p, "limit")
    /\ UNCHANGED store

\* Faulty: one review more than a day may have.
CheckLimitLate(p) ==
    /\ At(p, "limit")
    /\ \/ today[Customer(call[p].order)] <= Daily /\ Proceed(p, "burst")
       \/ Return(p)
    /\ UNCHANGED store

\* Under the limit, the review is refused if it looks fake.
CheckLimit(p) ==
    /\ At(p, "limit")
    /\ \/ today[Customer(call[p].order)] < Daily /\ Proceed(p, "burst")
       \/ Return(p)
    /\ UNCHANGED store

CheckBurst(p) ==
    /\ At(p, "burst")
    /\ IF fiveStars > Burst THEN Return(p) ELSE Proceed(p, "save")
    /\ UNCHANGED store

SaveReview(p) ==
    /\ At(p, "save")
    /\ reviews' = [reviews EXCEPT ![call[p].order] = @ + 1]
    /\ today' = [today EXCEPT ![Customer(call[p].order)] = @ + 1]
    /\ fiveStars' = IF call[p].five THEN fiveStars + 1 ELSE fiveStars
    /\ Return(p)
    /\ UNCHANGED delivered

\* Reviews leave the windows as time passes.
TimePasses ==
    /\ \/ /\ fiveStars > 0 /\ fiveStars' = fiveStars - 1
          /\ UNCHANGED today
       \/ /\ \E u \in Users : today[u] > 0 /\ today' = [today EXCEPT ![u] = @ - 1]
          /\ UNCHANGED fiveStars
    /\ UNCHANGED <<call, delivered, reviews>>

\* A lookup fails, and the check it was for is left out.
ReadError(p) ==
    /\ \/ At(p, "reviewed") /\ Proceed(p, "limit")
       \/ At(p, "limit") /\ Proceed(p, "burst")
       \/ At(p, "burst") /\ Proceed(p, "save")
    /\ UNCHANGED store

ReviewFail == \E p \in Procs : ReadError(p) \/ (Stop(p) /\ UNCHANGED store)

ReviewWork(p) ==
    \/ \E u \in Users, o \in Orders, five \in BOOLEAN : PostReview(p, u, o, five)
    \/ CheckReviewed(p) \/ CheckLimit(p) \/ CheckBurst(p) \/ SaveReview(p)

ReviewNext ==
    \/ \E p \in Procs : ReviewWork(p)
    \/ \E o \in Orders \ delivered : Deliver(o)
    \/ TimePasses
    \/ ReviewFail

-----------------------------------------------------------------------------
(* Properties.                                                             *)

ReviewTypeOK ==
    /\ delivered \subseteq Orders
    /\ reviews \in [Orders -> Nat]
    /\ today \in [Users -> Nat]
    /\ fiveStars \in Nat

\* "already_reviewed" (review_authenticity.go:134): an order has one review.
OneReviewPerOrder == \A o \in Orders : reviews[o] <= 1

\* "rate-limit reviews per user per day" (review_authenticity.go:13): the limit
\* is passed only by reviews that are checked at once.
ReviewsWithinLimit == \A u \in Users : today[u] < Daily + Cardinality(Procs)

-----------------------------------------------------------------------------
(* All of it, each part taking its steps while the others stand still.     *)

vars == <<call, check, facts, step, found, action, risk, fraudAlert, delivered, reviews, today,
          fiveStars>>

Init == FraudInit /\ ReviewInit

Next ==
    \/ FraudNext /\ UNCHANGED <<call, delivered, reviews, today, fiveStars>>
    \/ ReviewNext /\ UNCHANGED <<check, facts, step, found, action, risk, fraudAlert>>

Spec == Init /\ [][Next]_vars

TypeOK == FraudTypeOK /\ ReviewTypeOK
=============================================================================
