---------------------------- MODULE LibraryLemmas ----------------------------
(***************************************************************************)
(* What MCLibraries checks holds for any limits, windows, users, stops,    *)
(* riders, prices and goroutines.  A behaviour exercises one library, its  *)
(* subject, and the invariant has one part per library: what holds while   *)
(* it is the subject, and that it is otherwise as it was in the beginning. *)
(* A part is defined before its proof: that it holds in the beginning      *)
(* (...Init), that a step preserves it (...Step), and a step in which      *)
(* nothing changes (...Stutter), and what follows from it (...Sound).      *)
(* Here are the parts of limits, messages, migrations, rows, reviews,      *)
(* tokens, uptime, deviations and fraud, with the lemmas about folds that  *)
(* all of them use.  LibraryProofs has the other parts and the theorems.   *)
(***************************************************************************)
EXTENDS MCLibraries, FiniteSetTheorems, WellFoundedInduction, SequencesExt, TLAPS

-----------------------------------------------------------------------------
(* Calls that come one at a time.                                          *)

\* Nobody but one goroutine is at work.
One == \A p, q \in Procs : call[p] # Idle /\ call[q] # Idle => p = q

\* A step that stays serial is of the goroutine at work, or of one while none is.
LEMMA SerialStep ==
    ASSUME Called, calm' = "serial"
    PROVE  /\ calm = "serial"
           /\ call' = call => \A p \in Procs : call[p] = Idle
           /\ \A p, q \in Procs :
                (call[p] # Idle \/ call'[p] # Idle) /\ (call[q] # Idle \/ call'[q] # Idle) => p = q
<1>1. calm = "serial" BY DEF Called
<1>2. ~(Busy # {} /\ call' = call)
    BY DEF Called
<1>3. \A p, q \in Busy \cup {b \in Procs : call'[b] # Idle} : p = q
    BY DEF Called
<1>4. \A p \in Procs : call[p] # Idle \/ call'[p] # Idle =>
                          p \in Busy \cup {b \in Procs : call'[b] # Idle}
    BY DEF Busy
<1>5. call' = call => \A p \in Procs : call[p] = Idle BY <1>2 DEF Busy
<1>6. ASSUME NEW p \in Procs, NEW q \in Procs, call[p] # Idle \/ call'[p] # Idle,
             call[q] # Idle \/ call'[q] # Idle
      PROVE  p = q
    BY <1>3, <1>4, <1>6
<1> QED BY <1>1, <1>5, <1>6

\* The cardinality the instances speak of.
LEMMA Cardinalities ==
    ASSUME NEW S
    PROVE  /\ Auth!Cardinality(S) = Cardinality(S)
           /\ Abuse!Cardinality(S) = Cardinality(S)
           /\ Limiters!Cardinality(S) = Cardinality(S)
BY DEF Auth!Cardinality, Abuse!Cardinality, Limiters!Cardinality, Cardinality

\* What the limits are, of all that is assumed.
LEMMA LimitsAre ==
    /\ IsFiniteSet(Procs)
    /\ MaxRequests \in Nat \ {0} /\ SlidingWindow \in Nat \ {0}
    /\ DailyReviews \in Nat \ {0} /\ MaxCount \in Nat \ {0}
    /\ RateLimit \in Nat /\ SlidingMaxTime \in Nat
    /\ Capacity \in Nat /\ RefillRate \in Nat /\ BucketMaxTime \in Nat
    /\ NotificationLimit \in Nat /\ ReviewBurst \in Nat
    /\ Hour \in Nat /\ TrackerMaxTime \in Nat
BY LibrariesAssumption

LEMMA BoundsAre ==
    /\ Window \in Nat \ {0} /\ RowMaxTime \in Nat /\ ChannelSize \in Nat
    /\ MaxQuantity \in Nat /\ MaxIDs \in Nat /\ Threshold \in Nat /\ MaxRiders \in Nat
BY LibrariesAssumption

LEMMA SetsAre ==
    /\ IsFiniteSet(Versions) /\ Versions \subseteq Nat
    /\ IsFiniteSet(Rules) /\ IsFiniteSet(Zones)
    /\ \A r \in Rules : ZoneIDs[r] \subseteq Zones /\ TargetCount[r] \in Nat
    /\ IsFiniteSet(Hexes) /\ Hexes = 1..Cardinality(Hexes)
    /\ 0 \notin Riders /\ 1 \in Values
    /\ 0 \in Coordinates /\ Coordinates \subseteq Int
BY LibrariesAssumption

LEMMA PricesAre ==
    /\ \A S \in {Prices, Quantities, Averages, Queues, Complexities, Travels} :
         IsFiniteSet(S) /\ S # {} /\ S \subseteq Nat
    /\ Rates \subseteq Nat /\ AddOns \subseteq Nat /\ Variants \subseteq Nat
    /\ Scores \subseteq Nat \ {0}
BY LibrariesAssumption

LEMMA PricesAreNumbers ==
    /\ Prices \subseteq Nat /\ Quantities \subseteq Nat /\ Rates \cup {0} \subseteq Nat
    /\ Averages \subseteq Nat /\ Queues \subseteq Nat
    /\ Complexities \subseteq Nat /\ Travels \subseteq Nat
<1>1. Prices \subseteq Nat /\ Quantities \subseteq Nat /\ Averages \subseteq Nat BY PricesAre
<1>2. Queues \subseteq Nat /\ Complexities \subseteq Nat /\ Travels \subseteq Nat BY PricesAre
<1>3. Rates \subseteq Nat BY PricesAre
<1>4. Rates \cup {0} \subseteq Nat BY <1>3
<1> QED BY <1>1, <1>2, <1>4

LEMMA DetoursAre ==
    /\ IsFiniteSet(Stops) /\ Population \in Nat \ {0}
    /\ Elitism \in Nat \ {0} /\ Generations \in Nat
    /\ \A a \in Stops \cup {0}, b \in Stops : Detour(a, b) \in Int
    /\ \A tour \in [1..Cardinality(Stops) -> Stops] : BuiltLength(tour) \in Int
BY LibrariesAssumption

LEMMA CalledKeepsFaults == Called => (calm' # "faulty" => calm # "faulty")
BY DEF Called

-----------------------------------------------------------------------------
(* One-time passwords (AuthLibrary).                                       *)

OtpVars == <<requests, failures, cooldown>>

Counter == [n : Nat, expires : BOOLEAN]

\* Requests that have passed the limit and are not counted yet.
Checked ==
    {p \in Procs : \/ call[p].pc \in {"captcha", "record"}
                   \/ call[p].pc = "limit" /\ call[p].count < MaxRequests}

\* Every count will expire, or a goroutine is about to see to it.
Expiring(counter, expiry) ==
    counter.n > 0 /\ ~counter.expires => \E p \in Procs : call[p].pc = expiry

OtpHolds ==
    /\ DOMAIN call = Procs
    /\ \A p \in Procs : call[p].pc = "limit" => call[p].count \in Nat
    /\ requests.n + Cardinality(Checked) <= MaxRequests + Cardinality(Procs) - 1
    /\ calm # "faulty" => /\ Expiring(requests, "expireRequests")
                          /\ Expiring(failures, "expireFailures")

OtpIInv ==
    /\ requests \in Counter
    /\ failures \in Counter
    /\ cooldown \in BOOLEAN
    /\ IF subject = "otp" THEN OtpHolds
       ELSE requests = Auth!NoKey /\ failures = Auth!NoKey

LEMMA OtpSteps ==
    ASSUME Unbounded
    PROVE  /\ subject' = subject
           /\ subject # "otp" => UNCHANGED OtpVars
           /\ subject = "otp" =>
                \/ Called /\ (Auth!ResetOTPCounters \/ \E p \in Procs : Auth!OtpWork(p))
                \/ UNCHANGED calm /\ Auth!KeysExpire
                \/ calm' = "faulty" /\ Auth!OtpFail
BY DEF Unbounded, Calls, World, Faults, Steps, Frame, OtpVars

LEMMA CheckedFinite ==
    /\ IsFiniteSet(Checked) /\ Cardinality(Checked) \in Nat
    /\ IsFiniteSet(Checked') /\ Cardinality(Checked') \in Nat
    /\ Cardinality(Procs) \in Nat
    /\ Cardinality(Checked) <= Cardinality(Procs)
    /\ Cardinality(Checked') <= Cardinality(Procs)
<1>1. Checked \subseteq Procs /\ Checked' \subseteq Procs BY DEF Checked
<1>2. IsFiniteSet(Procs) BY LimitsAre
<1> QED BY <1>1, <1>2, FS_Subset, FS_CardinalityType

\* What a step of OtpWork does to the counts and to those who passed the limit.
LEMMA Counters ==
    /\ Auth!NoKey \in Counter /\ Auth!NoKey.n = 0
    /\ \A c \in Counter : /\ c.n \in Nat /\ c.expires \in BOOLEAN
                          /\ Auth!Incr(c) \in Counter
                          /\ Auth!Incr(c).n = c.n + 1 /\ Auth!Incr(c).expires = c.expires
                          /\ Auth!SetExpiry(c) \in Counter
                          /\ Auth!SetExpiry(c).n = c.n /\ Auth!SetExpiry(c).expires = (c.n > 0)
<1>1. Auth!NoKey \in Counter /\ Auth!NoKey.n = 0 BY DEF Counter, Auth!NoKey
<1>2. ASSUME NEW c \in Counter
      PROVE  /\ c.n \in Nat /\ c.expires \in BOOLEAN
             /\ Auth!Incr(c) \in Counter
             /\ Auth!Incr(c).n = c.n + 1 /\ Auth!Incr(c).expires = c.expires
             /\ Auth!SetExpiry(c) \in Counter
             /\ Auth!SetExpiry(c).n = c.n /\ Auth!SetExpiry(c).expires = (c.n > 0)
  <2>1. c.n + 1 \in Nat /\ (c.n > 0) \in BOOLEAN BY DEF Counter
  <2> QED BY <2>1 DEF Counter, Auth!Incr, Auth!SetExpiry
<1> QED BY <1>1, <1>2

LEMMA OtpTypes ==
    ASSUME OtpIInv, subject = "otp",
           \/ Auth!ResetOTPCounters
           \/ Auth!KeysExpire
           \/ Auth!OtpFail
           \/ \E p \in Procs : Auth!OtpWork(p)
    PROVE  /\ requests' \in Counter
           /\ failures' \in Counter
           /\ cooldown' \in BOOLEAN
<1> USE Counters DEF OtpIInv
<1>1. CASE Auth!ResetOTPCounters BY <1>1 DEF Auth!ResetOTPCounters
<1>2. CASE Auth!KeysExpire
  <2>1. /\ requests' = requests \/ requests' = Auth!NoKey
        /\ failures' = failures \/ failures' = Auth!NoKey
        /\ cooldown' = cooldown \/ cooldown' = FALSE
      BY <1>2 DEF Auth!KeysExpire
  <2> QED BY <2>1
<1>3. CASE Auth!OtpFail BY <1>3 DEF Auth!OtpFail
<1>4. ASSUME NEW p \in Procs, Auth!OtpWork(p)
      PROVE  /\ requests' \in Counter
             /\ failures' \in Counter
             /\ cooldown' \in BOOLEAN
  <2>1. /\ \/ requests' = requests \/ requests' = Auth!NoKey
           \/ requests' = Auth!Incr(requests) \/ requests' = Auth!SetExpiry(requests)
        /\ \/ failures' = failures \/ failures' = Auth!NoKey
           \/ failures' = Auth!Incr(failures) \/ failures' = Auth!SetExpiry(failures)
        /\ cooldown' \in BOOLEAN
    BY <1>4 DEF Auth!OtpWork, Auth!SendOTPWithChecks, Auth!CheckLimit,
         Auth!CheckCaptcha, Auth!RecordOTPRequest, Auth!ExpireRequests, Auth!VerifyOTPWithChecks,
         Auth!ClearFailures, Auth!ClearCooldown, Auth!CountFailure, Auth!ExpireFailures, Auth!Cool
  <2> QED BY <2>1
<1> QED BY <1>1, <1>2, <1>3, <1>4

LEMMA OtpCounts ==
    ASSUME OtpIInv, subject = "otp",
           \/ Auth!ResetOTPCounters
           \/ Auth!KeysExpire
           \/ Auth!OtpFail
           \/ \E p \in Procs : Auth!OtpWork(p)
    PROVE  /\ DOMAIN call' = Procs
           /\ \A p \in Procs : call'[p].pc = "limit" => call'[p].count \in Nat
           /\ requests'.n + Cardinality(Checked') <= MaxRequests + Cardinality(Procs) - 1
<1> USE Counters DEF Auth!Goto, Auth!Return, Auth!Idle, Auth!At
<1> DEFINE Bounded == requests'.n + Cardinality(Checked') <= MaxRequests + Cardinality(Procs) - 1
<1>1. /\ OtpHolds /\ requests.n \in Nat /\ failures.n \in Nat /\ MaxRequests \in Nat \ {0}
      /\ requests \in Counter /\ failures \in Counter
    BY LimitsAre DEF OtpIInv
<1>2. requests'.n \in Nat /\ requests'.n <= requests.n /\ Checked' \subseteq Checked => Bounded
    BY <1>1, CheckedFinite, FS_Subset DEF OtpHolds
<1>3. requests'.n = 0 => Bounded
    BY <1>1, CheckedFinite
<1>4. CASE Auth!ResetOTPCounters
    BY <1>1, <1>3, <1>4 DEF Auth!ResetOTPCounters, OtpHolds
<1>5. CASE Auth!KeysExpire
  <2>1. call' = call /\ Checked' = Checked BY <1>5 DEF Auth!KeysExpire, Checked
  <2>2. requests'.n \in Nat /\ requests'.n <= requests.n
      BY <1>1, <1>5 DEF Auth!KeysExpire, OtpIInv
  <2> QED BY <1>1, <1>2, <2>1, <2>2 DEF OtpHolds
<1>6. CASE Auth!OtpFail
  <2>1. PICK p \in Procs : Auth!Ignore(p) \/ Auth!Stop(p) BY <1>6 DEF Auth!OtpFail
  <2>2. requests' = requests BY <1>6 DEF Auth!OtpFail
  <2>3. DOMAIN call' = Procs /\ \A q \in Procs \ {p} : call'[q] = call[q]
      BY <1>1, <2>1 DEF Auth!Ignore, Auth!Stop, OtpHolds
  <2>4. /\ call'[p].pc # "limit"
        /\ call'[p].pc \in {"captcha", "record"} =>
             call[p].pc = "limit" /\ call[p].count < MaxRequests
      BY <1>1, <2>1 DEF Auth!Ignore, Auth!Stop, OtpHolds
  <2>5. Checked' \subseteq Checked BY <2>3, <2>4 DEF Checked
  <2> QED BY <1>1, <1>2, <2>2, <2>3, <2>4, <2>5 DEF OtpHolds
<1>7. ASSUME NEW p \in Procs, Auth!OtpWork(p)
      PROVE  /\ DOMAIN call' = Procs
             /\ \A q \in Procs : call'[q].pc = "limit" => call'[q].count \in Nat
             /\ Bounded
  <2>1. DOMAIN call' = Procs /\ \A q \in Procs \ {p} : call'[q] = call[q]
      BY <1>1, <1>7 DEF Auth!OtpWork, OtpHolds, Auth!SendOTPWithChecks, Auth!CheckLimit,
         Auth!CheckCaptcha, Auth!RecordOTPRequest, Auth!ExpireRequests, Auth!VerifyOTPWithChecks,
         Auth!ClearFailures, Auth!ClearCooldown, Auth!CountFailure, Auth!ExpireFailures, Auth!Cool
  <2>2. CASE Auth!SendOTPWithChecks(p)
    <3>1. requests' = requests /\ call'[p].pc = "limit" /\ call'[p].count = requests.n
        BY <1>1, <2>2 DEF Auth!SendOTPWithChecks, OtpHolds
    <3>2. ASSUME requests.n < MaxRequests PROVE Bounded
        BY <1>1, <3>1, <3>2, CheckedFinite
    <3>3. ASSUME ~(requests.n < MaxRequests) PROVE Bounded
      <4>1. Checked' \subseteq Checked BY <2>1, <3>1, <3>3 DEF Checked
      <4> QED BY <1>1, <1>2, <3>1, <4>1
    <3> QED BY <1>1, <2>1, <3>1, <3>2, <3>3 DEF OtpHolds
  <2>3. CASE Auth!RecordOTPRequest(p)
    <3>1. /\ call[p].pc = "record"
          /\ requests' = Auth!Incr(requests) /\ UNCHANGED <<failures, cooldown>>
          /\ call'[p].pc \in {"idle", "expireRequests"}
        BY <1>1, <2>3 DEF Auth!RecordOTPRequest, OtpHolds
    <3>2. Checked' = Checked \ {p} /\ p \in Checked BY <2>1, <3>1 DEF Checked
    <3>3. Cardinality(Checked') = Cardinality(Checked) - 1
        BY <3>2, CheckedFinite, FS_RemoveElement
    <3>4. requests'.n = requests.n + 1 BY <1>1, <3>1
    <3>5. Bounded BY <1>1, <3>3, <3>4, CheckedFinite DEF OtpHolds
    <3> QED BY <1>1, <2>1, <3>1, <3>5 DEF OtpHolds
  <2>4. CASE ~Auth!SendOTPWithChecks(p) /\ ~Auth!RecordOTPRequest(p)
    <3>1. /\ requests'.n = requests.n
          /\ call'[p].pc # "limit"
          /\ call'[p].pc \in {"captcha", "record"} =>
               \/ call[p].pc = "captcha"
               \/ call[p].pc = "limit" /\ call[p].count < MaxRequests
        BY <1>1, <1>7, <2>4 DEF Auth!OtpWork, OtpHolds, OtpIInv, Auth!CheckLimit, Auth!CheckCaptcha,
           Auth!ExpireRequests, Auth!VerifyOTPWithChecks, Auth!ClearFailures,
           Auth!ClearCooldown, Auth!CountFailure, Auth!ExpireFailures, Auth!Cool
    <3>2. Checked' \subseteq Checked BY <2>1, <3>1 DEF Checked
    <3> QED BY <1>1, <1>2, <2>1, <3>1, <3>2 DEF OtpHolds
  <2> QED BY <2>2, <2>3, <2>4
<1> QED BY <1>4, <1>5, <1>6, <1>7

LEMMA OtpExpires ==
    ASSUME OtpIInv, subject = "otp", calm # "faulty",
           \/ Auth!ResetOTPCounters
           \/ Auth!KeysExpire
           \/ \E p \in Procs : Auth!OtpWork(p)
    PROVE  Expiring(requests, "expireRequests")' /\ Expiring(failures, "expireFailures")'
<1> USE Counters DEF Expiring, Auth!Goto, Auth!Return, Auth!Idle, Auth!At
<1>1. /\ OtpHolds
      /\ requests \in Counter /\ failures \in Counter
    BY DEF OtpIInv
<1>2. CASE Auth!ResetOTPCounters
    BY <1>2 DEF Auth!ResetOTPCounters
<1>3. CASE Auth!KeysExpire
    BY <1>1, <1>3 DEF Auth!KeysExpire, OtpHolds
<1>4. ASSUME NEW p \in Procs, Auth!OtpWork(p)
      PROVE  Expiring(requests, "expireRequests")' /\ Expiring(failures, "expireFailures")'
  <2>1. DOMAIN call' = Procs /\ \A q \in Procs \ {p} : call'[q] = call[q]
      BY <1>1, <1>4 DEF Auth!OtpWork, OtpHolds, Auth!SendOTPWithChecks, Auth!CheckLimit,
         Auth!CheckCaptcha, Auth!RecordOTPRequest, Auth!ExpireRequests, Auth!VerifyOTPWithChecks,
         Auth!ClearFailures, Auth!ClearCooldown, Auth!CountFailure, Auth!ExpireFailures, Auth!Cool
  <2>2. CASE Auth!RecordOTPRequest(p)
    <3>1. /\ call[p].pc = "record" /\ failures' = failures
          /\ requests'.expires = requests.expires
          /\ requests.n = 0 => call'[p].pc = "expireRequests"
        BY <1>1, <2>2 DEF Auth!RecordOTPRequest, OtpHolds
    <3> QED BY <1>1, <2>1, <3>1 DEF OtpHolds
  <2>3. CASE Auth!ExpireRequests(p)
    <3>1. /\ call[p].pc = "expireRequests" /\ failures' = failures
          /\ requests'.n > 0 => requests'.expires
        BY <1>1, <2>3 DEF Auth!ExpireRequests
    <3> QED BY <1>1, <2>1, <3>1 DEF OtpHolds
  <2>4. CASE Auth!CountFailure(p)
    <3>1. /\ call[p].pc = "countFailure" /\ requests' = requests
          /\ call'[p].pc = "expireFailures"
        BY <1>1, <2>4 DEF Auth!CountFailure, OtpHolds
    <3> QED BY <1>1, <2>1, <3>1 DEF OtpHolds
  <2>5. CASE Auth!ExpireFailures(p)
    <3>1. /\ call[p].pc = "expireFailures" /\ requests' = requests
          /\ failures'.n > 0 => failures'.expires
        BY <1>1, <2>5 DEF Auth!ExpireFailures
    <3> QED BY <1>1, <2>1, <3>1 DEF OtpHolds
  <2>6. CASE \/ Auth!SendOTPWithChecks(p) \/ Auth!CheckLimit(p) \/ Auth!CheckCaptcha(p)
             \/ Auth!VerifyOTPWithChecks(p) \/ Auth!ClearFailures(p) \/ Auth!ClearCooldown(p)
             \/ Auth!Cool(p)
    <3>1. /\ call[p].pc \notin {"expireRequests", "expireFailures"}
          /\ requests' = requests
          /\ failures' = failures \/ failures'.n = 0
        BY <1>1, <2>6 DEF Auth!SendOTPWithChecks, Auth!CheckLimit, Auth!CheckCaptcha,
           Auth!VerifyOTPWithChecks, Auth!ClearFailures, Auth!ClearCooldown, Auth!Cool
    <3> QED BY <1>1, <2>1, <3>1 DEF OtpHolds
  <2> QED BY <1>4, <2>2, <2>3, <2>4, <2>5, <2>6 DEF Auth!OtpWork
<1> QED BY <1>2, <1>3, <1>4

LEMMA OtpStep ==
    ASSUME OtpIInv, Unbounded
    PROVE  OtpIInv'
<1>1. CASE subject # "otp"
  <2>1. subject' = subject /\ UNCHANGED OtpVars BY <1>1, OtpSteps
  <2> QED BY <1>1, <2>1 DEF OtpIInv, OtpVars
<1>2. CASE subject = "otp"
  <2>1. subject' = "otp" BY <1>2, OtpSteps
  <2>2. \/ Auth!ResetOTPCounters \/ Auth!KeysExpire \/ Auth!OtpFail
        \/ \E p \in Procs : Auth!OtpWork(p)
      BY <1>2, OtpSteps
  <2>3. calm' # "faulty" => /\ calm # "faulty"
                            /\ \/ Auth!ResetOTPCounters \/ Auth!KeysExpire
                               \/ \E p \in Procs : Auth!OtpWork(p)
      BY <1>2, OtpSteps, CalledKeepsFaults
  <2>4. calm' # "faulty" => /\ Expiring(requests, "expireRequests")'
                            /\ Expiring(failures, "expireFailures")'
      BY <1>2, <2>3, OtpExpires
  <2>5. OtpHolds' BY <1>2, <2>2, <2>4, OtpCounts DEF OtpHolds
  <2> QED BY <1>2, <2>1, <2>2, <2>5, OtpTypes DEF OtpIInv
<1> QED BY <1>1, <1>2

LEMMA OtpSound ==
    ASSUME OtpIInv
    PROVE  Auth!RequestsBounded /\ (Quiet => Auth!CountersExpire)
<1>1. /\ requests.n \in Nat /\ failures.n \in Nat /\ MaxRequests \in Nat \ {0}
      /\ Cardinality(Checked) \in Nat /\ Cardinality(Procs) \in Nat
    BY Counters, CheckedFinite, LimitsAre DEF OtpIInv
<1>2. CASE subject = "otp"
  <2>1. requests.n + Cardinality(Checked) <= MaxRequests + Cardinality(Procs) - 1
      BY <1>2 DEF OtpIInv, OtpHolds
  <2>2. Auth!RequestsBounded BY <1>1, <2>1, Cardinalities DEF Auth!RequestsBounded
  <2>3. ASSUME Quiet PROVE Auth!CountersExpire
    <3>1. \A p \in Procs : call[p].pc = "idle" BY <2>3 DEF Quiet, Busy, Idle
    <3>2. /\ requests.n > 0 => requests.expires
          /\ failures.n > 0 => failures.expires
        BY <1>2, <2>3, <3>1 DEF OtpIInv, OtpHolds, Expiring, Quiet
    <3> QED BY <3>2 DEF Auth!CountersExpire
  <2> QED BY <2>2, <2>3
<1>3. CASE subject # "otp"
  <2>1. requests.n = 0 /\ failures.n = 0 BY <1>3, Counters DEF OtpIInv
  <2>2. Auth!RequestsBounded BY <1>1, <2>1, Cardinalities DEF Auth!RequestsBounded
  <2>3. Auth!CountersExpire BY <2>1 DEF Auth!CountersExpire
  <2> QED BY <2>2, <2>3
<1> QED BY <1>2, <1>3

-----------------------------------------------------------------------------
(* The limiter of a window (RateLimiters).                                 *)

LimiterVars == <<current, expires, limiterServed>>

LimiterHolds ==
    /\ DOMAIN call = Procs
    /\ calm # "faulty" =>
         /\ limiterServed = IF current < RateLimit THEN current ELSE RateLimit
         /\ current > 0 /\ ~expires => \E p \in Procs : call[p].pc = "expire"

LimiterIInv ==
    /\ current \in Nat /\ limiterServed \in Nat /\ expires \in BOOLEAN
    /\ IF subject = "limiter" THEN LimiterHolds ELSE current = 0 /\ limiterServed = 0

LEMMA LimiterSteps ==
    ASSUME Unbounded
    PROVE  /\ subject' = subject
           /\ subject # "limiter" => UNCHANGED LimiterVars
           /\ subject = "limiter" =>
                \/ Called /\ \E p \in Procs : Limiters!LimiterWork(p)
                \/ UNCHANGED calm /\ Limiters!WindowEnds
                \/ calm' = "faulty" /\ Limiters!LimiterFail
BY DEF Unbounded, Calls, World, Faults, Steps, Frame, LimiterVars

LEMMA LimiterStep ==
    ASSUME LimiterIInv, Unbounded
    PROVE  LimiterIInv'
<1> USE LimitsAre DEF Limiters!Goto, Limiters!Return, Limiters!Idle, Limiters!At
<1>1. CASE subject # "limiter"
  <2>1. subject' = subject /\ UNCHANGED LimiterVars BY <1>1, LimiterSteps
  <2> QED BY <1>1, <2>1 DEF LimiterIInv, LimiterVars
<1>2. CASE subject = "limiter"
  <2>1. /\ subject' = "limiter" /\ RateLimit \in Nat
        /\ current \in Nat /\ limiterServed \in Nat /\ expires \in BOOLEAN /\ LimiterHolds
      BY <1>2, LimiterSteps DEF LimiterIInv
  <2>2. ASSUME NEW p \in Procs, Called, Limiters!Incr(p) PROVE LimiterIInv'
    <3>1. /\ current' = current + 1 /\ expires' = expires
          /\ limiterServed' = IF current < RateLimit THEN limiterServed + 1 ELSE limiterServed
          /\ DOMAIN call' = Procs
          /\ current = 0 => call'[p].pc = "expire"
          /\ current # 0 => call' = call
        BY <2>1, <2>2 DEF Limiters!Incr, LimiterHolds
    <3>2. calm' # "faulty" => calm # "faulty" BY <2>2, CalledKeepsFaults
    <3>3. current' \in Nat /\ limiterServed' \in Nat BY <2>1, <3>1
    <3>4. calm' # "faulty" => limiterServed' = IF current' < RateLimit THEN current' ELSE RateLimit
        BY <2>1, <3>1, <3>2 DEF LimiterHolds
    <3>5. calm' # "faulty" /\ current' > 0 /\ ~expires' => \E q \in Procs : call'[q].pc = "expire"
        BY <2>1, <3>1, <3>2 DEF LimiterHolds
    <3> QED BY <2>1, <3>1, <3>3, <3>4, <3>5 DEF LimiterIInv, LimiterHolds
  <2>3. ASSUME NEW p \in Procs, Called, Limiters!Expire(p) PROVE LimiterIInv'
    <3>1. /\ current' = current /\ limiterServed' = limiterServed
          /\ DOMAIN call' = Procs
          /\ expires' <=> current > 0
        BY <2>1, <2>3 DEF Limiters!Expire, LimiterHolds
    <3>3. expires' \in BOOLEAN
      <4>1. expires' = (current > 0) BY <2>3 DEF Limiters!Expire
      <4>2. CASE current > 0 BY <4>1, <4>2
      <4>3. CASE ~(current > 0) BY <4>1, <4>3
      <4> QED BY <4>2, <4>3
    <3>2. calm' # "faulty" => calm # "faulty" BY <2>3, CalledKeepsFaults
    <3> QED BY <2>1, <3>1, <3>2, <3>3 DEF LimiterIInv, LimiterHolds
  <2>4. CASE Limiters!WindowEnds
    <3>1. /\ current' = 0 /\ limiterServed' = 0 /\ expires' = FALSE /\ call' = call
        BY <2>4 DEF Limiters!WindowEnds
    <3>2. expires' \in BOOLEAN BY <3>1
    <3> QED BY <2>1, <3>1, <3>2 DEF LimiterIInv, LimiterHolds
  <2>5. CASE calm' = "faulty" /\ Limiters!LimiterFail
      BY <2>1, <2>5 DEF Limiters!LimiterFail, Limiters!IncrError, Limiters!Stop, LimiterIInv, LimiterHolds
  <2> QED BY <1>2, <2>2, <2>3, <2>4, <2>5, LimiterSteps DEF Limiters!LimiterWork
<1> QED BY <1>1, <1>2

LEMMA LimiterSound ==
    ASSUME LimiterIInv
    PROVE  /\ calm # "faulty" => Limiters!ServedWithinLimit
           /\ Quiet => Limiters!WindowsEnd
<1>1. RateLimit \in Nat BY LimitsAre
<1>2. calm # "faulty" => limiterServed <= RateLimit BY <1>1 DEF LimiterIInv, LimiterHolds
<1>3. ASSUME Quiet PROVE current > 0 => expires
  <2>1. \A p \in Procs : call[p].pc = "idle" BY <1>3 DEF Quiet, Busy, Idle
  <2> QED BY <1>3, <2>1 DEF LimiterIInv, LimiterHolds, Quiet
<1> QED BY <1>2, <1>3 DEF Limiters!ServedWithinLimit, Limiters!WindowsEnd
-----------------------------------------------------------------------------
(* The limiter of a window that slides (RateLimiters).                     *)

WindowVars == <<windowNow, seconds, windowAsked, windowRefused>>

\* The seconds of the window that ends with second t.
Span(t) == (t - SlidingWindow + 1)..t

WindowTyped ==
    /\ DOMAIN call = Procs
    /\ windowNow \in 0..SlidingMaxTime
    /\ seconds \subseteq windowAsked /\ windowAsked \subseteq 0..windowNow
    /\ windowRefused \subseteq 0..windowNow
    /\ \A p \in Procs : call[p] \in {Idle} \cup [pc : {"add", "card"}, now : windowAsked]

\* For one that asks, the members of the set are of its window.
WindowHolds ==
    /\ WindowTyped
    /\ Serial =>
         /\ One
         /\ \A p \in Procs : call[p] # Idle => seconds \subseteq Span(call[p].now)
         /\ \A t \in windowRefused : Cardinality(windowAsked \cap Span(t)) > RateLimit

WindowIInv ==
    IF subject = "window" THEN WindowHolds
    ELSE windowNow = SlidingWindow /\ seconds = {} /\ windowAsked = {} /\ windowRefused = {}

LEMMA WindowSteps ==
    ASSUME Unbounded
    PROVE  /\ subject' = subject
           /\ subject # "window" => UNCHANGED WindowVars
           /\ subject = "window" =>
                \/ Called /\ \E p \in Procs : Limiters!SlidingWork(p)
                \/ UNCHANGED calm /\ Limiters!SlidingTick
                \/ calm' = "faulty" /\ Limiters!SlidingFail
BY DEF Unbounded, Calls, World, Faults, Steps, Frame, WindowVars

\* Fewer seconds have no more members.
LEMMA FewerSeconds ==
    ASSUME NEW m \in Nat, NEW S, NEW T, T \subseteq 0..m, S \subseteq T
    PROVE  /\ Cardinality(S) \in Nat /\ Cardinality(T) \in Nat
           /\ Cardinality(S) <= Cardinality(T)
<1>1. IsFiniteSet(0..m) BY FS_Interval
<1>2. IsFiniteSet(T) BY <1>1, FS_Subset
<1> QED BY <1>2, FS_Subset, FS_CardinalityType

\* A call of a goroutine leaves sets and seconds of their types.
LEMMA WindowCalls ==
    ASSUME WindowTyped, NEW p \in Procs,
           \/ Limiters!SlidingWork(p) \/ Limiters!CommandError(p)
           \/ Limiters!Stop(p) /\ UNCHANGED WindowVars
    PROVE  /\ WindowTyped'
           /\ windowNow' = windowNow /\ windowAsked \subseteq windowAsked'
           /\ \A q \in Procs \ {p} : call'[q] = call[q]
<1> USE DEF Limiters!Goto, Limiters!Return, Limiters!Idle, Limiters!At, Idle
<1>1. /\ DOMAIN call = Procs /\ windowNow \in 0..SlidingMaxTime /\ windowNow \in Nat
      /\ seconds \subseteq windowAsked /\ windowAsked \subseteq 0..windowNow
      /\ windowRefused \subseteq 0..windowNow
      /\ \A q \in Procs : call[q] \in {Idle} \cup [pc : {"add", "card"}, now : windowAsked]
    BY LimitsAre DEF WindowTyped
<1>2. ASSUME NEW c, call' = [call EXCEPT ![p] = c],
             c \in {Idle} \cup [pc : {"add", "card"}, now : windowAsked'],
             windowNow' = windowNow, windowAsked \subseteq windowAsked',
             windowAsked' \subseteq 0..windowNow, seconds' \subseteq windowAsked',
             windowRefused' \subseteq 0..windowNow
      PROVE  /\ WindowTyped' /\ windowAsked \subseteq windowAsked' /\ windowNow' = windowNow
             /\ \A q \in Procs \ {p} : call'[q] = call[q]
  <2>1. \A q \in Procs : call'[q] \in {Idle} \cup [pc : {"add", "card"}, now : windowAsked']
      BY <1>1, <1>2
  <2> QED BY <1>1, <1>2, <2>1 DEF WindowTyped
<1>3. windowAsked \cup {windowNow} \subseteq 0..windowNow BY <1>1
<1>4. CASE Limiters!RemoveOld(p)
  <2>1. /\ call' = [call EXCEPT ![p] = [pc |-> "add", now |-> windowNow]]
        /\ windowNow' = windowNow /\ windowRefused' = windowRefused /\ seconds' \subseteq seconds
        /\ windowAsked' = windowAsked \cup {windowNow}
      BY <1>4 DEF Limiters!RemoveOld
  <2>2. [pc |-> "add", now |-> windowNow] \in [pc : {"add", "card"}, now : windowAsked'] BY <2>1
  <2>3. windowAsked' \subseteq 0..windowNow /\ seconds' \subseteq windowAsked' BY <1>1, <1>3, <2>1
  <2> QED BY <1>1, <1>2, <2>1, <2>2, <2>3
<1>5. CASE At(p, "add") /\ (Limiters!Add(p) \/ Limiters!CommandError(p))
  <2>1. call[p] \in [pc : {"add", "card"}, now : windowAsked] BY <1>1, <1>5 DEF At
  <2>2. /\ call' = [call EXCEPT ![p] = [call[p] EXCEPT !.pc = "card"]]
        /\ windowNow' = windowNow /\ windowRefused' = windowRefused
        /\ windowAsked' = windowAsked
        /\ seconds' = seconds \/ seconds' = seconds \cup {call[p].now}
      BY <1>5, <2>1 DEF Limiters!Add, Limiters!CommandError, At
  <2>3. [call[p] EXCEPT !.pc = "card"] \in [pc : {"add", "card"}, now : windowAsked'] BY <2>1, <2>2
  <2>4. seconds' \subseteq windowAsked' BY <1>1, <2>1, <2>2
  <2> QED BY <1>1, <1>2, <2>2, <2>3, <2>4
<1>6. CASE Limiters!Card(p)
  <2>1. call[p] \in [pc : {"add", "card"}, now : windowAsked] BY <1>1, <1>6 DEF Limiters!Card
  <2>2. /\ call' = [call EXCEPT ![p] = Idle]
        /\ windowNow' = windowNow /\ seconds' = seconds /\ windowAsked' = windowAsked
        /\ windowRefused' = windowRefused \/ windowRefused' = windowRefused \cup {call[p].now}
      BY <1>6 DEF Limiters!Card
  <2>4. call[p].now \in 0..windowNow
    <3>1. call[p].now \in windowAsked BY <2>1
    <3> QED BY <1>1, <3>1
  <2>3. windowRefused' \subseteq 0..windowNow BY <1>1, <2>2, <2>4
  <2> QED BY <1>1, <1>2, <2>2, <2>3
<1>7. CASE call[p] = Idle /\ Limiters!CommandError(p)
  <2>1. /\ call' = [call EXCEPT ![p] = [pc |-> "add", now |-> windowNow]]
        /\ windowNow' = windowNow /\ windowRefused' = windowRefused /\ seconds' = seconds
        /\ windowAsked' = windowAsked \cup {windowNow}
      BY <1>7 DEF Limiters!CommandError
  <2>2. [pc |-> "add", now |-> windowNow] \in [pc : {"add", "card"}, now : windowAsked'] BY <2>1
  <2>3. windowAsked' \subseteq 0..windowNow /\ seconds' \subseteq windowAsked' BY <1>1, <1>3, <2>1
  <2> QED BY <1>1, <1>2, <2>1, <2>2, <2>3
<1>8. CASE At(p, "card") /\ Limiters!CommandError(p)
    BY <1>1, <1>2, <1>8 DEF Limiters!CommandError, At
<1>9. CASE Limiters!Stop(p) /\ UNCHANGED WindowVars
    BY <1>1, <1>2, <1>9 DEF Limiters!Stop, WindowVars
<1>10. Limiters!Add(p) => At(p, "add") BY DEF Limiters!Add, At
<1>11. Limiters!CommandError(p) => call[p] = Idle \/ At(p, "add") \/ At(p, "card")
    BY DEF Limiters!CommandError, At
<1> QED BY <1>4, <1>5, <1>6, <1>7, <1>8, <1>9, <1>10, <1>11 DEF Limiters!SlidingWork

LEMMA WindowTypes ==
    ASSUME WindowTyped,
           Limiters!SlidingTick \/ Limiters!SlidingFail \/ \E p \in Procs : Limiters!SlidingWork(p)
    PROVE  WindowTyped'
<1>1. CASE Limiters!SlidingTick
  <2>1. /\ call' = call /\ seconds' = seconds /\ windowAsked' = windowAsked
        /\ windowRefused' = windowRefused
        /\ windowNow' = windowNow + 1 /\ windowNow < SlidingMaxTime
      BY <1>1 DEF Limiters!SlidingTick
  <2>2. windowNow \in 0..SlidingMaxTime /\ SlidingMaxTime \in Nat BY LimitsAre DEF WindowTyped
  <2>3. windowNow' \in 0..SlidingMaxTime /\ 0..windowNow \subseteq 0..windowNow' BY <2>1, <2>2
  <2> QED BY <2>1, <2>3 DEF WindowTyped
<1> QED BY <1>1, WindowCalls DEF Limiters!SlidingFail, WindowVars

\* A command to Redis, of the only goroutine at work.
LEMMA WindowWork ==
    ASSUME WindowHolds, Called, Serial', NEW p \in Procs, Limiters!SlidingWork(p)
    PROVE  WindowHolds'
<1> USE DEF Limiters!Goto, Limiters!Return, Limiters!Idle, Limiters!At, Idle
<1>1. /\ Serial
      /\ windowNow \in Nat /\ windowNow' = windowNow /\ RateLimit \in Nat
      /\ SlidingWindow \in Nat \ {0}
      /\ DOMAIN call = Procs
      /\ seconds \subseteq windowAsked /\ windowAsked \subseteq 0..windowNow
      /\ call[p] \in {Idle} \cup [pc : {"add", "card"}, now : windowAsked]
      /\ \A q \in Procs \ {p} : call'[q] = call[q]
      /\ WindowTyped' /\ windowAsked \subseteq windowAsked'
      /\ windowAsked' \subseteq 0..windowNow /\ windowRefused' \subseteq 0..windowNow
    BY SerialStep, LimitsAre, WindowCalls DEF Serial, WindowHolds, WindowTyped
<1>9. call[p] # Idle \/ call'[p] # Idle
    BY <1>1 DEF Limiters!SlidingWork, Limiters!RemoveOld, Limiters!Add, Limiters!Card
<1>2. One' /\ \A q \in Procs \ {p} : call[q] = Idle /\ call'[q] = Idle
    BY <1>1, <1>9, SerialStep DEF One, Serial
<1>3. SUFFICES /\ call'[p] # Idle => seconds' \subseteq Span(call'[p].now)
               /\ \A t \in windowRefused' : Cardinality(windowAsked' \cap Span(t)) > RateLimit
    BY <1>1, <1>2 DEF WindowHolds, Span
<1>4. ASSUME NEW t \in windowRefused PROVE Cardinality(windowAsked' \cap Span(t)) > RateLimit
  <2>1. Cardinality(windowAsked \cap Span(t)) > RateLimit BY <1>1, <1>4 DEF WindowHolds
  <2>2. windowAsked \cap Span(t) \subseteq windowAsked' \cap Span(t) BY <1>1
  <2>3. windowAsked' \cap Span(t) \subseteq 0..windowNow BY <1>1
  <2> QED BY <1>1, <2>1, <2>2, <2>3, FewerSeconds
<1>5. CASE Limiters!RemoveOld(p)
  <2>1. /\ windowRefused' = windowRefused
        /\ seconds' = {s \in seconds : s > windowNow - SlidingWindow}
        /\ call'[p] = [pc |-> "add", now |-> windowNow]
      BY <1>1, <1>5 DEF Limiters!RemoveOld
  <2>2. ASSUME NEW s \in seconds, s > windowNow - SlidingWindow PROVE s \in Span(windowNow)
    <3>1. s \in 0..windowNow BY <1>1
    <3> QED BY <1>1, <2>2, <3>1 DEF Span
  <2> QED BY <1>4, <2>1, <2>2
<1>6. CASE Limiters!Add(p)
  <2>1. /\ call[p].pc = "add" /\ windowRefused' = windowRefused
        /\ seconds' = seconds \cup {call[p].now}
        /\ call'[p] = [pc |-> "card", now |-> call[p].now]
      BY <1>1, <1>6 DEF Limiters!Add
  <2>2. seconds \subseteq Span(call[p].now) /\ call[p].now \in windowAsked
      BY <1>1, <2>1 DEF WindowHolds
  <2>3. call[p].now \in Span(call[p].now)
    <3>1. call[p].now \in 0..windowNow BY <1>1, <2>2
    <3> DEFINE now == call[p].now
    <3>2. now \in Nat BY <1>1, <3>1
    <3> HIDE DEF now
    <3>3. now - SlidingWindow + 1 <= now BY <1>1, <3>2
    <3>4. now \in (now - SlidingWindow + 1)..now BY <1>1, <3>2, <3>3
    <3> QED BY <3>4 DEF Span, now
  <2> QED BY <1>4, <2>1, <2>2, <2>3
<1>7. CASE Limiters!Card(p)
  <2>1. /\ call[p].pc = "card" /\ call'[p] = Idle
        /\ windowRefused' = IF Cardinality(seconds) > RateLimit
                              THEN windowRefused \cup {call[p].now} ELSE windowRefused
      BY <1>1, <1>7, Cardinalities DEF Limiters!Card
  <2>2. seconds \subseteq Span(call[p].now) BY <1>1, <2>1 DEF WindowHolds
  <2>3. ASSUME Cardinality(seconds) > RateLimit
        PROVE  Cardinality(windowAsked' \cap Span(call[p].now)) > RateLimit
    <3>1. seconds \subseteq windowAsked' \cap Span(call[p].now) BY <1>1, <2>2
    <3>2. windowAsked' \cap Span(call[p].now) \subseteq 0..windowNow BY <1>1
    <3>3. /\ Cardinality(seconds) \in Nat
          /\ Cardinality(windowAsked' \cap Span(call[p].now)) \in Nat
          /\ Cardinality(seconds) <= Cardinality(windowAsked' \cap Span(call[p].now))
        BY <1>1, <3>1, <3>2, FewerSeconds
    <3> QED BY <1>1, <2>3, <3>3
  <2> QED BY <1>4, <2>1, <2>3
<1> QED BY <1>5, <1>6, <1>7 DEF Limiters!SlidingWork

LEMMA WindowStep ==
    ASSUME WindowIInv, Unbounded
    PROVE  WindowIInv'
<1>1. CASE subject # "window"
  <2>1. subject' = subject /\ UNCHANGED WindowVars BY <1>1, WindowSteps
  <2> QED BY <1>1, <2>1 DEF WindowIInv, WindowVars
<1>2. CASE subject = "window"
  <2>1. WindowHolds /\ subject' = "window" BY <1>2, WindowSteps DEF WindowIInv
  <2>2. WindowTyped' BY <1>2, <2>1, WindowSteps, WindowTypes DEF WindowHolds
  <2>3. CASE ~Serial' BY <2>1, <2>2, <2>3 DEF WindowIInv, WindowHolds
  <2>4. CASE Serial' /\ UNCHANGED calm /\ Limiters!SlidingTick
    <3>1. /\ Serial /\ call' = call /\ seconds' = seconds /\ windowAsked' = windowAsked
          /\ windowRefused' = windowRefused
        BY <2>4 DEF Limiters!SlidingTick, Serial
    <3>2. WindowHolds' BY <2>1, <2>2, <3>1 DEF WindowHolds, One, Span
    <3> QED BY <2>1, <3>2 DEF WindowIInv
  <2>5. CASE Serial' /\ Called /\ \E p \in Procs : Limiters!SlidingWork(p)
      BY <2>1, <2>5, WindowWork DEF WindowIInv
  <2> QED BY <1>2, <2>3, <2>4, <2>5, WindowSteps DEF Serial
<1> QED BY <1>1, <1>2

LEMMA WindowSound ==
    ASSUME WindowIInv, Serial
    PROVE  Limiters!RefusedExceeded
<1> SUFFICES ASSUME NEW t \in windowRefused
             PROVE  Cardinality(windowAsked \cap Span(t)) > RateLimit
    BY Cardinalities DEF Limiters!RefusedExceeded, Span
<1> QED BY DEF WindowIInv, WindowHolds
-----------------------------------------------------------------------------
(* The token bucket (RateLimiters).                                        *)

BucketVars == <<bucketNow, bucket, bucketServed>>

Tokens == [tokens : 0..Capacity, at : 0..BucketMaxTime]

\* Tokens refilled in so many seconds.
Refilled(time) == RefillRate * time

\* The tokens that were there at a second, and those taken by the requests
\* served up to then, are no more than there may be.
Funded(tokens, moment) ==
    \A t \in 0..moment :
        bucketServed[moment] - bucketServed[t - 1] + tokens <= Capacity + Refilled(moment - t)

\* No request was served after a second.
QuietAfter(moment) ==
    \A t \in -1..BucketMaxTime : t >= moment => bucketServed[t] = bucketServed[moment]

Budgeted ==
    \A t \in 0..bucketNow : \A u \in t..bucketNow :
        bucketServed[u] - bucketServed[t - 1] <= Capacity + Refilled(u - t)

BucketTyped ==
    /\ DOMAIN call = Procs
    /\ bucketNow \in 0..BucketMaxTime
    /\ bucketServed \in [-1..BucketMaxTime -> Nat]
    /\ bucket \in Tokens /\ bucket.at <= bucketNow
    /\ \A p \in Procs :
         /\ call[p] # Idle => call[p].pc = "set"
         /\ call[p].pc = "set" => call[p].bucket \in Tokens /\ call[p].bucket.at <= bucketNow

BucketHolds ==
    /\ BucketTyped
    /\ Serial =>
         /\ One
         /\ Budgeted
         /\ QuietAfter(bucket.at) /\ Funded(bucket.tokens, bucket.at)
         /\ \A p \in Procs : call[p].pc = "set" =>
              /\ QuietAfter(call[p].bucket.at)
              /\ Funded(call[p].bucket.tokens + 1, call[p].bucket.at)

BucketIInv ==
    IF subject = "bucket" THEN BucketHolds
    ELSE /\ bucketNow = 0 /\ bucketServed = [t \in -1..BucketMaxTime |-> 0]
         /\ bucket = Limiters!NoBucket

LEMMA BucketSteps ==
    ASSUME Unbounded
    PROVE  /\ subject' = subject
           /\ subject # "bucket" => UNCHANGED BucketVars
           /\ subject = "bucket" =>
                \/ Called /\ \E p \in Procs : Limiters!BucketWork(p)
                \/ UNCHANGED calm /\ Limiters!BucketTick
                \/ calm' = "faulty" /\ Limiters!BucketFail
BY DEF Unbounded, Calls, World, Faults, Steps, Frame, BucketVars

LEMMA RefilledIs ==
    ASSUME NEW a \in Int
    PROVE  Refilled(a) = RefillRate * a /\ a * RefillRate = Refilled(a)
BY LimitsAre DEF Refilled

LEMMA RefilledNat ==
    ASSUME NEW a \in Int
    PROVE  Refilled(a) \in Int /\ (a >= 0 => Refilled(a) >= 0) /\ Refilled(0) = 0
BY LimitsAre DEF Refilled

LEMMA RefilledAdds ==
    ASSUME NEW a \in Int, NEW b \in Int
    PROVE  Refilled(a + b) = Refilled(a) + Refilled(b)
<1>1. RefillRate \in Int BY LimitsAre
<1> QED BY <1>1 DEF Refilled

\* What is in a bucket when it is refilled.
LEMMA RefillIs ==
    ASSUME bucket \in Tokens, bucketNow \in 0..BucketMaxTime, bucket.at <= bucketNow
    PROVE  /\ Limiters!Refill(bucket) \in Nat
           /\ Limiters!Refill(bucket) <= Capacity
           /\ Limiters!Refill(bucket) <= bucket.tokens + Refilled(bucketNow - bucket.at)
<1>1. /\ Capacity \in Nat /\ BucketMaxTime \in Nat /\ bucket.tokens \in Nat
      /\ bucketNow - bucket.at \in Nat
    BY LimitsAre DEF Tokens
<1>2. (bucketNow - bucket.at) * RefillRate = Refilled(bucketNow - bucket.at) BY <1>1, RefilledIs
<1>3. Refilled(bucketNow - bucket.at) \in Nat BY <1>1, RefilledNat
<1> QED BY <1>1, <1>2, <1>3 DEF Limiters!Refill, Limiters!Least
\* The bucket is funded now if it was when it was last written.
LEMMA FundedNow ==
    ASSUME BucketTyped, QuietAfter(bucket.at), Funded(bucket.tokens, bucket.at)
    PROVE  QuietAfter(bucketNow) /\ Funded(Limiters!Refill(bucket), bucketNow)
<1> DEFINE s == bucket.at  n == bucketNow  refill == Limiters!Refill(bucket)
<1>1. /\ BucketMaxTime \in Nat /\ Capacity \in Nat
      /\ n \in 0..BucketMaxTime /\ s \in 0..n /\ bucket.tokens \in Nat
      /\ bucketServed \in [-1..BucketMaxTime -> Nat]
      /\ refill \in Nat /\ refill <= Capacity /\ refill <= bucket.tokens + Refilled(n - s)
    BY LimitsAre, RefillIs DEF BucketTyped, Tokens
<1>2. QuietAfter(n)
  <2>1. n \in -1..BucketMaxTime /\ n >= s
      BY <1>1
  <2>2. \A t \in -1..BucketMaxTime : t >= n => t >= s BY <1>1
  <2>3. \A t \in -1..BucketMaxTime : t >= s => bucketServed[t] = bucketServed[s] BY DEF QuietAfter
  <2> HIDE DEF n, s
  <2>4. \A t \in -1..BucketMaxTime : t >= n => bucketServed[t] = bucketServed[n]
      BY <2>1, <2>2, <2>3
  <2> QED BY <2>4 DEF QuietAfter, n
<1>3. ASSUME NEW t \in 0..n
      PROVE  bucketServed[n] - bucketServed[t - 1] + refill <= Capacity + Refilled(n - t)
  <2>1. bucketServed[n] = bucketServed[s] /\ bucketServed[n] \in Nat /\ bucketServed[t - 1] \in Nat
      BY <1>1 DEF QuietAfter
  <2>2. CASE t <= s
    <3>1. bucketServed[s] - bucketServed[t - 1] + bucket.tokens <= Capacity + Refilled(s - t)
        BY <1>1, <2>2 DEF Funded
    <3>2. n - s \in Int /\ s - t \in Int /\ (n - s) + (s - t) = n - t BY <1>1
    <3>3. /\ Refilled(n - s) \in Int /\ Refilled(s - t) \in Int
          /\ Refilled((n - s) + (s - t)) = Refilled(n - s) + Refilled(s - t)
        BY <3>2, RefilledNat, RefilledAdds
    <3>4. Refilled(n - t) = Refilled(n - s) + Refilled(s - t) BY <3>2, <3>3
    <3>5. bucketServed[s] \in Nat BY <1>1
    <3> HIDE DEF s, n, refill
    <3>6. /\ bucketServed[t - 1] \in Int /\ bucketServed[s] \in Int /\ bucket.tokens \in Int
          /\ Capacity \in Int /\ refill \in Int
          /\ refill <= bucket.tokens + Refilled(n - s)
        BY <1>1, <2>1, <3>5
    <3>7. bucketServed[s] - bucketServed[t - 1] + refill
            <= Capacity + (Refilled(n - s) + Refilled(s - t))
        BY <3>1, <3>3, <3>6
    <3> QED BY <2>1, <3>4, <3>7
  <2>3. CASE ~(t <= s)
    <3>1. bucketServed[t - 1] = bucketServed[s] BY <1>1, <2>3 DEF QuietAfter
    <3>2. n - t \in Int /\ n - t >= 0 BY <1>1
    <3>3. Refilled(n - t) \in Int /\ Refilled(n - t) >= 0 BY <3>2, RefilledNat
    <3> HIDE DEF s, n, refill
    <3> QED BY <1>1, <2>1, <3>1, <3>3
  <2> QED BY <2>2, <2>3
<1> QED BY <1>2, <1>3 DEF Funded

LEMMA BucketTypes ==
    ASSUME BucketTyped,
           Limiters!BucketTick \/ Limiters!BucketFail \/ \E p \in Procs : Limiters!BucketWork(p)
    PROVE  BucketTyped'
<1> USE LimitsAre
    DEF BucketTyped, Limiters!Goto, Limiters!Return, Limiters!Idle, Limiters!At, Idle
<1>1. CASE Limiters!BucketTick
  <2>1. /\ BucketMaxTime \in Nat /\ bucketNow \in Int /\ bucketNow' = bucketNow + 1
        /\ bucketNow' \in 0..BucketMaxTime
      BY <1>1 DEF Limiters!BucketTick
  <2>2. \A b \in Tokens : b.at \in Int
      BY LimitsAre DEF Tokens
  <2>3. \A b \in Int : b <= bucketNow => b <= bucketNow' BY <2>1
  <2>4. \A b \in Tokens : b.at <= bucketNow => b.at <= bucketNow' BY <2>2, <2>3
  <2>5. call' = call /\ bucket' = bucket /\ bucketServed' = bucketServed
      BY <1>1 DEF Limiters!BucketTick
  <2> QED BY <2>1, <2>4, <2>5
<1>2. ASSUME NEW moment, Limiters!Serve(moment) PROVE bucketServed' \in [-1..BucketMaxTime -> Nat]
    BY <1>2 DEF Limiters!Serve
<1>3. ASSUME NEW p \in Procs,
             \/ Limiters!BucketWork(p) \/ Limiters!SetError(p) \/ Limiters!GetError(p)
      PROVE  /\ DOMAIN call' = Procs
             /\ bucketNow' = bucketNow
             /\ bucketServed' \in [-1..BucketMaxTime -> Nat]
             /\ bucket' \in Tokens /\ bucket'.at <= bucketNow
             /\ \A q \in Procs :
                  /\ call'[q] # Idle => call'[q].pc = "set"
                  /\ call'[q].pc = "set" =>
                       call'[q].bucket \in Tokens /\ call'[q].bucket.at <= bucketNow
  <2>1. CASE Limiters!Get(p)
    <3>1. CASE Limiters!Refill(bucket) > 0
      <4> DEFINE c == [tokens |-> Limiters!Refill(bucket) - 1, at |-> bucketNow]
      <4>1. c \in Tokens /\ c.at <= bucketNow
          BY <3>1, RefillIs DEF Tokens
      <4>2. call'[p] = [pc |-> "set", bucket |-> c] /\ call'[p].bucket = c
          BY <2>1, <3>1 DEF Limiters!Get
      <4>3. /\ call' = [call EXCEPT ![p] = [pc |-> "set", bucket |-> c]]
            /\ bucketNow' = bucketNow /\ bucketServed' = bucketServed /\ bucket' = bucket
          BY <2>1, <3>1 DEF Limiters!Get
      <4> HIDE DEF c
      <4> QED BY <4>1, <4>2, <4>3
    <3>2. CASE ~(Limiters!Refill(bucket) > 0) BY <2>1, <3>2 DEF Limiters!Get
    <3> QED BY <3>1, <3>2
  <2>2. CASE Limiters!Set(p) BY <1>2, <2>2 DEF Limiters!Set
  <2>3. CASE Limiters!SetError(p) BY <1>2, <2>3 DEF Limiters!SetError
  <2>4. CASE Limiters!GetError(p) BY <1>2, <2>4 DEF Limiters!GetError
  <2> QED BY <1>3, <2>1, <2>2, <2>3, <2>4 DEF Limiters!BucketWork
<1>4. CASE Limiters!BucketFail BY <1>3, <1>4 DEF Limiters!BucketFail
<1>5. CASE \E p \in Procs : Limiters!BucketWork(p) BY <1>3, <1>5
<1> QED BY <1>1, <1>4, <1>5
\* Time passes, and nothing is served meanwhile.
LEMMA BucketTicks ==
    ASSUME BucketHolds, Serial, Serial', Limiters!BucketTick
    PROVE  BucketHolds'
<1>1. /\ BucketMaxTime \in Nat /\ Capacity \in Nat
      /\ bucketNow \in 0..BucketMaxTime /\ bucketNow' = bucketNow + 1
      /\ bucketNow + 1 \in 0..BucketMaxTime
      /\ call' = call /\ bucket' = bucket /\ bucketServed' = bucketServed
      /\ bucketServed \in [-1..BucketMaxTime -> Nat]
      /\ bucket.at \in 0..bucketNow /\ QuietAfter(bucket.at) /\ Budgeted
    BY LimitsAre DEF Limiters!BucketTick, BucketHolds, BucketTyped, Tokens
<1>2. ASSUME NEW t \in 0..bucketNow', NEW u \in t..bucketNow'
      PROVE  bucketServed[u] - bucketServed[t - 1] <= Capacity + Refilled(u - t)
  <2>1. CASE u <= bucketNow BY <1>1, <2>1 DEF Budgeted
  <2>2. CASE u = bucketNow + 1
    <3>1. bucketServed[u] = bucketServed[bucketNow] BY <1>1, <2>2 DEF QuietAfter
    <3>2. CASE t <= bucketNow
      <4>1. bucketServed[bucketNow] - bucketServed[t - 1] <= Capacity + Refilled(bucketNow - t)
          BY <1>1, <3>2 DEF Budgeted
      <4>2. /\ Refilled(bucketNow - t) \in Int /\ Refilled(1) \in Int /\ Refilled(1) >= 0
            /\ Refilled((bucketNow - t) + 1) = Refilled(bucketNow - t) + Refilled(1)
        <5>1. bucketNow - t \in Int /\ 1 \in Int BY <1>1
        <5>2. Refilled((bucketNow - t) + 1) = Refilled(bucketNow - t) + Refilled(1)
            BY <5>1, RefilledAdds
        <5>3. Refilled(1) \in Int /\ (1 >= 0 => Refilled(1) >= 0) BY RefilledNat
        <5>4. Refilled(bucketNow - t) \in Int BY <5>1, RefilledNat
        <5> QED BY <5>2, <5>3, <5>4
      <4>3. (bucketNow - t) + 1 = u - t BY <1>1, <2>2
      <4>4. bucketServed[bucketNow] \in Nat /\ bucketServed[t - 1] \in Nat BY <1>1, <3>2
      <4>5. Refilled(u - t) = Refilled(bucketNow - t) + Refilled(1) BY <4>2, <4>3
      <4>6. PICK a \in Int, b \in Int, v \in Nat, w \in Nat :
                /\ a = Refilled(bucketNow - t) /\ b = Refilled(1)
                /\ v = bucketServed[bucketNow] /\ w = bucketServed[t - 1]
          BY <4>2, <4>4
      <4>7. v - w <= Capacity + a /\ b >= 0 BY <4>1, <4>2, <4>6
      <4>8. Capacity \in Int BY LimitsAre
      <4>9. v - w <= Capacity + (a + b) BY <4>6, <4>7, <4>8
      <4> QED BY <3>1, <4>5, <4>6, <4>9
    <3>3. CASE ~(t <= bucketNow)
      <4>1. t = u /\ t - 1 = bucketNow /\ u - t = 0 BY <1>1, <2>2, <3>3
      <4>2. Refilled(u - t) = 0 BY <4>1, RefilledNat
      <4>3. bucketServed[bucketNow] \in Nat BY <1>1
      <4> QED BY <1>1, <3>1, <4>1, <4>2, <4>3
    <3> QED BY <3>2, <3>3
  <2> QED BY <1>1, <2>1, <2>2
<1>3. Budgeted' BY <1>1, <1>2 DEF Budgeted
<1>4. /\ QuietAfter(bucket.at)' /\ Funded(bucket.tokens, bucket.at)'
      /\ \A p \in Procs : call'[p].pc = "set" =>
           /\ QuietAfter(call[p].bucket.at)'
           /\ Funded(call[p].bucket.tokens + 1, call[p].bucket.at)'
    BY <1>1 DEF BucketHolds, QuietAfter, Funded
<1>5. One' BY <1>1 DEF BucketHolds, One
<1> QED BY <1>3, <1>4, <1>5, BucketTypes DEF BucketHolds

\* A token is taken, and the request served.
LEMMA BucketSet ==
    ASSUME BucketTyped, NEW c \in Tokens, c.at <= bucketNow, Budgeted, QuietAfter(c.at),
           Funded(c.tokens + 1, c.at), Limiters!Serve(c.at), bucketNow' = bucketNow
    PROVE  Budgeted' /\ QuietAfter(c.at)' /\ Funded(c.tokens, c.at)'
<1> DEFINE n == c.at
<1>1. /\ BucketMaxTime \in Nat /\ Capacity \in Nat /\ c.tokens \in Nat
      /\ bucketNow \in 0..BucketMaxTime /\ n \in 0..bucketNow
      /\ bucketServed \in [-1..BucketMaxTime -> Nat]
      /\ \A t \in -1..BucketMaxTime :
           bucketServed'[t] = IF t < n THEN bucketServed[t] ELSE bucketServed[t] + 1
    BY LimitsAre DEF BucketTyped, Tokens, Limiters!Serve
<1>2. \A t \in -1..BucketMaxTime : bucketServed[t] \in Nat BY <1>1
<1>3. \A t \in -1..BucketMaxTime : t >= n => bucketServed'[t] = bucketServed'[n]
  <2>1. n \in -1..BucketMaxTime /\ ~(n < n) BY <1>1
  <2>2. ASSUME NEW t \in -1..BucketMaxTime, t >= n PROVE bucketServed'[t] = bucketServed'[n]
    <3>1. ~(t < n) BY <1>1, <2>2
    <3>2. bucketServed[t] = bucketServed[n] BY <2>2 DEF QuietAfter
    <3> HIDE DEF n
    <3> QED BY <1>1, <2>1, <3>1, <3>2
  <2> QED BY <2>2
<1>4. ASSUME NEW t \in 0..n
      PROVE  bucketServed'[n] - bucketServed'[t - 1] + c.tokens <= Capacity + Refilled(n - t)
  <2>1. bucketServed[n] - bucketServed[t - 1] + (c.tokens + 1) <= Capacity + Refilled(n - t)
      BY DEF Funded
  <2>2. /\ bucketServed'[n] = bucketServed[n] + 1 /\ bucketServed'[t - 1] = bucketServed[t - 1]
        /\ bucketServed[n] \in Nat /\ bucketServed[t - 1] \in Nat
    <3>1. /\ n \in -1..BucketMaxTime /\ ~(n < n)
          /\ t - 1 \in -1..BucketMaxTime /\ t - 1 < n
        BY <1>1
    <3> HIDE DEF n
    <3> QED BY <1>1, <1>2, <3>1
  <2>3. Refilled(n - t) \in Int
    <3>1. n - t \in Int BY <1>1
    <3> QED BY <3>1, RefilledNat
  <2> HIDE DEF n
  <2>4. c.tokens \in Int /\ Capacity \in Int BY <1>1
  <2> QED BY <2>1, <2>2, <2>3, <2>4
<1>5. ASSUME NEW t \in 0..bucketNow, NEW u \in t..bucketNow
      PROVE  bucketServed'[u] - bucketServed'[t - 1] <= Capacity + Refilled(u - t)
  <2>1. /\ bucketServed[u] - bucketServed[t - 1] <= Capacity + Refilled(u - t)
        /\ bucketServed[u] \in Nat /\ bucketServed[t - 1] \in Nat
      BY <1>1, <1>2 DEF Budgeted
  <2> HIDE DEF n
  <2>2. u \in -1..BucketMaxTime /\ t - 1 \in -1..BucketMaxTime /\ t - 1 \in Int /\ n \in Int
      BY <1>1
  <2>3. CASE u < n \/ t - 1 >= n
    <3>1. \/ bucketServed'[u] = bucketServed[u] /\ bucketServed'[t - 1] = bucketServed[t - 1]
          \/ /\ bucketServed'[u] = bucketServed[u] + 1
             /\ bucketServed'[t - 1] = bucketServed[t - 1] + 1
        BY <1>1, <2>3, <2>2
    <3>2. bucketServed'[u] - bucketServed'[t - 1] = bucketServed[u] - bucketServed[t - 1]
        BY <2>1, <3>1
    <3> QED BY <2>1, <3>2
  <2>4. CASE u >= n /\ t - 1 < n
    <3>1. /\ bucketServed'[u] = bucketServed'[n] /\ bucketServed'[n] \in Nat
          /\ bucketServed'[t - 1] \in Nat
      <4>1. bucketServed'[u] = bucketServed'[n] BY <1>3, <2>4, <2>2
      <4>2. n \in -1..BucketMaxTime BY <1>1
      <4>3. \A v \in -1..BucketMaxTime : bucketServed'[v] \in Nat BY <1>1, <1>2
      <4> QED BY <2>2, <4>1, <4>2, <4>3
    <3>2. bucketServed'[n] - bucketServed'[t - 1] + c.tokens <= Capacity + Refilled(n - t)
      <4>1. t \in 0..n BY <1>1, <2>4
      <4> QED BY <1>4, <4>1
    <3>3. /\ n - t \in Int /\ u - n \in Int /\ u - n >= 0 /\ (n - t) + (u - n) = u - t
        BY <1>1, <2>4
    <3>4. /\ Refilled(n - t) \in Int /\ Refilled(u - n) \in Int /\ Refilled(u - n) >= 0
          /\ Refilled((n - t) + (u - n)) = Refilled(n - t) + Refilled(u - n)
        BY <3>3, RefilledNat, RefilledAdds
    <3>5. Refilled(u - t) = Refilled(n - t) + Refilled(u - n) BY <3>3, <3>4
    <3>6. c.tokens \in Nat /\ Capacity \in Int BY <1>1
    <3>7. bucketServed'[n] - bucketServed'[t - 1] <= Capacity + Refilled(n - t)
        BY <3>1, <3>2, <3>4, <3>6
    <3>8. bucketServed'[n] - bucketServed'[t - 1] <= Capacity + (Refilled(n - t) + Refilled(u - n))
        BY <3>1, <3>4, <3>6, <3>7
    <3> QED BY <3>1, <3>5, <3>8
  <2> QED BY <1>1, <2>3, <2>4
<1> QED BY <1>3, <1>4, <1>5 DEF Budgeted, Funded, QuietAfter

LEMMA BucketWork ==
    ASSUME BucketHolds, Called, Serial', NEW p \in Procs, Limiters!BucketWork(p)
    PROVE  BucketHolds'
<1> USE DEF Limiters!Goto, Limiters!Return, Limiters!Idle, Limiters!At, Idle
<1>1. /\ Serial /\ Budgeted /\ QuietAfter(bucket.at) /\ Funded(bucket.tokens, bucket.at)
      /\ DOMAIN call = Procs
    BY SerialStep DEF Serial, BucketHolds, BucketTyped
<1>2. One' BY SerialStep DEF One, Serial
<1>3. CASE Limiters!Get(p)
  <2>1. bucketNow' = bucketNow /\ bucket' = bucket /\ bucketServed' = bucketServed
      BY <1>3 DEF Limiters!Get
  <2>2. /\ Budgeted' /\ QuietAfter(bucket.at)' /\ Funded(bucket.tokens, bucket.at)'
      BY <1>1, <2>1 DEF Budgeted, QuietAfter, Funded
  <2>3. ASSUME NEW q \in Procs, call'[q].pc = "set"
        PROVE  /\ QuietAfter(call[q].bucket.at)'
               /\ Funded(call[q].bucket.tokens + 1, call[q].bucket.at)'
    <3>1. CASE q = p
      <4>1. /\ call[p] = Idle
            /\ call'[p].bucket.at = bucketNow
            /\ call'[p].bucket.tokens = Limiters!Refill(bucket) - 1
          BY <1>1, <1>3, <2>3, <3>1 DEF Limiters!Get
      <4>2. Limiters!Refill(bucket) \in Nat BY RefillIs DEF BucketHolds, BucketTyped
      <4>3. call'[p].bucket.tokens + 1 = Limiters!Refill(bucket) BY <4>1, <4>2
      <4> QED BY <1>1, <2>1, <3>1, <4>1, <4>3, FundedNow DEF BucketHolds, QuietAfter, Funded
    <3>2. CASE q # p
      <4>1. call'[q] = call[q] BY <1>1, <1>3, <3>2 DEF Limiters!Get
      <4> QED BY <1>1, <2>1, <2>3, <4>1 DEF BucketHolds, QuietAfter, Funded
    <3> QED BY <3>1, <3>2
  <2> QED BY <1>2, <1>3, <2>2, <2>3, BucketTypes DEF BucketHolds, Limiters!BucketWork
<1>4. CASE Limiters!Set(p)
  <2>1. /\ call[p].pc = "set" /\ bucketNow' = bucketNow /\ bucket' = call[p].bucket
        /\ Limiters!Serve(call[p].bucket.at)
        /\ call[p].bucket \in Tokens /\ call[p].bucket.at <= bucketNow
        /\ QuietAfter(call[p].bucket.at)
        /\ Funded(call[p].bucket.tokens + 1, call[p].bucket.at)
      BY <1>1, <1>4 DEF Limiters!Set, BucketHolds, BucketTyped
  <2>2. /\ Budgeted' /\ QuietAfter(bucket.at)' /\ Funded(bucket.tokens, bucket.at)'
      BY <1>1, <2>1, BucketSet DEF BucketHolds, QuietAfter, Funded
  <2>3. \A q \in Procs : call'[q] = Idle
    <3>1. call[p] # Idle /\ call'[p] = Idle /\ \A q \in Procs \ {p} : call'[q] = call[q]
        BY <1>1, <1>4, <2>1 DEF Limiters!Set
    <3> QED BY <3>1, SerialStep DEF Serial
  <2> QED BY <1>2, <1>4, <2>2, <2>3, BucketTypes DEF BucketHolds, Limiters!BucketWork
<1> QED BY <1>3, <1>4 DEF Limiters!BucketWork

LEMMA BucketStep ==
    ASSUME BucketIInv, Unbounded
    PROVE  BucketIInv'
<1>1. CASE subject # "bucket"
  <2>1. subject' = subject /\ UNCHANGED BucketVars BY <1>1, BucketSteps
  <2> QED BY <1>1, <2>1 DEF BucketIInv, BucketVars
<1>2. CASE subject = "bucket"
  <2>1. BucketHolds /\ subject' = "bucket" BY <1>2, BucketSteps DEF BucketIInv
  <2>2. CASE Serial'
    <3>1. CASE UNCHANGED calm /\ Limiters!BucketTick
        BY <2>1, <2>2, <3>1, BucketTicks DEF BucketIInv, Serial
    <3>2. CASE Called /\ \E p \in Procs : Limiters!BucketWork(p)
        BY <2>1, <2>2, <3>2, BucketWork DEF BucketIInv
    <3> QED BY <1>2, <2>2, <3>1, <3>2, BucketSteps DEF Serial
  <2>3. CASE ~Serial'
    <3>1. Limiters!BucketTick \/ Limiters!BucketFail \/ \E p \in Procs : Limiters!BucketWork(p)
        BY <1>2, BucketSteps
    <3>2. BucketHolds' BY <2>1, <2>3, <3>1, BucketTypes DEF BucketHolds
    <3> QED BY <2>1, <3>2 DEF BucketIInv
  <2> QED BY <2>2, <2>3
<1> QED BY <1>1, <1>2

LEMMA BucketSound ==
    ASSUME BucketIInv, Serial
    PROVE  Limiters!ServedWithinBudget
<1>1. SUFFICES Budgeted BY DEF Limiters!ServedWithinBudget, Budgeted, Refilled
<1>2. CASE subject = "bucket" BY <1>2 DEF BucketIInv, BucketHolds
<1>3. CASE subject # "bucket"
  <2>1. /\ BucketMaxTime \in Nat /\ Capacity \in Nat /\ Refilled(0) = 0
        /\ bucketNow = 0 /\ bucketServed[0] = 0 /\ bucketServed[-1] = 0
    <3>1. BucketMaxTime \in Nat /\ Capacity \in Nat BY LimitsAre
    <3>2. 0 \in -1..BucketMaxTime /\ -1 \in -1..BucketMaxTime BY <3>1
    <3>3. Refilled(0) = 0 BY RefilledNat
    <3> QED BY <1>3, <3>1, <3>2, <3>3 DEF BucketIInv
  <2>2. SUFFICES ASSUME NEW t \in 0..bucketNow, NEW u \in t..bucketNow
                 PROVE  bucketServed[u] - bucketServed[t - 1] <= Capacity + Refilled(u - t)
      BY DEF Budgeted
  <2>3. t = 0 /\ u = 0 /\ t - 1 = -1 /\ u - t = 0 BY <2>1
  <2> QED BY <2>1, <2>3
<1> QED BY <1>2, <1>3
-----------------------------------------------------------------------------
(* Reviews (AbuseDetection).                                               *)

ReviewVars == <<today, fiveStars>>

Review == [pc : {"reviewed", "limit", "burst", "save"}, order : Abuse!Orders, five : BOOLEAN]

\* Reviews of a user that have passed the limit and are not saved yet.
Passing(u) == {p \in Procs : call[p].pc \in {"burst", "save"} /\ call[p].order[1] = u}

ReviewTyped ==
    /\ DOMAIN call = Procs
    /\ today \in [Reviewers -> Nat] /\ fiveStars \in Nat
    /\ \A p \in Procs : call[p] \in {Idle} \cup Review

DayBounded(u) == today[u] + Cardinality(Passing(u)) < DailyReviews + Cardinality(Procs)

ReviewHolds ==
    /\ ReviewTyped
    /\ calm # "faulty" => \A u \in Reviewers : DayBounded(u)

ReviewIInv ==
    IF subject = "review" THEN ReviewHolds
    ELSE today = [u \in Reviewers |-> 0] /\ fiveStars = 0

LEMMA ReviewSteps ==
    ASSUME Unbounded
    PROVE  /\ subject' = subject
           /\ subject # "review" => UNCHANGED ReviewVars
           /\ subject = "review" =>
                \/ Called /\ \E p \in Procs : Abuse!ReviewWork(p)
                \/ UNCHANGED calm /\ (Abuse!TimePasses \/ \E o \in Abuse!Orders : Abuse!Deliver(o))
                \/ calm' = "faulty" /\ Abuse!ReviewFail
BY DEF Unbounded, Calls, World, Faults, Steps, Frame, ReviewVars

LEMMA GoroutinesFinite ==
    /\ Cardinality(Procs) \in Nat
    /\ \A S : S \subseteq Procs => /\ IsFiniteSet(S) /\ Cardinality(S) \in Nat
                                 /\ Cardinality(S) <= Cardinality(Procs)
<1>1. IsFiniteSet(Procs) BY LimitsAre
<1> QED BY <1>1, FS_Subset, FS_CardinalityType

LEMMA FewerGoroutines ==
    ASSUME NEW S, NEW T, T \subseteq Procs, S \subseteq T
    PROVE  /\ Cardinality(S) \in Nat /\ Cardinality(T) \in Nat
           /\ Cardinality(S) <= Cardinality(T)
<1>1. IsFiniteSet(T) BY GoroutinesFinite
<1> QED BY <1>1, FS_Subset, FS_CardinalityType

LEMMA PassingSubsets == \A u : Passing(u) \subseteq Procs /\ Passing(u)' \subseteq Procs
BY DEF Passing

\* Every step leaves calls and counts of their types.
LEMMA ReviewTypes ==
    ASSUME ReviewTyped,
           \/ Abuse!TimePasses \/ Abuse!ReviewFail
           \/ \E o \in Abuse!Orders : Abuse!Deliver(o)
           \/ \E p \in Procs : Abuse!ReviewWork(p)
    PROVE  ReviewTyped'
<1> USE DEF Abuse!Goto, Abuse!Return, Abuse!Idle, Abuse!At, Idle, Abuse!Proceed, Abuse!store
<1>1. /\ DOMAIN call = Procs /\ today \in [Reviewers -> Nat] /\ fiveStars \in Nat
      /\ \A p \in Procs : call[p] \in {Idle} \cup Review
    BY DEF ReviewTyped
<1>2. CASE Abuse!TimePasses
  <2>1. call' = call /\ fiveStars' \in Nat /\ today' \in [Reviewers -> Nat]
    <3>1. CASE fiveStars > 0 /\ fiveStars' = fiveStars - 1 /\ UNCHANGED today
        BY <1>1, <1>2, <3>1 DEF Abuse!TimePasses
    <3>2. ASSUME NEW u \in Reviewers, today[u] > 0, today' = [today EXCEPT ![u] = today[u] - 1],
                 UNCHANGED fiveStars
          PROVE  fiveStars' \in Nat /\ today' \in [Reviewers -> Nat]
      <4>1. today[u] - 1 \in Nat BY <1>1, <3>2
      <4> QED BY <1>1, <3>2, <4>1
    <3> QED BY <1>2, <3>1, <3>2 DEF Abuse!TimePasses
  <2> QED BY <1>1, <2>1 DEF ReviewTyped, Review
<1>3. CASE \E o \in Abuse!Orders : Abuse!Deliver(o)
    BY <1>1, <1>3 DEF Abuse!Deliver, ReviewTyped, Review
<1>4. \A r \in Review : \A to \in {"limit", "burst", "save"} : [r EXCEPT !.pc = to] \in Review
    BY DEF Review
<1>5. ASSUME NEW p \in Procs, Abuse!ReadError(p) \/ (Abuse!Stop(p) /\ UNCHANGED Abuse!store)
      PROVE  ReviewTyped'
  <2>1. today' = today /\ fiveStars' = fiveStars
      BY <1>5 DEF Abuse!ReadError
  <2>2. \/ call' = [call EXCEPT ![p] = Idle]
        \/ /\ call[p] \in Review
           /\ \E to \in {"limit", "burst", "save"} :
                   call' = [call EXCEPT ![p] = [call[p] EXCEPT !.pc = to]]
      BY <1>1, <1>5 DEF Abuse!ReadError, Abuse!Stop
  <2>3. DOMAIN call' = Procs /\ \A q \in Procs : call'[q] \in {Idle} \cup Review
      BY <1>1, <1>4, <2>2
  <2> QED BY <1>1, <2>1, <2>3 DEF ReviewTyped, Review
<1>6. ASSUME NEW p \in Procs, Abuse!ReviewWork(p) PROVE ReviewTyped'
  <2>1. CASE Abuse!SaveReview(p)
    <3>1. call[p] \in Review BY <1>1, <2>1 DEF Abuse!SaveReview
    <3>2. call[p].order[1] \in Reviewers BY <3>1 DEF Review, Abuse!Orders
    <3>3. /\ today' = [today EXCEPT ![call[p].order[1]] = today[call[p].order[1]] + 1]
          /\ fiveStars' = fiveStars + 1 \/ fiveStars' = fiveStars
          /\ call' = [call EXCEPT ![p] = Idle]
        BY <2>1 DEF Abuse!SaveReview, Abuse!Customer
    <3>4. today' \in [Reviewers -> Nat] /\ fiveStars' \in Nat BY <1>1, <3>2, <3>3
    <3>5. DOMAIN call' = Procs /\ \A q \in Procs : call'[q] \in {Idle} \cup Review
        BY <1>1, <3>3
    <3> QED BY <3>4, <3>5 DEF ReviewTyped, Review
  <2>2. CASE ~Abuse!SaveReview(p)
    <3>1. today' = today /\ fiveStars' = fiveStars
        BY <1>6, <2>2 DEF Abuse!ReviewWork, Abuse!PostReview, Abuse!CheckReviewed,
             Abuse!CheckLimit, Abuse!CheckBurst
    <3>2. ASSUME NEW u \in Reviewers, NEW o \in Abuse!Orders, NEW five \in BOOLEAN,
                 Abuse!PostReview(p, u, o, five)
          PROVE  \E r \in Review : call' = [call EXCEPT ![p] = r]
      <4>1. [pc |-> "reviewed", order |-> o, five |-> five] \in Review BY DEF Review
      <4> QED BY <3>2, <4>1 DEF Abuse!PostReview
    <3>3. CASE Abuse!CheckReviewed(p) \/ Abuse!CheckLimit(p) \/ Abuse!CheckBurst(p)
      <4>1. call[p] \in Review
          BY <1>1, <3>3 DEF Abuse!CheckReviewed, Abuse!CheckLimit, Abuse!CheckBurst
      <4>2. \/ call' = [call EXCEPT ![p] = Idle]
            \/ \E to \in {"limit", "burst", "save"} :
                    call' = [call EXCEPT ![p] = [call[p] EXCEPT !.pc = to]]
          BY <3>3 DEF Abuse!CheckReviewed, Abuse!CheckLimit, Abuse!CheckBurst
      <4>3. DOMAIN call' = Procs /\ \A q \in Procs : call'[q] \in {Idle} \cup Review
          BY <1>1, <1>4, <4>1, <4>2
      <4> QED BY <1>1, <3>1, <4>3 DEF ReviewTyped, Review
    <3>4. ASSUME NEW r \in Review, call' = [call EXCEPT ![p] = r] PROVE ReviewTyped'
      <4>1. DOMAIN call' = Procs /\ \A q \in Procs : call'[q] \in {Idle} \cup Review
          BY <1>1, <3>4
      <4> QED BY <1>1, <3>1, <4>1 DEF ReviewTyped, Review
    <3> QED BY <1>6, <2>2, <3>2, <3>3, <3>4 DEF Abuse!ReviewWork
  <2> QED BY <2>1, <2>2
<1> QED BY <1>2, <1>3, <1>5, <1>6 DEF Abuse!ReviewFail
\* What a user may post no step but the check of the limit uses up.
LEMMA ReviewDay ==
    ASSUME ReviewTyped, NEW p \in Procs, Abuse!ReviewWork(p), NEW u \in Reviewers, DayBounded(u)
    PROVE  DayBounded(u)'
<1> USE DEF Abuse!Goto, Abuse!Return, Abuse!Idle, Abuse!At, Idle, Abuse!Proceed, Abuse!store
<1>1. /\ DOMAIN call = Procs /\ today \in [Reviewers -> Nat] /\ today[u] \in Nat
      /\ call[p] \in {Idle} \cup Review
      /\ DailyReviews \in Nat /\ Cardinality(Procs) \in Nat
      /\ Cardinality(Passing(u)) \in Nat /\ Cardinality(Passing(u)') \in Nat
      /\ Cardinality(Passing(u)') <= Cardinality(Procs)
      /\ IsFiniteSet(Passing(u))
    BY LimitsAre, GoroutinesFinite, PassingSubsets DEF ReviewTyped
<1>2. \A q \in Procs \ {p} : call'[q] = call[q]
    BY <1>1 DEF Abuse!ReviewWork, Abuse!PostReview, Abuse!CheckReviewed, Abuse!CheckLimit,
         Abuse!CheckBurst, Abuse!SaveReview
<1>3. ASSUME today'[u] = today[u], Passing(u)' \subseteq Passing(u) PROVE DayBounded(u)'
  <2>1. Cardinality(Passing(u)') <= Cardinality(Passing(u))
      BY <1>3, FewerGoroutines, PassingSubsets
  <2> QED BY <1>1, <1>3, <2>1 DEF DayBounded
<1>4. CASE Abuse!CheckLimit(p)
  <2>1. call[p] \in Review /\ today' = today
      BY <1>1, <1>4 DEF Abuse!CheckLimit
  <2>2. CASE call' = [call EXCEPT ![p] = Idle]
    <3>1. Passing(u)' \subseteq Passing(u) BY <1>1, <1>2, <2>2 DEF Passing
    <3> QED BY <1>3, <2>1, <3>1
  <2>3. CASE /\ today[call[p].order[1]] < DailyReviews
             /\ call' = [call EXCEPT ![p] = [call[p] EXCEPT !.pc = "burst"]]
    <3>1. call'[p].order = call[p].order BY <1>1, <2>1, <2>3 DEF Review
    <3>2. CASE call[p].order[1] = u BY <1>1, <2>1, <2>3, <3>2 DEF DayBounded
    <3>3. CASE call[p].order[1] # u
      <4>1. Passing(u)' \subseteq Passing(u) BY <1>1, <1>2, <3>1, <3>3 DEF Passing
      <4> QED BY <1>3, <2>1, <4>1
    <3> QED BY <3>2, <3>3
  <2> QED BY <1>4, <2>2, <2>3 DEF Abuse!CheckLimit, Abuse!Customer
<1>5. CASE Abuse!SaveReview(p)
  <2>1. /\ call[p] \in Review /\ call[p].pc = "save"
        /\ today' = [today EXCEPT ![call[p].order[1]] = today[call[p].order[1]] + 1]
        /\ call'[p] = Idle
      BY <1>1, <1>5 DEF Abuse!SaveReview, Abuse!Customer
  <2>2. Passing(u)' = Passing(u) \ {p} BY <1>1, <1>2, <2>1 DEF Passing
  <2>3. CASE call[p].order[1] = u
    <3>1. p \in Passing(u) BY <2>1, <2>3 DEF Passing
    <3>2. Cardinality(Passing(u)') = Cardinality(Passing(u)) - 1
        BY <1>1, <2>2, <3>1, FS_RemoveElement
    <3>3. today'[u] = today[u] + 1 BY <1>1, <2>1, <2>3
    <3> QED BY <1>1, <3>2, <3>3 DEF DayBounded
  <2>4. CASE call[p].order[1] # u BY <1>1, <1>3, <2>1, <2>2, <2>4
  <2> QED BY <2>3, <2>4
<1>6. CASE ~Abuse!CheckLimit(p) /\ ~Abuse!SaveReview(p)
  <2>1. today' = today
      BY <1>6 DEF Abuse!ReviewWork, Abuse!PostReview, Abuse!CheckReviewed, Abuse!CheckBurst
  <2>2. \/ call'[p].pc \notin {"burst", "save"}
        \/ call[p].pc = "burst" /\ call'[p].order = call[p].order
      BY <1>1, <1>6 DEF Abuse!ReviewWork, Abuse!PostReview, Abuse!CheckReviewed, Abuse!CheckBurst, Review
  <2>3. Passing(u)' \subseteq Passing(u) BY <1>2, <2>2 DEF Passing
  <2> QED BY <1>3, <2>1, <2>3
<1> QED BY <1>4, <1>5, <1>6

LEMMA ReviewWorld ==
    ASSUME ReviewHolds, calm # "faulty",
           Abuse!TimePasses \/ \E o \in Abuse!Orders : Abuse!Deliver(o)
    PROVE  \A u \in Reviewers : DayBounded(u)'
<1>1. /\ call' = call
      /\ today \in [Reviewers -> Nat]
      /\ \A u \in Reviewers : DayBounded(u)
    BY DEF Abuse!TimePasses, Abuse!Deliver, ReviewHolds, ReviewTyped
<1> SUFFICES ASSUME NEW u \in Reviewers PROVE DayBounded(u)' OBVIOUS
<1>2. today[u] \in Nat /\ today'[u] \in Int /\ today'[u] <= today[u]
    BY <1>1 DEF Abuse!TimePasses, Abuse!Deliver
<1>3. /\ Cardinality(Passing(u)) \in Nat /\ Cardinality(Procs) \in Nat /\ DailyReviews \in Nat
    BY LimitsAre, GoroutinesFinite, PassingSubsets
<1>4. Cardinality(Passing(u)') = Cardinality(Passing(u)) BY <1>1 DEF Passing
<1> QED BY <1>1, <1>2, <1>3, <1>4 DEF DayBounded

LEMMA ReviewStep ==
    ASSUME ReviewIInv, Unbounded
    PROVE  ReviewIInv'
<1>1. CASE subject # "review"
  <2>1. subject' = subject /\ today' = today /\ fiveStars' = fiveStars
      BY <1>1, ReviewSteps DEF ReviewVars
  <2> QED BY <1>1, <2>1 DEF ReviewIInv
<1>2. CASE subject = "review"
  <2>1. ReviewHolds /\ ReviewTyped /\ subject' = "review"
      BY <1>2, ReviewSteps DEF ReviewIInv, ReviewHolds
  <2>2. ReviewTyped' BY <1>2, <2>1, ReviewSteps, ReviewTypes
  <2>3. ASSUME calm' # "faulty" PROVE \A u \in Reviewers : DayBounded(u)'
    <3>1. CASE Called /\ \E p \in Procs : Abuse!ReviewWork(p)
      <4>1. \A u \in Reviewers : DayBounded(u)
          BY <2>1, <2>3, <3>1, CalledKeepsFaults DEF ReviewHolds
      <4> QED BY <2>1, <3>1, <4>1, ReviewDay
    <3>2. CASE UNCHANGED calm /\ (Abuse!TimePasses \/ \E o \in Abuse!Orders : Abuse!Deliver(o))
        BY <2>1, <2>3, <3>2, ReviewWorld
    <3> QED BY <1>2, <2>3, <3>1, <3>2, ReviewSteps
  <2> QED BY <2>1, <2>2, <2>3 DEF ReviewIInv, ReviewHolds
<1> QED BY <1>1, <1>2

LEMMA ReviewSound ==
    ASSUME ReviewIInv, calm # "faulty"
    PROVE  Abuse!ReviewsWithinLimit
<1>1. /\ Cardinality(Procs) \in Nat /\ DailyReviews \in Nat \ {0}
      /\ \A u : Cardinality(Passing(u)) \in Nat
    BY LimitsAre, GoroutinesFinite, PassingSubsets
<1>2. ASSUME NEW u \in Reviewers PROVE today[u] < DailyReviews + Cardinality(Procs)
  <2>1. CASE subject = "review"
      BY <1>1, <2>1 DEF ReviewIInv, ReviewHolds, ReviewTyped, DayBounded
  <2>2. CASE subject # "review" BY <1>1, <2>2 DEF ReviewIInv
  <2> QED BY <2>1, <2>2
<1> QED BY <1>2, Cardinalities DEF Abuse!ReviewsWithinLimit
-----------------------------------------------------------------------------
(* Notifications (NotificationOrchestration).                              *)

NotificationTyped ==
    /\ DOMAIN call = Procs
    /\ count \in Nat
    /\ \A p \in Procs :
         /\ call[p].pc = "count" => call[p].seen \in Nat
         /\ call[p].pc = "send" => call[p] = [pc |-> "send", channels |-> call[p].channels]

NotificationIInv == IF subject = "notification" THEN NotificationTyped ELSE count = 0

LEMMA NotificationSteps ==
    ASSUME Unbounded
    PROVE  /\ subject' = subject
           /\ subject # "notification" => count' = count
           /\ subject = "notification" =>
                \/ Called /\ \/ \E p \in Procs : Orchestration!Work(p)
                             \/ UNCHANGED <<call, count>>
                \/ calm' = "faulty" /\ Orchestration!Fail
BY DEF Unbounded, Calls, World, Faults, Steps, Frame, Orchestration!SetPreferences

LEMMA NotificationTypes ==
    ASSUME NotificationTyped,
           \/ \E p \in Procs : Orchestration!Work(p)
           \/ UNCHANGED <<call, count>>
           \/ Orchestration!Fail
    PROVE  NotificationTyped'
<1> USE DEF Orchestration!Goto, Orchestration!Return, Orchestration!Idle, Orchestration!At
<1>1. /\ DOMAIN call = Procs /\ count \in Nat
      /\ \A p \in Procs :
           /\ call[p].pc = "count" => call[p].seen \in Nat
           /\ call[p].pc = "send" => call[p] = [pc |-> "send", channels |-> call[p].channels]
    BY DEF NotificationTyped
<1>2. ASSUME NEW p \in Procs, NEW c, call' = [call EXCEPT ![p] = c],
             count' \in Nat,
             c.pc = "count" => c.seen \in Nat,
             c.pc = "send" => c = [pc |-> "send", channels |-> c.channels]
      PROVE  NotificationTyped'
    BY <1>1, <1>2 DEF NotificationTyped
<1>3. ASSUME NEW p \in Procs, Orchestration!Work(p) PROVE NotificationTyped'
  <2>1. CASE Orchestration!SendNotification(p)
      BY <1>1, <1>2, <2>1 DEF Orchestration!SendNotification
  <2>2. CASE Orchestration!IsRateLimited(p)
    <3>1. CASE count >= NotificationLimit
        BY <1>1, <1>2, <2>2, <3>1 DEF Orchestration!IsRateLimited
    <3>2. CASE ~(count >= NotificationLimit)
        BY <1>1, <1>2, <2>2, <3>2 DEF Orchestration!IsRateLimited
    <3> QED BY <3>1, <3>2
  <2>3. CASE Orchestration!Count(p)
    <3>1. call[p].seen + 1 \in Nat BY <1>1, <2>3 DEF Orchestration!Count
    <3> QED BY <1>2, <2>3, <3>1 DEF Orchestration!Count
  <2>4. CASE Orchestration!Send(p)
    <3>1. call[p] = [pc |-> "send", channels |-> call[p].channels]
        BY <1>1, <2>4 DEF Orchestration!Send
    <3>2. ASSUME NEW channels, call' = [call EXCEPT ![p] = [call[p] EXCEPT !.channels = channels]]
          PROVE  NotificationTyped'
      <4>1. [call[p] EXCEPT !.channels = channels] = [pc |-> "send", channels |-> channels]
          BY <3>1
      <4> QED BY <1>1, <1>2, <2>4, <3>2, <4>1 DEF Orchestration!Send
    <3>3. CASE call' = [call EXCEPT ![p] = [pc |-> "idle"]]
        BY <1>1, <1>2, <2>4, <3>3 DEF Orchestration!Send
    <3> QED BY <2>4, <3>2, <3>3 DEF Orchestration!Send
  <2> QED BY <1>3, <2>1, <2>2, <2>3, <2>4 DEF Orchestration!Work
<1>4. CASE Orchestration!Fail
  <2>1. CASE Orchestration!Restart
    <3>1. \A p \in Procs : call'[p].pc = "idle" BY <2>1 DEF Orchestration!Restart
    <3> QED BY <1>1, <2>1, <3>1 DEF Orchestration!Restart, NotificationTyped
  <2>2. ASSUME NEW p \in Procs, Orchestration!PreferencesError(p) PROVE NotificationTyped'
      BY <1>1, <1>2, <2>2 DEF Orchestration!PreferencesError
  <2> QED BY <1>4, <2>1, <2>2 DEF Orchestration!Fail
<1>5. CASE UNCHANGED <<call, count>> BY <1>1, <1>5 DEF NotificationTyped
<1> QED BY <1>3, <1>4, <1>5

LEMMA NotificationStep ==
    ASSUME NotificationIInv, Unbounded
    PROVE  NotificationIInv'
<1>1. CASE subject # "notification" BY <1>1, NotificationSteps DEF NotificationIInv
<1>2. CASE subject = "notification"
  <2>1. NotificationTyped' BY <1>2, NotificationSteps, NotificationTypes DEF NotificationIInv
  <2> QED BY <1>2, <2>1, NotificationSteps DEF NotificationIInv
<1> QED BY <1>1, <1>2

-----------------------------------------------------------------------------
(* One-time passwords of the first services (FirstServices).               *)

FirstVars == <<trackerNow, tracker, granted>>

\* The last requests granted, as many as are counted, are those since an hour
\* without any; and one was granted after the other.
FirstHolds ==
    /\ trackerNow \in 0..TrackerMaxTime
    /\ tracker \in [count : 0..MaxCount, last : Nat] /\ tracker.last <= trackerNow
    /\ granted \in Seq(Nat)
    /\ tracker.count <= Len(granted) /\ (tracker.count = 0 => Len(granted) = 0)
    /\ Len(granted) > 0 => granted[Len(granted)] = tracker.last
    /\ \A i, j \in 1..Len(granted) : i <= j => granted[i] <= granted[j]
    /\ Len(granted) > tracker.count =>
         granted[Len(granted) - tracker.count + 1] - granted[Len(granted) - tracker.count] > Hour
    /\ First!AnyHourWithinLimit

FirstIInv ==
    IF subject = "tracker" THEN FirstHolds
    ELSE trackerNow = 0 /\ tracker = [count |-> 0, last |-> 0] /\ granted = <<>>

LEMMA FirstSteps ==
    ASSUME Unbounded
    PROVE  /\ subject' = subject
           /\ subject # "tracker" => UNCHANGED FirstVars
           /\ subject = "tracker" => First!TrackerNext
BY DEF Unbounded, Calls, World, Faults, Steps, Frame, FirstVars

\* A request that is granted, as one after an hour or as one more.
LEMMA FirstGrants ==
    ASSUME FirstHolds, NEW c \in 1..MaxCount, First!Grant(c), trackerNow' = trackerNow,
           \/ c = 1 /\ (tracker.count = 0 \/ trackerNow - tracker.last > Hour)
           \/ c = tracker.count + 1 /\ tracker.count >= 1
    PROVE  FirstHolds'
<1> DEFINE n == Len(granted)
<1>1. /\ MaxCount \in Nat \ {0} /\ Hour \in Nat
      /\ trackerNow \in Nat /\ n \in Nat /\ granted \in Seq(Nat)
      /\ \A i \in 1..n : granted[i] \in Nat
      /\ tracker.count \in 0..MaxCount /\ tracker.last \in Nat
      /\ tracker.count <= n /\ (tracker.count = 0 => n = 0)
      /\ n > 0 => granted[n] = tracker.last /\ tracker.last <= trackerNow
      /\ \A i, j \in 1..n : i <= j => granted[i] <= granted[j]
  <2>1. MaxCount \in Nat \ {0} /\ Hour \in Nat BY LimitsAre
  <2>2. granted \in Seq(Nat) /\ n \in Nat /\ \A i \in 1..n : granted[i] \in Nat BY DEF FirstHolds
  <2>3. tracker.count \in 0..MaxCount /\ tracker.last \in Nat BY DEF FirstHolds
  <2> QED BY <2>1, <2>2, <2>3 DEF FirstHolds
<1>2. /\ granted' \in Seq(Nat) /\ Len(granted') = n + 1
      /\ \A i \in 1..n : granted'[i] = granted[i]
      /\ granted'[n + 1] = trackerNow
      /\ tracker' = [count |-> c, last |-> trackerNow]
      /\ tracker'.count = c /\ tracker'.last = trackerNow
    BY <1>1 DEF First!Grant
<1>3. tracker' \in [count : 0..MaxCount, last : Nat] BY <1>1, <1>2
<1>4. c <= n + 1 BY <1>1
<1>5. \A i \in 1..n : granted[i] <= trackerNow
  <2>1. ASSUME NEW i \in 1..n PROVE granted[i] <= trackerNow
    <3>1. n > 0 /\ n \in 1..n /\ i <= n BY <1>1
    <3>2. granted[i] <= granted[n] /\ granted[n] <= trackerNow BY <1>1, <3>1
    <3>3. granted[i] \in Nat /\ granted[n] \in Nat BY <1>1, <3>1
    <3> HIDE DEF n
    <3> QED BY <1>1, <3>2, <3>3
  <2> QED BY <2>1
<1>6. ASSUME NEW i \in 1..(n + 1), NEW j \in 1..(n + 1), i <= j PROVE granted'[i] <= granted'[j]
  <2>1. (i \in 1..n \/ i = n + 1) /\ (j \in 1..n \/ j = n + 1) /\ (i = n + 1 => j = n + 1)
      BY <1>1, <1>6
  <2> HIDE DEF n
  <2>2. CASE i \in 1..n /\ j \in 1..n BY <1>1, <1>2, <1>6, <2>2
  <2>3. CASE i \in 1..n /\ j = n + 1 BY <1>2, <1>5, <2>3
  <2>4. CASE i = n + 1 /\ j = n + 1 BY <1>1, <1>2, <2>4
  <2> QED BY <2>1, <2>2, <2>3, <2>4
<1>7. ASSUME n + 1 > c PROVE granted'[n + 1 - c + 1] - granted'[n + 1 - c] > Hour
  <2>1. CASE c = 1
    <3>1. n >= 1 /\ n + 1 - c + 1 = n + 1 /\ n + 1 - c = n /\ n \in 1..n BY <1>1, <1>7, <2>1
    <3>2. tracker.count # 0 /\ ~(tracker.count + 1 = 1) BY <1>1, <3>1
    <3>3. trackerNow - tracker.last > Hour BY <2>1, <3>2
    <3>4. n > 0 /\ granted[n] = tracker.last BY <1>1, <3>1
    <3>5. granted'[n + 1] = trackerNow /\ granted'[n] = tracker.last BY <1>2, <3>1, <3>4
    <3> HIDE DEF n
    <3> QED BY <2>1, <3>1, <3>3, <3>5
  <2>2. CASE c = tracker.count + 1 /\ tracker.count >= 1
    <3>1. /\ n + 1 - c + 1 = n - tracker.count + 1 /\ n + 1 - c = n - tracker.count
          /\ n > tracker.count
          /\ n - tracker.count + 1 \in 1..n /\ n - tracker.count \in 1..n
      <4>1. n \in Int /\ tracker.count \in Int /\ tracker.count <= n BY <1>1
      <4> HIDE DEF n
      <4> QED BY <1>7, <2>2, <4>1
    <3>2. granted[n - tracker.count + 1] - granted[n - tracker.count] > Hour
        BY <3>1 DEF FirstHolds
    <3> HIDE DEF n
    <3> QED BY <1>2, <3>1, <3>2
  <2> QED BY <2>1, <2>2
<1>8. ASSUME NEW i \in 1..(n + 1), i > MaxCount PROVE granted'[i] - granted'[i - MaxCount] > Hour
  <2>1. CASE i \in 1..n
    <3>1. granted[i] - granted[i - MaxCount] > Hour
      <4>1. DOMAIN granted = 1..n BY <1>1
      <4>2. First!AnyHourWithinLimit BY DEF FirstHolds
      <4> QED BY <1>8, <2>1, <4>1, <4>2 DEF First!AnyHourWithinLimit
    <3>2. i - MaxCount \in 1..n BY <1>1, <1>8, <2>1
    <3> QED BY <1>2, <2>1, <3>1, <3>2
  <2>2. CASE i = n + 1
    <3> DEFINE a == n + 1 - MaxCount  b == n + 1 - c  d == n + 1 - c + 1
    <3>1. /\ n + 1 > c /\ a \in 1..(n + 1) /\ b \in 1..(n + 1) /\ d \in 1..(n + 1) /\ a <= b
          /\ n + 1 \in 1..(n + 1) /\ d <= n + 1
        BY <1>1, <1>8, <2>2
    <3>2. granted'[d] - granted'[b] > Hour BY <1>7, <3>1
    <3>3. granted'[a] <= granted'[b] /\ granted'[d] <= granted'[n + 1] BY <1>6, <3>1
    <3>4. \A k \in 1..(n + 1) : granted'[k] \in Nat BY <1>2
    <3>5. /\ granted'[a] \in Nat /\ granted'[b] \in Nat
          /\ granted'[d] \in Nat /\ granted'[n + 1] \in Nat
        BY <3>1, <3>4
    <3>6. Hour \in Int /\ i - MaxCount = a BY <1>1, <2>2
    <3> HIDE DEF a, b, d, n
    <3>7. granted'[n + 1] - granted'[a] > Hour BY <3>2, <3>3, <3>5, <3>6
    <3> QED BY <2>2, <3>6, <3>7
  <2>3. i \in 1..n \/ i = n + 1 BY <1>1
  <2> QED BY <2>1, <2>2, <2>3
<1>9. First!AnyHourWithinLimit'
  <2>1. DOMAIN granted' = 1..(n + 1) BY <1>2
  <2> QED BY <1>8, <2>1 DEF First!AnyHourWithinLimit
<1>10. /\ tracker'.count <= Len(granted') /\ tracker'.count # 0
       /\ granted'[Len(granted')] = tracker'.last /\ tracker'.last <= trackerNow'
    BY <1>1, <1>2, <1>4
<1>11. \A i, j \in 1..Len(granted') : i <= j => granted'[i] <= granted'[j] BY <1>2, <1>6
<1>12. Len(granted') > tracker'.count =>
         granted'[Len(granted') - tracker'.count + 1] - granted'[Len(granted') - tracker'.count] > Hour
    BY <1>2, <1>7
<1> QED BY <1>1, <1>2, <1>3, <1>9, <1>10, <1>11, <1>12 DEF FirstHolds

LEMMA FirstStep ==
    ASSUME FirstIInv, Unbounded
    PROVE  FirstIInv'
<1>1. CASE subject # "tracker"
  <2>1. subject' = subject /\ UNCHANGED FirstVars BY <1>1, FirstSteps
  <2> QED BY <1>1, <2>1 DEF FirstIInv, FirstVars
<1>2. CASE subject = "tracker"
  <2>1. /\ FirstHolds /\ subject' = "tracker" /\ MaxCount \in Nat \ {0}
        /\ tracker.count \in 0..MaxCount
      BY <1>2, FirstSteps, LimitsAre DEF FirstIInv, FirstHolds
  <2>2. CASE First!FirstRequest
    <3>1. 1 \in 1..MaxCount BY <2>1
    <3> QED BY <2>1, <2>2, <3>1, FirstGrants DEF First!FirstRequest, FirstIInv
  <2>3. CASE First!NextRequest
    <3>1. tracker.count + 1 \in 1..MaxCount /\ tracker.count >= 1 BY <2>1, <2>3 DEF First!NextRequest
    <3> QED BY <2>1, <2>3, <3>1, FirstGrants DEF First!NextRequest, FirstIInv
  <2>4. CASE First!TrackerTick
    <3>1. /\ trackerNow \in Nat /\ trackerNow' = trackerNow + 1 /\ tracker' = tracker /\ granted' = granted
          /\ tracker.last \in Nat /\ trackerNow < TrackerMaxTime /\ TrackerMaxTime \in Nat
        BY <2>1, <2>4, LimitsAre DEF First!TrackerTick, FirstHolds
    <3>2. trackerNow' \in 0..TrackerMaxTime /\ (tracker.last <= trackerNow => tracker.last <= trackerNow')
        BY <3>1
    <3>3. First!AnyHourWithinLimit' BY <2>1, <3>1 DEF FirstHolds, First!AnyHourWithinLimit
    <3> QED BY <2>1, <3>1, <3>2, <3>3 DEF FirstHolds, FirstIInv
  <2> QED BY <1>2, <2>2, <2>3, <2>4, FirstSteps DEF First!TrackerNext
<1> QED BY <1>1, <1>2

LEMMA FirstSound == FirstIInv => First!AnyHourWithinLimit
BY DEF FirstIInv, FirstHolds, First!AnyHourWithinLimit

-----------------------------------------------------------------------------
(* Messages (KafkaConsumer).                                               *)

\* What the elements of a sequence are after one more, or one less.
LEMMA Elements ==
    ASSUME NEW T, NEW s \in Seq(T), NEW x \in T
    PROVE  /\ Consumer!Range(s) \subseteq T
           /\ Consumer!Range(Append(s, x)) = Consumer!Range(s) \cup {x}
           /\ s # <<>> => /\ Head(s) \in T /\ Tail(s) \in Seq(T) /\ Len(Tail(s)) = Len(s) - 1
                          /\ Consumer!Range(s) = {Head(s)} \cup Consumer!Range(Tail(s))
<1>1. Consumer!Range(s) \subseteq T BY DEF Consumer!Range
<1>2. Consumer!Range(Append(s, x)) = Consumer!Range(s) \cup {x}
  <2>1. /\ DOMAIN Append(s, x) = 1..(Len(s) + 1) /\ Append(s, x)[Len(s) + 1] = x
        /\ \A i \in 1..Len(s) : Append(s, x)[i] = s[i]
        /\ DOMAIN s = 1..Len(s) /\ Len(s) \in Nat
      OBVIOUS
  <2>2. 1..(Len(s) + 1) = (1..Len(s)) \cup {Len(s) + 1} BY <2>1
  <2> QED BY <2>1, <2>2 DEF Consumer!Range
<1>3. ASSUME s # <<>>
      PROVE  /\ Head(s) \in T /\ Tail(s) \in Seq(T) /\ Len(Tail(s)) = Len(s) - 1
             /\ Consumer!Range(s) = {Head(s)} \cup Consumer!Range(Tail(s))
  <2>1. /\ Len(s) \in Nat \ {0} /\ DOMAIN s = 1..Len(s) /\ DOMAIN Tail(s) = 1..(Len(s) - 1)
        /\ Head(s) = s[1] /\ \A i \in 1..(Len(s) - 1) : Tail(s)[i] = s[i + 1]
      BY <1>3
  <2>2. \A i \in 2..Len(s) : i - 1 \in 1..(Len(s) - 1) /\ s[i] = Tail(s)[i - 1] BY <2>1
  <2>3. \A i \in 1..(Len(s) - 1) : i + 1 \in 1..Len(s) BY <2>1
  <2>4. Consumer!Range(s) \subseteq {Head(s)} \cup Consumer!Range(Tail(s))
    <3>1. ASSUME NEW i \in 1..Len(s) PROVE s[i] \in {Head(s)} \cup Consumer!Range(Tail(s))
      <4>1. i = 1 \/ i \in 2..Len(s) BY <2>1
      <4> QED BY <2>1, <2>2, <4>1 DEF Consumer!Range
    <3> QED BY <2>1, <3>1 DEF Consumer!Range
  <2>5. {Head(s)} \cup Consumer!Range(Tail(s)) \subseteq Consumer!Range(s)
      BY <2>1, <2>3 DEF Consumer!Range
  <2> QED BY <1>3, <2>1, <2>4, <2>5
<1> QED BY <1>1, <1>2, <1>3

KafkaVars == <<log, committed, marked, position, put, channel, handled, from, lost>>

\* Messages that came through, and those that wait.
Arrived == handled \cup Consumer!Range(channel) \cup lost

\* No message before an offset is missing.
Covered(offset) == \A o \in 0..(log - 1) : o >= from /\ o < offset => o \in Arrived

KafkaHolds ==
    /\ log \in Nat
    /\ {committed, marked, position} \subseteq {-1} \cup 0..log
    /\ put \in BOOLEAN
    /\ channel \in Seq(0..(log - 1)) /\ Len(channel) <= ChannelSize
    /\ handled \cup lost \subseteq 0..(log - 1)
    /\ position = -1 => marked = -1
    /\ put => position \in Arrived
    /\ Covered(committed) /\ Covered(marked) /\ Covered(position)

KafkaIInv ==
    IF subject = "kafka" THEN KafkaHolds
    ELSE /\ log = 0 /\ committed = -1 /\ marked = -1 /\ position = -1
         /\ channel = <<>> /\ handled = {} /\ lost = {}

LEMMA KafkaSteps ==
    ASSUME Unbounded
    PROVE  /\ subject' = subject
           /\ subject # "kafka" => UNCHANGED KafkaVars
           /\ subject = "kafka" => Consumer!Next
BY DEF Unbounded, Calls, World, Faults, Steps, Frame, KafkaVars

LEMMA KafkaStep ==
    ASSUME KafkaIInv, Unbounded
    PROVE  KafkaIInv'
<1>1. CASE subject # "kafka"
  <2>1. subject' = subject /\ UNCHANGED KafkaVars BY <1>1, KafkaSteps
  <2> QED BY <1>1, <2>1 DEF KafkaIInv, KafkaVars
<1>2. CASE subject = "kafka"
  <2>1. subject' = "kafka" /\ KafkaHolds /\ Consumer!Next BY <1>2, KafkaSteps DEF KafkaIInv
  <2>2. /\ log \in Nat /\ put \in BOOLEAN /\ ChannelSize \in Nat
        /\ committed \in {-1} \cup 0..log /\ marked \in {-1} \cup 0..log
        /\ position \in {-1} \cup 0..log
        /\ channel \in Seq(0..(log - 1)) /\ Len(channel) \in Nat /\ Len(channel) <= ChannelSize
        /\ handled \subseteq 0..(log - 1) /\ lost \subseteq 0..(log - 1)
        /\ Consumer!Range(channel) \subseteq 0..(log - 1)
      BY <2>1, BoundsAre DEF KafkaHolds, Consumer!Range
  <2>3. CASE Consumer!PublishMessage
    <3>1. /\ log' = log + 1 /\ Arrived' = Arrived /\ from' = from /\ put' = put
          /\ UNCHANGED <<committed, marked, position, channel, handled, lost>>
        BY <2>3 DEF Consumer!PublishMessage, Arrived
    <3>2. 0..(log' - 1) = 0..(log - 1) \cup {log} /\ 0..log \subseteq 0..log' BY <2>2, <3>1
    <3>3. ASSUME NEW n \in {-1} \cup 0..log, Covered(n)
          PROVE  \A o \in 0..(log' - 1) : o >= from' /\ o < n => o \in Arrived'
        BY <2>2, <3>1, <3>2, <3>3 DEF Covered
    <3>4. Covered(committed)' /\ Covered(marked)' /\ Covered(position)'
        BY <2>1, <2>2, <3>1, <3>3 DEF KafkaHolds, Covered
    <3>5. channel' \in Seq(0..(log' - 1)) BY <2>2, <3>1, <3>2
    <3>6. KafkaHolds' BY <2>1, <2>2, <3>1, <3>2, <3>4, <3>5 DEF KafkaHolds
    <3> QED BY <2>1, <3>6 DEF KafkaIInv
  <2>4. CASE Consumer!Consume
    <3>1. /\ UNCHANGED <<log, committed, marked, put, channel, handled, lost>>
          /\ position = -1 /\ Arrived' = Arrived
          /\ IF committed = -1 THEN position' = log /\ from' = log
             ELSE position' = committed /\ from' = from
        BY <2>4 DEF Consumer!Consume, Consumer!None, Arrived
    <3>2. marked = -1 /\ ~put
        BY <2>1, <2>2, <3>1 DEF KafkaHolds, Arrived
    <3>3. Covered(committed)' /\ Covered(marked)' /\ Covered(position)'
        BY <2>1, <2>2, <3>1, <3>2 DEF KafkaHolds, Covered
    <3>4. KafkaHolds' BY <2>1, <2>2, <3>1, <3>2, <3>3 DEF KafkaHolds
    <3> QED BY <2>1, <3>4 DEF KafkaIInv
  <2>5. CASE Consumer!ConsumeClaim /\ ~put
    <3>1. /\ UNCHANGED <<log, committed, marked, position, handled, lost, from>>
          /\ position \in 0..(log - 1) /\ Len(channel) < ChannelSize
          /\ channel' = Append(channel, position) /\ put'
        BY <2>2, <2>5 DEF Consumer!ConsumeClaim, Consumer!None
    <3>2. Consumer!Range(channel') = Consumer!Range(channel) \cup {position}
        BY <2>2, <3>1, Elements
    <3>3. Arrived' = Arrived \cup {position} BY <3>1, <3>2 DEF Arrived
    <3>4. Covered(committed)' /\ Covered(marked)' /\ Covered(position)'
        BY <2>1, <3>1, <3>3 DEF KafkaHolds, Covered
    <3>5. channel' \in Seq(0..(log' - 1)) /\ Len(channel') <= ChannelSize BY <2>2, <3>1
    <3>6. put' = TRUE BY <2>5 DEF Consumer!ConsumeClaim
    <3>7. KafkaHolds' BY <2>1, <2>2, <3>1, <3>3, <3>4, <3>5, <3>6 DEF KafkaHolds
    <3> QED BY <2>1, <3>7 DEF KafkaIInv
  <2>6. CASE Consumer!ConsumeClaim /\ put
    <3>1. /\ UNCHANGED <<log, committed, channel, handled, lost, from>>
          /\ position \in 0..(log - 1) /\ Arrived' = Arrived
          /\ position' = position + 1 /\ marked' = position + 1 /\ put' = FALSE
        BY <2>2, <2>6 DEF Consumer!ConsumeClaim, Consumer!None, Arrived
    <3>2. Covered(position + 1)
      <4>1. \A o \in 0..(log - 1) : o < position + 1 => o < position \/ o = position
          BY <2>2, <3>1
      <4> QED BY <2>1, <2>6, <4>1 DEF KafkaHolds, Covered
    <3>3. Covered(committed)' /\ Covered(marked)' /\ Covered(position)'
        BY <2>1, <3>1, <3>2 DEF KafkaHolds, Covered
    <3>4. position + 1 \in 0..log /\ position + 1 # -1 BY <2>2, <3>1
    <3>5. KafkaHolds' BY <2>1, <2>2, <3>1, <3>3, <3>4 DEF KafkaHolds
    <3> QED BY <2>1, <3>5 DEF KafkaIInv
  <2>7. CASE Consumer!Commit
    <3>1. /\ UNCHANGED <<log, position, put, channel, handled, lost, from>>
          /\ Arrived' = Arrived /\ committed' = marked /\ marked' = -1
        BY <2>7 DEF Consumer!Commit, Consumer!None, Arrived
    <3>2. Covered(committed)' /\ Covered(marked)' /\ Covered(position)'
        BY <2>1, <2>2, <3>1 DEF KafkaHolds, Covered
    <3>3. KafkaHolds' BY <2>1, <2>2, <3>1, <3>2 DEF KafkaHolds
    <3> QED BY <2>1, <3>3 DEF KafkaIInv
  <2>8. CASE Consumer!Receive
    <3>1. /\ UNCHANGED <<log, committed, marked, position, put, from, lost>>
          /\ channel # <<>> /\ channel' = Tail(channel)
          /\ handled' = handled \cup {Head(channel)}
        BY <2>8 DEF Consumer!Receive
    <3>2. /\ Head(channel) \in 0..(log - 1) /\ Tail(channel) \in Seq(0..(log - 1))
          /\ Len(Tail(channel)) = Len(channel) - 1
          /\ Consumer!Range(channel) = {Head(channel)} \cup Consumer!Range(Tail(channel))
        BY <2>2, <3>1, Elements
    <3>3. Arrived' = Arrived BY <3>1, <3>2 DEF Arrived
    <3>4. Covered(committed)' /\ Covered(marked)' /\ Covered(position)'
        BY <2>1, <3>1, <3>3 DEF KafkaHolds, Covered
    <3>5. channel' \in Seq(0..(log' - 1)) /\ Len(channel') <= ChannelSize BY <2>2, <3>1, <3>2
    <3>6. handled' \cup lost' \subseteq 0..(log' - 1) BY <2>2, <3>1, <3>2
    <3>7. put' => position' \in Arrived' BY <2>1, <3>1, <3>3 DEF KafkaHolds
    <3>8. KafkaHolds' BY <2>1, <2>2, <3>1, <3>4, <3>5, <3>6, <3>7 DEF KafkaHolds
    <3> QED BY <2>1, <3>8 DEF KafkaIInv
  <2>9. CASE Consumer!Rebalance
    <3>1. /\ UNCHANGED <<log, put, channel, handled, lost, from>>
          /\ Arrived' = Arrived /\ position' = -1 /\ marked' = -1 /\ ~put
          /\ committed' \in {committed, marked}
        BY <2>9 DEF Consumer!Rebalance, Consumer!None, Arrived
    <3>2. Covered(committed)' /\ Covered(marked)' /\ Covered(position)'
        BY <2>1, <2>2, <3>1 DEF KafkaHolds, Covered
    <3>3. KafkaHolds' BY <2>1, <2>2, <3>1, <3>2 DEF KafkaHolds
    <3> QED BY <2>1, <3>3 DEF KafkaIInv
  <2>10. CASE Consumer!Crash
    <3>1. /\ UNCHANGED <<log, committed, handled, from>>
          /\ position' = -1 /\ marked' = -1 /\ put' = FALSE /\ channel' = <<>>
          /\ lost' = lost \cup Consumer!Range(channel)
        BY <2>10 DEF Consumer!Crash, Consumer!None
    <3>2. Arrived' = Arrived BY <3>1 DEF Arrived, Consumer!Range
    <3>3. Covered(committed)' /\ Covered(marked)' /\ Covered(position)'
        BY <2>1, <2>2, <3>1, <3>2 DEF KafkaHolds, Covered
    <3>4. channel' \in Seq(0..(log' - 1)) /\ Len(channel') <= ChannelSize BY <2>2, <3>1
    <3>5. handled' \cup lost' \subseteq 0..(log' - 1) BY <2>2, <3>1
    <3>6. KafkaHolds' BY <2>1, <2>2, <3>1, <3>3, <3>4, <3>5 DEF KafkaHolds
    <3> QED BY <2>1, <3>6 DEF KafkaIInv
  <2> QED BY <2>1, <2>3, <2>4, <2>5, <2>6, <2>7, <2>8, <2>9, <2>10 DEF Consumer!Next
<1> QED BY <1>1, <1>2

LEMMA KafkaStutter ==
    ASSUME KafkaIInv, subject' = subject, UNCHANGED KafkaVars
    PROVE  KafkaIInv'
BY DEF KafkaIInv, KafkaHolds, KafkaVars, Covered, Arrived

LEMMA KafkaSound == KafkaIInv => Consumer!NothingPassedOver /\ Consumer!TypeOK
<1> SUFFICES ASSUME KafkaIInv PROVE Consumer!NothingPassedOver /\ Consumer!TypeOK
    OBVIOUS
<1>1. CASE subject = "kafka"
    BY <1>1 DEF KafkaIInv, KafkaHolds, Covered, Arrived, Consumer!NothingPassedOver, Consumer!TypeOK,
         Consumer!None, Consumer!Range
<1>2. CASE subject # "kafka"
    BY <1>2, BoundsAre DEF KafkaIInv, Consumer!NothingPassedOver, Consumer!TypeOK,
         Consumer!None, Consumer!Range
<1> QED BY <1>1, <1>2

-----------------------------------------------------------------------------
(* Induction over finite sets and numbers.  The set of what the claim holds *)
(* of takes the place of a predicate.                                       *)

\* What holds of a finite set if it does without any one element holds of all.
LEMMA SetInduction ==
    ASSUME NEW S, IsFiniteSet(S), NEW G, {} \in G,
           \A T \in SUBSET S : T # {} /\ (\A x \in T : T \ {x} \in G) => T \in G
    PROVE  SUBSET S \subseteq G
<1>1. SUFFICES ASSUME (SUBSET S) \ G # {} PROVE FALSE OBVIOUS
<1>2. IsWellFoundedOn(StrictSubsetOrdering(S), FiniteSubsetsOf(S))
    BY FS_StrictSubsetOrderingWellFounded
<1>3. (SUBSET S) \ G \subseteq FiniteSubsetsOf(S) BY FS_Subset DEF FiniteSubsetsOf
<1>4. PICK T \in (SUBSET S) \ G : \A U \in (SUBSET S) \ G : ~(<<U, T>> \in StrictSubsetOrdering(S))
    BY <1>1, <1>2, <1>3, WFMin
<1>5. PICK x \in T : T \ {x} \notin G BY <1>4
<1>6. T \ {x} \in (SUBSET S) \ G BY <1>5
<1>7. <<T \ {x}, T>> \in StrictSubsetOrdering(S) BY <1>5, <1>6 DEF StrictSubsetOrdering
<1> QED BY <1>4, <1>6, <1>7

LEMMA NumberInduction ==
    ASSUME NEW G, 0 \in G, \A n \in Nat : n \in G => n + 1 \in G
    PROVE  Nat \subseteq G
<1>1. SUFFICES ASSUME NEW n \in Nat PROVE n \in G OBVIOUS
<1> DEFINE I == 1..n
           H == {T \in SUBSET I : Cardinality(T) \in G}
<1>2. IsFiniteSet(I) /\ Cardinality(I) = n BY FS_Interval
<1>3. {} \in H BY FS_EmptySet
<1>4. ASSUME NEW T \in SUBSET I, T # {}, \A x \in T : T \ {x} \in H
      PROVE  T \in H
  <2>1. PICK x \in T : T \ {x} \in H BY <1>4
  <2>2. IsFiniteSet(T) BY <1>2, FS_Subset
  <2>3. Cardinality(T \ {x}) = Cardinality(T) - 1 /\ Cardinality(T) \in Nat
      BY <2>2, FS_RemoveElement, FS_CardinalityType
  <2>4. Cardinality(T \ {x}) \in G /\ Cardinality(T \ {x}) \in Nat
      BY <2>1, <2>2, FS_RemoveElement, FS_CardinalityType, FS_Subset
  <2>5. Cardinality(T \ {x}) + 1 = Cardinality(T) BY <2>3
  <2> QED BY <2>4, <2>5
<1>5. SUBSET I \subseteq H
  <2> HIDE DEF H, I
  <2> QED BY <1>2, <1>3, <1>4, SetInduction
<1>6. I \in H BY <1>5
<1> QED BY <1>2, <1>6

\* A finite set of numbers has a least and a greatest.
LEMMA Extremes ==
    ASSUME NEW S, IsFiniteSet(S), S # {}, S \subseteq Int
    PROVE  /\ \E x \in S : \A y \in S : x <= y
           /\ \E x \in S : \A y \in S : x >= y
<1> DEFINE H == {T \in SUBSET S : T # {} => (\E x \in T : \A y \in T : x <= y)
                                               /\ (\E x \in T : \A y \in T : x >= y)}
<1>1. {} \in H OBVIOUS
<1>2. ASSUME NEW T \in SUBSET S, T # {}, \A x \in T : T \ {x} \in H
      PROVE  T \in H
  <2>1. PICK z \in T : T \ {z} \in H BY <1>2
  <2>2. z \in Int /\ T \subseteq Int OBVIOUS
  <2>3. CASE T \ {z} = {}
    <3>1. T = {z} BY <2>3
    <3>2. z <= z /\ z >= z BY <2>2
    <3> QED BY <3>1, <3>2
  <2>4. CASE T \ {z} # {}
    <3>1. PICK x \in T \ {z} : \A y \in T \ {z} : x <= y BY <2>1, <2>4
    <3>2. PICK w \in T \ {z} : \A y \in T \ {z} : w >= y BY <2>1, <2>4
    <3>3. x \in Int /\ w \in Int BY <2>2
    <3>4. \E u \in T : \A y \in T : u <= y
      <4>1. CASE x <= z BY <3>1, <4>1
      <4>2. CASE ~(x <= z)
        <5>1. \A y \in T : z <= y BY <2>2, <3>1, <3>3, <4>2
        <5> QED BY <5>1
      <4> QED BY <4>1, <4>2
    <3>5. \E u \in T : \A y \in T : u >= y
      <4>1. CASE w >= z BY <3>2, <4>1
      <4>2. CASE ~(w >= z)
        <5>1. \A y \in T : z >= y BY <2>2, <3>2, <3>3, <4>2
        <5> QED BY <5>1
      <4> QED BY <4>1, <4>2
    <3> QED BY <3>4, <3>5
  <2> QED BY <2>3, <2>4
<1>3. SUBSET S \subseteq H
  <2> HIDE DEF H
  <2> QED BY <1>1, <1>2, SetInduction
<1> QED BY <1>3

-----------------------------------------------------------------------------
(* Folds.  What MapThenFoldSet computes for a set it computes from a smaller*)
(* one, by way of what is chosen from the set.                              *)

\* A choice from each set but the empty one, a step that stays within D, the
\* function that takes it for whatever was chosen, and one that does as it does.
Chooses(c, S) == \A T \in SUBSET S : T # {} => c[T] \in T

Closed(g, S, D) == \A x \in S, d \in D : g[<<x, d>>] \in D

Computes(f, S, base, c, g) ==
    \A T \in SUBSET S : f[T] = IF T = {} THEN base ELSE g[<<c[T], f[T \ {c[T]}]>>]

Alike(f, h, S, c) ==
    /\ h[{}] = f[{}]
    /\ \A T \in SUBSET S : T # {} /\ h[T \ {c[T]}] = f[T \ {c[T]}] => h[T] = f[T]

\* A function of the subsets of a finite set may be defined from its own values
\* for smaller ones.
LEMMA Recursion ==
    ASSUME NEW S, IsFiniteSet(S), NEW D, NEW base \in D,
           NEW c, Chooses(c, S), NEW g, Closed(g, S, D)
    PROVE  \E f \in [SUBSET S -> D] : Computes(f, S, base, c, g)
<1> USE DEF Chooses, Closed, Computes
<1> DEFINE From(f, T) == IF T = {} THEN base ELSE g[<<c[T], f[T \ {c[T]}]>>]
           UpTo(f, n) == \A T \in SUBSET S : Cardinality(T) <= n => f[T] = From(f, T)
           G == {n \in Nat : \E f \in [SUBSET S -> D] : UpTo(f, n)}
<1>1. \A T \in SUBSET S : IsFiniteSet(T) /\ Cardinality(T) \in Nat
    BY FS_Subset, FS_CardinalityType
<1>2. \A f \in [SUBSET S -> D], T \in SUBSET S : From(f, T) \in D
  <2> TAKE f \in [SUBSET S -> D], T \in SUBSET S
  <2>1. CASE T = {} BY <2>1
  <2>2. CASE T # {}
    <3>1. c[T] \in S /\ T \ {c[T]} \in SUBSET S BY <2>2
    <3>2. f[T \ {c[T]}] \in D BY <3>1
    <3>3. g[<<c[T], f[T \ {c[T]}]>>] \in D BY <3>1, <3>2
    <3> QED BY <2>2, <3>3
  <2> QED BY <2>1, <2>2
<1>3. 0 \in G
  <2> DEFINE f == [T \in SUBSET S |-> base]
  <2>1. \A T \in SUBSET S : Cardinality(T) <= 0 => T = {}
    <3> TAKE T \in SUBSET S
    <3>1. Cardinality(T) <= 0 => Cardinality(T) = 0 BY <1>1
    <3> QED BY <1>1, <3>1, FS_EmptySet
  <2>2. f \in [SUBSET S -> D] /\ UpTo(f, 0) BY <2>1
  <2> QED BY <2>2
<1>4. ASSUME NEW n \in Nat, n \in G PROVE n + 1 \in G
  <2>1. PICK f \in [SUBSET S -> D] : UpTo(f, n) BY <1>4
  <2> DEFINE h == [T \in SUBSET S |-> From(f, T)]
  <2>2. h \in [SUBSET S -> D] BY <1>2
  <2>3. ASSUME NEW T \in SUBSET S, Cardinality(T) <= n + 1, T # {}
        PROVE  h[T] = g[<<c[T], h[T \ {c[T]}]>>]
    <3>1. c[T] \in T /\ T \ {c[T]} \in SUBSET S BY <2>3
    <3>2. Cardinality(T \ {c[T]}) = Cardinality(T) - 1 BY <1>1, <3>1, FS_RemoveElement
    <3>3. Cardinality(T \ {c[T]}) <= n BY <1>1, <2>3, <3>2
    <3>4. f[T \ {c[T]}] = From(f, T \ {c[T]}) BY <2>1, <3>1, <3>3
    <3>5. h[T \ {c[T]}] = From(f, T \ {c[T]}) BY <3>1
    <3>6. h[T] = g[<<c[T], f[T \ {c[T]}]>>] BY <2>3
    <3> QED BY <3>4, <3>5, <3>6
  <2>4. UpTo(h, n + 1) BY <2>3
  <2> HIDE DEF h
  <2> QED BY <2>2, <2>4
<1>5. Cardinality(S) \in G
  <2> HIDE DEF G
  <2>1. Nat \subseteq G BY <1>3, <1>4, NumberInduction
  <2> QED BY <1>1, <2>1
<1>6. PICK f \in [SUBSET S -> D] : UpTo(f, Cardinality(S)) BY <1>5
<1>7. \A T \in SUBSET S : Cardinality(T) <= Cardinality(S) BY FS_Subset
<1> QED BY <1>6, <1>7

\* Functions that are defined alike are the same.
LEMMA RecursionUnique ==
    ASSUME NEW S, IsFiniteSet(S),
           NEW c, Chooses(c, S), NEW f, NEW h, Alike(f, h, S, c)
    PROVE  \A T \in SUBSET S : h[T] = f[T]
<1> USE DEF Chooses, Alike
<1> DEFINE G == {T \in SUBSET S : h[T] = f[T]}
<1>1. {} \in G OBVIOUS
<1>2. ASSUME NEW T \in SUBSET S, T # {}, \A x \in T : T \ {x} \in G
      PROVE  T \in G
    BY <1>2
<1>3. SUBSET S \subseteq G
  <2> HIDE DEF G
  <2> QED BY <1>1, <1>2, SetInduction
<1> QED BY <1>3

\* The sum of the values a function has for the elements of a set.
Total(w, S) == SumFunctionOnSet(w, S)

AnyOf(T) == CHOOSE x \in T : TRUE

LEMMA TotalFolds ==
    ASSUME NEW S, IsFiniteSet(S), NEW w, \A x \in S : w[x] \in Int
    PROVE  \E f \in [SUBSET S -> Int] :
             /\ \A T \in SUBSET S : f[T] = IF T = {} THEN 0 ELSE w[AnyOf(T)] + f[T \ {AnyOf(T)}]
             /\ Total(w, S) = f[S]
<1> DEFINE c == [T \in SUBSET S |-> AnyOf(T)]
           g == [z \in S \X Int |-> w[z[1]] + z[2]]
           it == CHOOSE f : f = [T \in SUBSET S |-> IF T = {} THEN 0 ELSE w[AnyOf(T)] + f[T \ {AnyOf(T)}]]
<1>1. \A T \in SUBSET S : T # {} => c[T] \in T /\ c[T] = AnyOf(T) BY DEF AnyOf
<1>2. \A x \in S, d \in Int : g[<<x, d>>] \in Int OBVIOUS
<1>3. PICK f \in [SUBSET S -> Int] : Computes(f, S, 0, c, g)
  <2> HIDE DEF c, g
  <2>1. Chooses(c, S) /\ Closed(g, S, Int) BY <1>1, <1>2 DEF Chooses, Closed
  <2>2. 0 \in Int OBVIOUS
  <2> QED BY <2>1, <2>2, Recursion
<1>4. \A T \in SUBSET S : f[T] = IF T = {} THEN 0 ELSE w[AnyOf(T)] + f[T \ {AnyOf(T)}]
  <2> TAKE T \in SUBSET S
  <2>1. CASE T # {}
    <3>1. c[T] \in S /\ c[T] = AnyOf(T) /\ f[T \ {c[T]}] \in Int BY <1>1, <2>1
    <3>2. g[<<c[T], f[T \ {c[T]}]>>] = w[c[T]] + f[T \ {c[T]}] BY <3>1
    <3> HIDE DEF c, g
    <3> QED BY <1>3, <2>1, <3>1, <3>2 DEF Computes
  <2>2. CASE T = {} BY <1>3, <2>2 DEF Computes
  <2> QED BY <2>1, <2>2
<1>5. f = [T \in SUBSET S |-> IF T = {} THEN 0 ELSE w[AnyOf(T)] + f[T \ {AnyOf(T)}]]
    BY <1>4
<1>6. it = [T \in SUBSET S |-> IF T = {} THEN 0 ELSE w[AnyOf(T)] + it[T \ {AnyOf(T)}]]
    BY <1>5
<1>7. Total(w, S) = it[S]
    BY DEF Total, SumFunctionOnSet, FoldFunctionOnSet, MapThenFoldSet, AnyOf
<1> HIDE DEF it, g
<1>8. \A T \in SUBSET S : it[T] = f[T]
  <2>1. it[{}] = f[{}] BY <1>4, <1>6
  <2>2. ASSUME NEW T \in SUBSET S, T # {}, it[T \ {c[T]}] = f[T \ {c[T]}] PROVE it[T] = f[T]
    <3>1. c[T] = AnyOf(T) BY <1>1, <2>2
    <3> QED BY <1>4, <1>6, <2>2, <3>1
  <2> HIDE DEF c
  <2>3. Chooses(c, S) /\ Alike(f, it, S, c) BY <1>1, <2>1, <2>2 DEF Chooses, Alike
  <2> QED BY <2>3, RecursionUnique
<1> QED BY <1>4, <1>7, <1>8

\* Whatever is chosen, the sum is that of one element and the rest.
LEMMA Totals ==
    ASSUME NEW S, IsFiniteSet(S), NEW w, \A x \in S : w[x] \in Int
    PROVE  /\ Total(w, {}) = 0
           /\ \A T \in SUBSET S : Total(w, T) \in Int
           /\ \A T \in SUBSET S, x \in S :
                x \in T => Total(w, T) = w[x] + Total(w, T \ {x})
<1>1. PICK f \in [SUBSET S -> Int] :
             /\ \A T \in SUBSET S : f[T] = IF T = {} THEN 0 ELSE w[AnyOf(T)] + f[T \ {AnyOf(T)}]
             /\ Total(w, S) = f[S]
    BY TotalFolds
<1>2. \A T : T # {} => AnyOf(T) \in T BY DEF AnyOf
<1>3. ASSUME NEW T \in SUBSET S PROVE Total(w, T) = f[T]
  <2>1. IsFiniteSet(T) BY FS_Subset
  <2>2. PICK h \in [SUBSET T -> Int] :
             /\ \A U \in SUBSET T : h[U] = IF U = {} THEN 0 ELSE w[AnyOf(U)] + h[U \ {AnyOf(U)}]
             /\ Total(w, T) = h[T]
      BY <2>1, TotalFolds
  <2> DEFINE c == [U \in SUBSET T |-> AnyOf(U)]
  <2>3. \A U \in SUBSET T : U # {} => c[U] \in U /\ c[U] = AnyOf(U) BY <1>2
  <2> HIDE DEF c
  <2>4. h[{}] = f[{}] BY <1>1, <2>2
  <2>5. ASSUME NEW U \in SUBSET T, U # {}, h[U \ {c[U]}] = f[U \ {c[U]}] PROVE h[U] = f[U]
    <3>1. U \in SUBSET S OBVIOUS
    <3> QED BY <1>1, <2>2, <2>3, <2>5, <3>1
  <2>6. Chooses(c, T) /\ Alike(f, h, T, c) BY <2>3, <2>4, <2>5 DEF Chooses, Alike
  <2>7. \A U \in SUBSET T : h[U] = f[U] BY <2>1, <2>6, RecursionUnique
  <2> QED BY <2>2, <2>7
<1> DEFINE G == {T \in SUBSET S : \A x \in T : f[T] = w[x] + f[T \ {x}]}
<1>4. {} \in G OBVIOUS
<1>5. ASSUME NEW T \in SUBSET S, T # {}, \A x \in T : T \ {x} \in G
      PROVE  T \in G
  <2> DEFINE z == AnyOf(T)
  <2>1. z \in T /\ f[T] = w[z] + f[T \ {z}] BY <1>1, <1>2, <1>5
  <2> HIDE DEF z
  <2>2. ASSUME NEW x \in T, x # z PROVE f[T] = w[x] + f[T \ {x}]
    <3>1. T \ {z} \in G /\ x \in T \ {z} BY <1>5, <2>1, <2>2
    <3>2. T \ {x} \in G /\ z \in T \ {x} BY <1>5, <2>1, <2>2
    <3>3. f[T \ {z}] = w[x] + f[(T \ {z}) \ {x}] BY <3>1
    <3>4. f[T \ {x}] = w[z] + f[(T \ {x}) \ {z}] BY <3>2
    <3>5. (T \ {x}) \ {z} = (T \ {z}) \ {x} /\ (T \ {z}) \ {x} \in SUBSET S OBVIOUS
    <3>6. w[x] \in Int /\ w[z] \in Int /\ f[(T \ {z}) \ {x}] \in Int BY <2>1, <3>5
    <3>7. f[T \ {x}] = w[z] + f[(T \ {z}) \ {x}] BY <3>4, <3>5
    <3> DEFINE rest == f[(T \ {z}) \ {x}]
               a == f[T \ {z}]
               b == f[T \ {x}]
    <3>8. rest \in Int /\ a = w[x] + rest /\ b = w[z] + rest /\ f[T] = w[z] + a
        BY <2>1, <3>3, <3>6, <3>7
    <3> HIDE DEF rest, a, b
    <3>9. f[T] = w[x] + b BY <3>6, <3>8
    <3> QED BY <3>9 DEF b
  <2>3. \A x \in T : f[T] = w[x] + f[T \ {x}] BY <2>1, <2>2
  <2> QED BY <2>3
<1>6. SUBSET S \subseteq G
  <2> HIDE DEF G
  <2> QED BY <1>4, <1>5, SetInduction
<1>7. \A T \in SUBSET S, x \in S : x \in T => f[T] = w[x] + f[T \ {x}] BY <1>6
<1>8. \A T \in SUBSET S, x \in S : T \ {x} \in SUBSET S OBVIOUS
<1>9. {} \in SUBSET S /\ f[{}] = 0 BY <1>1
<1> HIDE DEF G
<1> QED BY <1>3, <1>7, <1>8, <1>9

\* Nothing is lost by adding what is not negative.
LEMMA TotalGrows ==
    ASSUME NEW S, IsFiniteSet(S), NEW w, \A x \in S : w[x] \in Nat
    PROVE  /\ \A T \in SUBSET S : Total(w, T) \in Nat
           /\ \A T \in SUBSET S : \A U \in SUBSET T : Total(w, U) <= Total(w, T)
<1>1. \A x \in S : w[x] \in Int OBVIOUS
<1>2. /\ Total(w, {}) = 0
      /\ \A T \in SUBSET S : Total(w, T) \in Int
      /\ \A T \in SUBSET S, x \in S :
                x \in T => Total(w, T) = w[x] + Total(w, T \ {x})
    BY <1>1, Totals
<1> DEFINE G == {T \in SUBSET S : Total(w, T) \in Nat /\ \A U \in SUBSET T : Total(w, U) <= Total(w, T)}
<1>3. {} \in G BY <1>2
<1>4. ASSUME NEW T \in SUBSET S, T # {}, \A x \in T : T \ {x} \in G
      PROVE  T \in G
  <2>1. PICK z \in T : TRUE BY <1>4
  <2>2. Total(w, T) \in Nat
    <3>1. T \ {z} \in G BY <1>4
    <3>2. Total(w, T \ {z}) \in Nat BY <3>1
    <3> QED BY <1>2, <3>2
  <2>3. ASSUME NEW U \in SUBSET T PROVE Total(w, U) <= Total(w, T)
    <3>1. CASE U = T BY <2>2, <3>1
    <3>2. CASE U # T
      <4>1. PICK x \in T : x \notin U BY <3>2
      <4>2. U \in SUBSET (T \ {x}) /\ T \ {x} \in G BY <1>4, <4>1
      <4>3. Total(w, U) <= Total(w, T \ {x}) /\ Total(w, T \ {x}) \in Nat BY <4>2
      <4>4. Total(w, T) = w[x] + Total(w, T \ {x}) /\ w[x] \in Nat BY <1>2
      <4>5. Total(w, U) \in Int BY <1>2
      <4> QED BY <4>3, <4>4, <4>5
    <3> QED BY <3>1, <3>2
  <2> QED BY <2>2, <2>3
<1>5. SUBSET S \subseteq G
  <2> HIDE DEF G
  <2> QED BY <1>3, <1>4, SetInduction
<1> QED BY <1>5

LEMMA TotalMonotone ==
    ASSUME NEW S, IsFiniteSet(S), NEW w, NEW v, \A x \in S : w[x] \in Int /\ v[x] \in Int /\ w[x] <= v[x]
    PROVE  \A T \in SUBSET S : Total(w, T) <= Total(v, T)
<1>1. /\ Total(w, {}) = 0
      /\ \A T \in SUBSET S : Total(w, T) \in Int
      /\ \A T \in SUBSET S, x \in S :
                x \in T => Total(w, T) = w[x] + Total(w, T \ {x})
    BY Totals
<1>2. /\ Total(v, {}) = 0
      /\ \A T \in SUBSET S : Total(v, T) \in Int
      /\ \A T \in SUBSET S, x \in S :
                x \in T => Total(v, T) = v[x] + Total(v, T \ {x})
    BY Totals
<1> DEFINE G == {T \in SUBSET S : Total(w, T) <= Total(v, T)}
<1>3. {} \in G BY <1>1, <1>2
<1>4. ASSUME NEW T \in SUBSET S, T # {}, \A x \in T : T \ {x} \in G
      PROVE  T \in G
  <2>1. PICK x \in T : TRUE BY <1>4
  <2>2. Total(w, T \ {x}) <= Total(v, T \ {x}) BY <1>4
  <2>3. /\ Total(w, T) = w[x] + Total(w, T \ {x}) /\ Total(v, T) = v[x] + Total(v, T \ {x})
        /\ Total(w, T \ {x}) \in Int /\ Total(v, T \ {x}) \in Int
        /\ w[x] \in Int /\ v[x] \in Int /\ w[x] <= v[x]
      BY <1>1, <1>2
  <2> QED BY <2>2, <2>3
<1>5. SUBSET S \subseteq G
  <2> HIDE DEF G
  <2> QED BY <1>3, <1>4, SetInduction
<1> QED BY <1>5

-----------------------------------------------------------------------------
(* Migrations (Migrations).                                                *)

MigrationVars == <<applied, schema, mixed>>

Run == [pc : {"up", "down"}, todo : SUBSET Versions]

MigrationTyped ==
    /\ DOMAIN call = Procs
    /\ \A p \in Procs : call[p] = Idle \/ call[p] \in Run
    /\ \A p \in Procs : call[p].pc = "down" => call[p].todo # {}
    /\ applied = schema /\ applied \subseteq Versions
    /\ mixed \in BOOLEAN

\* An up has every version to do that is not applied, a down every one above
\* those it has to do.
Orderly(p) ==
    /\ call[p].pc = "up" => Versions \ applied \subseteq call[p].todo
    /\ call[p].pc = "down" => \A v \in call[p].todo, w \in applied : w > v => w \in call[p].todo

OneWay == \A p, q \in Procs : call[p] # Idle /\ call[q] # Idle => call[p].pc = call[q].pc

MigrationHolds ==
    /\ MigrationTyped
    /\ ~mixed => /\ Migrator!NoneLeftOut
                 /\ OneWay
                 /\ \A p \in Procs : Orderly(p)

MigrationIInv ==
    IF subject = "migrations" THEN MigrationHolds
    ELSE applied = {} /\ schema = {} /\ mixed = FALSE

LEMMA MigrationSteps ==
    ASSUME Unbounded
    PROVE  /\ subject' = subject
           /\ subject # "migrations" => UNCHANGED MigrationVars
           /\ subject = "migrations" => (\E p \in Procs : Migrator!Work(p)) \/ Migrator!Fail
BY DEF Unbounded, Calls, World, Faults, Steps, Frame, MigrationVars

\* The first and the last of some versions.
LEMMA FirstAndLast ==
    ASSUME NEW T \in SUBSET Versions, T # {}
    PROVE  /\ Migrator!Min(T) \in T /\ \A w \in T : Migrator!Min(T) <= w
           /\ Migrator!Max(T) \in T /\ \A w \in T : Migrator!Max(T) >= w
<1>1. IsFiniteSet(T)
  <2>1. IsFiniteSet(Versions) BY SetsAre
  <2> QED BY <2>1, FS_Subset
<1>3. T \subseteq Int
  <2>1. Versions \subseteq Nat BY SetsAre
  <2> QED BY <2>1
<1>2. /\ \E x \in T : \A y \in T : x <= y
      /\ \E x \in T : \A y \in T : x >= y
    BY <1>1, <1>3, Extremes
<1> QED BY <1>2 DEF Migrator!Min, Migrator!Max

\* A run begins: an up with all that is not applied, a down with the last steps.
LEMMA Begins ==
    ASSUME MigrationHolds, NEW p \in Procs, NEW direction \in {"up", "down"},
           NEW versions \in SUBSET Versions, Migrator!Begin(p, direction, versions),
           direction = "up" => versions = Versions \ applied,
           direction = "down" => /\ versions # {}
                                 /\ \A v \in versions, w \in applied : w > v => w \in versions
    PROVE  MigrationHolds'
<1>1. /\ call[p] = Idle /\ applied' = applied /\ schema' = schema
      /\ call' = [call EXCEPT ![p] = [pc |-> direction, todo |-> versions]]
      /\ mixed' = (mixed \/ \E q \in Busy : call[q].pc # direction)
    BY DEF Migrator!Begin, Migrator!Goto, Migrator!Idle, Migrator!Busy, Idle, Busy
<1>2. MigrationTyped BY DEF MigrationHolds
<1>3. /\ \A q \in Procs \ {p} : call'[q] = call[q]
      /\ call'[p] = [pc |-> direction, todo |-> versions]
      /\ DOMAIN call' = Procs
    BY <1>1, <1>2 DEF MigrationTyped
<1>4. call'[p] \in Run /\ call'[p].pc = direction /\ call'[p].todo = versions /\ call'[p] # Idle
  <2>1. call'[p].pc = direction /\ call'[p].todo = versions BY <1>3
  <2>2. call'[p].pc # Idle.pc BY <2>1 DEF Idle
  <2> QED BY <1>3, <2>1, <2>2 DEF Run
<1>5. MigrationTyped'
  <2>1. \A q \in Procs : call'[q] = Idle \/ call'[q] \in Run BY <1>2, <1>3, <1>4 DEF MigrationTyped
  <2>2. \A q \in Procs : call'[q].pc = "down" => call'[q].todo # {}
      BY <1>2, <1>3, <1>4 DEF MigrationTyped
  <2>3. mixed' \in BOOLEAN BY <1>1, <1>2 DEF MigrationTyped
  <2> QED BY <1>1, <1>2, <1>3, <2>1, <2>2, <2>3 DEF MigrationTyped
<1>6. ASSUME ~mixed'
      PROVE  /\ Migrator!NoneLeftOut' /\ OneWay' /\ \A q \in Procs : Orderly(q)'
  <2>1. ~mixed /\ \A q \in Procs : call[q] # Idle => call[q].pc = direction
      BY <1>1, <1>2, <1>6 DEF MigrationTyped, Busy
  <2>2. Migrator!NoneLeftOut' BY <1>1, <2>1 DEF MigrationHolds, Migrator!NoneLeftOut
  <2>3. OneWay' BY <1>3, <1>4, <2>1 DEF OneWay, MigrationHolds
  <2>4. ASSUME NEW q \in Procs PROVE Orderly(q)'
    <3>1. CASE q # p BY <1>1, <1>3, <2>1, <3>1 DEF Orderly, MigrationHolds
    <3>2. CASE q = p BY <1>1, <1>4, <3>2 DEF Orderly
    <3> QED BY <3>1, <3>2
  <2> QED BY <2>2, <2>3, <2>4
<1> QED BY <1>5, <1>6 DEF MigrationHolds

\* A run goes on with the versions it has still to do, or ends.
LEMMA GoesOn ==
    ASSUME MigrationTyped, NEW p \in Procs, call[p] # Idle, NEW v,
           Migrator!Continue(p, v) \/ Migrator!Return(p)
    PROVE  /\ DOMAIN call' = Procs
           /\ \A q \in Procs \ {p} : call'[q] = call[q]
           /\ \/ call'[p] = Idle
              \/ /\ Migrator!Continue(p, v)
                 /\ call'[p] \in Run /\ call'[p].pc = call[p].pc
                 /\ call'[p].todo = call[p].todo \ {v} /\ call[p].todo # {v}
<1>1. /\ call[p] \in Run /\ DOMAIN call = Procs
      /\ call[p] = [pc |-> call[p].pc, todo |-> call[p].todo]
    BY DEF MigrationTyped, Run
<1>2. [call[p] EXCEPT !.todo = @ \ {v}] = [pc |-> call[p].pc, todo |-> call[p].todo \ {v}]
    BY <1>1
<1>3. /\ DOMAIN call' = Procs
      /\ \A q \in Procs \ {p} : call'[q] = call[q]
      /\ \/ call'[p] = Idle
         \/ /\ Migrator!Continue(p, v)
            /\ call'[p] = [pc |-> call[p].pc, todo |-> call[p].todo \ {v}] /\ call[p].todo # {v}
    BY <1>1, <1>2 DEF Migrator!Continue, Migrator!Return, Migrator!Goto, Migrator!Idle, Idle
<1>4. ASSUME call'[p] = [pc |-> call[p].pc, todo |-> call[p].todo \ {v}]
      PROVE  call'[p] \in Run /\ call'[p].pc = call[p].pc /\ call'[p].todo = call[p].todo \ {v}
    BY <1>1, <1>4 DEF Run
<1> QED BY <1>3, <1>4

LEMMA Ends ==
    ASSUME MigrationHolds, NEW p \in Procs, call[p] # Idle, Migrator!Return(p),
           UNCHANGED <<applied, schema, mixed>>
    PROVE  MigrationHolds'
<1>1. /\ MigrationTyped /\ DOMAIN call' = Procs /\ \A q \in Procs \ {p} : call'[q] = call[q]
      /\ call'[p] = Idle
    BY DEF MigrationHolds, MigrationTyped, Migrator!Return, Migrator!Goto, Migrator!Idle, Idle
<1>2. Idle.pc # "up" /\ Idle.pc # "down" BY DEF Idle
<1>3. MigrationTyped' BY <1>1, <1>2 DEF MigrationTyped
<1>4. ASSUME ~mixed'
      PROVE  /\ Migrator!NoneLeftOut' /\ OneWay' /\ \A q \in Procs : Orderly(q)'
    BY <1>1, <1>2, <1>4 DEF MigrationHolds, Migrator!NoneLeftOut, OneWay, Orderly
<1> QED BY <1>3, <1>4 DEF MigrationHolds

LEMMA Applied ==
    ASSUME MigrationHolds, NEW p \in Procs, Migrator!Apply(p)
    PROVE  MigrationHolds'
<1> DEFINE v == Migrator!Min(call[p].todo)
<1>1. /\ MigrationTyped /\ call[p].pc = "up" /\ call[p].todo # {} /\ mixed' = mixed
      /\ \/ Migrator!Return(p) /\ UNCHANGED <<applied, schema>>
         \/ /\ v \notin applied /\ schema' = schema \cup {v} /\ applied' = applied \cup {v}
            /\ Migrator!Continue(p, v)
    BY DEF MigrationHolds, Migrator!Apply, Migrator!At
<1>2. call[p] # Idle /\ call[p] \in Run BY <1>1 DEF Idle, MigrationTyped
<1>3. v \in call[p].todo /\ (\A w \in call[p].todo : v <= w) /\ v \in Versions
  <2>1. call[p].todo \in SUBSET Versions BY <1>2 DEF Run
  <2> QED BY <1>1, <2>1, FirstAndLast
<1> HIDE DEF v
<1>4. CASE Migrator!Return(p) /\ UNCHANGED <<applied, schema>> BY <1>1, <1>2, <1>4, Ends
<1>5. CASE /\ v \notin applied /\ schema' = schema \cup {v} /\ applied' = applied \cup {v}
           /\ Migrator!Continue(p, v)
  <2>1. /\ DOMAIN call' = Procs /\ \A q \in Procs \ {p} : call'[q] = call[q]
        /\ \/ call'[p] = Idle
           \/ /\ call'[p] \in Run /\ call'[p].pc = call[p].pc
              /\ call'[p].todo = call[p].todo \ {v}
      BY <1>1, <1>2, <1>5, GoesOn
  <2>2. Idle.pc # "up" /\ Idle.pc # "down" BY DEF Idle
  <2>3. MigrationTyped' BY <1>1, <1>3, <1>5, <2>1, <2>2 DEF MigrationTyped
  <2>4. ASSUME ~mixed'
        PROVE  /\ Migrator!NoneLeftOut' /\ OneWay' /\ \A q \in Procs : Orderly(q)'
    <3>1. ~mixed /\ Migrator!NoneLeftOut /\ OneWay /\ \A q \in Procs : Orderly(q)
        BY <1>1, <2>4 DEF MigrationHolds
    <3>2. Versions \subseteq Nat /\ Versions \ applied \subseteq call[p].todo
        BY <1>1, <3>1, SetsAre DEF Orderly
    <3>3. \A w \in Versions : w < v => w \in applied BY <1>3, <3>2
    <3>4. Migrator!NoneLeftOut' BY <1>5, <3>1, <3>3, <2>4, <1>1 DEF Migrator!NoneLeftOut
    <3>5. OneWay' BY <1>2, <2>1, <3>1 DEF OneWay
    <3>6. \A q \in Procs : call[q].pc # "down" BY <1>1, <1>2, <2>2, <3>1 DEF OneWay
    <3>7. ASSUME NEW q \in Procs PROVE Orderly(q)'
      <4>1. CASE q # p BY <1>5, <2>1, <3>1, <3>6, <4>1 DEF Orderly
      <4>2. CASE q = p BY <1>1, <1>5, <2>1, <2>2, <3>2, <4>2 DEF Orderly
      <4> QED BY <4>1, <4>2
    <3> QED BY <3>4, <3>5, <3>7
  <2> QED BY <2>3, <2>4 DEF MigrationHolds
<1> QED BY <1>1, <1>4, <1>5

LEMMA RolledBack ==
    ASSUME MigrationHolds, NEW p \in Procs, Migrator!RollBack(p)
    PROVE  MigrationHolds'
<1> DEFINE v == Migrator!Max(call[p].todo)
<1>1. /\ MigrationTyped /\ call[p].pc = "down" /\ mixed' = mixed
      /\ \/ Migrator!Return(p) /\ UNCHANGED <<applied, schema>>
         \/ /\ schema' = schema \ {v} /\ applied' = applied \ {v}
            /\ Migrator!Continue(p, v)
    BY DEF MigrationHolds, Migrator!RollBack, Migrator!At
<1>2. call[p] # Idle /\ call[p] \in Run /\ call[p].todo # {} BY <1>1 DEF Idle, MigrationTyped
<1>3. v \in call[p].todo /\ (\A w \in call[p].todo : v >= w) /\ v \in Versions
  <2>1. call[p].todo \in SUBSET Versions BY <1>2 DEF Run
  <2> QED BY <1>2, <2>1, FirstAndLast
<1> HIDE DEF v
<1>4. CASE Migrator!Return(p) /\ UNCHANGED <<applied, schema>> BY <1>1, <1>2, <1>4, Ends
<1>5. CASE /\ schema' = schema \ {v} /\ applied' = applied \ {v}
           /\ Migrator!Continue(p, v)
  <2>1. /\ DOMAIN call' = Procs /\ \A q \in Procs \ {p} : call'[q] = call[q]
        /\ \/ call'[p] = Idle
           \/ /\ call'[p] \in Run /\ call'[p].pc = call[p].pc
              /\ call'[p].todo = call[p].todo \ {v} /\ call[p].todo # {v}
      BY <1>1, <1>2, <1>5, GoesOn
  <2>2. Idle.pc # "up" /\ Idle.pc # "down" BY DEF Idle
  <2>3. MigrationTyped'
    <3>1. \A q \in Procs : call'[q].pc = "down" => call'[q].todo # {}
        BY <1>1, <1>2, <1>3, <2>1, <2>2 DEF MigrationTyped
    <3> QED BY <1>1, <1>5, <2>1, <3>1 DEF MigrationTyped
  <2>4. ASSUME ~mixed'
        PROVE  /\ Migrator!NoneLeftOut' /\ OneWay' /\ \A q \in Procs : Orderly(q)'
    <3>1. ~mixed /\ Migrator!NoneLeftOut /\ OneWay /\ \A q \in Procs : Orderly(q)
        BY <1>1, <2>4 DEF MigrationHolds
    <3>2. Versions \subseteq Nat /\ applied \subseteq Versions
        BY <1>1, SetsAre DEF MigrationTyped
    <3>3. \A w \in applied : w <= v
        BY <1>1, <1>3, <3>1, <3>2 DEF Orderly
    <3>4. Migrator!NoneLeftOut'
        BY <1>3, <1>5, <3>1, <3>2, <3>3 DEF Migrator!NoneLeftOut
    <3>5. OneWay' BY <1>2, <2>1, <3>1 DEF OneWay
    <3>6. \A q \in Procs : call[q].pc # "up" BY <1>1, <1>2, <2>2, <3>1 DEF OneWay
    <3>7. ASSUME NEW q \in Procs PROVE Orderly(q)'
      <4>1. CASE q # p BY <1>5, <2>1, <3>1, <3>6, <4>1 DEF Orderly
      <4>2. CASE q = p BY <1>1, <1>5, <2>1, <2>2, <3>1, <4>2 DEF Orderly
      <4> QED BY <4>1, <4>2
    <3> QED BY <3>4, <3>5, <3>7
  <2> QED BY <2>3, <2>4 DEF MigrationHolds
<1> QED BY <1>1, <1>4, <1>5

\* What a down takes back is not empty, and all that comes after it.
LEMMA LastSteps ==
    ASSUME MigrationTyped, applied # {}, NEW steps \in Nat \ {0}
    PROVE  LET versions == {v \in applied : Migrator!Cardinality({w \in applied : w > v}) < steps}
           IN  /\ versions # {}
               /\ \A v \in versions, w \in applied : w > v => w \in versions
<1> DEFINE After(v) == {w \in applied : w > v}
<1>1. \A S : Migrator!Cardinality(S) = Cardinality(S) BY DEF Migrator!Cardinality, Cardinality
<1>2. applied \in SUBSET Versions /\ Versions \subseteq Nat
    BY SetsAre DEF MigrationTyped
<1>3. ASSUME NEW v \in applied
      PROVE  IsFiniteSet(After(v)) /\ Cardinality(After(v)) \in Nat
    BY <1>2, SetsAre, FS_Subset, FS_CardinalityType
<1>4. ASSUME NEW v \in applied, NEW w \in applied, w > v
      PROVE  Cardinality(After(w)) <= Cardinality(After(v))
  <2>1. \A x \in applied : x \in Nat BY <1>2
  <2>3. \A x \in applied : x > w => x > v BY <1>4, <2>1
  <2>2. After(w) \subseteq After(v) BY <2>3
  <2> QED BY <1>3, <2>2, FS_Subset
<1>5. PICK m \in applied : \A w \in applied : m >= w BY <1>2, FirstAndLast
<1>6. After(m) = {}
  <2>1. \A x \in applied : x \in Nat BY <1>2
  <2>2. \A x \in applied : ~(x > m) BY <1>5, <2>1
  <2> QED BY <2>2
<1>7. Cardinality(After(m)) = 0 BY <1>6, FS_EmptySet
<1>8. \A v \in applied, w \in applied : w > v /\ Cardinality(After(v)) < steps => Cardinality(After(w)) < steps
  <2> HIDE DEF After
  <2> QED BY <1>3, <1>4
<1>9. 0 < steps OBVIOUS
<1> QED BY <1>1, <1>5, <1>7, <1>8, <1>9

LEMMA MigrationStep ==
    ASSUME MigrationIInv, Unbounded
    PROVE  MigrationIInv'
<1>1. CASE subject # "migrations"
  <2>1. subject' = subject /\ UNCHANGED MigrationVars BY <1>1, MigrationSteps
  <2> QED BY <1>1, <2>1 DEF MigrationIInv, MigrationVars
<1>2. CASE subject = "migrations"
  <2>1. subject' = "migrations" /\ MigrationHolds /\ MigrationTyped
      BY <1>2, MigrationSteps DEF MigrationIInv, MigrationHolds
  <2>2. ASSUME NEW p \in Procs, Migrator!Work(p) PROVE MigrationHolds'
    <3>1. CASE Migrator!MigrateUp(p)
      <4>1. Versions \ applied \in SUBSET Versions OBVIOUS
      <4> QED BY <2>1, <3>1, <4>1, Begins DEF Migrator!MigrateUp
    <3>2. ASSUME NEW steps \in 1..Migrator!Cardinality(Versions), Migrator!MigrateDown(p, steps)
          PROVE  MigrationHolds'
      <4> DEFINE versions == {v \in applied : Migrator!Cardinality({w \in applied : w > v}) < steps}
      <4>1. Migrator!Cardinality(Versions) = Cardinality(Versions)
          BY DEF Migrator!Cardinality, Cardinality
      <4>2. Cardinality(Versions) \in Nat BY SetsAre, FS_CardinalityType
      <4>3. steps \in Nat \ {0} BY <4>1, <4>2
      <4>4. applied # {} /\ Migrator!Begin(p, "down", versions) BY <3>2 DEF Migrator!MigrateDown
      <4>5. /\ versions # {}
            /\ \A v \in versions, w \in applied : w > v => w \in versions
          BY <2>1, <4>3, <4>4, LastSteps
      <4>6. versions \in SUBSET Versions BY <2>1 DEF MigrationTyped
      <4> HIDE DEF versions
      <4> QED BY <2>1, <4>4, <4>5, <4>6, Begins
    <3>3. CASE Migrator!Apply(p) BY <2>1, <3>3, Applied
    <3>4. CASE Migrator!RollBack(p) BY <2>1, <3>4, RolledBack
    <3>5. CASE Migrator!NothingToDo(p)
      <4>1. call[p] # Idle BY <3>5 DEF Migrator!NothingToDo, Migrator!At, Idle
      <4> QED BY <2>1, <3>5, <4>1, Ends DEF Migrator!NothingToDo
    <3> QED BY <2>2, <3>1, <3>2, <3>3, <3>4, <3>5 DEF Migrator!Work
  <2>3. CASE Migrator!Fail
    <3>1. PICK p \in Procs : Migrator!Stop(p) /\ UNCHANGED <<applied, schema, mixed>>
        BY <2>3 DEF Migrator!Fail
    <3>2. call[p] # Idle /\ Migrator!Return(p)
        BY <3>1 DEF Migrator!Stop, Migrator!Idle, Idle
    <3> QED BY <2>1, <3>1, <3>2, Ends DEF MigrationIInv
  <2> QED BY <1>2, <2>1, <2>2, <2>3, MigrationSteps DEF MigrationIInv
<1> QED BY <1>1, <1>2

LEMMA MigrationStutter ==
    ASSUME MigrationIInv, subject' = subject, call' = call, UNCHANGED MigrationVars
    PROVE  MigrationIInv'
BY DEF MigrationIInv, MigrationHolds, MigrationTyped, MigrationVars, OneWay, Orderly,
     Migrator!NoneLeftOut

LEMMA MigrationSound ==
    ASSUME MigrationIInv
    PROVE  Migrator!HistoryIsSchema /\ Migrator!NoneLeftOut /\ Migrator!TypeOK
BY DEF MigrationIInv, MigrationHolds, MigrationTyped, Migrator!HistoryIsSchema,
     Migrator!NoneLeftOut, Migrator!TypeOK

-----------------------------------------------------------------------------
(* Rows of the first services (FirstServices).                             *)

RowVars == <<second, row, made, asked>>

\* What has a value for each table and id, whatever it is.
IsTable(x) == x = [t \in First!Tables |-> [id \in First!Ids |-> x[t][id]]]

RowTyped ==
    /\ DOMAIN call = Procs
    /\ \A p \in Procs : call[p].pc = "save" =>
         /\ call[p].table \in First!Tables /\ call[p].id \in First!Ids
         /\ call[p].columns # First!Absent
    /\ \A p \in Procs : call[p].pc = "save" \/ call[p] = Idle
    /\ second \in First!Ids
    /\ IsTable(row) /\ IsTable(asked)
    /\ made \in [First!Tables -> [First!Ids -> Nat]]

RowOnce ==
    \A t \in First!Tables, id \in First!Ids :
        /\ made[t][id] <= 1
        /\ row[t][id] = First!Absent => made[t][id] = 0

\* Columns are those asked for, or a call is about to save them.
RowKept ==
    /\ One
    /\ \A t \in First!Tables, id \in First!Ids :
         \/ row[t][id] = asked[t][id]
         \/ \E p \in Procs : call[p].pc = "save" /\ call[p].table = t /\ call[p].id = id
    /\ \A p \in Procs : call[p].pc = "save" => asked[call[p].table][call[p].id] = call[p].columns

RowHolds ==
    /\ RowTyped
    /\ RowOnce
    /\ Serial => RowKept

RowIInv ==
    IF subject = "legacy" THEN RowHolds
    ELSE First!RowTypeOK /\ First!IdGivenOnce /\ First!ColumnsKept

LEMMA RowSteps ==
    ASSUME Unbounded
    PROVE  /\ subject' = subject
           /\ subject # "legacy" => UNCHANGED RowVars
           /\ subject = "legacy" =>
                \/ Called /\ (First!Make \/ \E p \in Procs : First!RowWork(p))
                \/ UNCHANGED calm /\ First!RowTick
                \/ calm' = "faulty" /\ First!RowFail
BY DEF Unbounded, Calls, World, Faults, Steps, Frame, RowVars

Changed(x, table, key, new) == [x EXCEPT ![table][key] = new]

\* What a change of one entry makes of a table.
LEMMA EntrySet ==
    ASSUME NEW x, IsTable(x), NEW table \in First!Tables, NEW key \in First!Ids, NEW new
    PROVE  LET y == Changed(x, table, key, new)
           IN  /\ IsTable(y) /\ y[table][key] = new
               /\ \A t \in First!Tables, id \in First!Ids :
                    t # table \/ id # key => y[t][id] = x[t][id]
<1> DEFINE y == Changed(x, table, key, new)
<1> USE DEF Changed
<1>1. DOMAIN x = First!Tables /\ \A t \in First!Tables : DOMAIN x[t] = First!Ids BY DEF IsTable
<1>2. \A t \in First!Tables, id \in First!Ids :
         y[t][id] = IF t = table /\ id = key THEN new ELSE x[t][id]
    BY <1>1
<1>3. y = [t \in First!Tables |-> IF t = table THEN [x[table] EXCEPT ![key] = new] ELSE x[t]]
    BY <1>1
<1>4. \A t \in First!Tables : x[t] = [id \in First!Ids |-> x[t][id]]
    BY DEF IsTable
<1>5. \A t \in First!Tables : y[t] = [id \in First!Ids |-> y[t][id]]
    BY <1>1, <1>3, <1>4
<1>6. IsTable(y) BY <1>3, <1>5 DEF IsTable
<1> QED BY <1>2, <1>6

LEMMA RowTypes ==
    /\ First!Absent = <<>>
    /\ \A columns, change : First!With(columns, change) # First!Absent
    /\ \A a, b : <<a, b>> # First!Absent
<1>1. \A columns, change : DOMAIN First!With(columns, change) = 1..2 BY DEF First!With
<1>2. DOMAIN <<>> = 1..0 /\ 1 \in 1..2 /\ 1 \notin 1..0 OBVIOUS
<1>3. \A a, b : DOMAIN <<a, b>> = 1..2 OBVIOUS
<1> QED BY <1>1, <1>2, <1>3 DEF First!Absent

LEMMA RowCreates ==
    ASSUME RowHolds, NEW table \in First!Tables, NEW id \in First!Ids, NEW columns,
           columns # First!Absent, Called, First!Create(table, id, columns)
    PROVE  RowHolds'
<1>1. /\ row[table][id] = First!Absent
      /\ row' = Changed(row, table, id, columns)
      /\ asked' = Changed(asked, table, id, columns)
      /\ made' = [made EXCEPT ![table][id] = made[table][id] + 1]
      /\ call' = call /\ second' = second
    BY DEF First!Create, Changed
<1>2. RowTyped /\ RowOnce /\ IsTable(row) /\ IsTable(asked) BY DEF RowHolds, RowTyped
<1>3. /\ IsTable(row') /\ row'[table][id] = columns
      /\ \A t \in First!Tables, i \in First!Ids : t # table \/ i # id => row'[t][i] = row[t][i]
    BY <1>1, <1>2, EntrySet
<1>4. /\ IsTable(asked') /\ asked'[table][id] = columns
      /\ \A t \in First!Tables, i \in First!Ids : t # table \/ i # id => asked'[t][i] = asked[t][i]
    BY <1>1, <1>2, EntrySet
<1>5. /\ made \in [First!Tables -> [First!Ids -> Nat]] /\ made[table][id] = 0
      /\ \A t \in First!Tables, i \in First!Ids : made[t][i] \in Nat
    BY <1>1, <1>2 DEF RowTyped, RowOnce
<1>6. made' \in [First!Tables -> [First!Ids -> Nat]] BY <1>1, <1>5
<1>7. \A t \in First!Tables, i \in First!Ids :
         made'[t][i] = IF t = table /\ i = id THEN 1 ELSE made[t][i]
    BY <1>1, <1>5
<1>8. RowTyped' BY <1>1, <1>2, <1>3, <1>4, <1>6 DEF RowTyped
<1>9. RowOnce' BY <1>2, <1>3, <1>7 DEF RowOnce
<1>10. ASSUME Serial' PROVE RowKept'
  <2>1. Serial /\ \A p \in Procs : call[p] = Idle BY <1>1, <1>10, SerialStep DEF Serial
  <2>2. \A t \in First!Tables, i \in First!Ids : row[t][i] = asked[t][i]
      BY <2>1 DEF RowHolds, RowKept, Idle
  <2>3. \A t \in First!Tables, i \in First!Ids : row'[t][i] = asked'[t][i] BY <1>3, <1>4, <2>2
  <2> QED BY <1>1, <2>1, <2>3 DEF RowKept, One, Idle
<1> QED BY <1>8, <1>9, <1>10 DEF RowHolds

\* A call reads the row, to save columns it has changed.
LEMMA RowReads ==
    ASSUME RowHolds, NEW p \in Procs, NEW table \in First!Tables, NEW id \in First!Ids, NEW change,
           Called, First!First(p, table, id, change)
    PROVE  RowHolds'
<1> DEFINE columns == First!With(row[table][id], change)
           new == [pc |-> "save", table |-> table, id |-> id, columns |-> columns]
<1>1. /\ call[p] = Idle
      /\ call' = [call EXCEPT ![p] = new]
      /\ asked' = Changed(asked, table, id, First!With(asked[table][id], change))
      /\ UNCHANGED <<second, row, made>>
    BY DEF First!First, First!Goto, First!Idle, Idle, Changed
<1>2. RowTyped /\ RowOnce /\ IsTable(asked) BY DEF RowHolds, RowTyped
<1>3. /\ IsTable(asked') /\ asked'[table][id] = First!With(asked[table][id], change)
      /\ \A t \in First!Tables, i \in First!Ids : t # table \/ i # id => asked'[t][i] = asked[t][i]
    BY <1>1, <1>2, EntrySet
<1>4. /\ DOMAIN call' = Procs /\ \A q \in Procs \ {p} : call'[q] = call[q]
      /\ call'[p] = new
    BY <1>1, <1>2 DEF RowTyped
<1>5. columns # First!Absent BY RowTypes
<1>6. /\ new.pc = "save" /\ new.table = table /\ new.id = id /\ new.columns = columns
      /\ new # Idle
  <2>1. new.pc # Idle.pc BY DEF Idle
  <2> QED BY <2>1
<1> HIDE DEF new, columns
<1>7. RowTyped' BY <1>1, <1>2, <1>3, <1>4, <1>5, <1>6 DEF RowTyped
<1>8. RowOnce' BY <1>1, <1>2 DEF RowOnce
<1>9. ASSUME Serial' PROVE RowKept'
  <2>1. Serial /\ \A q \in Procs \ {p} : call[q] = Idle BY <1>4, <1>6, <1>9, SerialStep DEF Serial
  <2>2. \A q \in Procs : call[q].pc # "save" BY <1>1, <2>1 DEF Idle
  <2>3. \A t \in First!Tables, i \in First!Ids : row[t][i] = asked[t][i]
      BY <2>1, <2>2 DEF RowHolds, RowKept
  <2>4. asked'[table][id] = columns BY <1>3, <2>3 DEF columns
  <2>5. \A q \in Procs : call'[q].pc = "save" => q = p BY <1>4, <2>2
  <2>6. One' BY <1>4, <2>1 DEF One
  <2> QED BY <1>1, <1>3, <1>4, <1>6, <2>3, <2>4, <2>5, <2>6 DEF RowKept
<1> QED BY <1>7, <1>8, <1>9 DEF RowHolds

LEMMA RowSaves ==
    ASSUME RowHolds, NEW p \in Procs, Called, First!Save(p)
    PROVE  RowHolds'
<1> DEFINE table == call[p].table
           id == call[p].id
<1>1. /\ call[p].pc = "save" /\ call' = [call EXCEPT ![p] = Idle]
      /\ row' = Changed(row, table, id, call[p].columns)
      /\ UNCHANGED <<second, made, asked>>
    BY DEF First!Save, First!At, First!Return, First!Goto, First!Idle, Idle, Changed
<1>2. /\ RowTyped /\ RowOnce /\ IsTable(row)
      /\ table \in First!Tables /\ id \in First!Ids /\ call[p].columns # First!Absent
    BY <1>1 DEF RowHolds, RowTyped
<1> HIDE DEF table, id
<1>3. /\ IsTable(row') /\ row'[table][id] = call[p].columns
      /\ \A t \in First!Tables, i \in First!Ids : t # table \/ i # id => row'[t][i] = row[t][i]
    BY <1>1, <1>2, EntrySet
<1>4. /\ DOMAIN call' = Procs /\ \A q \in Procs \ {p} : call'[q] = call[q]
      /\ call'[p] = Idle /\ Idle.pc # "save"
    BY <1>1, <1>2 DEF RowTyped, Idle
<1>5. RowTyped' BY <1>1, <1>2, <1>3, <1>4 DEF RowTyped
<1>6. RowOnce' BY <1>1, <1>2, <1>3 DEF RowOnce
<1>7. ASSUME Serial' PROVE RowKept'
  <2>1. call[p] # Idle BY <1>1 DEF Idle
  <2>2. Serial /\ \A q \in Procs \ {p} : call[q] = Idle BY <1>7, <2>1, SerialStep DEF Serial
  <2>3. \A q \in Procs : call[q].pc = "save" => q = p BY <2>2, <1>4
  <2>4. RowKept BY <2>2 DEF RowHolds
  <2>5. asked[table][id] = call[p].columns BY <1>1, <2>4 DEF RowKept, table, id
  <2>6. \A t \in First!Tables, i \in First!Ids : t # table \/ i # id => row[t][i] = asked[t][i]
      BY <2>3, <2>4 DEF RowKept, table, id
  <2>7. \A t \in First!Tables, i \in First!Ids : row'[t][i] = asked'[t][i]
      BY <1>1, <1>3, <2>5, <2>6
  <2>8. \A q \in Procs : call'[q] = Idle BY <1>4, <2>2
  <2> QED BY <1>4, <2>7, <2>8 DEF RowKept, One
<1> QED BY <1>5, <1>6, <1>7 DEF RowHolds

LEMMA RowStep ==
    ASSUME RowIInv, Unbounded
    PROVE  RowIInv'
<1>1. CASE subject # "legacy"
  <2>1. subject' = subject /\ UNCHANGED RowVars BY <1>1, RowSteps
  <2> QED BY <1>1, <2>1 DEF RowIInv, RowVars, First!RowTypeOK, First!IdGivenOnce, First!ColumnsKept
<1>2. CASE subject = "legacy"
  <2>1. subject' = "legacy" /\ RowHolds /\ RowMaxTime \in Nat /\ second \in First!Ids
      BY <1>2, RowSteps, BoundsAre DEF RowIInv, RowHolds, RowTyped
  <2>2. 0 \in First!Ids BY <2>1 DEF First!Ids
  <2>3. {"orders", "payments", "riders", "notifications"} \subseteq First!Tables BY DEF First!Tables
  <2>4. CASE Called /\ First!Make
    <3>1. PICK table \in First!Tables, id \in First!Ids : \E a, b : First!Create(table, id, <<a, b>>)
        BY <2>1, <2>2, <2>3, <2>4
        DEF First!Make, First!CreateOrder, First!Charge, First!Register, First!SendNotification
    <3> QED BY <2>1, <2>4, <3>1, RowTypes, RowCreates DEF RowIInv
  <2>5. ASSUME NEW p \in Procs, Called, First!RowWork(p) PROVE RowHolds'
    <3>1. CASE First!Save(p) BY <2>1, <2>5, <3>1, RowSaves
    <3>2. CASE ~First!Save(p)
      <4>1. PICK table \in First!Tables, id \in First!Ids : \E change : First!First(p, table, id, change)
          BY <2>2, <2>3, <2>5, <3>2
          DEF First!RowWork, First!UpdateStatus, First!Refund, First!UpdateLocation,
              First!UpdateAvailability
      <4> QED BY <2>1, <2>5, <4>1, RowReads
    <3> QED BY <3>1, <3>2
  <2>6. CASE UNCHANGED calm /\ First!RowTick
    <3>1. /\ second' \in First!Ids /\ UNCHANGED <<call, row, made, asked>>
        BY <2>1, <2>6 DEF First!RowTick, First!Ids
    <3>2. RowHolds'
        BY <2>1, <2>6, <3>1 DEF RowHolds, RowTyped, RowOnce, RowKept, Serial, One
    <3> QED BY <2>1, <3>2 DEF RowIInv
  <2>7. CASE calm' = "faulty" /\ First!RowFail
    <3>1. PICK p \in Procs : call' = [call EXCEPT ![p] = Idle] /\ UNCHANGED <<second, row, made, asked>>
        BY <2>7 DEF First!RowFail, First!Return, First!Goto, First!Idle, Idle
    <3>2. ~Serial' BY <2>7 DEF Serial
    <3>3. RowTyped BY <2>1 DEF RowHolds
    <3>4. /\ DOMAIN call' = Procs /\ \A q \in Procs \ {p} : call'[q] = call[q]
          /\ call'[p] = Idle /\ Idle.pc # "save"
        BY <3>1, <3>3 DEF RowTyped, Idle
    <3>5. RowTyped' BY <3>1, <3>3, <3>4 DEF RowTyped
    <3> QED BY <2>1, <3>1, <3>2, <3>5 DEF RowIInv, RowHolds, RowOnce
  <2> QED BY <1>2, <2>1, <2>4, <2>5, <2>6, <2>7, RowSteps DEF RowIInv
<1> QED BY <1>1, <1>2

LEMMA RowStutter ==
    ASSUME RowIInv, subject' = subject, call' = call, calm' = calm, UNCHANGED RowVars
    PROVE  RowIInv'
BY DEF RowIInv, RowHolds, RowTyped, RowOnce, RowKept, Serial, One, RowVars,
     First!RowTypeOK, First!IdGivenOnce, First!ColumnsKept

LEMMA RowSound ==
    ASSUME RowIInv
    PROVE  /\ First!IdGivenOnce /\ First!RowTypeOK
           /\ Serial /\ Busy = {} => First!ColumnsKept
<1>1. CASE subject = "legacy"
  <2>1. RowHolds BY <1>1 DEF RowIInv
  <2>2. First!IdGivenOnce /\ First!RowTypeOK
      BY <2>1 DEF RowHolds, RowOnce, RowTyped, First!IdGivenOnce, First!RowTypeOK
  <2>3. ASSUME Serial, Busy = {} PROVE First!ColumnsKept
    <3>1. \A p \in Procs : call[p].pc # "save" BY <2>3 DEF Busy, Idle
    <3>2. \A t \in First!Tables, id \in First!Ids : row[t][id] = asked[t][id]
        BY <2>1, <2>3, <3>1 DEF RowHolds, RowKept
    <3> QED BY <2>1, <3>2 DEF RowHolds, RowTyped, IsTable, First!ColumnsKept
  <2> QED BY <2>2, <2>3
<1>2. CASE subject # "legacy" BY <1>2 DEF RowIInv
<1> QED BY <1>1, <1>2

-----------------------------------------------------------------------------
(* One review of an order (AbuseDetection).                                *)

OnceVars == <<delivered, reviews>>

OnceHolds ==
    /\ delivered \subseteq Abuse!Orders
    /\ reviews \in [Abuse!Orders -> Nat]
    /\ Serial =>
         /\ One
         /\ \A o \in Abuse!Orders : reviews[o] <= 1
         /\ \A p \in Procs : call[p].pc \in {"limit", "burst", "save"} => reviews[call[p].order] = 0

OnceIInv ==
    IF subject = "review" THEN OnceHolds
    ELSE delivered = {} /\ reviews = [o \in Abuse!Orders |-> 0]

LEMMA OnceStep ==
    ASSUME ReviewIInv, OnceIInv, Unbounded
    PROVE  OnceIInv'
<1>1. CASE subject # "review"
  <2>1. subject' = subject /\ UNCHANGED OnceVars
      BY <1>1 DEF Unbounded, Calls, World, Faults, Steps, Frame, OnceVars
  <2> QED BY <1>1, <2>1 DEF OnceIInv, OnceVars
<1>2. CASE subject = "review"
  <2>1. /\ subject' = "review" /\ OnceHolds
        /\ DOMAIN call = Procs /\ \A p \in Procs : call[p] \in {Idle} \cup Review
      BY <1>2, ReviewSteps DEF OnceIInv, ReviewIInv, ReviewHolds, ReviewTyped
  <2>2. \A p \in Procs : call[p] # Idle => call[p].order \in Abuse!Orders
      BY <2>1 DEF Review
  <2>3. CASE Abuse!TimePasses \/ \E o \in Abuse!Orders : Abuse!Deliver(o)
    <3>1. UNCHANGED <<call, reviews>> /\ delivered' \subseteq Abuse!Orders
        BY <2>1, <2>3 DEF Abuse!TimePasses, Abuse!Deliver, OnceHolds
    <3>2. CASE Serial'
      <4>1. Serial BY <1>2, <3>2, ReviewSteps, SerialStep DEF Serial
      <4> QED BY <2>1, <3>1, <4>1 DEF OnceIInv, OnceHolds, One
    <3>3. CASE ~Serial' BY <2>1, <3>1, <3>3 DEF OnceIInv, OnceHolds
    <3> QED BY <3>2, <3>3
  <2>4. CASE calm' = "faulty" /\ Abuse!ReviewFail
    <3>1. UNCHANGED <<reviews, delivered>> /\ ~Serial'
        BY <2>4 DEF Abuse!ReviewFail, Abuse!ReadError, Abuse!store, Serial
    <3> QED BY <2>1, <3>1 DEF OnceIInv, OnceHolds
  <2>5. ASSUME NEW p \in Procs, Called, Abuse!ReviewWork(p) PROVE OnceIInv'
    <3> USE DEF Abuse!Goto, Abuse!Return, Abuse!Idle, Abuse!At, Idle, Abuse!Proceed, Abuse!store
    <3>1. \A q \in Procs \ {p} : call'[q] = call[q]
      <4>1. CASE Abuse!SaveReview(p) BY <2>1, <4>1 DEF Abuse!SaveReview
      <4>2. CASE ~Abuse!SaveReview(p)
          BY <2>1, <2>5, <4>2 DEF Abuse!ReviewWork, Abuse!PostReview, Abuse!CheckReviewed,
             Abuse!CheckLimit, Abuse!CheckBurst
      <4> QED BY <4>1, <4>2
    <3>2. ASSUME Serial' PROVE Serial /\ One' /\ \A q \in Procs \ {p} : call[q] = Idle
      <4>1. call[p] # Idle \/ call'[p] # Idle
        <5>1. CASE call[p] = Idle
          <6>1. \E u \in Reviewers, o \in Abuse!Orders, five \in BOOLEAN : Abuse!PostReview(p, u, o, five)
              BY <2>5, <5>1 DEF Abuse!ReviewWork, Abuse!CheckReviewed, Abuse!CheckLimit,
                 Abuse!CheckBurst, Abuse!SaveReview
          <6>2. call'[p].pc = "reviewed" BY <2>1, <6>1 DEF Abuse!PostReview
          <6> QED BY <6>2
        <5> QED BY <5>1
      <4>2. /\ Serial
            /\ \A q, r \in Procs : (call[q] # Idle \/ call'[q] # Idle)
                                  /\ (call[r] # Idle \/ call'[r] # Idle) => q = r
          BY <2>5, <3>2, SerialStep DEF Serial
      <4>3. One' BY <4>2 DEF One
      <4>4. \A q \in Procs \ {p} : call[q] = Idle BY <4>1, <4>2
      <4> QED BY <4>2, <4>3, <4>4
    <3>3. CASE Abuse!SaveReview(p)
      <4> DEFINE o == call[p].order
      <4>1. /\ call[p].pc = "save" /\ delivered' = delivered
            /\ reviews' = [reviews EXCEPT ![o] = reviews[o] + 1] /\ call'[p] = Idle
          BY <2>1, <3>3 DEF Abuse!SaveReview
      <4>2. o \in Abuse!Orders /\ reviews \in [Abuse!Orders -> Nat] /\ delivered \subseteq Abuse!Orders
          BY <2>1, <2>2, <4>1 DEF OnceHolds
      <4>3. reviews' \in [Abuse!Orders -> Nat] BY <4>1, <4>2
      <4>4. ASSUME Serial'
            PROVE  /\ One'
                   /\ \A oo \in Abuse!Orders : reviews'[oo] <= 1
                   /\ \A q \in Procs : call'[q].pc \in {"limit", "burst", "save"} => reviews'[call'[q].order] = 0
        <5>1. Serial /\ One' /\ \A q \in Procs : call'[q] = Idle BY <3>1, <3>2, <4>1, <4>4
        <5>2. reviews[o] = 0 /\ \A oo \in Abuse!Orders : reviews[oo] <= 1 BY <2>1, <4>1, <5>1 DEF OnceHolds
        <5> QED BY <4>1, <4>2, <5>1, <5>2
      <4> QED BY <2>1, <4>1, <4>2, <4>3, <4>4 DEF OnceIInv, OnceHolds
    <3>4. CASE ~Abuse!SaveReview(p)
      <4>1. UNCHANGED <<delivered, reviews>>
          BY <2>5, <3>4 DEF Abuse!ReviewWork, Abuse!PostReview, Abuse!CheckReviewed,
             Abuse!CheckLimit, Abuse!CheckBurst
      <4>2. ASSUME Serial', call'[p].pc \in {"limit", "burst", "save"}
            PROVE  reviews[call'[p].order] = 0
        <5>1. CASE Abuse!CheckReviewed(p)
          <6>1. call[p] \in Review BY <2>1, <5>1 DEF Abuse!CheckReviewed
          <6>2. ~(reviews[call[p].order] > 0) /\ call'[p] = [call[p] EXCEPT !.pc = "limit"]
              BY <2>1, <4>2, <5>1 DEF Abuse!CheckReviewed
          <6>3. call'[p].order = call[p].order BY <6>1, <6>2 DEF Review
          <6>4. reviews[call[p].order] \in Nat BY <2>1, <2>2, <6>1 DEF Review, OnceHolds
          <6> QED BY <6>2, <6>3, <6>4
        <5>2. CASE Abuse!CheckLimit(p) \/ Abuse!CheckBurst(p)
          <6>1. call[p] \in Review /\ call[p].pc \in {"limit", "burst", "save"}
              BY <2>1, <5>2 DEF Abuse!CheckLimit, Abuse!CheckBurst
          <6>2. \E to \in {"burst", "save"} : call'[p] = [call[p] EXCEPT !.pc = to]
              BY <2>1, <4>2, <5>2 DEF Abuse!CheckLimit, Abuse!CheckBurst
          <6>3. call'[p].order = call[p].order BY <6>1, <6>2 DEF Review
          <6> QED BY <2>1, <3>2, <4>2, <6>1, <6>3 DEF OnceHolds
        <5>3. CASE \E u \in Reviewers, o \in Abuse!Orders, five \in BOOLEAN : Abuse!PostReview(p, u, o, five)
            BY <2>1, <4>2, <5>3 DEF Abuse!PostReview
        <5> QED BY <2>5, <3>4, <5>1, <5>2, <5>3 DEF Abuse!ReviewWork
      <4>3. ASSUME Serial'
            PROVE  /\ One'
                   /\ \A oo \in Abuse!Orders : reviews'[oo] <= 1
                   /\ \A q \in Procs : call'[q].pc \in {"limit", "burst", "save"} => reviews'[call'[q].order] = 0
          BY <2>1, <3>1, <3>2, <4>1, <4>2, <4>3 DEF OnceHolds
      <4> QED BY <2>1, <4>1, <4>3 DEF OnceIInv, OnceHolds
    <3> QED BY <3>3, <3>4
  <2> QED BY <1>2, <2>3, <2>4, <2>5, ReviewSteps
<1> QED BY <1>1, <1>2

LEMMA OnceStutter ==
    ASSUME OnceIInv, subject' = subject, call' = call, calm' = calm, UNCHANGED OnceVars
    PROVE  OnceIInv'
BY DEF OnceIInv, OnceHolds, OnceVars, Serial, One

LEMMA OnceSound ==
    ASSUME OnceIInv, Serial
    PROVE  Abuse!OneReviewPerOrder
BY DEF OnceIInv, OnceHolds, Abuse!OneReviewPerOrder

-----------------------------------------------------------------------------
(* One token of a login (AuthLibrary).                                     *)

TokenVars == <<token, ended>>

Token == [login : AuthIds, device : Devices, revoked : BOOLEAN, expired : BOOLEAN]

Refresh == [pc : {"revoke", "save"}, old : Auth!Stored, device : Devices]

TokenTyped ==
    /\ DOMAIN call = Procs
    /\ \A p \in Procs : call[p] = Idle \/ call[p] \in Refresh
    /\ token \in Seq(Token)
    /\ ended \subseteq AuthIds

\* Logins are numbered by their first token; each has one, but those that ended
\* and one whose new token is about to be saved.
TokenOnce ==
    /\ One
    /\ \A t \in Auth!Stored : token[t].login \in 1..Len(token)
    /\ ended \subseteq 1..Len(token)
    /\ \A login \in Auth!Logins :
         IF login \in ended \/ \E p \in Procs : /\ call[p].pc = "save"
                                                /\ token[call[p].old].login = login
           THEN Auth!Unrevoked(login) = {}
           ELSE \E t \in Auth!Stored : Auth!Unrevoked(login) = {t}
    /\ \A p \in Procs :
         /\ call[p] # Idle => token[call[p].old].login \notin ended
         /\ call[p].pc = "revoke" => ~token[call[p].old].revoked

TokenHolds == TokenTyped /\ (Serial => TokenOnce)

TokenIInv == IF subject = "tokens" THEN TokenHolds ELSE token = <<>> /\ ended = {}

LEMMA TokenSteps ==
    ASSUME Unbounded
    PROVE  /\ subject' = subject
           /\ subject # "tokens" => UNCHANGED TokenVars
           /\ subject = "tokens" =>
                \/ Called /\ \/ \E p \in Procs : Auth!TokenWork(p)
                             \/ \E device \in Devices : Auth!GenerateTokenPair(device)
                             \/ Auth!Revoke
                \/ UNCHANGED calm /\ \E t \in Auth!Stored : Auth!Expire(t)
                \/ calm' = "faulty" /\ Auth!TokenFail
BY DEF Unbounded, Calls, World, Faults, Steps, Frame, TokenVars

\* A token is added for a login.
LEMMA TokenAdds ==
    ASSUME TokenTyped, NEW login \in AuthIds \cup {Len(token) + 1}, NEW device \in Devices,
           Auth!SaveRefreshToken(login, device)
    PROVE  /\ Len(token) + 1 \in AuthIds
           /\ token' \in Seq(Token) /\ Len(token') = Len(token) + 1
           /\ Auth!Stored' = Auth!Stored \cup {Len(token) + 1}
           /\ \A t \in Auth!Stored : token'[t] = token[t]
           /\ token'[Len(token) + 1].login = login /\ ~token'[Len(token) + 1].revoked
<1>1. token \in Seq(Token) /\ Len(token) \in Nat /\ Auth!Stored = 1..Len(token)
    BY DEF TokenTyped, Auth!Stored
<1>2. Cardinality(1..Len(token)) = Len(token) BY <1>1, FS_Interval
<1>3. /\ Len(token) + 1 \in AuthIds
      /\ token' = Append(token, [login |-> login, device |-> device, revoked |-> FALSE, expired |-> FALSE])
    BY <1>1, <1>2 DEF Auth!SaveRefreshToken, Auth!Cardinality, Cardinality
<1>4. [login |-> login, device |-> device, revoked |-> FALSE, expired |-> FALSE] \in Token
    BY <1>3 DEF Token
<1>5. token' \in Seq(Token) BY <1>1, <1>3, <1>4
<1>6. Len(token') = Len(token) + 1 BY <1>1, <1>3
<1>7. Auth!Stored' = 1..(Len(token) + 1) BY <1>5, <1>6 DEF Auth!Stored
<1>8. Auth!Stored' = Auth!Stored \cup {Len(token) + 1} BY <1>1, <1>7
<1>9. \A t \in Auth!Stored : token'[t] = token[t] BY <1>1, <1>3
<1>10. token'[Len(token) + 1] = [login |-> login, device |-> device, revoked |-> FALSE, expired |-> FALSE]
    BY <1>1, <1>3
<1>11. token'[Len(token) + 1].login = login /\ ~token'[Len(token) + 1].revoked BY <1>10
<1> QED BY <1>3, <1>5, <1>6, <1>8, <1>9, <1>11

\* What the unrevoked are, and the logins.
LEMMA TokenSets ==
    /\ \A login, t : t \in Auth!Unrevoked(login)
                       <=> t \in Auth!Stored /\ token[t].login = login /\ ~token[t].revoked
    /\ \A login : login \in Auth!Logins <=> \E t \in Auth!Stored : token[t].login = login
    /\ \A login, t : t \in Auth!Unrevoked(login)'
                       <=> t \in Auth!Stored' /\ token'[t].login = login /\ ~token'[t].revoked
    /\ \A login : login \in Auth!Logins' <=> \E t \in Auth!Stored' : token'[t].login = login
BY DEF Auth!Unrevoked, Auth!Logins

\* Some tokens are revoked: the unrevoked that remain.
LEMMA TokenRevoked ==
    ASSUME TokenTyped, Auth!Stored' = Auth!Stored,
           \A t \in Auth!Stored : token'[t].login = token[t].login
    PROVE  /\ Auth!Logins' = Auth!Logins
           /\ \A login, t : t \in Auth!Unrevoked(login)'
                       <=> t \in Auth!Stored /\ token[t].login = login /\ ~token'[t].revoked
<1>1. \A login : login \in Auth!Logins' <=> login \in Auth!Logins BY TokenSets
<1>2. Auth!Logins' = Auth!Logins BY <1>1 DEF Auth!Logins
<1> QED BY <1>2, TokenSets

LEMMA GenerateStep ==
    ASSUME TokenHolds, NEW device \in Devices, Called, Auth!GenerateTokenPair(device)
    PROVE  TokenHolds'
<1> DEFINE n == Len(token) + 1
<1>1. TokenTyped /\ call' = call /\ ended' = ended BY DEF TokenHolds, Auth!GenerateTokenPair
<1>2. /\ n \in AuthIds
      /\ token' \in Seq(Token) /\ Len(token') = n
      /\ Auth!Stored' = Auth!Stored \cup {n}
      /\ \A t \in Auth!Stored : token'[t] = token[t]
      /\ token'[n].login = n /\ ~token'[n].revoked
    BY <1>1, TokenAdds DEF Auth!GenerateTokenPair
<1>3. token \in Seq(Token) /\ Len(token) \in Nat /\ Auth!Stored = 1..Len(token)
    BY <1>1 DEF TokenTyped, Auth!Stored
<1>4. n \in Nat /\ n \notin 1..Len(token) /\ 1..Len(token) \subseteq 1..n /\ n \in 1..n BY <1>3
<1> HIDE DEF n
<1>5. TokenTyped'
  <2>1. \A p \in Procs : call'[p] = Idle \/ call'[p] \in Refresh' BY <1>1, <1>2 DEF TokenTyped, Refresh
  <2> QED BY <1>1, <1>2, <2>1 DEF TokenTyped
<1>6. ASSUME Serial' PROVE TokenOnce'
  <2>1. Serial /\ \A p \in Procs : call[p] = Idle BY <1>1, <1>6, SerialStep DEF Serial
  <2>2. TokenOnce BY <2>1 DEF TokenHolds
  <2>3. /\ \A t \in Auth!Stored : token[t].login \in 1..Len(token)
        /\ ended \subseteq 1..Len(token)
        /\ \A login \in Auth!Logins :
             IF login \in ended THEN Auth!Unrevoked(login) = {}
             ELSE \E t \in Auth!Stored : Auth!Unrevoked(login) = {t}
      BY <2>1, <2>2 DEF TokenOnce, Idle
  <2>4. One' BY <1>1, <2>1 DEF One
  <2>5. \A t \in Auth!Stored' : token'[t].login \in 1..n BY <1>2, <1>4, <2>3
  <2>6. ended' \subseteq 1..n BY <1>1, <1>4, <2>3
  <2>7. ASSUME NEW login \in Auth!Logins'
        PROVE  IF login \in ended' THEN Auth!Unrevoked(login)' = {}
               ELSE \E t \in Auth!Stored' : Auth!Unrevoked(login)' = {t}
    <3>1. CASE login = n
      <4>1. login \notin ended' BY <1>1, <1>4, <2>3, <3>1
      <4>2. \A t \in Auth!Stored' : token'[t].login = n => t = n BY <1>2, <1>4, <2>3
      <4>3. \A t : t \in Auth!Unrevoked(login)' <=> t = n BY <1>2, <3>1, <4>2, TokenSets
      <4>4. Auth!Unrevoked(login)' = {n} BY <4>3
      <4> QED BY <1>2, <4>1, <4>4
    <3>2. CASE login # n
      <4>1. \A t : t \in Auth!Unrevoked(login)' <=> t \in Auth!Unrevoked(login)
          BY <1>2, <1>3, <1>4, <3>2, TokenSets
      <4>2. Auth!Unrevoked(login)' = Auth!Unrevoked(login) BY <4>1
      <4>3. login \in Auth!Logins BY <1>2, <3>2, TokenSets
      <4> QED BY <1>1, <1>2, <2>3, <4>2, <4>3
    <3> QED BY <3>1, <3>2
  <2> QED BY <1>1, <1>2, <2>1, <2>4, <2>5, <2>6, <2>7 DEF TokenOnce, Idle
<1> QED BY <1>5, <1>6 DEF TokenHolds

\* The tokens stay, but for some that are revoked; nobody is at work.
LEMMA RevokesStep ==
    ASSUME TokenHolds, Called, Auth!Revoke
    PROVE  TokenHolds'
<1>1. /\ TokenTyped /\ token \in Seq(Token) /\ Len(token) \in Nat /\ Auth!Stored = 1..Len(token)
      /\ ended \subseteq AuthIds /\ DOMAIN call = Procs
      /\ \A t \in Auth!Stored : token[t] \in Token
    BY DEF TokenHolds, TokenTyped, Auth!Stored
<1>2. call' = call BY DEF Auth!Revoke, Auth!RevokeAllUserTokens, Auth!RevokeRefreshToken
<1>3. \A t \in Auth!Stored : [token[t] EXCEPT !.revoked = TRUE] \in Token BY <1>1 DEF Token
<1>4. /\ token' \in Seq(Token) /\ Len(token') = Len(token) /\ Auth!Stored' = Auth!Stored
      /\ \A t \in Auth!Stored : token'[t].login = token[t].login
      /\ ended' \subseteq ended \cup Auth!Logins
      /\ \/ /\ \A t \in Auth!Stored : token'[t].revoked
            /\ ended' = ended \cup Auth!Logins
         \/ \E t \in Auth!Stored :
              /\ \A u \in Auth!Stored : ~token'[u].revoked <=> ~token[u].revoked /\ u # t
              /\ ended' = IF token[t].revoked THEN ended ELSE ended \cup {token[t].login}
  <2>1. CASE Auth!RevokeAllUserTokens
    <3>1. /\ token' = [t \in 1..Len(token) |-> [token[t] EXCEPT !.revoked = TRUE]]
          /\ ended' = ended \cup Auth!Logins
        BY <1>1, <2>1 DEF Auth!RevokeAllUserTokens
    <3>2. token' \in Seq(Token) /\ Len(token') = Len(token) BY <1>1, <1>3, <3>1
    <3>3. Auth!Stored' = Auth!Stored BY <1>1, <3>2 DEF Auth!Stored
    <3>4. \A t \in Auth!Stored : token'[t] = [token[t] EXCEPT !.revoked = TRUE] BY <1>1, <3>1
    <3>5. \A t \in Auth!Stored : token'[t].login = token[t].login /\ token'[t].revoked
        BY <1>1, <3>4 DEF Token
    <3> QED BY <3>1, <3>2, <3>3, <3>5
  <2>2. ASSUME NEW t \in Auth!Stored, Auth!RevokeRefreshToken(t)
        PROVE  /\ token' \in Seq(Token) /\ Len(token') = Len(token) /\ Auth!Stored' = Auth!Stored
               /\ \A u \in Auth!Stored : token'[u].login = token[u].login
               /\ \A u \in Auth!Stored : ~token'[u].revoked <=> ~token[u].revoked /\ u # t
               /\ ended' = IF token[t].revoked THEN ended ELSE ended \cup {token[t].login}
    <3>1. /\ token' = [token EXCEPT ![t] = [token[t] EXCEPT !.revoked = TRUE]]
          /\ ended' = IF token[t].revoked THEN ended ELSE ended \cup {token[t].login}
        BY <2>2 DEF Auth!RevokeRefreshToken
    <3>2. token' \in Seq(Token) /\ Len(token') = Len(token) BY <1>1, <1>3, <3>1
    <3>3. Auth!Stored' = Auth!Stored BY <1>1, <3>2 DEF Auth!Stored
    <3>4. /\ token'[t] = [token[t] EXCEPT !.revoked = TRUE]
          /\ \A u \in Auth!Stored \ {t} : token'[u] = token[u]
        BY <3>1 DEF Auth!Stored
    <3>5. token'[t].login = token[t].login /\ token'[t].revoked = TRUE
        BY <1>1, <3>4 DEF Token
    <3>6. \A u \in Auth!Stored : token[u].revoked \in BOOLEAN BY <1>1 DEF Token
    <3>7. \A u \in Auth!Stored : token'[u].login = token[u].login BY <3>4, <3>5
    <3>8. \A u \in Auth!Stored : ~token'[u].revoked <=> ~token[u].revoked /\ u # t
        BY <3>4, <3>5, <3>6
    <3> QED BY <3>1, <3>2, <3>3, <3>7, <3>8
  <2>3. CASE \E t \in Auth!Stored : Auth!RevokeRefreshToken(t)
    <3>1. PICK t \in Auth!Stored : Auth!RevokeRefreshToken(t) BY <2>3
    <3>2. token[t].login \in Auth!Logins BY TokenSets
    <3>3. /\ token' \in Seq(Token) /\ Len(token') = Len(token) /\ Auth!Stored' = Auth!Stored
          /\ \A u \in Auth!Stored : token'[u].login = token[u].login
          /\ \A u \in Auth!Stored : ~token'[u].revoked <=> ~token[u].revoked /\ u # t
          /\ ended' = IF token[t].revoked THEN ended ELSE ended \cup {token[t].login}
        BY <2>2, <3>1
    <3>4. ended' \subseteq ended \cup Auth!Logins BY <3>2, <3>3
    <3> QED BY <3>3, <3>4
  <2> QED BY <2>1, <2>3 DEF Auth!Revoke
<1>5. TokenTyped'
  <2>1. \A p \in Procs : call'[p] = Idle \/ call'[p] \in Refresh'
      BY <1>1, <1>2, <1>4 DEF TokenTyped, Refresh
  <2>2. Auth!Logins \subseteq AuthIds BY <1>1, TokenSets DEF Token, Auth!Logins
  <2> QED BY <1>1, <1>2, <1>4, <2>1, <2>2 DEF TokenTyped
<1>6. ASSUME Serial' PROVE TokenOnce'
  <2>1. Serial /\ \A p \in Procs : call[p] = Idle BY <1>2, <1>6, SerialStep DEF Serial
  <2>2. TokenOnce BY <2>1 DEF TokenHolds
  <2>3. /\ \A t \in Auth!Stored : token[t].login \in 1..Len(token)
        /\ ended \subseteq 1..Len(token)
        /\ \A login \in Auth!Logins :
             IF login \in ended THEN Auth!Unrevoked(login) = {}
             ELSE \E t \in Auth!Stored : Auth!Unrevoked(login) = {t}
      BY <2>1, <2>2 DEF TokenOnce, Idle
  <2>4. One' BY <1>2, <2>1 DEF One
  <2>5. Auth!Logins \subseteq 1..Len(token) BY <2>3, TokenSets DEF Auth!Logins
  <2>6. /\ Auth!Logins' = Auth!Logins
        /\ \A login, t : t \in Auth!Unrevoked(login)'
                       <=> t \in Auth!Stored /\ token[t].login = login /\ ~token'[t].revoked
      BY <1>1, <1>4, TokenRevoked
  <2>7. ASSUME NEW login \in Auth!Logins
        PROVE  IF login \in ended' THEN Auth!Unrevoked(login)' = {}
               ELSE \E t \in Auth!Stored : Auth!Unrevoked(login)' = {t}
    <3>1. CASE \A t \in Auth!Stored : token'[t].revoked
      <4>1. Auth!Unrevoked(login)' = {} BY <2>6, <3>1
      <4>2. CASE login \in ended' BY <4>1, <4>2
      <4>3. CASE login \notin ended'
        <5>1. PICK t \in Auth!Stored :
                /\ \A u \in Auth!Stored : ~token'[u].revoked <=> ~token[u].revoked /\ u # t
                /\ ended' = IF token[t].revoked THEN ended ELSE ended \cup {token[t].login}
            BY <1>4, <4>3
        <5>2. login \notin ended BY <4>3, <5>1
        <5>3. PICK u \in Auth!Stored : Auth!Unrevoked(login) = {u} BY <2>3, <5>2
        <5>4. token[u].login = login /\ ~token[u].revoked BY <5>3, TokenSets
        <5>5. u = t BY <3>1, <5>1, <5>4
        <5> QED BY <4>3, <5>1, <5>4, <5>5
      <4> QED BY <4>2, <4>3
    <3>2. CASE ~ \A t \in Auth!Stored : token'[t].revoked
      <4>1. PICK t \in Auth!Stored :
                /\ \A u \in Auth!Stored : ~token'[u].revoked <=> ~token[u].revoked /\ u # t
                /\ ended' = IF token[t].revoked THEN ended ELSE ended \cup {token[t].login}
          BY <1>4, <3>2
      <4>2. CASE token[t].revoked
        <5>1. \A u : u \in Auth!Unrevoked(login)' <=> u \in Auth!Unrevoked(login)
            BY <2>6, <4>1, <4>2, TokenSets
        <5>2. Auth!Unrevoked(login)' = Auth!Unrevoked(login) BY <5>1
        <5> QED BY <2>3, <4>1, <4>2, <5>2
      <4>3. CASE ~token[t].revoked /\ token[t].login = login
        <5>1. t \in Auth!Unrevoked(login) BY <4>3, TokenSets
        <5>2. Auth!Unrevoked(login) = {t} BY <2>3, <5>1
        <5>3. \A u : u \in Auth!Unrevoked(login)' => u \in Auth!Unrevoked(login) /\ u # t
            BY <2>6, <4>1, TokenSets
        <5>4. Auth!Unrevoked(login)' = {} BY <5>2, <5>3
        <5> QED BY <4>1, <4>3, <5>4
      <4>4. CASE ~token[t].revoked /\ token[t].login # login
        <5>1. \A u : u \in Auth!Unrevoked(login)' <=> u \in Auth!Unrevoked(login)
            BY <2>6, <4>1, <4>4, TokenSets
        <5>2. Auth!Unrevoked(login)' = Auth!Unrevoked(login) BY <5>1
        <5>3. login \in ended' <=> login \in ended BY <4>1, <4>4
        <5> QED BY <2>3, <5>2, <5>3
      <4> QED BY <4>2, <4>3, <4>4
    <3> QED BY <3>1, <3>2
  <2>8. \A login \in Auth!Logins' :
           IF login \in ended' \/ \E p \in Procs : /\ call'[p].pc = "save"
                                                   /\ token'[call'[p].old].login = login
             THEN Auth!Unrevoked(login)' = {}
             ELSE \E t \in Auth!Stored' : Auth!Unrevoked(login)' = {t}
      BY <1>2, <1>4, <2>1, <2>6, <2>7 DEF Idle
  <2>9. \A t \in Auth!Stored' : token'[t].login \in 1..Len(token') BY <1>4, <2>3
  <2>10. ended' \subseteq 1..Len(token') BY <1>4, <2>3, <2>5
  <2> QED BY <1>2, <2>1, <2>4, <2>8, <2>9, <2>10 DEF TokenOnce, Idle
<1> QED BY <1>5, <1>6 DEF TokenHolds

\* Nothing but the calls, and what has expired, changes.
LEMMA TokensStay ==
    ASSUME TokenTyped, DOMAIN call' = Procs, ended' = ended,
           token' \in Seq(Token), Len(token') = Len(token),
           \A t \in Auth!Stored : /\ token'[t].login = token[t].login
                                  /\ token'[t].revoked = token[t].revoked,
           \A p \in Procs : call'[p] = Idle \/ call'[p] \in Refresh
    PROVE  /\ TokenTyped' /\ Auth!Stored' = Auth!Stored /\ Auth!Logins' = Auth!Logins
           /\ \A login : Auth!Unrevoked(login)' = Auth!Unrevoked(login)
<1>1. Auth!Stored' = Auth!Stored BY DEF TokenTyped, Auth!Stored
<1>2. TokenTyped' BY <1>1 DEF TokenTyped, Refresh
<1>3. /\ Auth!Logins' = Auth!Logins
      /\ \A login, t : t \in Auth!Unrevoked(login)'
                       <=> t \in Auth!Stored /\ token[t].login = login /\ ~token'[t].revoked
    BY <1>1, TokenRevoked
<1>4. \A login, t : t \in Auth!Unrevoked(login)' <=> t \in Auth!Unrevoked(login)
    BY <1>3, TokenSets
<1>5. ASSUME NEW login PROVE Auth!Unrevoked(login)' = Auth!Unrevoked(login)
  <2>1. \A t : t \in Auth!Unrevoked(login)' <=> t \in Auth!Unrevoked(login) BY <1>4
  <2> QED BY <2>1
<1> QED BY <1>1, <1>2, <1>3, <1>5

\* Tokens expire, a call begins, or it ends by an error.
LEMMA ExpireStep ==
    ASSUME TokenHolds, NEW t \in Auth!Stored, Auth!Expire(t), UNCHANGED calm
    PROVE  TokenHolds'
<1>1. /\ TokenTyped /\ token \in Seq(Token) /\ token[t] \in Token
      /\ call' = call /\ ended' = ended /\ DOMAIN call = Procs
      /\ token' = [token EXCEPT ![t] = [token[t] EXCEPT !.expired = TRUE]]
    BY DEF TokenHolds, TokenTyped, Auth!Stored, Auth!Expire
<1>2. [token[t] EXCEPT !.expired = TRUE] \in Token BY <1>1 DEF Token
<1>3. token' \in Seq(Token) /\ Len(token') = Len(token)
  <2>1. Auth!Stored = 1..Len(token) BY <1>1 DEF Auth!Stored
  <2> QED BY <1>1, <1>2, <2>1
<1>4. /\ token'[t] = [token[t] EXCEPT !.expired = TRUE]
      /\ \A u \in Auth!Stored \ {t} : token'[u] = token[u]
    BY <1>1 DEF Auth!Stored
<1>5. token'[t].login = token[t].login /\ token'[t].revoked = token[t].revoked
    BY <1>1, <1>4 DEF Token
<1>6. /\ TokenTyped' /\ Auth!Stored' = Auth!Stored /\ Auth!Logins' = Auth!Logins
      /\ \A login : Auth!Unrevoked(login)' = Auth!Unrevoked(login)
      /\ \A u \in Auth!Stored : token'[u].login = token[u].login /\ token'[u].revoked = token[u].revoked
  <2>1. \A p \in Procs : call'[p] = Idle \/ call'[p] \in Refresh BY <1>1 DEF TokenTyped
  <2>2. \A u \in Auth!Stored : /\ token'[u].login = token[u].login
                               /\ token'[u].revoked = token[u].revoked
      BY <1>4, <1>5
  <2> QED BY <1>1, <1>3, <2>1, <2>2, TokensStay
<1>7. ASSUME Serial' PROVE TokenOnce'
  <2>1. TokenOnce BY <1>7 DEF Serial, TokenHolds
  <2>2. \A p \in Procs : call[p] # Idle => call[p].old \in Auth!Stored BY <1>1 DEF TokenTyped, Refresh
  <2>3. \A p \in Procs : call[p].pc \in {"save", "revoke"} => call[p] # Idle BY DEF Idle
  <2>4. \A p \in Procs : call[p] # Idle => /\ token'[call[p].old].login = token[call[p].old].login
                                           /\ token'[call[p].old].revoked = token[call[p].old].revoked
      BY <1>6, <2>2
  <2>5. One' BY <1>1, <2>1 DEF TokenOnce, One
  <2>6. \A u \in Auth!Stored' : token'[u].login \in 1..Len(token') BY <1>3, <1>6, <2>1 DEF TokenOnce
  <2>7. ended' \subseteq 1..Len(token') BY <1>1, <1>3, <2>1 DEF TokenOnce
  <2>8. \A login \in Auth!Logins' :
         IF login \in ended' \/ \E p \in Procs : /\ call'[p].pc = "save"
                                                 /\ token'[call'[p].old].login = login
           THEN Auth!Unrevoked(login)' = {}
           ELSE \E u \in Auth!Stored' : Auth!Unrevoked(login)' = {u}
      BY <1>1, <1>6, <2>1, <2>3, <2>4 DEF TokenOnce
  <2>9. \A p \in Procs :
         /\ call'[p] # Idle => token'[call'[p].old].login \notin ended'
         /\ call'[p].pc = "revoke" => ~token'[call'[p].old].revoked
      BY <1>1, <2>1, <2>3, <2>4 DEF TokenOnce
  <2> QED BY <2>5, <2>6, <2>7, <2>8, <2>9 DEF TokenOnce
<1> QED BY <1>6, <1>7 DEF TokenHolds

\* A call of a token that is good begins.
LEMMA RefreshStep ==
    ASSUME TokenHolds, NEW p \in Procs, NEW t \in Auth!Stored, NEW device \in Devices, Called,
           Auth!RefreshAccessToken(p, t, device)
    PROVE  TokenHolds'
<1> DEFINE new == [pc |-> "revoke", old |-> t, device |-> device]
<1>1. /\ TokenTyped /\ call[p] = Idle /\ ~token[t].revoked /\ token' = token /\ ended' = ended
      /\ call' = [call EXCEPT ![p] = new]
      /\ DOMAIN call = Procs
    BY DEF TokenHolds, TokenTyped, Auth!RefreshAccessToken, Auth!Goto, Auth!Idle, Idle
<1>2. new \in Refresh /\ new.pc = "revoke" /\ new.old = t /\ new # Idle
  <2>1. new.pc # Idle.pc BY DEF Idle
  <2> QED BY <2>1 DEF Refresh
<1> HIDE DEF new
<1>3. /\ DOMAIN call' = Procs /\ call'[p] = new
      /\ \A q \in Procs \ {p} : call'[q] = call[q]
    BY <1>1
<1>4. \A q \in Procs : call'[q] = Idle \/ call'[q] \in Refresh BY <1>1, <1>2, <1>3 DEF TokenTyped
<1>5. /\ TokenTyped' /\ Auth!Stored' = Auth!Stored /\ Auth!Logins' = Auth!Logins
      /\ \A login : Auth!Unrevoked(login)' = Auth!Unrevoked(login)
  <2>1. token' \in Seq(Token) /\ Len(token') = Len(token) BY <1>1 DEF TokenTyped
  <2> QED BY <1>1, <1>3, <1>4, <2>1, TokensStay
<1>6. ASSUME Serial' PROVE TokenOnce'
  <2>1. Serial /\ \A q \in Procs \ {p} : call[q] = Idle BY <1>2, <1>3, <1>6, SerialStep DEF Serial
  <2>2. TokenOnce BY <2>1 DEF TokenHolds
  <2>3. \A q \in Procs : call[q].pc # "save" /\ call'[q].pc # "save" BY <1>1, <1>2, <1>3, <2>1 DEF Idle
  <2>4. \A q \in Procs : call'[q] # Idle \/ call'[q].pc = "revoke" => q = p BY <1>3, <2>1 DEF Idle
  <2>5. token[t].login \notin ended
    <3>1. t \in Auth!Unrevoked(token[t].login) /\ token[t].login \in Auth!Logins BY <1>1, TokenSets
    <3> QED BY <2>2, <3>1 DEF TokenOnce
  <2>6. One' BY <2>4 DEF One
  <2>7. \A login \in Auth!Logins' :
         IF login \in ended' \/ \E q \in Procs : /\ call'[q].pc = "save"
                                                 /\ token'[call'[q].old].login = login
           THEN Auth!Unrevoked(login)' = {}
           ELSE \E u \in Auth!Stored' : Auth!Unrevoked(login)' = {u}
      BY <1>1, <1>5, <2>2, <2>3 DEF TokenOnce
  <2> QED BY <1>1, <1>2, <1>3, <1>5, <2>2, <2>4, <2>5, <2>6, <2>7 DEF TokenOnce
<1> QED BY <1>5, <1>6 DEF TokenHolds

LEMMA RevokeOldStep ==
    ASSUME TokenHolds, NEW p \in Procs, Called, Auth!RevokeOld(p)
    PROVE  TokenHolds'
<1> DEFINE old == call[p].old
<1>1. /\ TokenTyped /\ call[p].pc = "revoke" /\ ended' = ended
      /\ token' = [token EXCEPT ![old] = [token[old] EXCEPT !.revoked = TRUE]]
      /\ call' = [call EXCEPT ![p] = [call[p] EXCEPT !.pc = "save"]]
      /\ DOMAIN call = Procs /\ token \in Seq(Token)
    BY DEF TokenHolds, TokenTyped, Auth!RevokeOld, Auth!Goto, Auth!At
<1>2. call[p] \in Refresh /\ call[p] # Idle BY <1>1 DEF TokenTyped, Idle
<1>3. old \in Auth!Stored BY <1>2 DEF Refresh
<1>4. /\ DOMAIN call' = Procs /\ \A q \in Procs \ {p} : call'[q] = call[q]
      /\ call'[p] \in Refresh /\ call'[p].pc = "save" /\ call'[p].old = old
      /\ call'[p] # Idle
  <2>1. call'[p] = [call[p] EXCEPT !.pc = "save"] BY <1>1
  <2>2. call'[p] \in Refresh /\ call'[p].pc = "save" /\ call'[p].old = old
      BY <1>2, <2>1 DEF Refresh
  <2>3. call'[p].pc # Idle.pc BY <2>2 DEF Idle
  <2> QED BY <1>1, <2>2, <2>3
<1> HIDE DEF old
<1>5. token[old] \in Token /\ [token[old] EXCEPT !.revoked = TRUE] \in Token
  <2>1. token[old] \in Token BY <1>1, <1>3 DEF Auth!Stored
  <2> QED BY <2>1 DEF Token
<1>6. token' \in Seq(Token) /\ Len(token') = Len(token)
  <2>1. Auth!Stored = 1..Len(token) BY <1>1 DEF Auth!Stored
  <2> QED BY <1>1, <1>5, <2>1, <1>3
<1>7. Auth!Stored' = Auth!Stored BY <1>1, <1>6 DEF Auth!Stored
<1>8. /\ token'[old] = [token[old] EXCEPT !.revoked = TRUE]
      /\ \A u \in Auth!Stored \ {old} : token'[u] = token[u]
    BY <1>1, <1>3 DEF Auth!Stored
<1>9. token'[old].login = token[old].login /\ token'[old].revoked
    BY <1>5, <1>8 DEF Token
<1>10. \A u \in Auth!Stored : token'[u].login = token[u].login BY <1>8, <1>9
<1>11. TokenTyped'
  <2>1. \A q \in Procs : call'[q] = Idle \/ call'[q] \in Refresh'
      BY <1>1, <1>4, <1>7 DEF TokenTyped, Refresh
  <2> QED BY <1>1, <1>4, <1>6, <2>1 DEF TokenTyped
<1>12. ASSUME Serial' PROVE TokenOnce'
  <2>1. Serial /\ \A q \in Procs \ {p} : call[q] = Idle BY <1>2, <1>12, SerialStep DEF Serial
  <2>2. TokenOnce BY <2>1 DEF TokenHolds
  <2>3. One' BY <1>4, <2>1 DEF One
  <2>4. /\ Auth!Logins' = Auth!Logins
        /\ \A login, t : t \in Auth!Unrevoked(login)'
                       <=> t \in Auth!Stored /\ token[t].login = login /\ ~token'[t].revoked
      BY <1>1, <1>7, <1>10, TokenRevoked
  <2>5. token[old].login \notin ended /\ ~token[old].revoked
      BY <1>1, <1>2, <2>2 DEF TokenOnce, old
  <2>6. \A q \in Procs : call[q].pc # "save" BY <1>1, <2>1 DEF Idle
  <2>7. \A q \in Procs : call'[q].pc = "save" <=> q = p BY <1>4, <2>6
  <2>8. ASSUME NEW login \in Auth!Logins
        PROVE  IF login \in ended \/ token[old].login = login
                 THEN Auth!Unrevoked(login)' = {}
                 ELSE \E u \in Auth!Stored : Auth!Unrevoked(login)' = {u}
    <3>1. CASE token[old].login = login
      <4>1. old \in Auth!Unrevoked(login) BY <1>3, <2>5, <3>1, TokenSets
      <4>2. \E t \in Auth!Stored : Auth!Unrevoked(login) = {t} BY <2>2, <2>5, <2>6, <3>1 DEF TokenOnce
      <4>3. Auth!Unrevoked(login) = {old} BY <4>1, <4>2
      <4>4. \A t : t \in Auth!Unrevoked(login)' => t \in Auth!Unrevoked(login) /\ t # old
          BY <1>8, <1>9, <2>4, TokenSets
      <4>5. Auth!Unrevoked(login)' = {} BY <4>3, <4>4
      <4> DEFINE left == Auth!Unrevoked(login)'
                 once == \E u \in Auth!Stored : left = {u}
      <4>6. left = {} BY <4>5
      <4> HIDE DEF left, once
      <4>7. IF login \in ended \/ token[old].login = login THEN left = {} ELSE once
          BY <3>1, <4>6
      <4> QED BY <4>7 DEF left, once
    <3>2. CASE token[old].login # login
      <4>1. \A t : t \in Auth!Unrevoked(login)' <=> t \in Auth!Unrevoked(login)
          BY <1>8, <2>4, <3>2, TokenSets
      <4>2. Auth!Unrevoked(login)' = Auth!Unrevoked(login) BY <4>1
      <4> QED BY <2>2, <2>6, <3>2, <4>2 DEF TokenOnce
    <3> QED BY <3>1, <3>2
  <2>9. \A login \in Auth!Logins' :
         IF login \in ended' \/ \E q \in Procs : /\ call'[q].pc = "save"
                                                 /\ token'[call'[q].old].login = login
           THEN Auth!Unrevoked(login)' = {}
           ELSE \E u \in Auth!Stored' : Auth!Unrevoked(login)' = {u}
      BY <1>1, <1>4, <1>7, <1>9, <2>4, <2>7, <2>8
  <2>10. \A q \in Procs : call'[q] # Idle \/ call'[q].pc = "revoke" => q = p BY <1>4, <2>1 DEF Idle
  <2> QED BY <1>1, <1>4, <1>6, <1>7, <1>9, <1>10, <2>2, <2>3, <2>5, <2>9, <2>10 DEF TokenOnce
<1> QED BY <1>11, <1>12 DEF TokenHolds

LEMMA SaveNewStep ==
    ASSUME TokenHolds, NEW p \in Procs, Called, Auth!SaveNew(p)
    PROVE  TokenHolds'
<1> DEFINE old == call[p].old
           n == Len(token) + 1
<1>1. /\ TokenTyped /\ call[p].pc = "save" /\ ended' = ended
      /\ Auth!SaveRefreshToken(token[old].login, call[p].device)
      /\ call' = [call EXCEPT ![p] = Idle]
      /\ DOMAIN call = Procs /\ token \in Seq(Token) /\ Len(token) \in Nat
      /\ Auth!Stored = 1..Len(token)
    BY DEF TokenHolds, TokenTyped, Auth!SaveNew, Auth!Goto, Auth!At, Auth!Return, Auth!Idle, Idle,
           Auth!Stored
<1>2. call[p] \in Refresh /\ call[p] # Idle BY <1>1 DEF TokenTyped, Idle
<1>3. old \in Auth!Stored /\ call[p].device \in Devices BY <1>2 DEF Refresh
<1>4. token[old] \in Token /\ token[old].login \in AuthIds
  <2>1. token[old] \in Token BY <1>1, <1>3
  <2> QED BY <2>1 DEF Token
<1>5. /\ n \in AuthIds
      /\ token' \in Seq(Token) /\ Len(token') = n
      /\ Auth!Stored' = Auth!Stored \cup {n}
      /\ \A t \in Auth!Stored : token'[t] = token[t]
      /\ token'[n].login = token[old].login /\ ~token'[n].revoked
    BY <1>1, <1>3, <1>4, TokenAdds
<1>6. n \in Nat /\ n \notin 1..Len(token) /\ 1..Len(token) \subseteq 1..n BY <1>1
<1>7. /\ DOMAIN call' = Procs /\ \A q \in Procs \ {p} : call'[q] = call[q] /\ call'[p] = Idle
    BY <1>1
<1>8. call'[p] = Idle BY <1>1
<1> HIDE DEF old, n
<1>9. TokenTyped'
  <2>1. \A q \in Procs : call'[q] = Idle \/ call'[q] \in Refresh'
      BY <1>1, <1>5, <1>7, <1>8 DEF TokenTyped, Refresh
  <2> QED BY <1>1, <1>5, <1>7, <2>1 DEF TokenTyped
<1>10. ASSUME Serial' PROVE TokenOnce'
  <2>1. Serial /\ \A q \in Procs \ {p} : call[q] = Idle BY <1>2, <1>10, SerialStep DEF Serial
  <2>2. TokenOnce BY <2>1 DEF TokenHolds
  <2>3. \A q \in Procs : call'[q] = Idle /\ call'[q].pc # "save" BY <1>7, <1>8, <2>1 DEF Idle
  <2>4. \A q \in Procs : call[q].pc = "save" => q = p BY <2>1 DEF Idle
  <2>5. token[old].login \notin ended BY <1>2, <2>2 DEF TokenOnce, old
  <2>6. token[old].login \in Auth!Logins BY <1>3, TokenSets
  <2>7. \A login : login \in Auth!Logins' <=> login \in Auth!Logins
      BY <1>3, <1>5, TokenSets
  <2>8. ASSUME NEW login \in Auth!Logins
        PROVE  IF login \in ended THEN Auth!Unrevoked(login)' = {}
               ELSE \E u \in Auth!Stored' : Auth!Unrevoked(login)' = {u}
    <3>1. CASE token[old].login = login
      <4>1. Auth!Unrevoked(login) = {} BY <1>1, <2>2, <3>1 DEF TokenOnce, old
      <4>2. ASSUME NEW t PROVE t \in Auth!Unrevoked(login)' <=> t = n
        <5>1. /\ t \in Auth!Unrevoked(login)' <=>
                   t \in Auth!Stored' /\ token'[t].login = login /\ ~token'[t].revoked
              /\ t \in Auth!Unrevoked(login) <=>
                   t \in Auth!Stored /\ token[t].login = login /\ ~token[t].revoked
            BY TokenSets
        <5>2. CASE t = n BY <1>5, <3>1, <5>1, <5>2
        <5>3. CASE t # n /\ t \in Auth!Stored BY <1>1, <1>5, <4>1, <5>1, <5>3
        <5>4. CASE t # n /\ t \notin Auth!Stored BY <1>5, <5>1, <5>4
        <5> QED BY <5>2, <5>3, <5>4
      <4>3. Auth!Unrevoked(login)' = {n} BY <4>2
      <4> QED BY <1>5, <2>5, <3>1, <4>3
    <3>2. CASE token[old].login # login
      <4>1. \A t : t \in Auth!Unrevoked(login)' <=> t \in Auth!Unrevoked(login)
          BY <1>1, <1>5, <1>6, <3>2, TokenSets
      <4>2. Auth!Unrevoked(login)' = Auth!Unrevoked(login) BY <4>1
      <4>3. ~ \E q \in Procs : call[q].pc = "save" /\ token[call[q].old].login = login
          BY <2>4, <3>2 DEF old
      <4> QED BY <1>5, <2>2, <4>2, <4>3 DEF TokenOnce
    <3> QED BY <3>1, <3>2
  <2>9. \A login \in Auth!Logins' :
         IF login \in ended' \/ \E q \in Procs : /\ call'[q].pc = "save"
                                                 /\ token'[call'[q].old].login = login
           THEN Auth!Unrevoked(login)' = {}
           ELSE \E u \in Auth!Stored' : Auth!Unrevoked(login)' = {u}
      BY <1>1, <2>3, <2>7, <2>8
  <2>10. \A t \in Auth!Stored' : token'[t].login \in 1..Len(token')
      BY <1>3, <1>5, <1>6, <2>2 DEF TokenOnce
  <2>11. ended' \subseteq 1..Len(token') BY <1>1, <1>5, <1>6, <2>2 DEF TokenOnce
  <2>12. One' BY <2>3 DEF One
  <2> QED BY <2>3, <2>9, <2>10, <2>11, <2>12 DEF TokenOnce, Idle
<1> QED BY <1>9, <1>10 DEF TokenHolds

LEMMA TokenStep ==
    ASSUME TokenIInv, Unbounded
    PROVE  TokenIInv'
<1>1. CASE subject # "tokens"
  <2>1. subject' = subject /\ UNCHANGED TokenVars BY <1>1, TokenSteps
  <2> QED BY <1>1, <2>1 DEF TokenIInv, TokenVars
<1>2. CASE subject = "tokens"
  <2>1. subject' = "tokens" /\ TokenHolds BY <1>2, TokenSteps DEF TokenIInv
  <2>2. CASE Called /\ \E p \in Procs : Auth!TokenWork(p)
      BY <2>1, <2>2, RefreshStep, RevokeOldStep, SaveNewStep DEF Auth!TokenWork, TokenIInv
  <2>3. CASE Called /\ \E device \in Devices : Auth!GenerateTokenPair(device)
      BY <2>1, <2>3, GenerateStep DEF TokenIInv
  <2>4. CASE Called /\ Auth!Revoke BY <2>1, <2>4, RevokesStep DEF TokenIInv
  <2>5. CASE UNCHANGED calm /\ \E t \in Auth!Stored : Auth!Expire(t)
      BY <2>1, <2>5, ExpireStep DEF TokenIInv
  <2>6. CASE calm' = "faulty" /\ Auth!TokenFail
    <3>1. TokenTyped /\ ~Serial' BY <2>1, <2>6 DEF TokenHolds, Serial
    <3>2. PICK p \in Procs : call' = [call EXCEPT ![p] = Idle] /\ UNCHANGED <<token, ended>>
        BY <2>6 DEF Auth!TokenFail, Auth!Stop, Auth!Return, Auth!Goto, Auth!Idle, Idle
    <3>3. DOMAIN call' = Procs /\ \A q \in Procs : call'[q] = Idle \/ call'[q] \in Refresh
        BY <3>1, <3>2 DEF TokenTyped
    <3>4. TokenTyped' BY <3>1, <3>2, <3>3 DEF TokenTyped, Refresh, Auth!Stored
    <3> QED BY <2>1, <3>1, <3>4 DEF TokenIInv, TokenHolds
  <2> QED BY <1>2, <2>2, <2>3, <2>4, <2>5, <2>6, TokenSteps
<1> QED BY <1>1, <1>2

LEMMA TokenStutter ==
    ASSUME TokenIInv, subject' = subject, call' = call, calm' = calm, UNCHANGED TokenVars
    PROVE  TokenIInv'
<1>1. token' = token /\ ended' = ended BY DEF TokenVars
<1>2. TokenTyped => TokenTyped' BY <1>1 DEF TokenTyped, Refresh, Auth!Stored
<1>3. /\ Auth!Stored' = Auth!Stored /\ Auth!Logins' = Auth!Logins
      /\ \A login : Auth!Unrevoked(login)' = Auth!Unrevoked(login)
    BY <1>1 DEF Auth!Stored, Auth!Logins, Auth!Unrevoked
<1>4. TokenOnce => TokenOnce' BY <1>1, <1>3 DEF TokenOnce, One
<1>5. Serial' <=> Serial BY DEF Serial
<1> QED BY <1>1, <1>2, <1>4, <1>5 DEF TokenIInv, TokenHolds

LEMMA TokenSound ==
    ASSUME TokenIInv
    PROVE  /\ Auth!TokenTypeOK
           /\ Serial /\ Busy = {} => Auth!OneTokenPerLogin
<1>1. Auth!TokenTypeOK
  <2>1. <<>> \in Seq(Token) OBVIOUS
  <2> QED BY <2>1 DEF TokenIInv, TokenHolds, TokenTyped, Token, Auth!TokenTypeOK
<1>2. ASSUME Serial, Busy = {} PROVE Auth!OneTokenPerLogin
  <2>1. CASE subject = "tokens"
    <3>1. TokenOnce BY <1>2, <2>1 DEF TokenIInv, TokenHolds
    <3>2. \A p \in Procs : call[p].pc # "save" BY <1>2 DEF Busy, Idle
    <3>3. SUFFICES ASSUME NEW login \in Auth!Logins
                   PROVE  Cardinality(Auth!Unrevoked(login)) = IF login \in ended THEN 0 ELSE 1
        BY Cardinalities DEF Auth!OneTokenPerLogin
    <3>4. CASE login \in ended
      <4>1. Auth!Unrevoked(login) = {} BY <3>1, <3>4 DEF TokenOnce
      <4> QED BY <3>4, <4>1, FS_EmptySet
    <3>5. CASE login \notin ended
      <4>1. \E t \in Auth!Stored : Auth!Unrevoked(login) = {t} BY <3>1, <3>2, <3>5 DEF TokenOnce
      <4> QED BY <3>5, <4>1, FS_Singleton
    <3> QED BY <3>4, <3>5
  <2>2. CASE subject # "tokens"
    <3>1. token = <<>> BY <2>2 DEF TokenIInv
    <3>2. Auth!Stored = {} BY <3>1 DEF Auth!Stored
    <3>3. Auth!Logins = {} BY <3>2 DEF Auth!Logins
    <3> QED BY <3>3 DEF Auth!OneTokenPerLogin
  <2> QED BY <2>1, <2>2
<1> QED BY <1>1, <1>2

-----------------------------------------------------------------------------
(* Uptime (UptimeMonitor).                                                 *)

UptimeVars == <<checks, pending, running, fails, alerted, recent>>

Results == {"up", "degraded", "down", "error"}

\* The total is of the failures at the end of the results, up to three.
Trailing(results, n) ==
    /\ n <= Len(results)
    /\ \A i \in 1..Len(results) : i > Len(results) - n => Monitor!Failed(results[i])
    /\ n < Len(results) => ~Monitor!Failed(results[Len(results) - n])

UptimeIInv ==
    /\ Monitor!TypeOK
    /\ recent \in [Monitored -> Seq(Results)] /\ DOMAIN alerted = Monitored
    /\ \A c \in Monitored :
         /\ Len(recent[c]) <= 3
         /\ Trailing(recent[c], fails[c])
         /\ alerted[c] <=> fails[c] = 3

LEMMA UptimeSteps ==
    ASSUME Unbounded
    PROVE  UNCHANGED UptimeVars \/ Monitor!Next
BY DEF Unbounded, Calls, World, Faults, Steps, Frame, UptimeVars

\* One answer more, and the total goes on or starts anew.
LEMMA TrailingNext ==
    ASSUME NEW results \in Seq(Results), Len(results) <= 3, NEW n \in 0..3, Trailing(results, n),
           NEW answer \in Results
    PROVE  LET kept == IF Len(results) = 3 THEN Tail(results) ELSE results
               total == IF n = 3 /\ Monitor!Failed(answer) THEN 3 ELSE Monitor!Track(n, answer)
           IN  /\ Append(kept, answer) \in Seq(Results) /\ Len(Append(kept, answer)) <= 3
               /\ total \in 0..3
               /\ Trailing(Append(kept, answer), total)
<1> DEFINE kept == IF Len(results) = 3 THEN Tail(results) ELSE results
           total == IF n = 3 /\ Monitor!Failed(answer) THEN 3 ELSE Monitor!Track(n, answer)
           now == Append(kept, answer)
           off == IF Len(results) = 3 THEN 1 ELSE 0
<1>1. /\ kept \in Seq(Results) /\ Len(kept) = Len(results) - off /\ Len(results) \in Nat
      /\ \A i \in 1..Len(kept) : kept[i] = results[i + off]
    OBVIOUS
<1> DEFINE l == Len(results)
           m == Len(kept)
<1>2. l \in Nat /\ l <= 3 /\ m \in Nat /\ off \in {0, 1} /\ m = l - off /\ (l = 3 <=> off = 1)
    BY <1>1
<1>3. /\ now \in Seq(Results) /\ Len(now) = m + 1 /\ now[m + 1] = answer
      /\ \A i \in 1..m : now[i] = kept[i]
    BY <1>1
<1>4. n <= l /\ \A i \in 1..l : i > l - n => Monitor!Failed(results[i]) BY DEF Trailing
<1>5. n < l => ~Monitor!Failed(results[l - n]) BY DEF Trailing
<1>6. \A i \in 1..m : now[i] = results[i + off] BY <1>1, <1>3
<1>8. total = IF Monitor!Failed(answer) THEN IF n = 3 THEN 3 ELSE n + 1 ELSE 0 BY DEF Monitor!Track
<1>12. total \in Int BY <1>8
<1>7. Trailing(now, total) <=>
        /\ total <= m + 1
        /\ \A i \in 1..(m + 1) : i > m + 1 - total => Monitor!Failed(now[i])
        /\ total < m + 1 => ~Monitor!Failed(now[m + 1 - total])
  <2> HIDE DEF now, m, total
  <2> QED BY <1>2, <1>3, <1>12 DEF Trailing
<1> HIDE DEF kept, now, off, l, m, total
<1>9. m + 1 <= 3 /\ m + 1 \in Nat BY <1>2
<1>10. CASE Monitor!Failed(answer)
  <2>1. total = (IF n = 3 THEN 3 ELSE n + 1) BY <1>8, <1>10
  <2>2. total \in 0..3 /\ total <= m + 1 BY <1>2, <1>4, <2>1
  <2>3. ASSUME NEW i \in 1..(m + 1), i > m + 1 - total PROVE Monitor!Failed(now[i])
    <3>1. CASE i = m + 1 BY <1>3, <1>10, <3>1
    <3>2. CASE i # m + 1
      <4>1. i \in 1..m /\ i + off \in 1..l /\ i + off > l - n BY <1>2, <1>4, <2>1, <2>3, <3>2
      <4> QED BY <1>4, <1>6, <4>1
    <3> QED BY <3>1, <3>2
  <2>4. ASSUME total < m + 1 PROVE ~Monitor!Failed(now[m + 1 - total])
    <3>1. n < l /\ m + 1 - total \in 1..m /\ m + 1 - total + off = l - n
        BY <1>2, <1>4, <2>1, <2>4
    <3> QED BY <1>5, <1>6, <3>1
  <2>5. Trailing(now, total) BY <1>7, <2>2, <2>3, <2>4
  <2> QED BY <1>3, <1>9, <2>2, <2>5 DEF now, kept, total
<1>11. CASE ~Monitor!Failed(answer)
  <2>1. total = 0 BY <1>8, <1>11
  <2>2. Trailing(now, total) BY <1>3, <1>7, <1>9, <1>11, <2>1
  <2> QED BY <1>3, <1>9, <2>1, <2>2 DEF now, kept, total
<1> QED BY <1>10, <1>11

LEMMA UptimeStep ==
    ASSUME UptimeIInv, Unbounded
    PROVE  UptimeIInv'
<1> USE DEF Monitor!TypeOK
<1>1. CASE UNCHANGED UptimeVars BY <1>1 DEF UptimeIInv, UptimeVars, Trailing
<1>2. ASSUME NEW c \in Monitored, Monitor!HandleResult(c) PROVE UptimeIInv'
  <2> DEFINE kept == IF Len(recent[c]) = 3 THEN Tail(recent[c]) ELSE recent[c]
  <2>1. PICK answer \in Results :
          /\ fails' = [fails EXCEPT ![c] = IF fails[c] = 3 /\ Monitor!Failed(answer) THEN 3
                                           ELSE Monitor!Track(fails[c], answer)]
          /\ alerted' = [alerted EXCEPT ![c] = fails'[c] >= 3]
          /\ recent' = [recent EXCEPT ![c] = Append(kept, answer)]
      BY <1>2 DEF Monitor!HandleResult, Monitor!PerformCheck, Results
  <2> DEFINE n == IF fails[c] = 3 /\ Monitor!Failed(answer) THEN 3 ELSE Monitor!Track(fails[c], answer)
             now == Append(kept, answer)
  <2>2. /\ recent[c] \in Seq(Results) /\ Len(recent[c]) <= 3 /\ fails[c] \in 0..3
        /\ Trailing(recent[c], fails[c])
      BY DEF UptimeIInv
  <2>3. now \in Seq(Results) /\ Len(now) <= 3 /\ n \in 0..3 /\ Trailing(now, n)
      BY <2>2, TrailingNext
  <2>4. fails' = [fails EXCEPT ![c] = n] /\ recent' = [recent EXCEPT ![c] = now] BY <2>1
  <2> HIDE DEF n, now
  <2>5. /\ fails' \in [Monitored -> 0..3] /\ fails'[c] = n /\ \A d \in Monitored \ {c} : fails'[d] = fails[d]
        /\ recent' \in [Monitored -> Seq(Results)] /\ recent'[c] = now
        /\ \A d \in Monitored \ {c} : recent'[d] = recent[d]
      BY <2>3, <2>4 DEF UptimeIInv
  <2>a. /\ DOMAIN alerted' = Monitored /\ (alerted'[c] <=> fails'[c] >= 3)
        /\ \A d \in Monitored \ {c} : alerted'[d] <=> alerted[d]
      BY <2>1 DEF UptimeIInv
  <2>6. /\ DOMAIN alerted' = Monitored /\ (alerted'[c] <=> n = 3)
        /\ \A d \in Monitored \ {c} : alerted'[d] <=> alerted[d]
      BY <2>3, <2>5, <2>a
  <2>7. pending' \subseteq checks' /\ checks' \subseteq Monitored
      BY <1>2 DEF UptimeIInv, Monitor!HandleResult
  <2>8. ASSUME NEW d \in Monitored
        PROVE  /\ Len(recent'[d]) <= 3 /\ Trailing(recent'[d], fails'[d])
               /\ alerted'[d] <=> fails'[d] = 3
    <3>1. CASE d = c BY <2>3, <2>5, <2>6, <3>1
    <3>2. CASE d # c
      <4>1. /\ Len(recent[d]) <= 3 /\ Trailing(recent[d], fails[d])
            /\ alerted[d] <=> fails[d] = 3
          BY DEF UptimeIInv
      <4> QED BY <2>5, <2>6, <3>2, <4>1
    <3> QED BY <3>1, <3>2
  <2>9. \A d \in Monitored : Trailing(recent[d], fails[d])' <=> Trailing(recent'[d], fails'[d])
      BY DEF Trailing
  <2> QED BY <2>5, <2>6, <2>7, <2>8, <2>9 DEF UptimeIInv
<1>3. ASSUME \/ \E c \in Monitored \ checks : Monitor!AddCheck(c)
             \/ Monitor!RunChecks
             \/ Monitor!Cancel
      PROVE  UptimeIInv'
  <2>1. /\ pending' \subseteq checks' /\ checks' \subseteq Monitored
        /\ fails' = fails /\ alerted' = alerted /\ recent' = recent
      BY <1>3 DEF UptimeIInv, Monitor!AddCheck, Monitor!RunChecks, Monitor!Cancel
  <2> QED BY <2>1 DEF UptimeIInv, Trailing
<1> QED BY <1>1, <1>2, <1>3, UptimeSteps DEF Monitor!Next

LEMMA UptimeStutter ==
    ASSUME UptimeIInv, UNCHANGED UptimeVars
    PROVE  UptimeIInv'
BY DEF UptimeIInv, UptimeVars, Trailing, Monitor!TypeOK

LEMMA UptimeSound ==
    ASSUME UptimeIInv
    PROVE  Monitor!TypeOK /\ Monitor!AlertedIfDown
<1>1. SUFFICES ASSUME NEW c \in Monitored
      PROVE  alerted[c] <=> Len(recent[c]) = 3 /\ \A i \in 1..3 : Monitor!Failed(recent[c][i])
  <2>1. Monitor!TypeOK BY DEF UptimeIInv
  <2> QED BY <2>1 DEF Monitor!AlertedIfDown
<1> DEFINE l == Len(recent[c])
<1>2. l \in Nat /\ l <= 3 /\ fails[c] \in 0..3 /\ (alerted[c] <=> fails[c] = 3)
    BY DEF UptimeIInv, Monitor!TypeOK
<1>3. /\ fails[c] <= l
      /\ \A i \in 1..l : i > l - fails[c] => Monitor!Failed(recent[c][i])
      /\ fails[c] < l => ~Monitor!Failed(recent[c][l - fails[c]])
    BY DEF UptimeIInv, Trailing
<1> HIDE DEF l
<1>4. CASE fails[c] = 3
  <2>1. l = 3 BY <1>2, <1>3, <1>4
  <2>2. \A i \in 1..3 : Monitor!Failed(recent[c][i]) BY <1>3, <1>4, <2>1
  <2> QED BY <1>2, <1>4, <2>1, <2>2 DEF l
<1>5. CASE fails[c] # 3 /\ l = 3
  <2>1. 3 - fails[c] \in 1..3 /\ ~Monitor!Failed(recent[c][3 - fails[c]])
      BY <1>2, <1>3, <1>5
  <2> QED BY <1>2, <1>5, <2>1 DEF l
<1>6. CASE fails[c] # 3 /\ l # 3 BY <1>2, <1>6 DEF l
<1> QED BY <1>4, <1>5, <1>6

LEMMA UptimeInit == LibrariesInit => UptimeIInv
<1> SUFFICES ASSUME LibrariesInit PROVE UptimeIInv OBVIOUS
<1>1. /\ checks = {} /\ pending = {} /\ fails = [c \in Monitored |-> 0]
      /\ alerted = [c \in Monitored |-> FALSE] /\ recent = [c \in Monitored |-> <<>>]
    BY DEF LibrariesInit, Monitor!Init
<1>2. \A c \in Monitored : recent[c] = <<>> /\ fails[c] = 0 /\ ~alerted[c] /\ Len(<<>>) = 0 /\ <<>> \in Seq(Results)
    BY <1>1
<1>3. Trailing(<<>>, 0) BY DEF Trailing
<1>4. recent \in [Monitored -> Seq(Results)] /\ DOMAIN alerted = Monitored BY <1>1, <1>2
<1>5. fails \in [Monitored -> 0..3] BY <1>1
<1> QED BY <1>1, <1>2, <1>3, <1>4, <1>5 DEF UptimeIInv, Monitor!TypeOK

-----------------------------------------------------------------------------
(* Deviations from the route (RiderLibrary).                               *)

DeviationVars == <<here, since, history, alert, streak>>

Locations == [on : Nat, off : Nat]

\* Locations, and all of them deviate.
Astray(x) == x.on = 0 /\ x.off > 0

\* The streak is of what was astray at the end of the history.
Streak(h, n) ==
    /\ n \in Nat /\ n <= Len(h) /\ Len(h) <= Window
    /\ \A i \in 1..Len(h) : i > Len(h) - n => Astray(h[i])

DeviationIInv ==
    /\ Fleet!DeviationTypeOK
    /\ Streak(history, streak)
    /\ since.off > 0 /\ since.on = 0 => Fleet!Deviating(here)
    /\ Fleet!LastingIsReported /\ Fleet!AlertIsFounded

LEMMA DeviationSteps ==
    ASSUME Unbounded
    PROVE  UNCHANGED DeviationVars \/ Fleet!DeviationNext
BY DEF Unbounded, Calls, World, Faults, Steps, Frame, DeviationVars

LEMMA FleetCardinality == \A S : Fleet!Cardinality(S) = Cardinality(S)
BY DEF Fleet!Cardinality, Cardinality

\* The window moves on by one entry.
LEMMA StreakNext ==
    ASSUME NEW h \in Seq(Locations), NEW n, Streak(h, n),
           NEW x \in Locations, NEW goesOn \in BOOLEAN, goesOn => Astray(x)
    PROVE  LET now == Append(IF Len(h) = Window THEN Tail(h) ELSE h, x)
               total == IF goesOn THEN IF n = Window THEN Window ELSE n + 1 ELSE 0
           IN  now \in Seq(Locations) /\ Streak(now, total)
<1> DEFINE kept == IF Len(h) = Window THEN Tail(h) ELSE h
           now == Append(kept, x)
           total == IF goesOn THEN IF n = Window THEN Window ELSE n + 1 ELSE 0
           l == Len(h)
           m == Len(kept)
           gone == IF l = Window THEN 1 ELSE 0
<1>0. Window \in Nat \ {0} /\ n \in Nat /\ l \in Nat /\ l <= Window /\ n <= l
    BY BoundsAre DEF Streak
<1>1. /\ kept \in Seq(Locations) /\ m = l - gone
      /\ \A i \in 1..m : kept[i] = h[i + gone]
  <2>1. CASE l = Window
    <3>1. h # <<>> BY <1>0, <2>1
    <3>2. kept = Tail(h) /\ gone = 1 BY <2>1
    <3> HIDE DEF kept, gone
    <3> QED BY <3>1, <3>2
  <2>2. CASE l # Window
    <3>1. kept = h /\ gone = 0 BY <2>2
    <3> HIDE DEF kept, gone
    <3>2. \A i \in 1..m : i + 0 = i OBVIOUS
    <3> QED BY <1>0, <3>1, <3>2
  <2> QED BY <2>1, <2>2
<1>2. gone \in {0, 1} /\ (gone = 1 <=> l = Window) OBVIOUS
<1> HIDE DEF kept, gone
<1>3. m \in Nat /\ m + 1 <= Window /\ m + 1 \in Nat
  <2> HIDE DEF l, m
  <2> QED BY <1>0, <1>1, <1>2
<1>4. /\ now \in Seq(Locations) /\ Len(now) = m + 1 /\ now[m + 1] = x
      /\ \A i \in 1..m : now[i] = kept[i]
    BY <1>1
<1>5. \A i \in 1..l : i > l - n => Astray(h[i]) BY DEF Streak
<1> HIDE DEF now, l, m
<1>6. total \in Nat /\ total <= m + 1 BY <1>0, <1>1, <1>2, <1>3
<1>7. ASSUME NEW i \in 1..(m + 1), i > m + 1 - total PROVE Astray(now[i])
  <2>1. goesOn /\ total \in {n, n + 1} BY <1>3, <1>7
  <2>2. CASE i = m + 1 BY <1>4, <2>1, <2>2
  <2>3. CASE i # m + 1
    <3>1. i \in 1..m BY <1>3, <2>3
    <3>2. i + gone \in 1..l /\ i + gone > l - n BY <1>0, <1>1, <1>2, <1>6, <1>7, <2>1, <3>1
    <3> QED BY <1>1, <1>4, <1>5, <3>1, <3>2
  <2> QED BY <2>2, <2>3
<1> HIDE DEF total
<1>8. Streak(now, total) BY <1>3, <1>4, <1>6, <1>7 DEF Streak
<1> QED BY <1>4, <1>8 DEF now, kept, total

\* A sum is of something if one of its parts is.
LEMMA TotalPositive ==
    ASSUME NEW S, IsFiniteSet(S), NEW w, \A x \in S : w[x] \in Nat
    PROVE  Total(w, S) \in Nat /\ (Total(w, S) > 0 <=> \E x \in S : w[x] > 0)
<1>1. \A x \in S : w[x] \in Int OBVIOUS
<1>2. \A T \in SUBSET S : Total(w, T) \in Nat BY TotalGrows
<1>3. /\ Total(w, {}) = 0
      /\ \A T \in SUBSET S, x \in S : x \in T => Total(w, T) = w[x] + Total(w, T \ {x})
    BY <1>1, Totals
<1>4. ASSUME NEW x \in S, w[x] > 0 PROVE Total(w, S) > 0
  <2>1. Total(w, S) = w[x] + Total(w, S \ {x}) /\ Total(w, S \ {x}) \in Nat BY <1>2, <1>3
  <2> QED BY <1>4, <2>1
<1>5. ASSUME \A x \in S : w[x] = 0 PROVE Total(w, S) = 0
  <2> DEFINE G == {T \in SUBSET S : Total(w, T) = 0}
  <2>1. {} \in G BY <1>3
  <2>2. ASSUME NEW T \in SUBSET S, T # {}, \A x \in T : T \ {x} \in G PROVE T \in G
    <3>1. PICK x \in T : TRUE BY <2>2
    <3>2. Total(w, T) = w[x] + Total(w, T \ {x}) /\ w[x] = 0 BY <1>3, <1>5
    <3>3. Total(w, T \ {x}) = 0 BY <2>2
    <3> QED BY <3>2, <3>3
  <2>3. SUBSET S \subseteq G
    <3> HIDE DEF G
    <3> QED BY <2>1, <2>2, SetInduction
  <2> QED BY <2>3
<1>6. Total(w, S) \in Nat BY <1>2
<1> QED BY <1>4, <1>5, <1>6

LEMMA FleetSums == ASSUME NEW w, NEW S PROVE Fleet!SumFunctionOnSet(w, S) = Total(w, S)
BY DEF Total, SumFunctionOnSet, FoldFunctionOnSet, MapThenFoldSet,
       Fleet!SumFunctionOnSet, Fleet!FoldFunctionOnSet, Fleet!MapThenFoldSet

\* If all is astray, the deviations are all of the locations; and where there are
\* more than half of them, there is one.
LEMMA StreakPersists ==
    ASSUME NEW h, NEW n, Streak(h, n), h \in Seq(Locations)
    PROVE  /\ n = Window => Fleet!Persistent(h)
           /\ Fleet!Persistent(h) => \E i \in DOMAIN h : h[i].off > 0
<1> DEFINE D == DOMAIN h
           all == [i \in D |-> h[i].on + h[i].off]
           off == [i \in D |-> h[i].off]
           places == Total(all, D)
           deviations == Total(off, D)
<1>1. D = 1..Len(h) /\ Len(h) \in Nat /\ IsFiniteSet(D) BY FS_Interval
<1>2. \A i \in D : h[i].on \in Nat /\ h[i].off \in Nat
  <2>1. \A i \in D : h[i] \in Locations BY <1>1
  <2>2. \A x \in Locations : x.on \in Nat /\ x.off \in Nat BY DEF Locations
  <2> QED BY <2>1, <2>2
<1>3. \A i \in D : all[i] \in Nat /\ off[i] \in Nat BY <1>2
<1>4. Fleet!Persistent(h) <=> deviations > places \div 2
    BY FleetSums DEF Fleet!Persistent, Fleet!PersistentDeviations, Fleet!Recorded
<1>5. places \in Nat /\ deviations \in Nat
      /\ (deviations > 0 <=> \E i \in D : off[i] > 0)
  <2> HIDE DEF all, off, D
  <2> QED BY <1>1, <1>3, TotalPositive
<1>6. ASSUME n = Window PROVE places = deviations /\ deviations > 0
  <2>1. Len(h) = n /\ n \in Nat \ {0}
    <3> DEFINE k == Len(h)
    <3>1. Window \in Nat \ {0} /\ n <= k /\ k <= Window /\ k \in Nat
        BY <1>1, BoundsAre DEF Streak
    <3> HIDE DEF k, D, all, off, places, deviations
    <3>2. k = n /\ n \in Nat \ {0} BY <1>6, <3>1
    <3> QED BY <3>2 DEF k
  <2>2. \A i \in D : Astray(h[i]) BY <1>1, <2>1 DEF Streak
  <2>3. \A i \in D : h[i].on + h[i].off = h[i].off BY <1>2, <2>2 DEF Astray
  <2>4. all = off BY <2>3
  <2>5. 1 \in D /\ off[1] > 0 BY <1>1, <2>1, <2>2 DEF Astray
  <2> QED BY <1>5, <2>4, <2>5
<1> HIDE DEF places, deviations
<1>7. deviations > places \div 2 => deviations > 0 BY <1>5
<1>8. n = Window => deviations > places \div 2 BY <1>5, <1>6
<1> QED BY <1>4, <1>5, <1>7, <1>8

LEMMA DeviationTicks ==
    ASSUME DeviationIInv, Fleet!DeviationTick
    PROVE  DeviationIInv'
<1> DEFINE goesOn == since.on = 0 /\ since.off > 0
<1>1. /\ here \in Fleet!Bands /\ since \in Locations /\ history \in Seq(Locations)
      /\ Streak(history, streak)
      /\ goesOn => Fleet!Deviating(here)
    BY DEF DeviationIInv, Fleet!DeviationTypeOK, Locations
<1>2. goesOn \in BOOLEAN /\ (goesOn => Astray(since)) BY DEF Astray
<1>3. /\ history' = Append(IF Len(history) = Window THEN Tail(history) ELSE history, since)
      /\ streak' = (IF goesOn THEN IF streak = Window THEN Window ELSE streak + 1 ELSE 0)
      /\ alert' \in {Fleet!CheckRouteDeviation(history'), "failed"}
      /\ since' = [on |-> 0, off |-> 0] /\ here' = here
    BY DEF Fleet!DeviationTick, Fleet!CreateAlert, Fleet!Nothing
<1>4. history' \in Seq(Locations) /\ Streak(history', streak')
  <2> HIDE DEF goesOn
  <2> QED BY <1>1, <1>2, <1>3, StreakNext
<1>5. /\ streak' = Window => Fleet!Persistent(history')
      /\ Fleet!Persistent(history') => \E i \in DOMAIN history' : history'[i].off > 0
    BY <1>4, StreakPersists
<1>6. streak' = Window => Fleet!Deviating(here) BY <1>1, <1>3, BoundsAre
<1>7. Fleet!Severity(here) \in {"low", "medium", "high"} BY DEF Fleet!Severity
<1>10. since' \in Locations /\ since'.off = 0 BY <1>3 DEF Locations
<1>8. CASE Fleet!Deviating(here) /\ Fleet!Persistent(history')
  <2>1. alert' \in {"low", "medium", "high", "failed"}
      BY <1>3, <1>7, <1>8 DEF Fleet!CheckRouteDeviation
  <2>2. Fleet!DeviationTypeOK' BY <1>1, <1>3, <1>4, <1>10, <2>1 DEF Fleet!DeviationTypeOK, Locations
  <2>3. Fleet!LastingIsReported' BY <2>1 DEF Fleet!LastingIsReported
  <2>4. Fleet!AlertIsFounded' BY <1>3, <1>5, <1>8 DEF Fleet!AlertIsFounded, Fleet!Deviating
  <2> QED BY <1>4, <1>10, <2>2, <2>3, <2>4 DEF DeviationIInv, Streak
<1>9. CASE ~(Fleet!Deviating(here) /\ Fleet!Persistent(history'))
  <2>1. alert' \in {"none", "failed"}
      BY <1>3, <1>9 DEF Fleet!CheckRouteDeviation
  <2>2. Fleet!DeviationTypeOK' BY <1>1, <1>3, <1>4, <1>10, <2>1 DEF Fleet!DeviationTypeOK, Locations
  <2>3. Fleet!LastingIsReported' BY <1>5, <1>6, <1>9 DEF Fleet!LastingIsReported
  <2>4. Fleet!AlertIsFounded' BY <2>1 DEF Fleet!AlertIsFounded
  <2> QED BY <1>4, <1>10, <2>2, <2>3, <2>4 DEF DeviationIInv, Streak
<1> QED BY <1>8, <1>9

\* A location is recorded.
LEMMA DeviationRecords ==
    ASSUME DeviationIInv, NEW band \in Fleet!Bands, Fleet!Record(band)
    PROVE  DeviationIInv'
<1>1. PICK on \in Nat, off \in Nat : since = [on |-> on, off |-> off]
    BY DEF DeviationIInv, Fleet!DeviationTypeOK
<1>2. /\ here' = band /\ history' = history /\ alert' = alert /\ streak' = streak
      /\ since' = IF Fleet!Deviating(band) THEN [on |-> on, off |-> off + 1]
                  ELSE [on |-> on + 1, off |-> off]
    BY <1>1 DEF Fleet!Record
<1>3. /\ since' \in [on : Nat, off : Nat] /\ since' # [on |-> 0, off |-> 0]
      /\ since'.off > 0 /\ since'.on = 0 => Fleet!Deviating(here')
  <2>1. CASE Fleet!Deviating(band)
    <3>1. since' = [on |-> on, off |-> off + 1] BY <1>2, <2>1
    <3>2. [on |-> on, off |-> off + 1].off # [on |-> 0, off |-> 0].off OBVIOUS
    <3>3. Fleet!Deviating(here') BY <1>2, <2>1
    <3> QED BY <3>1, <3>2, <3>3
  <2>2. CASE ~Fleet!Deviating(band)
    <3>1. since' = [on |-> on + 1, off |-> off] BY <1>2, <2>2
    <3>2. [on |-> on + 1, off |-> off].on # [on |-> 0, off |-> 0].on OBVIOUS
    <3>3. since'.on # 0 BY <3>1
    <3> QED BY <3>1, <3>2, <3>3
  <2> QED BY <2>1, <2>2
<1>4. Fleet!DeviationTypeOK' BY <1>2, <1>3 DEF DeviationIInv, Fleet!DeviationTypeOK
<1>5. Fleet!AlertIsFounded' /\ Fleet!LastingIsReported'
    BY <1>2, <1>3 DEF DeviationIInv, Fleet!AlertIsFounded, Fleet!LastingIsReported, Fleet!Nothing
<1>6. Streak(history', streak') BY <1>2 DEF DeviationIInv
<1> QED BY <1>3, <1>4, <1>5, <1>6 DEF DeviationIInv, Streak

LEMMA DeviationStutter ==
    ASSUME DeviationIInv, UNCHANGED DeviationVars
    PROVE  DeviationIInv'
BY DEF DeviationIInv, DeviationVars, Streak, Fleet!DeviationTypeOK, Fleet!Deviating,
     Fleet!LastingIsReported, Fleet!AlertIsFounded

LEMMA DeviationStep ==
    ASSUME DeviationIInv, Unbounded
    PROVE  DeviationIInv'
BY DeviationSteps, DeviationStutter, DeviationTicks, DeviationRecords DEF Fleet!DeviationNext

LEMMA DeviationInit == LibrariesInit => DeviationIInv
<1> SUFFICES ASSUME LibrariesInit PROVE DeviationIInv OBVIOUS
<1>1. /\ here = 0 /\ since = [on |-> 0, off |-> 0] /\ history = <<>>
      /\ alert = "none" /\ streak = 0
    BY DEF LibrariesInit, Fleet!Init, Fleet!DeviationInit, Fleet!Nothing
<1>2. Window \in Nat \ {0} /\ <<>> \in Seq(Locations) /\ Len(<<>>) = 0
    BY BoundsAre
<1>3. Streak(<<>>, 0) BY <1>2 DEF Streak
<1>4. since \in Locations /\ since.off = 0 BY <1>1 DEF Locations
<1>8. 0 \in Fleet!Bands BY DEF Fleet!Bands
<1>5. Fleet!DeviationTypeOK BY <1>1, <1>2, <1>4, <1>8 DEF Fleet!DeviationTypeOK, Locations
<1>6. Fleet!LastingIsReported BY <1>1, <1>2 DEF Fleet!LastingIsReported
<1>7. Fleet!AlertIsFounded BY <1>1 DEF Fleet!AlertIsFounded
<1> QED BY <1>1, <1>3, <1>4, <1>5, <1>6, <1>7 DEF DeviationIInv

-----------------------------------------------------------------------------
(* Fraud (AbuseDetection).                                                 *)

FraudVars == <<check, facts, step, found, action, risk, fraudAlert>>

FraudIInv ==
    /\ Abuse!FraudTypeOK
    /\ step # "none" => action = "none"
    /\ action # "none" =>
         /\ risk = Abuse!Score(check, found)
         /\ action = Abuse!Verdict(check, risk)
         /\ fraudAlert => check = "order" /\ risk >= 50

LEMMA FraudSteps ==
    ASSUME Unbounded
    PROVE  UNCHANGED FraudVars \/ Abuse!FraudNext
BY DEF Unbounded, Calls, World, Faults, Steps, Frame, FraudVars

LEMMA FewFinite ==
    /\ \A a : IsFiniteSet({a})
    /\ \A a, b : IsFiniteSet({a, b})
    /\ \A a, b, c : IsFiniteSet({a, b, c})
    /\ \A a, b, c, d : IsFiniteSet({a, b, c, d})
<1>1. \A a : IsFiniteSet({a}) BY FS_Singleton
<1>2. ASSUME NEW a, NEW b PROVE IsFiniteSet({a, b})
  <2>1. IsFiniteSet({a} \cup {b}) BY <1>1, FS_AddElement
  <2>2. {a} \cup {b} = {a, b} OBVIOUS
  <2> QED BY <2>1, <2>2
<1>3. ASSUME NEW a, NEW b, NEW c PROVE IsFiniteSet({a, b, c})
  <2>1. IsFiniteSet({a, b} \cup {c}) BY <1>2, FS_AddElement
  <2>2. {a, b} \cup {c} = {a, b, c} OBVIOUS
  <2> QED BY <2>1, <2>2
<1>4. ASSUME NEW a, NEW b, NEW c, NEW d PROVE IsFiniteSet({a, b, c, d})
  <2>1. IsFiniteSet({a, b, c} \cup {d}) BY <1>3, FS_AddElement
  <2>2. {a, b, c} \cup {d} = {a, b, c, d} OBVIOUS
  <2> QED BY <2>1, <2>2
<1> QED BY <1>1, <1>2, <1>3, <1>4

\* What the lookups show of each kind of check.
LEMMA Lookups ==
    /\ DOMAIN Abuse!Shown("order") = {"user", "addresses", "devices", "history"}
    /\ DOMAIN Abuse!Shown("coupon") = {"devices", "user"}
    /\ DOMAIN Abuse!Shown("user") = {"user", "history"}
    /\ \A c \in Abuse!Checks : \A l \in DOMAIN Abuse!Shown(c) : IsFiniteSet(Abuse!Shown(c)[l])
<1>1. Abuse!Shown("order") =
           [user      |-> {"new_account", "high_value_order", "cod_payment", "unverified_user"},
            addresses |-> {"new_address"},
            devices   |-> {"new_device", "blacklisted_device"},
            history   |-> {"first_order"}]
    BY DEF Abuse!Shown
<1>2. Abuse!Shown("coupon") =
           [devices |-> {"new_device", "second_new_device"},
            user    |-> {"very_new_account"}]
    BY DEF Abuse!Shown
<1>3. Abuse!Shown("user") =
           [user    |-> {"account_of_weeks", "account_of_days", "unverified_user"},
            history |-> {"few_orders", "first_order"}]
    BY DEF Abuse!Shown
<1>9. /\ DOMAIN Abuse!Shown("order") = {"user", "addresses", "devices", "history"}
      /\ Abuse!Shown("order")["user"] =
           {"new_account", "high_value_order", "cod_payment", "unverified_user"}
      /\ Abuse!Shown("order")["addresses"] = {"new_address"}
      /\ Abuse!Shown("order")["devices"] = {"new_device", "blacklisted_device"}
      /\ Abuse!Shown("order")["history"] = {"first_order"}
    BY <1>1
<1>10. /\ DOMAIN Abuse!Shown("coupon") = {"devices", "user"}
       /\ Abuse!Shown("coupon")["devices"] = {"new_device", "second_new_device"}
       /\ Abuse!Shown("coupon")["user"] = {"very_new_account"}
    BY <1>2
<1>11. /\ DOMAIN Abuse!Shown("user") = {"user", "history"}
       /\ Abuse!Shown("user")["user"] = {"account_of_weeks", "account_of_days", "unverified_user"}
       /\ Abuse!Shown("user")["history"] = {"few_orders", "first_order"}
    BY <1>3
<1>4. \A l \in DOMAIN Abuse!Shown("order") : IsFiniteSet(Abuse!Shown("order")[l])
  <2>1. IsFiniteSet({"new_account", "high_value_order", "cod_payment", "unverified_user"})
      BY FewFinite
  <2>2. IsFiniteSet({"new_address"}) /\ IsFiniteSet({"first_order"}) BY FewFinite
  <2>3. IsFiniteSet({"new_device", "blacklisted_device"}) BY FewFinite
  <2> QED BY <1>9, <2>1, <2>2, <2>3
<1>5. \A l \in DOMAIN Abuse!Shown("coupon") : IsFiniteSet(Abuse!Shown("coupon")[l])
  <2>1. IsFiniteSet({"new_device", "second_new_device"}) BY FewFinite
  <2>2. IsFiniteSet({"very_new_account"}) BY FewFinite
  <2> QED BY <1>10, <2>1, <2>2
<1>6. \A l \in DOMAIN Abuse!Shown("user") : IsFiniteSet(Abuse!Shown("user")[l])
  <2>1. IsFiniteSet({"account_of_weeks", "account_of_days", "unverified_user"}) BY FewFinite
  <2>2. IsFiniteSet({"few_orders", "first_order"}) BY FewFinite
  <2> QED BY <1>11, <2>1, <2>2
<1>12. Abuse!Checks = {"order", "coupon", "user"} BY DEF Abuse!Checks
<1> QED BY <1>4, <1>5, <1>6, <1>9, <1>10, <1>11, <1>12

LEMMA FactorsFinite == \A c \in Abuse!Checks : IsFiniteSet(Abuse!Factors(c))
<1>1. SUFFICES ASSUME NEW c \in Abuse!Checks PROVE IsFiniteSet(Abuse!Factors(c)) OBVIOUS
<1> DEFINE S == Abuse!Shown(c)
           D == {"user", "addresses", "devices", "history"}
           T(l) == IF l \in DOMAIN S THEN S[l] ELSE {}
<1>2. DOMAIN S \subseteq D /\ \A l \in DOMAIN S : IsFiniteSet(S[l])
    BY Lookups DEF Abuse!Checks
<1>3. \A l \in D : IsFiniteSet(T(l)) BY <1>2, FS_EmptySet
<1>4. Abuse!Factors(c) = UNION {S[l] : l \in DOMAIN S} BY DEF Abuse!Factors
<1> HIDE DEF S
<1>5. Abuse!Factors(c) = (T("user") \cup T("addresses")) \cup (T("devices") \cup T("history"))
    BY <1>2, <1>4
<1> HIDE DEF T
<1>6. IsFiniteSet(T("user") \cup T("addresses")) /\ IsFiniteSet(T("devices") \cup T("history"))
    BY <1>3, FS_Union
<1> QED BY <1>5, <1>6, FS_Union

\* More factors never make the score smaller.
LEMMA ScoreGrows ==
    ASSUME NEW c \in Abuse!Checks, NEW F \in SUBSET Abuse!Factors(c), NEW E \in SUBSET F
    PROVE  /\ Abuse!Score(c, F) \in 0..100 /\ Abuse!Score(c, E) \in 0..100
           /\ Abuse!Score(c, E) <= Abuse!Score(c, F)
<1> DEFINE S == Abuse!Factors(c)
           w == Abuse!Weights(c)
<1>1. DOMAIN w = S /\ \A f \in S : w[f] \in Nat
  <2>1. \A f : Abuse!OrderWeight(f) \in Nat /\ Abuse!CouponWeight(f) \in Nat /\ Abuse!UserWeight(f) \in Nat
      BY DEF Abuse!OrderWeight, Abuse!CouponWeight, Abuse!UserWeight
  <2>2. \/ w = [f \in S |-> Abuse!OrderWeight(f)]
        \/ w = [f \in S |-> Abuse!CouponWeight(f)]
        \/ w = [f \in S |-> Abuse!UserWeight(f)]
      BY DEF Abuse!Weights, Abuse!Checks
  <2> HIDE DEF w, S
  <2> QED BY <2>1, <2>2
<1>2. \A U : Abuse!Sum(c, U) = Total(w, U)
    BY DEF Abuse!Sum, Total, Abuse!SumFunctionOnSet, SumFunctionOnSet, Abuse!FoldFunctionOnSet,
       FoldFunctionOnSet, Abuse!MapThenFoldSet, MapThenFoldSet
<1>3. IsFiniteSet(S) BY FactorsFinite
<1> HIDE DEF S, w
<1>4. Total(w, F) \in Nat /\ Total(w, E) \in Nat /\ Total(w, E) <= Total(w, F)
  <2>1. F \in SUBSET S /\ E \in SUBSET S BY DEF S
  <2> QED BY <1>1, <1>3, <2>1, TotalGrows
<1>5. \A n \in Nat : Abuse!Min({n, 100}) = IF n < 100 THEN n ELSE 100
  <2> TAKE n \in Nat
  <2> DEFINE least == IF n < 100 THEN n ELSE 100
  <2>1. least \in {n, 100} /\ \A y \in {n, 100} : least <= y OBVIOUS
  <2>2. \A x \in {n, 100} : (\A y \in {n, 100} : x <= y) => x = least OBVIOUS
  <2> HIDE DEF least
  <2>3. (CHOOSE x \in {n, 100} : \A y \in {n, 100} : x <= y) = least BY <2>1, <2>2
  <2> QED BY <2>3 DEF Abuse!Min, least
<1>6. /\ Abuse!Score(c, F) = IF Total(w, F) < 100 THEN Total(w, F) ELSE 100
      /\ Abuse!Score(c, E) = IF Total(w, E) < 100 THEN Total(w, E) ELSE 100
    BY <1>2, <1>4, <1>5 DEF Abuse!Score
<1> QED BY <1>4, <1>6

LEMMA StricterWithScore ==
    ASSUME NEW c \in Abuse!Checks, NEW a \in 0..100, NEW b \in 0..100, a <= b
    PROVE  Abuse!Strictness(Abuse!Verdict(c, a)) <= Abuse!Strictness(Abuse!Verdict(c, b))
<1>1. CASE c = "order"
    BY <1>1 DEF Abuse!Strictness, Abuse!Verdict, Abuse!OrderVerdict
<1>2. CASE c = "coupon"
    BY <1>2 DEF Abuse!Strictness, Abuse!Verdict, Abuse!CouponVerdict
<1>3. CASE c = "user"
    BY <1>3 DEF Abuse!Strictness, Abuse!Verdict
<1> QED BY <1>1, <1>2, <1>3 DEF Abuse!Checks

\* Each lookup is followed by one that there is, or by the verdict.
LEMMA Afters ==
    ASSUME check \in Abuse!Checks, step \in DOMAIN Abuse!Shown(check)
    PROVE  Abuse!After(step) \in {"decide"} \cup DOMAIN Abuse!Shown(check)
<1>1. CASE check = "order"
  <2>1. step \in {"user", "addresses", "devices", "history"} BY <1>1, Lookups
  <2>2. Abuse!After(step) \in {"decide", "addresses", "devices", "history"}
      BY <1>1, <2>1 DEF Abuse!After
  <2> QED BY <1>1, <2>2, Lookups
<1>2. CASE check = "coupon"
  <2>1. step \in {"user", "devices"} BY <1>2, Lookups
  <2>2. Abuse!After(step) \in {"decide", "user"} BY <1>2, <2>1 DEF Abuse!After
  <2> QED BY <1>2, <2>2, Lookups
<1>3. CASE check = "user"
  <2>1. step \in {"user", "history"} BY <1>3, Lookups
  <2>2. Abuse!After(step) \in {"decide", "history"} BY <1>3, <2>1 DEF Abuse!After
  <2> QED BY <1>3, <2>2, Lookups
<1> QED BY <1>1, <1>2, <1>3 DEF Abuse!Checks

LEMMA FraudStep ==
    ASSUME FraudIInv, Unbounded
    PROVE  FraudIInv'
<1>1. CASE UNCHANGED FraudVars BY <1>1 DEF FraudIInv, FraudVars, Abuse!FraudTypeOK
<1>2. ASSUME NEW c \in Abuse!Checks, NEW first \in {"user", "devices"}, first \in DOMAIN Abuse!Shown(c),
             NEW factors \in Abuse!Possible(c), Abuse!Start(c, first, factors)
      PROVE  FraudIInv'
    BY <1>2 DEF FraudIInv, Abuse!FraudTypeOK, Abuse!Start
<1>3. ASSUME NEW factors \in SUBSET facts, step \in DOMAIN Abuse!Shown(check), Abuse!GoOn(factors)
      PROVE  FraudIInv'
  <2>1. check \in Abuse!Checks BY DEF FraudIInv, Abuse!FraudTypeOK
  <2>2. step \notin {"none", "decide"} BY <1>3, <2>1, Lookups DEF Abuse!Checks
  <2>3. step' \in {"decide"} \cup DOMAIN Abuse!Shown(check) BY <1>3, <2>1, Afters DEF Abuse!GoOn
  <2> QED BY <1>3, <2>2, <2>3 DEF FraudIInv, Abuse!FraudTypeOK, Abuse!GoOn
<1>4. CASE Abuse!UserError BY <1>4 DEF FraudIInv, Abuse!FraudTypeOK, Abuse!UserError
<1>5. ASSUME NEW alerted_ \in BOOLEAN, Abuse!Decide(alerted_) PROVE FraudIInv'
  <2>1. /\ check \in Abuse!Checks /\ facts \in Abuse!Possible(check) /\ found \subseteq facts
        /\ UNCHANGED <<check, facts, found>> /\ step' = "none"
      BY <1>5 DEF FraudIInv, Abuse!FraudTypeOK, Abuse!Decide
  <2>2. found \in SUBSET Abuse!Factors(check) BY <2>1 DEF Abuse!Possible
  <2>3. Abuse!Score(check, found) \in 0..100 BY <2>1, <2>2, ScoreGrows
  <2>4. /\ risk' = Abuse!Score(check, found) /\ action' = Abuse!Verdict(check, risk')
        /\ fraudAlert' => check = "order" /\ risk' >= 50
      BY <1>5 DEF Abuse!Decide
  <2> QED BY <2>1, <2>3, <2>4 DEF FraudIInv, Abuse!FraudTypeOK
<1>6. ASSUME NEW factors \in Abuse!Possible("order"), Abuse!DetectOrderFraud(factors) PROVE FraudIInv'
    BY <1>2, <1>6, Lookups DEF Abuse!DetectOrderFraud, Abuse!Checks
<1>7. ASSUME NEW factors \in Abuse!Possible("coupon"), Abuse!CheckCouponAbuse(factors) PROVE FraudIInv'
    BY <1>2, <1>7, Lookups DEF Abuse!CheckCouponAbuse, Abuse!Checks
<1>8. ASSUME NEW factors \in Abuse!Possible("user"), Abuse!GetFraudScore(factors) PROVE FraudIInv'
    BY <1>2, <1>8, Lookups DEF Abuse!GetFraudScore, Abuse!Checks
<1>9. CASE Abuse!LookUp BY <1>3, <1>9 DEF Abuse!LookUp
<1>10. CASE Abuse!LookUpError BY <1>3, <1>10 DEF Abuse!LookUpError
<1> QED BY <1>1, <1>4, <1>5, <1>6, <1>7, <1>8, <1>9, <1>10, FraudSteps DEF Abuse!FraudNext

LEMMA FraudStutter ==
    ASSUME FraudIInv, UNCHANGED FraudVars
    PROVE  FraudIInv'
BY DEF FraudIInv, FraudVars, Abuse!FraudTypeOK

LEMMA FraudSound ==
    ASSUME FraudIInv
    PROVE  Abuse!FraudTypeOK /\ Abuse!NeverTooStrict
<1>1. SUFFICES ASSUME action # "none" PROVE
        /\ \A f \in Abuse!Factors(check) \ found :
             Abuse!Strictness(action)
                <= Abuse!Strictness(Abuse!Verdict(check, Abuse!Score(check, found \cup {f})))
        /\ Abuse!Strictness(action) <= Abuse!Strictness(Abuse!Verdict(check, Abuse!Score(check, facts)))
        /\ risk <= Abuse!Score(check, facts)
        /\ fraudAlert => action \in {"review", "reject"}
    BY DEF FraudIInv, Abuse!NeverTooStrict
<1>2. /\ check \in Abuse!Checks /\ facts \in SUBSET Abuse!Factors(check) /\ found \in SUBSET facts
      /\ risk = Abuse!Score(check, found) /\ action = Abuse!Verdict(check, risk)
      /\ fraudAlert => check = "order" /\ risk >= 50
    BY <1>1 DEF FraudIInv, Abuse!FraudTypeOK, Abuse!Possible
<1>3. ASSUME NEW F \in SUBSET Abuse!Factors(check), found \subseteq F
      PROVE  /\ risk \in 0..100 /\ risk <= Abuse!Score(check, F)
             /\ Abuse!Strictness(action) <= Abuse!Strictness(Abuse!Verdict(check, Abuse!Score(check, F)))
    BY <1>2, <1>3, ScoreGrows, StricterWithScore
<1>4. \A f \in Abuse!Factors(check) \ found :
         Abuse!Strictness(action)
            <= Abuse!Strictness(Abuse!Verdict(check, Abuse!Score(check, found \cup {f})))
    BY <1>2, <1>3
<1>5. fraudAlert => action \in {"review", "reject"}
    BY <1>2, <1>3 DEF Abuse!Verdict, Abuse!OrderVerdict
<1> QED BY <1>2, <1>3, <1>4, <1>5

LEMMA FraudInit == LibrariesInit => FraudIInv
<1> SUFFICES ASSUME LibrariesInit PROVE FraudIInv OBVIOUS
<1>1. /\ check = "order" /\ facts = {} /\ found = {} /\ step = "none" /\ action = "none" /\ risk = 0
    BY DEF LibrariesInit, Abuse!Init, Abuse!FraudInit
<1>2. {} \in Abuse!Possible("order") BY DEF Abuse!Possible
<1> QED BY <1>1, <1>2 DEF FraudIInv, Abuse!FraudTypeOK, Abuse!Checks
=============================================================================
