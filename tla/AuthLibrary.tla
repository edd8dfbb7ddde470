---------------------------- MODULE AuthLibrary -----------------------------
(* backend/pkg/auth: one-time passwords and refresh tokens. Each is        *)
(* specified by itself; no state is shared but the goroutines.             *)
EXTENDS Goroutines, Sequences

-----------------------------------------------------------------------------
(* backend/pkg/auth/otp_abuse_prevention.go: how often a one-time password *)
(* may be asked for.  Every key of Redis carries the phone number, so one  *)
(* number is modelled.  Each command sent to Redis is an action.           *)
(* Left out: how long a cooldown lasts.                                    *)

CONSTANTS MaxRequests, CaptchaThreshold

VARIABLES
    requests,  \* otp_requests: its count, and whether the key expires
    failures,  \* otp_failures, likewise
    cooldown   \* whether otp_cooldown names a time to come

otpVars == <<call, requests, failures, cooldown>>

NoKey == [n |-> 0, expires |-> FALSE]

Incr(counter) == [counter EXCEPT !.n = @ + 1]

\* EXPIRE finds no key to act on if the count is gone.
SetExpiry(counter) == [counter EXCEPT !.expires = counter.n > 0]

OtpInit ==
    /\ call = [p \in Procs |-> Idle]
    /\ requests = NoKey /\ failures = NoKey
    /\ cooldown = FALSE

-----------------------------------------------------------------------------
(* SendOTPWithChecks: CheckOTPRequest, the captcha, RecordOTPRequest.      *)

SendOTPWithChecks(p) ==
    /\ call[p] = Idle
    /\ Goto(p, [pc |-> "limit", count |-> requests.n])
    /\ UNCHANGED <<requests, failures, cooldown>>

\* Faulty: one request more than there may be.
CheckLimitOffByOne(p) ==
    /\ At(p, "limit")
    /\ IF ~cooldown /\ call[p].count <= MaxRequests
         THEN Goto(p, [pc |-> "captcha"])
         ELSE Return(p)
    /\ cooldown' = (cooldown \/ call[p].count > MaxRequests)
    /\ UNCHANGED <<requests, failures>>

\* At the limit a new cooldown begins, unless one is running.
CheckLimit(p) ==
    /\ At(p, "limit")
    /\ IF ~cooldown /\ call[p].count < MaxRequests
         THEN Goto(p, [pc |-> "captcha"])
         ELSE Return(p)
    /\ cooldown' = (cooldown \/ call[p].count >= MaxRequests)
    /\ UNCHANGED <<requests, failures>>

\* After many failures the caller has to pass a captcha, and may not.
CheckCaptcha(p) ==
    /\ At(p, "captcha")
    /\ \/ Goto(p, [pc |-> "record"])
       \/ failures.n >= CaptchaThreshold /\ Return(p)
    /\ UNCHANGED <<requests, failures, cooldown>>

\* Faulty: the first request sees a count of 0.
RecordFromZero(p) ==
    /\ At(p, "record")
    /\ requests' = Incr(requests)
    /\ Goto(p, IF requests'.n = 0 THEN [pc |-> "expireRequests"] ELSE Idle)
    /\ UNCHANGED <<failures, cooldown>>

RecordOTPRequest(p) ==
    /\ At(p, "record")
    /\ requests' = Incr(requests)
    /\ Goto(p, IF requests'.n = 1 THEN [pc |-> "expireRequests"] ELSE Idle)
    /\ UNCHANGED <<failures, cooldown>>

ExpireRequests(p) ==
    /\ At(p, "expireRequests")
    /\ requests' = SetExpiry(requests)
    /\ Return(p)
    /\ UNCHANGED <<failures, cooldown>>

-----------------------------------------------------------------------------
(* VerifyOTPWithChecks: RecordOTPSuccess or RecordOTPFailure.              *)

VerifyOTPWithChecks(p) ==
    /\ call[p] = Idle
    /\ \E step \in {"clearFailures", "countFailure"} : Goto(p, [pc |-> step])
    /\ UNCHANGED <<requests, failures, cooldown>>

ClearFailures(p) ==
    /\ At(p, "clearFailures")
    /\ failures' = NoKey
    /\ Goto(p, [pc |-> "clearCooldown"])
    /\ UNCHANGED <<requests, cooldown>>

ClearCooldown(p) ==
    /\ At(p, "clearCooldown")
    /\ cooldown' = FALSE
    /\ Return(p)
    /\ UNCHANGED <<requests, failures>>

CountFailure(p) ==
    /\ At(p, "countFailure")
    /\ failures' = Incr(failures)
    /\ Goto(p, [pc |-> "expireFailures", count |-> failures'.n])
    /\ UNCHANGED <<requests, cooldown>>

ExpireFailures(p) ==
    /\ At(p, "expireFailures")
    /\ failures' = SetExpiry(failures)
    /\ Goto(p, IF call[p].count >= CaptchaThreshold THEN [pc |-> "cool"] ELSE Idle)
    /\ UNCHANGED <<requests, cooldown>>

Cool(p) ==
    /\ At(p, "cool")
    /\ cooldown' = TRUE
    /\ Return(p)
    /\ UNCHANGED <<requests, failures>>

-----------------------------------------------------------------------------

ResetOTPCounters ==
    /\ requests' = NoKey /\ failures' = NoKey /\ cooldown' = FALSE
    /\ UNCHANGED call

\* Redis drops the keys whose time has come.
KeysExpire ==
    /\ \/ requests.expires /\ requests' = NoKey /\ UNCHANGED <<failures, cooldown>>
       \/ failures.expires /\ failures' = NoKey /\ UNCHANGED <<requests, cooldown>>
       \/ cooldown /\ cooldown' = FALSE /\ UNCHANGED <<requests, failures>>
    /\ UNCHANGED call

\* Errors the code ignores: a cooldown that cannot be read is none, and what
\* cannot be deleted or made to expire stays.
Ignore(p) ==
    \/ At(p, "limit") /\ call[p].count < MaxRequests /\ Goto(p, [pc |-> "captcha"])
    \/ At(p, "clearFailures") /\ Goto(p, [pc |-> "clearCooldown"])
    \/ /\ At(p, "expireFailures")
       /\ Goto(p, IF call[p].count >= CaptchaThreshold THEN [pc |-> "cool"] ELSE Idle)

OtpFail ==
    /\ \E p \in Procs : Ignore(p) \/ Stop(p)
    /\ UNCHANGED <<requests, failures, cooldown>>

OtpWork(p) ==
    \/ SendOTPWithChecks(p) \/ CheckLimit(p) \/ CheckCaptcha(p)
    \/ RecordOTPRequest(p) \/ ExpireRequests(p)
    \/ VerifyOTPWithChecks(p) \/ ClearFailures(p) \/ ClearCooldown(p)
    \/ CountFailure(p) \/ ExpireFailures(p) \/ Cool(p)

OtpNext == (\E p \in Procs : OtpWork(p)) \/ ResetOTPCounters \/ KeysExpire \/ OtpFail

-----------------------------------------------------------------------------
(* Properties.                                                             *)

OtpTypeOK ==
    /\ requests \in [n : Nat, expires : BOOLEAN]
    /\ failures \in [n : Nat, expires : BOOLEAN]
    /\ cooldown \in BOOLEAN

\* "Max 3 OTP requests/hour per number" (otp_abuse_prevention.go:13): requests
\* that are checked at once may exceed it, by no more than they are.
RequestsBounded == requests.n <= MaxRequests + Cardinality(Procs) - 1

\* A count that is kept is a count that expires: nobody is locked out for good.
CountersExpire == \A counter \in {requests, failures} : counter.n > 0 => counter.expires

-----------------------------------------------------------------------------
(* backend/pkg/auth/jwt_refresh_token.go: refresh tokens, each good for    *)
(* one more.  The repository is an interface; each call to it is an        *)
(* action.  Left out: the access tokens, which are not stored.             *)

CONSTANTS Ids, Devices  \* tokens, numbered; devices, "" for none named

VARIABLES
    token,  \* the tokens stored
    ended   \* history variable: logins whose tokens were revoked on request

tokenVars == <<call, token, ended>>

Stored == DOMAIN token

Unrevoked(login) == {t \in Stored : token[t].login = login /\ ~token[t].revoked}

Logins == {token[t].login : t \in Stored}

TokenInit ==
    /\ call = [p \in Procs |-> Idle]
    /\ token = <<>>
    /\ ended = {}

\* Tokens are numbered as they are stored; login is the first of its chain.
SaveRefreshToken(login, device) ==
    /\ Cardinality(Stored) + 1 \in Ids
    /\ token' = Append(token, [login |-> login, device |-> device,
                               revoked |-> FALSE, expired |-> FALSE])

GenerateTokenPair(device) ==
    /\ SaveRefreshToken(Len(token) + 1, device)
    /\ UNCHANGED <<call, ended>>

\* Faulty: a revoked token will do.
RefreshRevoked(p, t, device) ==
    /\ call[p] = Idle
    /\ ~token[t].expired
    /\ device = "" \/ token[t].device = device
    /\ Goto(p, [pc |-> "revoke", old |-> t, device |-> device])
    /\ UNCHANGED <<token, ended>>

RefreshAccessToken(p, t, device) ==
    /\ call[p] = Idle
    /\ ~token[t].revoked /\ ~token[t].expired
    /\ device = "" \/ token[t].device = device
    /\ Goto(p, [pc |-> "revoke", old |-> t, device |-> device])
    /\ UNCHANGED <<token, ended>>

RevokeOld(p) ==
    /\ At(p, "revoke")
    /\ token' = [token EXCEPT ![call[p].old].revoked = TRUE]
    /\ Goto(p, [call[p] EXCEPT !.pc = "save"])
    /\ UNCHANGED ended

\* The new token is for the device the request named, if it named one.
SaveNew(p) ==
    /\ At(p, "save")
    /\ SaveRefreshToken(token[call[p].old].login, call[p].device)
    /\ Return(p)
    /\ UNCHANGED ended

RevokeRefreshToken(t) ==
    /\ token' = [token EXCEPT ![t].revoked = TRUE]
    /\ ended' = IF token[t].revoked THEN ended ELSE ended \cup {token[t].login}
    /\ UNCHANGED call

RevokeAllUserTokens ==
    /\ token' = [t \in Stored |-> [token[t] EXCEPT !.revoked = TRUE]]
    /\ ended' = ended \cup Logins
    /\ UNCHANGED call

Expire(t) ==
    /\ token' = [token EXCEPT ![t].expired = TRUE]
    /\ UNCHANGED <<call, ended>>

TokenFail == \E p \in Procs : Stop(p) /\ UNCHANGED <<token, ended>>

TokenWork(p) ==
    \/ \E t \in Stored, device \in Devices : RefreshAccessToken(p, t, device)
    \/ RevokeOld(p) \/ SaveNew(p)

Revoke == RevokeAllUserTokens \/ \E t \in Stored : RevokeRefreshToken(t)

TokenNext ==
    \/ \E p \in Procs : TokenWork(p)
    \/ \E device \in Devices : GenerateTokenPair(device)
    \/ \E t \in Stored : Expire(t)
    \/ Revoke
    \/ TokenFail

-----------------------------------------------------------------------------
(* Properties.                                                             *)

TokenTypeOK ==
    /\ token \in Seq([login : Ids, device : Devices, revoked : BOOLEAN, expired : BOOLEAN])
    /\ ended \subseteq Ids

\* "old token is revoked, new token is issued" (jwt_refresh_token.go:114): a
\* login has one token at a time until it ends, and none from then on.
OneTokenPerLogin ==
    \A login \in Logins : Cardinality(Unrevoked(login)) = IF login \in ended THEN 0 ELSE 1

-----------------------------------------------------------------------------
(* All of it, each part taking its steps while the others stand still.     *)

vars == <<call, requests, failures, cooldown, token, ended>>

Init == OtpInit /\ TokenInit

Next ==
    \/ OtpNext /\ UNCHANGED <<token, ended>>
    \/ TokenNext /\ UNCHANGED <<requests, failures, cooldown>>

Spec == Init /\ [][Next]_vars

TypeOK == OtpTypeOK /\ TokenTypeOK
=============================================================================
