----------------------------- MODULE AuthService -----------------------------
(***************************************************************************)
(* backend/cmd/auth-service: accounts and refresh tokens in a database.    *)
(* Each database call is an action.  The tables have a unique index on the *)
(* phone number and a foreign key from a refresh token to its user.        *)
(*                                                                         *)
(* Passwords are numbered.  Left out: the profile's other fields, e-mail,  *)
(* which is checked like the phone number, access tokens, which nothing    *)
(* stores, and OTP handlers, which neither store nor check anything.       *)
(***************************************************************************)
EXTENDS Integers

CONSTANTS
    Ids, Phones, Passwords, Tokens,
    Procs,    \* handler goroutines
    NoToken

VARIABLES
    user,     \* table of users
    token,    \* table of refresh tokens, with those deleted
    call,     \* what each handler is doing
    secret,   \* history variable: the password each user chose last
    spent     \* history variable: how many tokens were had for each token

vars == <<user, token, call, secret, spent>>

Absent == [phone |-> "none"]

User == [phone : Phones, password : Passwords]

Unissued == [status |-> "unissued"]

Token == [status : {"stored", "expired", "deleted"}, of : Ids]

Idle == [pc |-> "idle"]

Call == [pc : {"create"}, row : User]
          \cup [pc : {"issue"}, id : Ids, old : Tokens \cup {NoToken}]
          \cup [pc : {"revoke"}, old : Tokens]
          \cup [pc : {"save"}, id : Ids, row : User]
          \cup [pc : {"change"}, id : Ids, row : User, secret : Passwords]

Accounts == {i \in Ids : user[i] # Absent}

Init ==
    /\ user = [i \in Ids |-> Absent]
    /\ token = [t \in Tokens |-> Unissued]
    /\ call = [p \in Procs |-> Idle]
    /\ secret = [i \in Ids |-> CHOOSE w \in Passwords : TRUE]
    /\ spent = [t \in Tokens |-> 0]

Goto(p, c) == call' = [call EXCEPT ![p] = c]

Return(p) == Goto(p, Idle)

Unique(i, phone) == \A j \in Accounts \ {i} : user[j].phone # phone

-----------------------------------------------------------------------------
(* Register and Login.                                                     *)

Register(p, row) ==
    /\ call[p] = Idle
    /\ \A i \in Accounts : user[i].phone # row.phone
    /\ Goto(p, [pc |-> "create", row |-> row])
    /\ UNCHANGED <<user, token, secret, spent>>

\* Faulty: no unique index.
CreateAnyway(p) ==
    /\ call[p].pc = "create"
    /\ \E i \in Ids \ Accounts :
         /\ user' = [user EXCEPT ![i] = call[p].row]
         /\ secret' = [secret EXCEPT ![i] = call[p].row.password]
         /\ Goto(p, [pc |-> "issue", id |-> i, old |-> NoToken])
    /\ UNCHANGED <<token, spent>>

Create(p) ==
    /\ call[p].pc = "create"
    /\ \E i \in Ids \ Accounts :
         /\ Unique(i, call[p].row.phone)
         /\ user' = [user EXCEPT ![i] = call[p].row]
         /\ secret' = [secret EXCEPT ![i] = call[p].row.password]
         /\ Goto(p, [pc |-> "issue", id |-> i, old |-> NoToken])
    /\ UNCHANGED <<token, spent>>

\* Whoever knows the password.
Login(p, i) ==
    /\ call[p] = Idle
    /\ i \in Accounts
    /\ Goto(p, [pc |-> "issue", id |-> i, old |-> NoToken])
    /\ UNCHANGED <<user, token, secret, spent>>

-----------------------------------------------------------------------------
(* RefreshToken.                                                           *)

FindByToken(p, t) ==
    /\ call[p] = Idle
    /\ token[t].status = "stored"
    /\ Goto(p, [pc |-> "issue", id |-> token[t].of, old |-> t])
    /\ UNCHANGED <<user, token, secret, spent>>

\* Faulty: the old token is not deleted.
NextKeepsOld(p, old) == Return(p)

AfterIssue(p, old) ==
    IF old = NoToken THEN Return(p) ELSE Goto(p, [pc |-> "revoke", old |-> old])

GenerateRefreshToken(p) ==
    /\ call[p].pc = "issue"
    /\ call[p].id \in Accounts
    /\ \E t \in Tokens :
         /\ token[t] = Unissued
         /\ token' = [token EXCEPT ![t] = [status |-> "stored", of |-> call[p].id]]
    /\ spent' = [t \in Tokens |-> spent[t] + (IF t = call[p].old THEN 1 ELSE 0)]
    /\ AfterIssue(p, call[p].old)
    /\ UNCHANGED <<user, secret>>

Revoke(p) ==
    /\ call[p].pc = "revoke"
    /\ token' = [token EXCEPT ![call[p].old].status = "deleted"]
    /\ Return(p)
    /\ UNCHANGED <<user, secret, spent>>

Expire(t) ==
    /\ token[t].status = "stored"
    /\ token' = [token EXCEPT ![t].status = "expired"]
    /\ UNCHANGED <<user, call, secret, spent>>

-----------------------------------------------------------------------------
(* Profile and password.                                                   *)

UpdateProfile(p, i) ==
    /\ call[p] = Idle
    /\ i \in Accounts
    /\ Goto(p, [pc |-> "save", id |-> i, row |-> user[i]])
    /\ UNCHANGED <<user, token, secret, spent>>

\* Faulty: what is saved is still the old one.
ChangePasswordForgets(p, i, new) ==
    /\ call[p] = Idle
    /\ i \in Accounts
    /\ Goto(p, [pc |-> "change", id |-> i, row |-> user[i], secret |-> new])
    /\ UNCHANGED <<user, token, secret, spent>>

ChangePassword(p, i, new) ==
    /\ call[p] = Idle
    /\ i \in Accounts
    /\ Goto(p, [pc |-> "change", id |-> i, row |-> [user[i] EXCEPT !.password = new],
                secret |-> new])
    /\ UNCHANGED <<user, token, secret, spent>>

\* All fields of the copy; a row that is gone is inserted again.
Save(p) ==
    /\ call[p].pc \in {"save", "change"}
    /\ Unique(call[p].id, call[p].row.phone)
    /\ user' = [user EXCEPT ![call[p].id] = call[p].row]
    /\ secret' = IF call[p].pc = "save" THEN secret
                 ELSE [secret EXCEPT ![call[p].id] = call[p].secret]
    /\ Return(p)
    /\ UNCHANGED <<token, spent>>

DeleteAccount(i) ==
    /\ i \in Accounts
    /\ \A t \in Tokens : token[t].status \in {"stored", "expired"} => token[t].of # i
    /\ user' = [user EXCEPT ![i] = Absent]
    /\ UNCHANGED <<token, call, secret, spent>>

-----------------------------------------------------------------------------
(* Failures.                                                               *)

\* A statement fails, that of Revoke unnoticed, or the process stops.
Stop(p) ==
    /\ call[p] # Idle
    /\ Return(p)
    /\ UNCHANGED <<user, token, secret, spent>>

\* Any error of the lookup counts as "no such user".
LookupError(p, row) ==
    /\ call[p] = Idle
    /\ Goto(p, [pc |-> "create", row |-> row])
    /\ UNCHANGED <<user, token, secret, spent>>

-----------------------------------------------------------------------------

Request(p) ==
    \/ \E row \in User : Register(p, row)
    \/ \E i \in Ids : \/ Login(p, i)
                      \/ UpdateProfile(p, i)
                      \/ \E new \in Passwords : ChangePassword(p, i, new)
    \/ \E t \in Tokens : FindByToken(p, t)

Continue(p) == Create(p) \/ GenerateRefreshToken(p) \/ Revoke(p) \/ Save(p)

Fault == \E p \in Procs : Stop(p) \/ \E row \in User : LookupError(p, row)

Others == (\E i \in Ids : DeleteAccount(i)) \/ \E t \in Tokens : Expire(t)

Next == Others \/ Fault \/ \E p \in Procs : Request(p) \/ Continue(p)

Spec == Init /\ [][Next]_vars

-----------------------------------------------------------------------------
(* Properties.                                                             *)

TypeOK ==
    /\ user \in [Ids -> {Absent} \cup User]
    /\ token \in [Tokens -> {Unissued} \cup Token]
    /\ call \in [Procs -> {Idle} \cup Call]
    /\ secret \in [Ids -> Passwords]
    /\ spent \in [Tokens -> Nat]

\* "user already exists with this phone number" (auth_service.go:46): though
\* looking and creating are two calls, and the save of an old copy can bring a
\* deleted account back, a phone number has one account.
OneAccountPerPhone == \A i, j \in Accounts : user[i].phone = user[j].phone => i = j

\* Refresh tokens are "stored securely in the database for rotation"
\* (docs/security.md:11): one token is good for one other.
TokenUsedOnce == \A t \in Tokens : spent[t] <= 1

\* An account opens with the password its owner chose last.
PasswordKept == \A i \in Accounts : user[i].password = secret[i]
=============================================================================
