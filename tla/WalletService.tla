---------------------------- MODULE WalletService ----------------------------
(***************************************************************************)
(* Wallets of backend/cmd/payment-service.  A user's wallet is created on  *)
(* first use; funds are added and withdrawn by reading the balance,        *)
(* writing the new one, and logging a transaction, in three repository     *)
(* calls that nothing holds together.  The unique index on user_id lets a  *)
(* user stand for the wallet.                                              *)
(***************************************************************************)
EXTENDS Integers, Sequences

CONSTANTS
    Users,      \* users with a wallet, or about to have one
    NoWallet,   \* the balance of a wallet that was never created
    Amounts,    \* amounts requests add or withdraw (binding "gt=0")
    Procs       \* request goroutines

VARIABLES
    wallet,     \* table wallets: the balance of each user's
    ledger,     \* table wallet_transactions, each user's in order of insertion
    call        \* the handler each request goroutine is running

vars == <<wallet, ledger, call>>

ASSUME WalletAssumption ==
    /\ Amounts \subseteq Nat \ {0}
    /\ NoWallet \notin Int

Transaction == [type : {"credit", "debit"}, amount : Amounts, balance : Int]

\* What runs: GetWallet alone, AddFunds or WithdrawFunds.
Kinds == {"get", "add", "withdraw"}

Idle == [pc |-> "idle"]

\* balance is the new balance, once it is known.
Call == [pc : {"create", "update", "log"}, kind : Kinds, user : Users,
         amount : Amounts, balance : Int]

Init ==
    /\ wallet = [u \in Users |-> NoWallet]
    /\ ledger = [u \in Users |-> <<>>]
    /\ call = [p \in Procs |-> Idle]

Finish(p) == call' = [call EXCEPT ![p] = Idle]

\* Faulty: nobody asks whether the balance is enough.
NewBalanceUnchecked(p, kind, u, a, b) ==
    call' = [call EXCEPT ![p] =
              IF kind = "get" THEN Idle
              ELSE [pc |-> "update", kind |-> kind, user |-> u, amount |-> a,
                    balance |-> IF kind = "add" THEN b + a ELSE b - a]]

\* The handler has a wallet of balance b in hand: it computes the new balance,
\* or is done, because it only wanted to see it or because b is not enough.
NewBalance(p, kind, u, a, b) ==
    call' = [call EXCEPT ![p] =
              IF kind = "get" \/ (kind = "withdraw" /\ b < a) THEN Idle
              ELSE [pc |-> "update", kind |-> kind, user |-> u, amount |-> a,
                    balance |-> IF kind = "add" THEN b + a ELSE b - a]]

-----------------------------------------------------------------------------
(* One action per repository call.                                         *)

\* FindByUserID found nothing, or failed: either way a wallet is created.
MissWallet(p, kind, u, a) ==
    /\ call[p] = Idle
    /\ call' = [call EXCEPT ![p] = [pc |-> "create", kind |-> kind, user |-> u,
                                    amount |-> a, balance |-> 0]]
    /\ UNCHANGED <<wallet, ledger>>

GetWallet(p, kind, u, a) ==
    \/ /\ call[p] = Idle
       /\ wallet[u] # NoWallet
       /\ NewBalance(p, kind, u, a, wallet[u])
       /\ UNCHANGED <<wallet, ledger>>
    \/ wallet[u] = NoWallet /\ MissWallet(p, kind, u, a)

\* The unique index refuses a second wallet, and the request fails.
CreateWallet(p) ==
    /\ call[p].pc = "create"
    /\ LET c == call[p] IN
       IF wallet[c.user] = NoWallet
       THEN /\ wallet' = [wallet EXCEPT ![c.user] = 0]
            /\ NewBalance(p, c.kind, c.user, c.amount, 0)
       ELSE Finish(p) /\ UNCHANGED wallet
    /\ UNCHANGED ledger

UpdateBalance(p) ==
    /\ call[p].pc = "update"
    /\ wallet' = [wallet EXCEPT ![call[p].user] = call[p].balance]
    /\ call' = [call EXCEPT ![p].pc = "log"]
    /\ UNCHANGED ledger

LogAs(p, balance) ==
    /\ call[p].pc = "log"
    /\ ledger' = [ledger EXCEPT ![call[p].user] =
                    Append(@, [type |-> IF call[p].kind = "add" THEN "credit" ELSE "debit",
                               amount |-> call[p].amount, balance |-> balance])]
    /\ Finish(p)
    /\ UNCHANGED wallet

\* Faulty: the balance logged is the one before.
LogOpening(p) == LogAs(p, wallet[call[p].user] - call[p].amount)

CreateTransaction(p) == LogAs(p, call[p].balance)

-----------------------------------------------------------------------------
(* Failures.                                                               *)

\* GetWallet takes any error of the lookup for a missing wallet.
LookupError(p, kind, u, a) == wallet[u] # NoWallet /\ MissWallet(p, kind, u, a)

\* The repository call fails, and the handler returns its error.
WriteError(p) ==
    /\ call[p] # Idle
    /\ Finish(p)
    /\ UNCHANGED <<wallet, ledger>>

Crash ==
    /\ call' = [p \in Procs |-> Idle]
    /\ UNCHANGED <<wallet, ledger>>

-----------------------------------------------------------------------------

Request(p) == \E kind \in Kinds, u \in Users, a \in Amounts : GetWallet(p, kind, u, a)

Continue(p) == CreateWallet(p) \/ UpdateBalance(p) \/ CreateTransaction(p)

Fault ==
    \/ \E p \in Procs : \/ WriteError(p)
                        \/ \E kind \in Kinds, u \in Users, a \in Amounts :
                             LookupError(p, kind, u, a)
    \/ Crash

Next == (\E p \in Procs : Request(p) \/ Continue(p)) \/ Fault

Spec == Init /\ [][Next]_vars

-----------------------------------------------------------------------------
(* Properties.                                                             *)

TypeOK ==
    /\ wallet \in [Users -> Int \cup {NoWallet}]
    /\ ledger \in [Users -> Seq(Transaction)]
    /\ call \in [Procs -> {Idle} \cup Call]

\* WithdrawFunds never takes a balance below zero, although the balance it
\* checked may no longer be the wallet's when it writes.
NeverOverdrawn == \A u \in Users : wallet[u] = NoWallet \/ wallet[u] >= 0

\* The balance the first n lines of u's ledger leave.
BalanceAfter(u, n) == IF n = 0 THEN 0 ELSE ledger[u][n].balance

\* Each line shows the balance before it, and its amount more or less.
LedgerAddsUp(u) ==
    \A n \in 1 .. Len(ledger[u]) :
        LET t == ledger[u][n] IN
        t.balance = IF t.type = "credit" THEN BalanceAfter(u, n - 1) + t.amount
                                         ELSE BalanceAfter(u, n - 1) - t.amount

\* A user's ledger adds up line by line, from nothing; and when no request is
\* under way, to the balance.
StatementAgrees ==
    \A u \in Users :
        /\ LedgerAddsUp(u)
        /\ (wallet[u] # NoWallet /\ \A p \in Procs : call[p] = Idle) =>
               wallet[u] = BalanceAfter(u, Len(ledger[u]))
=============================================================================
