--------------------------- MODULE SecretsManager ---------------------------
(* backend/pkg/config/secrets_manager.go: one secret that is not in the    *)
(* environment: AWS, and the caches of the processes that use it.  The map *)
(* of a cache has no lock; each use of it, and each call to AWS, is an     *)
(* action of a goroutine of one of the processes.                          *)
EXTENDS Goroutines

CONSTANTS
    Managers,        \* processes, each with its SecretsManager
    Values, NoValue  \* values in the order they are rotated in

VARIABLES
    stored,  \* value in AWS
    cached,  \* value in each cache, NoValue if there is none
    rotated, \* history variable: value each process has rotated to last
    told     \* history variable: value the last GetSecret answered, and the one
             \* its process had rotated to

vars == <<call, stored, cached, rotated, told>>

Init ==
    /\ call = [p \in Procs |-> Idle]
    /\ stored = 1
    /\ cached = [m \in Managers |-> NoValue]
    /\ rotated = [m \in Managers |-> 1]
    /\ told = <<1, 1>>

\* What the cache holds, and has not expired, is the answer.
GetSecret(p, m) ==
    /\ call[p] = Idle
    /\ IF cached[m] # NoValue
         THEN told' = <<cached[m], rotated[m]>> /\ UNCHANGED call
         ELSE Goto(p, [pc |-> "get", of |-> m]) /\ UNCHANGED told
    /\ UNCHANGED <<stored, cached, rotated>>

GetSecretValue(p) ==
    /\ At(p, "get")
    /\ Goto(p, [pc |-> "cache", of |-> call[p].of, value |-> stored])
    /\ UNCHANGED <<stored, cached, rotated, told>>

Cache(p) ==
    /\ At(p, "cache")
    /\ cached' = [cached EXCEPT ![call[p].of] = call[p].value]
    /\ told' = <<call[p].value, rotated[call[p].of]>>
    /\ Return(p)
    /\ UNCHANGED <<stored, rotated>>

RotateSecret(p, m) ==
    /\ call[p] = Idle
    /\ stored + 1 \in Values
    /\ stored' = stored + 1
    /\ Goto(p, [pc |-> "clear", of |-> m, value |-> stored'])
    /\ UNCHANGED <<cached, rotated, told>>

\* Faulty: the old value is left in the cache.
ClearNothing(p) ==
    /\ At(p, "clear")
    /\ rotated' = [rotated EXCEPT ![call[p].of] = call[p].value]
    /\ Return(p)
    /\ UNCHANGED <<stored, cached, told>>

\* The process deletes its own copy; the others keep theirs until it expires.
Clear(p) ==
    /\ At(p, "clear")
    /\ cached' = [cached EXCEPT ![call[p].of] = NoValue]
    /\ rotated' = [rotated EXCEPT ![call[p].of] = call[p].value]
    /\ Return(p)
    /\ UNCHANGED <<stored, told>>

\* Its time to live ends, or InvalidateCache is called.
Expire(m) ==
    /\ cached[m] # NoValue
    /\ cached' = [cached EXCEPT ![m] = NoValue]
    /\ UNCHANGED <<call, stored, rotated, told>>

\* AWS answers with an error, which is passed on; of a rotation perhaps after it.
Fail ==
    \E p \in Procs :
        /\ At(p, "get") \/ At(p, "clear")
        /\ Return(p)
        /\ UNCHANGED <<stored, cached, rotated, told>>

Work(p) ==
    \/ \E m \in Managers : GetSecret(p, m) \/ RotateSecret(p, m)
    \/ GetSecretValue(p) \/ Cache(p) \/ Clear(p)

Next == (\E p \in Procs : Work(p)) \/ (\E m \in Managers : Expire(m)) \/ Fail

Spec == Init /\ [][Next]_vars

-----------------------------------------------------------------------------
(* Properties.                                                             *)

TypeOK ==
    /\ stored \in Values
    /\ cached \in [Managers -> Values \cup {NoValue}]
    /\ rotated \in [Managers -> Values]
    /\ told \in Values \X Values

\* "Secure storage and rotation" (secrets_manager.go:16), as far as it goes: a
\* process that has rotated a secret is not given one that is older.  Another
\* process may be, for ten minutes (:100).
OwnRotationIsSeen == told[1] >= told[2]
=============================================================================
