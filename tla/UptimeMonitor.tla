--------------------------- MODULE UptimeMonitor ----------------------------
(* backend/pkg/monitoring/uptime_monitor.go: health checks in rounds, with *)
(* their alerts.  The checks of a round run at once; their results are     *)
(* handled one by one.  Left out: alerts of a high latency.                *)
EXTENDS Integers, Sequences

CONSTANT Checks  \* health checks

VARIABLES
    checks,   \* those that were added
    pending,  \* those of the round under way that have not answered
    running,  \* whether Start has not been told to stop
    fails,    \* FailCount of each
    alerted,  \* whether its last result raised an alert
    recent    \* history variable: the last three results of each

vars == <<checks, pending, running, fails, alerted, recent>>

Init ==
    /\ checks = {} /\ pending = {}
    /\ running = TRUE
    /\ fails = [c \in Checks |-> 0]
    /\ alerted = [c \in Checks |-> FALSE]
    /\ recent = [c \in Checks |-> <<>>]

AddCheck(c) ==
    /\ checks' = checks \cup {c}
    /\ UNCHANGED <<pending, running, fails, alerted, recent>>

\* runChecks takes a copy of the list; ticks during a round are dropped.
RunChecks ==
    /\ running /\ pending = {} /\ checks # {}
    /\ pending' = checks
    /\ UNCHANGED <<checks, running, fails, alerted, recent>>

\* The wrong status code is "degraded", and no answer "down".  If the context
\* has ended there is no answer.
PerformCheck == IF running THEN {"up", "degraded", "down", "error"} ELSE {"down", "error"}

Failed(result) == result \in {"down", "error"}

\* Faulty: a degraded service goes on failing.
TrackDegraded(count, result) == IF result = "up" THEN 0 ELSE IF Failed(result) THEN count + 1 ELSE count

Track(count, result) == IF Failed(result) THEN count + 1 ELSE 0

\* The count is not capped in the code; beyond 3 it makes no difference.
HandleResult(c) ==
    /\ c \in pending
    /\ \E result \in PerformCheck :
         /\ fails' = [fails EXCEPT ![c] = IF @ = 3 /\ Failed(result) THEN 3 ELSE Track(@, result)]
         /\ alerted' = [alerted EXCEPT ![c] = fails'[c] >= 3]
         /\ recent' = [recent EXCEPT ![c] =
                         Append(IF Len(@) = 3 THEN Tail(@) ELSE @, result)]
    /\ pending' = pending \ {c}
    /\ UNCHANGED <<checks, running>>

Cancel ==
    /\ running
    /\ running' = FALSE
    /\ UNCHANGED <<checks, pending, fails, alerted, recent>>

Next ==
    \/ \E c \in Checks \ checks : AddCheck(c)
    \/ RunChecks
    \/ \E c \in Checks : HandleResult(c)
    \/ Cancel

Spec == Init /\ [][Next]_vars

-----------------------------------------------------------------------------
(* Properties.                                                             *)

TypeOK ==
    /\ pending \subseteq checks /\ checks \subseteq Checks
    /\ fails \in [Checks -> 0..3]

\* "Alert on failures" (uptime_monitor.go:183): an alert is raised by the third
\* failure in a row and each one after it, and by nothing else.
AlertedIfDown ==
    \A c \in Checks :
        alerted[c] <=> Len(recent[c]) = 3 /\ \A i \in 1..3 : Failed(recent[c][i])
=============================================================================
