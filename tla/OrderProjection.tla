--------------------------- MODULE OrderProjection ---------------------------
(***************************************************************************)
(* backend/pkg/cqrs: commands write the write model and leave a goroutine  *)
(* behind that copies the order to the read model and to the cache;        *)
(* queries read the cache, then the read model, and fill the cache.        *)
(*                                                                         *)
(* The repositories and the cache are interfaces.  An order is the number  *)
(* of its version, 0 when there is none.                                   *)
(***************************************************************************)
EXTENDS Integers

CONSTANTS
    Orders,      \* order ids
    Goroutines   \* projectors, queries and deletions that can be under way

VARIABLES
    write,   \* write model
    made,    \* versions written so far
    read,    \* read model
    cache,   \* "order:<id>"
    run,     \* what each goroutine is doing
    answer   \* history variable: the last answer to a query, -1 for an empty order

vars == <<write, made, read, cache, run, answer>>

None == 0

Empty == -1

Idle == [pc |-> "idle"]

Run == [pc : {"load", "save", "cache", "fill", "invalidate"}, order : Orders, version : Nat]

Init ==
    /\ write = [o \in Orders |-> None]
    /\ made = [o \in Orders |-> 0]
    /\ read = [o \in Orders |-> None]
    /\ cache = [o \in Orders |-> None]
    /\ run = [g \in Goroutines |-> Idle]
    /\ answer = [o \in Orders |-> None]

Hold(g, pc, o, v) == run' = [run EXCEPT ![g] = [pc |-> pc, order |-> o, version |-> v]]

Return(g) == run' = [run EXCEPT ![g] = Idle]

-----------------------------------------------------------------------------
(* Commands.  g is the goroutine they start, or run in.                    *)

\* CreateOrder and UpdateOrder.
SaveOrder(g, o) ==
    /\ run[g] = Idle
    /\ write[o] = None => made[o] = 0
    /\ made' = [made EXCEPT ![o] = @ + 1]
    /\ write' = [write EXCEPT ![o] = made[o] + 1]
    /\ Hold(g, "load", o, None)
    /\ UNCHANGED <<read, cache, answer>>

DeleteOrder(g, o) ==
    /\ run[g] = Idle
    /\ write' = [write EXCEPT ![o] = None]
    /\ Hold(g, "invalidate", o, None)
    /\ UNCHANGED <<made, read, cache, answer>>

Invalidate(g) ==
    /\ run[g].pc = "invalidate"
    /\ cache' = [cache EXCEPT ![run[g].order] = None]
    /\ Return(g)
    /\ UNCHANGED <<write, made, read, answer>>

-----------------------------------------------------------------------------
(* ProjectOrder.                                                           *)

Load(g) ==
    /\ run[g].pc = "load"
    /\ LET o == run[g].order
       IN  IF write[o] = None THEN Return(g) ELSE Hold(g, "save", o, write[o])
    /\ UNCHANGED <<write, made, read, cache, answer>>

\* Faulty: what was read is not brought up to date.
SaveProjectionOnce(g) ==
    /\ run[g].pc = "save"
    /\ read' = [read EXCEPT ![run[g].order] = IF @ = None THEN run[g].version ELSE @]
    /\ Hold(g, "cache", run[g].order, run[g].version)
    /\ UNCHANGED <<write, made, cache, answer>>

SaveProjection(g) ==
    /\ run[g].pc = "save"
    /\ read' = [read EXCEPT ![run[g].order] = run[g].version]
    /\ Hold(g, "cache", run[g].order, run[g].version)
    /\ UNCHANGED <<write, made, cache, answer>>

\* Faulty: the cache is left as it was.
CacheSetIfAbsent(g) ==
    /\ run[g].pc \in {"cache", "fill"}
    /\ cache' = [cache EXCEPT ![run[g].order] = IF @ = None THEN run[g].version ELSE @]
    /\ Return(g)
    /\ UNCHANGED <<write, made, read, answer>>

\* The end of a projection and of a query.
CacheSet(g) ==
    /\ run[g].pc \in {"cache", "fill"}
    /\ cache' = [cache EXCEPT ![run[g].order] = run[g].version]
    /\ Return(g)
    /\ UNCHANGED <<write, made, read, answer>>

-----------------------------------------------------------------------------
(* Queries.                                                                *)

\* The cached text is thrown away and an empty order returned.
QueryHit(o) ==
    /\ cache[o] # None
    /\ answer' = [answer EXCEPT ![o] = Empty]
    /\ UNCHANGED <<write, made, read, cache, run>>

QueryMiss(g, o) ==
    /\ run[g] = Idle
    /\ cache[o] = None
    /\ read[o] # None
    /\ answer' = [answer EXCEPT ![o] = read[o]]
    /\ Hold(g, "fill", o, read[o])
    /\ UNCHANGED <<write, made, read, cache>>

Expire(o) ==
    /\ cache[o] # None
    /\ cache' = [cache EXCEPT ![o] = None]
    /\ UNCHANGED <<write, made, read, run, answer>>

-----------------------------------------------------------------------------

\* A call fails or the process stops: the goroutine ends, and no one notices.
Stop(g) ==
    /\ run[g] # Idle
    /\ Return(g)
    /\ UNCHANGED <<write, made, read, cache, answer>>

Command(g) == \E o \in Orders : SaveOrder(g, o) \/ DeleteOrder(g, o)

Query(g) == \E o \in Orders : QueryMiss(g, o) \/ QueryHit(o) \/ Expire(o)

Continue(g) == Load(g) \/ SaveProjection(g) \/ CacheSet(g) \/ Invalidate(g)

Next == \E g \in Goroutines : Command(g) \/ Query(g) \/ Continue(g) \/ Stop(g)

Spec == Init /\ [][Next]_vars

Fairness == \A g \in Goroutines : WF_vars(Continue(g))

-----------------------------------------------------------------------------
(* Properties.                                                             *)

TypeOK ==
    /\ write \in [Orders -> Nat]
    /\ made \in [Orders -> Nat]
    /\ read \in [Orders -> Nat]
    /\ cache \in [Orders -> Nat]
    /\ run \in [Goroutines -> {Idle} \cup Run]
    /\ answer \in [Orders -> Nat \cup {Empty}]

\* "projects a write model change to the read model" (order_cqrs.go:122):
\* once the goroutine is through, the read model has the order, and the cache
\* nothing else.
ReadModelAgrees ==
    \A o \in Orders : write[o] # None => read[o] = write[o] /\ cache[o] \in {None, write[o]}

\* "retrieves an order using the read model" (order_cqrs.go:199): a query is
\* answered with an order, not an empty one.
AnswerIsAnOrder == \A o \in Orders : answer[o] # Empty
=============================================================================
