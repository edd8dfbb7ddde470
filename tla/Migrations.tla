----------------------------- MODULE Migrations -----------------------------
(* backend/pkg/database/migration.go: migrations go up and come down, each *)
(* with its row of schema_migrations in one transaction.  What a migration *)
(* does to the schema is abstracted to whether its objects are there.      *)
EXTENDS Goroutines, FiniteSetsExt

CONSTANTS
    Versions,  \* migrations with an .up.sql
    NoDown     \* those without a .down.sql

VARIABLES
    applied,   \* rows of schema_migrations
    schema,    \* migrations whose objects are in the database
    mixed      \* history variable: whether an up and a down ran at once

vars == <<call, applied, schema, mixed>>

Init ==
    /\ call = [p \in Procs |-> Idle]
    /\ applied = {} /\ schema = {}
    /\ mixed = FALSE

Begin(p, direction, versions) ==
    /\ call[p] = Idle
    /\ Goto(p, [pc |-> direction, todo |-> versions])
    /\ mixed' = (mixed \/ \E q \in Busy : call[q].pc # direction)
    /\ UNCHANGED <<applied, schema>>

MigrateUp(p) == Begin(p, "up", Versions \ applied)

\* The last steps of what is applied.
MigrateDown(p, steps) ==
    /\ applied # {}
    /\ Begin(p, "down", {v \in applied : Cardinality({w \in applied : w > v}) < steps})

Continue(p, v) ==
    Goto(p, IF call[p].todo = {v} THEN Idle ELSE [call[p] EXCEPT !.todo = @ \ {v}])

\* Faulty: the objects are made, and their row is left for later.
ApplyUnrecorded(p) ==
    /\ At(p, "up") /\ call[p].todo # {}
    /\ LET v == Min(call[p].todo)
       IN  \/ /\ v \notin schema
              /\ schema' = schema \cup {v}
              /\ UNCHANGED <<call, applied>>
           \/ /\ v \in schema
              /\ applied' = applied \cup {v}
              /\ Continue(p, v)
              /\ UNCHANGED schema
    /\ UNCHANGED mixed

\* Faulty: the highest version is the first.
ApplyDescending(p) ==
    /\ At(p, "up") /\ call[p].todo # {}
    /\ LET v == Max(call[p].todo)
       IN  IF v \in schema \cup applied
             THEN Return(p) /\ UNCHANGED <<applied, schema>>
             ELSE /\ schema' = schema \cup {v}
                  /\ applied' = applied \cup {v}
                  /\ Continue(p, v)
    /\ UNCHANGED mixed

\* One transaction: the objects and their row.  It fails if the objects are
\* there already, or the row is, and ends the run.
Apply(p) ==
    /\ At(p, "up") /\ call[p].todo # {}
    /\ LET v == Min(call[p].todo)
       IN  IF v \in schema \cup applied
             THEN Return(p) /\ UNCHANGED <<applied, schema>>
             ELSE /\ schema' = schema \cup {v}
                  /\ applied' = applied \cup {v}
                  /\ Continue(p, v)
    /\ UNCHANGED mixed

\* One transaction too; the script may or may not mind that the objects are gone.
RollBack(p) ==
    /\ At(p, "down")
    /\ LET v == Max(call[p].todo)
       IN  \/ /\ v \notin NoDown
              /\ schema' = schema \ {v}
              /\ applied' = applied \ {v}
              /\ Continue(p, v)
           \/ /\ v \in NoDown \/ v \notin schema
              /\ Return(p)
              /\ UNCHANGED <<applied, schema>>
    /\ UNCHANGED mixed

\* Nothing is pending.
NothingToDo(p) ==
    /\ At(p, "up") /\ call[p].todo = {}
    /\ Return(p)
    /\ UNCHANGED <<applied, schema, mixed>>

Fail == \E p \in Procs : Stop(p) /\ UNCHANGED <<applied, schema, mixed>>

Work(p) ==
    \/ MigrateUp(p) \/ Apply(p) \/ NothingToDo(p)
    \/ (\E steps \in 1..Cardinality(Versions) : MigrateDown(p, steps))
    \/ RollBack(p)

Next == (\E p \in Procs : Work(p)) \/ Fail

Spec == Init /\ [][Next]_vars

-----------------------------------------------------------------------------
(* Properties.                                                             *)

TypeOK ==
    /\ applied \subseteq Versions
    /\ schema \subseteq Versions
    /\ mixed \in BOOLEAN

\* "Migration history tracking" (migration.go:18): however migrators overlap
\* and wherever they stop, the history says what the schema holds.
HistoryIsSchema == applied = schema

\* Unless an up runs into a down, no version is applied above one that is not.
NoneLeftOut ==
    ~mixed => \A v \in applied, w \in Versions : w < v => w \in applied
=============================================================================
