----------------------------- MODULE Goroutines -----------------------------
(* What the libraries of backend/pkg have in common: goroutines, each in   *)
(* the middle of at most one call.  A call is a record: pc, the step it    *)
(* takes next, and what it has read so far.                                *)
EXTENDS Integers, FiniteSets

CONSTANT Procs  \* goroutines

VARIABLE call   \* what each of them is doing

Idle == [pc |-> "idle"]

At(p, step) == call[p].pc = step

Goto(p, c) == call' = [call EXCEPT ![p] = c]

Return(p) == Goto(p, Idle)

Busy == {p \in Procs : call[p] # Idle}

\* The process stops, or a store answers with an error and the call returns it.
Stop(p) == call[p] # Idle /\ Return(p)
=============================================================================
