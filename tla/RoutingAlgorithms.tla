------------------------- MODULE RoutingAlgorithms --------------------------
(* The two algorithms of backend/cmd/routing-service, one after the        *)
(* other.                                                                  *)
EXTENDS FiniteSetsExt, Integers, Sequences, SequencesExt

-----------------------------------------------------------------------------
(* backend/cmd/routing-service/internal/algorithms/routing_algorithm.go:   *)
(* NearestNeighborAlgorithm.OptimizeRoute, while the clock goes on.        *)

CONSTANTS
    Stops,        \* the orders to deliver, numbered
    Detour(_, _)  \* from the last order (0: the start) to the next, less its priority bonus

VARIABLES
    waiting,  \* unvisited orders, in the order they were given
    route,    \* order ids of the route
    ready,    \* of each order: ready now, within 24 hours, or later still
    done

neighborVars == <<waiting, route, ready, done>>

NeighborInit ==
    /\ waiting = SetToSeq(Stops)
    /\ route = <<>>
    /\ ready = [s \in Stops |-> "later"]
    /\ done = FALSE

Here == IF route = <<>> THEN 0 ELSE route[Len(route)]

Indices(when) == {i \in DOMAIN waiting : ready[waiting[i]] = when}

\* The first of the nearest among those that are ready.
Nearest ==
    {i \in Indices("now") :
        \A j \in Indices("now") :
            LET di == Detour(Here, waiting[i])  dj == Detour(Here, waiting[j])
            IN  di < dj \/ (di = dj /\ i <= j)}

\* If none is ready, the one that will be first: it is not waited for.
Candidates == IF Indices("now") # {} THEN Nearest ELSE Indices("today")

\* Faulty: the order leaves the list with the one after it.
VisitTwo ==
    /\ ~done
    /\ \E i \in Candidates :
         /\ route' = Append(route, waiting[i])
         /\ waiting' = SubSeq(waiting, 1, i - 1) \o SubSeq(waiting, i + 2, Len(waiting))
    /\ UNCHANGED <<ready, done>>

Visit ==
    /\ ~done
    /\ \E i \in Candidates :
         /\ route' = Append(route, waiting[i])
         /\ waiting' = RemoveAt(waiting, i)
    /\ UNCHANGED <<ready, done>>

\* All are visited, or none is ready within 24 hours.
Finish ==
    /\ ~done
    /\ Candidates = {}
    /\ done' = TRUE
    /\ UNCHANGED <<waiting, route, ready>>

Tick ==
    /\ ~done
    /\ \E s \in Stops :
         \/ ready[s] = "later" /\ ready' = [ready EXCEPT ![s] = "today"]
         \/ ready[s] = "today" /\ ready' = [ready EXCEPT ![s] = "now"]
    /\ UNCHANGED <<waiting, route, done>>

NeighborNext == Visit \/ Finish \/ Tick

-----------------------------------------------------------------------------
(* Properties.                                                             *)

NeighborTypeOK ==
    /\ waiting \in Seq(Stops) /\ route \in Seq(Stops)
    /\ done \in BOOLEAN

\* An order is visited once; one is left out only if it is a day away.
OnlyLateLeftOut ==
    /\ IsInjective(route)
    /\ done => \A s \in Stops \ ToSet(route) : ready[s] = "later"

-----------------------------------------------------------------------------
(* backend/cmd/routing-service/internal/algorithms/routing_algorithm.go:   *)
(* GeneticAlgorithm.OptimizeRoute, for more than two orders.  Routes are   *)
(* pointers, and one route may stand in several places, so they are kept   *)
(* in a heap.  The random numbers come from the clock, and may be any.     *)
(* Left out: coordinates; the length of a built route is a parameter.      *)

CONSTANTS
    Population, Generations, Elitism,
    BuiltLength(_)  \* TotalDistance of the route built for an order of stops

VARIABLES
    heap,        \* route behind each pointer
    population,  \* pointers
    offspring,   \* pointers
    phase, generation

geneticVars == <<heap, population, offspring, phase, generation>>

N == Cardinality(Stops)

Free == [stops |-> <<>>, length |-> 0]

Tours == SetToSeqs(Stops)

Pointers == 1..(2 * Population)

Used == ToSet(population) \cup ToSet(offspring)

GeneticInit ==
    /\ heap = [r \in Pointers |-> Free]
    /\ population = <<>> /\ offspring = <<>>
    /\ phase = "initialize"
    /\ generation = 0

\* Shuffled orders, each built into a route of its own.
InitializePopulation ==
    /\ phase = "initialize"
    /\ \E tours \in [1..Population -> Tours] :
         heap' = [r \in Pointers |->
                    IF r <= Population
                      THEN [stops |-> tours[r], length |-> BuiltLength(tours[r])]
                      ELSE Free]
    /\ population' = [i \in 1..Population |-> i]
    /\ phase' = "select"
    /\ UNCHANGED <<offspring, generation>>

-----------------------------------------------------------------------------
(* One generation: selection, crossover, mutation, elitism.                *)

\* The fittest of three picked at random; the three may be one and the same.
Select ==
    /\ phase = "select" /\ generation < Generations
    /\ offspring' \in [1..Population -> ToSet(population)]
    /\ phase' = "cross"
    /\ UNCHANGED <<heap, population, generation>>

\* Faulty: what one parent brings is not looked for in the other.
FillRemainingBlindly(p1, p2, start, end) ==
    [i \in 1..N |-> IF i \in start..end THEN p1[i] ELSE p2[i]]

\* The stops of a parent that are not in a slice of the other, in their order.
Rest(p2, slice) == FoldLeft(LAMBDA r, s : IF s \in slice THEN r ELSE Append(r, s), <<>>, p2)

\* fillRemaining: a slice of one parent, the rest in the order of the other.
FillRemaining(p1, p2, start, end) ==
    LET rest == Rest(p2, {p1[i] : i \in start..end})
    IN  [i \in 1..N |-> IF i \in start..end THEN p1[i]
                        ELSE IF i < start THEN rest[i]
                        ELSE rest[i - (end - start + 1)]]

Child(p1, p2, start, end) == [stops  |-> FillRemaining(p1, p2, start, end),
                              length |-> 0]

Cuts == {cut \in (1..N) \X (1..N) : cut[1] <= cut[2]}

\* Pairs of parents give way to two children, or stay.  The children have no
\* length, and no coordinates.  A last parent without a partner stays.
Cross ==
    /\ phase = "cross"
    /\ \E pairs \in SUBSET {i \in 1..(Population - 1) : i % 2 = 1} : \E cut \in [pairs -> Cuts] :
         LET parent(i) == heap[offspring[i]].stops
             child(i) == IF i \in pairs
                           THEN Child(parent(i), parent(i + 1), cut[i][1], cut[i][2])
                           ELSE Child(parent(i), parent(i - 1), cut[i - 1][1], cut[i - 1][2])
             born == pairs \cup {i + 1 : i \in pairs}
         IN  /\ heap' = [r \in Pointers |->
                           IF r - Population \in born THEN child(r - Population) ELSE heap[r]]
             /\ offspring' = [i \in 1..Population |->
                                IF i \in born THEN Population + i ELSE offspring[i]]
    /\ phase' = "mutate"
    /\ UNCHANGED <<population, generation>>

\* Faulty: one of the two stops is written over the other.
SwapHalf(tour, i, j) == [tour EXCEPT ![i] = tour[j]]

Swap(tour, i, j) == [tour EXCEPT ![i] = tour[j], ![j] = tour[i]]

\* In each of the offspring two stops change places, which may be the same one:
\* also where the route stands as a parent, and twice if it was picked twice.
Mutated(cut) ==
    FoldLeftDomain(LAMBDA h, k : [h EXCEPT ![offspring[k]].stops = Swap(@, cut[k][1], cut[k][2])],
                   heap, cut)

Mutate ==
    /\ phase = "mutate"
    /\ \E cut \in [1..Population -> Cuts] : heap' = Mutated(cut)
    /\ phase' = "replace"
    /\ UNCHANGED <<population, offspring, generation>>

\* By fitness, the inverse of the stored length: that of a child is 0, and that of
\* a mutated route is the one it was built with.  So the shortest route may be lost,
\* though the best are to be kept (routing_algorithm.go:377).
Ranked(order) ==
    \A i, j \in 1..Population :
        i < j => heap[population[order[i]]].length <= heap[population[order[j]]].length

\* elitism: the fittest stay, offspring takes the other places.  What nothing
\* points to is collected, and the rest moved to the front of the heap.
Replace ==
    /\ phase = "replace"
    /\ \E order \in SetToSeqs(1..Population) :
         /\ Ranked(order)
         /\ LET next == [i \in 1..Population |->
                           IF i <= Elitism THEN population[order[i]] ELSE offspring[i - Elitism]]
                kept == SetToSeq(ToSet(next))
                at(r) == CHOOSE k \in DOMAIN kept : kept[k] = r
            IN  /\ heap' = [k \in Pointers |-> IF k \in DOMAIN kept THEN heap[kept[k]] ELSE Free]
                /\ population' = [i \in 1..Population |-> at(next[i])]
    /\ offspring' = <<>>
    /\ phase' = "select"
    /\ generation' = generation + 1

GeneticNext == InitializePopulation \/ Select \/ Cross \/ Mutate \/ Replace

-----------------------------------------------------------------------------
(* Properties.                                                             *)

GeneticTypeOK ==
    /\ \A r \in Pointers : heap[r].stops \in Tours \cup {<<>>}
    /\ population \in Seq(Pointers)
    /\ generation \in 0..Generations

\* Whatever is crossed and mutated, each route delivers each order once.
EachStopOnce == \A r \in Used : ToSet(heap[r].stops) = Stops /\ Len(heap[r].stops) = N

-----------------------------------------------------------------------------
(* All of it, each part taking its steps while the others stand still.     *)

vars == <<waiting, route, ready, done, heap, population, offspring, phase, generation>>

Init == NeighborInit /\ GeneticInit

Next ==
    \/ NeighborNext /\ UNCHANGED <<heap, population, offspring, phase, generation>>
    \/ GeneticNext /\ UNCHANGED <<waiting, route, ready, done>>

Spec == Init /\ [][Next]_vars

TypeOK == NeighborTypeOK /\ GeneticTypeOK
=============================================================================
