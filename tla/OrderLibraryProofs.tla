------------------------- MODULE OrderLibraryProofs -------------------------
(***************************************************************************)
(* What MCOrderLibraries checks of the order libraries holds for any       *)
(* number of orders, goroutines, statuses, keys and attempts.  There are   *)
(* two invariants: LibraryIInv, however callers race and whatever fails,   *)
(* and LibraryCalm, for callers that come one at a time.  Each is made of  *)
(* one part per library; a step is one library's, and the others rest.     *)
(***************************************************************************)
EXTENDS MCOrderLibraries, FiniteSetTheorems, WellFoundedInduction, SequencesExt, TLAPS

\* What the constants are, of all that is assumed.
LEMMA TriesAre == MaxRetries \in Nat \ {0} /\ MaxAttempts \in Nat
BY OrderLibrariesAssumption

LEMMA StatusesAre == IsFiniteSet(Statuses) /\ "placed" \in Statuses /\ "" \notin Statuses
BY OrderLibrariesAssumption

-----------------------------------------------------------------------------
(* Induction over finite sets and numbers.  The set of what the claim holds *)
(* of takes the place of a predicate.                                       *)

\* What holds of a finite set if it does without any one element holds of all.
LEMMA SetInduction ==
    ASSUME NEW S, IsFiniteSet(S), NEW G, {} \in G,
           \A T \in SUBSET S : T # {} /\ (\A x \in T : T \ {x} \in G) => T \in G
    PROVE  SUBSET S \subseteq G
<1>1. SUFFICES ASSUME (SUBSET S) \ G # {} PROVE FALSE OBVIOUS
<1>2. IsWellFoundedOn(StrictSubsetOrdering(S), FiniteSubsetsOf(S))
    BY FS_StrictSubsetOrderingWellFounded
<1>3. (SUBSET S) \ G \subseteq FiniteSubsetsOf(S) BY FS_Subset DEF FiniteSubsetsOf
<1>4. PICK T \in (SUBSET S) \ G : \A U \in (SUBSET S) \ G : ~(<<U, T>> \in StrictSubsetOrdering(S))
    BY <1>1, <1>2, <1>3, WFMin
<1>5. PICK x \in T : T \ {x} \notin G BY <1>4
<1>6. T \ {x} \in (SUBSET S) \ G BY <1>5
<1>7. <<T \ {x}, T>> \in StrictSubsetOrdering(S) BY <1>5, <1>6 DEF StrictSubsetOrdering
<1> QED BY <1>4, <1>6, <1>7

LEMMA NumberInduction ==
    ASSUME NEW G, 0 \in G, \A n \in Nat : n \in G => n + 1 \in G
    PROVE  Nat \subseteq G
<1>1. SUFFICES ASSUME NEW n \in Nat PROVE n \in G OBVIOUS
<1> DEFINE I == 1..n
           H == {T \in SUBSET I : Cardinality(T) \in G}
<1>2. IsFiniteSet(I) /\ Cardinality(I) = n BY FS_Interval
<1>3. {} \in H BY FS_EmptySet
<1>4. ASSUME NEW T \in SUBSET I, T # {}, \A x \in T : T \ {x} \in H
      PROVE  T \in H
  <2>1. PICK x \in T : T \ {x} \in H BY <1>4
  <2>2. IsFiniteSet(T) BY <1>2, FS_Subset
  <2>3. Cardinality(T \ {x}) = Cardinality(T) - 1 /\ Cardinality(T) \in Nat
      BY <2>2, FS_RemoveElement, FS_CardinalityType
  <2>4. Cardinality(T \ {x}) \in G /\ Cardinality(T \ {x}) \in Nat
      BY <2>1, <2>2, FS_RemoveElement, FS_CardinalityType, FS_Subset
  <2>5. Cardinality(T \ {x}) + 1 = Cardinality(T) BY <2>3
  <2> QED BY <2>4, <2>5
<1>5. SUBSET I \subseteq H
  <2> HIDE DEF H, I
  <2> QED BY <1>2, <1>3, <1>4, SetInduction
<1>6. I \in H BY <1>5
<1> QED BY <1>2, <1>6

\* A finite set of numbers has a least and a greatest.
LEMMA Extremes ==
    ASSUME NEW S, IsFiniteSet(S), S # {}, S \subseteq Int
    PROVE  /\ \E x \in S : \A y \in S : x <= y
           /\ \E x \in S : \A y \in S : x >= y
<1> DEFINE H == {T \in SUBSET S : T # {} => (\E x \in T : \A y \in T : x <= y)
                                               /\ (\E x \in T : \A y \in T : x >= y)}
<1>1. {} \in H OBVIOUS
<1>2. ASSUME NEW T \in SUBSET S, T # {}, \A x \in T : T \ {x} \in H
      PROVE  T \in H
  <2>1. PICK z \in T : T \ {z} \in H BY <1>2
  <2>2. z \in Int /\ T \subseteq Int OBVIOUS
  <2>3. CASE T \ {z} = {}
    <3>1. T = {z} BY <2>3
    <3>2. z <= z /\ z >= z BY <2>2
    <3> QED BY <3>1, <3>2
  <2>4. CASE T \ {z} # {}
    <3>1. PICK x \in T \ {z} : \A y \in T \ {z} : x <= y BY <2>1, <2>4
    <3>2. PICK w \in T \ {z} : \A y \in T \ {z} : w >= y BY <2>1, <2>4
    <3>3. x \in Int /\ w \in Int BY <2>2
    <3>4. \E u \in T : \A y \in T : u <= y
      <4>1. CASE x <= z BY <3>1, <4>1
      <4>2. CASE ~(x <= z)
        <5>1. \A y \in T : z <= y BY <2>2, <3>1, <3>3, <4>2
        <5> QED BY <5>1
      <4> QED BY <4>1, <4>2
    <3>5. \E u \in T : \A y \in T : u >= y
      <4>1. CASE w >= z BY <3>2, <4>1
      <4>2. CASE ~(w >= z)
        <5>1. \A y \in T : z >= y BY <2>2, <3>2, <3>3, <4>2
        <5> QED BY <5>1
      <4> QED BY <4>1, <4>2
    <3> QED BY <3>4, <3>5
  <2> QED BY <2>3, <2>4
<1>3. SUBSET S \subseteq H
  <2> HIDE DEF H
  <2> QED BY <1>1, <1>2, SetInduction
<1> QED BY <1>3

-------------------------------------------------------------------------------------------------
(* Folds.  What MapThenFoldSet computes for a set it computes from a smaller*)
(* one, by way of what is chosen from the set.                              *)

\* A choice from each set but the empty one, a step that stays within D, the
\* function that takes it for whatever was chosen, and one that does as it does.
Chooses(c, S) == \A T \in SUBSET S : T # {} => c[T] \in T

Closed(g, S, D) == \A x \in S, d \in D : g[<<x, d>>] \in D

Computes(f, S, base, c, g) ==
    \A T \in SUBSET S : f[T] = IF T = {} THEN base ELSE g[<<c[T], f[T \ {c[T]}]>>]

Alike(f, h, S, c) ==
    /\ h[{}] = f[{}]
    /\ \A T \in SUBSET S : T # {} /\ h[T \ {c[T]}] = f[T \ {c[T]}] => h[T] = f[T]

\* A function of the subsets of a finite set may be defined from its own values
\* for smaller ones.
LEMMA Recursion ==
    ASSUME NEW S, IsFiniteSet(S), NEW D, NEW base \in D,
           NEW c, Chooses(c, S), NEW g, Closed(g, S, D)
    PROVE  \E f \in [SUBSET S -> D] : Computes(f, S, base, c, g)
<1> USE DEF Chooses, Closed, Computes
<1> DEFINE From(f, T) == IF T = {} THEN base ELSE g[<<c[T], f[T \ {c[T]}]>>]
           UpTo(f, n) == \A T \in SUBSET S : Cardinality(T) <= n => f[T] = From(f, T)
           G == {n \in Nat : \E f \in [SUBSET S -> D] : UpTo(f, n)}
<1>1. \A T \in SUBSET S : IsFiniteSet(T) /\ Cardinality(T) \in Nat
    BY FS_Subset, FS_CardinalityType
<1>2. \A f \in [SUBSET S -> D], T \in SUBSET S : From(f, T) \in D
  <2> TAKE f \in [SUBSET S -> D], T \in SUBSET S
  <2>1. CASE T = {} BY <2>1
  <2>2. CASE T # {}
    <3>1. c[T] \in S /\ T \ {c[T]} \in SUBSET S BY <2>2
    <3>2. f[T \ {c[T]}] \in D BY <3>1
    <3>3. g[<<c[T], f[T \ {c[T]}]>>] \in D BY <3>1, <3>2
    <3> QED BY <2>2, <3>3
  <2> QED BY <2>1, <2>2
<1>3. 0 \in G
  <2> DEFINE f == [T \in SUBSET S |-> base]
  <2>1. \A T \in SUBSET S : Cardinality(T) <= 0 => T = {}
    <3> TAKE T \in SUBSET S
    <3>1. Cardinality(T) <= 0 => Cardinality(T) = 0 BY <1>1
    <3> QED BY <1>1, <3>1, FS_EmptySet
  <2>2. f \in [SUBSET S -> D] /\ UpTo(f, 0) BY <2>1
  <2> QED BY <2>2
<1>4. ASSUME NEW n \in Nat, n \in G PROVE n + 1 \in G
  <2>1. PICK f \in [SUBSET S -> D] : UpTo(f, n) BY <1>4
  <2> DEFINE h == [T \in SUBSET S |-> From(f, T)]
  <2>2. h \in [SUBSET S -> D] BY <1>2
  <2>3. ASSUME NEW T \in SUBSET S, Cardinality(T) <= n + 1, T # {}
        PROVE  h[T] = g[<<c[T], h[T \ {c[T]}]>>]
    <3>1. c[T] \in T /\ T \ {c[T]} \in SUBSET S BY <2>3
    <3>2. Cardinality(T \ {c[T]}) = Cardinality(T) - 1 BY <1>1, <3>1, FS_RemoveElement
    <3>3. Cardinality(T \ {c[T]}) <= n BY <1>1, <2>3, <3>2
    <3>4. f[T \ {c[T]}] = From(f, T \ {c[T]}) BY <2>1, <3>1, <3>3
    <3>5. h[T \ {c[T]}] = From(f, T \ {c[T]}) BY <3>1
    <3>6. h[T] = g[<<c[T], f[T \ {c[T]}]>>] BY <2>3
    <3> QED BY <3>4, <3>5, <3>6
  <2>4. UpTo(h, n + 1) BY <2>3
  <2> HIDE DEF h
  <2> QED BY <2>2, <2>4
<1>5. Cardinality(S) \in G
  <2> HIDE DEF G
  <2>1. Nat \subseteq G BY <1>3, <1>4, NumberInduction
  <2> QED BY <1>1, <2>1
<1>6. PICK f \in [SUBSET S -> D] : UpTo(f, Cardinality(S)) BY <1>5
<1>7. \A T \in SUBSET S : Cardinality(T) <= Cardinality(S) BY FS_Subset
<1> QED BY <1>6, <1>7

\* Functions that are defined alike are the same.
LEMMA RecursionUnique ==
    ASSUME NEW S, IsFiniteSet(S),
           NEW c, Chooses(c, S), NEW f, NEW h, Alike(f, h, S, c)
    PROVE  \A T \in SUBSET S : h[T] = f[T]
<1> USE DEF Chooses, Alike
<1> DEFINE G == {T \in SUBSET S : h[T] = f[T]}
<1>1. {} \in G OBVIOUS
<1>2. ASSUME NEW T \in SUBSET S, T # {}, \A x \in T : T \ {x} \in G
      PROVE  T \in G
    BY <1>2
<1>3. SUBSET S \subseteq G
  <2> HIDE DEF G
  <2> QED BY <1>1, <1>2, SetInduction
<1> QED BY <1>3

\* The sum of the values a function has for the elements of a set.
Total(w, S) == SumFunctionOnSet(w, S)

AnyOf(T) == CHOOSE x \in T : TRUE

LEMMA TotalFolds ==
    ASSUME NEW S, IsFiniteSet(S), NEW w, \A x \in S : w[x] \in Int
    PROVE  \E f \in [SUBSET S -> Int] :
             /\ \A T \in SUBSET S : f[T] = IF T = {} THEN 0 ELSE w[AnyOf(T)] + f[T \ {AnyOf(T)}]
             /\ Total(w, S) = f[S]
<1> DEFINE c == [T \in SUBSET S |-> AnyOf(T)]
           g == [z \in S \X Int |-> w[z[1]] + z[2]]
           it == CHOOSE f : f = [T \in SUBSET S |-> IF T = {} THEN 0 ELSE w[AnyOf(T)] + f[T \ {AnyOf(T)}]]
<1>1. \A T \in SUBSET S : T # {} => c[T] \in T /\ c[T] = AnyOf(T) BY DEF AnyOf
<1>2. \A x \in S, d \in Int : g[<<x, d>>] \in Int OBVIOUS
<1>3. PICK f \in [SUBSET S -> Int] : Computes(f, S, 0, c, g)
  <2> HIDE DEF c, g
  <2>1. Chooses(c, S) /\ Closed(g, S, Int) BY <1>1, <1>2 DEF Chooses, Closed
  <2>2. 0 \in Int OBVIOUS
  <2> QED BY <2>1, <2>2, Recursion
<1>4. \A T \in SUBSET S : f[T] = IF T = {} THEN 0 ELSE w[AnyOf(T)] + f[T \ {AnyOf(T)}]
  <2> TAKE T \in SUBSET S
  <2>1. CASE T # {}
    <3>1. c[T] \in S /\ c[T] = AnyOf(T) /\ f[T \ {c[T]}] \in Int BY <1>1, <2>1
    <3>2. g[<<c[T], f[T \ {c[T]}]>>] = w[c[T]] + f[T \ {c[T]}] BY <3>1
    <3> HIDE DEF c, g
    <3> QED BY <1>3, <2>1, <3>1, <3>2 DEF Computes
  <2>2. CASE T = {} BY <1>3, <2>2 DEF Computes
  <2> QED BY <2>1, <2>2
<1>5. f = [T \in SUBSET S |-> IF T = {} THEN 0 ELSE w[AnyOf(T)] + f[T \ {AnyOf(T)}]]
    BY <1>4
<1>6. it = [T \in SUBSET S |-> IF T = {} THEN 0 ELSE w[AnyOf(T)] + it[T \ {AnyOf(T)}]]
    BY <1>5
<1>7. Total(w, S) = it[S]
    BY DEF Total, SumFunctionOnSet, FoldFunctionOnSet, MapThenFoldSet, AnyOf
<1> HIDE DEF it, g
<1>8. \A T \in SUBSET S : it[T] = f[T]
  <2>1. it[{}] = f[{}] BY <1>4, <1>6
  <2>2. \A T \in SUBSET S : T # {} /\ it[T \ {c[T]}] = f[T \ {c[T]}] => it[T] = f[T]
      BY <1>1, <1>4, <1>6
  <2> HIDE DEF c
  <2>3. Chooses(c, S) /\ Alike(f, it, S, c) BY <1>1, <2>1, <2>2 DEF Chooses, Alike
  <2> QED BY <2>3, RecursionUnique
<1> QED BY <1>4, <1>7, <1>8

\* Whatever is chosen, the sum is that of one element and the rest.
LEMMA Totals ==
    ASSUME NEW S, IsFiniteSet(S), NEW w, \A x \in S : w[x] \in Int
    PROVE  /\ Total(w, {}) = 0
           /\ \A T \in SUBSET S : Total(w, T) \in Int
           /\ \A T \in SUBSET S, x \in S :
                x \in T => Total(w, T) = w[x] + Total(w, T \ {x})
<1>1. PICK f \in [SUBSET S -> Int] :
             /\ \A T \in SUBSET S : f[T] = IF T = {} THEN 0 ELSE w[AnyOf(T)] + f[T \ {AnyOf(T)}]
             /\ Total(w, S) = f[S]
    BY TotalFolds
<1>2. \A T : T # {} => AnyOf(T) \in T BY DEF AnyOf
<1>3. ASSUME NEW T \in SUBSET S PROVE Total(w, T) = f[T]
  <2>1. IsFiniteSet(T) BY FS_Subset
  <2>2. PICK h \in [SUBSET T -> Int] :
             /\ \A U \in SUBSET T : h[U] = IF U = {} THEN 0 ELSE w[AnyOf(U)] + h[U \ {AnyOf(U)}]
             /\ Total(w, T) = h[T]
      BY <2>1, TotalFolds
  <2> DEFINE c == [U \in SUBSET T |-> AnyOf(U)]
  <2>3. \A U \in SUBSET T : U # {} => c[U] \in U /\ c[U] = AnyOf(U) BY <1>2
  <2> HIDE DEF c
  <2>4. h[{}] = f[{}] BY <1>1, <2>2
  <2>5. ASSUME NEW U \in SUBSET T, U # {}, h[U \ {c[U]}] = f[U \ {c[U]}] PROVE h[U] = f[U]
    <3>1. U \in SUBSET S OBVIOUS
    <3> QED BY <1>1, <2>2, <2>3, <2>5, <3>1
  <2>6. Chooses(c, T) /\ Alike(f, h, T, c) BY <2>3, <2>4, <2>5 DEF Chooses, Alike
  <2>7. \A U \in SUBSET T : h[U] = f[U] BY <2>1, <2>6, RecursionUnique
  <2> QED BY <2>2, <2>7
<1> DEFINE G == {T \in SUBSET S : \A x \in T : f[T] = w[x] + f[T \ {x}]}
<1>4. {} \in G OBVIOUS
<1>5. ASSUME NEW T \in SUBSET S, T # {}, \A x \in T : T \ {x} \in G
      PROVE  T \in G
  <2> DEFINE z == AnyOf(T)
  <2>1. z \in T /\ f[T] = w[z] + f[T \ {z}] BY <1>1, <1>2, <1>5
  <2> HIDE DEF z
  <2>2. ASSUME NEW x \in T, x # z PROVE f[T] = w[x] + f[T \ {x}]
    <3>1. T \ {z} \in G /\ x \in T \ {z} BY <1>5, <2>1, <2>2
    <3>2. T \ {x} \in G /\ z \in T \ {x} BY <1>5, <2>1, <2>2
    <3>3. f[T \ {z}] = w[x] + f[(T \ {z}) \ {x}] BY <3>1
    <3>4. f[T \ {x}] = w[z] + f[(T \ {x}) \ {z}] BY <3>2
    <3>5. (T \ {x}) \ {z} = (T \ {z}) \ {x} /\ (T \ {z}) \ {x} \in SUBSET S OBVIOUS
    <3>6. w[x] \in Int /\ w[z] \in Int /\ f[(T \ {z}) \ {x}] \in Int BY <2>1, <3>5
    <3>7. f[T \ {x}] = w[z] + f[(T \ {z}) \ {x}] BY <3>4, <3>5
    <3> DEFINE rest == f[(T \ {z}) \ {x}]
               a == f[T \ {z}]
               b == f[T \ {x}]
    <3>8. rest \in Int /\ a = w[x] + rest /\ b = w[z] + rest /\ f[T] = w[z] + a
        BY <2>1, <3>3, <3>6, <3>7
    <3> HIDE DEF rest, a, b
    <3>9. f[T] = w[x] + b BY <3>6, <3>8
    <3> QED BY <3>9 DEF b
  <2>3. \A x \in T : f[T] = w[x] + f[T \ {x}] BY <2>1, <2>2
  <2> QED BY <2>3
<1>6. SUBSET S \subseteq G
  <2> HIDE DEF G
  <2> QED BY <1>4, <1>5, SetInduction
<1>7. \A T \in SUBSET S, x \in S : x \in T => f[T] = w[x] + f[T \ {x}] BY <1>6
<1>8. \A T \in SUBSET S, x \in S : T \ {x} \in SUBSET S OBVIOUS
<1>9. {} \in SUBSET S /\ f[{}] = 0 BY <1>1
<1> HIDE DEF G
<1> QED BY <1>3, <1>7, <1>8, <1>9

\* The greatest element of each set of numbers up to n.
Greatests(n) == [T \in SUBSET (1..n) |-> CHOOSE x \in T : \A y \in T : x >= y]

LEMMA GreatestsChosen ==
    ASSUME NEW n \in Nat
    PROVE  /\ IsFiniteSet(1..n) /\ Chooses(Greatests(n), 1..n)
           /\ \A k \in 1..n : Greatests(n)[1..k] = k /\ (1..k) \ {k} = 1..(k - 1)
<1>1. IsFiniteSet(1..n) BY FS_Interval
<1>2. ASSUME NEW T \in SUBSET (1..n), T # {} PROVE Greatests(n)[T] \in T
  <2>1. IsFiniteSet(T) BY <1>1, FS_Subset
  <2>3. T \subseteq Int OBVIOUS
  <2>2. \E x \in T : \A y \in T : x >= y BY <1>2, <2>1, <2>3, Extremes
  <2> QED BY <2>2 DEF Greatests
<1>3. ASSUME NEW k \in 1..n PROVE Greatests(n)[1..k] = k /\ (1..k) \ {k} = 1..(k - 1)
  <2>1. 1..k \in SUBSET (1..n) /\ k \in 1..k /\ \A y \in 1..k : k >= y OBVIOUS
  <2>2. \A x \in 1..k : x >= k => x = k OBVIOUS
  <2>3. (CHOOSE x \in 1..k : \A y \in 1..k : x >= y) = k BY <2>1, <2>2
  <2> QED BY <2>1, <2>3 DEF Greatests
<1> QED BY <1>1, <1>2, <1>3 DEF Chooses

\* What a loop has after each round.
Runs(r, n, base, g) == r[0] = base /\ \A k \in 1..n : r[k] = g[<<k, r[k - 1]>>]

Looped(f, n, D, base, g) ==
    /\ Computes(f, 1..n, base, Greatests(n), g)
    /\ \E r \in [0..n -> D] : Runs(r, n, base, g) /\ f[1..n] = r[n]

LEMMA Loop ==
    ASSUME NEW n \in Nat, NEW D, NEW base \in D, NEW g, Closed(g, 1..n, D)
    PROVE  \E f \in [SUBSET (1..n) -> D] : Looped(f, n, D, base, g)
<1>1. PICK f \in [SUBSET (1..n) -> D] : Computes(f, 1..n, base, Greatests(n), g)
    BY GreatestsChosen, Recursion
<1> DEFINE r == [k \in 0..n |-> f[1..k]]
<1>2. r \in [0..n -> D]
  <2>1. \A k \in 0..n : 1..k \in SUBSET (1..n) OBVIOUS
  <2> QED BY <2>1
<1>3. r[0] = base
  <2>1. 1..0 = {} /\ 0 \in 0..n OBVIOUS
  <2>2. f[{}] = base BY <1>1 DEF Computes
  <2> QED BY <2>1, <2>2
<1>4. ASSUME NEW k \in 1..n PROVE r[k] = g[<<k, r[k - 1]>>]
  <2>1. k \in 0..n /\ k - 1 \in 0..n /\ 1..k \in SUBSET (1..n) /\ 1..k # {} OBVIOUS
  <2>2. Greatests(n)[1..k] = k /\ (1..k) \ {k} = 1..(k - 1) BY GreatestsChosen
  <2>3. f[1..k] = g[<<k, f[1..(k - 1)]>>] BY <1>1, <2>1, <2>2 DEF Computes
  <2> QED BY <2>1, <2>3
<1>5. f[1..n] = r[n] OBVIOUS
<1> HIDE DEF r
<1>6. Runs(r, n, base, g) BY <1>3, <1>4 DEF Runs
<1> QED BY <1>1, <1>2, <1>5, <1>6 DEF Looped

-----------------------------------------------------------------------------
(* The state machine.                                                      *)

\* Among the first n events of s is what has to come before state to.
Caused(s, n, to) ==
    /\ to = "refund_initiated" =>
         \E j \in 1 .. n : s[j].to \in
             {"restaurant_rejected", "customer_cancelled", "delivery_failed"}
    /\ to = "refunded" => \E j \in 1 .. n : s[j].to = "refund_initiated"
    /\ to \in {"rider_arrived_customer", "delivered", "delivery_failed"} =>
         \E j \in 1 .. n : s[j].to = "picked_up"
    /\ to = "picked_up" => \E j \in 1 .. n : s[j].to = "rider_arrived_restaurant"
    /\ to = "rider_arrived_restaurant" => \E j \in 1 .. n : s[j].to = "rider_assigned"

\* What has to come before state to has happened to o.
CausedNext(o, to) == Caused(log[o], Len(log[o]), to)

MachineIInv ==
    /\ Machine!TypeOK
    /\ \A o \in Orders : \A i \in 1 .. Len(log[o]) : Caused(log[o], i - 1, log[o][i].to)
    /\ \A p \in Procs : transition[p].pc = "save" =>
           CausedNext(transition[p].order, transition[p].event.to)

\* What the table says of states that need a cause.
LEMMA TableCauses ==
    ASSUME NEW from \in Machine!States, NEW to, Machine!isValidTransition(from, to)
    PROVE  /\ to \in Machine!States
           /\ to = "refund_initiated" =>
                from \in {"restaurant_rejected", "customer_cancelled", "delivery_failed"}
           /\ to = "refunded" => from = "refund_initiated"
           /\ to = "rider_arrived_customer" => from = "picked_up"
           /\ to = "delivered" => from \in {"rider_arrived_customer", "delivery_failed"}
           /\ to = "delivery_failed" => from \in {"rider_arrived_customer", "picked_up"}
           /\ to = "picked_up" => from = "rider_arrived_restaurant"
           /\ to = "rider_arrived_restaurant" => from = "rider_assigned"
BY DEF Machine!isValidTransition, Machine!States, Machine!ValidTransitions

LEMMA MachineHolds ==
    ASSUME Machine!TypeOK, NEW p \in Procs, transition[p] # Idle
    PROVE  /\ transition[p] \in Machine!Call
           /\ transition[p].order \in Orders
           /\ transition[p].event \in Machine!Event
           /\ transition[p].event.from \in Machine!States
           /\ transition[p].event.to \in Machine!States
           /\ transition[p].event.id \in EventIds \cup {Generated}
BY DEF Machine!TypeOK, Machine!Call, Machine!Event, Machine!Idle, Idle

\* The state of an order is one of the table's.
LEMMA CurrentIsState ==
    ASSUME Machine!TypeOK, NEW o \in Orders, log[o] # <<>>
    PROVE  /\ Machine!Current(o) \in Machine!States
           /\ Len(log[o]) \in 1 .. Len(log[o])
           /\ \A i \in 1 .. Len(log[o]) : log[o][i] \in Machine!Event
<1>1. PICK s \in Seq(Machine!Event) : s = log[o] BY DEF Machine!TypeOK
<1>2. Len(s) \in Nat \ {0} BY <1>1
<1>3. Len(s) \in 1 .. Len(s) BY <1>2
<1>4. \A i \in 1 .. Len(s) : s[i] \in Machine!Event BY <1>1
<1>5. s[Len(s)].to \in Machine!States BY <1>3, <1>4 DEF Machine!Event
<1> QED BY <1>1, <1>3, <1>4, <1>5 DEF Machine!Current

\* A step the table allows from the current state has its cause in the log.
LEMMA CurrentCauses ==
    ASSUME MachineIInv, NEW o \in Orders, log[o] # <<>>, NEW to,
           Machine!isValidTransition(Machine!Current(o), to)
    PROVE  CausedNext(o, to) /\ to \in Machine!States
<1>1. PICK n : n = Len(log[o]) OBVIOUS
<1>2. PICK from : from = Machine!Current(o) OBVIOUS
<1>3. n \in Nat \ {0} /\ from = log[o][n].to /\ from \in Machine!States
  <2>1. n \in 1 .. n /\ from \in Machine!States
      BY <1>1, <1>2, CurrentIsState DEF MachineIInv
  <2>2. log[o] \in Seq(Machine!Event) BY DEF MachineIInv, Machine!TypeOK
  <2> QED BY <1>1, <1>2, <2>1, <2>2 DEF Machine!Current
<1>4. Caused(log[o], n - 1, from) BY <1>1, <1>3 DEF MachineIInv
<1>5. \A j \in 1 .. n - 1 : j \in 1 .. n BY <1>3
<1>6. n \in 1 .. n BY <1>3
<1>7. Caused(log[o], n, to) /\ to \in Machine!States
    BY <1>2, <1>3, <1>4, <1>5, <1>6, TableCauses DEF Caused
<1> QED BY <1>1, <1>7 DEF CausedNext

LEMMA MachineInit == Machine!Init => MachineIInv
<1> SUFFICES ASSUME Machine!Init PROVE MachineIInv
    OBVIOUS
<1>1. "placed" \in Machine!States BY DEF Machine!States, Machine!ValidTransitions
<1>2. Machine!Placed \in Machine!Event /\ Machine!Placed.to = "placed"
    BY <1>1 DEF Machine!Placed, Machine!Event
<1>3. <<Machine!Placed>> \in Seq(Machine!Event) /\ <<>> \in Seq(Machine!Event) BY <1>2
<1>4. \A o \in Orders : log[o] = <<>> \/ log[o] = <<Machine!Placed>> BY DEF Machine!Init
<1>5. log \in [Orders -> Seq(Machine!Event)] BY <1>3 DEF Machine!Init
<1>6. Machine!TypeOK BY <1>1, <1>5 DEF Machine!Init, Machine!TypeOK
<1>7. ASSUME NEW o \in Orders, NEW i \in 1 .. Len(log[o])
      PROVE  Caused(log[o], i - 1, log[o][i].to)
  <2>1. CASE log[o] = <<>> BY <1>7, <2>1
  <2>2. CASE log[o] = <<Machine!Placed>>
    <3>1. i = 1 BY <1>7, <2>2
    <3>2. log[o][i].to = "placed" BY <1>2, <2>2, <3>1
    <3> QED BY <3>2 DEF Caused
  <2> QED BY <1>4, <2>1, <2>2
<1>8. \A p \in Procs : transition[p].pc = "idle" BY DEF Machine!Init, Machine!Idle
<1> QED BY <1>6, <1>7, <1>8 DEF MachineIInv

\* A transition takes up event e, or ends; the log stays.
LEMMA MachineHeld ==
    ASSUME MachineIInv, NEW p \in Procs, NEW c \in {Machine!Idle} \cup Machine!Call,
           transition' = [transition EXCEPT ![p] = c], UNCHANGED log,
           shown' \in [Orders -> Machine!States],
           c.pc = "save" => CausedNext(c.order, c.event.to)
    PROVE  MachineIInv'
<1>1. Machine!TypeOK' BY DEF MachineIInv, Machine!TypeOK
<1>2. \A o, to : CausedNext(o, to)' <=> CausedNext(o, to) BY DEF CausedNext
<1>3. \A q \in Procs : transition'[q] = IF q = p THEN c ELSE transition[q]
    BY DEF MachineIInv, Machine!TypeOK
<1>4. ASSUME NEW q \in Procs, transition'[q].pc = "save"
      PROVE  CausedNext(transition[q].order, transition[q].event.to)'
  <2>1. CASE q = p BY <1>3, <1>4, <2>1 DEF CausedNext
  <2>2. CASE q # p BY <1>3, <1>4, <2>2 DEF MachineIInv, CausedNext
  <2> QED BY <2>1, <2>2
<1> QED BY <1>1, <1>2, <1>4 DEF MachineIInv

\* An event that is appended has its cause before it, and takes no cause away.
LEMMA MachineAppends ==
    ASSUME MachineIInv, NEW p \in Procs, Machine!SaveEvent(p)
    PROVE  MachineIInv'
<1>0. transition[p].pc = "save" /\ transition[p] # Idle BY DEF Machine!SaveEvent, Idle
<1>1. PICK o, e : o = transition[p].order /\ e = transition[p].event OBVIOUS
<1>2. o \in Orders /\ e \in Machine!Event
    BY <1>0, <1>1, MachineHolds DEF MachineIInv
<1>3. PICK s \in Seq(Machine!Event) : s = log[o] BY <1>2 DEF MachineIInv, Machine!TypeOK
<1>4. PICK n \in Nat : n = Len(s) BY <1>3
<1>5. Caused(s, n, e.to) BY <1>0, <1>1, <1>3, <1>4 DEF MachineIInv, CausedNext
<1>6. /\ log' = [log EXCEPT ![o] = Append(s, e)]
      /\ \E c : /\ c = [pc |-> "emit", order |-> o, event |-> e]
                /\ transition' = [transition EXCEPT ![p] = c]
      /\ UNCHANGED shown
    BY <1>1, <1>3 DEF Machine!SaveEvent, Machine!Hold
<1>7. /\ log'[o] = Append(s, e)
      /\ \A q \in Orders \ {o} : log'[q] = log[q]
    BY <1>2, <1>6 DEF MachineIInv, Machine!TypeOK
<1>8. Len(log'[o]) = n + 1 /\ log'[o][n + 1] = e /\ \A i \in 1 .. n : log'[o][i] = log[o][i]
    BY <1>3, <1>4, <1>7
<1>9. Machine!TypeOK'
  <2>1. Append(s, e) \in Seq(Machine!Event) BY <1>2, <1>3
  <2>2. log' \in [Orders -> Seq(Machine!Event)]
      BY <1>6, <2>1 DEF MachineIInv, Machine!TypeOK
  <2>3. [pc |-> "emit", order |-> o, event |-> e] \in Machine!Call
      BY <1>2 DEF Machine!Call
  <2> QED BY <1>6, <2>2, <2>3 DEF MachineIInv, Machine!TypeOK
\* Events before the end are the same, so what they caused they cause.
<1>10. ASSUME NEW q \in Orders, NEW i \in Nat, i <= Len(log[q]), NEW to, Caused(log[q], i, to)
       PROVE  Caused(log'[q], i, to)
  <2>1. \A j \in 1 .. i : log'[q][j] = log[q][j]
    <3>1. CASE q = o BY <1>3, <1>4, <1>8, <1>10, <3>1
    <3>2. CASE q # o BY <1>7, <3>2
    <3> QED BY <3>1, <3>2
  <2> QED BY <1>10, <2>1 DEF Caused
<1>11. ASSUME NEW q \in Orders, NEW i \in 1 .. Len(log'[q])
       PROVE  Caused(log'[q], i - 1, log'[q][i].to)
  <2>1. CASE q = o /\ i = n + 1
    <3>1. Caused(log'[o], n, e.to) BY <1>2, <1>3, <1>4, <1>5, <1>10
    <3> QED BY <1>8, <2>1, <3>1
  <2>2. CASE ~(q = o /\ i = n + 1)
    <3>1. Len(log[q]) \in Nat BY DEF MachineIInv, Machine!TypeOK
    <3>2. i \in 1 .. Len(log[q]) /\ log'[q][i] = log[q][i]
      <4>1. CASE q = o BY <1>3, <1>4, <1>8, <1>11, <2>2, <4>1
      <4>2. CASE q # o BY <1>7, <1>11, <4>2
      <4> QED BY <4>1, <4>2
    <3>3. Caused(log[q], i - 1, log[q][i].to) BY <3>2 DEF MachineIInv
    <3>4. i - 1 \in Nat /\ i - 1 <= Len(log[q]) BY <3>1, <3>2
    <3>5. PICK to : to = log[q][i].to OBVIOUS
    <3>6. Caused(log'[q], i - 1, to) BY <1>10, <3>3, <3>4, <3>5
    <3> QED BY <3>2, <3>5, <3>6
  <2> QED BY <2>1, <2>2
<1>12. ASSUME NEW r \in Procs, transition'[r].pc = "save"
       PROVE  CausedNext(transition[r].order, transition[r].event.to)'
  <2>1. r # p /\ transition'[r] = transition[r]
      BY <1>6, <1>12 DEF MachineIInv, Machine!TypeOK
  <2>2. PICK q, to : q = transition[r].order /\ to = transition[r].event.to OBVIOUS
  <2>3. q \in Orders BY <1>12, <2>1, <2>2, MachineHolds DEF MachineIInv, Idle
  <2>4. PICK m \in Nat : m = Len(log[q]) BY <2>3 DEF MachineIInv, Machine!TypeOK
  <2>5. Caused(log'[q], m, to)
      BY <1>10, <1>12, <2>1, <2>2, <2>3, <2>4 DEF MachineIInv, CausedNext
  <2>6. Len(log'[q]) \in Nat /\ m <= Len(log'[q])
      BY <1>3, <1>4, <1>7, <1>8, <2>4, <2>3
  <2>7. Caused(log'[q], Len(log'[q]), to)
    <3>1. PICK k \in Nat : k = Len(log'[q]) BY <2>6
    <3>2. \A j \in 1 .. m : j \in 1 .. k BY <2>6, <3>1
    <3>3. Caused(log'[q], k, to) BY <2>5, <3>2 DEF Caused
    <3> QED BY <3>1, <3>3
  <2> QED BY <2>1, <2>2, <2>7 DEF CausedNext
<1> QED BY <1>9, <1>11, <1>12 DEF MachineIInv

LEMMA MachineEnds ==
    ASSUME MachineIInv, NEW p \in Procs, Machine!Return(p), UNCHANGED log,
           shown' \in [Orders -> Machine!States]
    PROVE  MachineIInv'
<1>1. PICK c : c = Machine!Idle /\ transition' = [transition EXCEPT ![p] = c]
    BY DEF Machine!Return
<1>2. c.pc = "idle" BY <1>1 DEF Machine!Idle
<1> QED BY <1>1, <1>2, MachineHeld

\* What TransitionState accepts goes on to be saved.
LEMMA Validated ==
    ASSUME MachineIInv, NEW p \in Procs, NEW o \in Orders, NEW to,
           NEW id \in EventIds \cup {Generated}, Machine!Validate(p, o, to, id)
    PROVE  \E c \in Machine!Call :
               /\ transition' = [transition EXCEPT ![p] = c]
               /\ c.pc = "save" /\ c.order = o /\ c.event.to = to /\ c.event.id = id
               /\ c.event.from = Machine!Current(o)
               /\ CausedNext(o, to)
<1>1. PICK from : from = Machine!Current(o) OBVIOUS
<1>2. log[o] # <<>> /\ Machine!isValidTransition(from, to) BY <1>1 DEF Machine!Validate
<1>3. from \in Machine!States BY <1>1, <1>2, CurrentIsState DEF MachineIInv
<1>4. CausedNext(o, to) /\ to \in Machine!States BY <1>1, <1>2, CurrentCauses
<1>5. PICK e : e = [from |-> from, to |-> to, id |-> id] OBVIOUS
<1>6. e \in Machine!Event BY <1>3, <1>4, <1>5 DEF Machine!Event
<1>7. PICK c : c = [pc |-> "save", order |-> o, event |-> e] OBVIOUS
<1>8. c \in Machine!Call BY <1>6, <1>7 DEF Machine!Call
<1>9. transition' = [transition EXCEPT ![p] = c]
    BY <1>1, <1>5, <1>7 DEF Machine!Validate, Machine!Hold
<1> QED BY <1>1, <1>4, <1>5, <1>7, <1>8, <1>9

LEMMA ValidatedStep ==
    ASSUME MachineIInv, NEW p \in Procs, NEW o \in Orders, NEW to,
           NEW id \in EventIds \cup {Generated}, Machine!Validate(p, o, to, id),
           UNCHANGED <<log, shown>>
    PROVE  MachineIInv'
<1>1. shown' \in [Orders -> Machine!States] BY DEF MachineIInv, Machine!TypeOK
<1> QED BY <1>1, Validated, MachineHeld

LEMMA IntendedStep ==
    ASSUME MachineIInv, NEW p \in Procs, NEW o \in Orders, NEW states, NEW to \in Machine!States,
           Machine!Intend(p, o, states, to)
    PROVE  MachineIInv'
<1>1. PICK from : from = Machine!Current(o) OBVIOUS
<1>2. log[o] # <<>> /\ UNCHANGED <<log, shown>> BY DEF Machine!Intend
<1>3. from \in Machine!States BY <1>1, <1>2, CurrentIsState DEF MachineIInv
<1>4. PICK e : e = [from |-> from, to |-> to, id |-> Generated] OBVIOUS
<1>5. e \in Machine!Event BY <1>3, <1>4 DEF Machine!Event
<1>6. PICK c : c = [pc |-> "transition", order |-> o, event |-> e] OBVIOUS
<1>7. c \in Machine!Call BY <1>5, <1>6 DEF Machine!Call
<1>8. transition' = [transition EXCEPT ![p] = c]
    BY <1>1, <1>4, <1>6 DEF Machine!Intend, Machine!Hold
<1>9. shown' \in [Orders -> Machine!States] BY <1>2 DEF MachineIInv, Machine!TypeOK
<1> QED BY <1>2, <1>6, <1>7, <1>8, <1>9, MachineHeld

LEMMA MachineStep == MachineIInv /\ Machine!Next => MachineIInv'
<1> SUFFICES ASSUME MachineIInv, Machine!Next PROVE MachineIInv'
    OBVIOUS
<1>1. ASSUME NEW p \in Procs, NEW o \in Orders, Machine!Request(p, o) PROVE MachineIInv'
  <2>1. /\ "customer_cancelled" \in Machine!States /\ "rider_reassignment" \in Machine!States
        /\ Generated \in EventIds \cup {Generated}
      BY DEF Machine!States, Machine!ValidTransitions
  <2>2. CASE \/ Machine!HandleRestaurantOffline(p, o)
             \/ Machine!HandleRiderCancellation(p, o)
      BY <2>1, <2>2, IntendedStep
         DEF Machine!HandleRestaurantOffline, Machine!HandleRiderCancellation
  <2>3. CASE \/ \E to \in Machine!States, id \in EventIds \cup {Generated} :
                  Machine!TransitionState(p, o, to, id)
             \/ Machine!HandleDeliveryFailure(p, o)
      BY <2>1, <2>3, ValidatedStep DEF Machine!TransitionState, Machine!HandleDeliveryFailure
  <2> QED BY <1>1, <2>2, <2>3 DEF Machine!Request
<1>2. ASSUME NEW p \in Procs, Machine!TransitionIntended(p) PROVE MachineIInv'
  <2>1. transition[p] # Idle /\ UNCHANGED <<log, shown>>
      BY <1>2 DEF Machine!TransitionIntended, Idle
  <2>2. PICK o, to, id : o = transition[p].order /\ to = transition[p].event.to
                         /\ id = transition[p].event.id
      OBVIOUS
  <2>3. o \in Orders /\ id \in EventIds \cup {Generated}
      BY <2>1, <2>2, MachineHolds DEF MachineIInv
  <2>4. shown' \in [Orders -> Machine!States] BY <2>1 DEF MachineIInv, Machine!TypeOK
  <2>5. Machine!Validate(p, o, to, id) \/ Machine!Return(p)
      BY <1>2, <2>2 DEF Machine!TransitionIntended
  <2> QED BY <2>1, <2>3, <2>4, <2>5, ValidatedStep, MachineEnds
<1>3. ASSUME NEW p \in Procs, Machine!EmitWebSocketEvent(p) PROVE MachineIInv'
  <2>1. transition[p] # Idle BY <1>3 DEF Machine!EmitWebSocketEvent, Idle
  <2>2. transition[p].event.to \in Machine!States BY <2>1, MachineHolds DEF MachineIInv
  <2>3. shown' \in [Orders -> Machine!States]
      BY <1>3, <2>2 DEF Machine!EmitWebSocketEvent, MachineIInv, Machine!TypeOK
  <2> QED BY <1>3, <2>3, MachineEnds DEF Machine!EmitWebSocketEvent
<1>4. ASSUME NEW p \in Procs, Machine!Error(p) PROVE MachineIInv'
  <2>1. shown' \in [Orders -> Machine!States]
      BY <1>4 DEF Machine!Error, MachineIInv, Machine!TypeOK
  <2> QED BY <1>4, <2>1, MachineEnds DEF Machine!Error
<1>5. CASE Machine!Crash
  <2>1. Machine!TypeOK' BY <1>5 DEF Machine!Crash, MachineIInv, Machine!TypeOK
  <2>2. \A p \in Procs : transition'[p].pc # "save" BY <1>5 DEF Machine!Crash, Machine!Idle
  <2> QED BY <1>5, <2>1, <2>2 DEF Machine!Crash, MachineIInv
<1> QED BY <1>1, <1>2, <1>3, <1>4, <1>5, MachineAppends
        DEF Machine!Next, Machine!Continue, Machine!Fault

-----------------------------------------------------------------------------

\* What is about to be saved goes on where the log, which nobody else changes,
\* ends.
SaveFits(c) ==
    /\ log[c.order] # <<>>
    /\ c.event.from = Machine!Current(c.order)
    /\ Machine!isValidTransition(c.event.from, c.event.to)
    /\ ~Machine!Seen(c.order, c.event.id)

Telling(o) == \E p \in Procs : transition[p].pc = "emit" /\ transition[p].order = o

\* With no failure, sockets that were not told where the log ends soon will be.
TellingIsCurrent ==
    /\ \A p \in Procs :
           transition[p].pc = "emit" =>
               /\ log[transition[p].order] # <<>>
               /\ transition[p].event.to = Machine!Current(transition[p].order)
    /\ \A o \in Orders : log[o] # <<>> => shown[o] = Machine!Current(o) \/ Telling(o)

MachineCalm ==
    /\ One(transition)
    /\ Machine!LogIsPath
    /\ \A p \in Procs : transition[p].pc = "save" => SaveFits(transition[p])
    /\ faults = 0 => TellingIsCurrent

LEMMA MachineCalmInit == Machine!Init => MachineCalm
<1> SUFFICES ASSUME Machine!Init PROVE MachineCalm
    OBVIOUS
<1>1. \A p \in Procs : transition[p] = Idle /\ transition[p].pc = "idle"
    BY DEF Machine!Init, Machine!Idle, Idle
<1>2. DOMAIN transition = Procs BY DEF Machine!Init
<1>3. \A o \in Orders : log[o] = <<>> \/ log[o] = <<Machine!Placed>> BY DEF Machine!Init
<1>4. \A o \in Orders : 2 .. Len(log[o]) = {}
  <2> SUFFICES ASSUME NEW o \in Orders PROVE 2 .. Len(log[o]) = {}
      OBVIOUS
  <2>1. CASE log[o] = <<>>
    <3>1. Len(log[o]) = 0 BY <2>1
    <3> QED BY <3>1
  <2>2. CASE log[o] = <<Machine!Placed>>
    <3>1. Len(<<Machine!Placed>>) = 1 OBVIOUS
    <3>2. Len(log[o]) = 1 BY <3>1, <2>2
    <3> QED BY <3>2
  <2> QED BY <1>3, <2>1, <2>2
<1>5. Machine!LogIsPath BY <1>4 DEF Machine!LogIsPath
<1>6. \A o \in Orders : log[o] # <<>> => shown[o] = Machine!Current(o)
  <2>1. ASSUME NEW o \in Orders, log[o] # <<>> PROVE shown[o] = Machine!Current(o)
    <3>1. log[o] = <<Machine!Placed>> BY <1>3, <2>1
    <3>2. Machine!Current(o) = Machine!Placed.to BY <3>1 DEF Machine!Current
    <3> QED BY <2>1, <3>2 DEF Machine!Placed, Machine!Init
  <2> QED BY <2>1
<1> QED BY <1>1, <1>2, <1>5, <1>6 DEF MachineCalm, One, TellingIsCurrent

\* The only transition under way goes on with c; no event is appended.
LEMMA MachineCalmHeld ==
    ASSUME MachineIInv, MachineCalm, NEW p \in Procs, NEW c,
           \A q \in Procs \ {p} : transition[q] = Idle,
           transition' = [transition EXCEPT ![p] = c], c.pc \in {"idle", "transition", "save"},
           UNCHANGED <<log, shown>>, c.pc = "save" => SaveFits(c),
           faults' = 0 => faults = 0 /\ transition[p].pc # "emit"
    PROVE  MachineCalm'
<1>1. Idle.pc = "idle" BY DEF Idle
<1>2. /\ transition'[p] = c /\ DOMAIN transition' = Procs
      /\ \A q \in Procs \ {p} : transition'[q] = Idle
    BY DEF MachineIInv, Machine!TypeOK
<1>3. One(transition)' BY <1>2 DEF One
<1>4. Machine!LogIsPath' BY DEF MachineCalm, Machine!LogIsPath
<1>5. \A q \in Procs : transition'[q].pc = "save" => SaveFits(transition[q])'
    BY <1>1, <1>2 DEF SaveFits, Machine!Current, Machine!Seen
<1>6. faults' = 0 => TellingIsCurrent'
  <2> SUFFICES ASSUME faults' = 0 PROVE TellingIsCurrent'
      OBVIOUS
  <2>1. TellingIsCurrent BY DEF MachineCalm
  <2>2. \A q \in Procs : transition[q].pc # "emit" /\ transition'[q].pc # "emit" BY <1>1, <1>2
  <2> QED BY <2>1, <2>2 DEF TellingIsCurrent, Telling, Machine!Current
<1> QED BY <1>3, <1>4, <1>5, <1>6 DEF MachineCalm

\* What TransitionState accepts fits the log.
LEMMA ValidatedCalm ==
    ASSUME MachineIInv, MachineCalm, NEW p \in Procs, NEW o \in Orders, NEW to,
           NEW id \in EventIds \cup {Generated}, Machine!Validate(p, o, to, id),
           \A q \in Procs \ {p} : transition[q] = Idle, transition[p].pc # "emit",
           UNCHANGED <<log, shown, faults>>
    PROVE  MachineCalm'
<1>1. PICK c \in Machine!Call :
          /\ transition' = [transition EXCEPT ![p] = c]
          /\ c.pc = "save" /\ c.order = o /\ c.event.to = to /\ c.event.id = id
          /\ c.event.from = Machine!Current(o)
    BY Validated
<1>2. SaveFits(c) BY <1>1 DEF SaveFits, Machine!Validate
<1> QED BY <1>1, <1>2, MachineCalmHeld

LEMMA IntendedCalm ==
    ASSUME MachineIInv, MachineCalm, NEW p \in Procs, NEW o \in Orders, NEW states, NEW to,
           Machine!Intend(p, o, states, to), \A q \in Procs : transition[q] = Idle,
           UNCHANGED faults
    PROVE  MachineCalm'
<1>1. PICK c : /\ c = [pc |-> "transition", order |-> o,
                       event |-> [from |-> Machine!Current(o), to |-> to, id |-> Generated]]
               /\ transition' = [transition EXCEPT ![p] = c]
    BY DEF Machine!Intend, Machine!Hold
<1>2. c.pc = "transition" /\ transition[p].pc = "idle" BY <1>1 DEF Idle
<1>3. UNCHANGED <<log, shown>> BY DEF Machine!Intend
<1> QED BY <1>1, <1>2, <1>3, MachineCalmHeld

LEMMA SaveEventCalm ==
    ASSUME MachineIInv, MachineCalm, NEW p \in Procs, Machine!SaveEvent(p), UNCHANGED faults
    PROVE  MachineCalm'
<1>0. transition[p].pc = "save" /\ transition[p] # Idle /\ Idle.pc = "idle"
    BY DEF Machine!SaveEvent, Idle
<1>1. PICK o, e : o = transition[p].order /\ e = transition[p].event OBVIOUS
<1>2. o \in Orders /\ e \in Machine!Event
    BY <1>0, <1>1, MachineHolds DEF MachineIInv
<1>3. PICK s \in Seq(Machine!Event) : s = log[o] BY <1>2 DEF MachineIInv, Machine!TypeOK
<1>4. PICK n \in Nat : n = Len(s) BY <1>3
<1>5. /\ s # <<>> /\ e.from = s[n].to /\ Machine!isValidTransition(e.from, e.to)
      /\ ~Machine!Seen(o, e.id)
    BY <1>0, <1>1, <1>3, <1>4 DEF MachineCalm, SaveFits, Machine!Current
<1>6. /\ log' = [log EXCEPT ![o] = Append(s, e)]
      /\ \E c : /\ c = [pc |-> "emit", order |-> o, event |-> e]
                /\ transition' = [transition EXCEPT ![p] = c]
      /\ UNCHANGED shown
    BY <1>1, <1>3 DEF Machine!SaveEvent, Machine!Hold
<1>7. /\ log'[o] = Append(s, e)
      /\ \A q \in Orders \ {o} : log'[q] = log[q]
    BY <1>2, <1>6 DEF MachineIInv, Machine!TypeOK
<1>8. Len(log'[o]) = n + 1 /\ log'[o][n + 1] = e /\ \A i \in 1 .. n : log'[o][i] = s[i]
    BY <1>3, <1>4, <1>7
<1>9. log'[o] # <<>> /\ Machine!Current(o)' = e.to BY <1>4, <1>8 DEF Machine!Current
<1>10. \A q \in Procs \ {p} : transition[q] = Idle
    BY <1>0 DEF MachineCalm, One, MachineIInv, Machine!TypeOK
<1>11. /\ transition'[p].pc = "emit" /\ transition'[p].order = o /\ transition'[p].event = e
       /\ DOMAIN transition' = Procs
       /\ \A q \in Procs \ {p} : transition'[q] = Idle
    BY <1>6, <1>10 DEF MachineIInv, Machine!TypeOK
<1>12. One(transition)' BY <1>11 DEF One
<1>13. Machine!LogIsPath'
  <2>1. ASSUME NEW q \in Orders, NEW i \in 2 .. Len(log'[q])
        PROVE  /\ log'[q][i].from = log'[q][i - 1].to
               /\ Machine!isValidTransition(log'[q][i].from, log'[q][i].to)
               /\ log'[q][i].id # Generated =>
                    \A j \in 1 .. i - 1 : log'[q][j].id # log'[q][i].id
    <3>0. \A x \in 2 .. Len(log[q]) :
             /\ log[q][x].from = log[q][x - 1].to
             /\ Machine!isValidTransition(log[q][x].from, log[q][x].to)
             /\ log[q][x].id # Generated =>
                  \A j \in 1 .. x - 1 : log[q][j].id # log[q][x].id
        BY DEF MachineCalm, Machine!LogIsPath
    <3>1. CASE q # o
      <4>1. log'[q] = log[q] BY <1>7, <3>1
      <4> QED BY <2>1, <3>0, <4>1
    <3>2. CASE q = o /\ i # n + 1
      <4>1. i \in 2 .. n BY <1>8, <2>1, <3>2
      <4>2. \A j \in 1 .. i : log'[q][j] = log[q][j] BY <1>3, <1>8, <3>2, <4>1
      <4>3. i - 1 \in 1 .. i /\ i \in 1 .. i /\ \A j \in 1 .. i - 1 : j \in 1 .. i BY <4>1
      <4>4. i \in 2 .. Len(log[q]) BY <1>3, <1>4, <3>2, <4>1
      <4> QED BY <3>0, <4>2, <4>3, <4>4
    <3>3. CASE q = o /\ i = n + 1
      <4>1. n \in 1 .. n BY <1>4, <2>1, <3>3
      <4>2. log'[q][i] = e /\ log'[q][i - 1] = s[n] BY <1>4, <1>8, <3>3, <4>1
      <4>3. ASSUME e.id # Generated, NEW j \in 1 .. i - 1 PROVE log'[q][j].id # e.id
        <5>1. j \in 1 .. n /\ log'[q][j] = s[j] BY <1>4, <1>8, <3>3, <4>3
        <5> QED BY <1>3, <1>4, <1>5, <4>3, <5>1 DEF Machine!Seen
      <4> QED BY <1>5, <4>2, <4>3
    <3> QED BY <3>1, <3>2, <3>3
  <2> QED BY <2>1 DEF Machine!LogIsPath, Machine!isValidTransition
<1>14. \A q \in Procs : transition'[q].pc # "save" BY <1>0, <1>11
<1>15. faults' = 0 => TellingIsCurrent'
  <2> SUFFICES ASSUME faults' = 0 PROVE TellingIsCurrent'
      OBVIOUS
  <2>1. TellingIsCurrent BY DEF MachineCalm
  <2>2. \A q \in Procs : transition'[q].pc = "emit" => q = p BY <1>0, <1>11
  <2>3. \A q \in Orders : ~Telling(q) BY <1>0, <1>10 DEF Telling
  <2>4. Telling(o)' BY <1>11 DEF Telling
  <2>5. ASSUME NEW q \in Orders, log'[q] # <<>>
        PROVE  shown'[q] = Machine!Current(q)' \/ Telling(q)'
    <3>1. CASE q = o BY <2>4, <3>1
    <3>2. CASE q # o
        BY <1>6, <1>7, <2>1, <2>3, <2>5, <3>2 DEF TellingIsCurrent, Machine!Current
    <3> QED BY <3>1, <3>2
  <2>6. \A q \in Procs : transition'[q].pc = "emit" =>
            /\ log'[transition'[q].order] # <<>>
            /\ transition'[q].event.to = Machine!Current(transition[q].order)'
      BY <1>9, <1>11, <2>2 DEF Machine!Current
  <2> QED BY <2>5, <2>6 DEF TellingIsCurrent
<1> QED BY <1>12, <1>13, <1>14, <1>15 DEF MachineCalm

LEMMA EmitCalm ==
    ASSUME MachineIInv, MachineCalm, NEW p \in Procs, Machine!EmitWebSocketEvent(p),
           UNCHANGED faults
    PROVE  MachineCalm'
<1>0. transition[p].pc = "emit" /\ transition[p] # Idle /\ Idle.pc = "idle"
      /\ Machine!Idle = Idle
    BY DEF Machine!EmitWebSocketEvent, Idle, Machine!Idle
<1>1. PICK o, e : o = transition[p].order /\ e = transition[p].event OBVIOUS
<1>2. o \in Orders BY <1>0, <1>1, MachineHolds DEF MachineIInv
<1>3. /\ shown' = [shown EXCEPT ![o] = e.to] /\ UNCHANGED log
      /\ transition' = [transition EXCEPT ![p] = Idle]
    BY <1>0, <1>1 DEF Machine!EmitWebSocketEvent, Machine!Return
<1>4. \A q \in Procs \ {p} : transition[q] = Idle
    BY <1>0 DEF MachineCalm, One, MachineIInv, Machine!TypeOK
<1>5. DOMAIN transition' = Procs /\ \A q \in Procs : transition'[q] = Idle
    BY <1>3, <1>4 DEF MachineIInv, Machine!TypeOK
<1>6. One(transition)' /\ \A q \in Procs : transition'[q].pc # "save" /\ transition'[q].pc # "emit"
    BY <1>0, <1>5 DEF One
<1>7. Machine!LogIsPath' BY <1>3 DEF MachineCalm, Machine!LogIsPath
<1>8. faults' = 0 => TellingIsCurrent'
  <2> SUFFICES ASSUME faults' = 0 PROVE TellingIsCurrent'
      OBVIOUS
  <2>1. TellingIsCurrent BY DEF MachineCalm
  <2>2. e.to = Machine!Current(o) BY <1>0, <1>1, <2>1 DEF TellingIsCurrent
  <2>3. \A q \in Orders : Telling(q) => q = o BY <1>0, <1>1, <1>4 DEF Telling
  <2>4. /\ shown'[o] = e.to
        /\ \A q \in Orders \ {o} : shown'[q] = shown[q]
      BY <1>2, <1>3 DEF MachineIInv, Machine!TypeOK
  <2>5. \A q \in Orders : log[q] # <<>> => shown'[q] = Machine!Current(q)
      BY <2>1, <2>2, <2>3, <2>4 DEF TellingIsCurrent
  <2> QED BY <1>3, <1>6, <2>5 DEF TellingIsCurrent, Machine!Current
<1> QED BY <1>6, <1>7, <1>8 DEF MachineCalm

LEMMA MachineCalmStep ==
    /\ MachineIInv /\ MachineCalm /\ faults \in Nat /\ stale \in Nat
    /\ MachineNext /\ calm'
    => MachineCalm'
<1> SUFFICES ASSUME MachineIInv, MachineCalm, faults \in Nat, stale \in Nat, MachineNext, calm'
             PROVE  MachineCalm'
    OBVIOUS
<1>0. Idle.pc = "idle" /\ Machine!Idle = Idle BY DEF Idle, Machine!Idle
<1>1. ASSUME NEW p \in Procs, NEW o \in Orders, Machine!Request(p, o), UNCHANGED faults,
             BusyIn(transition) = {}
      PROVE  MachineCalm'
  <2>1. \A q \in Procs : transition[q] = Idle
      BY <1>1 DEF BusyIn, MachineIInv, Machine!TypeOK
  <2>2. Generated \in EventIds \cup {Generated} /\ transition[p].pc # "emit" BY <1>0, <2>1
  <2>3. CASE \/ Machine!HandleRestaurantOffline(p, o)
             \/ Machine!HandleRiderCancellation(p, o)
      BY <1>1, <2>1, <2>3, IntendedCalm
         DEF Machine!HandleRestaurantOffline, Machine!HandleRiderCancellation
  <2>4. CASE \/ \E to \in Machine!States, id \in EventIds \cup {Generated} :
                  Machine!TransitionState(p, o, to, id)
             \/ Machine!HandleDeliveryFailure(p, o)
      BY <1>1, <2>1, <2>2, <2>4, ValidatedCalm
         DEF Machine!TransitionState, Machine!HandleDeliveryFailure
  <2> QED BY <1>1, <2>3, <2>4 DEF Machine!Request
<1>2. ASSUME NEW p \in Procs, Machine!TransitionIntended(p), UNCHANGED faults
      PROVE  MachineCalm'
  <2>1. transition[p] # Idle /\ transition[p].pc = "transition" /\ UNCHANGED <<log, shown>>
      BY <1>0, <1>2 DEF Machine!TransitionIntended
  <2>2. PICK o, to, id : o = transition[p].order /\ to = transition[p].event.to
                         /\ id = transition[p].event.id
      OBVIOUS
  <2>3. o \in Orders /\ id \in EventIds \cup {Generated}
      BY <2>1, <2>2, MachineHolds DEF MachineIInv
  <2>4. \A q \in Procs \ {p} : transition[q] = Idle
      BY <2>1 DEF MachineCalm, One, MachineIInv, Machine!TypeOK
  <2>5. CASE Machine!Validate(p, o, to, id)
      BY <1>2, <2>1, <2>3, <2>4, <2>5, ValidatedCalm
  <2>6. CASE transition' = [transition EXCEPT ![p] = Idle]
      BY <1>0, <1>2, <2>1, <2>4, <2>6, MachineCalmHeld
  <2> QED BY <1>0, <1>2, <2>2, <2>5, <2>6 DEF Machine!TransitionIntended, Machine!Return
<1>3. ASSUME NEW p \in Procs, Machine!Error(p), faults' = faults + 1 PROVE MachineCalm'
  <2>1. /\ transition[p] # Idle /\ UNCHANGED <<log, shown>>
        /\ transition' = [transition EXCEPT ![p] = Idle]
      BY <1>0, <1>3 DEF Machine!Error, Machine!Return
  <2>2. \A q \in Procs \ {p} : transition[q] = Idle
      BY <2>1 DEF MachineCalm, One, MachineIInv, Machine!TypeOK
  <2>3. faults' # 0 BY <1>3
  <2> QED BY <1>0, <2>1, <2>2, <2>3, MachineCalmHeld
<1>4. CASE Machine!Crash /\ faults' = faults + 1
  <2>1. /\ \A q \in Procs : transition'[q] = Idle
        /\ DOMAIN transition' = Procs /\ UNCHANGED log
      BY <1>0, <1>4 DEF Machine!Crash
  <2>2. faults' # 0 BY <1>4
  <2>3. One(transition)' /\ \A q \in Procs : transition'[q].pc # "save" BY <1>0, <2>1 DEF One
  <2>4. Machine!LogIsPath' BY <2>1 DEF MachineCalm, Machine!LogIsPath
  <2> QED BY <2>2, <2>3, <2>4 DEF MachineCalm
<1>5. CASE \E p \in Procs, o \in Orders : Machine!Request(p, o)
  <2>1. CASE stale' = (IF BusyIn(transition) = {} THEN stale ELSE stale + 1) /\ stale' = 0
             /\ UNCHANGED faults
    <3>1. BusyIn(transition) = {} BY <2>1
    <3> QED BY <1>1, <1>5, <2>1, <3>1
  <2> QED BY <1>5, <2>1, <1>2, <1>3, <1>4, SaveEventCalm, EmitCalm
          DEF MachineNext, Machine!Continue, Machine!Fault, budgets
<1> QED BY <1>2, <1>3, <1>4, <1>5, SaveEventCalm, EmitCalm
        DEF MachineNext, Machine!Continue, Machine!Fault, budgets

-----------------------------------------------------------------------------
(* Events in order.                                                        *)

\* The place of an event among those asked for.
Before(list, i, j) ==
    \/ list[i].version < list[j].version
    \/ list[i].version = list[j].version /\ i <= j

Place(list, asked, i) == Cardinality({j \in asked : Before(list, j, i)})

LEMMA InOrderIs ==
    ASSUME NEW list, NEW asked
    PROVE  Sourcing!InOrder(list, asked) =
             [k \in 1 .. Cardinality(asked) |-> list[CHOOSE i \in asked : Place(list, asked, i) = k]]
BY DEF Sourcing!InOrder, Place, Before, Sourcing!Cardinality, Cardinality

\* Every place is taken.
LEMMA PlacesTaken ==
    ASSUME NEW list, NEW n \in Nat, \A i \in 1 .. n : list[i].version \in Nat,
           NEW asked \in SUBSET (1 .. n)
    PROVE  /\ Cardinality(asked) \in Nat
           /\ \A k \in 1 .. Cardinality(asked) : \E i \in asked : Place(list, asked, i) = k
<1>0. ASSUME NEW m \in asked PROVE m \in Nat /\ list[m].version \in Nat
  <2>1. m \in 1 .. n OBVIOUS
  <2> QED BY <2>1
<1> DEFINE size == Cardinality(asked)
           under(i) == {j \in asked : Before(list, j, i)}
<1>1. IsFiniteSet(asked) /\ size \in Nat
  <2>1. IsFiniteSet(1 .. n) BY FS_Interval
  <2>2. IsFiniteSet(asked) BY <2>1, FS_Subset
  <2> QED BY <2>2, FS_CardinalityType
<1>2. ASSUME NEW i \in asked
      PROVE  /\ under(i) \in SUBSET asked /\ i \in under(i)
             /\ IsFiniteSet(under(i)) /\ Cardinality(under(i)) \in 1 .. size
  <2>1. i \in 1 .. n /\ list[i].version \in Nat OBVIOUS
  <2>2. under(i) \in SUBSET asked /\ i \in under(i) BY <2>1 DEF Before
  <2> HIDE DEF under
  <2>3. IsFiniteSet(under(i)) /\ Cardinality(under(i)) <= size
      BY <1>1, <2>2, FS_Subset
  <2>4. Cardinality(under(i)) \in Nat /\ Cardinality(under(i)) # 0
      BY <2>2, <2>3, FS_CardinalityType, FS_EmptySet
  <2> QED BY <1>1, <2>2, <2>3, <2>4
<1>3. ASSUME NEW i \in asked, NEW j \in asked, i # j, Before(list, i, j)
      PROVE  Cardinality(under(i)) < Cardinality(under(j))
  <2>2. ASSUME NEW m \in under(i) PROVE m \in under(j)
    <3>1. m \in asked /\ Before(list, m, i) OBVIOUS
    <3>2. /\ m \in Nat /\ list[m].version \in Nat
          /\ i \in Nat /\ list[i].version \in Nat
          /\ j \in Nat /\ list[j].version \in Nat
        BY <1>0, <3>1
    <3>3. Before(list, m, j) BY <1>3, <3>1, <3>2 DEF Before
    <3> QED BY <3>1, <3>3
  <2>3. j \notin under(i) BY <1>0, <1>3 DEF Before
  <2>4. j \in under(j) BY <1>2
  <2>5. IsFiniteSet(under(j)) BY <1>2
  <2> HIDE DEF under
  <2>6. under(i) \in SUBSET under(j) /\ under(i) # under(j) BY <2>2, <2>3, <2>4
  <2>7. Cardinality(under(i)) <= Cardinality(under(j)) /\ Cardinality(under(i)) # Cardinality(under(j))
      BY <2>5, <2>6, FS_Subset
  <2>8. Cardinality(under(i)) \in Nat /\ Cardinality(under(j)) \in Nat
      BY <1>2, FS_CardinalityType
  <2> QED BY <2>7, <2>8
<1> DEFINE f == [i \in asked |-> Cardinality(under(i))]
<1>4. f \in [asked -> 1 .. size] BY <1>2
<1>5. ASSUME NEW i \in asked, NEW j \in asked, f[i] = f[j] PROVE i = j
  <2>1. SUFFICES ASSUME i # j PROVE FALSE OBVIOUS
  <2>2. i \in Nat /\ j \in Nat /\ list[i].version \in Nat /\ list[j].version \in Nat BY <1>0
  <2>3. Before(list, i, j) \/ Before(list, j, i) BY <2>2 DEF Before
  <2>4. f[i] \in Nat /\ f[j] \in Nat BY <1>2
  <2>5. f[i] < f[j] \/ f[j] < f[i] BY <1>3, <2>1, <2>3
  <2> HIDE DEF f
  <2> QED BY <1>5, <2>4, <2>5
<1>6. f \in Injection(asked, 1 .. size) BY <1>4, <1>5 DEF Injection, IsInjective
<1>7. IsFiniteSet(1 .. size) /\ Cardinality(1 .. size) = size BY <1>1, FS_Interval
<1>8. f \in Surjection(asked, 1 .. size)
  <2> HIDE DEF f, size
  <2>1. Cardinality(1 .. size) = Cardinality(asked) BY <1>7 DEF size
  <2> QED BY <1>1, <1>6, <1>7, <2>1, FS_Injection
<1>9. \A k \in 1 .. size : \E i \in asked : f[i] = k
  <2> HIDE DEF f
  <2> QED BY <1>8 DEF Surjection
<1>10. \A i \in asked : f[i] = Place(list, asked, i) BY DEF Place
<1> HIDE DEF f
<1> QED BY <1>1, <1>9, <1>10

LEMMA InOrderTyped ==
    ASSUME NEW list \in Seq(Sourcing!Event), NEW asked \in SUBSET (1 .. Len(list))
    PROVE  Sourcing!InOrder(list, asked) \in Seq(Sourcing!Event)
<1>1. Len(list) \in Nat /\ \A i \in 1 .. Len(list) : list[i] \in Sourcing!Event OBVIOUS
<1>2. \A i \in 1 .. Len(list) : list[i].version \in Nat BY <1>1 DEF Sourcing!Event
<1>3. /\ Cardinality(asked) \in Nat
      /\ \A k \in 1 .. Cardinality(asked) : \E i \in asked : Place(list, asked, i) = k
    BY <1>1, <1>2, PlacesTaken
<1>4. \A k \in 1 .. Cardinality(asked) :
          list[CHOOSE i \in asked : Place(list, asked, i) = k] \in Sourcing!Event
    BY <1>1, <1>3
<1> QED BY <1>3, <1>4, InOrderIs

\* The event with version i is in place i: those asked for are the last ones.
LEMMA InOrderLast ==
    ASSUME NEW list \in Seq(Sourcing!Event), \A i \in 1 .. Len(list) : list[i].version = i,
           NEW m \in 1 .. (Len(list) + 1)
    PROVE  Sourcing!InOrder(list, m .. Len(list)) =
             [k \in 1 .. (Len(list) - m + 1) |-> list[k + m - 1]]
<1> DEFINE n == Len(list)
           asked == m .. n
<1>1. n \in Nat OBVIOUS
<1>2. Cardinality(asked) = n - m + 1
  <2>1. CASE m > n
    <3>1. m = n + 1 /\ asked = {} BY <1>1, <2>1
    <3> QED BY <1>1, <3>1, FS_EmptySet
  <2>2. CASE m <= n BY <1>1, <2>2, FS_Interval
  <2> QED BY <1>1, <2>1, <2>2
<1>3. ASSUME NEW i \in asked PROVE Place(list, asked, i) = i - m + 1
  <2>1. \A j \in asked : j \in Nat /\ list[j].version = j BY <1>1
  <2>2. {j \in asked : Before(list, j, i)} = m .. i BY <1>1, <2>1 DEF Before
  <2>3. i \in Nat /\ m <= i BY <1>1
  <2>4. Cardinality(m .. i) = i - m + 1 BY <2>3, FS_Interval
  <2> QED BY <2>2, <2>4 DEF Place
<1>4. ASSUME NEW k \in 1 .. (n - m + 1) PROVE (CHOOSE i \in asked : Place(list, asked, i) = k) = k + m - 1
  <2>1. k + m - 1 \in asked /\ Place(list, asked, k + m - 1) = k BY <1>1, <1>3
  <2>2. \A i \in asked : Place(list, asked, i) = k => i = k + m - 1 BY <1>1, <1>3
  <2> HIDE DEF asked
  <2> QED BY <2>1, <2>2
<1>5. Sourcing!InOrder(list, asked) =
             [k \in 1 .. Cardinality(asked) |-> list[CHOOSE i \in asked : Place(list, asked, i) = k]]
    BY InOrderIs
<1> QED BY <1>2, <1>4, <1>5

-----------------------------------------------------------------------------
(* Replay.                                                                 *)

\* The states of an order, event by event.
Applies(r, list, n) == \A k \in 1 .. n : r[k] = Sourcing!applyEvent(r[k - 1], list[k])

History(r, list, base) ==
    /\ r \in [0 .. Len(list) -> Sourcing!State]
    /\ r[0] = base
    /\ Applies(r, list, Len(list))

\* An event applied twice is applied once.
LEMMA Applied ==
    ASSUME NEW state \in Sourcing!State, NEW e \in Sourcing!Event
    PROVE  /\ Sourcing!applyEvent(state, e) \in Sourcing!State
           /\ Sourcing!applyEvent(Sourcing!applyEvent(state, e), e) = Sourcing!applyEvent(state, e)
<1> DEFINE next == Sourcing!applyEvent(state, e)
<1>1. /\ e.kind.type \in {"order_created", "status_changed", "payment_completed", "rider_assigned"}
      /\ e.kind.type = "status_changed" => e.kind.status \in Statuses
    BY DEF Sourcing!Event, Sourcing!Kind
<1>2. state = Sourcing!NoState \/ state \in [status : Statuses, paid : BOOLEAN]
    BY DEF Sourcing!State
<1>3. "placed" \in Statuses BY StatusesAre
<1>4. CASE e.kind.type = "order_created"
  <2>1. next = [status |-> "placed", paid |-> FALSE] BY <1>4 DEF Sourcing!applyEvent
  <2>2. Sourcing!applyEvent(next, e) = [status |-> "placed", paid |-> FALSE]
      BY <1>4 DEF Sourcing!applyEvent
  <2> QED BY <1>3, <2>1, <2>2 DEF Sourcing!State
<1>5. CASE e.kind.type # "order_created" /\ state = Sourcing!NoState
  <2>1. next = state BY <1>5 DEF Sourcing!applyEvent
  <2> QED BY <2>1
<1>6. CASE state # Sourcing!NoState /\ e.kind.type = "status_changed"
  <2>1. next = [state EXCEPT !.status = e.kind.status] BY <1>6 DEF Sourcing!applyEvent
  <2>2. next = [status |-> e.kind.status, paid |-> state.paid] BY <1>2, <1>6, <2>1
  <2>3. next \in Sourcing!State BY <1>1, <1>2, <1>6, <2>2 DEF Sourcing!State
  <2>4. next = Sourcing!NoState => Sourcing!applyEvent(next, e) = next
      BY <1>6 DEF Sourcing!applyEvent
  <2>5. next # Sourcing!NoState => Sourcing!applyEvent(next, e) = [next EXCEPT !.status = e.kind.status]
      BY <1>6 DEF Sourcing!applyEvent
  <2>6. [next EXCEPT !.status = e.kind.status] = next BY <2>2
  <2> QED BY <2>3, <2>4, <2>5, <2>6
<1>7. CASE state # Sourcing!NoState /\ e.kind.type = "payment_completed"
  <2>1. next = [state EXCEPT !.paid = TRUE] BY <1>7 DEF Sourcing!applyEvent
  <2>2. next = [status |-> state.status, paid |-> TRUE] BY <1>2, <1>7, <2>1
  <2>3. next \in Sourcing!State BY <1>2, <1>7, <2>2 DEF Sourcing!State
  <2>4. next = Sourcing!NoState => Sourcing!applyEvent(next, e) = next
      BY <1>7 DEF Sourcing!applyEvent
  <2>5. next # Sourcing!NoState => Sourcing!applyEvent(next, e) = [next EXCEPT !.paid = TRUE]
      BY <1>7 DEF Sourcing!applyEvent
  <2>6. \A t : next = [status |-> state.status, paid |-> t] => [next EXCEPT !.paid = t] = next
      OBVIOUS
  <2>7. [next EXCEPT !.paid = TRUE] = next BY <2>2, <2>6
  <2> QED BY <2>3, <2>4, <2>5, <2>7
<1>8. CASE e.kind.type = "rider_assigned"
  <2>1. next = state BY <1>8 DEF Sourcing!applyEvent
  <2> QED BY <2>1
<1> QED BY <1>1, <1>4, <1>5, <1>6, <1>7, <1>8

\* Replay ends where the states event by event end.
LEMMA Replayed ==
    ASSUME NEW list \in Seq(Sourcing!Event), NEW base \in Sourcing!State
    PROVE  \E r : History(r, list, base) /\ Sourcing!Replay(base, list) = r[Len(list)]
<1> DEFINE n == Len(list)
           S == 1 .. n
           D == Sourcing!State
           c == Greatests(n)
           top(T) == CHOOSE x \in T : \A y \in T : x >= y
           round(k, d) == Sourcing!applyEvent(d, list[k])
           g == [z \in S \X D |-> round(z[1], z[2])]
           it == CHOOSE f : f = [T \in SUBSET S |-> IF T = {} THEN base ELSE round(top(T), f[T \ {top(T)}])]
<1>0. n \in Nat /\ DOMAIN list = S OBVIOUS
<1>1. Sourcing!Replay(base, list) = it[S]
    BY <1>0 DEF Sourcing!Replay, Sourcing!FoldLeft, Sourcing!MapThenFoldSet, Sourcing!Max
<1>2. \A T \in SUBSET S : T # {} => c[T] = top(T) /\ c[T] \in S /\ c[T] \in T
    BY <1>0, GreatestsChosen DEF Greatests, Chooses
<1>3. \A k \in S, d \in D : g[<<k, d>>] = round(k, d) OBVIOUS
<1>4. \A k \in S, d \in D : round(k, d) \in D
  <2>1. \A k \in S : list[k] \in Sourcing!Event OBVIOUS
  <2> HIDE DEF S, n
  <2> QED BY <2>1, Applied
<1> HIDE DEF round, top, g
<1>5. Closed(g, S, D) BY <1>3, <1>4 DEF Closed
<1>6. PICK f \in [SUBSET S -> D] : Looped(f, n, D, base, g)
  <2> HIDE DEF D, n
  <2> QED BY <1>0, <1>5, Loop DEF D
<1>7. Computes(f, S, base, c, g) /\ \E r \in [0 .. n -> D] : Runs(r, n, base, g) /\ f[S] = r[n]
    BY <1>6 DEF Looped
<1>8. PICK r \in [0 .. n -> D] : Runs(r, n, base, g) /\ f[S] = r[n] BY <1>7
<1>9. History(r, list, base)
  <2>1. ASSUME NEW k \in S PROVE r[k] = g[<<k, r[k - 1]>>] /\ r[k - 1] \in D
    <3>1. k - 1 \in 0 .. n BY <1>0
    <3> HIDE DEF n, D
    <3> QED BY <1>8, <3>1 DEF Runs
  <2>2. r[0] = base BY <1>8 DEF Runs
  <2>3. \A k \in S : r[k] = Sourcing!applyEvent(r[k - 1], list[k])
    <3> HIDE DEF S, D
    <3> QED BY <1>3, <2>1 DEF round
  <2> QED BY <2>2, <2>3 DEF History, Applies
<1> HIDE DEF c, S
<1>11. \A T \in SUBSET S : f[T] = IF T = {} THEN base ELSE round(top(T), f[T \ {top(T)}])
  <2> TAKE T \in SUBSET S
  <2>1. CASE T = {} BY <1>7, <2>1 DEF Computes
  <2>2. CASE T # {}
    <3>1. f[T] = g[<<c[T], f[T \ {c[T]}]>>] BY <1>7, <2>2 DEF Computes
    <3>2. T \ {c[T]} \in SUBSET S /\ c[T] = top(T) /\ c[T] \in S BY <1>2, <2>2
    <3>3. f[T \ {c[T]}] \in D BY <3>2
    <3> QED BY <1>3, <2>2, <3>1, <3>2, <3>3
  <2> QED BY <2>1, <2>2
<1>12. f = [T \in SUBSET S |-> IF T = {} THEN base ELSE round(top(T), f[T \ {top(T)}])] BY <1>11
<1>13. it = [T \in SUBSET S |-> IF T = {} THEN base ELSE round(top(T), it[T \ {top(T)}])] BY <1>12
<1> HIDE DEF it
<1>14. it[{}] = f[{}] BY <1>11, <1>13
<1>15. \A T \in SUBSET S : T # {} /\ it[T \ {c[T]}] = f[T \ {c[T]}] => it[T] = f[T]
  <2> SUFFICES ASSUME NEW T \in SUBSET S, T # {}, it[T \ {c[T]}] = f[T \ {c[T]}] PROVE it[T] = f[T]
      OBVIOUS
  <2>1. c[T] = top(T) BY <1>2
  <2> QED BY <1>11, <1>13, <2>1
<1>16. Chooses(c, S) /\ Alike(f, it, S, c) BY <1>2, <1>14, <1>15 DEF Chooses, Alike
<1>17. IsFiniteSet(S) BY <1>0, FS_Interval DEF S
<1>18. \A T \in SUBSET S : it[T] = f[T] BY <1>16, <1>17, RecursionUnique
<1> QED BY <1>1, <1>8, <1>9, <1>18

\* There is one history.
LEMMA OneHistory ==
    ASSUME NEW n \in Nat, NEW r, NEW q, NEW list, r[0] = q[0],
           Applies(r, list, n), Applies(q, list, n)
    PROVE  \A k \in 0 .. n : r[k] = q[k]
<1> DEFINE G == {k \in Nat : k <= n => r[k] = q[k]}
<1>1. 0 \in G OBVIOUS
<1>2. ASSUME NEW k \in Nat, k \in G PROVE k + 1 \in G
  <2>1. SUFFICES ASSUME k + 1 <= n PROVE r[k + 1] = q[k + 1] OBVIOUS
  <2>2. k + 1 \in 1 .. n /\ (k + 1) - 1 = k /\ k <= n BY <2>1
  <2>3. r[k] = q[k] BY <1>2, <2>2
  <2> QED BY <2>2, <2>3 DEF Applies
<1>3. Nat \subseteq G
  <2> HIDE DEF G
  <2> QED BY <1>1, <1>2, NumberInduction
<1> QED BY <1>3

LEMMA ReplayTyped ==
    ASSUME NEW list \in Seq(Sourcing!Event), NEW base \in Sourcing!State
    PROVE  Sourcing!Replay(base, list) \in Sourcing!State
<1>1. PICK r : History(r, list, base) /\ Sourcing!Replay(base, list) = r[Len(list)] BY Replayed
<1>2. Len(list) \in 0 .. Len(list) OBVIOUS
<1> QED BY <1>1, <1>2 DEF History, Applies

\* Replay from the state at some version, the event of that version among those
\* replayed, ends where all the events do.
LEMMA ReplayFrom ==
    ASSUME NEW list \in Seq(Sourcing!Event), \A i \in 1 .. Len(list) : list[i].version = i,
           NEW r, History(r, list, Sourcing!NoState), NEW v \in 0 .. Len(list)
    PROVE  Sourcing!Replay(r[v], Sourcing!InOrder(list, {i \in 1 .. Len(list) : list[i].version >= v}))
             = r[Len(list)]
<1> DEFINE n == Len(list)
           m == IF v = 0 THEN 1 ELSE v
           late == [k \in 1 .. (n - m + 1) |-> list[k + m - 1]]
<1>1. n \in Nat /\ m \in 1 .. (n + 1) /\ v \in Nat OBVIOUS
<1>2. {i \in 1 .. n : list[i].version >= v} = m .. n
  <2>1. \A i \in 1 .. n : list[i].version >= v <=> i >= m BY <1>1
  <2>2. \A i : i \in m .. n <=> i \in 1 .. n /\ i >= m BY <1>1
  <2> HIDE DEF m, n
  <2> QED BY <2>1, <2>2
<1>3. Sourcing!InOrder(list, m .. n) = late
  <2> HIDE DEF m
  <2> QED BY <1>1, InOrderLast
<1>4. late \in Seq(Sourcing!Event) /\ Len(late) = n - m + 1
  <2>1. n - m + 1 \in Nat BY <1>1
  <2>2. \A k \in 1 .. (n - m + 1) : k + m - 1 \in 1 .. n BY <1>1
  <2>3. \A k \in 1 .. (n - m + 1) : list[k + m - 1] \in Sourcing!Event BY <2>2
  <2> HIDE DEF n, m
  <2> QED BY <2>1, <2>3
<1>5. r[v] \in Sourcing!State BY DEF History, Applies
<1>6. PICK q : History(q, late, r[v]) /\ Sourcing!Replay(r[v], late) = q[Len(late)]
  <2> HIDE DEF late
  <2> QED BY <1>4, <1>5, Replayed
<1> DEFINE p == [k \in 0 .. (n - m + 1) |-> IF k = 0 THEN r[v] ELSE r[k + m - 1]]
<1>7. p[0] = q[0]
  <2>1. 0 \in 0 .. (n - m + 1) BY <1>1
  <2> QED BY <1>6, <2>1 DEF History, Applies
<1>8. ASSUME NEW k \in 1 .. (n - m + 1)
      PROVE  p[k] = Sourcing!applyEvent(p[k - 1], late[k]) /\ q[k] = Sourcing!applyEvent(q[k - 1], late[k])
  <2>1. q[k] = Sourcing!applyEvent(q[k - 1], late[k])
    <3> HIDE DEF late, n, m
    <3> QED BY <1>4, <1>6 DEF History, Applies
  <2>2. k + m - 1 \in 1 .. n /\ p[k] = r[k + m - 1] /\ late[k] = list[k + m - 1] BY <1>1
  <2>3. p[k] = Sourcing!applyEvent(r[k + m - 2], late[k])
    <3>1. (k + m - 1) - 1 = k + m - 2 BY <1>1
    <3> HIDE DEF p, late, n, m
    <3>2. r[k + m - 1] = Sourcing!applyEvent(r[(k + m - 1) - 1], list[k + m - 1]) BY <2>2 DEF History, Applies, n
    <3> QED BY <2>2, <3>1, <3>2
  <2>4. CASE k > 1
    <3>1. k - 1 \in 0 .. (n - m + 1) /\ k - 1 # 0 /\ (k - 1) + m - 1 = k + m - 2 BY <1>1, <2>4
    <3>2. p[k - 1] = r[k + m - 2] BY <3>1
    <3> HIDE DEF p
    <3> QED BY <2>1, <2>3, <3>2
  <2>5. CASE k = 1 /\ v = 0
    <3>1. p[k - 1] = r[v] /\ k + m - 2 = v BY <1>1, <2>5
    <3> HIDE DEF p
    <3> QED BY <2>1, <2>3, <3>1
  <2>6. CASE k = 1 /\ v # 0
    <3>1. p[k - 1] = r[v] /\ k + m - 1 = v /\ k + m - 2 = v - 1 BY <1>1, <2>6
    <3>2. r[v - 1] \in Sourcing!State /\ list[v] \in Sourcing!Event
      <4>1. v \in 1 .. n /\ v - 1 \in 0 .. n BY <1>1, <2>6
      <4> QED BY <4>1 DEF History, Applies
    <3> HIDE DEF p, late
    <3>3. r[v] = Sourcing!applyEvent(r[v - 1], list[v]) BY <2>2, <2>3, <3>1
    <3>4. Sourcing!applyEvent(r[v], list[v]) = r[v] BY <3>2, <3>3, Applied
    <3> QED BY <2>1, <2>2, <3>1, <3>4
  <2> QED BY <1>1, <2>4, <2>5, <2>6
<1>9. \A k \in 0 .. (n - m + 1) : p[k] = q[k]
  <2>1. n - m + 1 \in Nat BY <1>1
  <2> HIDE DEF p, late, n, m
  <2>2. Applies(p, late, n - m + 1) /\ Applies(q, late, n - m + 1) BY <1>8 DEF Applies
  <2> QED BY <1>7, <2>1, <2>2, OneHistory
<1>10. p[n - m + 1] = r[n]
  <2>1. n - m + 1 \in 0 .. (n - m + 1) BY <1>1
  <2>2. CASE n - m + 1 = 0
    <3>1. v = n BY <1>1, <2>2
    <3> QED BY <2>1, <2>2, <3>1
  <2>3. CASE n - m + 1 # 0
    <3>1. (n - m + 1) + m - 1 = n BY <1>1
    <3> QED BY <2>1, <2>3, <3>1
  <2> QED BY <2>2, <2>3
<1>11. n - m + 1 \in 0 .. (n - m + 1) BY <1>1
<1> HIDE DEF p, late, n, m
<1>12. Sourcing!Replay(r[v], late) = r[n] BY <1>4, <1>6, <1>9, <1>10, <1>11
<1> QED BY <1>2, <1>3, <1>12 DEF n

-----------------------------------------------------------------------------
(* Event sourcing.                                                         *)

\* A version that comes after one there is, or is the first.
Follows(o, v) == v \in Nat \ {0} /\ (v = 1 \/ v - 1 \in Sourcing!Versions(o))

\* What a publisher is about to save follows, and what a snapshot is being made
\* of is of a version there is.
SourcingKnows(c) ==
    \/ c = Idle
    \/ c.pc = "save" /\ c.order \in Orders /\ c.event \in Sourcing!Event
         /\ Follows(c.order, c.event.version)
    \/ c.pc \in {"replay", "version", "store"} /\ c.order \in Orders
         /\ c.base \in [version : Nat, state : Sourcing!State]
         /\ c.base.version \in Sourcing!Versions(c.order) \cup {0}

SourcingIInv ==
    /\ events \in [Orders -> Seq(Sourcing!Event)]
    /\ snapshot \in [Orders -> [version : Nat, state : Sourcing!State]]
    /\ publisher \in [Procs -> {Idle} \cup Sourcing!Call]
    /\ \A o \in Orders :
         /\ \E n \in Nat : Sourcing!Versions(o) = 1 .. n
         /\ snapshot[o].version \in Sourcing!Versions(o) \cup {0}
    /\ \A p \in Procs : SourcingKnows(publisher[p])

\* Version v of o was state.
WasAt(o, v, state) == \A r : History(r, events[o], Sourcing!NoState) => r[v] = state

\* A snapshot is made of the state of its version, of the latest once it has replayed.
BaseFits(c) ==
    /\ c.pc \in {"replay", "store"} => WasAt(c.order, c.base.version, c.base.state)
    /\ c.pc = "version" => WasAt(c.order, Len(events[c.order]), c.base.state)

\* One publisher at a time: versions are positions, times count the events before,
\* and a snapshot has the state of its version.
SourcingCalm ==
    /\ One(publisher)
    /\ \A o \in Orders : \A i \in 1 .. Len(events[o]) :
         events[o][i].version = i /\ events[o][i].at = i - 1
    /\ \A p \in Procs : publisher[p].pc = "save" =>
           /\ publisher[p].event.version = Len(events[publisher[p].order]) + 1
           /\ publisher[p].event.at = Len(events[publisher[p].order])
    /\ \A o \in Orders : WasAt(o, snapshot[o].version, snapshot[o].state)
    /\ \A p \in Procs : BaseFits(publisher[p])

LEMMA LatestIs ==
    ASSUME NEW o, NEW n \in Nat, Sourcing!Versions(o) = 1 .. n
    PROVE  Sourcing!GetLatestVersion(o) = n
<1>1. n \in {0} \cup 1 .. n /\ \A m \in {0} \cup 1 .. n : n >= m OBVIOUS
<1>2. \A x \in {0} \cup 1 .. n : (\A m \in {0} \cup 1 .. n : x >= m) => x = n OBVIOUS
<1>3. Sourcing!Max({0} \cup 1 .. n) = n BY <1>1, <1>2 DEF Sourcing!Max
<1> QED BY <1>3 DEF Sourcing!GetLatestVersion

LEMMA LatestFollows ==
    ASSUME SourcingIInv, NEW o \in Orders
    PROVE  /\ Sourcing!GetLatestVersion(o) \in Sourcing!Versions(o) \cup {0}
           /\ Follows(o, Sourcing!GetLatestVersion(o) + 1)
<1>1. PICK n \in Nat : Sourcing!Versions(o) = 1 .. n BY DEF SourcingIInv
<1>2. Sourcing!GetLatestVersion(o) = n BY <1>1, LatestIs
<1> QED BY <1>1, <1>2 DEF Follows

LEMMA SourcingInit == Sourcing!Init => SourcingIInv /\ SourcingCalm
<1> SUFFICES ASSUME Sourcing!Init PROVE SourcingIInv /\ SourcingCalm
    OBVIOUS
<1>1. \A o \in Orders : events[o] = <<>> BY DEF Sourcing!Init
<1>2. \A o \in Orders : Len(events[o]) = 0 BY <1>1
<1>3. \A o \in Orders : Sourcing!Versions(o) = 1 .. 0 BY <1>2 DEF Sourcing!Versions
<1>4. events \in [Orders -> Seq(Sourcing!Event)] BY DEF Sourcing!Init
<1>5. /\ publisher \in [Procs -> {Idle} \cup Sourcing!Call]
      /\ \A p \in Procs : publisher[p] = Idle /\ publisher[p].pc = "idle"
    BY DEF Sourcing!Init, Sourcing!Idle, Idle
<1>6. /\ snapshot \in [Orders -> [version : Nat, state : Sourcing!State]]
      /\ \A o \in Orders : snapshot[o].version = 0 /\ snapshot[o].state = Sourcing!NoState
  <2>1. Sourcing!NoState \in Sourcing!State BY DEF Sourcing!State
  <2> QED BY <2>1 DEF Sourcing!Init, Sourcing!NoSnapshot
<1>7. SourcingIInv BY <1>3, <1>4, <1>5, <1>6 DEF SourcingIInv, SourcingKnows
<1>8. \A o \in Orders : 1 .. Len(events[o]) = {} BY <1>2
<1>9. \A o \in Orders : WasAt(o, snapshot[o].version, snapshot[o].state)
    BY <1>6 DEF WasAt, History
<1>10. \A p \in Procs : BaseFits(publisher[p]) BY <1>5 DEF BaseFits
<1>11. SourcingCalm BY <1>5, <1>8, <1>9, <1>10 DEF SourcingCalm, One
<1> QED BY <1>7, <1>11

\* A call goes on, and nothing is saved.
LEMMA SourcingHeld ==
    ASSUME SourcingIInv, NEW p \in Procs, NEW c \in {Idle} \cup Sourcing!Call, SourcingKnows(c),
           publisher' = [publisher EXCEPT ![p] = c], UNCHANGED <<events, snapshot>>
    PROVE  SourcingIInv'
<1>1. \A o : Sourcing!Versions(o)' = Sourcing!Versions(o) BY DEF Sourcing!Versions
<1>2. \A o, v : Follows(o, v)' <=> Follows(o, v) BY <1>1 DEF Follows
<1>3. \A q \in Procs : publisher'[q] = IF q = p THEN c ELSE publisher[q] BY DEF SourcingIInv
<1>4. \A q \in Procs : SourcingKnows(publisher[q])'
    BY <1>1, <1>2, <1>3 DEF SourcingIInv, SourcingKnows
<1> QED BY <1>1, <1>4 DEF SourcingIInv

\* A publisher takes up an event that follows.
LEMMA PublishHeld ==
    ASSUME SourcingIInv, NEW p \in Procs, NEW o \in Orders, NEW v, Follows(o, v),
           NEW kind \in Sourcing!Kind, Sourcing!Publish(p, o, v, kind)
    PROVE  SourcingIInv' /\ \E c : /\ publisher' = [publisher EXCEPT ![p] = c]
                                   /\ c.pc = "save" /\ c.order = o
                                   /\ c.event.version = v /\ c.event.at = Len(events[o])
<1>1. Len(events[o]) \in Nat BY DEF SourcingIInv
<1>2. PICK e : e = [version |-> v, kind |-> kind, at |-> Len(events[o])] OBVIOUS
<1>3. e \in Sourcing!Event /\ e.version = v /\ e.at = Len(events[o])
    BY <1>1, <1>2 DEF Sourcing!Event, Follows
<1>4. PICK c : c = [pc |-> "save", order |-> o, event |-> e] OBVIOUS
<1>5. c.pc = "save" /\ c.order = o /\ c.event = e BY <1>4
<1>6. SourcingKnows(c) /\ c \in Sourcing!Call
    BY <1>3, <1>4, <1>5 DEF SourcingKnows, Sourcing!Call
<1>7. publisher' = [publisher EXCEPT ![p] = c] /\ UNCHANGED <<events, snapshot>>
    BY <1>2, <1>4 DEF Sourcing!Publish
<1> QED BY <1>3, <1>5, <1>6, <1>7, SourcingHeld

\* Which version an event is published with.
LEMMA PublishedVersion ==
    ASSUME SourcingIInv, NEW p \in Procs, NEW o \in Orders, Sourcing!Publishes(p, o)
    PROVE  \E v, kind : /\ kind \in Sourcing!Kind
                        /\ Sourcing!Publish(p, o, v, kind)
                        /\ \/ events[o] = <<>> /\ v = 1
                           \/ v = Sourcing!GetLatestVersion(o) + 1
<1>1. ASSUME Sourcing!PublishOrderCreatedEvent(p, o)
      PROVE  [type |-> "order_created"] \in Sourcing!Kind
             /\ events[o] = <<>> /\ Sourcing!Publish(p, o, 1, [type |-> "order_created"])
    BY <1>1 DEF Sourcing!PublishOrderCreatedEvent, Sourcing!Kind
<1>2. ASSUME NEW kind \in Sourcing!Kind, Sourcing!PublishNext(p, o, kind)
      PROVE  Sourcing!Publish(p, o, Sourcing!GetLatestVersion(o) + 1, kind)
    BY <1>2 DEF Sourcing!PublishNext
<1>3. /\ \A s \in Statuses : [type |-> "status_changed", status |-> s] \in Sourcing!Kind
      /\ [type |-> "payment_completed"] \in Sourcing!Kind
      /\ [type |-> "rider_assigned"] \in Sourcing!Kind
    BY DEF Sourcing!Kind
<1>4. CASE Sourcing!PublishOrderCreatedEvent(p, o) BY <1>1, <1>4
<1>5. CASE \E kind \in Sourcing!Kind : Sourcing!PublishNext(p, o, kind) BY <1>2, <1>5
<1>6. Sourcing!PublishOrderCreatedEvent(p, o)
      \/ \E kind \in Sourcing!Kind : Sourcing!PublishNext(p, o, kind)
    BY <1>3 DEF Sourcing!Publishes, Sourcing!PublishStatusChangedEvent,
                Sourcing!PublishPaymentCompletedEvent, Sourcing!PublishRiderAssignedEvent
<1> QED BY <1>4, <1>5, <1>6

LEMMA SavedVersion ==
    ASSUME SourcingIInv, NEW p \in Procs, Sourcing!SaveEvent(p)
    PROVE  \E o, e :
              /\ o \in Orders /\ e \in Sourcing!Event /\ Follows(o, e.version)
              /\ o = publisher[p].order /\ e = publisher[p].event
              /\ events' = [events EXCEPT ![o] = Append(events[o], e)]
              /\ publisher' = [publisher EXCEPT ![p] = Idle] /\ UNCHANGED snapshot
              /\ Len(events'[o]) = Len(events[o]) + 1
              /\ events'[o][Len(events[o]) + 1] = e
              /\ \A i \in 1 .. Len(events[o]) : events'[o][i] = events[o][i]
              /\ \A q \in Orders \ {o} : events'[q] = events[q]
<1>1. publisher[p].pc = "save" /\ Idle.pc = "idle" BY DEF Sourcing!SaveEvent, Idle
<1>2. PICK o, e : o = publisher[p].order /\ e = publisher[p].event OBVIOUS
<1>3. o \in Orders /\ e \in Sourcing!Event /\ Follows(o, e.version)
    BY <1>1, <1>2 DEF SourcingIInv, SourcingKnows
<1>4. PICK s \in Seq(Sourcing!Event) : s = events[o] BY <1>3 DEF SourcingIInv
<1>5. /\ events' = [events EXCEPT ![o] = Append(s, e)]
      /\ publisher' = [publisher EXCEPT ![p] = Idle] /\ UNCHANGED snapshot
    BY <1>2, <1>4 DEF Sourcing!SaveEvent, Sourcing!Return, Sourcing!Idle, Idle
<1>6. events'[o] = Append(s, e) /\ \A q \in Orders \ {o} : events'[q] = events[q]
    BY <1>3, <1>5 DEF SourcingIInv
<1>7. /\ Len(Append(s, e)) = Len(s) + 1 /\ Append(s, e)[Len(s) + 1] = e
      /\ \A i \in 1 .. Len(s) : Append(s, e)[i] = s[i]
    BY <1>3, <1>4
<1>8. /\ Len(events'[o]) = Len(events[o]) + 1
      /\ events'[o][Len(events[o]) + 1] = e
      /\ \A i \in 1 .. Len(events[o]) : events'[o][i] = events[o][i]
    BY <1>4, <1>6, <1>7
<1>9. events' = [events EXCEPT ![o] = Append(events[o], e)] BY <1>4, <1>5
<1> QED BY <1>2, <1>3, <1>5, <1>6, <1>8, <1>9

LEMMA SaveHeld ==
    ASSUME SourcingIInv, NEW p \in Procs, Sourcing!SaveEvent(p)
    PROVE  SourcingIInv'
<1>1. PICK o, e :
          /\ o \in Orders /\ e \in Sourcing!Event /\ Follows(o, e.version)
          /\ events' = [events EXCEPT ![o] = Append(events[o], e)]
          /\ publisher' = [publisher EXCEPT ![p] = Idle] /\ UNCHANGED snapshot
          /\ Len(events'[o]) = Len(events[o]) + 1
          /\ events'[o][Len(events[o]) + 1] = e
          /\ \A i \in 1 .. Len(events[o]) : events'[o][i] = events[o][i]
          /\ \A q \in Orders \ {o} : events'[q] = events[q]
    BY SavedVersion
<1>2. Len(events[o]) \in Nat BY <1>1 DEF SourcingIInv
<1>3. Sourcing!Versions(o)' = Sourcing!Versions(o) \cup {e.version}
  <2>1. 1 .. Len(events'[o]) = 1 .. Len(events[o]) \cup {Len(events[o]) + 1} BY <1>1, <1>2
  <2> QED BY <1>1, <2>1 DEF Sourcing!Versions
<1>4. \A q \in Orders \ {o} : Sourcing!Versions(q)' = Sourcing!Versions(q)
    BY <1>1 DEF Sourcing!Versions
<1>5. \A q \in Orders : Sourcing!Versions(q) \subseteq Sourcing!Versions(q)' BY <1>3, <1>4
<1>6. \A q \in Orders : \E n \in Nat : Sourcing!Versions(q)' = 1 .. n
  <2>1. PICK n \in Nat : Sourcing!Versions(o) = 1 .. n BY <1>1 DEF SourcingIInv
  <2>2. e.version \in 1 .. n + 1 BY <1>1, <2>1 DEF Follows
  <2>3. Sourcing!Versions(o)' = 1 .. n \/ Sourcing!Versions(o)' = 1 .. n + 1
      BY <1>3, <2>1, <2>2
  <2> QED BY <1>4, <2>1, <2>3 DEF SourcingIInv
<1>7. \A q \in Orders : \A v : Follows(q, v) => Follows(q, v)' BY <1>5 DEF Follows
<1>8. \A q \in Procs : SourcingKnows(publisher[q])'
  <2>1. \A q \in Procs : publisher'[q] = IF q = p THEN Idle ELSE publisher[q]
      BY <1>1 DEF SourcingIInv
  <2> QED BY <1>5, <1>7, <2>1 DEF SourcingIInv, SourcingKnows
<1>9. events' \in [Orders -> Seq(Sourcing!Event)] BY <1>1 DEF SourcingIInv
<1>10. publisher' \in [Procs -> {Idle} \cup Sourcing!Call] BY <1>1 DEF SourcingIInv
<1> QED BY <1>1, <1>5, <1>6, <1>8, <1>9, <1>10 DEF SourcingIInv

\* A snapshot takes up a version there is.
LEMMA BaseHeld ==
    ASSUME SourcingIInv, NEW p \in Procs, NEW o \in Orders, NEW pc \in {"replay", "version", "store"},
           NEW v \in Sourcing!Versions(o) \cup {0}, NEW state \in Sourcing!State,
           Sourcing!Base(p, o, pc, v, state)
    PROVE  SourcingIInv' /\ \E c : /\ publisher' = [publisher EXCEPT ![p] = c]
                                   /\ c.pc = pc /\ c.order = o
                                   /\ c.base.version = v /\ c.base.state = state
<1>0. v \in Nat
  <2>1. PICK n \in Nat : Sourcing!Versions(o) = 1 .. n BY DEF SourcingIInv
  <2> QED BY <2>1
<1>1. PICK base : base = [version |-> v, state |-> state] OBVIOUS
<1>2. PICK c : c = [pc |-> pc, order |-> o, base |-> base] OBVIOUS
<1>3. /\ c.pc = pc /\ c.order = o /\ c.base = base
      /\ c.base.version = v /\ c.base.state = state
      /\ base \in [version : Nat, state : Sourcing!State]
    BY <1>0, <1>1, <1>2
<1>4. SourcingKnows(c) /\ c \in Sourcing!Call BY <1>2, <1>3 DEF SourcingKnows, Sourcing!Call
<1>5. publisher' = [publisher EXCEPT ![p] = c] /\ UNCHANGED <<events, snapshot>>
    BY <1>1, <1>2 DEF Sourcing!Base
<1> QED BY <1>3, <1>4, <1>5, SourcingHeld

\* What a snapshot takes up next.
Based(p, o, pc, v, state) ==
    \/ /\ pc = "replay"
       /\ \/ v = snapshot[o].version /\ state = snapshot[o].state
          \/ v = 0 /\ state = Sourcing!NoState
    \/ /\ pc = "version" /\ publisher[p].pc = "replay" /\ o = publisher[p].order
       /\ v = publisher[p].base.version
       /\ state = Sourcing!Replay(publisher[p].base.state, Sourcing!GetEvents(o, v))
    \/ /\ pc = "store" /\ publisher[p].pc = "version" /\ o = publisher[p].order
       /\ v = Sourcing!GetLatestVersion(o)
       /\ state = publisher[p].base.state

\* A step of a snapshot, up to the one that stores it.
LEMMA SnapshotsHeld ==
    ASSUME SourcingIInv, NEW p \in Procs,
           \/ \E o \in Orders : Sourcing!Snapshots(p, o)
           \/ Sourcing!ReplayEvents(p)
           \/ Sourcing!ReadVersion(p)
    PROVE  /\ SourcingIInv' /\ UNCHANGED <<events, snapshot>>
           /\ \E c : /\ publisher' = [publisher EXCEPT ![p] = c]
                     /\ c.pc \in {"replay", "version", "store"} /\ c.order \in Orders
                     /\ Based(p, c.order, c.pc, c.base.version, c.base.state)
<1>1. Idle.pc = "idle" BY DEF Idle
<1>2. PICK o, v, pc, state :
          /\ o \in Orders /\ v \in Sourcing!Versions(o) \cup {0}
          /\ pc \in {"replay", "version", "store"} /\ state \in Sourcing!State
          /\ Based(p, o, pc, v, state) /\ Sourcing!Base(p, o, pc, v, state)
  <2>1. ASSUME NEW o \in Orders, Sourcing!GetLatestSnapshot(p, o)
        PROVE  /\ snapshot[o].version \in Sourcing!Versions(o) \cup {0}
               /\ snapshot[o].state \in Sourcing!State
               /\ Based(p, o, "replay", snapshot[o].version, snapshot[o].state)
               /\ Sourcing!Base(p, o, "replay", snapshot[o].version, snapshot[o].state)
      BY <2>1 DEF SourcingIInv, Sourcing!GetLatestSnapshot, Based
  <2>2. ASSUME NEW o \in Orders, Sourcing!SnapshotLookupError(p, o)
        PROVE  /\ 0 \in Sourcing!Versions(o) \cup {0} /\ Sourcing!NoState \in Sourcing!State
               /\ Based(p, o, "replay", 0, Sourcing!NoState)
               /\ Sourcing!Base(p, o, "replay", 0, Sourcing!NoState)
      BY <2>2 DEF Sourcing!SnapshotLookupError, Sourcing!State, Based
  <2>3. ASSUME Sourcing!ReplayEvents(p)
        PROVE  \E o, v, state : /\ o \in Orders /\ v \in Sourcing!Versions(o) \cup {0}
                                /\ state \in Sourcing!State
                                /\ Based(p, o, "version", v, state)
                                /\ Sourcing!Base(p, o, "version", v, state)
    <3>1. PICK o, v, from : /\ o = publisher[p].order /\ v = publisher[p].base.version
                            /\ from = publisher[p].base.state
        OBVIOUS
    <3>2. /\ o \in Orders /\ v \in Sourcing!Versions(o) \cup {0} /\ from \in Sourcing!State
          /\ publisher[p].pc = "replay"
        BY <1>1, <2>3, <3>1 DEF Sourcing!ReplayEvents, SourcingIInv, SourcingKnows
    <3>3. PICK state : state = Sourcing!Replay(from, Sourcing!GetEvents(o, v)) OBVIOUS
    <3>4. Sourcing!GetEvents(o, v) \in Seq(Sourcing!Event)
      <4>1. events[o] \in Seq(Sourcing!Event) BY <3>2 DEF SourcingIInv
      <4> QED BY <4>1, InOrderTyped DEF Sourcing!GetEvents
    <3>5. state \in Sourcing!State BY <3>2, <3>3, <3>4, ReplayTyped
    <3>6. Sourcing!Base(p, o, "version", v, state)
        BY <2>3, <3>1, <3>3 DEF Sourcing!ReplayEvents
    <3>7. Based(p, o, "version", v, state) BY <3>1, <3>2, <3>3 DEF Based
    <3> QED BY <3>2, <3>5, <3>6, <3>7
  <2>4. ASSUME Sourcing!ReadVersion(p)
        PROVE  \E o, v, state : /\ o \in Orders /\ v \in Sourcing!Versions(o) \cup {0}
                                /\ state \in Sourcing!State
                                /\ Based(p, o, "store", v, state)
                                /\ Sourcing!Base(p, o, "store", v, state)
    <3>1. PICK o, state : o = publisher[p].order /\ state = publisher[p].base.state OBVIOUS
    <3>2. o \in Orders /\ state \in Sourcing!State /\ publisher[p].pc = "version"
        BY <1>1, <2>4, <3>1 DEF Sourcing!ReadVersion, SourcingIInv, SourcingKnows
    <3>3. Sourcing!Base(p, o, "store", Sourcing!GetLatestVersion(o), state)
        BY <2>4, <3>1 DEF Sourcing!ReadVersion
    <3>4. Based(p, o, "store", Sourcing!GetLatestVersion(o), state) BY <3>1, <3>2 DEF Based
    <3> QED BY <3>2, <3>3, <3>4, LatestFollows
  <2>5. CASE \E o \in Orders : Sourcing!GetLatestSnapshot(p, o) BY <2>1, <2>5
  <2>6. CASE \E o \in Orders : Sourcing!SnapshotLookupError(p, o) BY <2>2, <2>6
  <2>7. CASE Sourcing!ReplayEvents(p) BY <2>3, <2>7
  <2>8. CASE Sourcing!ReadVersion(p) BY <2>4, <2>8
  <2> QED BY <2>5, <2>6, <2>7, <2>8 DEF Sourcing!Snapshots
<1>3. UNCHANGED <<events, snapshot>> BY <1>2 DEF Sourcing!Base
<1>4. SourcingIInv' /\ \E c : /\ publisher' = [publisher EXCEPT ![p] = c]
                              /\ c.pc = pc /\ c.order = o
                              /\ c.base.version = v /\ c.base.state = state
    BY <1>2, BaseHeld
<1> QED BY <1>2, <1>3, <1>4

LEMMA SnapshotHeld ==
    ASSUME SourcingIInv, NEW p \in Procs, Sourcing!SaveSnapshot(p)
    PROVE  /\ SourcingIInv' /\ UNCHANGED events
           /\ publisher' = [publisher EXCEPT ![p] = Idle]
           /\ \E o \in Orders : /\ snapshot' = [snapshot EXCEPT ![o] = publisher[p].base]
                                /\ o = publisher[p].order /\ publisher[p].pc = "store"
<1>1. publisher[p].pc = "store" /\ Idle.pc = "idle" BY DEF Sourcing!SaveSnapshot, Idle
<1>2. PICK o, base : o = publisher[p].order /\ base = publisher[p].base OBVIOUS
<1>3. /\ o \in Orders /\ base.version \in Sourcing!Versions(o) \cup {0}
      /\ base \in [version : Nat, state : Sourcing!State]
    BY <1>1, <1>2 DEF SourcingIInv, SourcingKnows
<1>4. /\ snapshot' = [snapshot EXCEPT ![o] = base] /\ UNCHANGED events
      /\ publisher' = [publisher EXCEPT ![p] = Idle]
    BY <1>2 DEF Sourcing!SaveSnapshot, Sourcing!Return, Sourcing!Idle, Idle
<1>5. \A q : Sourcing!Versions(q)' = Sourcing!Versions(q) BY <1>4 DEF Sourcing!Versions
<1>6. \A q, v : Follows(q, v)' <=> Follows(q, v) BY <1>5 DEF Follows
<1>7. \A q \in Procs : publisher'[q] = IF q = p THEN Idle ELSE publisher[q]
    BY <1>4 DEF SourcingIInv
<1>8. \A q \in Procs : SourcingKnows(publisher[q])'
    BY <1>5, <1>6, <1>7 DEF SourcingIInv, SourcingKnows
<1>9. \A q \in Orders : snapshot'[q].version \in Sourcing!Versions(q)' \cup {0}
    BY <1>3, <1>4, <1>5 DEF SourcingIInv
<1>10. /\ snapshot' \in [Orders -> [version : Nat, state : Sourcing!State]]
       /\ publisher' \in [Procs -> {Idle} \cup Sourcing!Call]
    BY <1>3, <1>4 DEF SourcingIInv
<1>11. SourcingIInv' BY <1>4, <1>5, <1>8, <1>9, <1>10 DEF SourcingIInv
<1> QED BY <1>1, <1>2, <1>3, <1>4, <1>11

LEMMA SourcingStep == SourcingIInv /\ Sourcing!Next => SourcingIInv'
<1> SUFFICES ASSUME SourcingIInv, Sourcing!Next PROVE SourcingIInv'
    OBVIOUS
<1>1. ASSUME NEW p \in Procs, NEW o \in Orders, Sourcing!Publishes(p, o) PROVE SourcingIInv'
  <2>1. PICK v, kind :
            /\ kind \in Sourcing!Kind /\ Sourcing!Publish(p, o, v, kind)
            /\ v = 1 \/ v = Sourcing!GetLatestVersion(o) + 1
      BY <1>1, PublishedVersion
  <2>2. Follows(o, v) BY <2>1, LatestFollows DEF Follows
  <2> QED BY <2>1, <2>2, PublishHeld
<1>2. ASSUME NEW p \in Procs, Sourcing!Stop(p) PROVE SourcingIInv'
  <2>1. SourcingKnows(Idle) BY DEF SourcingKnows
  <2>2. publisher' = [publisher EXCEPT ![p] = Idle] /\ UNCHANGED <<events, snapshot>>
      BY <1>2 DEF Sourcing!Stop, Sourcing!Return, Sourcing!Idle, Idle
  <2> QED BY <2>1, <2>2, SourcingHeld
<1> QED BY <1>1, <1>2, SaveHeld, SnapshotsHeld, SnapshotHeld
        DEF Sourcing!Next, Sourcing!Continue

\* While versions are positions, what a version was it is when more is saved.
LEMMA WasStays ==
    ASSUME SourcingIInv, NEW p \in Procs, Sourcing!SaveEvent(p),
           NEW q \in Orders, NEW v \in 0 .. Len(events[q]), NEW state, WasAt(q, v, state)
    PROVE  WasAt(q, v, state)'
<1>1. PICK o :
          /\ o \in Orders
          /\ Len(events'[o]) = Len(events[o]) + 1
          /\ \A i \in 1 .. Len(events[o]) : events'[o][i] = events[o][i]
          /\ \A b \in Orders \ {o} : events'[b] = events[b]
    BY SavedVersion
<1>2. CASE q # o BY <1>1, <1>2 DEF WasAt
<1>3. CASE q = o
  <2> SUFFICES ASSUME NEW r, History(r, events'[o], Sourcing!NoState) PROVE r[v] = state
      BY <1>3 DEF WasAt
  <2> DEFINE n == Len(events[o])
             h == [k \in 0 .. n |-> r[k]]
  <2>1. n \in Nat BY <1>1 DEF SourcingIInv
  <2>2. \A k \in 0 .. n : k \in 0 .. n + 1 /\ h[k] = r[k] /\ r[k] \in Sourcing!State
      BY <1>1, <2>1 DEF History
  <2>3. \A k \in 1 .. n : h[k] = Sourcing!applyEvent(h[k - 1], events[o][k])
    <3> SUFFICES ASSUME NEW k \in 1 .. n PROVE h[k] = Sourcing!applyEvent(h[k - 1], events[o][k])
        OBVIOUS
    <3>1. k \in 1 .. Len(events'[o]) /\ k \in 0 .. n /\ k - 1 \in 0 .. n BY <1>1, <2>1
    <3>2. r[k] = Sourcing!applyEvent(r[k - 1], events'[o][k]) BY <3>1 DEF History, Applies
    <3>3. h[k] = r[k] /\ h[k - 1] = r[k - 1] BY <3>1
    <3> HIDE DEF h
    <3> QED BY <1>1, <3>2, <3>3
  <2>4. h[0] = Sourcing!NoState BY <2>1, <2>2 DEF History
  <2>5. h \in [0 .. n -> Sourcing!State] BY <2>2
  <2> HIDE DEF h
  <2>6. History(h, events[o], Sourcing!NoState) BY <2>3, <2>4, <2>5 DEF History, Applies
  <2>7. h[v] = state BY <1>3, <2>6 DEF WasAt
  <2> QED BY <1>3, <2>2, <2>7
<1> QED BY <1>2, <1>3

\* What a snapshot takes up fits.
LEMMA BasedFits ==
    ASSUME SourcingIInv, SourcingCalm, NEW p \in Procs, NEW c,
           c.pc \in {"replay", "version", "store"}, c.order \in Orders,
           Based(p, c.order, c.pc, c.base.version, c.base.state)
    PROVE  BaseFits(c)
<1> DEFINE o == c.order
           v == c.base.version
<1>1. Len(events[o]) \in Nat /\ events[o] \in Seq(Sourcing!Event) BY DEF SourcingIInv
<1>2. Sourcing!Versions(o) = 1 .. Len(events[o]) BY DEF Sourcing!Versions, SourcingCalm
<1>3. Idle.pc = "idle" BY DEF Idle
<1>4. CASE c.pc = "replay"
  <2>1. WasAt(o, snapshot[o].version, snapshot[o].state) BY DEF SourcingCalm
  <2>2. WasAt(o, 0, Sourcing!NoState) BY DEF WasAt, History
  <2> QED BY <1>4, <2>1, <2>2 DEF Based, BaseFits
<1>5. CASE c.pc = "version"
  <2>1. PICK from : from = publisher[p].base.state OBVIOUS
  <2>2. /\ publisher[p].pc = "replay" /\ o = publisher[p].order /\ v = publisher[p].base.version
        /\ c.base.state = Sourcing!Replay(from, Sourcing!GetEvents(o, v))
      BY <1>5, <2>1 DEF Based
  <2>3. WasAt(o, v, from) BY <2>1, <2>2 DEF SourcingCalm, BaseFits
  <2>4. v \in 0 .. Len(events[o])
    <3>1. v \in Sourcing!Versions(o) \cup {0} BY <1>3, <2>2 DEF SourcingIInv, SourcingKnows
    <3> QED BY <1>1, <1>2, <3>1
  <2>5. \A i \in 1 .. Len(events[o]) : events[o][i].version = i BY DEF SourcingCalm
  <2>6. ASSUME NEW r, History(r, events[o], Sourcing!NoState)
        PROVE  r[Len(events[o])] = c.base.state
    <3>1. r[v] = from BY <2>3, <2>6 DEF WasAt
    <3> HIDE DEF o, v
    <3>2. Sourcing!Replay(r[v], Sourcing!GetEvents(o, v)) = r[Len(events[o])]
        BY <1>1, <2>4, <2>5, <2>6, ReplayFrom DEF Sourcing!GetEvents
    <3> QED BY <2>2, <3>1, <3>2
  <2>7. WasAt(o, Len(events[o]), c.base.state) BY <2>6 DEF WasAt
  <2> QED BY <1>5, <2>7 DEF BaseFits
<1>6. CASE c.pc = "store"
  <2>1. /\ publisher[p].pc = "version" /\ o = publisher[p].order
        /\ v = Sourcing!GetLatestVersion(o) /\ c.base.state = publisher[p].base.state
      BY <1>6 DEF Based
  <2>2. v = Len(events[o]) BY <1>1, <1>2, <2>1, LatestIs
  <2>3. WasAt(o, Len(events[o]), c.base.state) BY <2>1 DEF SourcingCalm, BaseFits
  <2> QED BY <1>6, <2>2, <2>3 DEF BaseFits
<1> QED BY <1>4, <1>5, <1>6

LEMMA SourcingCalmStep ==
    SourcingIInv /\ SourcingCalm /\ calm' /\ SourcingNext => SourcingCalm'
<1> SUFFICES ASSUME SourcingIInv, SourcingCalm, calm', SourcingNext PROVE SourcingCalm'
    OBVIOUS
<1>0. One(publisher)' /\ Idle.pc = "idle" BY DEF SourcingNext, CalmAfter, Idle, One
<1>1. ASSUME NEW p \in Procs, NEW c, publisher' = [publisher EXCEPT ![p] = c], UNCHANGED events,
             c.pc = "save" => /\ c.event.version = Len(events[c.order]) + 1
                              /\ c.event.at = Len(events[c.order]),
             BaseFits(c),
             \A o \in Orders : WasAt(o, snapshot'[o].version, snapshot'[o].state)
      PROVE  SourcingCalm'
  <2>1. \A q \in Procs : publisher'[q] = IF q = p THEN c ELSE publisher[q]
      BY <1>1 DEF SourcingIInv
  <2>2. \A o, v, state : WasAt(o, v, state) => WasAt(o, v, state)' BY <1>1 DEF WasAt
  <2>3. \A q \in Procs : BaseFits(publisher[q]) BY DEF SourcingCalm
  <2>4. \A q \in Procs : BaseFits(publisher[q])'
    <3> SUFFICES ASSUME NEW q \in Procs PROVE BaseFits(publisher[q])' OBVIOUS
    <3>1. CASE q = p BY <1>1, <2>1, <2>2, <3>1 DEF BaseFits
    <3>2. CASE q # p BY <1>1, <2>1, <2>2, <2>3, <3>2 DEF BaseFits
    <3> QED BY <3>1, <3>2
  <2>5. \A o \in Orders : WasAt(o, snapshot[o].version, snapshot[o].state)'
      BY <1>1 DEF WasAt
  <2> QED BY <1>0, <1>1, <2>1, <2>4, <2>5 DEF SourcingCalm
<1>2. ASSUME NEW p \in Procs, NEW o \in Orders, Sourcing!Publishes(p, o) PROVE SourcingCalm'
  <2>1. PICK v, kind :
            /\ kind \in Sourcing!Kind /\ Sourcing!Publish(p, o, v, kind)
            /\ (events[o] = <<>> /\ v = 1) \/ v = Sourcing!GetLatestVersion(o) + 1
      BY <1>2, PublishedVersion
  <2>2. Len(events[o]) \in Nat BY DEF SourcingIInv
  <2>3. Sourcing!Versions(o) = 1 .. Len(events[o])
      BY DEF Sourcing!Versions, SourcingCalm
  <2>4. v = Len(events[o]) + 1 BY <2>1, <2>2, <2>3, LatestIs
  <2>5. Follows(o, v) BY <2>2, <2>3, <2>4 DEF Follows
  <2>6. PICK c : /\ publisher' = [publisher EXCEPT ![p] = c]
                 /\ c.pc = "save" /\ c.order = o
                 /\ c.event.version = v /\ c.event.at = Len(events[o])
      BY <2>1, <2>5, PublishHeld
  <2>7. UNCHANGED <<events, snapshot>> BY <2>1 DEF Sourcing!Publish
  <2>8. BaseFits(c) BY <2>6 DEF BaseFits
  <2>9. \A q \in Orders : WasAt(q, snapshot'[q].version, snapshot'[q].state)
      BY <2>7 DEF SourcingCalm
  <2> QED BY <1>1, <2>4, <2>6, <2>7, <2>8, <2>9
<1>3. ASSUME NEW p \in Procs, Sourcing!SaveEvent(p) PROVE SourcingCalm'
  <2>1. PICK o, e :
          /\ o \in Orders /\ o = publisher[p].order /\ e = publisher[p].event
          /\ publisher' = [publisher EXCEPT ![p] = Idle] /\ UNCHANGED snapshot
          /\ Len(events'[o]) = Len(events[o]) + 1
          /\ events'[o][Len(events[o]) + 1] = e
          /\ \A i \in 1 .. Len(events[o]) : events'[o][i] = events[o][i]
          /\ \A q \in Orders \ {o} : events'[q] = events[q]
      BY <1>3, SavedVersion
  <2>2. publisher[p].pc = "save" /\ publisher[p] # Idle BY <1>0, <1>3 DEF Sourcing!SaveEvent
  <2>3. e.version = Len(events[o]) + 1 /\ e.at = Len(events[o])
      BY <2>1, <2>2 DEF SourcingCalm
  <2>4. \A q \in Procs : publisher'[q].pc = "idle"
      BY <1>0, <2>1, <2>2 DEF SourcingIInv, SourcingCalm, One
  <2>5. Len(events[o]) \in Nat BY <2>1 DEF SourcingIInv
  <2>6. \A q \in Orders : \A i \in 1 .. Len(events'[q]) :
            events'[q][i].version = i /\ events'[q][i].at = i - 1
    <3>1. \A i \in 1 .. Len(events'[o]) : i \in 1 .. Len(events[o]) \/ i = Len(events[o]) + 1
        BY <2>1, <2>5
    <3>2. (Len(events[o]) + 1) - 1 = Len(events[o]) BY <2>5
    <3>3. \A i \in 1 .. Len(events'[o]) : events'[o][i].version = i /\ events'[o][i].at = i - 1
      <4> SUFFICES ASSUME NEW i \in 1 .. Len(events'[o])
                   PROVE  events'[o][i].version = i /\ events'[o][i].at = i - 1
          OBVIOUS
      <4>1. CASE i \in 1 .. Len(events[o]) BY <2>1, <4>1 DEF SourcingCalm
      <4>2. CASE i = Len(events[o]) + 1 BY <2>1, <2>3, <3>2, <4>2
      <4> QED BY <3>1, <4>1, <4>2
    <3> QED BY <2>1, <3>3 DEF SourcingCalm
  <2>7. ASSUME NEW q \in Orders PROVE WasAt(q, snapshot[q].version, snapshot[q].state)'
    <3>1. Len(events[q]) \in Nat BY DEF SourcingIInv
    <3>6. Sourcing!Versions(q) = 1 .. Len(events[q]) BY DEF Sourcing!Versions, SourcingCalm
    <3>2. snapshot[q].version \in Sourcing!Versions(q) \cup {0} BY DEF SourcingIInv
    <3>3. PICK v, state : v = snapshot[q].version /\ state = snapshot[q].state OBVIOUS
    <3>4. v \in 0 .. Len(events[q]) /\ WasAt(q, v, state) BY <3>1, <3>2, <3>3, <3>6 DEF SourcingCalm
    <3>5. WasAt(q, v, state)' BY <1>3, <3>4, WasStays
    <3> QED BY <2>1, <3>3, <3>5 DEF WasAt
  <2>8. \A q \in Procs : BaseFits(publisher[q])' BY <2>4 DEF BaseFits
  <2> QED BY <1>0, <2>4, <2>6, <2>7, <2>8 DEF SourcingCalm
<1>4. ASSUME NEW p \in Procs, Sourcing!Stop(p) PROVE SourcingCalm'
  <2>1. publisher' = [publisher EXCEPT ![p] = Idle] /\ UNCHANGED <<events, snapshot>>
      BY <1>4 DEF Sourcing!Stop, Sourcing!Return, Sourcing!Idle, Idle
  <2>2. BaseFits(Idle) BY <1>0 DEF BaseFits
  <2>3. \A q \in Orders : WasAt(q, snapshot'[q].version, snapshot'[q].state)
      BY <2>1 DEF SourcingCalm
  <2> QED BY <1>0, <1>1, <2>1, <2>2, <2>3
<1>5. ASSUME NEW p \in Procs, Sourcing!SaveSnapshot(p) PROVE SourcingCalm'
  <2>1. publisher' = [publisher EXCEPT ![p] = Idle] /\ UNCHANGED events BY <1>5, SnapshotHeld
  <2>2. PICK o \in Orders : /\ snapshot' = [snapshot EXCEPT ![o] = publisher[p].base]
                            /\ o = publisher[p].order /\ publisher[p].pc = "store"
      BY <1>5, SnapshotHeld
  <2>3. BaseFits(Idle) BY <1>0 DEF BaseFits
  <2>4. WasAt(o, publisher[p].base.version, publisher[p].base.state)
      BY <2>2 DEF SourcingCalm, BaseFits
  <2>5. \A q \in Orders : snapshot'[q] = IF q = o THEN publisher[p].base ELSE snapshot[q]
      BY <2>2 DEF SourcingIInv
  <2>6. \A q \in Orders : WasAt(q, snapshot'[q].version, snapshot'[q].state)
      BY <2>4, <2>5 DEF SourcingCalm
  <2> QED BY <1>0, <1>1, <2>1, <2>3, <2>6
<1>6. ASSUME NEW p \in Procs,
             \/ \E o \in Orders : Sourcing!Snapshots(p, o)
             \/ Sourcing!ReplayEvents(p)
             \/ Sourcing!ReadVersion(p)
      PROVE  SourcingCalm'
  <2>1. PICK c : /\ publisher' = [publisher EXCEPT ![p] = c]
                 /\ c.pc \in {"replay", "version", "store"} /\ c.order \in Orders
                 /\ Based(p, c.order, c.pc, c.base.version, c.base.state)
      BY <1>6, SnapshotsHeld
  <2>2. UNCHANGED <<events, snapshot>> BY <1>6, SnapshotsHeld
  <2>3. BaseFits(c) BY <2>1, BasedFits
  <2>4. \A q \in Orders : WasAt(q, snapshot'[q].version, snapshot'[q].state)
      BY <2>2 DEF SourcingCalm
  <2> QED BY <1>1, <2>1, <2>2, <2>3, <2>4
<1> QED BY <1>2, <1>3, <1>4, <1>5, <1>6 DEF SourcingNext, Sourcing!Continue

\* The state an order replays to is that of all its events.
LEMMA ReplaysAlike ==
    ASSUME SourcingIInv, SourcingCalm
    PROVE  Sourcing!SnapshotAgrees
<1> SUFFICES ASSUME NEW o \in Orders
             PROVE  Sourcing!GetOrderState(o) = Sourcing!Replay(Sourcing!NoState, Sourcing!GetEvents(o, 0))
    BY DEF Sourcing!SnapshotAgrees
<1>1. /\ events[o] \in Seq(Sourcing!Event) /\ Len(events[o]) \in Nat
      /\ \A i \in 1 .. Len(events[o]) : events[o][i].version = i
    BY DEF SourcingIInv, SourcingCalm
<1>2. PICK v, state : v = snapshot[o].version /\ state = snapshot[o].state OBVIOUS
<1>3. v \in 0 .. Len(events[o])
  <2>1. Sourcing!Versions(o) = 1 .. Len(events[o]) BY DEF Sourcing!Versions, SourcingCalm
  <2>2. v \in Sourcing!Versions(o) \cup {0} BY <1>2 DEF SourcingIInv
  <2> QED BY <1>1, <2>1, <2>2
<1>4. Sourcing!NoState \in Sourcing!State BY DEF Sourcing!State
<1>5. PICK r : History(r, events[o], Sourcing!NoState) BY <1>1, <1>4, Replayed
<1>6. r[v] = state BY <1>2, <1>5 DEF SourcingCalm, WasAt
<1>7. r[0] = Sourcing!NoState BY <1>5 DEF History
<1>8. 0 \in 0 .. Len(events[o]) BY <1>1
<1>9. \A w \in 0 .. Len(events[o]) :
         Sourcing!Replay(r[w], Sourcing!GetEvents(o, w)) = r[Len(events[o])]
    BY <1>1, <1>5, ReplayFrom DEF Sourcing!GetEvents
<1>10. Sourcing!GetOrderState(o) = Sourcing!Replay(state, Sourcing!GetEvents(o, v))
    BY <1>2 DEF Sourcing!GetOrderState
<1> QED BY <1>3, <1>6, <1>7, <1>8, <1>9, <1>10

LEMMA SourcingSound ==
    /\ SourcingIInv => Sourcing!NoVersionGap
    /\ SourcingCalm => Sourcing!VersionsDiffer
<1>1. SourcingIInv => Sourcing!NoVersionGap
  <2> SUFFICES ASSUME SourcingIInv, NEW o \in Orders
               PROVE  /\ Sourcing!Versions(o) = 1 .. Sourcing!GetLatestVersion(o)
                      /\ snapshot[o].version \in Sourcing!Versions(o) \cup {0}
      BY DEF Sourcing!NoVersionGap
  <2>1. PICK n \in Nat : Sourcing!Versions(o) = 1 .. n BY DEF SourcingIInv
  <2> QED BY <2>1, LatestIs DEF SourcingIInv
<1>2. SourcingCalm => Sourcing!VersionsDiffer
    BY DEF SourcingCalm, Sourcing!VersionsDiffer
<1> QED BY <1>1, <1>2

-----------------------------------------------------------------------------
(* Times in stages.                                                        *)

\* Sums of values that are the same, that are nothing, and of which one changes.
LEMMA TotalAlike ==
    ASSUME NEW S, IsFiniteSet(S), NEW w, NEW u, \A x \in S : w[x] \in Int /\ w[x] = u[x]
    PROVE  Total(w, S) = Total(u, S)
<1>1. /\ Total(w, {}) = 0
      /\ \A T \in SUBSET S, x \in S : x \in T => Total(w, T) = w[x] + Total(w, T \ {x})
    BY Totals
<1>2. /\ Total(u, {}) = 0
      /\ \A T \in SUBSET S, x \in S : x \in T => Total(u, T) = u[x] + Total(u, T \ {x})
    BY Totals
<1> DEFINE G == {T \in SUBSET S : Total(w, T) = Total(u, T)}
<1>3. {} \in G BY <1>1, <1>2
<1>4. ASSUME NEW T \in SUBSET S, T # {}, \A x \in T : T \ {x} \in G
      PROVE  T \in G
  <2>1. PICK x \in T : T \ {x} \in G BY <1>4
  <2> QED BY <1>1, <1>2, <2>1
<1>5. SUBSET S \subseteq G
  <2> HIDE DEF G
  <2> QED BY <1>3, <1>4, SetInduction
<1> QED BY <1>5

LEMMA TotalOfNothing ==
    ASSUME NEW S, IsFiniteSet(S), NEW w, \A x \in S : w[x] = 0
    PROVE  Total(w, S) = 0
<1>1. /\ Total(w, {}) = 0
      /\ \A T \in SUBSET S, x \in S : x \in T => Total(w, T) = w[x] + Total(w, T \ {x})
    BY Totals
<1> DEFINE G == {T \in SUBSET S : Total(w, T) = 0}
<1>2. {} \in G BY <1>1
<1>3. ASSUME NEW T \in SUBSET S, T # {}, \A x \in T : T \ {x} \in G
      PROVE  T \in G
  <2>1. PICK x \in T : T \ {x} \in G BY <1>3
  <2> QED BY <1>1, <2>1
<1>4. SUBSET S \subseteq G
  <2> HIDE DEF G
  <2> QED BY <1>2, <1>3, SetInduction
<1> QED BY <1>4

LEMMA TotalChanges ==
    ASSUME NEW S, IsFiniteSet(S), NEW w \in [S -> Int], NEW x \in S, NEW d \in Int
    PROVE  /\ Total(w, S) \in Int
           /\ Total([w EXCEPT ![x] = w[x] + d], S) = Total(w, S) + d
<1> DEFINE u == [w EXCEPT ![x] = w[x] + d]
           T == S \ {x}
<1>1. \A y \in S : u[y] = (IF y = x THEN w[x] + d ELSE w[y]) /\ u[y] \in Int OBVIOUS
<1>2. S \in SUBSET S /\ T \in SUBSET S /\ IsFiniteSet(T) BY FS_Subset
<1> HIDE DEF u
<1>3. Total(w, S) = w[x] + Total(w, T) /\ Total(w, T) \in Int /\ Total(w, S) \in Int
    BY <1>2, Totals
<1>4. Total(u, S) = u[x] + Total(u, T) BY <1>1, <1>2, Totals
<1>5. Total(w, T) = Total(u, T)
  <2>1. \A y \in T : w[y] \in Int /\ w[y] = u[y] BY <1>1
  <2> HIDE DEF T
  <2> QED BY <1>2, <2>1, TotalAlike
<1>6. u[x] = w[x] + d /\ w[x] \in Int BY <1>1
<1> HIDE DEF T
<1>7. Total(u, S) = Total(w, S) + d BY <1>3, <1>4, <1>5, <1>6
<1> QED BY <1>3, <1>7 DEF u

\* How far the times are after some events.
Stage == [last : Statuses \cup {""}, since : Nat, times : [Statuses -> Int]]

Stages(r, list) ==
    /\ r \in [0 .. Len(list) -> Stage]
    /\ r[0] = Sourcing!NoStage
    /\ \A k \in 1 .. Len(list) : r[k] = Sourcing!EndStage(r[k - 1], list[k])

LEMMA NoStageIs ==
    /\ Sourcing!NoStage.last = ""
    /\ \A x \in Statuses : Sourcing!NoStage.times[x] = 0
<1> DEFINE zero == [x \in Statuses |-> 0]
<1>1. \A x \in Statuses : zero[x] = 0 OBVIOUS
<1>2. Sourcing!NoStage = [last |-> "", since |-> 0, times |-> zero] BY DEF Sourcing!NoStage
<1> HIDE DEF zero
<1> QED BY <1>1, <1>2

LEMMA Between ==
    ASSUME NEW a \in Int, NEW b \in Int, NEW c \in Int
    PROVE  a + b - c = a + (b - c) /\ a + (b - c) \in Int
OBVIOUS

LEMMA SpendIs ==
    ASSUME NEW s \in Stage, NEW at \in Nat
    PROVE  /\ Sourcing!Spend(s, at) \in [Statuses -> Int]
           /\ s.last = "" => Sourcing!Spend(s, at) = s.times
           /\ s.last # "" => /\ s.last \in Statuses
                             /\ Sourcing!Spend(s, at) =
                                  [s.times EXCEPT ![s.last] = s.times[s.last] + (at - s.since)]
<1>1. s.times \in [Statuses -> Int] /\ s.since \in Nat /\ s.last \in Statuses \cup {""}
    BY DEF Stage
<1>2. CASE s.last = "" BY <1>1, <1>2 DEF Sourcing!Spend
<1>3. CASE s.last # ""
  <2>1. s.last \in Statuses /\ s.times[s.last] \in Int BY <1>1, <1>3
  <2>2. /\ s.times[s.last] + at - s.since = s.times[s.last] + (at - s.since)
        /\ s.times[s.last] + (at - s.since) \in Int
    <3>1. PICK a \in Int, c \in Nat : a = s.times[s.last] /\ c = s.since BY <1>1, <2>1
    <3>2. a + at - c = a + (at - c) /\ a + (at - c) \in Int BY Between
    <3> QED BY <3>1, <3>2
  <2>3. Sourcing!Spend(s, at) = [s.times EXCEPT ![s.last] = s.times[s.last] + at - s.since]
      BY <1>3 DEF Sourcing!Spend
  <2>4. Sourcing!Spend(s, at) = [s.times EXCEPT ![s.last] = s.times[s.last] + (at - s.since)]
      BY <2>2, <2>3
  <2>5. Sourcing!Spend(s, at) \in [Statuses -> Int] BY <1>1, <2>2, <2>4
  <2> QED BY <1>3, <2>1, <2>4, <2>5
<1> QED BY <1>2, <1>3

LEMMA EndStageIs ==
    ASSUME NEW s \in Stage, NEW e \in Sourcing!Event
    PROVE  /\ Sourcing!EndStage(s, e) \in Stage
           /\ e.kind.type # "status_changed" => Sourcing!EndStage(s, e) = s
           /\ e.kind.type = "status_changed" =>
                /\ Sourcing!EndStage(s, e).last \in Statuses
                /\ Sourcing!EndStage(s, e).since = e.at
                /\ Sourcing!EndStage(s, e).times = Sourcing!Spend(s, e.at)
<1>1. e.at \in Nat /\ e.kind \in Sourcing!Kind BY DEF Sourcing!Event
<1>2. CASE e.kind.type # "status_changed" BY <1>2 DEF Sourcing!EndStage
<1>3. CASE e.kind.type = "status_changed"
  <2>1. e.kind.status \in Statuses BY <1>1, <1>3 DEF Sourcing!Kind
  <2>2. Sourcing!Spend(s, e.at) \in [Statuses -> Int] BY <1>1, SpendIs
  <2>3. Sourcing!EndStage(s, e) =
          [last |-> e.kind.status, since |-> e.at, times |-> Sourcing!Spend(s, e.at)]
      BY <1>3 DEF Sourcing!EndStage
  <2>4. Sourcing!EndStage(s, e) \in Stage
    <3>1. PICK t \in [Statuses -> Int] : t = Sourcing!Spend(s, e.at) BY <2>2
    <3>2. [last |-> e.kind.status, since |-> e.at, times |-> t] \in Stage BY <1>1, <2>1 DEF Stage
    <3> QED BY <2>3, <3>1, <3>2
  <2>5. /\ Sourcing!EndStage(s, e).last = e.kind.status
        /\ Sourcing!EndStage(s, e).since = e.at
        /\ Sourcing!EndStage(s, e).times = Sourcing!Spend(s, e.at)
      BY <2>3
  <2> QED BY <1>3, <2>1, <2>4, <2>5
<1> QED BY <1>2, <1>3

LEMMA Staged ==
    ASSUME NEW list \in Seq(Sourcing!Event)
    PROVE  \E r : /\ Stages(r, list)
                  /\ Sourcing!FoldLeft(Sourcing!EndStage, Sourcing!NoStage, list) = r[Len(list)]
<1> DEFINE n == Len(list)
           S == 1 .. n
           D == Stage
           base == Sourcing!NoStage
           c == Greatests(n)
           top(T) == CHOOSE x \in T : \A y \in T : x >= y
           round(k, d) == Sourcing!EndStage(d, list[k])
           g == [z \in S \X D |-> round(z[1], z[2])]
           it == CHOOSE f : f = [T \in SUBSET S |-> IF T = {} THEN base ELSE round(top(T), f[T \ {top(T)}])]
<1>0. n \in Nat /\ DOMAIN list = S OBVIOUS
<1>1. Sourcing!FoldLeft(Sourcing!EndStage, Sourcing!NoStage, list) = it[S]
    BY <1>0 DEF Sourcing!FoldLeft, Sourcing!MapThenFoldSet, Sourcing!Max
<1>2. \A T \in SUBSET S : T # {} => c[T] = top(T) /\ c[T] \in S /\ c[T] \in T
    BY <1>0, GreatestsChosen DEF Greatests, Chooses
<1>3. \A k \in S, d \in D : g[<<k, d>>] = round(k, d) OBVIOUS
<1>4. \A k \in S, d \in D : round(k, d) \in D
  <2>1. \A k \in S : list[k] \in Sourcing!Event OBVIOUS
  <2> HIDE DEF S, n
  <2> QED BY <2>1, EndStageIs
<1>5. base \in D BY DEF Sourcing!NoStage, Stage
<1> HIDE DEF round, top, g, base
<1>6. Closed(g, S, D) BY <1>3, <1>4 DEF Closed
<1>7. PICK f \in [SUBSET S -> D] : Looped(f, n, D, base, g)
  <2> HIDE DEF D, n
  <2> QED BY <1>0, <1>5, <1>6, Loop DEF D
<1>8. Computes(f, S, base, c, g) /\ \E r \in [0 .. n -> D] : Runs(r, n, base, g) /\ f[S] = r[n]
    BY <1>7 DEF Looped
<1>9. PICK r \in [0 .. n -> D] : Runs(r, n, base, g) /\ f[S] = r[n] BY <1>8
<1>10. Stages(r, list)
  <2>1. ASSUME NEW k \in S PROVE r[k] = g[<<k, r[k - 1]>>] /\ r[k - 1] \in D
    <3>1. k - 1 \in 0 .. n BY <1>0
    <3> HIDE DEF n, D
    <3> QED BY <1>9, <3>1 DEF Runs
  <2>2. r[0] = base BY <1>9 DEF Runs
  <2>3. \A k \in S : r[k] = Sourcing!EndStage(r[k - 1], list[k])
    <3> HIDE DEF S, D
    <3> QED BY <1>3, <2>1 DEF round
  <2> QED BY <2>2, <2>3 DEF Stages, base
<1> HIDE DEF c, S
<1>11. \A T \in SUBSET S : f[T] = IF T = {} THEN base ELSE round(top(T), f[T \ {top(T)}])
  <2> TAKE T \in SUBSET S
  <2>1. CASE T = {} BY <1>8, <2>1 DEF Computes
  <2>2. CASE T # {}
    <3>1. f[T] = g[<<c[T], f[T \ {c[T]}]>>] BY <1>8, <2>2 DEF Computes
    <3>2. T \ {c[T]} \in SUBSET S /\ c[T] = top(T) /\ c[T] \in S BY <1>2, <2>2
    <3>3. f[T \ {c[T]}] \in D BY <3>2
    <3> QED BY <1>3, <2>2, <3>1, <3>2, <3>3
  <2> QED BY <2>1, <2>2
<1>12. f = [T \in SUBSET S |-> IF T = {} THEN base ELSE round(top(T), f[T \ {top(T)}])] BY <1>11
<1>13. it = [T \in SUBSET S |-> IF T = {} THEN base ELSE round(top(T), it[T \ {top(T)}])] BY <1>12
<1> HIDE DEF it
<1>14. it[{}] = f[{}] BY <1>11, <1>13
<1>15. ASSUME NEW T \in SUBSET S, T # {}, it[T \ {c[T]}] = f[T \ {c[T]}] PROVE it[T] = f[T]
  <2>1. c[T] = top(T) BY <1>2, <1>15
  <2> QED BY <1>11, <1>13, <1>15, <2>1
<1>16. Chooses(c, S) /\ Alike(f, it, S, c) BY <1>2, <1>14, <1>15 DEF Chooses, Alike
<1>17. IsFiniteSet(S) BY <1>0, FS_Interval DEF S
<1>18. \A T \in SUBSET S : it[T] = f[T] BY <1>16, <1>17, RecursionUnique
<1> QED BY <1>1, <1>9, <1>10, <1>18

\* After k events: nothing is spent before the first change of status, and all of
\* it between that and the last one is.
Changes(list, k) == {i \in 1 .. k : list[i].kind.type = "status_changed"}

FirstIn(f, C) == f \in C /\ \A i \in C : f <= i

SpentSince(list, k, s) ==
    /\ \A x \in Statuses : s.times[x] >= 0
    /\ s.last = "" => Changes(list, k) = {} /\ Total(s.times, Statuses) = 0
    /\ s.last # "" => /\ s.since < k
                      /\ \E f \in Changes(list, k) :
                           /\ FirstIn(f, Changes(list, k))
                           /\ Total(s.times, Statuses) = s.since - (f - 1)

\* The time from since to at goes to one stage.
LEMMA SpendAdds ==
    ASSUME NEW list, NEW k \in Nat, NEW s \in Stage, SpentSince(list, k, s)
    PROVE  /\ \A x \in Statuses : Sourcing!Spend(s, k)[x] >= 0
           /\ s.last # "" => \E f \in Changes(list, k) :
                               /\ FirstIn(f, Changes(list, k))
                               /\ Total(Sourcing!Spend(s, k), Statuses) = k - (f - 1)
<1>1. /\ s.times \in [Statuses -> Int] /\ s.since \in Nat
      /\ \A x \in Statuses : s.times[x] >= 0
    BY DEF Stage, SpentSince
<1>2. CASE s.last = ""
  <2>1. Sourcing!Spend(s, k) = s.times BY <1>2, SpendIs
  <2> QED BY <1>1, <1>2, <2>1
<1>3. CASE s.last # ""
  <2>1. s.last \in Statuses
        /\ Sourcing!Spend(s, k) = [s.times EXCEPT ![s.last] = s.times[s.last] + (k - s.since)]
      BY <1>3, SpendIs
  <2>2. PICK f \in Changes(list, k) : /\ FirstIn(f, Changes(list, k))
                                      /\ Total(s.times, Statuses) = s.since - (f - 1)
      BY <1>3 DEF SpentSince
  <2>3. PICK d \in Nat : d = k - s.since
    <3>1. s.since < k BY <1>3 DEF SpentSince
    <3>2. PICK c \in Nat : c = s.since BY <1>1
    <3>3. k - c \in Nat BY <3>1, <3>2
    <3> QED BY <3>2, <3>3
  <2>4. \A x \in Statuses : Sourcing!Spend(s, k)[x] >= 0
    <3> TAKE x \in Statuses
    <3>1. PICK a \in Int : a = s.times[x] /\ a >= 0 BY <1>1
    <3>2. Sourcing!Spend(s, k)[x] = IF x = s.last THEN a + d ELSE a BY <1>1, <2>1, <2>3, <3>1
    <3>3. a + d >= 0 BY <3>1
    <3> QED BY <3>1, <3>2, <3>3
  <2>5. Total(Sourcing!Spend(s, k), Statuses) = Total(s.times, Statuses) + (k - s.since)
    <3>1. Sourcing!Spend(s, k) = [s.times EXCEPT ![s.last] = s.times[s.last] + d] BY <2>1, <2>3
    <3>2. IsFiniteSet(Statuses) BY StatusesAre
    <3>3. Total([s.times EXCEPT ![s.last] = s.times[s.last] + d], Statuses)
            = Total(s.times, Statuses) + d
        BY <1>1, <2>1, <3>2, TotalChanges
    <3> QED BY <2>3, <3>1, <3>3
  <2>6. f \in Nat BY DEF Changes
  <2>7. Total(Sourcing!Spend(s, k), Statuses) = k - (f - 1)
    <3>1. PICK c \in Nat : c = s.since BY <1>1
    <3>2. c - (f - 1) + (k - c) = k - (f - 1) BY <2>6
    <3> QED BY <2>2, <2>5, <3>1, <3>2
  <2> QED BY <2>2, <2>4, <2>7
<1> QED BY <1>2, <1>3

LEMMA StageSpends ==
    ASSUME NEW list \in Seq(Sourcing!Event), \A i \in 1 .. Len(list) : list[i].at = i - 1,
           NEW r, Stages(r, list)
    PROVE  SpentSince(list, Len(list), r[Len(list)])
<1> DEFINE n == Len(list)
           G == {k \in Nat : k <= n => SpentSince(list, k, r[k])}
<1>0. n \in Nat OBVIOUS
<1>1. 0 \in G
  <2>1. r[0] = Sourcing!NoStage BY DEF Stages
  <2>2. r[0].last = "" BY <2>1, NoStageIs
  <2>3. \A x \in Statuses : r[0].times[x] = 0 BY <2>1, NoStageIs
  <2>4. Total(r[0].times, Statuses) = 0
    <3>1. IsFiniteSet(Statuses) BY StatusesAre
    <3> QED BY <2>3, <3>1, TotalOfNothing
  <2>5. Changes(list, 0) = {} BY DEF Changes
  <2>6. \A x \in Statuses : r[0].times[x] >= 0 BY <2>3
  <2>7. SpentSince(list, 0, r[0]) BY <2>2, <2>4, <2>5, <2>6 DEF SpentSince
  <2> QED BY <2>7
<1>2. ASSUME NEW k \in Nat, k \in G PROVE k + 1 \in G
  <2>1. SUFFICES ASSUME k + 1 <= n PROVE SpentSince(list, k + 1, r[k + 1]) OBVIOUS
  <2>2. k + 1 \in 1 .. n /\ (k + 1) - 1 = k /\ k \in 0 .. n /\ k + 1 \in 0 .. n BY <1>0, <2>1
  <2> DEFINE e == list[k + 1]
             s == r[k]
             t == r[k + 1]
  <2>3. e \in Sourcing!Event /\ e.at = k BY <2>2
  <2>4. s \in Stage /\ t = Sourcing!EndStage(s, e) BY <2>2 DEF Stages
  <2>5. SpentSince(list, k, s) BY <1>2, <2>1
  <2>6. \A i : i \in Changes(list, k + 1) <=>
                 i \in Changes(list, k) \/ (i = k + 1 /\ e.kind.type = "status_changed")
    <3>1. \A i : i \in 1 .. k + 1 <=> i \in 1 .. k \/ i = k + 1 BY <1>2
    <3> QED BY <3>1 DEF Changes
  <2> HIDE DEF s, t, G
  <2>7. CASE e.kind.type # "status_changed"
    <3>1. t = s BY <2>3, <2>4, <2>7, EndStageIs
    <3>2. Changes(list, k + 1) = Changes(list, k) BY <2>6, <2>7
    <3>3. ASSUME s.last # "" PROVE s.since < k + 1
      <4>1. s.since < k BY <2>5, <3>3 DEF SpentSince
      <4>2. PICK c \in Nat : c = s.since BY <2>4 DEF Stage
      <4> QED BY <1>2, <4>1, <4>2
    <3>4. SpentSince(list, k + 1, s) BY <2>5, <3>2, <3>3 DEF SpentSince
    <3> QED BY <3>1, <3>4 DEF t
  <2>8. CASE e.kind.type = "status_changed"
    <3>1. t.last \in Statuses /\ t.since = k /\ t.times = Sourcing!Spend(s, k)
        BY <2>3, <2>4, <2>8, EndStageIs
    <3>2. t.last # "" /\ t.since < k + 1
      <4>1. t.last # "" BY <3>1, StatusesAre
      <4>2. k < k + 1 BY <1>2
      <4> QED BY <3>1, <4>1, <4>2
    <3>3. \A x \in Statuses : t.times[x] >= 0 BY <2>4, <2>5, <3>1, SpendAdds
    <3>4. \A i \in Changes(list, k) : i \in Nat /\ i < k + 1 BY DEF Changes
    <3>5. CASE s.last = ""
      <4>1. t.times = s.times BY <2>4, <3>1, <3>5, SpendIs
      <4>2. Changes(list, k) = {} /\ Total(s.times, Statuses) = 0 BY <2>5, <3>5 DEF SpentSince
      <4>3. FirstIn(k + 1, Changes(list, k + 1)) BY <2>6, <2>8, <4>2 DEF FirstIn
      <4>4. Total(t.times, Statuses) = t.since - ((k + 1) - 1) BY <3>1, <4>1, <4>2
      <4>5. SpentSince(list, k + 1, t) BY <3>2, <3>3, <4>3, <4>4 DEF SpentSince, FirstIn
      <4> QED BY <4>5 DEF t
    <3>6. CASE s.last # ""
      <4>0. \E f \in Changes(list, k) :
                /\ FirstIn(f, Changes(list, k))
                /\ Total(Sourcing!Spend(s, k), Statuses) = k - (f - 1)
        <5>1. k \in Nat BY <1>2
        <5> QED BY <2>4, <2>5, <3>6, <5>1, SpendAdds
      <4>1. PICK f \in Changes(list, k) : /\ FirstIn(f, Changes(list, k))
                                          /\ Total(t.times, Statuses) = k - (f - 1)
          BY <3>1, <4>0
      <4>2. FirstIn(f, Changes(list, k + 1)) BY <2>6, <3>4, <4>1 DEF FirstIn
      <4>3. SpentSince(list, k + 1, t) BY <3>1, <3>2, <3>3, <4>1, <4>2 DEF SpentSince, FirstIn
      <4> QED BY <4>3 DEF t
    <3> QED BY <3>5, <3>6
  <2> QED BY <2>7, <2>8
<1>3. Nat \subseteq G
  <2> HIDE DEF G
  <2> QED BY <1>1, <1>2, NumberInduction
<1> QED BY <1>0, <1>3

LEMMA TimesAddUp ==
    ASSUME SourcingIInv, SourcingCalm
    PROVE  Sourcing!StageTimesAddUp
<1> SUFFICES ASSUME NEW o \in Orders
             PROVE  LET now     == Len(events[o])
                        times   == Sourcing!GetTimeInStage(o, now)
                        changes == {events[o][i].at : i \in
                          {j \in 1 .. now : events[o][j].kind.type = "status_changed"}}
                    IN  /\ \A s \in Statuses : times[s] >= 0
                        /\ Sourcing!Active(o) /\ changes # {} =>
                             Sourcing!FoldFunction(+, 0, times)
                               = now - (CHOOSE t \in changes : \A u \in changes : t <= u)
    BY DEF Sourcing!StageTimesAddUp
<1> DEFINE list == events[o]
           n == Len(list)
           times == Sourcing!GetTimeInStage(o, n)
           C == Changes(list, n)
           first == CHOOSE t \in {list[i].at : i \in C} : \A u \in {list[i].at : i \in C} : t <= u
<1>1. /\ list \in Seq(Sourcing!Event) /\ n \in Nat
      /\ \A i \in 1 .. n : list[i].version = i /\ list[i].at = i - 1
    BY DEF SourcingIInv, SourcingCalm
<1> HIDE DEF list
<1>2. Sourcing!GetEvents(o, 0) = list
  <2>1. {i \in 1 .. n : list[i].version >= 0} = 1 .. n BY <1>1
  <2>2. Sourcing!GetEvents(o, 0) = Sourcing!InOrder(list, 1 .. n)
      BY <2>1 DEF Sourcing!GetEvents, list
  <2>3. 1 \in 1 .. n + 1 BY <1>1
  <2>4. Sourcing!InOrder(list, 1 .. n) = [k \in 1 .. (n - 1 + 1) |-> list[k + 1 - 1]]
      BY <1>1, <2>3, InOrderLast
  <2>5. n - 1 + 1 = n /\ \A k \in 1 .. n : k + 1 - 1 = k BY <1>1
  <2>6. list = [k \in 1 .. n |-> list[k]] BY <1>1
  <2> QED BY <2>2, <2>4, <2>5, <2>6
<1>3. PICK r : /\ Stages(r, list)
               /\ Sourcing!FoldLeft(Sourcing!EndStage, Sourcing!NoStage, list) = r[n]
    BY <1>1, Staged
<1>4. PICK s : s = r[n] OBVIOUS
<1>5. s \in Stage /\ SpentSince(list, n, s)
  <2>1. n \in 0 .. n BY <1>1
  <2> QED BY <1>1, <1>3, <1>4, <2>1, StageSpends DEF Stages
<1>6. times = Sourcing!Spend(s, n) BY <1>2, <1>3, <1>4 DEF Sourcing!GetTimeInStage
<1>7. times \in [Statuses -> Int]
  <2>1. n \in Nat BY <1>1
  <2>2. Sourcing!Spend(s, n) \in [Statuses -> Int] BY <1>5, <2>1, SpendIs
  <2> QED BY <1>6, <2>2
<1> HIDE DEF times
<1>8. \A x \in Statuses : times[x] >= 0 BY <1>1, <1>5, <1>6, SpendAdds
<1>9. Sourcing!FoldFunction(+, 0, times) = Total(times, Statuses)
  <2>1. DOMAIN times = Statuses BY <1>7
  <2> QED BY <2>1 DEF Sourcing!FoldFunction, Sourcing!FoldFunctionOnSet, Sourcing!MapThenFoldSet,
                      Total, SumFunctionOnSet, FoldFunctionOnSet, MapThenFoldSet
<1>10. ASSUME C # {} PROVE Total(times, Statuses) = n - first
  <2>1. s.last # "" BY <1>5, <1>10 DEF SpentSince
  <2>2. PICK f \in C : FirstIn(f, C) /\ Total(times, Statuses) = n - (f - 1)
      BY <1>1, <1>5, <1>6, <2>1, SpendAdds
  <2>3. \A i \in C : i \in 1 .. n /\ list[i].at = i - 1 BY <1>1 DEF Changes
  <2> DEFINE A == {list[i].at : i \in C}
  <2>4. f - 1 \in A BY <2>2, <2>3
  <2>5. \A u \in A : u \in Int /\ f - 1 <= u
    <3> SUFFICES ASSUME NEW i \in C PROVE list[i].at \in Int /\ f - 1 <= list[i].at OBVIOUS
    <3>1. f <= i /\ i \in Nat /\ f \in Nat /\ list[i].at = i - 1 BY <2>2, <2>3 DEF FirstIn
    <3> QED BY <3>1
  <2>6. \A t \in A : (\A u \in A : t <= u) => t = f - 1
    <3> HIDE DEF A
    <3> QED BY <2>4, <2>5
  <2>7. (CHOOSE t \in A : \A u \in A : t <= u) = f - 1
    <3> HIDE DEF A
    <3> QED BY <2>4, <2>5, <2>6
  <2>8. first = f - 1 BY <2>7
  <2> QED BY <2>2, <2>8
<1>11. {list[i].at : i \in C} # {} => C # {} OBVIOUS
<1> QED BY <1>8, <1>9, <1>10, <1>11 DEF Changes, times, list

-----------------------------------------------------------------------------
(* Projections.                                                            *)

\* What the only goroutine under way knows of its order.
ProjectionFits(c) ==
    /\ c.pc = "save" => c.version = write[c.order]
    /\ c.pc = "cache" => c.version = write[c.order] /\ read[c.order] = write[c.order]
    /\ c.pc = "fill" => c.version = read[c.order]
    /\ c.pc = "invalidate" => write[c.order] = Projection!None

Copied(o) ==
    write[o] # Projection!None =>
        read[o] = write[o] /\ cache[o] \in {Projection!None, write[o]}

Copying(o) ==
    \E g \in Goroutines : run[g] # Idle /\ run[g].pc \in {"load", "save", "cache"}
                            /\ run[g].order = o

\* One goroutine at a time: what was written is copied, or being copied.
ProjectionCalm ==
    /\ One(run)
    /\ \A o \in Orders : Copied(o) \/ Copying(o)
    /\ \A g \in Goroutines : run[g] # Idle => ProjectionFits(run[g])

LEMMA ProjectionInit == Projection!Init => Projection!TypeOK /\ ProjectionCalm
<1> SUFFICES ASSUME Projection!Init PROVE Projection!TypeOK /\ ProjectionCalm
    OBVIOUS
<1>1. \A g \in Goroutines : run[g] = Idle BY DEF Projection!Init, Projection!Idle, Idle
<1>2. Projection!TypeOK BY DEF Projection!Init, Projection!TypeOK, Projection!None
<1>3. \A o \in Orders : Copied(o) BY DEF Projection!Init, Copied
<1>4. DOMAIN run = Goroutines BY DEF Projection!Init
<1> QED BY <1>1, <1>2, <1>3, <1>4 DEF ProjectionCalm, One

LEMMA RunHolds ==
    ASSUME Projection!TypeOK, NEW g \in Goroutines, run[g] # Idle
    PROVE  run[g] \in Projection!Run /\ run[g].order \in Orders /\ run[g].version \in Nat
BY DEF Projection!TypeOK, Projection!Run, Projection!Idle, Idle

LEMMA IdleIsIdle == Projection!Idle = Idle /\ Idle.pc = "idle"
BY DEF Projection!Idle, Idle

\* A goroutine's record is one, whatever it is about to do.
LEMMA HoldIsRun ==
    ASSUME NEW g, NEW pc \in {"load", "save", "cache", "fill", "invalidate"},
           NEW o \in Orders, NEW v \in Nat, Projection!Hold(g, pc, o, v)
    PROVE  \E c \in Projection!Run : /\ run' = [run EXCEPT ![g] = c]
                                     /\ c # Idle /\ c.pc = pc /\ c.order = o /\ c.version = v
<1>1. PICK c : c = [pc |-> pc, order |-> o, version |-> v] OBVIOUS
<1>2. c \in Projection!Run /\ c.pc = pc /\ c.order = o /\ c.version = v
    BY <1>1 DEF Projection!Run
<1>3. c # Idle BY <1>2, IdleIsIdle
<1>4. run' = [run EXCEPT ![g] = c] BY <1>1 DEF Projection!Hold
<1> QED BY <1>2, <1>3, <1>4

\* A command, and what it leaves behind.
LEMMA CommandStep ==
    ASSUME Projection!TypeOK, NEW g \in Goroutines, Projection!Command(g)
    PROVE  /\ Projection!TypeOK'
           /\ \E o \in Orders, c \in Projection!Run :
                /\ run[g] = Idle /\ run' = [run EXCEPT ![g] = c] /\ c # Idle
                /\ c.order = o /\ UNCHANGED <<read, cache>>
                /\ \A q \in Orders \ {o} : write'[q] = write[q]
                /\ c.pc = "load" \/ (c.pc = "invalidate" /\ write'[o] = Projection!None)
<1>1. PICK o \in Orders : Projection!SaveOrder(g, o) \/ Projection!DeleteOrder(g, o)
    BY DEF Projection!Command
<1>2. Projection!None \in Nat BY DEF Projection!None
<1>3. CASE Projection!SaveOrder(g, o)
  <2>1. Projection!Hold(g, "load", o, Projection!None) BY <1>3 DEF Projection!SaveOrder
  <2>2. PICK c \in Projection!Run :
            /\ run' = [run EXCEPT ![g] = c] /\ c # Idle /\ c.pc = "load" /\ c.order = o
      BY <1>2, <2>1, HoldIsRun
  <2>3. /\ write' = [write EXCEPT ![o] = made[o] + 1] /\ made' = [made EXCEPT ![o] = @ + 1]
        /\ UNCHANGED <<read, cache, answer>> /\ run[g] = Idle
      BY <1>3, IdleIsIdle DEF Projection!SaveOrder
  <2>4. Projection!TypeOK'
    <3>1. made[o] + 1 \in Nat BY DEF Projection!TypeOK
    <3>2. made' \in [Orders -> Nat] /\ write' \in [Orders -> Nat]
        BY <2>3, <3>1 DEF Projection!TypeOK
    <3>3. run' \in [Goroutines -> {Projection!Idle} \cup Projection!Run]
        BY <2>2 DEF Projection!TypeOK
    <3> QED BY <2>3, <3>2, <3>3 DEF Projection!TypeOK
  <2>5. \A q \in Orders \ {o} : write'[q] = write[q] BY <2>3 DEF Projection!TypeOK
  <2> QED BY <2>2, <2>3, <2>4, <2>5
<1>4. CASE Projection!DeleteOrder(g, o)
  <2>1. Projection!Hold(g, "invalidate", o, Projection!None) BY <1>4 DEF Projection!DeleteOrder
  <2>2. PICK c \in Projection!Run :
            /\ run' = [run EXCEPT ![g] = c] /\ c # Idle /\ c.pc = "invalidate" /\ c.order = o
      BY <1>2, <2>1, HoldIsRun
  <2>3. /\ write' = [write EXCEPT ![o] = Projection!None]
        /\ UNCHANGED <<made, read, cache, answer>> /\ run[g] = Idle
      BY <1>4, IdleIsIdle DEF Projection!DeleteOrder
  <2>4. Projection!TypeOK' BY <1>1, <1>2, <2>2, <2>3 DEF Projection!TypeOK
  <2>5. write'[o] = Projection!None /\ \A q \in Orders \ {o} : write'[q] = write[q]
      BY <2>3 DEF Projection!TypeOK
  <2> QED BY <2>2, <2>3, <2>4, <2>5
<1> QED BY <1>1, <1>3, <1>4

LEMMA QueryStep ==
    ASSUME Projection!TypeOK, NEW g \in Goroutines, Projection!Query(g)
    PROVE  /\ Projection!TypeOK' /\ UNCHANGED <<write, read>>
           /\ \/ UNCHANGED run /\ \A o \in Orders : cache'[o] \in {cache[o], Projection!None}
              \/ \E c \in Projection!Run :
                   /\ run[g] = Idle /\ run' = [run EXCEPT ![g] = c] /\ c # Idle
                   /\ c.pc = "fill" /\ c.version = read[c.order] /\ UNCHANGED cache
<1>1. PICK o \in Orders : \/ Projection!QueryMiss(g, o)
                          \/ Projection!QueryHit(o)
                          \/ Projection!Expire(o)
    BY DEF Projection!Query
<1>2. CASE Projection!QueryMiss(g, o)
  <2>1. read[o] \in Nat BY DEF Projection!TypeOK
  <2>2. PICK c \in Projection!Run :
            /\ run' = [run EXCEPT ![g] = c] /\ c # Idle /\ c.pc = "fill" /\ c.order = o
            /\ c.version = read[o]
      BY <1>2, <2>1, HoldIsRun DEF Projection!QueryMiss
  <2>3. /\ answer' = [answer EXCEPT ![o] = read[o]] /\ run[g] = Idle
        /\ UNCHANGED <<write, made, read, cache>>
      BY <1>2, IdleIsIdle DEF Projection!QueryMiss
  <2>4. Projection!TypeOK' BY <2>1, <2>2, <2>3 DEF Projection!TypeOK
  <2> QED BY <2>2, <2>3, <2>4
<1>3. CASE Projection!QueryHit(o)
  <2>1. Projection!TypeOK' BY <1>3 DEF Projection!QueryHit, Projection!TypeOK
  <2> QED BY <1>3, <2>1 DEF Projection!QueryHit
<1>4. CASE Projection!Expire(o)
  <2>1. Projection!TypeOK'
      BY <1>4 DEF Projection!Expire, Projection!TypeOK, Projection!None
  <2>2. \A q \in Orders : cache'[q] \in {cache[q], Projection!None}
      BY <1>4 DEF Projection!Expire, Projection!TypeOK
  <2> QED BY <1>4, <2>1, <2>2 DEF Projection!Expire
<1> QED BY <1>1, <1>2, <1>3, <1>4

LEMMA ContinueStep ==
    ASSUME Projection!TypeOK, NEW g \in Goroutines, Projection!Continue(g)
    PROVE  Projection!TypeOK' /\ run[g] # Idle
<1>1. run[g] # Idle /\ run[g].order \in Orders /\ run[g].version \in Nat
  <2>1. run[g] # Idle
      BY IdleIsIdle DEF Projection!Continue, Projection!Load, Projection!SaveProjection,
                        Projection!CacheSet, Projection!Invalidate
  <2> QED BY <2>1, RunHolds
<1>2. ASSUME Projection!Return(g) PROVE run' \in [Goroutines -> {Idle} \cup Projection!Run]
    BY <1>2, IdleIsIdle DEF Projection!Return, Projection!TypeOK
<1>3. ASSUME NEW pc \in {"save", "cache"}, NEW v \in Nat, Projection!Hold(g, pc, run[g].order, v)
      PROVE  run' \in [Goroutines -> {Idle} \cup Projection!Run]
  <2>1. PICK c \in Projection!Run : run' = [run EXCEPT ![g] = c] BY <1>1, <1>3, HoldIsRun
  <2> QED BY <2>1, IdleIsIdle DEF Projection!TypeOK
<1>4. CASE Projection!Load(g)
  <2>1. run' \in [Goroutines -> {Idle} \cup Projection!Run]
      BY <1>1, <1>2, <1>3, <1>4 DEF Projection!Load, Projection!TypeOK
  <2> QED BY <1>1, <1>4, <2>1, IdleIsIdle DEF Projection!Load, Projection!TypeOK
<1>5. CASE Projection!SaveProjection(g)
  <2>1. run' \in [Goroutines -> {Idle} \cup Projection!Run]
      BY <1>1, <1>3, <1>5 DEF Projection!SaveProjection
  <2> QED BY <1>1, <1>5, <2>1, IdleIsIdle DEF Projection!SaveProjection, Projection!TypeOK
<1>6. CASE Projection!CacheSet(g)
    BY <1>1, <1>2, <1>6, IdleIsIdle DEF Projection!CacheSet, Projection!TypeOK
<1>7. CASE Projection!Invalidate(g)
    BY <1>1, <1>2, <1>7, IdleIsIdle
       DEF Projection!Invalidate, Projection!TypeOK, Projection!None
<1> QED BY <1>4, <1>5, <1>6, <1>7 DEF Projection!Continue

LEMMA ProjectionStep == Projection!TypeOK /\ Projection!Next => Projection!TypeOK'
<1> SUFFICES ASSUME Projection!TypeOK, Projection!Next PROVE Projection!TypeOK'
    OBVIOUS
<1>1. ASSUME NEW g \in Goroutines, Projection!Stop(g) PROVE Projection!TypeOK'
    BY <1>1 DEF Projection!Stop, Projection!Return, Projection!TypeOK
<1> QED BY <1>1, CommandStep, QueryStep, ContinueStep DEF Projection!Next

\* The goroutine g goes on with c, and all other ones are idle.
LEMMA ProjectionCalmHeld ==
    ASSUME Projection!TypeOK, NEW g \in Goroutines, NEW c,
           \A h \in Goroutines \ {g} : run[h] = Idle,
           run' = [run EXCEPT ![g] = c], c # Idle => ProjectionFits(c)',
           \A o \in Orders : Copied(o)' \/
               (c # Idle /\ c.pc \in {"load", "save", "cache"} /\ c.order = o)
    PROVE  ProjectionCalm'
<1>1. /\ run'[g] = c /\ DOMAIN run' = Goroutines
      /\ \A h \in Goroutines \ {g} : run'[h] = Idle
    BY DEF Projection!TypeOK
<1>2. One(run)' BY <1>1 DEF One
<1>3. \A o \in Orders : c # Idle /\ c.pc \in {"load", "save", "cache"} /\ c.order = o => Copying(o)'
    BY <1>1 DEF Copying
<1> QED BY <1>1, <1>2, <1>3 DEF ProjectionCalm

\* While g is idle, and nobody else works either, everything is copied.
LEMMA AllCopied ==
    ASSUME ProjectionCalm, \A h \in Goroutines : run[h] = Idle
    PROVE  \A o \in Orders : Copied(o)
BY DEF ProjectionCalm, Copying

LEMMA ProjectionCalmStep ==
    Projection!TypeOK /\ ProjectionCalm /\ calm' /\ ProjectionNext => ProjectionCalm'
<1> SUFFICES ASSUME Projection!TypeOK, ProjectionCalm, calm', ProjectionNext
             PROVE  ProjectionCalm'
    OBVIOUS
<1>1. PICK g \in Goroutines :
          Projection!Command(g) \/ Projection!Query(g) \/ Projection!Continue(g)
    BY DEF ProjectionNext
<1>2. One(run') BY DEF ProjectionNext, CalmAfter
<1>3. ASSUME NEW c, c # Idle, run[g] = Idle, run' = [run EXCEPT ![g] = c]
      PROVE  \A h \in Goroutines : run[h] = Idle
  <2>1. /\ run'[g] = c /\ DOMAIN run' = Goroutines
        /\ \A h \in Goroutines \ {g} : run'[h] = run[h]
      BY <1>3 DEF Projection!TypeOK
  <2> QED BY <1>2, <1>3, <2>1 DEF One
<1>4. CASE Projection!Command(g)
  <2>1. PICK o \in Orders, c \in Projection!Run :
            /\ run[g] = Idle /\ run' = [run EXCEPT ![g] = c] /\ c # Idle
            /\ c.order = o /\ UNCHANGED <<read, cache>>
            /\ \A q \in Orders \ {o} : write'[q] = write[q]
            /\ c.pc = "load" \/ (c.pc = "invalidate" /\ write'[o] = Projection!None)
      BY <1>4, CommandStep
  <2>2. \A h \in Goroutines : run[h] = Idle BY <1>3, <2>1
  <2>3. \A q \in Orders : Copied(q) BY <2>2, AllCopied
  <2>4. ProjectionFits(c)' BY <2>1 DEF ProjectionFits
  <2>5. \A q \in Orders \ {o} : Copied(q)' BY <2>1, <2>3 DEF Copied
  <2>6. Copied(o)' \/ c.pc = "load" BY <2>1 DEF Copied
  <2> QED BY <2>1, <2>2, <2>4, <2>5, <2>6, ProjectionCalmHeld
<1>5. CASE Projection!Query(g)
  <2>1. CASE UNCHANGED <<write, read, run>>
             /\ \A o \in Orders : cache'[o] \in {cache[o], Projection!None}
    <3>1. \A o \in Orders : Copied(o) => Copied(o)' BY <2>1 DEF Copied
    <3>2. \A o \in Orders : Copying(o) <=> Copying(o)' BY <2>1 DEF Copying
    <3>3. \A h \in Goroutines : run'[h] # Idle => ProjectionFits(run[h])'
        BY <2>1 DEF ProjectionCalm, ProjectionFits
    <3> QED BY <1>2, <3>1, <3>2, <3>3 DEF ProjectionCalm, One
  <2>2. CASE \E c \in Projection!Run :
               /\ run[g] = Idle /\ run' = [run EXCEPT ![g] = c] /\ c # Idle
               /\ c.pc = "fill" /\ c.version = read[c.order] /\ UNCHANGED <<write, read, cache>>
    <3>1. PICK c \in Projection!Run :
              /\ run[g] = Idle /\ run' = [run EXCEPT ![g] = c] /\ c # Idle
              /\ c.pc = "fill" /\ c.version = read[c.order] /\ UNCHANGED <<write, read, cache>>
        BY <2>2
    <3>2. \A h \in Goroutines : run[h] = Idle BY <1>3, <3>1
    <3>3. \A o \in Orders : Copied(o)' BY <3>1, <3>2, AllCopied DEF Copied
    <3>4. ProjectionFits(c)' BY <3>1 DEF ProjectionFits
    <3> QED BY <3>1, <3>2, <3>3, <3>4, ProjectionCalmHeld
  <2> QED BY <1>5, <2>1, <2>2, QueryStep
<1>6. CASE Projection!Continue(g)
  <2>1. run[g] # Idle /\ run[g].order \in Orders BY <1>6, ContinueStep, RunHolds
  <2>2. \A h \in Goroutines \ {g} : run[h] = Idle
      BY <2>1 DEF ProjectionCalm, One, Projection!TypeOK
  <2>3. PICK o \in Orders : o = run[g].order BY <2>1
  <2>4. PICK v : v = run[g].version OBVIOUS
  <2>5. ProjectionFits(run[g]) BY <2>1 DEF ProjectionCalm
  <2>6. \A q \in Orders \ {o} : Copied(q) BY <2>2, <2>3 DEF ProjectionCalm, Copying
  <2>7. CASE Projection!Load(g) /\ write[o] = Projection!None
    <3>1. run' = [run EXCEPT ![g] = Idle] /\ UNCHANGED <<write, read, cache>>
        BY <2>3, <2>7, IdleIsIdle DEF Projection!Load, Projection!Return
    <3>2. \A q \in Orders : Copied(q)' BY <2>6, <2>7, <3>1 DEF Copied
    <3> QED BY <2>2, <3>1, <3>2, ProjectionCalmHeld
  <2>8. CASE Projection!Load(g) /\ write[o] # Projection!None
    <3>1. write[o] \in Nat BY DEF Projection!TypeOK
    <3>2. Projection!Hold(g, "save", o, write[o]) /\ UNCHANGED <<write, read, cache>>
        BY <2>3, <2>8 DEF Projection!Load
    <3>3. PICK c \in Projection!Run :
              /\ run' = [run EXCEPT ![g] = c] /\ c # Idle
              /\ c.pc = "save" /\ c.order = o /\ c.version = write[o]
        BY <3>1, <3>2, HoldIsRun
    <3>4. ProjectionFits(c)' BY <3>2, <3>3 DEF ProjectionFits
    <3>5. \A q \in Orders \ {o} : Copied(q)' BY <2>6, <3>2 DEF Copied
    <3> QED BY <2>2, <3>3, <3>4, <3>5, ProjectionCalmHeld
  <2>9. CASE Projection!SaveProjection(g)
    <3>1. v \in Nat /\ v = write[o]
        BY <2>1, <2>3, <2>4, <2>5, <2>9, RunHolds
           DEF Projection!SaveProjection, ProjectionFits
    <3>2. /\ Projection!Hold(g, "cache", o, v) /\ UNCHANGED <<write, cache>>
          /\ read' = [read EXCEPT ![o] = v]
        BY <2>3, <2>4, <2>9 DEF Projection!SaveProjection
    <3>3. PICK c \in Projection!Run :
              /\ run' = [run EXCEPT ![g] = c] /\ c # Idle
              /\ c.pc = "cache" /\ c.order = o /\ c.version = v
        BY <3>1, <3>2, HoldIsRun
    <3>4. read'[o] = v /\ \A q \in Orders \ {o} : read'[q] = read[q]
        BY <3>2 DEF Projection!TypeOK
    <3>5. ProjectionFits(c)' BY <3>1, <3>2, <3>3, <3>4 DEF ProjectionFits
    <3>6. \A q \in Orders \ {o} : Copied(q)' BY <2>6, <3>2, <3>4 DEF Copied
    <3> QED BY <2>2, <3>3, <3>5, <3>6, ProjectionCalmHeld
  <2>10. CASE Projection!CacheSet(g)
    <3>1. /\ run' = [run EXCEPT ![g] = Idle] /\ UNCHANGED <<write, read>>
          /\ cache' = [cache EXCEPT ![o] = v]
        BY <2>3, <2>4, <2>10, IdleIsIdle DEF Projection!CacheSet, Projection!Return
    <3>2. cache'[o] = v /\ \A q \in Orders \ {o} : cache'[q] = cache[q]
        BY <3>1 DEF Projection!TypeOK
    <3>3. Copied(o)'
      <4>1. CASE run[g].pc = "cache"
          BY <2>3, <2>4, <2>5, <3>1, <3>2, <4>1 DEF Copied, ProjectionFits
      <4>2. CASE run[g].pc = "fill"
        <5>1. Copied(o) BY <2>2, <4>2 DEF ProjectionCalm, Copying
        <5> QED BY <2>3, <2>4, <2>5, <3>1, <3>2, <4>2, <5>1 DEF Copied, ProjectionFits
      <4> QED BY <2>10, <4>1, <4>2 DEF Projection!CacheSet
    <3>4. \A q \in Orders \ {o} : Copied(q)' BY <2>6, <3>1, <3>2 DEF Copied
    <3> QED BY <2>2, <3>1, <3>3, <3>4, ProjectionCalmHeld
  <2>11. CASE Projection!Invalidate(g)
    <3>1. /\ run' = [run EXCEPT ![g] = Idle] /\ UNCHANGED <<write, read>>
          /\ cache' = [cache EXCEPT ![o] = Projection!None]
        BY <2>3, <2>11, IdleIsIdle DEF Projection!Invalidate, Projection!Return
    <3>2. \A q \in Orders \ {o} : cache'[q] = cache[q] BY <3>1 DEF Projection!TypeOK
    <3>3. write[o] = Projection!None
        BY <2>3, <2>5, <2>11 DEF Projection!Invalidate, ProjectionFits
    <3>4. \A q \in Orders : Copied(q)' BY <2>6, <3>1, <3>2, <3>3 DEF Copied
    <3> QED BY <2>2, <3>1, <3>4, ProjectionCalmHeld
  <2> QED BY <1>6, <2>3, <2>7, <2>8, <2>9, <2>10, <2>11 DEF Projection!Continue
<1> QED BY <1>1, <1>4, <1>5, <1>6

LEMMA ProjectionSound ==
    Projection!TypeOK /\ ProjectionCalm /\ BusyIn(run) = {} => Projection!ReadModelAgrees
<1> SUFFICES ASSUME Projection!TypeOK, ProjectionCalm, BusyIn(run) = {}
             PROVE  Projection!ReadModelAgrees
    OBVIOUS
<1>1. \A h \in Goroutines : run[h] = Idle BY DEF BusyIn, Projection!TypeOK
<1> QED BY <1>1, AllCopied DEF Copied, Projection!ReadModelAgrees, Projection!None

-----------------------------------------------------------------------------
(* Payments.                                                               *)

\* What holds for a request, however requests interleave and calls fail.
PaymentKnows(c) ==
    /\ c.pc \in {"completed", "completeKey"} => charged[c.id] > 0 /\ paid[c.row.key] > 0
    /\ attempt[c.id] # Payment!Absent => attempt[c.id].key = c.row.key
    /\ UpdateInserts /\ c.pc \notin {"saveKey", "resetKey", "processing"} =>
           attempt[c.id] # Payment!Absent

PaymentIInv ==
    /\ Payment!TypeOK
    /\ Payment!CompletedWasCharged
    /\ UpdateInserts =>
           \A a \in Payment!Attempts : attempt[a] = Payment!Absent => charged[a] = 0
    /\ \A p \in Procs : payment[p] # Idle => PaymentKnows(payment[p])
    /\ \A p, q \in Procs :
           payment[p] # Idle /\ payment[q] # Idle /\ payment[p].id = payment[q].id =>
               payment[p].row.key = payment[q].row.key

Unpaid(k) == \A b \in Payment!OfKey(k) : charged[b] = 0

\* What holds for the only request under way.
PaymentFits(c) ==
    /\ \A b \in Payment!OfKey(c.row.key) : b <= c.id
    /\ \A b \in 1 .. c.id - 1 : attempt[b] # Payment!Absent
    /\ c.pc \notin {"completed", "completeKey"} => Unpaid(c.row.key)
    /\ c.pc \notin {"saveKey", "resetKey"} => key[c.row.key] = "pending"
    /\ c.pc = "resetKey" => key[c.row.key] # "absent"
    /\ c.pc \in {"charge", "completed"} => attempt[c.id].status = "processing"
    /\ c.pc \in {"completed", "completeKey"} => charged[c.id] = 1
    /\ c.pc = "completeKey" => attempt[c.id].status = "completed"

\* What was charged was charged once, for the last attempt of its key, which
\* will not be tried again.
PaidOnce(a) ==
    /\ charged[a] = 1
    /\ Payment!IsLast(a, attempt[a].key)
    /\ attempt[a].status \in {"processing", "completed"}
    /\ key[attempt[a].key] \in {"pending", "completed"}

PaymentCalm ==
    /\ UpdateInserts
    /\ One(payment)
    /\ \A a \in Payment!Attempts : attempt[a] # Payment!Absent =>
           /\ key[attempt[a].key] # "absent"
           /\ \A b \in 1 .. a - 1 : attempt[b] # Payment!Absent
    /\ \A a \in Payment!Attempts : charged[a] # 0 => PaidOnce(a)
    /\ \A k \in Keys : paid[k] # 0 => paid[k] = 1 /\ ~Unpaid(k)
    /\ Payment!RepeatSeesPayment
    /\ \A p \in Procs : payment[p] # Idle => PaymentFits(payment[p])

LEMMA KeysAreKeys == Payment!Idle = Idle /\ Idle.pc = "idle" /\ Payment!Absent.key \notin Keys
                     /\ Payment!Absent.status = "absent"
BY OrderLibrariesAssumption DEF Payment!Idle, Idle, Payment!Absent

LEMMA PaymentHolds ==
    ASSUME Payment!TypeOK, NEW p \in Procs, payment[p] # Idle
    PROVE  /\ payment[p] \in Payment!Call
           /\ payment[p].id \in Payment!Attempts
           /\ payment[p].row \in Payment!Row
           /\ payment[p].row.key \in Keys
           /\ payment[p].row.number \in 1 .. MaxRetries
BY KeysAreKeys DEF Payment!TypeOK, Payment!Call, Payment!Row

\* An attempt that is there is a row.
LEMMA AttemptIsRow ==
    ASSUME Payment!TypeOK, NEW a \in Payment!Attempts
    PROVE  /\ attempt[a] = Payment!Absent \/ attempt[a] \in Payment!Row
           /\ attempt[a] # Payment!Absent => attempt[a].key \in Keys
           /\ \A k \in Keys : a \in Payment!OfKey(k) <=>
                attempt[a] # Payment!Absent /\ attempt[a].key = k
           /\ charged[a] \in Nat
<1>1. attempt[a] = Payment!Absent \/ attempt[a] \in Payment!Row BY DEF Payment!TypeOK
<1>2. attempt[a] \in Payment!Row => attempt[a].key \in Keys BY DEF Payment!Row
<1>3. \A k \in Keys : attempt[a] = Payment!Absent => attempt[a].key # k BY KeysAreKeys
<1> QED BY <1>1, <1>2, <1>3 DEF Payment!OfKey, Payment!TypeOK

LEMMA PaymentInit == Payment!Init => PaymentIInv /\ (UpdateInserts => PaymentCalm)
<1> SUFFICES ASSUME Payment!Init PROVE PaymentIInv /\ (UpdateInserts => PaymentCalm)
    OBVIOUS
<1>1. \A p \in Procs : payment[p] = Idle BY KeysAreKeys DEF Payment!Init
<1>2. \A a \in Payment!Attempts : attempt[a] = Payment!Absent /\ charged[a] = 0
    BY DEF Payment!Init
<1>3. \A k \in Keys : key[k] = "absent" /\ paid[k] = 0 BY DEF Payment!Init
<1>4. Payment!TypeOK BY DEF Payment!Init, Payment!TypeOK
<1>5. Payment!CompletedWasCharged BY <1>2, <1>3, KeysAreKeys DEF Payment!CompletedWasCharged
<1>6. Payment!RepeatSeesPayment BY <1>3 DEF Payment!RepeatSeesPayment
<1>7. DOMAIN payment = Procs BY DEF Payment!Init
<1>8. PaymentIInv BY <1>1, <1>2, <1>4, <1>5 DEF PaymentIInv
<1>9. ASSUME UpdateInserts PROVE PaymentCalm
    BY <1>1, <1>2, <1>3, <1>6, <1>7, <1>9 DEF PaymentCalm, One
<1> QED BY <1>8, <1>9

\* A request goes on, or a key changes; a key is completed only when it was paid.
LEMMA PaymentHeld ==
    ASSUME PaymentIInv, NEW p \in Procs, NEW c \in {Idle} \cup Payment!Call,
           payment' = [payment EXCEPT ![p] = c], UNCHANGED <<attempt, charged, paid>>,
           key' \in [Keys -> {"absent", "pending", "completed", "failed"}],
           \A k \in Keys : key'[k] = "completed" =>
               key[k] = "completed" \/ paid[k] > 0,
           c # Idle =>
               /\ PaymentKnows(c)
               /\ \A q \in Procs \ {p} :
                      payment[q] # Idle /\ payment[q].id = c.id => payment[q].row.key = c.row.key
    PROVE  PaymentIInv'
<1>1. Payment!TypeOK' BY KeysAreKeys DEF PaymentIInv, Payment!TypeOK
<1>2. \A q \in Procs : payment'[q] = IF q = p THEN c ELSE payment[q]
    BY DEF PaymentIInv, Payment!TypeOK
<1>4. Payment!CompletedWasCharged' BY DEF PaymentIInv, Payment!CompletedWasCharged
<1>5. \A q \in Procs : payment'[q] # Idle => PaymentKnows(payment[q])'
    BY <1>2 DEF PaymentIInv, PaymentKnows
<1> QED BY <1>1, <1>2, <1>4, <1>5 DEF PaymentIInv

\* An attempt is stored, or charged.
LEMMA PaymentStored ==
    ASSUME PaymentIInv, NEW p \in Procs, payment[p] # Idle, NEW row \in Payment!Row,
           NEW c \in {Idle} \cup Payment!Call,
           payment' = [payment EXCEPT ![p] = c], UNCHANGED <<key, charged, paid>>,
           row.key = payment[p].row.key,
           attempt' = [attempt EXCEPT ![payment[p].id] = row],
           row.status = "completed" => charged[payment[p].id] > 0,
           c # Idle =>
               /\ c.id = payment[p].id /\ c.row.key = payment[p].row.key
               /\ c.pc \in {"completed", "completeKey"} =>
                      charged[c.id] > 0 /\ paid[c.row.key] > 0
    PROVE  PaymentIInv'
<1>1. PICK i, k : i = payment[p].id /\ k = payment[p].row.key OBVIOUS
<1>2. i \in Payment!Attempts /\ k \in Keys BY <1>1, PaymentHolds DEF PaymentIInv
<1>3. Payment!TypeOK' BY <1>2, KeysAreKeys DEF PaymentIInv, Payment!TypeOK
<1>4. /\ \A q \in Procs : payment'[q] = IF q = p THEN c ELSE payment[q]
      /\ \A a \in Payment!Attempts : attempt'[a] = IF a = i THEN row ELSE attempt[a]
    BY <1>1 DEF PaymentIInv, Payment!TypeOK
<1>5. row # Payment!Absent BY <1>1, <1>2, KeysAreKeys
<1>8. Payment!CompletedWasCharged'
  <2>1. \A a \in Payment!Attempts : attempt'[a].status = "completed" => charged'[a] > 0
      BY <1>1, <1>4 DEF PaymentIInv, Payment!CompletedWasCharged
  <2>2. \A l \in Keys : key'[l] = "completed" => paid'[l] > 0
      BY DEF PaymentIInv, Payment!CompletedWasCharged
  <2> QED BY <2>1, <2>2 DEF Payment!CompletedWasCharged, Payment!Attempts
<1>9. ASSUME NEW q \in Procs, payment'[q] # Idle PROVE PaymentKnows(payment[q])'
  <2>1. CASE q = p
    <3>1. /\ c.id = i /\ c.row.key = k /\ payment'[q] = c /\ attempt'[i] = row
          /\ c.pc \in {"completed", "completeKey"} => charged'[i] > 0 /\ paid'[k] > 0
        BY <1>1, <1>2, <1>4, <1>9, <2>1
    <3> QED BY <1>1, <1>5, <3>1 DEF PaymentKnows
  <2>2. CASE q # p
    <3>1. payment'[q] = payment[q] /\ payment[q] # Idle BY <1>4, <1>9, <2>2
    <3>2. payment[q].id \in Payment!Attempts BY <3>1, PaymentHolds DEF PaymentIInv
    <3>3. PaymentKnows(payment[q]) /\ (payment[q].id = i => payment[q].row.key = k)
        BY <1>1, <3>1 DEF PaymentIInv
    <3>4. CASE payment[q].id = i
        BY <1>1, <1>4, <1>5, <3>1, <3>2, <3>3, <3>4 DEF PaymentKnows
    <3>5. CASE payment[q].id # i
        BY <1>4, <3>1, <3>2, <3>3, <3>5 DEF PaymentKnows
    <3> QED BY <3>4, <3>5
  <2> QED BY <2>1, <2>2
<1>10. ASSUME UpdateInserts, NEW a \in Payment!Attempts, attempt'[a] = Payment!Absent
       PROVE  charged'[a] = 0
    BY <1>4, <1>5, <1>10 DEF PaymentIInv
<1>11. \A q, r \in Procs :
           payment'[q] # Idle /\ payment'[r] # Idle /\ payment'[q].id = payment'[r].id =>
               payment'[q].row.key = payment'[r].row.key
    BY <1>4 DEF PaymentIInv
<1> QED BY <1>3, <1>8, <1>9, <1>10, <1>11 DEF PaymentIInv, Payment!Attempts

LEMMA PaymentCharged ==
    ASSUME PaymentIInv, NEW p \in Procs, payment[p] # Idle, payment[p].pc = "charge",
           NEW c \in Payment!Call, c.id = payment[p].id, c.row = payment[p].row,
           payment' = [payment EXCEPT ![p] = c], UNCHANGED <<key, attempt>>,
           Payment!Pay(p)
    PROVE  PaymentIInv'
<1>1. PICK i, k : i = payment[p].id /\ k = payment[p].row.key OBVIOUS
<1>2. /\ i \in Payment!Attempts /\ charged[i] \in Nat
      /\ k \in Keys /\ paid[k] \in Nat
      /\ charged' = [charged EXCEPT ![i] = @ + 1] /\ paid' = [paid EXCEPT ![k] = @ + 1]
    BY <1>1, PaymentHolds DEF PaymentIInv, Payment!TypeOK, Payment!Pay
<1>3. Payment!TypeOK' BY <1>1, <1>2, KeysAreKeys DEF PaymentIInv, Payment!TypeOK
<1>4. /\ \A q \in Procs : payment'[q] = IF q = p THEN c ELSE payment[q]
      /\ \A a \in Payment!Attempts : charged'[a] = IF a = i THEN charged[i] + 1 ELSE charged[a]
      /\ \A l \in Keys : paid'[l] = IF l = k THEN paid[k] + 1 ELSE paid[l]
    BY <1>2 DEF PaymentIInv, Payment!TypeOK
<1>5. /\ \A a \in Payment!Attempts : (charged[a] > 0 => charged'[a] > 0) /\ charged'[i] > 0
      /\ \A l \in Keys : (paid[l] > 0 => paid'[l] > 0) /\ paid'[k] > 0
    BY <1>2, <1>4
<1>7. Payment!CompletedWasCharged'
  <2>1. \A a \in Payment!Attempts : attempt'[a].status = "completed" => charged'[a] > 0
      BY <1>5 DEF PaymentIInv, Payment!CompletedWasCharged
  <2>2. \A l \in Keys : key'[l] = "completed" => paid'[l] > 0
      BY <1>5 DEF PaymentIInv, Payment!CompletedWasCharged
  <2> QED BY <2>1, <2>2 DEF Payment!CompletedWasCharged, Payment!Attempts
<1>8. UpdateInserts => attempt[i] # Payment!Absent
    BY <1>1 DEF PaymentIInv, PaymentKnows
<1>9. ASSUME NEW q \in Procs, payment'[q] # Idle PROVE PaymentKnows(payment[q])'
  <2>1. payment[q] # Idle /\ payment'[q].id = payment[q].id
        /\ payment'[q].row.key = payment[q].row.key
        /\ (q # p => payment'[q] = payment[q])
      BY <1>4, <1>9
  <2>2. payment[q].id \in Payment!Attempts /\ payment[q].row.key \in Keys
      BY <2>1, PaymentHolds DEF PaymentIInv
  <2>3. PaymentKnows(payment[q]) BY <2>1 DEF PaymentIInv
  <2>4. CASE q = p
    <3>1. payment[q].id = i /\ payment[q].row.key = k BY <1>1, <2>4
    <3>2. payment'[q].id = i /\ payment'[q].row.key = k BY <2>1, <3>1
    <3>3. charged'[i] > 0 /\ paid'[k] > 0 BY <1>2, <1>5
    <3>5. attempt[i] # Payment!Absent => attempt[i].key = k
        BY <2>3, <3>1 DEF PaymentKnows
    <3>4. UpdateInserts => attempt'[i] # Payment!Absent BY <1>8
    <3> QED BY <3>2, <3>3, <3>4, <3>5 DEF PaymentKnows
  <2>5. CASE q # p BY <1>5, <2>1, <2>2, <2>3, <2>5 DEF PaymentKnows
  <2> QED BY <2>4, <2>5
<1>10. UpdateInserts =>
           \A a \in Payment!Attempts : attempt'[a] = Payment!Absent => charged'[a] = 0
    BY <1>4, <1>8 DEF PaymentIInv
<1>11. \A q, r \in Procs :
           payment'[q] # Idle /\ payment'[r] # Idle /\ payment'[q].id = payment'[r].id =>
               payment'[q].row.key = payment'[r].row.key
    BY <1>4 DEF PaymentIInv
<1> QED BY <1>3, <1>7, <1>9, <1>10, <1>11 DEF PaymentIInv, Payment!Attempts

LEMMA NewAttemptHeld ==
    ASSUME PaymentIInv, NEW p \in Procs, NEW k \in Keys, Payment!NewAttempt(p, k)
    PROVE  PaymentIInv'
<1>1. PICK a, c :
          /\ a \in Payment!Attempts /\ Payment!Fresh(a)
          /\ payment' = [payment EXCEPT ![p] = c]
          /\ c = [pc |-> "saveKey", id |-> a,
                  row |-> [key |-> k, status |-> "pending", number |-> 1]]
    BY DEF Payment!NewAttempt, Payment!Hold, Payment!Attempts
<1>2. 1 \in 1 .. MaxRetries BY TriesAre
<1>3. c \in Payment!Call BY <1>1, <1>2 DEF Payment!Call, Payment!Row
<1>4. PaymentKnows(c) BY <1>1 DEF PaymentKnows, Payment!Fresh
<1>5. \A q \in Procs : payment[q] # Idle => payment[q].id # c.id
    BY <1>1, KeysAreKeys DEF Payment!Fresh
<1>6. UNCHANGED <<key, attempt, charged, paid>> BY DEF Payment!NewAttempt
<1>7. key \in [Keys -> {"absent", "pending", "completed", "failed"}]
    BY DEF PaymentIInv, Payment!TypeOK
<1> QED BY <1>1, <1>3, <1>4, <1>5, <1>6, <1>7, PaymentHeld

LEMMA RetryHeld ==
    ASSUME PaymentIInv, NEW p \in Procs, NEW a \in Payment!Attempts,
           Payment!RetryFailedPayment(p, a)
    PROVE  PaymentIInv'
<1>1. PICK c :
          /\ c = [pc |-> "resetKey", id |-> a,
                  row |-> [attempt[a] EXCEPT !.status = "pending", !.number = 1]]
          /\ payment' = [payment EXCEPT ![p] = c]
    BY DEF Payment!RetryFailedPayment, Payment!Hold
<1>2. 1 \in 1 .. MaxRetries BY TriesAre
<1>3. attempt[a] # Payment!Absent BY KeysAreKeys DEF Payment!RetryFailedPayment
<1>4. attempt[a] \in Payment!Row BY <1>3, AttemptIsRow DEF PaymentIInv
<1>5. c \in Payment!Call /\ c.row.key = attempt[a].key
    BY <1>1, <1>2, <1>4 DEF Payment!Call, Payment!Row
<1>6. PaymentKnows(c) BY <1>1, <1>5 DEF PaymentKnows
<1>7. \A q \in Procs : payment[q] # Idle /\ payment[q].id = c.id =>
                          payment[q].row.key = c.row.key
    BY <1>1, <1>3, <1>5 DEF PaymentIInv, PaymentKnows
<1>8. UNCHANGED <<key, attempt, charged, paid>> BY DEF Payment!RetryFailedPayment
<1>9. key \in [Keys -> {"absent", "pending", "completed", "failed"}]
    BY DEF PaymentIInv, Payment!TypeOK
<1> QED BY <1>1, <1>5, <1>6, <1>7, <1>8, <1>9, PaymentHeld

\* A request ends; a key changes, to completed only when it was paid.
LEMMA ReturnHeld ==
    ASSUME PaymentIInv, NEW p \in Procs, payment' = [payment EXCEPT ![p] = Idle],
           UNCHANGED <<attempt, charged, paid>>,
           key' \in [Keys -> {"absent", "pending", "completed", "failed"}],
           \A k \in Keys : key'[k] = "completed" =>
               key[k] = "completed" \/ paid[k] > 0
    PROVE  PaymentIInv'
BY PaymentHeld

\* A request goes on with the same attempt.
LEMMA ThenHeld ==
    ASSUME PaymentIInv, NEW p \in Procs, payment[p] # Idle, NEW pc,
           pc \in {"processing", "completed", "failed"},
           pc # "processing" => payment[p].pc = "charge" /\ pc = "failed",
           Payment!Then(p, pc), UNCHANGED <<attempt, charged, paid>>,
           key' \in [Keys -> {"absent", "pending", "completed", "failed"}],
           \A k \in Keys : key'[k] = "completed" => key[k] = "completed"
    PROVE  PaymentIInv'
<1>1. PICK c : /\ c = [pc |-> pc, id |-> payment[p].id, row |-> payment[p].row]
               /\ payment' = [payment EXCEPT ![p] = c]
    BY DEF Payment!Then, Payment!Hold
<1>2. c \in Payment!Call BY <1>1, PaymentHolds DEF PaymentIInv, Payment!Call
<1>3. PaymentKnows(c) BY <1>1 DEF PaymentIInv, PaymentKnows
<1>4. \A q \in Procs : payment[q] # Idle /\ payment[q].id = c.id =>
                          payment[q].row.key = c.row.key
    BY <1>1 DEF PaymentIInv
<1> QED BY <1>1, <1>2, <1>3, <1>4, PaymentHeld

LEMMA SetKeyKeeps ==
    ASSUME Payment!TypeOK, NEW k \in Keys, NEW status \in {"pending", "completed", "failed"},
           Payment!SetKey(k, status)
    PROVE  /\ key' \in [Keys -> {"absent", "pending", "completed", "failed"}]
           /\ key'[k] = IF key[k] = "absent" THEN "absent" ELSE status
           /\ \A l \in Keys \ {k} : key'[l] = key[l]
BY DEF Payment!TypeOK, Payment!SetKey

\* An attempt is stored, and the request goes on with it, or returns.
LEMMA StoreHeld ==
    ASSUME PaymentIInv, NEW p \in Procs, payment[p] # Idle,
           NEW status \in {"processing", "completed", "failed"},
           status = "completed" => payment[p].pc = "completed",
           Payment!StoreAttempt(p, status), UNCHANGED <<key, charged, paid>>,
           \/ status = "processing" /\ Payment!Then(p, "charge")
           \/ status = "completed" /\ Payment!Then(p, "completeKey")
           \/ status = "failed" /\ Payment!AfterFailure(p)
    PROVE  PaymentIInv'
<1>1. PICK i, row : i = payment[p].id /\ row = payment[p].row OBVIOUS
<1>2. /\ i \in Payment!Attempts /\ row \in Payment!Row
      /\ row.key \in Keys /\ row.number \in 1 .. MaxRetries
    BY <1>1, PaymentHolds DEF PaymentIInv
<1>3. PICK stored : stored = [row EXCEPT !.status = status] OBVIOUS
<1>4. stored \in Payment!Row /\ stored.key = row.key /\ stored.status = status
    BY <1>2, <1>3 DEF Payment!Row
<1>5. \/ attempt' = [attempt EXCEPT ![i] = stored]
      \/ attempt' = attempt /\ ~UpdateInserts /\ attempt[i] = Payment!Absent
    BY <1>1, <1>3 DEF Payment!StoreAttempt
<1>6. PICK c :
          /\ payment' = [payment EXCEPT ![p] = c]
          /\ c.id = i /\ c.row.key = row.key /\ c \in Payment!Call
          /\ status # "completed" => c.pc \in {"charge", "processing", "failKey"}
  <2>1. CASE status = "processing" /\ Payment!Then(p, "charge")
    <3>1. PICK c : c = [pc |-> "charge", id |-> i, row |-> row] OBVIOUS
    <3>2. c.id = i /\ c.row.key = row.key /\ c \in Payment!Call /\ c.pc = "charge"
        BY <1>2, <3>1 DEF Payment!Call
    <3>3. payment' = [payment EXCEPT ![p] = c]
        BY <1>1, <2>1, <3>1 DEF Payment!Then, Payment!Hold
    <3> QED BY <2>1, <3>2, <3>3
  <2>2. CASE status = "completed" /\ Payment!Then(p, "completeKey")
    <3>1. PICK c : c = [pc |-> "completeKey", id |-> i, row |-> row] OBVIOUS
    <3>2. c.id = i /\ c.row.key = row.key /\ c \in Payment!Call /\ c.pc = "completeKey"
        BY <1>2, <3>1 DEF Payment!Call
    <3>3. payment' = [payment EXCEPT ![p] = c]
        BY <1>1, <2>2, <3>1 DEF Payment!Then, Payment!Hold
    <3> QED BY <2>2, <3>2, <3>3
  <2>3. CASE status = "failed" /\ Payment!AfterFailure(p) /\ row.number < MaxRetries
    <3>1. PICK again : again = [row EXCEPT !.number = @ + 1] OBVIOUS
    <3>2. row.number + 1 \in 1 .. MaxRetries BY <1>2, <2>3, TriesAre
    <3>3. again \in Payment!Row /\ again.key = row.key BY <1>2, <3>1, <3>2 DEF Payment!Row
    <3>4. PICK c : c = [pc |-> "processing", id |-> i, row |-> again] OBVIOUS
    <3>5. c \in Payment!Call BY <1>2, <3>3, <3>4 DEF Payment!Call
    <3>6. payment' = [payment EXCEPT ![p] = c]
        BY <1>1, <2>3, <3>1, <3>4 DEF Payment!AfterFailure, Payment!Hold
    <3>7. c.id = i /\ c.row.key = row.key /\ c.pc = "processing" BY <3>3, <3>4
    <3> QED BY <2>3, <3>5, <3>6, <3>7
  <2>4. CASE status = "failed" /\ Payment!AfterFailure(p) /\ ~(row.number < MaxRetries)
    <3>1. PICK c : c = [pc |-> "failKey", id |-> i, row |-> row] OBVIOUS
    <3>2. payment' = [payment EXCEPT ![p] = c]
        BY <1>1, <2>4, <3>1 DEF Payment!AfterFailure, Payment!Then, Payment!Hold
    <3>3. c.id = i /\ c.row.key = row.key /\ c \in Payment!Call /\ c.pc = "failKey"
        BY <1>2, <3>1 DEF Payment!Call
    <3> QED BY <2>4, <3>2, <3>3
  <2> QED BY <2>1, <2>2, <2>3, <2>4
<1>7. status = "completed" => charged[i] > 0 /\ paid[row.key] > 0
    BY <1>1 DEF PaymentIInv, PaymentKnows
<1>8. c.pc \in {"completed", "completeKey"} => charged[c.id] > 0 /\ paid[c.row.key] > 0
    BY <1>6, <1>7
<1>9. CASE attempt' = [attempt EXCEPT ![i] = stored]
    BY <1>1, <1>2, <1>4, <1>6, <1>7, <1>8, <1>9, PaymentStored
<1>10. CASE attempt' = attempt /\ ~UpdateInserts /\ attempt[i] = Payment!Absent
  <2>1. PaymentKnows(c) BY <1>6, <1>8, <1>10 DEF PaymentKnows
  <2>2. \A q \in Procs : payment[q] # Idle /\ payment[q].id = c.id =>
                            payment[q].row.key = c.row.key
      BY <1>1, <1>6 DEF PaymentIInv
  <2>3. key' \in [Keys -> {"absent", "pending", "completed", "failed"}]
      BY DEF PaymentIInv, Payment!TypeOK
  <2> QED BY <1>6, <1>10, <2>1, <2>2, <2>3, PaymentHeld
<1> QED BY <1>5, <1>9, <1>10

LEMMA ChargeHeld ==
    ASSUME PaymentIInv, NEW p \in Procs, Payment!Charge(p) \/ Payment!ChargeAnswerLost(p)
    PROVE  PaymentIInv'
<1>1. payment[p].pc = "charge" /\ payment[p] # Idle
    BY KeysAreKeys DEF Payment!Charge, Payment!ChargeAnswerLost
<1>2. PICK c :
          /\ c.id = payment[p].id /\ c.row = payment[p].row
          /\ payment' = [payment EXCEPT ![p] = c] /\ c \in Payment!Call
  <2>1. ASSUME NEW pc \in {"completed", "failed"}, Payment!Then(p, pc)
        PROVE  \E c : /\ c.id = payment[p].id /\ c.row = payment[p].row
                      /\ payment' = [payment EXCEPT ![p] = c] /\ c \in Payment!Call
    <3>1. PICK c : c = [pc |-> pc, id |-> payment[p].id, row |-> payment[p].row] OBVIOUS
    <3>2. c \in Payment!Call BY <1>1, <3>1, PaymentHolds DEF PaymentIInv, Payment!Call
    <3> QED BY <2>1, <3>1, <3>2 DEF Payment!Then, Payment!Hold
  <2> QED BY <2>1 DEF Payment!Charge, Payment!ChargeAnswerLost
<1> QED BY <1>1, <1>2, PaymentCharged DEF Payment!Charge, Payment!ChargeAnswerLost

\* The key is set to what became of the attempt.
LEMMA FinishHeld ==
    ASSUME PaymentIInv, NEW p \in Procs, Payment!FinishKey(p)
    PROVE  PaymentIInv'
<1>1. payment[p] # Idle BY KeysAreKeys DEF Payment!FinishKey
<1>2. PICK i, k : i = payment[p].id /\ k = payment[p].row.key OBVIOUS
<1>3. i \in Payment!Attempts /\ k \in Keys BY <1>1, <1>2, PaymentHolds DEF PaymentIInv
<1>4. PICK status \in {"completed", "failed"} :
          /\ Payment!SetKey(k, status)
          /\ status = "completed" => payment[p].pc = "completeKey"
    BY <1>2 DEF Payment!FinishKey
<1>5. /\ key' \in [Keys -> {"absent", "pending", "completed", "failed"}]
      /\ key'[k] = IF key[k] = "absent" THEN "absent" ELSE status
      /\ \A l \in Keys \ {k} : key'[l] = key[l]
    BY <1>3, <1>4, SetKeyKeeps DEF PaymentIInv
<1>6. status = "completed" => paid[k] > 0
    BY <1>1, <1>2, <1>4 DEF PaymentIInv, PaymentKnows
<1> QED BY <1>4, <1>5, <1>6, ReturnHeld DEF Payment!FinishKey, Payment!Return, Payment!Idle, Idle

LEMMA PaymentStep == PaymentIInv /\ Payment!Next => PaymentIInv'
<1> SUFFICES ASSUME PaymentIInv, Payment!Next PROVE PaymentIInv'
    OBVIOUS
<1>1. key \in [Keys -> {"absent", "pending", "completed", "failed"}]
    BY DEF PaymentIInv, Payment!TypeOK
<1>2. ASSUME NEW p \in Procs, Payment!Request(p) \/ Payment!Retry(p) PROVE PaymentIInv'
    BY <1>2, NewAttemptHeld, RetryHeld
       DEF Payment!Request, Payment!Retry, Payment!ProcessPaymentWithIdempotency, Payment!Attempts
<1>3. ASSUME NEW p \in Procs, Payment!SaveKey(p) PROVE PaymentIInv'
  <2>1. payment[p] # Idle BY <1>3, KeysAreKeys DEF Payment!SaveKey
  <2>2. payment[p].row.key \in Keys BY <2>1, PaymentHolds DEF PaymentIInv
  <2>3. /\ key' \in [Keys -> {"absent", "pending", "completed", "failed"}]
        /\ \A k \in Keys : key'[k] = "completed" => key[k] = "completed"
      BY <1>1, <1>3, <2>2 DEF Payment!SaveKey
  <2> QED BY <1>3, <2>1, <2>3, ThenHeld DEF Payment!SaveKey
<1>4. ASSUME NEW p \in Procs, Payment!ResetKey(p) PROVE PaymentIInv'
  <2>1. payment[p] # Idle BY <1>4, KeysAreKeys DEF Payment!ResetKey
  <2>2. payment[p].row.key \in Keys BY <2>1, PaymentHolds DEF PaymentIInv
  <2>3. /\ key' \in [Keys -> {"absent", "pending", "completed", "failed"}]
        /\ \A k \in Keys : key'[k] = "completed" => key[k] = "completed"
      BY <1>4, <2>2, SetKeyKeeps DEF Payment!ResetKey, PaymentIInv
  <2> QED BY <1>4, <2>1, <2>3, ThenHeld DEF Payment!ResetKey
<1>5. ASSUME NEW p \in Procs, Payment!ChargeRefused(p) PROVE PaymentIInv'
  <2>1. payment[p] # Idle BY <1>5, KeysAreKeys DEF Payment!ChargeRefused
  <2> QED BY <1>1, <1>5, <2>1, ThenHeld DEF Payment!ChargeRefused
<1>6. ASSUME NEW p \in Procs,
             Payment!StoreProcessing(p) \/ Payment!StoreCompleted(p) \/ Payment!StoreFailed(p)
      PROVE  PaymentIInv'
  <2>1. payment[p] # Idle
      BY <1>6, KeysAreKeys
         DEF Payment!StoreProcessing, Payment!StoreCompleted, Payment!StoreFailed
  <2> QED BY <1>6, <2>1, StoreHeld
             DEF Payment!StoreProcessing, Payment!StoreCompleted, Payment!StoreFailed
<1>7. ASSUME NEW p \in Procs, Payment!Continue(p) PROVE PaymentIInv'
    BY <1>3, <1>4, <1>5, <1>6, <1>7, ChargeHeld, FinishHeld DEF Payment!Continue
<1>8. ASSUME NEW p \in Procs, Payment!StoreError(p) PROVE PaymentIInv'
    BY <1>1, <1>8, ReturnHeld, KeysAreKeys DEF Payment!StoreError, Payment!Return
<1>9. ASSUME Payment!Crash PROVE PaymentIInv'
  <2>1. \A q \in Procs : payment'[q] = Idle BY <1>9, KeysAreKeys DEF Payment!Crash
  <2>2. Payment!TypeOK' BY <1>9 DEF Payment!Crash, PaymentIInv, Payment!TypeOK
  <2>3. Payment!CompletedWasCharged'
      BY <1>9 DEF Payment!Crash, PaymentIInv, Payment!CompletedWasCharged
  <2> QED BY <1>9, <2>1, <2>2, <2>3 DEF Payment!Crash, PaymentIInv
<1>10. ASSUME NEW k \in Keys, Payment!CleanupExpiredKeys(k) PROVE PaymentIInv'
  <2>1. key' \in [Keys -> {"absent", "pending", "completed", "failed"}]
      BY <1>1, <1>10 DEF Payment!CleanupExpiredKeys
  <2>2. \A l \in Keys : key'[l] = "completed" => key[l] = "completed"
      BY <1>1, <1>10 DEF Payment!CleanupExpiredKeys
  <2>3. Payment!TypeOK' BY <1>10, <2>1 DEF Payment!CleanupExpiredKeys, PaymentIInv, Payment!TypeOK
  <2>4. Payment!CompletedWasCharged'
      BY <1>10, <2>2 DEF Payment!CleanupExpiredKeys, PaymentIInv, Payment!CompletedWasCharged
  <2> QED BY <1>10, <2>3, <2>4 DEF Payment!CleanupExpiredKeys, PaymentIInv, PaymentKnows
<1>11. ASSUME NEW p \in Procs, NEW k \in Keys, Payment!LookupError(p, k) PROVE PaymentIInv'
    BY <1>11, NewAttemptHeld DEF Payment!LookupError
<1> QED BY <1>2, <1>7, <1>8, <1>9, <1>10, <1>11, ChargeHeld
        DEF Payment!Next, Payment!Stop, Payment!Forget

-----------------------------------------------------------------------------
(* Payments, when one request runs at a time and nothing is forgotten.     *)

LEMMA CalmAlone ==
    ASSUME PaymentIInv, PaymentCalm, NEW p \in Procs, payment[p] # Idle
    PROVE  /\ PaymentFits(payment[p])
           /\ \A q \in Procs \ {p} : payment[q] = Idle
BY DEF PaymentCalm, One, PaymentIInv, Payment!TypeOK

\* The attempts of a key are numbers.
LEMMA OfKeyNumbers ==
    ASSUME NEW k, NEW a \in Payment!OfKey(k)
    PROVE  a \in Int /\ a \in Payment!Attempts
BY DEF Payment!OfKey, Payment!Attempts

LEMMA LastIsOne ==
    ASSUME NEW k, NEW a, NEW b, Payment!IsLast(a, k), Payment!IsLast(b, k)
    PROVE  a = b
<1>1. a \in Payment!OfKey(k) /\ b \in Payment!OfKey(k) BY DEF Payment!IsLast
<1>2. a <= b /\ b <= a BY <1>1 DEF Payment!IsLast
<1>3. a \in Int /\ b \in Int BY <1>1, OfKeyNumbers
<1> QED BY <1>2, <1>3

\* The only request under way goes on with c; a key that was paid stays in use.
LEMMA PaymentCalmHeld ==
    ASSUME PaymentIInv, PaymentCalm, NEW p \in Procs, NEW c,
           \A q \in Procs \ {p} : payment[q] = Idle,
           payment' = [payment EXCEPT ![p] = c], UNCHANGED <<attempt, charged, paid>>,
           \A l \in Keys : key'[l] = key[l] \/
               /\ key'[l] # "absent"
               /\ ~Unpaid(l) => key'[l] \in {"pending", "completed"}
               /\ key'[l] = "completed" => \A a \in Payment!Attempts :
                      Payment!IsLast(a, l) => attempt[a].status = "completed",
           c # Idle => PaymentFits(c)'
    PROVE  PaymentCalm'
<1>1. /\ payment'[p] = c /\ DOMAIN payment' = Procs
      /\ \A q \in Procs \ {p} : payment'[q] = Idle
    BY DEF PaymentIInv, Payment!TypeOK
<1>2. One(payment)' BY <1>1 DEF One
<1>3. \A l : Payment!OfKey(l)' = Payment!OfKey(l) BY DEF Payment!OfKey
<1>4. \A a, l : Payment!IsLast(a, l)' <=> Payment!IsLast(a, l) BY <1>3 DEF Payment!IsLast
<1>5. \A a \in Payment!Attempts : attempt'[a] # Payment!Absent =>
          /\ key'[attempt'[a].key] # "absent"
          /\ \A b \in 1 .. a - 1 : attempt'[b] # Payment!Absent
  <2> SUFFICES ASSUME NEW a \in Payment!Attempts, attempt[a] # Payment!Absent
               PROVE  /\ key'[attempt[a].key] # "absent"
                      /\ \A b \in 1 .. a - 1 : attempt[b] # Payment!Absent
      OBVIOUS
  <2>1. attempt[a].key \in Keys BY AttemptIsRow DEF PaymentIInv
  <2> QED BY <2>1 DEF PaymentCalm
<1>8. \A l \in Keys : paid'[l] # 0 => paid'[l] = 1 /\ ~Unpaid(l)'
  <2>1. \A l : Unpaid(l)' <=> Unpaid(l) BY <1>3 DEF Unpaid
  <2> QED BY <2>1 DEF PaymentCalm
<1>6. ASSUME NEW a \in Payment!Attempts, charged'[a] # 0 PROVE PaidOnce(a)'
  <2>1. PaidOnce(a) /\ attempt[a] # Payment!Absent BY <1>6 DEF PaymentCalm, PaymentIInv
  <2>2. PICK k \in Keys : k = attempt[a].key BY <2>1, AttemptIsRow DEF PaymentIInv
  <2>3. a \in Payment!OfKey(k) BY <2>2 DEF Payment!OfKey
  <2>4. ~Unpaid(k) BY <1>6, <2>3 DEF Unpaid
  <2>5. key'[k] \in {"pending", "completed"} BY <2>1, <2>2, <2>4 DEF PaidOnce
  <2> QED BY <1>4, <2>1, <2>2, <2>5 DEF PaidOnce
<1>7. Payment!RepeatSeesPayment'
    BY <1>4 DEF PaymentCalm, Payment!RepeatSeesPayment, Payment!Attempts
<1> QED BY <1>1, <1>2, <1>5, <1>6, <1>7, <1>8 DEF PaymentCalm, Payment!Attempts

LEMMA NewAttemptCalm ==
    ASSUME PaymentIInv, PaymentCalm, NEW p \in Procs, NEW k \in Keys,
           Payment!ProcessPaymentWithIdempotency(p, k), One(payment')
    PROVE  PaymentCalm'
<1>1. PICK a, c :
          /\ a \in Payment!Attempts /\ Payment!Fresh(a)
          /\ payment' = [payment EXCEPT ![p] = c]
          /\ c = [pc |-> "saveKey", id |-> a,
                  row |-> [key |-> k, status |-> "pending", number |-> 1]]
    BY DEF Payment!ProcessPaymentWithIdempotency, Payment!NewAttempt, Payment!Hold,
           Payment!Attempts
<1>2. UNCHANGED <<key, attempt, charged, paid>> /\ payment[p] = Idle
    BY KeysAreKeys DEF Payment!ProcessPaymentWithIdempotency, Payment!NewAttempt
<1>3. c # Idle /\ c.id = a /\ c.row.key = k /\ c.pc = "saveKey" BY <1>1, KeysAreKeys
<1>4. \A q \in Procs : payment[q] = Idle
    BY <1>1, <1>2, <1>3 DEF One, PaymentIInv, Payment!TypeOK
<1>5. Unpaid(k)
  <2> SUFFICES ASSUME NEW b \in Payment!OfKey(k), charged[b] # 0 PROVE FALSE
      BY DEF Unpaid
  <2>1. b \in Payment!Attempts /\ attempt[b].key = k BY DEF Payment!OfKey, Payment!Attempts
  <2>2. PaidOnce(b) BY <2>1 DEF PaymentCalm
  <2> QED BY <2>1, <2>2 DEF PaidOnce, Payment!ProcessPaymentWithIdempotency
<1>6. \A b \in 1 .. a - 1 : attempt[b] # Payment!Absent
    BY <1>1, <1>4, KeysAreKeys DEF Payment!Fresh
<1>7. \A b \in Payment!OfKey(k) : b <= a
  <2> SUFFICES ASSUME NEW b \in Payment!OfKey(k), ~(b <= a) PROVE FALSE
      OBVIOUS
  <2>1. b \in Payment!Attempts /\ attempt[b].key = k BY DEF Payment!OfKey, Payment!Attempts
  <2>2. a \in 1 .. b - 1 BY <1>1, <2>1 DEF Payment!Attempts
  <2>3. attempt[b] # Payment!Absent BY <2>1, KeysAreKeys
  <2> QED BY <1>1, <2>1, <2>2, <2>3 DEF PaymentCalm, Payment!Fresh
<1>8. PaymentFits(c)
    BY <1>3, <1>5, <1>6, <1>7 DEF PaymentFits
<1>9. PaymentFits(c)' BY <1>2, <1>8 DEF PaymentFits, Unpaid, Payment!OfKey
<1> QED BY <1>1, <1>2, <1>4, <1>9, PaymentCalmHeld

LEMMA RetryCalm ==
    ASSUME PaymentIInv, PaymentCalm, NEW p \in Procs, NEW a \in Payment!Attempts,
           Payment!RetryFailedPayment(p, a), BusyIn(payment) = {},
           Payment!IsLast(a, attempt[a].key)
    PROVE  PaymentCalm'
<1>1. PICK c :
          /\ c = [pc |-> "resetKey", id |-> a,
                  row |-> [attempt[a] EXCEPT !.status = "pending", !.number = 1]]
          /\ payment' = [payment EXCEPT ![p] = c]
    BY DEF Payment!RetryFailedPayment, Payment!Hold
<1>2. \A q \in Procs : payment[q] = Idle BY DEF BusyIn, PaymentIInv, Payment!TypeOK
<1>3. attempt[a] # Payment!Absent /\ attempt[a].status = "failed"
    BY KeysAreKeys DEF Payment!RetryFailedPayment
<1>4. PICK k \in Keys : k = attempt[a].key BY <1>3, AttemptIsRow DEF PaymentIInv
<1>5. c.id = a /\ c.row.key = k /\ c.pc = "resetKey"
  <2>1. attempt[a] \in Payment!Row BY <1>3, AttemptIsRow DEF PaymentIInv
  <2> QED BY <1>1, <1>4, <2>1 DEF Payment!Row
<1>6. UNCHANGED <<key, attempt, charged, paid>> BY DEF Payment!RetryFailedPayment
<1>7. Unpaid(k)
  <2> SUFFICES ASSUME NEW b \in Payment!OfKey(k), charged[b] # 0 PROVE FALSE
      BY DEF Unpaid
  <2>1. b \in Payment!Attempts /\ attempt[b].key = k BY DEF Payment!OfKey, Payment!Attempts
  <2>2. PaidOnce(b) BY <2>1 DEF PaymentCalm
  <2>3. a = b BY <1>4, <2>1, <2>2, LastIsOne DEF PaidOnce
  <2> QED BY <1>3, <2>2, <2>3 DEF PaidOnce
<1>8. /\ key[k] # "absent"
      /\ \A b \in 1 .. a - 1 : attempt[b] # Payment!Absent
    BY <1>3, <1>4 DEF PaymentCalm
<1>9. \A b \in Payment!OfKey(k) : b <= a BY <1>4 DEF Payment!IsLast
<1>10. PaymentFits(c) BY <1>5, <1>7, <1>8, <1>9 DEF PaymentFits
<1>11. PaymentFits(c)' BY <1>6, <1>10 DEF PaymentFits, Unpaid, Payment!OfKey
<1> QED BY <1>1, <1>2, <1>6, <1>11, PaymentCalmHeld

\* The request ends, and nothing else happens.
LEMMA ReturnCalm ==
    ASSUME PaymentIInv, PaymentCalm, NEW p \in Procs, payment[p] # Idle,
           payment' = [payment EXCEPT ![p] = Idle], UNCHANGED <<key, attempt, charged, paid>>
    PROVE  PaymentCalm'
BY CalmAlone, PaymentCalmHeld

LEMMA CrashCalm ==
    ASSUME PaymentIInv, PaymentCalm, Payment!Crash
    PROVE  PaymentCalm'
<1>1. \A q \in Procs : payment'[q] = Idle BY KeysAreKeys DEF Payment!Crash
<1>2. One(payment)' BY <1>1 DEF One, Payment!Crash
<1> QED BY <1>1, <1>2 DEF Payment!Crash, PaymentCalm, PaidOnce, Unpaid,
                          Payment!RepeatSeesPayment, Payment!IsLast, Payment!OfKey

\* The key of the only request is made pending, and its attempt comes next.
LEMMA PendingCalm ==
    ASSUME PaymentIInv, PaymentCalm, NEW p \in Procs, payment[p] # Idle,
           payment[p].pc \in {"saveKey", "resetKey"}, Payment!Then(p, "processing"),
           UNCHANGED <<attempt, charged, paid>>, key'[payment[p].row.key] = "pending",
           \A l \in Keys \ {payment[p].row.key} : key'[l] = key[l]
    PROVE  PaymentCalm'
<1>1. PICK c : /\ c = [pc |-> "processing", id |-> payment[p].id, row |-> payment[p].row]
               /\ payment' = [payment EXCEPT ![p] = c]
    BY DEF Payment!Then, Payment!Hold
<1>2. PICK i, k : i = payment[p].id /\ k = payment[p].row.key OBVIOUS
<1>3. c.id = i /\ c.row.key = k /\ c.pc = "processing" BY <1>1, <1>2
<1>4. Unpaid(k) /\ PaymentFits(payment[p]) BY <1>2, CalmAlone DEF PaymentFits
<1>5. PaymentFits(c)'
    BY <1>2, <1>3, <1>4 DEF PaymentFits, Unpaid, Payment!OfKey
<1>6. \A q \in Procs \ {p} : payment[q] = Idle BY CalmAlone
<1>7. \A l \in Keys : key'[l] = key[l] \/
          /\ key'[l] # "absent"
          /\ ~Unpaid(l) => key'[l] \in {"pending", "completed"}
          /\ key'[l] = "completed" => \A a \in Payment!Attempts :
                 Payment!IsLast(a, l) => attempt[a].status = "completed"
    BY <1>2
<1> QED BY <1>1, <1>5, <1>6, <1>7, PaymentCalmHeld

LEMMA SaveKeyCalm ==
    ASSUME PaymentIInv, PaymentCalm, NEW p \in Procs, Payment!SaveKey(p)
    PROVE  PaymentCalm'
<1>1. payment[p] # Idle BY KeysAreKeys DEF Payment!SaveKey
<1>2. payment[p].row.key \in Keys BY <1>1, PaymentHolds DEF PaymentIInv
<1>3. /\ key'[payment[p].row.key] = "pending"
      /\ \A l \in Keys \ {payment[p].row.key} : key'[l] = key[l]
    BY <1>2 DEF Payment!SaveKey, PaymentIInv, Payment!TypeOK
<1> QED BY <1>1, <1>3, PendingCalm DEF Payment!SaveKey

LEMMA ResetKeyCalm ==
    ASSUME PaymentIInv, PaymentCalm, NEW p \in Procs, Payment!ResetKey(p)
    PROVE  PaymentCalm'
<1>1. payment[p] # Idle BY KeysAreKeys DEF Payment!ResetKey
<1>2. PICK k \in Keys : k = payment[p].row.key BY <1>1, PaymentHolds DEF PaymentIInv
<1>3. key[k] # "absent" BY <1>1, <1>2, CalmAlone DEF PaymentFits, Payment!ResetKey
<1>4. key'[k] = "pending" /\ \A l \in Keys \ {k} : key'[l] = key[l]
    BY <1>2, <1>3, SetKeyKeeps DEF Payment!ResetKey, PaymentIInv
<1> QED BY <1>1, <1>2, <1>4, PendingCalm DEF Payment!ResetKey

LEMMA ChargeRefusedCalm ==
    ASSUME PaymentIInv, PaymentCalm, NEW p \in Procs, Payment!ChargeRefused(p)
    PROVE  PaymentCalm'
<1>1. payment[p] # Idle /\ payment[p].pc = "charge" BY KeysAreKeys DEF Payment!ChargeRefused
<1>2. PICK c : /\ c = [pc |-> "failed", id |-> payment[p].id, row |-> payment[p].row]
               /\ payment' = [payment EXCEPT ![p] = c]
    BY DEF Payment!ChargeRefused, Payment!Then, Payment!Hold
<1>3. UNCHANGED <<key, attempt, charged, paid>> BY DEF Payment!ChargeRefused
<1>4. PaymentFits(payment[p]) /\ \A q \in Procs \ {p} : payment[q] = Idle
    BY <1>1, CalmAlone
<1>5. c.id = payment[p].id /\ c.row = payment[p].row /\ c.pc = "failed" BY <1>2
<1>6. PaymentFits(c) BY <1>1, <1>4, <1>5 DEF PaymentFits
<1>7. PaymentFits(c)' BY <1>3, <1>6 DEF PaymentFits, Unpaid, Payment!OfKey
<1> QED BY <1>2, <1>3, <1>4, <1>7, PaymentCalmHeld

\* When the only request has charged its attempt, nothing else of its key is paid.
LEMMA OnlyThisPaid ==
    ASSUME PaymentIInv, PaymentCalm, NEW p \in Procs, payment[p] # Idle,
           NEW a \in Payment!OfKey(payment[p].row.key), charged[a] # 0
    PROVE  a = payment[p].id
<1>1. PICK i, k : i = payment[p].id /\ k = payment[p].row.key OBVIOUS
<1>2. i \in Payment!Attempts /\ k \in Keys BY <1>1, PaymentHolds DEF PaymentIInv
<1>3. a \in Payment!Attempts /\ attempt[a].key = k BY <1>1 DEF Payment!OfKey, Payment!Attempts
<1>4. PaidOnce(a) /\ ~Unpaid(k) BY <1>1, <1>3 DEF PaymentCalm, Unpaid
<1>5. payment[p].pc \in {"completed", "completeKey"} /\ charged[i] = 1
    BY <1>1, <1>4, CalmAlone DEF PaymentFits
<1>6. attempt[i] # Payment!Absent /\ attempt[i].key = k
    BY <1>1, <1>5 DEF PaymentIInv, PaymentKnows, PaymentCalm
<1>7. PaidOnce(i) BY <1>2, <1>5 DEF PaymentCalm
<1> QED BY <1>1, <1>3, <1>4, <1>6, <1>7, LastIsOne DEF PaidOnce

\* The attempt of the only request is stored.
LEMMA PaymentCalmStored ==
    ASSUME PaymentIInv, PaymentCalm, NEW p \in Procs, payment[p] # Idle,
           payment[p].pc \notin {"saveKey", "resetKey"}, NEW row, NEW c,
           row # Payment!Absent, row.key = payment[p].row.key,
           charged[payment[p].id] # 0 => row.status \in {"processing", "completed"},
           payment' = [payment EXCEPT ![p] = c], UNCHANGED <<key, charged, paid>>,
           attempt' = [attempt EXCEPT ![payment[p].id] = row],
           c.id = payment[p].id, c.row.key = payment[p].row.key,
           c.pc \notin {"saveKey", "resetKey", "completed"},
           c.pc = "charge" => row.status = "processing",
           c.pc = "completeKey" => charged[payment[p].id] = 1 /\ row.status = "completed",
           c.pc # "completeKey" => Unpaid(payment[p].row.key)
    PROVE  PaymentCalm'
<1>1. PICK i, k : i = payment[p].id /\ k = payment[p].row.key OBVIOUS
<1>2. i \in Payment!Attempts /\ k \in Keys BY <1>1, PaymentHolds DEF PaymentIInv
<1>3. /\ payment'[p] = c /\ DOMAIN payment' = Procs
      /\ \A q \in Procs \ {p} : payment'[q] = Idle
    BY CalmAlone DEF PaymentIInv, Payment!TypeOK
<1>4. attempt'[i] = row /\ \A a \in Payment!Attempts \ {i} : attempt'[a] = attempt[a]
    BY <1>1, <1>2 DEF PaymentIInv, Payment!TypeOK
<1>5. attempt[i] = Payment!Absent \/ attempt[i].key = k BY <1>1 DEF PaymentIInv, PaymentKnows
<1>6. /\ \A b \in Payment!OfKey(k) : b <= i
      /\ \A b \in 1 .. i - 1 : attempt[b] # Payment!Absent
      /\ key[k] = "pending"
    BY <1>1, CalmAlone DEF PaymentFits
<1>7. /\ \A l \in Keys \ {k} : Payment!OfKey(l)' = Payment!OfKey(l)
      /\ Payment!OfKey(k)' = Payment!OfKey(k) \cup {i}
      /\ Payment!OfKey(k)' \subseteq Payment!Attempts
  <2>1. Payment!Attempts' = Payment!Attempts BY DEF Payment!Attempts
  <2> QED BY <1>1, <1>2, <1>4, <1>5, <2>1, KeysAreKeys DEF Payment!OfKey
<1>8. \A b \in Payment!OfKey(k)' : b <= i BY <1>2, <1>6, <1>7 DEF Payment!Attempts
<1>9. One(payment)' BY <1>3 DEF One
<1>10. ASSUME NEW a \in Payment!Attempts, attempt'[a] # Payment!Absent
       PROVE  /\ key'[attempt'[a].key] # "absent"
              /\ \A b \in 1 .. a - 1 : attempt'[b] # Payment!Absent
  <2>1. \A b \in 1 .. a - 1 : b \in Payment!Attempts 
      BY <1>10, TriesAre DEF Payment!Attempts
  <2>2. CASE a = i
    <3>1. key'[attempt'[a].key] # "absent" BY <1>1, <1>4, <1>6, <2>2
    <3>2. \A b \in 1 .. a - 1 : b # i BY <1>2, <2>2 DEF Payment!Attempts
    <3> QED BY <1>4, <1>6, <2>1, <2>2, <3>1, <3>2
  <2>3. CASE a # i
    <3>1. attempt[a] # Payment!Absent /\ attempt'[a] = attempt[a] BY <1>4, <1>10, <2>3
    <3>2. /\ key'[attempt'[a].key] # "absent"
          /\ \A b \in 1 .. a - 1 : attempt[b] # Payment!Absent
        BY <1>10, <3>1 DEF PaymentCalm
    <3> QED BY <1>4, <2>1, <3>2
  <2> QED BY <2>2, <2>3
<1>11. ASSUME NEW a \in Payment!Attempts, charged'[a] # 0 PROVE PaidOnce(a)'
  <2>1. PaidOnce(a) BY <1>11 DEF PaymentCalm
  <2>2. CASE a = i
    <3>1. Payment!IsLast(i, k)' BY <1>2, <1>7, <1>8 DEF Payment!IsLast
    <3> QED BY <1>1, <1>4, <1>6, <1>11, <2>1, <2>2, <3>1 DEF PaidOnce
  <2>3. CASE a # i
    <3>1. attempt'[a] = attempt[a] /\ attempt[a] # Payment!Absent
        BY <1>4, <1>11, <2>3 DEF PaymentIInv, PaymentCalm
    <3>2. attempt[a].key \in Keys BY <3>1, AttemptIsRow DEF PaymentIInv
    <3>3. attempt[a].key # k
      <4>1. attempt[a].key = k => a \in Payment!OfKey(k) BY <1>11 DEF Payment!OfKey
      <4> QED BY <1>1, <1>11, <2>3, <4>1, OnlyThisPaid
    <3>4. PICK l \in Keys : l = attempt[a].key /\ l = attempt'[a].key BY <3>1, <3>2
    <3>5. Payment!OfKey(l)' = Payment!OfKey(l) BY <1>7, <3>3, <3>4
    <3>6. Payment!IsLast(a, l)' BY <2>1, <3>4, <3>5 DEF PaidOnce, Payment!IsLast
    <3> QED BY <2>1, <3>1, <3>4, <3>6 DEF PaidOnce
  <2> QED BY <2>2, <2>3
<1>12. Payment!RepeatSeesPayment'
  <2> SUFFICES ASSUME NEW l \in Keys, NEW a \in Payment!Attempts,
                      key'[l] = "completed", Payment!IsLast(a, l)'
               PROVE  attempt'[a].status = "completed"
      BY DEF Payment!RepeatSeesPayment, Payment!Attempts
  <2>1. l # k /\ key[l] = "completed" BY <1>6
  <2>2. Payment!IsLast(a, l) BY <1>7, <2>1 DEF Payment!IsLast
  <2>3. attempt[a].status = "completed" BY <2>1, <2>2 DEF PaymentCalm, Payment!RepeatSeesPayment
  <2>4. a # i BY <1>2, <1>5, <2>1, <2>2, KeysAreKeys DEF Payment!IsLast, Payment!OfKey
  <2> QED BY <1>4, <2>3, <2>4
<1>13. PaymentFits(c)'
  <2>1. \A b \in 1 .. i - 1 : b \in Payment!Attempts \ {i}
      BY <1>2, TriesAre DEF Payment!Attempts
  <2>2. \A b \in 1 .. i - 1 : attempt'[b] # Payment!Absent BY <1>4, <1>6, <2>1
  <2>3. c.pc # "completeKey" => Unpaid(k)'
    <3> SUFFICES ASSUME c.pc # "completeKey", NEW b \in Payment!OfKey(k)' PROVE charged[b] = 0
        BY DEF Unpaid
    <3>1. Unpaid(k) BY <1>1
    <3>2. CASE b \in Payment!OfKey(k) BY <3>1, <3>2 DEF Unpaid
    <3>3. CASE b = i /\ attempt[i] = Payment!Absent
        BY <1>2, <3>3 DEF PaymentIInv, PaymentCalm
    <3>4. CASE b = i /\ attempt[i].key = k
        BY <1>2, <3>1, <3>4 DEF Unpaid, Payment!OfKey, Payment!Attempts
    <3> QED BY <1>5, <1>7, <3>2, <3>3, <3>4
  <2>4. c.id = i /\ c.row.key = k BY <1>1
  <2> QED BY <1>1, <1>4, <1>6, <1>8, <2>2, <2>3, <2>4 DEF PaymentFits
<1>14. Payment!Attempts' = Payment!Attempts BY DEF Payment!Attempts
<1>15. \A l \in Keys : paid'[l] # 0 => paid'[l] = 1 /\ ~Unpaid(l)'
  <2>1. \A l \in Keys : Payment!OfKey(l) \subseteq Payment!OfKey(l)' BY <1>7
  <2>2. \A l \in Keys : Unpaid(l)' => Unpaid(l) BY <2>1 DEF Unpaid
  <2> QED BY <2>2 DEF PaymentCalm
<1> QED BY <1>3, <1>9, <1>10, <1>11, <1>12, <1>13, <1>14, <1>15 DEF PaymentCalm

LEMMA StoreCalm ==
    ASSUME PaymentIInv, PaymentCalm, NEW p \in Procs,
           \/ Payment!StoreProcessing(p)
           \/ Payment!StoreCompleted(p)
           \/ Payment!StoreFailed(p)
    PROVE  PaymentCalm'
<1>1. /\ payment[p] # Idle /\ payment[p].pc \in {"processing", "completed", "failed"}
      /\ UNCHANGED <<key, charged, paid>>
    BY KeysAreKeys DEF Payment!StoreProcessing, Payment!StoreCompleted, Payment!StoreFailed
<1>2. PICK i, held : i = payment[p].id /\ held = payment[p].row OBVIOUS
<1>3. /\ i \in Payment!Attempts /\ held \in Payment!Row
      /\ held.key \in Keys /\ held.number \in 1 .. MaxRetries
    BY <1>1, <1>2, PaymentHolds DEF PaymentIInv
<1>4. PaymentFits(payment[p]) BY <1>1, CalmAlone
<1>5. payment[p].pc # "completed" => Unpaid(held.key) /\ charged[i] = 0
  <2> SUFFICES ASSUME payment[p].pc # "completed" PROVE Unpaid(held.key) /\ charged[i] = 0
      OBVIOUS
  <2>1. Unpaid(held.key) BY <1>1, <1>2, <1>4 DEF PaymentFits
  <2>2. CASE attempt[i] = Payment!Absent BY <1>3, <2>1, <2>2 DEF PaymentIInv, PaymentCalm
  <2>3. CASE attempt[i] # Payment!Absent
    <3>1. i \in Payment!OfKey(held.key)
        BY <1>1, <1>2, <1>3, <2>3 DEF PaymentIInv, PaymentKnows, Payment!OfKey
    <3> QED BY <2>1, <3>1 DEF Unpaid
  <2> QED BY <2>2, <2>3
<1>6. PICK status \in {"processing", "completed", "failed"} :
          /\ Payment!StoreAttempt(p, status)
          /\ status = "processing" => payment[p].pc = "processing" /\ Payment!Then(p, "charge")
          /\ status = "completed" => payment[p].pc = "completed" /\ Payment!Then(p, "completeKey")
          /\ status = "failed" => payment[p].pc = "failed" /\ Payment!AfterFailure(p)
    BY DEF Payment!StoreProcessing, Payment!StoreCompleted, Payment!StoreFailed
<1>7. PICK row : row = [held EXCEPT !.status = status] OBVIOUS
<1>8. row.key = held.key /\ row.status = status /\ row # Payment!Absent
  <2>1. row.key = held.key /\ row.status = status BY <1>3, <1>7 DEF Payment!Row
  <2> QED BY <1>3, <2>1, KeysAreKeys
<1>9. attempt' = [attempt EXCEPT ![i] = row]
    BY <1>2, <1>6, <1>7 DEF Payment!StoreAttempt, PaymentCalm
<1>10. PICK c :
          /\ payment' = [payment EXCEPT ![p] = c]
          /\ c.id = i /\ c.row.key = held.key
          /\ status = "processing" => c.pc = "charge"
          /\ status = "completed" => c.pc = "completeKey"
          /\ status = "failed" => c.pc \in {"processing", "failKey"}
  <2>1. ASSUME NEW pc, Payment!Then(p, pc)
        PROVE  \E c : /\ payment' = [payment EXCEPT ![p] = c]
                      /\ c.id = i /\ c.row.key = held.key /\ c.pc = pc
    <3>1. PICK c : c = [pc |-> pc, id |-> i, row |-> held] OBVIOUS
    <3>2. c.id = i /\ c.row.key = held.key /\ c.pc = pc BY <3>1
    <3>3. payment' = [payment EXCEPT ![p] = c]
        BY <1>2, <2>1, <3>1 DEF Payment!Then, Payment!Hold
    <3> QED BY <3>2, <3>3
  <2>2. CASE status = "processing" BY <1>6, <2>1, <2>2
  <2>3. CASE status = "completed" BY <1>6, <2>1, <2>3
  <2>4. CASE status = "failed" /\ ~(held.number < MaxRetries)
    <3>1. Payment!Then(p, "failKey") BY <1>2, <1>6, <2>4 DEF Payment!AfterFailure
    <3> QED BY <2>1, <2>4, <3>1
  <2>5. CASE status = "failed" /\ held.number < MaxRetries
    <3>1. PICK again : again = [held EXCEPT !.number = @ + 1] OBVIOUS
    <3>2. PICK c : c = [pc |-> "processing", id |-> i, row |-> again] OBVIOUS
    <3>3. again.key = held.key BY <1>3, <3>1 DEF Payment!Row
    <3>4. c.id = i /\ c.row.key = held.key /\ c.pc = "processing" BY <3>2, <3>3
    <3>5. payment' = [payment EXCEPT ![p] = c]
        BY <1>2, <1>6, <2>5, <3>1, <3>2 DEF Payment!AfterFailure, Payment!Hold
    <3> QED BY <2>5, <3>4, <3>5
  <2> QED BY <2>2, <2>3, <2>4, <2>5
<1>11. payment[p].pc = "completed" => status = "completed" BY <1>6
<1>12. status = "completed" => charged[i] = 1 BY <1>2, <1>4, <1>6 DEF PaymentFits
<1>13. charged[i] # 0 => row.status \in {"processing", "completed"}
    BY <1>5, <1>8, <1>11
<1>14. c.pc # "completeKey" => Unpaid(held.key) BY <1>5, <1>10, <1>11
<1>15. /\ c.pc \notin {"saveKey", "resetKey", "completed"}
       /\ c.pc = "charge" => row.status = "processing"
       /\ c.pc = "completeKey" => charged[i] = 1 /\ row.status = "completed"
    BY <1>8, <1>10, <1>12
<1> QED BY <1>1, <1>2, <1>8, <1>9, <1>10, <1>13, <1>14, <1>15, PaymentCalmStored

LEMMA ChargeCalm ==
    ASSUME PaymentIInv, PaymentCalm, NEW p \in Procs, Payment!Charge(p)
    PROVE  PaymentCalm'
<1>1. payment[p] # Idle /\ payment[p].pc = "charge" BY KeysAreKeys DEF Payment!Charge
<1>2. PICK i, k : i = payment[p].id /\ k = payment[p].row.key OBVIOUS
<1>3. i \in Payment!Attempts /\ k \in Keys BY <1>1, <1>2, PaymentHolds DEF PaymentIInv
<1>4. PICK c : /\ c = [pc |-> "completed", id |-> i, row |-> payment[p].row]
               /\ payment' = [payment EXCEPT ![p] = c]
    BY <1>2 DEF Payment!Charge, Payment!Then, Payment!Hold
<1>5. c # Idle /\ c.id = i /\ c.row.key = k /\ c.pc = "completed" BY <1>2, <1>4, KeysAreKeys
<1>6. /\ payment'[p] = c /\ DOMAIN payment' = Procs
      /\ \A q \in Procs \ {p} : payment'[q] = Idle
    BY <1>1, <1>4, CalmAlone DEF PaymentIInv, Payment!TypeOK
<1>7. PaymentFits(payment[p]) BY <1>1, CalmAlone
<1>8. attempt[i] # Payment!Absent /\ attempt[i].key = k
    BY <1>1, <1>2 DEF PaymentIInv, PaymentKnows, PaymentCalm
<1>9. i \in Payment!OfKey(k) BY <1>3, <1>8 DEF Payment!OfKey
<1>10. charged[i] = 0 BY <1>1, <1>2, <1>7, <1>9 DEF PaymentFits, Unpaid
<1>11. /\ UNCHANGED <<key, attempt>> /\ charged'[i] = 1
       /\ \A a \in Payment!Attempts \ {i} : charged'[a] = charged[a]
       /\ paid' = [paid EXCEPT ![k] = @ + 1]
    BY <1>2, <1>3, <1>10 DEF Payment!Charge, Payment!Pay, PaymentIInv, Payment!TypeOK
<1>12. One(payment)' BY <1>6 DEF One
<1>13. /\ \A l : Payment!OfKey(l)' = Payment!OfKey(l)
       /\ Payment!Attempts' = Payment!Attempts
    BY <1>11 DEF Payment!OfKey, Payment!Attempts
<1>14. \A a, l : Payment!IsLast(a, l)' <=> Payment!IsLast(a, l) BY <1>13 DEF Payment!IsLast
<1>15. Payment!IsLast(i, k) BY <1>2, <1>7, <1>9 DEF PaymentFits, Payment!IsLast
<1>16. ASSUME NEW a \in Payment!Attempts, charged'[a] # 0 PROVE PaidOnce(a)'
  <2>1. CASE a = i
      BY <1>1, <1>2, <1>7, <1>8, <1>11, <1>14, <1>15, <2>1 DEF PaidOnce, PaymentFits
  <2>2. CASE a # i
    <3>1. PaidOnce(a) BY <1>11, <1>16, <2>2 DEF PaymentCalm
    <3> QED BY <1>11, <1>14, <1>16, <2>2, <3>1 DEF PaidOnce
  <2> QED BY <2>1, <2>2
<1>17. Payment!RepeatSeesPayment'
    BY <1>11, <1>13, <1>14 DEF PaymentCalm, Payment!RepeatSeesPayment
<1>18. PaymentFits(c)' BY <1>1, <1>2, <1>5, <1>7, <1>11, <1>13 DEF PaymentFits
<1>19. \A a \in Payment!Attempts : attempt'[a] # Payment!Absent =>
           /\ key'[attempt'[a].key] # "absent"
           /\ \A b \in 1 .. a - 1 : attempt'[b] # Payment!Absent
    BY <1>11 DEF PaymentCalm
<1>20. ASSUME NEW l \in Keys, paid'[l] # 0 PROVE paid'[l] = 1 /\ ~Unpaid(l)'
  <2>1. CASE l = k
    <3>1. Unpaid(k) BY <1>1, <1>2, <1>7 DEF PaymentFits
    <3>2. paid[k] = 0 BY <1>3, <3>1 DEF PaymentCalm
    <3>3. paid'[k] = 1 BY <1>3, <1>11, <3>2 DEF PaymentIInv, Payment!TypeOK
    <3>4. ~Unpaid(k)' BY <1>9, <1>11, <1>13 DEF Unpaid
    <3> QED BY <2>1, <3>3, <3>4
  <2>2. CASE l # k
    <3>1. paid'[l] = paid[l] BY <1>11, <2>2 DEF PaymentIInv, Payment!TypeOK
    <3>2. paid[l] = 1 /\ ~Unpaid(l) BY <1>20, <3>1 DEF PaymentCalm
    <3>3. PICK b \in Payment!OfKey(l) : charged[b] # 0 BY <3>2 DEF Unpaid
    <3>4. charged'[b] # 0 BY <1>11, <3>3 DEF Payment!OfKey
    <3>5. ~Unpaid(l)' BY <1>13, <3>3, <3>4 DEF Unpaid
    <3> QED BY <3>1, <3>2, <3>5
  <2> QED BY <2>1, <2>2
<1> QED BY <1>6, <1>12, <1>13, <1>16, <1>17, <1>18, <1>19, <1>20 DEF PaymentCalm

LEMMA FinishCalm ==
    ASSUME PaymentIInv, PaymentCalm, NEW p \in Procs, Payment!FinishKey(p)
    PROVE  PaymentCalm'
<1>1. payment[p] # Idle /\ payment[p].pc \in {"completeKey", "failKey"}
    BY KeysAreKeys DEF Payment!FinishKey
<1>2. PICK i, k : i = payment[p].id /\ k = payment[p].row.key OBVIOUS
<1>3. i \in Payment!Attempts /\ k \in Keys BY <1>1, <1>2, PaymentHolds DEF PaymentIInv
<1>4. PaymentFits(payment[p]) /\ \A q \in Procs \ {p} : payment[q] = Idle
    BY <1>1, CalmAlone
<1>5. key[k] = "pending" BY <1>1, <1>2, <1>4 DEF PaymentFits
<1>6. PICK status \in {"completed", "failed"} :
          /\ Payment!SetKey(k, status)
          /\ status = IF payment[p].pc = "completeKey" THEN "completed" ELSE "failed"
    BY <1>2 DEF Payment!FinishKey
<1>7. key'[k] = status /\ \A l \in Keys \ {k} : key'[l] = key[l]
    BY <1>3, <1>5, <1>6, SetKeyKeeps DEF PaymentIInv
<1>8. status = "failed" => Unpaid(k) BY <1>1, <1>2, <1>4, <1>6 DEF PaymentFits
<1>9. ASSUME status = "completed", NEW a \in Payment!Attempts, Payment!IsLast(a, k)
      PROVE  attempt[a].status = "completed"
  <2>1. payment[p].pc = "completeKey" BY <1>6, <1>9
  <2>2. attempt[i].status = "completed" BY <1>2, <1>4, <2>1 DEF PaymentFits
  <2>3. attempt[i].key = k BY <1>1, <1>2, <2>1 DEF PaymentIInv, PaymentKnows, PaymentCalm
  <2>4. Payment!IsLast(i, k)
      BY <1>2, <1>3, <1>4, <2>3 DEF PaymentFits, Payment!IsLast, Payment!OfKey
  <2> QED BY <1>9, <2>2, <2>4, LastIsOne
<1>10. /\ payment' = [payment EXCEPT ![p] = Idle]
       /\ UNCHANGED <<attempt, charged, paid>>
    BY KeysAreKeys DEF Payment!FinishKey, Payment!Return
<1> QED BY <1>4, <1>7, <1>8, <1>9, <1>10, PaymentCalmHeld

LEMMA PaymentCalmStep ==
    PaymentIInv /\ PaymentCalm /\ calm' /\ PaymentNext => PaymentCalm'
<1> SUFFICES ASSUME PaymentIInv, PaymentCalm, calm', PaymentNext PROVE PaymentCalm'
    OBVIOUS
<1>1. ASSUME NEW p \in Procs, Payment!Request(p), One(payment') PROVE PaymentCalm'
    BY <1>1, NewAttemptCalm DEF Payment!Request
<1>2. ASSUME NEW p \in Procs, Payment!Continue(p) PROVE PaymentCalm'
    BY <1>2, SaveKeyCalm, ResetKeyCalm, ChargeRefusedCalm, StoreCalm, ChargeCalm, FinishCalm
       DEF Payment!Continue
<1>3. ASSUME Payment!Stop PROVE PaymentCalm'
  <2>1. ASSUME NEW p \in Procs, Payment!StoreError(p) PROVE PaymentCalm'
      BY <2>1, ReturnCalm, KeysAreKeys DEF Payment!StoreError, Payment!Return
  <2> QED BY <1>3, <2>1, CrashCalm DEF Payment!Stop
<1> QED BY <1>1, <1>2, <1>3, RetryCalm DEF PaymentNext, CalmAfter

\* What the invariants mean for a customer.
LEMMA PaymentSound ==
    /\ PaymentIInv => Payment!CompletedWasCharged
    /\ PaymentIInv /\ PaymentCalm => Payment!ChargedOnce /\ Payment!RepeatSeesPayment
<1>1. ASSUME PaymentIInv, PaymentCalm, NEW k \in Keys PROVE paid[k] <= 1
    BY <1>1 DEF PaymentCalm
<1> QED BY <1>1 DEF PaymentIInv, PaymentCalm, Payment!ChargedOnce

-----------------------------------------------------------------------------
(* All libraries.                                                          *)

LibraryIInv ==
    /\ faults \in Nat
    /\ stale \in Nat
    /\ MachineIInv
    /\ SourcingIInv
    /\ Projection!TypeOK
    /\ PaymentIInv

LibraryCalm ==
    /\ calm => MachineCalm /\ SourcingCalm /\ ProjectionCalm
    /\ calm /\ UpdateInserts => PaymentCalm

LEMMA MachineRests ==
    ASSUME UNCHANGED machineVars
    PROVE  /\ MachineIInv => MachineIInv'
           /\ MachineCalm /\ (faults' = 0 => faults = 0) => MachineCalm'
<1>1. \A o, to : CausedNext(o, to)' <=> CausedNext(o, to) BY DEF machineVars, CausedNext
<1>2. MachineIInv => MachineIInv' BY <1>1 DEF machineVars, MachineIInv, Machine!TypeOK
<1>3. \A o : Machine!Current(o)' = Machine!Current(o) BY DEF machineVars, Machine!Current
<1>4. \A c : SaveFits(c)' <=> SaveFits(c)
    BY <1>3 DEF machineVars, SaveFits, Machine!Seen
<1>5. \A o : Telling(o)' <=> Telling(o) BY DEF machineVars, Telling
<1>6. TellingIsCurrent' <=> TellingIsCurrent
    BY <1>3, <1>5 DEF machineVars, TellingIsCurrent, Machine!Current
<1>7. One(transition)' <=> One(transition) BY DEF machineVars, One
<1>8. Machine!LogIsPath' <=> Machine!LogIsPath BY DEF machineVars, Machine!LogIsPath
<1>9. \A p \in Procs : transition'[p].pc = "save" => (SaveFits(transition[p]) => SaveFits(transition[p])')
    BY <1>3 DEF machineVars, SaveFits, Machine!Current, Machine!Seen
<1>10. MachineCalm /\ (faults' = 0 => faults = 0) => MachineCalm'
    BY <1>6, <1>7, <1>8, <1>9 DEF MachineCalm, machineVars
<1> QED BY <1>2, <1>10

LEMMA SourcingRests ==
    ASSUME UNCHANGED sourcingVars
    PROVE  (SourcingIInv => SourcingIInv') /\ (SourcingCalm => SourcingCalm')
<1>1. \A o : Sourcing!Versions(o)' = Sourcing!Versions(o)
    BY DEF sourcingVars, Sourcing!Versions
<1>2. \A o, v : Follows(o, v)' <=> Follows(o, v) BY <1>1 DEF Follows
<1>3. \A c : SourcingKnows(c)' <=> SourcingKnows(c) BY <1>1, <1>2 DEF SourcingKnows
<1>4. \A p : SourcingKnows(publisher[p]) => SourcingKnows(publisher[p])'
    BY <1>1, <1>2 DEF sourcingVars, SourcingKnows
<1>5. SourcingIInv => SourcingIInv' BY <1>1, <1>4 DEF sourcingVars, SourcingIInv
<1>6. SourcingCalm => SourcingCalm'
    BY DEF sourcingVars, SourcingCalm, One, WasAt, BaseFits
<1> QED BY <1>5, <1>6

LEMMA ProjectionRests ==
    ASSUME UNCHANGED projectionVars
    PROVE  /\ Projection!TypeOK => Projection!TypeOK'
           /\ ProjectionCalm => ProjectionCalm'
BY DEF projectionVars, Projection!TypeOK, ProjectionCalm, One, Copied, Copying, ProjectionFits

LEMMA PaymentRests ==
    ASSUME UNCHANGED paymentVars
    PROVE  (PaymentIInv => PaymentIInv') /\ (PaymentCalm => PaymentCalm')
<1>1. PaymentIInv => PaymentIInv'
    BY DEF paymentVars, PaymentIInv, PaymentKnows, Payment!TypeOK, Payment!CompletedWasCharged,
           Payment!OfKey
<1>2. PaymentCalm => PaymentCalm'
    BY DEF paymentVars, PaymentCalm, One, PaidOnce, PaymentFits, Unpaid,
           Payment!RepeatSeesPayment, Payment!IsLast, Payment!OfKey
<1> QED BY <1>1, <1>2

LEMMA LibraryInit == Init => LibraryIInv /\ LibraryCalm
BY MachineInit, MachineCalmInit, SourcingInit, ProjectionInit, PaymentInit
   DEF Init, LibraryIInv, LibraryCalm

LEMMA LibraryNext ==
    LibraryIInv /\ LibraryCalm /\ [Next]_vars => LibraryIInv' /\ LibraryCalm'
<1> SUFFICES ASSUME LibraryIInv, LibraryCalm, [Next]_vars PROVE LibraryIInv' /\ LibraryCalm'
    OBVIOUS
<1>0. faults \in Nat /\ stale \in Nat BY DEF LibraryIInv
<1>1. CASE MachineNext
  <2>1. faults' \in Nat /\ stale' \in Nat BY <1>0, <1>1 DEF MachineNext, budgets
  <2>2. Machine!Next /\ (calm' => calm)
    <3>1. CASE \E p \in Procs, o \in Orders : Machine!Request(p, o) /\ (calm' => calm)
        BY <3>1 DEF Machine!Next
    <3>2. CASE (\E p \in Procs : Machine!Continue(p)) /\ UNCHANGED calm
        BY <3>2 DEF Machine!Next
    <3>3. CASE Machine!Fault /\ UNCHANGED calm BY <3>3 DEF Machine!Next
    <3> QED BY <1>1, <3>1, <3>2, <3>3 DEF MachineNext
  <2>3. MachineIInv' BY <2>2, MachineStep DEF LibraryIInv
  <2>4. calm' => MachineCalm' BY <1>0, <1>1, <2>2, MachineCalmStep DEF LibraryIInv, LibraryCalm
  <2>5. UNCHANGED <<sourcingVars, projectionVars, paymentVars>> BY <1>1 DEF MachineNext
  <2> QED BY <2>1, <2>2, <2>3, <2>4, <2>5, SourcingRests, ProjectionRests, PaymentRests
          DEF LibraryIInv, LibraryCalm
<1>2. CASE SourcingNext
  <2>1. UNCHANGED <<faults, stale>> BY <1>2 DEF SourcingNext, budgets
  <2>2. Sourcing!Next /\ (calm' => calm)
      BY <1>2 DEF SourcingNext, Sourcing!Next, CalmAfter
  <2>3. SourcingIInv' BY <2>2, SourcingStep DEF LibraryIInv
  <2>4. calm' => SourcingCalm' BY <1>2, <2>2, SourcingCalmStep DEF LibraryIInv, LibraryCalm
  <2>5. UNCHANGED <<machineVars, projectionVars, paymentVars>> BY <1>2 DEF SourcingNext
  <2> QED BY <2>1, <2>2, <2>3, <2>4, <2>5, MachineRests, ProjectionRests, PaymentRests
          DEF LibraryIInv, LibraryCalm
<1>3. CASE ProjectionNext
  <2>1. UNCHANGED <<faults, stale>> BY <1>3 DEF ProjectionNext, budgets
  <2>2. Projection!Next /\ (calm' => calm)
      BY <1>3 DEF ProjectionNext, Projection!Next, CalmAfter
  <2>3. Projection!TypeOK' BY <2>2, ProjectionStep DEF LibraryIInv
  <2>4. calm' => ProjectionCalm'
      BY <1>3, <2>2, ProjectionCalmStep DEF LibraryIInv, LibraryCalm
  <2>5. UNCHANGED <<machineVars, sourcingVars, paymentVars>> BY <1>3 DEF ProjectionNext
  <2> QED BY <2>1, <2>2, <2>3, <2>4, <2>5, MachineRests, SourcingRests, PaymentRests
          DEF LibraryIInv, LibraryCalm
<1>4. CASE PaymentNext
  <2>1. faults' \in Nat /\ stale' \in Nat /\ (faults' = 0 => faults = 0)
      BY <1>0, <1>4 DEF PaymentNext
  <2>2. Payment!Next /\ (calm' => calm)
    <3>1. CASE \E p \in Procs : (Payment!Request(p) \/ Payment!Continue(p)) /\ (calm' => calm)
        BY <3>1 DEF Payment!Next
    <3>2. CASE \E p \in Procs, a \in Payment!Attempts :
                 Payment!RetryFailedPayment(p, a) /\ (calm' => calm)
        BY <3>2 DEF Payment!Next, Payment!Retry, Payment!Attempts
    <3>3. CASE (Payment!Stop /\ UNCHANGED calm) \/ (Payment!Forget /\ calm' = FALSE)
        BY <3>3 DEF Payment!Next
    <3> QED BY <1>4, <3>1, <3>2, <3>3 DEF PaymentNext, CalmAfter
  <2>3. PaymentIInv' BY <2>2, PaymentStep DEF LibraryIInv
  <2>4. calm' /\ UpdateInserts => PaymentCalm' BY <1>4, <2>2, PaymentCalmStep DEF LibraryIInv, LibraryCalm
  <2>5. UNCHANGED <<machineVars, sourcingVars, projectionVars>> BY <1>4 DEF PaymentNext
  <2> QED BY <2>1, <2>2, <2>3, <2>4, <2>5, MachineRests, SourcingRests, ProjectionRests
          DEF LibraryIInv, LibraryCalm
<1>5. CASE UNCHANGED vars
  <2>1. UNCHANGED <<calm, faults, stale>>
        /\ UNCHANGED <<machineVars, sourcingVars, projectionVars, paymentVars>>
      BY <1>5 DEF vars, budgets
  <2> QED BY <2>1, MachineRests, SourcingRests, ProjectionRests, PaymentRests
          DEF LibraryIInv, LibraryCalm
<1> QED BY <1>1, <1>2, <1>3, <1>4, <1>5 DEF Next

THEOREM LibraryInvariance == Spec => [](LibraryIInv /\ LibraryCalm)
BY LibraryInit, LibraryNext, PTL DEF Spec

LEMMA MachineSound ==
    /\ MachineIInv => Machine!EveryStepHasItsCause
    /\ MachineCalm => Machine!LogIsPath
    /\ MachineIInv /\ MachineCalm /\ faults = 0 => Machine!ShownIsCurrent
<1>1. MachineIInv => Machine!EveryStepHasItsCause
    BY DEF MachineIInv, Caused, Machine!EveryStepHasItsCause, Machine!Before
<1>2. MachineIInv /\ MachineCalm /\ faults = 0 => Machine!ShownIsCurrent
  <2> SUFFICES ASSUME MachineIInv, MachineCalm, faults = 0,
                      \A p \in Procs : transition[p] = Machine!Idle,
                      NEW o \in Orders, log[o] # <<>>
               PROVE  shown[o] = Machine!Current(o)
      BY DEF Machine!ShownIsCurrent
  <2>1. \A p \in Procs : transition[p].pc # "emit" BY DEF Machine!Idle
  <2> QED BY <2>1 DEF MachineCalm, TellingIsCurrent, Telling
<1> QED BY <1>1, <1>2 DEF MachineCalm

\* However callers race: no refund, no delivery and no pick-up without the event
\* that has to come before it, though TransitionState validates against a log
\* others append to, and no version left out by publishers that read the latest
\* one and then save.  For callers that come one at a time: the log is one path
\* of the table with every event id once, no version is used twice, sockets show
\* the state the log ends in unless a call failed, and once the projection
\* goroutine is through, read model and cache have the version written last.
THEOREM RecordsStaySound == Spec => []RecordsAreSound
<1>1. LibraryIInv /\ LibraryCalm => RecordsAreSound
    BY MachineSound, SourcingSound, ProjectionSound
       DEF LibraryIInv, LibraryCalm, RecordsAreSound
<1> QED BY <1>1, LibraryInvariance, PTL

\* However requests, retries, clean-ups and failures interleave, an attempt or a
\* key stored as completed was charged.  Where UpdateAttempt inserts, and for
\* requests that come one at a time, a key is charged once, for its last attempt,
\* and answered with a completed payment, though any of them may die between two
\* of its calls.
THEOREM ChargesStaySound == Spec => []ChargesAreSound
<1>1. LibraryIInv /\ LibraryCalm => ChargesAreSound
    BY PaymentSound DEF LibraryIInv, LibraryCalm, ChargesAreSound
<1> QED BY <1>1, LibraryInvariance, PTL

\* For publishers that come one at a time: an order is the same from its snapshot
\* and the events from there as from all of its events, though GetEvents gives the
\* snapshot's last event again and a snapshot is loaded, replayed, given a version
\* and stored in steps between which its goroutine may stop; and no time in a
\* stage is negative, and those of an active order are the time since its first
\* change of status.
THEOREM ReplayStaysSound == Spec => []ReplayIsSound
<1>1. LibraryIInv /\ LibraryCalm => ReplayIsSound
    BY ReplaysAlike, TimesAddUp DEF LibraryIInv, LibraryCalm, ReplayIsSound
<1> QED BY <1>1, LibraryInvariance, PTL

\* The tables, event logs, snapshots and goroutines of the four libraries keep
\* their types, the payments' numbers of tries among them.
THEOREM LibraryTypes == Spec => []TypeOK
<1>1. Sourcing!Idle = Idle BY DEF Sourcing!Idle, Idle
<1>2. SourcingIInv => Sourcing!TypeOK BY <1>1 DEF SourcingIInv, Sourcing!TypeOK
<1>3. LibraryIInv => TypeOK
    BY <1>2 DEF LibraryIInv, MachineIInv, PaymentIInv, TypeOK
<1> QED BY <1>3, LibraryInvariance, PTL
=============================================================================
