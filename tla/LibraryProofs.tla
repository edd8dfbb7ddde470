---------------------------- MODULE LibraryProofs ----------------------------
(***************************************************************************)
(* What MCLibraries checks holds for any values of its constants: the      *)
(* parts of the invariant that LibraryLemmas does not have, of bonuses,    *)
(* prices, arrivals, secrets, preferences, assignments, rankings and       *)
(* routes, what the steps of one library leave alone in another, and the   *)
(* theorems.                                                               *)
(***************************************************************************)
EXTENDS LibraryLemmas

-----------------------------------------------------------------------------
(* Bonuses (RiderLibrary).                                                 *)

IncentiveVars == <<completed, active, credits, payouts>>

PayoutRun == [pc : {"evaluate"}, todo : Seq(Rules), earned : Seq(Rules), paid : SUBSET Rules]

\* A rule is in one place of a run at most.
Apart(c) ==
    /\ \A i, j \in 1..Len(c.todo) : c.todo[i] = c.todo[j] => i = j
    /\ \A i, j \in 1..Len(c.earned) : c.earned[i] = c.earned[j] => i = j
    /\ \A i \in 1..Len(c.todo), j \in 1..Len(c.earned) : c.todo[i] # c.earned[j]
    /\ \A i \in 1..Len(c.todo) : c.todo[i] \notin c.paid
    /\ \A i \in 1..Len(c.earned) : c.earned[i] \notin c.paid

ZonesOf(r) == IF ZoneIDs[r] = {} THEN Zones ELSE ZoneIDs[r]

\* Rules whose orders the rider has completed.
DueRules == {r \in Rules : Fleet!Orders(ZonesOf(r)) >= TargetCount[r]}

Payers(r) == {p \in Procs : call[p].pc = "evaluate" /\ r \in call[p].paid}

Balanced(r) == credits[r] = payouts[r] + Cardinality(Payers(r))

IncentiveTyped ==
    /\ Fleet!IncentiveTypeOK /\ active \subseteq Rules
    /\ DOMAIN call = Procs
    /\ \A p \in Procs : call[p] = Idle \/ (call[p] \in PayoutRun /\ Apart(call[p]))

IncentiveDue ==
    /\ \A p \in Procs : call[p] # Idle => \A i \in 1..Len(call[p].earned) : call[p].earned[i] \in DueRules
    /\ \A r \in Rules : credits[r] > 0 => r \in DueRules

IncentiveHolds == IncentiveTyped /\ IncentiveDue /\ \A r \in Rules : Balanced(r)

Unstarted ==
    /\ completed = [z \in Zones |-> 0]
    /\ credits = [r \in Rules |-> 0] /\ payouts = [r \in Rules |-> 0]

IncentiveIInv == IF subject = "incentives" THEN IncentiveHolds ELSE Unstarted

LEMMA IncentiveSteps ==
    ASSUME Unbounded
    PROVE  /\ subject' = subject
           /\ subject # "incentives" => UNCHANGED IncentiveVars
           /\ subject = "incentives" =>
                \/ \E p \in Procs : Fleet!IncentiveWork(p)
                \/ \E z \in Zones : Fleet!CompleteOrder(z)
                \/ \E r \in active : Fleet!Deactivate(r)
                \/ Fleet!IncentiveFail
BY DEF Unbounded, Calls, World, Faults, Steps, Frame, IncentiveVars

LEMMA IdleIsNoRun == Idle.pc # "evaluate" /\ Fleet!Idle = Idle /\ \A c \in PayoutRun : c # Idle
<1>1. \A c \in PayoutRun : c.pc = "evaluate" BY DEF PayoutRun
<1> QED BY <1>1 DEF Idle, Fleet!Idle

\* A goroutine goes on to c: the books balance if they do for what it has paid.
LEMMA RunGoesOn ==
    ASSUME IncentiveTyped, NEW p \in Procs, NEW c, c = Idle \/ (c \in PayoutRun /\ Apart(c)),
           call' = [call EXCEPT ![p] = c]
    PROVE  /\ DOMAIN call' = Procs
           /\ \A q \in Procs : call'[q] = IF q = p THEN c ELSE call[q]
           /\ \A q \in Procs : call'[q] = Idle \/ (call'[q] \in PayoutRun /\ Apart(call'[q]))
           /\ \A r : c.pc = "evaluate" /\ r \in c.paid => Payers(r)' = Payers(r) \cup {p}
           /\ \A r : ~(c.pc = "evaluate" /\ r \in c.paid) => Payers(r)' = Payers(r) \ {p}
<1>1. /\ DOMAIN call' = Procs
      /\ \A q \in Procs : call'[q] = IF q = p THEN c ELSE call[q]
    BY DEF IncentiveTyped
<1>2. \A q \in Procs : call'[q] = Idle \/ (call'[q] \in PayoutRun /\ Apart(call'[q]))
    BY <1>1 DEF IncentiveTyped
<1>3. \A r : Payers(r)' = {q \in Procs : call'[q].pc = "evaluate" /\ r \in call'[q].paid}
    BY DEF Payers
<1>4. \A r : c.pc = "evaluate" /\ r \in c.paid => Payers(r)' = Payers(r) \cup {p}
    BY <1>1, <1>3 DEF Payers
<1>5. \A r : ~(c.pc = "evaluate" /\ r \in c.paid) => Payers(r)' = Payers(r) \ {p}
    BY <1>1, <1>3 DEF Payers
<1> QED BY <1>1, <1>2, <1>4, <1>5

LEMMA PayersFinite ==
    \A r : /\ IsFiniteSet(Payers(r)) /\ Cardinality(Payers(r)) \in Nat
           /\ \A p \in Procs : Cardinality(Payers(r) \cup {p}) =
                IF p \in Payers(r) THEN Cardinality(Payers(r)) ELSE Cardinality(Payers(r)) + 1
           /\ \A p \in Procs : Cardinality(Payers(r) \ {p}) =
                IF p \in Payers(r) THEN Cardinality(Payers(r)) - 1 ELSE Cardinality(Payers(r))
<1> TAKE r
<1>1. Payers(r) \subseteq Procs /\ IsFiniteSet(Procs) BY LimitsAre DEF Payers
<1>2. IsFiniteSet(Payers(r)) /\ Cardinality(Payers(r)) \in Nat BY <1>1, FS_Subset, FS_CardinalityType
<1> QED BY <1>2, FS_AddElement, FS_RemoveElement

\* What is due depends on the orders completed.
LEMMA DueKept == completed' = completed => DueRules' = DueRules
BY DEF DueRules, Fleet!Orders, ZonesOf

\* The head of a list and the rest of it.
LEMMA Lists ==
    ASSUME NEW s \in Seq(Rules), s # <<>>
    PROVE  /\ Head(s) \in Rules /\ Head(s) = s[1] /\ 1 \in 1..Len(s)
           /\ Tail(s) \in Seq(Rules)
           /\ \A i \in 1..Len(Tail(s)) : i + 1 \in 1..Len(s) /\ i + 1 # 1 /\ Tail(s)[i] = s[i + 1]
OBVIOUS

LEMMA ListGrows ==
    ASSUME NEW s \in Seq(Rules), NEW r \in Rules
    PROVE  /\ Append(s, r) \in Seq(Rules)
           /\ \A i \in 1..Len(Append(s, r)) :
                \/ i \in 1..Len(s) /\ Append(s, r)[i] = s[i]
                \/ i = Len(s) + 1 /\ i \notin 1..Len(s) /\ Append(s, r)[i] = r
OBVIOUS

\* A run without any rule left in todo that it started with, and one that has
\* one less in earned.
LEMMA TodoShrinks ==
    ASSUME NEW c \in PayoutRun, Apart(c), c.todo # <<>>, NEW earned \in {c.earned, Append(c.earned, Head(c.todo))}
    PROVE  LET d == [c EXCEPT !.todo = Tail(@), !.earned = earned]
           IN  d \in PayoutRun /\ Apart(d) /\ d.paid = c.paid /\ d.earned = earned
<1> DEFINE d == [c EXCEPT !.todo = Tail(@), !.earned = earned]
<1>1. c.todo \in Seq(Rules) /\ c.earned \in Seq(Rules) BY DEF PayoutRun
<1>2. /\ Head(c.todo) \in Rules /\ Head(c.todo) = c.todo[1] /\ 1 \in 1..Len(c.todo)
      /\ Tail(c.todo) \in Seq(Rules)
      /\ \A i \in 1..Len(Tail(c.todo)) :
           i + 1 \in 1..Len(c.todo) /\ i + 1 # 1 /\ Tail(c.todo)[i] = c.todo[i + 1]
    BY <1>1, Lists
<1>3. /\ earned \in Seq(Rules)
      /\ \A i \in 1..Len(earned) :
           \/ i \in 1..Len(c.earned) /\ earned[i] = c.earned[i]
           \/ i = Len(c.earned) + 1 /\ i \notin 1..Len(c.earned) /\ earned[i] = c.todo[1]
  <2>1. CASE earned = c.earned BY <1>1, <2>1
  <2>2. CASE earned = Append(c.earned, Head(c.todo)) BY <1>1, <1>2, <2>2, ListGrows
  <2> QED BY <2>1, <2>2
<1>4. d \in PayoutRun /\ d.todo = Tail(c.todo) /\ d.earned = earned /\ d.paid = c.paid
    BY <1>2, <1>3 DEF PayoutRun
<1> HIDE DEF d
<1>5. \A i, j \in 1..Len(d.todo) : d.todo[i] = d.todo[j] => i = j BY <1>2, <1>4 DEF Apart
<1>6. \A i, j \in 1..Len(d.earned) : d.earned[i] = d.earned[j] => i = j
    BY <1>2, <1>3, <1>4 DEF Apart
<1>7. \A i \in 1..Len(d.todo), j \in 1..Len(d.earned) : d.todo[i] # d.earned[j]
    BY <1>2, <1>3, <1>4 DEF Apart
<1>8. \A i \in 1..Len(d.todo) : d.todo[i] \notin d.paid BY <1>2, <1>4 DEF Apart
<1>9. \A i \in 1..Len(d.earned) : d.earned[i] \notin d.paid BY <1>2, <1>3, <1>4 DEF Apart
<1> QED BY <1>4, <1>5, <1>6, <1>7, <1>8, <1>9 DEF Apart, d

LEMMA EarnedShrinks ==
    ASSUME NEW c \in PayoutRun, Apart(c), c.earned # <<>>, NEW paid \in {c.paid, c.paid \cup {Head(c.earned)}}
    PROVE  LET d == [c EXCEPT !.earned = Tail(@), !.paid = paid]
           IN  /\ d \in PayoutRun /\ Apart(d) /\ d.paid = paid
               /\ Head(c.earned) \in Rules /\ Head(c.earned) = c.earned[1] /\ 1 \in 1..Len(c.earned)
               /\ Head(c.earned) \notin c.paid
               /\ \A i \in 1..Len(d.earned) : \E j \in 1..Len(c.earned) : d.earned[i] = c.earned[j]
<1> DEFINE d == [c EXCEPT !.earned = Tail(@), !.paid = paid]
<1>1. c.earned \in Seq(Rules) /\ c.paid \subseteq Rules BY DEF PayoutRun
<1>2. /\ Head(c.earned) \in Rules /\ Head(c.earned) = c.earned[1] /\ 1 \in 1..Len(c.earned)
      /\ Tail(c.earned) \in Seq(Rules)
      /\ \A i \in 1..Len(Tail(c.earned)) :
           i + 1 \in 1..Len(c.earned) /\ i + 1 # 1 /\ Tail(c.earned)[i] = c.earned[i + 1]
    BY <1>1, Lists
<1>3. d \in PayoutRun /\ d.earned = Tail(c.earned) /\ d.todo = c.todo /\ d.paid = paid
    BY <1>1, <1>2 DEF PayoutRun
<1> HIDE DEF d
<1>4. \A i, j \in 1..Len(d.todo) : d.todo[i] = d.todo[j] => i = j BY <1>3 DEF Apart
<1>5. \A i, j \in 1..Len(d.earned) : d.earned[i] = d.earned[j] => i = j BY <1>2, <1>3 DEF Apart
<1>6. \A i \in 1..Len(d.todo), j \in 1..Len(d.earned) : d.todo[i] # d.earned[j]
    BY <1>2, <1>3 DEF Apart
<1>7. \A i \in 1..Len(d.todo) : d.todo[i] \notin d.paid BY <1>2, <1>3 DEF Apart
<1>8. \A i \in 1..Len(d.earned) : d.earned[i] \notin d.paid BY <1>2, <1>3 DEF Apart
<1>9. Head(c.earned) \notin c.paid BY <1>2 DEF Apart
<1>10. Apart(d) BY <1>4, <1>5, <1>6, <1>7, <1>8 DEF Apart
<1> QED BY <1>2, <1>3, <1>9, <1>10 DEF d

LEMMA IncentiveStarts ==
    ASSUME IncentiveHolds, NEW p \in Procs, Fleet!ProcessIncentivePayouts(p)
    PROVE  IncentiveHolds'
<1>1. PICK rules \in Fleet!SetToSeqs(active) :
        call' = [call EXCEPT ![p] = [pc |-> "evaluate", todo |-> rules, earned |-> <<>>, paid |-> {}]]
    BY DEF Fleet!ProcessIncentivePayouts, Fleet!Goto
<1> DEFINE c == [pc |-> "evaluate", todo |-> rules, earned |-> <<>>, paid |-> {}]
           n == Cardinality(active)
<1>2. /\ call[p] = Idle /\ UNCHANGED <<completed, active, credits, payouts>>
    BY IdleIsNoRun DEF Fleet!ProcessIncentivePayouts
<1>3. IncentiveTyped /\ active \subseteq Rules /\ IsFiniteSet(Rules)
    BY SetsAre DEF IncentiveHolds, IncentiveTyped
<1>4. n \in Nat BY <1>3, FS_Subset, FS_CardinalityType
<1>5. /\ rules \in [1..n -> active]
      /\ \A i, j \in 1..n : i # j => rules[i] # rules[j]
    BY FleetCardinality DEF Fleet!SetToSeqs
<1>6. rules \in Seq(Rules) /\ Len(rules) = n
  <2> HIDE DEF n
  <2> QED BY <1>3, <1>4, <1>5
<1>7. c \in PayoutRun /\ c.todo = rules /\ c.earned = <<>> /\ c.paid = {} /\ c.pc = "evaluate"
    BY <1>6 DEF PayoutRun
<1> HIDE DEF c
<1>8. Len(c.earned) = 0 BY <1>7
<1>9. Apart(c) BY <1>5, <1>6, <1>7, <1>8 DEF Apart
<1>10. call' = [call EXCEPT ![p] = c] BY <1>1 DEF c
<1>11. /\ DOMAIN call' = Procs
       /\ \A q \in Procs : call'[q] = IF q = p THEN c ELSE call[q]
       /\ \A q \in Procs : call'[q] = Idle \/ (call'[q] \in PayoutRun /\ Apart(call'[q]))
       /\ \A r : ~(c.pc = "evaluate" /\ r \in c.paid) => Payers(r)' = Payers(r) \ {p}
    BY <1>3, <1>7, <1>9, <1>10, RunGoesOn
<1>12. \A r : Payers(r)' = Payers(r)
    BY <1>2, <1>7, <1>11, IdleIsNoRun DEF Payers
<1>13. \A r \in Rules : Balanced(r)' BY <1>2, <1>12 DEF IncentiveHolds, Balanced
<1>14. IncentiveTyped' BY <1>2, <1>3, <1>11 DEF IncentiveTyped, Fleet!IncentiveTypeOK
<1>15. IncentiveDue'
  <2>1. DueRules' = DueRules BY <1>2, DueKept
  <2>2. \A r \in Rules : credits'[r] > 0 => r \in DueRules' BY <1>2, <2>1 DEF IncentiveHolds, IncentiveDue
  <2>3. ASSUME NEW q \in Procs, call'[q] # Idle, NEW i \in 1..Len(call'[q].earned)
        PROVE  call'[q].earned[i] \in DueRules'
    <3>1. q # p BY <1>8, <1>11, <2>3
    <3>2. call'[q] = call[q] BY <1>11, <3>1
    <3>3. call[q].earned[i] \in DueRules BY <2>3, <3>2 DEF IncentiveHolds, IncentiveDue
    <3> QED BY <2>1, <3>2, <3>3
  <2>4. \A q \in Procs : call'[q] # Idle => \A i \in 1..Len(call'[q].earned) : call'[q].earned[i] \in DueRules'
      BY <2>3
  <2> QED BY <2>2, <2>4 DEF IncentiveDue
<1> QED BY <1>13, <1>14, <1>15 DEF IncentiveHolds

\* A rule is evaluated, or passed over.
LEMMA IncentiveEvaluates ==
    ASSUME IncentiveHolds, NEW p \in Procs, call[p].pc = "evaluate", call[p].todo # <<>>,
           NEW earned, \/ earned = call[p].earned
                       \/ earned = Append(call[p].earned, Head(call[p].todo)) /\ Head(call[p].todo) \in DueRules,
           call' = [call EXCEPT ![p] = [call[p] EXCEPT !.todo = Tail(@), !.earned = earned]],
           UNCHANGED <<completed, active, credits, payouts>>
    PROVE  IncentiveHolds'
<1> DEFINE b == call[p]
           c == [b EXCEPT !.todo = Tail(@), !.earned = earned]
<1>1. IncentiveTyped /\ b \in PayoutRun /\ Apart(b)
    BY IdleIsNoRun DEF IncentiveHolds, IncentiveTyped
<1>2. earned \in {b.earned, Append(b.earned, Head(b.todo))} OBVIOUS
<1>3. c \in PayoutRun /\ Apart(c) /\ c.paid = b.paid /\ c.earned = earned
  <2> HIDE DEF b
  <2>1. b.todo # <<>> BY DEF b
  <2> QED BY <1>1, <1>2, <2>1, TodoShrinks
<1>4. c.pc = "evaluate" BY <1>3 DEF PayoutRun
<1>5. call' = [call EXCEPT ![p] = c] OBVIOUS
<1> HIDE DEF c
<1>6. /\ DOMAIN call' = Procs
      /\ \A q \in Procs : call'[q] = IF q = p THEN c ELSE call[q]
      /\ \A q \in Procs : call'[q] = Idle \/ (call'[q] \in PayoutRun /\ Apart(call'[q]))
    BY <1>1, <1>3, <1>5, RunGoesOn
<1>7. \A r : Payers(r)' = Payers(r)
    BY <1>3, <1>4, <1>6 DEF Payers
<1>8. \A r \in Rules : Balanced(r)' BY <1>7 DEF IncentiveHolds, Balanced
<1>9. IncentiveTyped' BY <1>1, <1>6 DEF IncentiveTyped, Fleet!IncentiveTypeOK
<1>10. IncentiveDue'
  <2>1. DueRules' = DueRules BY DueKept
  <2>2. \A r \in Rules : credits'[r] > 0 => r \in DueRules' BY <2>1 DEF IncentiveHolds, IncentiveDue
  <2>3. \A i \in 1..Len(b.earned) : b.earned[i] \in DueRules
      BY <1>1, IdleIsNoRun DEF IncentiveHolds, IncentiveDue
  <2>4. \A i \in 1..Len(earned) : earned[i] \in DueRules
    <3>1. CASE earned = b.earned BY <2>3, <3>1
    <3>2. CASE earned = Append(b.earned, Head(b.todo)) /\ Head(b.todo) \in DueRules
      <4>1. b.earned \in Seq(Rules) /\ b.todo \in Seq(Rules) BY <1>1 DEF PayoutRun
      <4>2. Head(b.todo) \in Rules BY <4>1, Lists
      <4>3. \A i \in 1..Len(earned) :
                \/ i \in 1..Len(b.earned) /\ earned[i] = b.earned[i]
                \/ i = Len(b.earned) + 1 /\ i \notin 1..Len(b.earned) /\ earned[i] = Head(b.todo)
          BY <3>2, <4>1, <4>2, ListGrows
      <4> QED BY <2>3, <3>2, <4>3
    <3> QED BY <3>1, <3>2
  <2>5. ASSUME NEW q \in Procs, call'[q] # Idle, NEW i \in 1..Len(call'[q].earned)
        PROVE  call'[q].earned[i] \in DueRules
    <3>1. CASE q = p BY <1>3, <1>6, <2>4, <2>5, <3>1
    <3>2. CASE q # p BY <1>6, <2>5, <3>2 DEF IncentiveHolds, IncentiveDue
    <3> QED BY <3>1, <3>2
  <2>6. \A q \in Procs : call'[q] # Idle => \A i \in 1..Len(call'[q].earned) : call'[q].earned[i] \in DueRules'
      BY <2>1, <2>5
  <2> QED BY <2>2, <2>6 DEF IncentiveDue
<1> QED BY <1>8, <1>9, <1>10 DEF IncentiveHolds

\* A bonus is credited, or passed over.
LEMMA IncentiveCredits ==
    ASSUME IncentiveHolds, NEW p \in Procs, call[p].pc = "evaluate", call[p].earned # <<>>,
           NEW paid,
           call' = [call EXCEPT ![p] = [call[p] EXCEPT !.earned = Tail(@), !.paid = paid]],
           \/ paid = call[p].paid /\ credits' = credits
           \/ /\ paid = call[p].paid \cup {Head(call[p].earned)}
              /\ credits' = [credits EXCEPT ![Head(call[p].earned)] = @ + 1],
           UNCHANGED <<completed, active, payouts>>
    PROVE  IncentiveHolds'
<1> DEFINE b == call[p]
           c == [b EXCEPT !.earned = Tail(@), !.paid = paid]
           rule == Head(b.earned)
<1>1. IncentiveTyped /\ b \in PayoutRun /\ Apart(b)
    BY IdleIsNoRun DEF IncentiveHolds, IncentiveTyped
<1>2. paid \in {b.paid, b.paid \cup {rule}} OBVIOUS
<1>3. /\ c \in PayoutRun /\ Apart(c) /\ c.paid = paid
      /\ rule \in Rules /\ rule = b.earned[1] /\ 1 \in 1..Len(b.earned) /\ rule \notin b.paid
      /\ \A i \in 1..Len(c.earned) : \E j \in 1..Len(b.earned) : c.earned[i] = b.earned[j]
  <2> HIDE DEF b
  <2>1. b.earned # <<>> BY DEF b
  <2> QED BY <1>1, <1>2, <2>1, EarnedShrinks
<1>4. c.pc = "evaluate" BY <1>3 DEF PayoutRun
<1>5. call' = [call EXCEPT ![p] = c] OBVIOUS
<1>6. credits \in [Rules -> Nat] /\ payouts \in [Rules -> Nat] /\ completed \in [Zones -> Nat]
    BY <1>1 DEF IncentiveTyped, Fleet!IncentiveTypeOK
<1> HIDE DEF c, rule
<1>7. /\ DOMAIN call' = Procs
      /\ \A q \in Procs : call'[q] = IF q = p THEN c ELSE call[q]
      /\ \A q \in Procs : call'[q] = Idle \/ (call'[q] \in PayoutRun /\ Apart(call'[q]))
      /\ \A r : c.pc = "evaluate" /\ r \in c.paid => Payers(r)' = Payers(r) \cup {p}
    BY <1>1, <1>3, <1>5, RunGoesOn
<1>8. \A i \in 1..Len(b.earned) : b.earned[i] \in DueRules
    BY <1>1, IdleIsNoRun DEF IncentiveHolds, IncentiveDue
<1>9. DueRules' = DueRules BY DueKept
<1>10. ASSUME NEW q \in Procs, call'[q] # Idle, NEW i \in 1..Len(call'[q].earned)
       PROVE  call'[q].earned[i] \in DueRules
  <2>1. CASE q = p BY <1>3, <1>7, <1>8, <1>10, <2>1
  <2>2. CASE q # p BY <1>7, <1>10, <2>2 DEF IncentiveHolds, IncentiveDue
  <2> QED BY <2>1, <2>2
<1>11. \A q \in Procs : call'[q] # Idle => \A i \in 1..Len(call'[q].earned) : call'[q].earned[i] \in DueRules'
    BY <1>9, <1>10
<1>12. CASE paid = b.paid /\ credits' = credits
  <2>1. \A r : Payers(r)' = Payers(r) BY <1>3, <1>4, <1>7, <1>12 DEF Payers
  <2>2. \A r \in Rules : Balanced(r)' BY <1>12, <2>1 DEF IncentiveHolds, Balanced
  <2>3. IncentiveTyped' BY <1>1, <1>7, <1>12 DEF IncentiveTyped, Fleet!IncentiveTypeOK
  <2>4. \A r \in Rules : credits'[r] > 0 => r \in DueRules' BY <1>9, <1>12 DEF IncentiveHolds, IncentiveDue
  <2> QED BY <1>11, <2>2, <2>3, <2>4 DEF IncentiveHolds, IncentiveDue
<1>13. CASE paid = b.paid \cup {rule} /\ credits' = [credits EXCEPT ![rule] = @ + 1]
  <2>1. /\ credits' \in [Rules -> Nat] /\ credits'[rule] = credits[rule] + 1
        /\ \A r \in Rules \ {rule} : credits'[r] = credits[r]
      BY <1>3, <1>6, <1>13
  <2>2. \A r : r # rule => Payers(r)' = Payers(r) BY <1>3, <1>4, <1>7, <1>13 DEF Payers
  <2>3. p \notin Payers(rule) BY <1>3 DEF Payers
  <2>6. ASSUME NEW r \in Rules, r = rule PROVE Balanced(r)'
    <3>1. Payers(r)' = Payers(r) \cup {p} /\ p \notin Payers(r) BY <1>3, <1>4, <1>7, <1>13, <2>3, <2>6
    <3>2. Cardinality(Payers(r)') = Cardinality(Payers(r)) + 1 /\ Cardinality(Payers(r)) \in Nat
        BY <3>1, PayersFinite
    <3>3. credits[r] = payouts[r] + Cardinality(Payers(r)) /\ payouts[r] \in Nat
        BY <1>6 DEF IncentiveHolds, Balanced
    <3>4. credits'[r] = payouts[r] + Cardinality(Payers(r)')
      <4>1. PICK m \in Nat, n \in Nat : m = payouts[r] /\ n = Cardinality(Payers(r))
          BY <3>2, <3>3
      <4>2. credits'[r] = (m + n) + 1 /\ Cardinality(Payers(r)') = n + 1
          BY <2>1, <2>6, <3>2, <3>3, <4>1
      <4>3. (m + n) + 1 = m + (n + 1) BY <4>1
      <4> QED BY <4>1, <4>2, <4>3
    <3> QED BY <3>4 DEF Balanced
  <2>7. \A r \in Rules : r # rule => Balanced(r)' BY <2>1, <2>2 DEF IncentiveHolds, Balanced
  <2>8. \A r \in Rules : Balanced(r)' BY <2>6, <2>7
  <2>9. IncentiveTyped' BY <1>1, <1>6, <1>7, <2>1 DEF IncentiveTyped, Fleet!IncentiveTypeOK
  <2>10. rule \in DueRules BY <1>3, <1>8
  <2>11. \A r \in Rules : credits'[r] > 0 => r \in DueRules'
      BY <1>9, <2>1, <2>10 DEF IncentiveHolds, IncentiveDue
  <2> QED BY <1>11, <2>8, <2>9, <2>11 DEF IncentiveHolds, IncentiveDue
<1> QED BY <1>12, <1>13 DEF rule

LEMMA IncentiveReports ==
    ASSUME IncentiveHolds, NEW p \in Procs, Fleet!Report(p)
    PROVE  IncentiveHolds'
<1> DEFINE b == call[p]
<1>1. /\ b.pc = "evaluate" /\ call' = [call EXCEPT ![p] = Idle]
      /\ payouts' = [r \in Rules |-> IF r \in b.paid THEN payouts[r] + 1 ELSE payouts[r]]
      /\ UNCHANGED <<completed, active, credits>>
    BY IdleIsNoRun DEF Fleet!Report, Fleet!At, Fleet!Return, Fleet!Goto
<1>2. IncentiveTyped /\ b \in PayoutRun
    BY <1>1, IdleIsNoRun DEF IncentiveHolds, IncentiveTyped
<1>3. credits \in [Rules -> Nat] /\ payouts \in [Rules -> Nat] /\ completed \in [Zones -> Nat]
    BY <1>2 DEF IncentiveTyped, Fleet!IncentiveTypeOK
<1> HIDE DEF b
<1>4. /\ DOMAIN call' = Procs
      /\ \A q \in Procs : call'[q] = IF q = p THEN Idle ELSE call[q]
      /\ \A q \in Procs : call'[q] = Idle \/ (call'[q] \in PayoutRun /\ Apart(call'[q]))
      /\ \A r : ~(Idle.pc = "evaluate" /\ r \in Idle.paid) => Payers(r)' = Payers(r) \ {p}
    BY <1>1, <1>2, RunGoesOn
<1>5. \A r : Payers(r)' = Payers(r) \ {p} BY <1>4, IdleIsNoRun
<1>6. \A r : p \in Payers(r) <=> r \in b.paid BY <1>1 DEF Payers, b
<1>7. payouts' \in [Rules -> Nat] BY <1>1, <1>3
<1>8. ASSUME NEW r \in Rules PROVE Balanced(r)'
  <2>1. credits[r] = payouts[r] + Cardinality(Payers(r)) /\ payouts[r] \in Nat
      BY <1>3 DEF IncentiveHolds, Balanced
  <2>2. /\ Cardinality(Payers(r)) \in Nat
        /\ Cardinality(Payers(r)') =
             IF r \in b.paid THEN Cardinality(Payers(r)) - 1 ELSE Cardinality(Payers(r))
      BY <1>5, <1>6, PayersFinite
  <2>3. payouts'[r] = IF r \in b.paid THEN payouts[r] + 1 ELSE payouts[r] BY <1>1
  <2>4. credits[r] = payouts'[r] + Cardinality(Payers(r)') BY <2>1, <2>2, <2>3
  <2> QED BY <1>1, <2>4 DEF Balanced
<1>9. IncentiveTyped' BY <1>1, <1>2, <1>3, <1>4, <1>7 DEF IncentiveTyped, Fleet!IncentiveTypeOK
<1>10. IncentiveDue'
  <2>1. DueRules' = DueRules BY <1>1, DueKept
  <2>2. \A r \in Rules : credits'[r] > 0 => r \in DueRules' BY <1>1, <2>1 DEF IncentiveHolds, IncentiveDue
  <2>3. ASSUME NEW q \in Procs, call'[q] # Idle, NEW i \in 1..Len(call'[q].earned)
        PROVE  call'[q].earned[i] \in DueRules
      BY <1>4, <2>3 DEF IncentiveHolds, IncentiveDue
  <2>4. \A q \in Procs : call'[q] # Idle => \A i \in 1..Len(call'[q].earned) : call'[q].earned[i] \in DueRules'
      BY <2>1, <2>3
  <2> QED BY <2>2, <2>4 DEF IncentiveDue
<1> QED BY <1>8, <1>9, <1>10 DEF IncentiveHolds

\* Orders completed never undo what is due.
LEMMA IncentiveWorld ==
    ASSUME IncentiveHolds,
           \/ \E z \in Zones : Fleet!CompleteOrder(z)
           \/ \E r \in active : Fleet!Deactivate(r)
    PROVE  IncentiveHolds'
<1>1. IncentiveTyped /\ completed \in [Zones -> Nat]
    BY DEF IncentiveHolds, IncentiveTyped, Fleet!IncentiveTypeOK
<1>2. /\ completed' \in [Zones -> Nat] /\ \A z \in Zones : completed[z] <= completed'[z]
      /\ active' \subseteq Rules /\ UNCHANGED <<call, credits, payouts>>
    BY <1>1 DEF IncentiveTyped, Fleet!CompleteOrder, Fleet!Deactivate
<1>3. IncentiveTyped' BY <1>1, <1>2 DEF IncentiveTyped, Fleet!IncentiveTypeOK
<1>4. ASSUME NEW r \in Rules, r \in DueRules PROVE r \in DueRules'
  <2>1. ZonesOf(r) \in SUBSET Zones /\ IsFiniteSet(Zones) /\ TargetCount[r] \in Nat
      BY SetsAre DEF ZonesOf
  <2>2. Fleet!Orders(ZonesOf(r)) = Total(completed, ZonesOf(r))
      BY DEF Fleet!Orders, Total, Fleet!SumFunctionOnSet, SumFunctionOnSet, Fleet!FoldFunctionOnSet,
         FoldFunctionOnSet, Fleet!MapThenFoldSet, MapThenFoldSet
  <2>3. Fleet!Orders(ZonesOf(r))' = Total(completed', ZonesOf(r))
      BY DEF Fleet!Orders, Total, Fleet!SumFunctionOnSet, SumFunctionOnSet, Fleet!FoldFunctionOnSet,
         FoldFunctionOnSet, Fleet!MapThenFoldSet, MapThenFoldSet, ZonesOf
  <2>4. \A z \in Zones : completed[z] \in Int /\ completed'[z] \in Int /\ completed[z] <= completed'[z]
      BY <1>1, <1>2
  <2>5. Total(completed, ZonesOf(r)) <= Total(completed', ZonesOf(r))
      BY <2>1, <2>4, TotalMonotone
  <2>6. Total(completed, ZonesOf(r)) \in Int /\ Total(completed', ZonesOf(r)) \in Int
      BY <2>1, <2>4, Totals
  <2>7. Total(completed, ZonesOf(r)) >= TargetCount[r] BY <1>4, <2>2 DEF DueRules
  <2>8. Total(completed', ZonesOf(r)) >= TargetCount[r] BY <2>1, <2>5, <2>6, <2>7
  <2>9. ZonesOf(r)' = ZonesOf(r) BY DEF ZonesOf
  <2> QED BY <2>3, <2>8 DEF DueRules, ZonesOf
<1>5. \A r \in Rules : r \in DueRules => r \in DueRules' BY <1>4
<1>6. IncentiveDue'
  <2>1. ASSUME NEW q \in Procs, call[q] # Idle, NEW i \in 1..Len(call[q].earned)
        PROVE  call[q].earned[i] \in DueRules'
    <3>1. call[q].earned \in Seq(Rules) BY <1>1, <2>1 DEF IncentiveTyped, PayoutRun
    <3>2. call[q].earned[i] \in Rules /\ call[q].earned[i] \in DueRules
        BY <2>1, <3>1 DEF IncentiveHolds, IncentiveDue
    <3>3. ASSUME NEW r \in Rules, r = call[q].earned[i] PROVE r \in DueRules' BY <1>5, <3>2, <3>3
    <3> QED BY <3>2, <3>3
  <2>2. \A r \in Rules : credits'[r] > 0 => r \in DueRules'
      BY <1>2, <1>5 DEF IncentiveHolds, IncentiveDue
  <2> QED BY <1>2, <2>1, <2>2 DEF IncentiveDue
<1>7. \A r \in Rules : Balanced(r)' BY <1>2 DEF IncentiveHolds, Balanced, Payers
<1> QED BY <1>3, <1>6, <1>7 DEF IncentiveHolds

LEMMA IncentiveStep ==
    ASSUME IncentiveIInv, Unbounded
    PROVE  IncentiveIInv'
<1>1. CASE subject # "incentives"
    BY <1>1, IncentiveSteps DEF IncentiveIInv, IncentiveVars, Unstarted
<1>2. CASE subject = "incentives"
  <2>1. IncentiveHolds /\ subject' = "incentives" BY <1>2, IncentiveSteps DEF IncentiveIInv
  <2>2. ASSUME NEW p \in Procs, Fleet!EvaluateRule(p) PROVE IncentiveHolds'
    <3> DEFINE rule == Head(call[p].todo)
               met == Fleet!Orders(Fleet!Counted(rule)[1]) >= Fleet!Counted(rule)[2]
               earned == IF met THEN Append(call[p].earned, rule) ELSE call[p].earned
    <3>1. /\ call[p].pc = "evaluate" /\ call[p].todo # <<>>
          /\ UNCHANGED <<completed, active, credits, payouts>>
          /\ call' = [call EXCEPT ![p] = [call[p] EXCEPT !.todo = Tail(@),
                        !.earned = IF met THEN Append(@, rule) ELSE @]]
        BY <2>2 DEF Fleet!EvaluateRule, Fleet!At, Fleet!Goto
    <3>5. rule \in Rules
      <4>1. call[p] \in PayoutRun BY <2>1, <3>1, IdleIsNoRun DEF IncentiveHolds, IncentiveTyped
      <4>2. call[p].todo \in Seq(Rules) BY <4>1 DEF PayoutRun
      <4> QED BY <3>1, <4>2, Lists
    <3>2. met <=> rule \in DueRules BY <3>5 DEF Fleet!Counted, DueRules, ZonesOf
    <3>3. \/ earned = call[p].earned
          \/ earned = Append(call[p].earned, rule) /\ rule \in DueRules
        BY <3>2
    <3>4. call' = [call EXCEPT ![p] = [call[p] EXCEPT !.todo = Tail(@), !.earned = earned]]
        BY <3>1
    <3> HIDE DEF earned
    <3> QED BY <2>1, <3>1, <3>3, <3>4, IncentiveEvaluates
  <2>3. ASSUME NEW p \in Procs, Fleet!CreditRiderWallet(p) PROVE IncentiveHolds'
    <3> DEFINE rule == Head(call[p].earned)
               paid == call[p].paid \cup {rule}
    <3>1. /\ call[p].pc = "evaluate" /\ call[p].earned # <<>>
          /\ UNCHANGED <<completed, active, payouts>>
          /\ credits' = [credits EXCEPT ![rule] = @ + 1]
          /\ call' = [call EXCEPT ![p] = [call[p] EXCEPT !.earned = Tail(@), !.paid = paid]]
        BY <2>3 DEF Fleet!CreditRiderWallet, Fleet!At, Fleet!Goto
    <3>2. paid = call[p].paid \cup {Head(call[p].earned)} OBVIOUS
    <3> HIDE DEF paid
    <3> QED BY <2>1, <3>1, <3>2, IncentiveCredits
  <2>4. ASSUME NEW p \in Procs, Fleet!SkipRule(p) PROVE IncentiveHolds'
    <3>1. IncentiveTyped /\ call[p].pc = "evaluate" BY <2>1, <2>4 DEF IncentiveHolds, Fleet!SkipRule, Fleet!At
    <3>2. call[p] \in PayoutRun BY <3>1, IdleIsNoRun DEF IncentiveTyped
    <3>3. /\ [call[p] EXCEPT !.todo = Tail(@)] = [call[p] EXCEPT !.todo = Tail(@), !.earned = call[p].earned]
          /\ [call[p] EXCEPT !.earned = Tail(@)] = [call[p] EXCEPT !.earned = Tail(@), !.paid = call[p].paid]
        BY <3>2 DEF PayoutRun
    <3>4. CASE call[p].todo # <<>> /\ call' = [call EXCEPT ![p] = [call[p] EXCEPT !.todo = Tail(@)]]
      <4>1. UNCHANGED <<completed, active, credits, payouts>> BY <2>4 DEF Fleet!SkipRule
      <4>2. call' = [call EXCEPT ![p] = [call[p] EXCEPT !.todo = Tail(@), !.earned = call[p].earned]]
          BY <3>3, <3>4
      <4> QED BY <2>1, <3>1, <3>4, <4>1, <4>2, IncentiveEvaluates
    <3>5. CASE call[p].earned # <<>> /\ call' = [call EXCEPT ![p] = [call[p] EXCEPT !.earned = Tail(@)]]
      <4>1. UNCHANGED <<completed, active, credits, payouts>> BY <2>4 DEF Fleet!SkipRule
      <4>2. call' = [call EXCEPT ![p] = [call[p] EXCEPT !.earned = Tail(@), !.paid = call[p].paid]]
          BY <3>3, <3>5
      <4> QED BY <2>1, <3>1, <3>5, <4>1, <4>2, IncentiveCredits
    <3> QED BY <2>4, <3>4, <3>5 DEF Fleet!SkipRule, Fleet!Goto
  <2>5. IncentiveHolds'
      BY <1>2, <2>1, <2>2, <2>3, <2>4, IncentiveSteps, IncentiveStarts, IncentiveReports, IncentiveWorld
      DEF Fleet!IncentiveWork, Fleet!IncentiveFail
  <2> QED BY <2>1, <2>5 DEF IncentiveIInv
<1> QED BY <1>1, <1>2

LEMMA IncentiveStutter ==
    ASSUME IncentiveIInv, subject' = subject, call' = call, UNCHANGED IncentiveVars
    PROVE  IncentiveIInv'
<1>1. UNCHANGED <<completed, active, credits, payouts>> BY DEF IncentiveVars
<1>2. CASE subject = "incentives"
  <2>1. IncentiveHolds BY <1>2 DEF IncentiveIInv
  <2>2. IncentiveTyped' BY <1>1, <2>1 DEF IncentiveHolds, IncentiveTyped, Fleet!IncentiveTypeOK
  <2>3. IncentiveDue'
      BY <1>1, <2>1 DEF IncentiveHolds, IncentiveDue, DueRules, Fleet!Orders, ZonesOf
  <2>4. \A r \in Rules : Balanced(r)' BY <1>1, <2>1 DEF IncentiveHolds, Balanced, Payers
  <2> QED BY <1>2, <2>2, <2>3, <2>4 DEF IncentiveIInv, IncentiveHolds
<1>3. CASE subject # "incentives" BY <1>1, <1>3 DEF IncentiveIInv, Unstarted
<1> QED BY <1>2, <1>3

LEMMA IncentiveInit == LibrariesInit => IncentiveIInv
<1> SUFFICES ASSUME LibrariesInit PROVE IncentiveIInv OBVIOUS
<1>1. /\ call = [p \in Procs |-> Idle]
      /\ completed = [z \in Zones |-> 0] /\ active = Rules
      /\ credits = [r \in Rules |-> 0] /\ payouts = [r \in Rules |-> 0]
    BY IdleIsNoRun DEF LibrariesInit, Fleet!Init, Fleet!IncentiveInit
<1>2. \A r : Payers(r) = {} BY <1>1, IdleIsNoRun DEF Payers
<1>3. \A r : Cardinality(Payers(r)) = 0 BY <1>2, FS_EmptySet
<1>4. \A r \in Rules : Balanced(r) BY <1>1, <1>3 DEF Balanced
<1>5. IncentiveTyped BY <1>1 DEF IncentiveTyped, Fleet!IncentiveTypeOK
<1>6. IncentiveDue BY <1>1 DEF IncentiveDue
<1> QED BY <1>1, <1>4, <1>5, <1>6 DEF IncentiveIInv, IncentiveHolds, Unstarted

LEMMA IncentiveSound ==
    ASSUME IncentiveIInv
    PROVE  /\ Fleet!IncentiveTypeOK /\ Fleet!CreditedWasEarned
           /\ subject = "incentives" \/ (\A p \in Procs : call[p].pc # "evaluate")
                => Fleet!ReportedWasCredited
<1>1. CASE subject = "incentives"
  <2>1. IncentiveHolds BY <1>1 DEF IncentiveIInv
  <2>2. Fleet!IncentiveTypeOK BY <2>1 DEF IncentiveHolds, IncentiveTyped
  <2>3. Fleet!CreditedWasEarned
      BY <2>1 DEF IncentiveHolds, IncentiveDue, DueRules, ZonesOf, Fleet!CreditedWasEarned
  <2>4. Fleet!ReportedWasCredited
      BY <2>1, FleetCardinality
      DEF IncentiveHolds, Balanced, Payers, Fleet!ReportedWasCredited, Fleet!At
  <2> QED BY <2>2, <2>3, <2>4
<1>2. CASE subject # "incentives"
  <2>1. Unstarted BY <1>2 DEF IncentiveIInv
  <2>2. Fleet!IncentiveTypeOK BY <2>1 DEF Unstarted, Fleet!IncentiveTypeOK
  <2>3. Fleet!CreditedWasEarned BY <2>1 DEF Unstarted, Fleet!CreditedWasEarned
  <2>4. ASSUME \A p \in Procs : call[p].pc # "evaluate" PROVE Fleet!ReportedWasCredited
    <3>1. \A r : {p \in Procs : Fleet!At(p, "evaluate") /\ r \in call[p].paid} = {}
        BY <2>4 DEF Fleet!At
    <3>2. Fleet!Cardinality({}) = 0 BY FleetCardinality, FS_EmptySet
    <3> QED BY <2>1, <3>1, <3>2 DEF Unstarted, Fleet!ReportedWasCredited
  <2> QED BY <1>2, <2>2, <2>3, <2>4
<1> QED BY <1>1, <1>2

-----------------------------------------------------------------------------
(* Carts and checkout (Pricing).                                           *)

CartVars == <<cart, fees, quote, charged>>

Now == Pricer!CalculateCartPricing(cart, fees)

\* The client holds what some cart cost, and is charged that or what the cart
\* costs now.
CartHolds ==
    /\ cart \in Pricer!Carts /\ fees \in Pricer!Fees
    /\ \/ quote = Pricer!None
       \/ \E c \in Pricer!Carts, f \in Pricer!Fees : quote = Pricer!CalculateCartPricing(c, f)
    /\ \/ charged = Pricer!None
       \/ /\ quote # Pricer!None
          /\ charged = IF Pricer!Changed(Now.GrandTotal, quote.GrandTotal) THEN Now ELSE quote

LEMMA CartSteps ==
    ASSUME Unbounded
    PROVE  UNCHANGED CartVars \/ Pricer!CartNext
BY DEF Unbounded, Calls, World, Faults, Steps, Frame, CartVars

LEMMA CartStep ==
    ASSUME CartHolds, Unbounded
    PROVE  CartHolds'
<1>1. CASE UNCHANGED CartVars BY <1>1 DEF CartHolds, CartVars, Now
<1>2. ASSUME NEW c \in Pricer!Carts, Pricer!Edit(c) PROVE CartHolds'
    BY <1>2 DEF CartHolds, Pricer!Edit
<1>3. ASSUME NEW f \in Pricer!Fees, Pricer!Configure(f) PROVE CartHolds'
    BY <1>3 DEF CartHolds, Pricer!Configure
<1>4. CASE Pricer!Quote
  <2>1. /\ cart' = cart /\ fees' = fees /\ charged' = Pricer!None
        /\ quote' = Pricer!CalculateCartPricing(cart, fees)
      BY <1>4 DEF Pricer!Quote
  <2> QED BY <2>1 DEF CartHolds
<1>5. CASE Pricer!ValidatePricingAtCheckout
  <2>1. /\ cart' = cart /\ fees' = fees /\ quote' = quote /\ quote # Pricer!None
        /\ charged' = IF Pricer!Changed(Now.GrandTotal, quote.GrandTotal) THEN Now ELSE quote
      BY <1>5 DEF Pricer!ValidatePricingAtCheckout, Now
  <2>2. Now' = Now BY <2>1 DEF Now
  <2> QED BY <2>1, <2>2 DEF CartHolds
<1> QED BY <1>1, <1>2, <1>3, <1>4, <1>5, CartSteps DEF Pricer!CartNext

LEMMA CartStutter ==
    ASSUME CartHolds, UNCHANGED CartVars
    PROVE  CartHolds'
BY DEF CartHolds, CartVars, Now

\* The least and the greatest of the numbers that parameters range over.
LEMMA LeastOf ==
    ASSUME NEW S, IsFiniteSet(S), S # {}, S \subseteq Nat
    PROVE  Pricer!Min(S) \in S /\ Tracking!Min(S) \in S
<1>1. \E x \in S : \A y \in S : x <= y
  <2>1. S \subseteq Int OBVIOUS
  <2> QED BY <2>1, Extremes
<1> QED BY <1>1 DEF Pricer!Min, Tracking!Min

LEMMA CartInit == LibrariesInit => CartHolds
<1> SUFFICES ASSUME LibrariesInit PROVE CartHolds OBVIOUS
<1>1. Pricer!CartInit BY DEF LibrariesInit, Pricer!Init
<1>2. Pricer!Min(Prices) \in Prices /\ Pricer!Min(Quantities) \in Quantities
    BY PricesAre, LeastOf
<1>3. cart \in Pricer!Carts /\ fees \in Pricer!Fees
    BY <1>1, <1>2 DEF Pricer!CartInit, Pricer!Carts, Pricer!Fees
<1> QED BY <1>1, <1>3 DEF CartHolds, Pricer!CartInit

\* Rounding is off by half a paisa at most.
LEMMA Rounded ==
    ASSUME NEW n \in Int
    PROVE  LET r == Pricer!RoundToTwoDecimals(n)
           IN  /\ r \in Int /\ 10000 * r - n > -5000 /\ 10000 * r - n <= 5000
               /\ n >= 0 => r >= 0
BY DEF Pricer!RoundToTwoDecimals, Pricer!Unit

LEMMA RoundedExactly ==
    ASSUME NEW n \in Int
    PROVE  Pricer!RoundToTwoDecimals(10000 * n) = n
BY DEF Pricer!RoundToTwoDecimals, Pricer!Unit

LEMMA Product == \A m, n \in Nat : m * n \in Nat
OBVIOUS

\* The parts of a price, in units, and what they are rounded to.
LEMMA CartPrice ==
    ASSUME NEW c \in Pricer!Carts, NEW f \in Pricer!Fees
    PROVE  LET q == Pricer!CalculateCartPricing(c, f)
           IN  /\ q.GrandTotal \in Nat
               /\ Pricer!Magnitude(q.GrandTotal
                  - (q.ItemTotal + q.PackagingCharge + q.PlatformFee + q.DeliveryFee
                     + q.TotalGST - q.DiscountAmount + q.TipAmount)) <= 1
<1> DEFINE i        == c.price * c.quantity
           item     == c.price * c.quantity * 10000
           packing  == IF f.perItem THEN 500 * c.quantity * 10000 ELSE 1000 * 10000
           platform == IF f.rate > 0 THEN (item \div 100) * f.rate ELSE 500 * 10000
           platformGST == (platform \div 100) * 18
           food     == ((item + packing) \div 100) * 5
           discount == IF c.coupon THEN item \div 10 ELSE 0
           q        == Pricer!CalculateCartPricing(c, f)
           R(n)     == Pricer!RoundToTwoDecimals(n)
           k        == IF f.perItem THEN 500 * c.quantity ELSE 1000
           total    == item + packing + platform + 30000000 + food + platformGST + 1500000
                       - discount + c.tip * 10000
<1>1. /\ c.price \in Nat /\ c.quantity \in Nat /\ c.tip \in Nat /\ f.rate \in Nat
  <2>1. Prices \subseteq Nat /\ Quantities \subseteq Nat /\ Rates \cup {0} \subseteq Nat
      BY PricesAreNumbers
  <2>2. c.price \in Prices BY DEF Pricer!Carts
  <2>3. c.price \in Nat BY <2>1, <2>2
  <2>4. c.quantity \in Quantities BY DEF Pricer!Carts
  <2>5. c.quantity \in Nat BY <2>1, <2>4
  <2>6. c.tip \in {0, 1000} BY DEF Pricer!Carts
  <2>7. c.tip \in Nat BY <2>6
  <2>8. f.rate \in Nat BY <2>1 DEF Pricer!Fees
  <2> QED BY <2>3, <2>5, <2>7, <2>8
<1>2. i \in Nat /\ item = 10000 * i BY <1>1, Product
<1>3. k \in Nat /\ packing = 10000 * k BY <1>1
<1>4. platform \in Nat
  <2>1. item \div 100 \in Nat BY <1>2
  <2>2. (item \div 100) * f.rate \in Nat BY <1>1, <2>1, Product
  <2> QED BY <2>2
<1>5. platformGST \in Nat BY <1>4
<1>6. food \in Nat
  <2>1. item \in Nat /\ packing \in Nat BY <1>2, <1>3
  <2> HIDE DEF item, packing
  <2> QED BY <2>1
<1>7. discount \in Nat /\ discount <= item BY <1>2
<1>8. /\ q.ItemTotal = R(item) /\ q.PackagingCharge = R(packing)
      /\ q.PlatformFee = R(platform)
      /\ q.DeliveryFee = R(3000 * 10000)
      /\ q.TotalGST = R(food + platformGST + (((3000 * 10000) \div 100) * 5))
      /\ q.DiscountAmount = R(discount) /\ q.TipAmount = R(c.tip * 10000)
      /\ q.GrandTotal = R(item + packing + platform + 3000 * 10000 + food
                          + platformGST + (((3000 * 10000) \div 100) * 5)
                          - discount + c.tip * 10000)
    BY DEF Pricer!CalculateCartPricing, Pricer!Unit, Pricer!GSTRate
<1>9. 3000 * 10000 = 30000000 /\ ((3000 * 10000) \div 100) * 5 = 1500000 OBVIOUS
<1> HIDE DEF i, item, packing, platform, platformGST, food, discount, q, k
<1>10. /\ R(item) = i /\ R(packing) = k /\ R(30000000) = 3000
       /\ R(c.tip * 10000) = c.tip
  <2>1. /\ Pricer!RoundToTwoDecimals(10000 * i) = i
        /\ Pricer!RoundToTwoDecimals(10000 * k) = k
        /\ Pricer!RoundToTwoDecimals(10000 * 3000) = 3000
        /\ Pricer!RoundToTwoDecimals(10000 * c.tip) = c.tip
      BY <1>1, <1>2, <1>3, RoundedExactly
  <2>2. 10000 * c.tip = c.tip * 10000 /\ 10000 * 3000 = 30000000 BY <1>1
  <2> QED BY <1>2, <1>3, <2>1, <2>2
<1> DEFINE gst == food + platformGST + 1500000
           P == R(platform)
           G == R(gst)
           D == R(discount)
           T == R(total)
           tip == c.tip
<1>11. total \in Int /\ total >= 0 /\ gst \in Int
    BY <1>1, <1>2, <1>3, <1>4, <1>5, <1>6, <1>7
<1>12. /\ P \in Int /\ 10000 * P - platform > -5000 /\ 10000 * P - platform <= 5000
       /\ G \in Int /\ 10000 * G - gst > -5000 /\ 10000 * G - gst <= 5000
       /\ D \in Int /\ 10000 * D - discount > -5000 /\ 10000 * D - discount <= 5000
       /\ T \in Int /\ 10000 * T - total > -5000 /\ 10000 * T - total <= 5000 /\ T >= 0
  <2> HIDE DEF total, gst
  <2>1. P \in Int /\ 10000 * P - platform > -5000 /\ 10000 * P - platform <= 5000 BY <1>4, Rounded
  <2>2. G \in Int /\ 10000 * G - gst > -5000 /\ 10000 * G - gst <= 5000 BY <1>11, Rounded
  <2>3. D \in Int /\ 10000 * D - discount > -5000 /\ 10000 * D - discount <= 5000 BY <1>7, Rounded
  <2>4. T \in Int /\ 10000 * T - total > -5000 /\ 10000 * T - total <= 5000 /\ T >= 0
      BY <1>11, Rounded
  <2> QED BY <2>1, <2>2, <2>3, <2>4
<1>13. /\ q.ItemTotal = i /\ q.PackagingCharge = k /\ q.PlatformFee = P /\ q.DeliveryFee = 3000
       /\ q.TotalGST = G /\ q.DiscountAmount = D /\ q.TipAmount = tip
       /\ q.GrandTotal = T
  <2>1. q.TotalGST = R(gst) /\ q.GrandTotal = R(total) BY <1>8, <1>9
  <2> QED BY <1>8, <1>9, <1>10, <2>1
<1>14. /\ total = 10000 * i + 10000 * k + platform + 30000000 + gst - discount + 10000 * tip
       /\ tip \in Nat
    BY <1>1, <1>2, <1>3, <1>4, <1>5, <1>6, <1>7
<1> DEFINE difference == T - (i + k + P + 3000 + G - D + tip)
<1>15. difference \in Int /\ 10000 * difference < 20000 /\ 10000 * difference > -20000
  <2> HIDE DEF P, G, D, T, total, gst, tip
  <2>1. difference \in Int BY <1>2, <1>3, <1>12, <1>14
  <2>2. 10000 * difference = 10000 * T - (10000 * i + 10000 * k + 10000 * P + 30000000 + 10000 * G
                                          - 10000 * D + 10000 * tip)
      BY <1>2, <1>3, <1>12, <1>14
  <2> HIDE DEF difference
  <2> QED BY <1>2, <1>3, <1>4, <1>7, <1>11, <1>12, <1>14, <2>1, <2>2
<1>16. Pricer!Magnitude(difference) <= 1
  <2> HIDE DEF difference
  <2> QED BY <1>15 DEF Pricer!Magnitude
<1>17. T \in Nat BY <1>12
<1> HIDE DEF P, G, D, T, tip
<1> QED BY <1>13, <1>16, <1>17 DEF q

LEMMA CartSound ==
    ASSUME CartHolds
    PROVE  Pricer!CartTypeOK /\ Pricer!PartsAddUp /\ Pricer!ChargedIsCurrent
<1>1. Now.GrandTotal \in Nat BY CartPrice DEF CartHolds, Now
<1>2. quote.GrandTotal \in Nat /\ Pricer!PartsAddUp
  <2>1. CASE quote = Pricer!None BY <2>1 DEF Pricer!None, Pricer!PartsAddUp
  <2>2. CASE quote # Pricer!None
      BY <2>2, CartPrice DEF CartHolds, Pricer!PartsAddUp
  <2> QED BY <2>1, <2>2
<1>3. charged.GrandTotal \in Nat
    BY <1>1, <1>2 DEF CartHolds, Pricer!None
<1>4. ASSUME charged # Pricer!None
      PROVE  Pricer!Magnitude(Now.GrandTotal - charged.GrandTotal) * 100
                <= Pricer!Min({charged.GrandTotal, quote.GrandTotal})
  <2> DEFINE n == Now.GrandTotal
             a == charged.GrandTotal
             b == quote.GrandTotal
             m == Pricer!Min({a, b})
  <2>1. n \in Nat /\ a \in Nat /\ b \in Nat BY <1>1, <1>2, <1>3
  <2>2. m \in Nat /\ (m = a \/ m = b)
    <3>1. \E x \in {a, b} : \A y \in {a, b} : x <= y BY <2>1
    <3>2. m \in {a, b} BY <3>1 DEF Pricer!Min
    <3> QED BY <2>1, <3>2
  <2>3. \/ a = n
        \/ ~Pricer!Changed(n, b) /\ a = b
      BY <1>4 DEF CartHolds
  <2> HIDE DEF n, a, b, m
  <2> QED BY <2>1, <2>2, <2>3 DEF Pricer!Magnitude, Pricer!Changed, n, a, b, m
<1> QED BY <1>2, <1>3, <1>4 DEF CartHolds, Pricer!CartTypeOK, Pricer!ChargedIsCurrent, Now
-----------------------------------------------------------------------------
(* Menus (Pricing).                                                        *)

LEMMA NumbersAre == MinQuantity \in Nat /\ MaxQuantity \in Nat /\ Values \subseteq Nat
BY LibrariesAssumption

MenuVars == <<available, request, valid, price>>

MenuHolds ==
    /\ request \in Pricer!Requests
    /\ \/ valid = "yes" /\ Pricer!TheItem \in available /\ Pricer!NoErrors
       \/ valid \in {"no", "unknown"}
    /\ price = -1 \/ price = Pricer!CalculateItemPrice

LEMMA MenuSteps ==
    ASSUME Unbounded
    PROVE  UNCHANGED MenuVars \/ Pricer!MenuNext
BY DEF Unbounded, Calls, World, Faults, Steps, Frame, MenuVars

LEMMA MenuStep ==
    ASSUME MenuHolds, Unbounded
    PROVE  MenuHolds'
<1> USE DEF Pricer!NoErrors, Pricer!RulesKept, Pricer!VariantOK, Pricer!GroupOK, Pricer!Offered,
            Pricer!CountSelectedAddOns, Pricer!CalculateItemPrice, Pricer!AddOnsPrice
<1>1. CASE UNCHANGED MenuVars BY <1>1 DEF MenuHolds, MenuVars
<1>2. ASSUME NEW r \in Pricer!Requests, Pricer!Choose(r) PROVE MenuHolds'
    BY <1>2 DEF MenuHolds, Pricer!Choose
<1>3. ASSUME NEW thing, Pricer!Toggle(thing) PROVE MenuHolds'
    BY <1>3 DEF MenuHolds, Pricer!Toggle
<1>4. CASE Pricer!ValidateCart BY <1>4 DEF MenuHolds, Pricer!ValidateCart
<1>5. CASE Pricer!RecalculateCartPrices BY <1>5 DEF MenuHolds, Pricer!RecalculateCartPrices
<1> QED BY <1>1, <1>2, <1>3, <1>4, <1>5, MenuSteps DEF Pricer!MenuNext

LEMMA MenuStutter ==
    ASSUME MenuHolds, UNCHANGED MenuVars
    PROVE  MenuHolds'
BY DEF MenuHolds, MenuVars, Pricer!NoErrors, Pricer!RulesKept, Pricer!VariantOK, Pricer!GroupOK,
       Pricer!Offered, Pricer!CountSelectedAddOns, Pricer!CalculateItemPrice, Pricer!AddOnsPrice

LEMMA MenuInit == LibrariesInit => MenuHolds
<1> SUFFICES ASSUME LibrariesInit PROVE MenuHolds OBVIOUS
<1>1. Pricer!MenuInit BY DEF LibrariesInit, Pricer!Init
<1>2. <<>> \in [1..0 -> AddOns] /\ 0 \in 0..MaxIDs /\ 0 \in 0..(MaxQuantity + 1)
    BY BoundsAre
<1>3. <<>> \in UNION {[1..n -> AddOns] : n \in 0..MaxIDs} BY <1>2
<1>4. request \in Pricer!Requests
    BY <1>1, <1>2, <1>3 DEF Pricer!MenuInit, Pricer!Requests, Pricer!NoVariant
<1> QED BY <1>1, <1>4 DEF MenuHolds, Pricer!MenuInit

\* The sums the instances speak of.
LEMMA PricerSums ==
    ASSUME NEW w, NEW S
    PROVE  Pricer!SumFunctionOnSet(w, S) = Total(w, S) /\ Pricer!SumFunction(w) = Total(w, DOMAIN w)
BY DEF Total, SumFunctionOnSet, FoldFunctionOnSet, MapThenFoldSet, Pricer!SumFunction,
       Pricer!SumFunctionOnSet, Pricer!FoldFunctionOnSet, Pricer!MapThenFoldSet

LEMMA MenuSound ==
    ASSUME MenuHolds
    PROVE  Pricer!MenuTypeOK /\ Pricer!ValidIsPricedInFull
<1> DEFINE names == request.addOns
           variant == request.variant
           quantity == request.quantity
           offered == {i \in DOMAIN names : Pricer!Offered(names[i])}
<1>1. /\ variant \in Nat /\ quantity \in 0..(MaxQuantity + 1)
      /\ names \in UNION {[1..n -> AddOns] : n \in 0..MaxIDs}
  <2>1. Variants \cup {0} \subseteq Nat BY PricesAre
  <2>2. request \in Pricer!Requests BY DEF MenuHolds
  <2> QED BY <2>1, <2>2 DEF Pricer!Requests, Pricer!NoVariant
<1>2. quantity \in Nat BY <1>1
<1>3. PICK n \in 0..MaxIDs : names \in [1..n -> AddOns] BY <1>1
<1>4. IsFiniteSet(DOMAIN names) /\ offered \subseteq DOMAIN names
  <2>1. n \in Nat BY <1>3
  <2> QED BY <1>3, <2>1, FS_Interval
<1>5. \A i \in DOMAIN names : names[i] \in Nat
  <2>1. AddOns \subseteq Nat BY PricesAre
  <2> QED BY <1>3, <2>1
<1> HIDE DEF names, offered
<1>6. Total(names, offered) \in Nat BY <1>4, <1>5, TotalGrows
<1>7. Pricer!AddOnsPrice = Total(names, offered)
    BY PricerSums DEF Pricer!AddOnsPrice, names, offered
<1>8. Pricer!CalculateItemPrice
        = (100 + (IF Pricer!VariantOK THEN variant ELSE 0) + Total(names, offered)) * quantity
    BY <1>7 DEF Pricer!CalculateItemPrice, Pricer!BasePrice
<1> DEFINE sum == 100 + (IF Pricer!VariantOK THEN variant ELSE 0) + Total(names, offered)
<1>9. sum \in Nat /\ sum >= 100 BY <1>1, <1>6
<1>10. Pricer!CalculateItemPrice \in Nat
  <2> HIDE DEF sum
  <2>1. sum * quantity \in Nat BY <1>2, <1>9, Product
  <2> QED BY <1>8, <2>1 DEF sum
<1>11. Pricer!MenuTypeOK BY <1>10 DEF MenuHolds, Pricer!MenuTypeOK
<1>12. ASSUME valid = "yes", price >= 0
       PROVE  /\ price = (Pricer!BasePrice + variant + Pricer!SumFunction(names)) * quantity
              /\ Pricer!TheItem \in available
              /\ Pricer!TheRules \in available /\ MinQuantity > 0 => price > 0
  <2>1. /\ Pricer!NoErrors /\ Pricer!TheItem \in available
        /\ price = Pricer!CalculateItemPrice
      BY <1>12 DEF MenuHolds
  <2>2. offered = DOMAIN names BY <2>1 DEF Pricer!NoErrors, offered, names
  <2>3. Pricer!SumFunction(names) = Total(names, offered) BY <2>2, PricerSums
  <2>4. Pricer!VariantOK BY <2>1 DEF Pricer!NoErrors
  <2>5. sum = 100 + variant + Total(names, offered) BY <2>4
  <2>6. price = sum * quantity BY <1>8, <2>1
  <2>7. ASSUME Pricer!TheRules \in available, MinQuantity > 0 PROVE price > 0
    <3>1. quantity \in MinQuantity..MaxQuantity
        BY <2>1, <2>7 DEF Pricer!NoErrors, Pricer!RulesKept
    <3>2. quantity >= 1 BY <1>2, <2>7, <3>1, NumbersAre
    <3> HIDE DEF sum, quantity
    <3>3. sum \in Nat \ {0} /\ quantity \in Nat \ {0} BY <1>2, <1>9, <3>2
    <3>4. sum * quantity > 0 BY <3>3
    <3> QED BY <2>6, <3>4
  <2> QED BY <2>1, <2>3, <2>5, <2>6, <2>7 DEF Pricer!BasePrice
<1> QED BY <1>11, <1>12 DEF Pricer!ValidIsPricedInFull, names

-----------------------------------------------------------------------------
(* The rider's place, and the time of delivery (DeliveryTracking).         *)

TrackingVars == <<at, open, last, tracked, seen>>

TrackingHolds ==
    /\ Tracking!TrackingTypeOK
    /\ last = IF tracked = Tracking!Nowhere THEN <<0, 0>> ELSE tracked
    /\ open /\ seen /\ at # Tracking!Nowhere => Tracking!Near(at, last)

LEMMA TrackingSteps ==
    ASSUME Unbounded
    PROVE  UNCHANGED TrackingVars \/ Tracking!TrackingNext
BY DEF Unbounded, Calls, World, Faults, Steps, Frame, TrackingVars

LEMMA SomewhereOrNowhere == Tracking!Nowhere \notin Tracking!Points /\ <<0, 0>> \in Tracking!Points
BY SetsAre DEF Tracking!Nowhere, Tracking!Points

\* What was just sent is where the rider is.
LEMMA NearItself == \A point \in Tracking!Points : Tracking!Near(point, point)
<1> SUFFICES ASSUME NEW point \in Tracking!Points, NEW i \in 1..2
             PROVE  Tracking!Apart(point[i], point[i]) <= Threshold
    BY DEF Tracking!Near
<1>1. i = 1 \/ i = 2 OBVIOUS
<1>2. point[i] \in Int BY <1>1, SetsAre DEF Tracking!Points
<1> QED BY <1>2, BoundsAre DEF Tracking!Apart

LEMMA TrackingStep ==
    ASSUME TrackingHolds, Unbounded
    PROVE  TrackingHolds'
<1> USE DEF TrackingHolds, Tracking!TrackingTypeOK
<1>1. CASE UNCHANGED TrackingVars BY <1>1 DEF TrackingVars
<1>2. ASSUME NEW point \in Tracking!Points, Tracking!UpdateLocation(point) PROVE TrackingHolds'
    BY <1>2 DEF Tracking!UpdateLocation
<1>3. CASE Tracking!TrackRiderLocation BY <1>3, SomewhereOrNowhere DEF Tracking!TrackRiderLocation
<1>4. CASE Tracking!Tick
  <2>1. CASE at = Tracking!Nowhere \/ Tracking!Near(at, last) BY <1>4, <2>1 DEF Tracking!Tick
  <2>2. CASE ~(at = Tracking!Nowhere \/ Tracking!Near(at, last))
    <3>1. at \in Tracking!Points BY <2>2
    <3> QED BY <1>4, <2>2, <3>1, NearItself DEF Tracking!Tick
  <2> QED BY <2>1, <2>2
<1>5. CASE Tracking!TickError BY <1>5 DEF Tracking!TickError, Tracking!trackingVars
<1>6. CASE Tracking!ClientGone BY <1>6 DEF Tracking!ClientGone
<1> QED BY <1>1, <1>2, <1>3, <1>4, <1>5, <1>6, TrackingSteps DEF Tracking!TrackingNext

LEMMA TrackingStutter ==
    ASSUME TrackingHolds, UNCHANGED TrackingVars
    PROVE  TrackingHolds'
BY DEF TrackingHolds, TrackingVars, Tracking!TrackingTypeOK

LEMMA TrackingInit == LibrariesInit => TrackingHolds
BY SomewhereOrNowhere
   DEF LibrariesInit, Tracking!Init, Tracking!TrackingInit, TrackingHolds, Tracking!TrackingTypeOK

LEMMA TrackingSound ==
    ASSUME TrackingHolds
    PROVE  Tracking!TrackingTypeOK /\ Tracking!ShownIsNear
BY DEF TrackingHolds, Tracking!ShownIsNear

ETAVars == <<kitchen, calculated, shown>>

ETAHolds == Tracking!ETATypeOK /\ shown = calculated

LEMMA ETASteps ==
    ASSUME Unbounded
    PROVE  UNCHANGED ETAVars \/ Tracking!ETANext
BY DEF Unbounded, Calls, World, Faults, Steps, Frame, ETAVars

\* Times are no less than nothing.
LEMMA Times ==
    ASSUME NEW k \in Tracking!Kitchens
    PROVE  Tracking!CalculateETA(k) \subseteq Nat
<1>1. ASSUME NEW n \in Int PROVE Tracking!Within(5, 60, n) \in Nat
  <2> DEFINE m == Tracking!Min({60, n})
             x == Tracking!Max({5, m})
  <2>1. m \in Int
    <3>1. \E y \in {60, n} : \A z \in {60, n} : y <= z OBVIOUS
    <3>2. m \in {60, n} BY <3>1 DEF Tracking!Min
    <3> QED BY <3>2
  <2> HIDE DEF m
  <2>2. x \in Nat
    <3>1. \E y \in {5, m} : \A z \in {5, m} : y >= z BY <2>1
    <3>2. x \in {5, m} /\ \A z \in {5, m} : x >= z BY <3>1 DEF Tracking!Max
    <3> HIDE DEF x
    <3> QED BY <2>1, <3>2
  <2> QED BY <2>2 DEF Tracking!Within, m
<1>2. /\ k.average \in Nat /\ k.queue \in Nat /\ k.complexity \in Nat
      /\ k.peak \in {0, 1} /\ k.travel \in Nat
  <2>1. Averages \subseteq Nat /\ Queues \subseteq Nat /\ Complexities \subseteq Nat /\ Travels \subseteq Nat
      BY PricesAreNumbers
  <2> QED BY <2>1 DEF Tracking!Kitchens, Tracking!Peaks
<1>3. Tracking!CalculatePrepTimeEstimate(k) \subseteq Nat
  <2>1. ASSUME NEW q \in {0, k.queue}, NEW c \in {5, k.complexity}, NEW p \in {0, k.peak}
        PROVE  Tracking!Within(5, 60, k.average + 2 * q + c + k.average * p) \in Nat
    <3>1. q \in Nat /\ c \in Nat /\ p \in {0, 1} BY <1>2
    <3>2. k.average * p \in Int BY <1>2, <3>1
    <3> QED BY <1>1, <1>2, <3>1, <3>2
  <2> QED BY <2>1 DEF Tracking!CalculatePrepTimeEstimate
<1> QED BY <1>2, <1>3 DEF Tracking!CalculateETA

LEMMA ETAStep ==
    ASSUME ETAHolds, Unbounded
    PROVE  ETAHolds'
<1> USE DEF ETAHolds, Tracking!ETATypeOK
<1>1. CASE UNCHANGED ETAVars BY <1>1 DEF ETAVars
<1>2. CASE Tracking!Order BY <1>2, Times DEF Tracking!Order
<1>3. CASE Tracking!RecalculateETA BY <1>3, Times DEF Tracking!RecalculateETA, Tracking!Beyond
<1>4. ASSUME NEW k \in Tracking!Kitchens, Tracking!Change(k) PROVE ETAHolds'
    BY <1>4 DEF Tracking!Change
<1> QED BY <1>1, <1>2, <1>3, <1>4, ETASteps DEF Tracking!ETANext

LEMMA ETAStutter ==
    ASSUME ETAHolds, UNCHANGED ETAVars
    PROVE  ETAHolds'
BY DEF ETAHolds, ETAVars, Tracking!ETATypeOK

LEMMA ETAInit == LibrariesInit => ETAHolds
<1> SUFFICES ASSUME LibrariesInit PROVE ETAHolds OBVIOUS
<1>1. Tracking!ETAInit BY DEF LibrariesInit, Tracking!Init
<1>2. /\ Tracking!Min(Averages) \in Averages /\ Tracking!Min(Queues) \in Queues
      /\ Tracking!Min(Complexities) \in Complexities /\ Tracking!Min(Travels) \in Travels
    BY PricesAre, LeastOf
<1> QED BY <1>1, <1>2 DEF ETAHolds, Tracking!ETAInit, Tracking!ETATypeOK, Tracking!Kitchens, Tracking!Peaks

LEMMA ETASound ==
    ASSUME ETAHolds
    PROVE  Tracking!ETATypeOK
BY DEF ETAHolds

-----------------------------------------------------------------------------
(* What steps of other libraries there are: those that properties speak of *)
(* occur only while their own library is the subject.                      *)

Own(c) ==
    /\ "pc" \in DOMAIN c
    /\ c.pc = "evaluate" => subject = "incentives"
    /\ c.pc = "send" => subject = "notification"
    /\ c.pc = "choose" => subject = "assignment"

StepsAreOwn == DOMAIN call = Procs /\ \A p \in Procs : Own(call[p])

\* One goroutine goes on, if any.
Moves(p) ==
    /\ DOMAIN call' = Procs
    /\ \A q \in Procs : q # p => call'[q] = call[q]
    /\ Own(call'[p])

Kept == call' = call \/ \E p \in Procs : Moves(p)

LEMMA KeptOwn ==
    ASSUME StepsAreOwn, subject' = subject, Kept
    PROVE  StepsAreOwn'
BY DEF StepsAreOwn, Kept, Moves, Own

LEMMA OtpOwn ==
    ASSUME StepsAreOwn, subject = "otp",
           \/ Auth!ResetOTPCounters \/ Auth!KeysExpire \/ Auth!OtpFail
           \/ \E p \in Procs : Auth!OtpWork(p)
    PROVE  Kept
<1> USE DEF Auth!Goto, Auth!Return, Auth!Idle, StepsAreOwn, Own, Moves
<1>1. CASE Auth!ResetOTPCounters \/ Auth!KeysExpire
    BY <1>1 DEF Auth!ResetOTPCounters, Auth!KeysExpire, Kept
<1>2. ASSUME NEW p \in Procs, Auth!OtpWork(p) PROVE Moves(p)
  <2>1. CASE Auth!SendOTPWithChecks(p) BY <2>1 DEF Auth!SendOTPWithChecks
  <2>2. CASE Auth!CheckLimit(p) BY <2>2 DEF Auth!CheckLimit
  <2>3. CASE Auth!CheckCaptcha(p) BY <2>3 DEF Auth!CheckCaptcha
  <2>4. CASE Auth!RecordOTPRequest(p) BY <2>4 DEF Auth!RecordOTPRequest
  <2>5. CASE Auth!ExpireRequests(p) BY <2>5 DEF Auth!ExpireRequests
  <2>6. CASE Auth!VerifyOTPWithChecks(p) BY <2>6 DEF Auth!VerifyOTPWithChecks
  <2>7. CASE Auth!ClearFailures(p) BY <2>7 DEF Auth!ClearFailures
  <2>8. CASE Auth!ClearCooldown(p) BY <2>8 DEF Auth!ClearCooldown
  <2>9. CASE Auth!CountFailure(p) BY <2>9 DEF Auth!CountFailure
  <2>10. CASE Auth!ExpireFailures(p) BY <2>10 DEF Auth!ExpireFailures
  <2>11. CASE Auth!Cool(p) BY <2>11 DEF Auth!Cool
  <2> QED BY <1>2, <2>1, <2>2, <2>3, <2>4, <2>5, <2>6, <2>7, <2>8, <2>9, <2>10, <2>11
          DEF Auth!OtpWork
<1>3. ASSUME NEW p \in Procs, Auth!Ignore(p) \/ Auth!Stop(p) PROVE Moves(p)
    BY <1>3 DEF Auth!Ignore, Auth!Stop
<1> QED BY <1>1, <1>2, <1>3 DEF Auth!OtpFail, Kept

LEMMA TokenOwn ==
    ASSUME StepsAreOwn, subject = "tokens",
           \/ \E p \in Procs : Auth!TokenWork(p)
           \/ \E device \in Devices : Auth!GenerateTokenPair(device)
           \/ Auth!Revoke \/ Auth!TokenFail \/ \E t \in Auth!Stored : Auth!Expire(t)
    PROVE  Kept
<1> USE DEF Auth!Goto, Auth!Return, Auth!Idle, StepsAreOwn, Own, Moves
<1>1. ASSUME NEW p \in Procs, Auth!TokenWork(p) PROVE Moves(p)
  <2>1. ASSUME NEW t, NEW device, Auth!RefreshAccessToken(p, t, device) PROVE Moves(p)
    <3>1. call' = [call EXCEPT ![p] = [pc |-> "revoke", old |-> t, device |-> device]]
        BY <2>1 DEF Auth!RefreshAccessToken
    <3> QED BY <3>1
  <2>2. CASE Auth!RevokeOld(p) BY <2>2 DEF Auth!RevokeOld
  <2>3. CASE Auth!SaveNew(p) BY <2>3 DEF Auth!SaveNew
  <2> QED BY <1>1, <2>1, <2>2, <2>3 DEF Auth!TokenWork
<1>2. ASSUME NEW p \in Procs, Auth!Stop(p) PROVE Moves(p) BY <1>2 DEF Auth!Stop
<1>3. ASSUME \/ \E device \in Devices : Auth!GenerateTokenPair(device)
             \/ Auth!Revoke \/ \E t \in Auth!Stored : Auth!Expire(t)
      PROVE  call' = call
    BY <1>3 DEF Auth!GenerateTokenPair, Auth!Revoke, Auth!RevokeRefreshToken,
                Auth!RevokeAllUserTokens, Auth!Expire
<1> QED BY <1>1, <1>2, <1>3 DEF Auth!TokenFail, Kept

LEMMA MigrationOwn ==
    ASSUME StepsAreOwn, subject = "migrations", (\E p \in Procs : Migrator!Work(p)) \/ Migrator!Fail
    PROVE  Kept
<1> USE DEF Migrator!Goto, Migrator!Return, Migrator!Idle, StepsAreOwn, Own, Moves
<1>1. ASSUME NEW p \in Procs, NEW v, Migrator!Continue(p, v) PROVE Moves(p)
    BY <1>1 DEF Migrator!Continue
<1>2. ASSUME NEW p \in Procs, Migrator!Work(p) PROVE Moves(p)
  <2>1. ASSUME NEW versions, Migrator!Begin(p, "up", versions) \/ Migrator!Begin(p, "down", versions)
        PROVE  Moves(p)
      BY <2>1 DEF Migrator!Begin
  <2>2. CASE Migrator!Apply(p) BY <1>1, <2>2 DEF Migrator!Apply
  <2>3. CASE Migrator!NothingToDo(p) BY <2>3 DEF Migrator!NothingToDo
  <2>4. CASE Migrator!RollBack(p) BY <1>1, <2>4 DEF Migrator!RollBack
  <2> QED BY <1>2, <2>1, <2>2, <2>3, <2>4 DEF Migrator!Work, Migrator!MigrateUp, Migrator!MigrateDown
<1>3. ASSUME NEW p \in Procs, Migrator!Stop(p) PROVE Moves(p) BY <1>3 DEF Migrator!Stop
<1> QED BY <1>2, <1>3 DEF Migrator!Fail, Kept

LEMMA ReviewOwn ==
    ASSUME StepsAreOwn, subject = "review",
           \/ \E p \in Procs : Abuse!ReviewWork(p)
           \/ Abuse!TimePasses \/ Abuse!ReviewFail \/ \E o \in Abuse!Orders : Abuse!Deliver(o)
    PROVE  Kept
<1> USE DEF Abuse!Goto, Abuse!Return, Abuse!Idle, Abuse!Proceed, StepsAreOwn, Own, Moves
<1>1. ASSUME NEW p \in Procs, Abuse!ReviewWork(p) PROVE Moves(p)
  <2>1. CASE \E u \in Reviewers, o \in Abuse!Orders, five \in BOOLEAN : Abuse!PostReview(p, u, o, five)
      BY <2>1 DEF Abuse!PostReview
  <2>2. CASE Abuse!CheckReviewed(p) BY <2>2 DEF Abuse!CheckReviewed
  <2>3. CASE Abuse!CheckLimit(p) BY <2>3 DEF Abuse!CheckLimit
  <2>4. CASE Abuse!CheckBurst(p) BY <2>4 DEF Abuse!CheckBurst
  <2>5. CASE Abuse!SaveReview(p) BY <2>5 DEF Abuse!SaveReview
  <2> QED BY <1>1, <2>1, <2>2, <2>3, <2>4, <2>5 DEF Abuse!ReviewWork
<1>2. ASSUME NEW p \in Procs, Abuse!ReadError(p) \/ Abuse!Stop(p) PROVE Moves(p)
    BY <1>2 DEF Abuse!ReadError, Abuse!Stop
<1>3. ASSUME Abuse!TimePasses \/ \E o \in Abuse!Orders : Abuse!Deliver(o) PROVE call' = call
    BY <1>3 DEF Abuse!TimePasses, Abuse!Deliver
<1> QED BY <1>1, <1>2, <1>3 DEF Abuse!ReviewFail, Kept

LEMMA AssignmentOwn ==
    ASSUME StepsAreOwn, subject = "assignment",
           \/ \E p \in Procs : Fleet!AssignmentWork(p)
           \/ Fleet!AssignmentFail
           \/ \E r \in Riders, hex \in Hexes \cup {0} : Fleet!Move(r, hex)
    PROVE  Kept
<1> USE DEF Fleet!Goto, Fleet!Return, Fleet!Idle, Fleet!At, Fleet!Reach, StepsAreOwn, Own, Moves
<1>1. ASSUME NEW p \in Procs, Fleet!AssignmentWork(p) PROVE Moves(p)
  <2>1. CASE Fleet!Collect(p) BY <2>1 DEF Fleet!Collect
  <2>2. CASE Fleet!Choose(p) BY <2>2 DEF Fleet!Choose
  <2>3. CASE \E excluded \in SUBSET Riders : Fleet!AssignBestRider(p, excluded)
      BY <2>3 DEF Fleet!AssignBestRider
  <2> QED BY <1>1, <2>1, <2>2, <2>3 DEF Fleet!AssignmentWork
<1>2. ASSUME NEW p \in Procs,
             Fleet!SkipHex(p) \/ Fleet!SearchError(p) \/ \E r \in Riders : Fleet!SkipRider(p, r)
      PROVE  Moves(p)
  <2>1. CASE Fleet!SkipHex(p) BY <2>1 DEF Fleet!SkipHex
  <2>2. CASE Fleet!SearchError(p) BY <2>2 DEF Fleet!SearchError
  <2>3. ASSUME NEW r, Fleet!SkipRider(p, r) PROVE Moves(p)
    <3>1. call' = [call EXCEPT ![p] = [call[p] EXCEPT !.found = @ \ {r}]] BY <2>3 DEF Fleet!SkipRider
    <3> QED BY <3>1
  <2> QED BY <1>2, <2>1, <2>2, <2>3
<1>3. ASSUME \E r \in Riders, hex \in Hexes \cup {0} : Fleet!Move(r, hex) PROVE call' = call
    BY <1>3 DEF Fleet!Move
<1> QED BY <1>1, <1>2, <1>3 DEF Fleet!AssignmentFail, Kept

LEMMA LimiterOwn ==
    ASSUME StepsAreOwn, subject \in {"limiter", "window", "bucket"},
           \/ \E p \in Procs : Limiters!LimiterWork(p) \/ Limiters!SlidingWork(p) \/ Limiters!BucketWork(p)
           \/ Limiters!WindowEnds \/ Limiters!SlidingTick \/ Limiters!BucketTick
           \/ Limiters!LimiterFail \/ Limiters!SlidingFail \/ Limiters!BucketFail
    PROVE  Kept
<1> USE DEF Limiters!Goto, Limiters!Return, Limiters!Idle, StepsAreOwn, Own, Moves
<1>1. ASSUME NEW p \in Procs,
             Limiters!LimiterWork(p) \/ Limiters!SlidingWork(p) \/ Limiters!BucketWork(p)
      PROVE  call' = call \/ Moves(p)
  <2>1. CASE Limiters!Incr(p) BY <2>1 DEF Limiters!Incr
  <2>2. CASE Limiters!Expire(p) BY <2>2 DEF Limiters!Expire
  <2>3. CASE Limiters!RemoveOld(p) BY <2>3 DEF Limiters!RemoveOld
  <2>4. CASE Limiters!Add(p) BY <2>4 DEF Limiters!Add
  <2>5. CASE Limiters!Card(p) BY <2>5 DEF Limiters!Card
  <2>6. CASE Limiters!Get(p) BY <2>6 DEF Limiters!Get
  <2>7. CASE Limiters!Set(p) BY <2>7 DEF Limiters!Set
  <2> QED BY <1>1, <2>1, <2>2, <2>3, <2>4, <2>5, <2>6, <2>7
          DEF Limiters!LimiterWork, Limiters!SlidingWork, Limiters!BucketWork
<1>2. ASSUME NEW p \in Procs,
             Limiters!Stop(p) \/ Limiters!CommandError(p) \/ Limiters!SetError(p)
      PROVE  Moves(p)
    BY <1>2 DEF Limiters!Stop, Limiters!CommandError, Limiters!SetError
<1>3. ASSUME \/ Limiters!WindowEnds \/ Limiters!SlidingTick \/ Limiters!BucketTick \/ Limiters!IncrError
             \/ \E p \in Procs : Limiters!GetError(p)
      PROVE  call' = call
    BY <1>3 DEF Limiters!WindowEnds, Limiters!SlidingTick, Limiters!BucketTick, Limiters!IncrError,
                Limiters!GetError
<1> QED BY <1>1, <1>2, <1>3 DEF Limiters!LimiterFail, Limiters!SlidingFail, Limiters!BucketFail, Kept

LEMMA IncentiveOwn ==
    ASSUME StepsAreOwn, subject = "incentives",
           \/ \E p \in Procs : Fleet!IncentiveWork(p)
           \/ Fleet!IncentiveFail
           \/ \E z \in Zones : Fleet!CompleteOrder(z)
           \/ \E r \in active : Fleet!Deactivate(r)
    PROVE  Kept
<1> USE DEF Fleet!Goto, Fleet!Return, Fleet!Idle, Fleet!At, StepsAreOwn, Own, Moves
<1>1. ASSUME NEW p \in Procs, Fleet!IncentiveWork(p) PROVE Moves(p)
  <2>1. CASE Fleet!ProcessIncentivePayouts(p) BY <2>1 DEF Fleet!ProcessIncentivePayouts
  <2>2. CASE Fleet!EvaluateRule(p) BY <2>2 DEF Fleet!EvaluateRule
  <2>3. CASE Fleet!CreditRiderWallet(p) BY <2>3 DEF Fleet!CreditRiderWallet
  <2>4. CASE Fleet!Report(p) BY <2>4 DEF Fleet!Report
  <2> QED BY <1>1, <2>1, <2>2, <2>3, <2>4 DEF Fleet!IncentiveWork
<1>2. ASSUME NEW p \in Procs, Fleet!SkipRule(p) PROVE Moves(p) BY <1>2 DEF Fleet!SkipRule
<1>3. ASSUME (\E z \in Zones : Fleet!CompleteOrder(z)) \/ \E r \in active : Fleet!Deactivate(r)
      PROVE  call' = call
    BY <1>3 DEF Fleet!CompleteOrder, Fleet!Deactivate
<1> QED BY <1>1, <1>2, <1>3 DEF Fleet!IncentiveFail, Kept

LEMMA SecretOwn ==
    ASSUME StepsAreOwn, subject = "secrets",
           \/ \E p \in Procs : Secrets!Work(p)
           \/ \E m \in Managers : Secrets!Expire(m)
           \/ Secrets!Fail
    PROVE  Kept
<1> USE DEF Secrets!Goto, Secrets!Return, Secrets!Idle, StepsAreOwn, Own, Moves
<1>1. ASSUME NEW p \in Procs, Secrets!Work(p) PROVE call' = call \/ Moves(p)
  <2>1. ASSUME NEW m \in Managers, Secrets!GetSecret(p, m) PROVE call' = call \/ Moves(p)
      BY <2>1 DEF Secrets!GetSecret
  <2>2. CASE Secrets!GetSecretValue(p) BY <2>2 DEF Secrets!GetSecretValue
  <2>3. CASE Secrets!Cache(p) BY <2>3 DEF Secrets!Cache
  <2>4. ASSUME NEW m \in Managers, Secrets!RotateSecret(p, m) PROVE Moves(p)
      BY <2>4 DEF Secrets!RotateSecret
  <2>5. CASE Secrets!Clear(p) BY <2>5 DEF Secrets!Clear
  <2> QED BY <1>1, <2>1, <2>2, <2>3, <2>4, <2>5 DEF Secrets!Work
<1>2. ASSUME NEW m \in Managers, Secrets!Expire(m) PROVE call' = call BY <1>2 DEF Secrets!Expire
<1>3. ASSUME NEW p \in Procs, Secrets!Return(p) PROVE Moves(p) BY <1>3
<1> QED BY <1>1, <1>2, <1>3 DEF Kept, Secrets!Fail

LEMMA RowOwn ==
    ASSUME StepsAreOwn, subject = "legacy",
           First!Make \/ First!RowTick \/ First!RowFail \/ \E p \in Procs : First!RowWork(p)
    PROVE  Kept
<1> USE DEF First!Goto, First!Return, First!Idle, StepsAreOwn, Own, Moves
<1>1. ASSUME NEW p \in Procs, First!RowWork(p) PROVE Moves(p)
  <2>1. ASSUME NEW table, NEW id, NEW change, First!First(p, table, id, change) PROVE Moves(p)
      BY <2>1 DEF First!First
  <2>2. CASE First!Save(p) BY <2>2 DEF First!Save
  <2> QED BY <1>1, <2>1, <2>2 DEF First!RowWork, First!UpdateStatus, First!Refund,
               First!UpdateLocation, First!UpdateAvailability
<1>2. ASSUME First!Make \/ First!RowTick PROVE call' = call
    BY <1>2 DEF First!Make, First!RowTick, First!CreateOrder, First!Charge, First!Register,
                First!SendNotification, First!Create
<1>3. CASE First!RowFail BY <1>3 DEF First!RowFail, Kept
<1> QED BY <1>1, <1>2, <1>3 DEF Kept

LEMMA NotificationOwn ==
    ASSUME StepsAreOwn, subject = "notification", subject' = subject,
           \/ \E p \in Procs : Orchestration!Work(p)
           \/ \E preferences \in {{}, {"marketing", "push"}, {"push"}} :
                Orchestration!SetPreferences(preferences)
           \/ Orchestration!Fail
    PROVE  StepsAreOwn'
<1> USE DEF Orchestration!Goto, Orchestration!Return, Orchestration!Idle, Orchestration!At, StepsAreOwn, Own, Moves
<1>1. ASSUME NEW p \in Procs, Orchestration!Work(p) PROVE Moves(p)
  <2>1. CASE Orchestration!SendNotification(p) BY <2>1 DEF Orchestration!SendNotification
  <2>2. CASE Orchestration!IsRateLimited(p) BY <2>2 DEF Orchestration!IsRateLimited
  <2>3. CASE Orchestration!Count(p) BY <2>3 DEF Orchestration!Count
  <2>4. CASE Orchestration!Send(p) BY <2>4 DEF Orchestration!Send
  <2> QED BY <1>1, <2>1, <2>2, <2>3, <2>4 DEF Orchestration!Work
<1>2. ASSUME NEW p \in Procs, Orchestration!PreferencesError(p) PROVE Moves(p)
    BY <1>2 DEF Orchestration!PreferencesError
<1>3. ASSUME \E preferences \in {{}, {"marketing", "push"}, {"push"}} :
                Orchestration!SetPreferences(preferences)
      PROVE  call' = call
    BY <1>3 DEF Orchestration!SetPreferences
<1>4. CASE Orchestration!Restart BY <1>4 DEF Orchestration!Restart
<1>5. CASE Kept BY <1>5, KeptOwn
<1> QED BY <1>1, <1>2, <1>3, <1>4, <1>5 DEF Orchestration!Fail, Kept

LEMMA OwnStep ==
    ASSUME StepsAreOwn, Unbounded
    PROVE  StepsAreOwn'
<1>1. subject' = subject /\ (Calls \/ World \/ Faults \/ Steps) BY DEF Unbounded
<1>2. CASE Calls
    BY <1>1, <1>2, KeptOwn, OtpOwn, TokenOwn, MigrationOwn, ReviewOwn, AssignmentOwn, LimiterOwn,
       IncentiveOwn, SecretOwn, RowOwn, NotificationOwn
    DEF Calls
<1>3. CASE World
    BY <1>1, <1>3, KeptOwn, OtpOwn, TokenOwn, ReviewOwn, AssignmentOwn, LimiterOwn, IncentiveOwn,
       SecretOwn, RowOwn
    DEF World
<1>4. CASE Faults
    BY <1>1, <1>4, KeptOwn, OtpOwn, TokenOwn, MigrationOwn, ReviewOwn, AssignmentOwn, LimiterOwn,
       IncentiveOwn, SecretOwn, RowOwn, NotificationOwn
    DEF Faults
<1>5. CASE Steps BY <1>1, <1>5, KeptOwn DEF Steps, Kept
<1> QED BY <1>1, <1>2, <1>3, <1>4, <1>5

LEMMA OwnStutter ==
    ASSUME StepsAreOwn, UNCHANGED <<subject, call>>
    PROVE  StepsAreOwn'
BY DEF StepsAreOwn, Own

LEMMA OwnInit == LibrariesInit => StepsAreOwn
BY DEF LibrariesInit, Secrets!Init, Secrets!Idle, StepsAreOwn, Own

-----------------------------------------------------------------------------
(* Secrets (SecretsManager).                                               *)

SecretVars == <<stored, cached, rotated, told>>

SecretTyped ==
    /\ DOMAIN call = Procs
    /\ \A p \in Procs : call[p].pc \in {"get", "cache", "clear"} => call[p].of \in Managers
    /\ \A p \in Procs : call[p].pc \in {"cache", "clear"} => call[p].value \in Values
    /\ stored \in Values
    /\ cached \in [Managers -> Values \cup {NoValue}]
    /\ rotated \in [Managers -> Values]
    /\ told \in Values \X Values

\* One call at a time, no cache holds what is older than the last rotation of its
\* process, nor is anything older on its way there.
SecretHolds ==
    /\ SecretTyped
    /\ Serial =>
         /\ One
         /\ told[1] >= told[2]
         /\ \A m \in Managers : rotated[m] <= stored
         /\ \A m \in Managers : cached[m] # NoValue => cached[m] >= rotated[m]
         /\ \A p \in Procs : call[p].pc = "cache" => call[p].value >= rotated[call[p].of]
         /\ \A p \in Procs : call[p].pc = "clear" => call[p].value <= stored

SecretIInv ==
    IF subject = "secrets" THEN SecretHolds
    ELSE /\ stored = 1 /\ told = <<1, 1>>
         /\ cached = [m \in Managers |-> NoValue] /\ rotated = [m \in Managers |-> 1]

LEMMA SecretSteps ==
    ASSUME Unbounded
    PROVE  /\ subject' = subject
           /\ subject # "secrets" => UNCHANGED SecretVars
           /\ subject = "secrets" =>
                \/ Called /\ \E p \in Procs : Secrets!Work(p)
                \/ calm' = calm /\ \E m \in Managers : Secrets!Expire(m)
                \/ calm' = "faulty" /\ Secrets!Fail
BY DEF Unbounded, Calls, World, Faults, Steps, Frame, SecretVars

LEMMA SecretTypes ==
    ASSUME SecretTyped,
           \/ \E p \in Procs : Secrets!Work(p)
           \/ \E m \in Managers : Secrets!Expire(m)
           \/ Secrets!Fail
    PROVE  SecretTyped'
<1> USE DEF Secrets!Goto, Secrets!Return, Secrets!Idle, Secrets!At
<1>1. ASSUME NEW p \in Procs, NEW m \in Managers, Secrets!GetSecret(p, m) PROVE SecretTyped'
  <2>1. CASE cached[m] = NoValue
      BY <1>1, <2>1 DEF Secrets!GetSecret, SecretTyped
  <2>2. CASE cached[m] # NoValue
    <3>1. cached[m] \in Values /\ rotated[m] \in Values /\ told' = <<cached[m], rotated[m]>>
        BY <1>1, <2>2 DEF Secrets!GetSecret, SecretTyped
    <3>2. UNCHANGED <<call, stored, cached, rotated>> BY <1>1, <2>2 DEF Secrets!GetSecret
    <3>3. told' \in Values \X Values BY <3>1
    <3> QED BY <3>2, <3>3 DEF SecretTyped
  <2> QED BY <2>1, <2>2
<1>2. ASSUME NEW p \in Procs, Secrets!GetSecretValue(p) PROVE SecretTyped'
    BY <1>2 DEF Secrets!GetSecretValue, SecretTyped
<1>3. ASSUME NEW p \in Procs, Secrets!Cache(p) PROVE SecretTyped'
  <2>1. call[p].value \in Values /\ call[p].of \in Managers /\ rotated[call[p].of] \in Values
      BY <1>3 DEF Secrets!Cache, SecretTyped
  <2>2. told' \in Values \X Values BY <1>3, <2>1 DEF Secrets!Cache
  <2>3. cached' \in [Managers -> Values \cup {NoValue}] BY <1>3, <2>1 DEF Secrets!Cache, SecretTyped
  <2>4. /\ call' = [call EXCEPT ![p] = [pc |-> "idle"]] /\ UNCHANGED <<stored, rotated>>
      BY <1>3 DEF Secrets!Cache
  <2>5. /\ DOMAIN call' = Procs
        /\ \A q \in Procs : call'[q].pc \in {"get", "cache", "clear"} => call'[q].of \in Managers
        /\ \A q \in Procs : call'[q].pc \in {"cache", "clear"} => call'[q].value \in Values
      BY <2>4 DEF SecretTyped
  <2> QED BY <2>2, <2>3, <2>4, <2>5 DEF SecretTyped
<1>4. ASSUME NEW p \in Procs, NEW m \in Managers, Secrets!RotateSecret(p, m) PROVE SecretTyped'
    BY <1>4 DEF Secrets!RotateSecret, SecretTyped
<1>5. ASSUME NEW p \in Procs, Secrets!Clear(p) PROVE SecretTyped'
    BY <1>5 DEF Secrets!Clear, SecretTyped
<1>6. ASSUME NEW m \in Managers, Secrets!Expire(m) PROVE SecretTyped'
    BY <1>6 DEF Secrets!Expire, SecretTyped
<1>7. CASE Secrets!Fail BY <1>7 DEF Secrets!Fail, SecretTyped
<1> QED BY <1>1, <1>2, <1>3, <1>4, <1>5, <1>6, <1>7 DEF Secrets!Work

LEMMA SecretWork ==
    ASSUME SecretHolds, Called, Serial', NEW p \in Procs, Secrets!Work(p)
    PROVE  SecretHolds'
<1> USE DEF Secrets!Goto, Secrets!Return, Secrets!Idle, Secrets!At
<1>1. /\ DOMAIN call = Procs /\ One /\ told[1] >= told[2]
      /\ \A m \in Managers : rotated[m] <= stored
      /\ \A m \in Managers : cached[m] # NoValue => cached[m] >= rotated[m]
      /\ \A q \in Procs : call[q].pc = "cache" => call[q].value >= rotated[call[q].of]
      /\ \A q \in Procs : call[q].pc = "clear" => call[q].value <= stored
      /\ call' = call => \A q \in Procs : call[q] = Idle
    BY SerialStep DEF Serial, SecretHolds, SecretTyped
<1>2. One' BY SerialStep DEF One, Serial
<1>3. SecretTyped' BY SecretTypes DEF SecretHolds
<1>4. \A q \in Procs : q # p /\ (call[p] # Idle \/ call'[p] # Idle) => call[q] = Idle /\ call'[q] = Idle
    BY SerialStep DEF Serial
<1>5. Idle.pc = "idle" BY DEF Idle
<1>6. /\ stored \in Nat /\ \A m \in Managers : rotated[m] \in Nat
      /\ DOMAIN cached = Managers /\ DOMAIN rotated = Managers
      /\ \A q \in Procs : call[q].pc \in {"cache", "clear"} => call[q].of \in Managers /\ call[q].value \in Nat
      /\ \A q \in Procs : call[q].pc = "get" => call[q].of \in Managers
    BY NumbersAre DEF SecretHolds, SecretTyped
<1>7. SUFFICES /\ told'[1] >= told'[2]
               /\ \A m \in Managers : rotated'[m] <= stored'
               /\ \A m \in Managers : cached'[m] # NoValue => cached'[m] >= rotated'[m]
               /\ \A q \in Procs : call'[q].pc = "cache" => call'[q].value >= rotated'[call'[q].of]
               /\ \A q \in Procs : call'[q].pc = "clear" => call'[q].value <= stored'
    BY <1>2, <1>3 DEF SecretHolds
<1>8. ASSUME NEW m \in Managers, Secrets!GetSecret(p, m) PROVE <1>7!1
  <2>1. CASE cached[m] = NoValue
    <3>1. /\ call'[p] = [pc |-> "get", of |-> m] /\ UNCHANGED <<stored, cached, rotated, told>>
        BY <1>1, <1>8, <2>1 DEF Secrets!GetSecret
    <3>2. call'[p] # Idle /\ call'[p].pc = "get" BY <1>5, <3>1
    <3> QED BY <1>1, <1>4, <1>5, <3>1, <3>2
  <2>2. CASE cached[m] # NoValue
    <3>1. /\ call' = call /\ UNCHANGED <<stored, cached, rotated>> /\ told' = <<cached[m], rotated[m]>>
        BY <1>8, <2>2 DEF Secrets!GetSecret
    <3> QED BY <1>1, <2>2, <3>1
  <2> QED BY <2>1, <2>2
<1>9. CASE Secrets!GetSecretValue(p)
  <2>1. /\ call[p].pc = "get" /\ call'[p] = [pc |-> "cache", of |-> call[p].of, value |-> stored]
        /\ UNCHANGED <<stored, cached, rotated, told>>
      BY <1>1, <1>9 DEF Secrets!GetSecretValue
  <2>2. /\ call'[p] # Idle /\ call'[p].pc = "cache" /\ call'[p].of = call[p].of
        /\ call'[p].value = stored /\ call[p].of \in Managers
      BY <1>5, <1>6, <2>1
  <2>3. call'[p].value >= rotated[call'[p].of] BY <1>1, <1>6, <2>2
  <2> QED BY <1>1, <1>4, <1>5, <2>1, <2>2, <2>3
<1>10. CASE Secrets!Cache(p)
  <2>1. /\ call[p].pc = "cache" /\ call'[p] = Idle
        /\ cached' = [cached EXCEPT ![call[p].of] = call[p].value]
        /\ told' = <<call[p].value, rotated[call[p].of]>> /\ UNCHANGED <<stored, rotated>>
      BY <1>1, <1>10 DEF Secrets!Cache, Idle
  <2>2. call[p].value >= rotated[call[p].of] /\ call[p] # Idle /\ call[p].of \in Managers
      BY <1>1, <1>5, <1>6, <2>1
  <2>3. \A m \in Managers : cached'[m] # NoValue => cached'[m] >= rotated[m]
      BY <1>1, <1>6, <2>1, <2>2
  <2>4. \A q \in Procs : call'[q].pc = "idle" BY <1>4, <1>5, <2>1, <2>2
  <2> QED BY <1>1, <2>1, <2>2, <2>3, <2>4
<1>11. ASSUME NEW m \in Managers, Secrets!RotateSecret(p, m) PROVE <1>7!1
  <2>1. /\ call'[p] = [pc |-> "clear", of |-> m, value |-> stored'] /\ stored' = stored + 1
        /\ UNCHANGED <<cached, rotated, told>>
      BY <1>1, <1>11 DEF Secrets!RotateSecret
  <2>2. call'[p] # Idle /\ call'[p].pc = "clear" /\ call'[p].value = stored' BY <1>5, <2>1
  <2>3. \A k \in Managers : rotated[k] <= stored' BY <1>1, <1>6, <2>1
  <2>4. stored' <= stored' BY <1>6, <2>1
  <2>5. \A q \in Procs : q # p => call'[q].pc = "idle" BY <1>4, <1>5, <2>2
  <2> QED BY <1>1, <2>1, <2>2, <2>3, <2>4, <2>5
<1>12. CASE Secrets!Clear(p)
  <2>1. /\ call[p].pc = "clear" /\ call'[p] = Idle
        /\ cached' = [cached EXCEPT ![call[p].of] = NoValue]
        /\ rotated' = [rotated EXCEPT ![call[p].of] = call[p].value]
        /\ UNCHANGED <<stored, told>>
      BY <1>1, <1>12 DEF Secrets!Clear, Idle
  <2>2. call[p].value <= stored /\ call[p] # Idle /\ call[p].of \in Managers
      BY <1>1, <1>5, <1>6, <2>1
  <2>3. \A m \in Managers : rotated'[m] <= stored BY <1>1, <1>6, <2>1, <2>2
  <2>4. \A m \in Managers : cached'[m] # NoValue => cached'[m] >= rotated'[m]
      BY <1>1, <1>6, <2>1, <2>2
  <2>5. \A q \in Procs : call'[q].pc = "idle" BY <1>4, <1>5, <2>1, <2>2
  <2> QED BY <1>1, <2>1, <2>3, <2>4, <2>5
<1> QED BY <1>8, <1>9, <1>10, <1>11, <1>12 DEF Secrets!Work

LEMMA SecretStep ==
    ASSUME SecretIInv, Unbounded
    PROVE  SecretIInv'
<1>1. CASE subject # "secrets"
    BY <1>1, SecretSteps DEF SecretIInv, SecretVars
<1>2. CASE subject = "secrets"
  <2>1. SecretHolds /\ subject' = "secrets" BY <1>2, SecretSteps DEF SecretIInv
  <2>2. SecretTyped' BY <1>2, <2>1, SecretSteps, SecretTypes DEF SecretHolds
  <2>3. CASE ~Serial' BY <2>1, <2>2, <2>3 DEF SecretIInv, SecretHolds
  <2>4. CASE Serial' /\ Called /\ \E p \in Procs : Secrets!Work(p)
      BY <2>1, <2>4, SecretWork DEF SecretIInv
  <2>5. ASSUME Serial', calm' = calm, NEW m \in Managers, Secrets!Expire(m) PROVE SecretIInv'
    <3>1. Serial /\ UNCHANGED <<call, stored, rotated, told>> /\ cached' = [cached EXCEPT ![m] = NoValue]
        BY <2>5 DEF Serial, Secrets!Expire
    <3>2. /\ DOMAIN cached = Managers
          /\ \A k \in Managers : cached[k] # NoValue => cached[k] >= rotated[k]
        BY <2>1, <3>1 DEF SecretHolds, SecretTyped
    <3>3. \A k \in Managers : cached'[k] # NoValue => cached'[k] >= rotated'[k]
        BY <3>1, <3>2
    <3>4. SecretHolds' BY <2>1, <2>2, <3>1, <3>3 DEF SecretHolds, One
    <3> QED BY <2>1, <3>4 DEF SecretIInv
  <2> QED BY <1>2, <2>3, <2>4, <2>5, SecretSteps DEF Serial
<1> QED BY <1>1, <1>2

LEMMA SecretStutter ==
    ASSUME SecretIInv, UNCHANGED <<subject, calm, call, SecretVars>>
    PROVE  SecretIInv'
BY DEF SecretIInv, SecretHolds, SecretTyped, SecretVars, Serial, One

LEMMA SecretInit == LibrariesInit => SecretIInv
<1> SUFFICES ASSUME LibrariesInit PROVE SecretIInv OBVIOUS
<1>1. Secrets!Init BY DEF LibrariesInit
<1>2. 1 \in Values BY SetsAre
<1>3. /\ DOMAIN call = Procs /\ \A p \in Procs : call[p] = Idle BY <1>1 DEF Secrets!Init, Secrets!Idle, Idle
<1>4. /\ stored = 1 /\ told = <<1, 1>>
      /\ cached = [m \in Managers |-> NoValue] /\ rotated = [m \in Managers |-> 1]
    BY <1>1 DEF Secrets!Init
<1>5. Idle.pc = "idle" BY DEF Idle
<1>6. told \in Values \X Values BY <1>2, <1>4
<1>7. SecretTyped BY <1>2, <1>3, <1>4, <1>5, <1>6 DEF SecretTyped
<1>8. /\ told[1] >= told[2]
      /\ \A m \in Managers : rotated[m] <= stored
      /\ \A m \in Managers : cached[m] = NoValue
    BY <1>4
<1> QED BY <1>3, <1>4, <1>5, <1>7, <1>8 DEF SecretIInv, SecretHolds, One

LEMMA SecretSound ==
    ASSUME SecretIInv
    PROVE  Secrets!TypeOK /\ (Serial => Secrets!OwnRotationIsSeen)
<1>1. CASE subject = "secrets"
    BY <1>1 DEF SecretIInv, SecretHolds, SecretTyped, Secrets!TypeOK, Secrets!OwnRotationIsSeen
<1>2. CASE subject # "secrets"
  <2>1. 1 \in Values BY SetsAre
  <2>2. told \in Values \X Values /\ told[1] >= told[2] BY <1>2, <2>1 DEF SecretIInv
  <2> QED BY <1>2, <2>1, <2>2 DEF SecretIInv, Secrets!TypeOK, Secrets!OwnRotationIsSeen
<1> QED BY <1>1, <1>2

-----------------------------------------------------------------------------
(* Preferences (NotificationOrchestration).                                *)

\* The user wants what is under way.
Wanted(channels) ==
    /\ channels \subseteq enabled
    /\ channels # {} /\ Type = "marketing" => "marketing" \in enabled

SpareHolds ==
    /\ enabled \subseteq Orchestration!Preferences
    /\ subject # "notification" => count = 0
    /\ subject = "notification" /\ Serial =>
         /\ One
         /\ \A p \in Procs : call[p].pc \in {"limit", "count", "send"} => Wanted(call[p].channels)

LEMMA SpareSteps ==
    ASSUME Unbounded
    PROVE  /\ subject' = subject
           /\ subject # "notification" => UNCHANGED <<enabled, count>>
           /\ subject = "notification" =>
                \/ Called /\ \/ \E p \in Procs : Orchestration!Work(p)
                             \/ \E preferences \in SUBSET Orchestration!Preferences :
                                  Orchestration!SetPreferences(preferences)
                \/ calm' = "faulty" /\ Orchestration!Fail
<1>1. {{}, {"marketing", "push"}, {"push"}} \subseteq SUBSET Orchestration!Preferences
    BY DEF Orchestration!Preferences, Orchestration!Channels
<1> QED BY <1>1 DEF Unbounded, Calls, World, Faults, Steps, Frame

LEMMA Determined ==
    ASSUME NEW critical
    PROVE  Wanted(Orchestration!DetermineChannels(critical, enabled))
<1>1. Orchestration!DetermineChannels(critical, enabled) \subseteq enabled
    BY DEF Orchestration!DetermineChannels
<1>2. ASSUME Type = "marketing"
      PROVE  Orchestration!DetermineChannels(critical, enabled)
                \subseteq {c \in {"push", "email"} : "marketing" \in enabled}
    BY <1>2 DEF Orchestration!DetermineChannels
<1> QED BY <1>1, <1>2 DEF Wanted

LEMMA SpareStep ==
    ASSUME SpareHolds, NotificationIInv, Unbounded
    PROVE  SpareHolds'
<1> USE DEF Orchestration!Goto, Orchestration!Return, Orchestration!Idle, Orchestration!At
<1>1. CASE subject # "notification"
    BY <1>1, SpareSteps DEF SpareHolds
<1>2. CASE subject = "notification"
  <2>1. subject' = "notification" /\ NotificationTyped
      BY <1>2, SpareSteps DEF NotificationIInv
  <2>2. enabled' \subseteq Orchestration!Preferences
    <3>1. ASSUME NEW p \in Procs, Orchestration!Work(p) PROVE enabled' = enabled
        BY <3>1 DEF Orchestration!Work, Orchestration!SendNotification, Orchestration!IsRateLimited,
                    Orchestration!Count, Orchestration!Send
    <3>2. Orchestration!Fail => enabled' = enabled
        BY DEF Orchestration!Fail, Orchestration!Restart, Orchestration!PreferencesError
    <3>3. ASSUME NEW preferences \in SUBSET Orchestration!Preferences,
                 Orchestration!SetPreferences(preferences)
          PROVE  enabled' \subseteq Orchestration!Preferences
        BY <3>3 DEF Orchestration!SetPreferences
    <3> QED BY <1>2, <3>1, <3>2, <3>3, SpareSteps DEF SpareHolds
  <2>3. CASE ~Serial' BY <2>1, <2>2, <2>3 DEF SpareHolds
  <2>4. CASE Serial'
    <3>1. /\ Called
          /\ \/ \E p \in Procs : Orchestration!Work(p)
             \/ \E preferences \in SUBSET Orchestration!Preferences :
                  Orchestration!SetPreferences(preferences)
        BY <1>2, <2>4, SpareSteps DEF Serial
    <3>2. /\ \A p \in Procs : call[p].pc \in {"limit", "count", "send"} => Wanted(call[p].channels)
          /\ DOMAIN call = Procs
          /\ call' = call => \A q \in Procs : call[q] = Idle
        BY <1>2, <2>1, <2>4, <3>1, SerialStep DEF Serial, SpareHolds, NotificationTyped
    <3>3. One' BY <2>4, <3>1, SerialStep DEF One, Serial
    <3>4. Idle.pc \notin {"limit", "count", "send"} BY DEF Idle
    <3>5. ASSUME NEW p \in Procs, Orchestration!Work(p)
          PROVE  /\ \A q \in Procs : q # p => call'[q] = call[q]
                 /\ call'[p].pc \in {"limit", "count", "send"} => Wanted(call'[p].channels)
                 /\ enabled' = enabled
      <4>1. CASE Orchestration!SendNotification(p)
        <5>1. PICK critical \in BOOLEAN :
                call' = [call EXCEPT ![p] = [pc |-> "limit",
                              channels |-> Orchestration!DetermineChannels(critical, enabled)]]
            BY <4>1 DEF Orchestration!SendNotification
        <5> QED BY <3>2, <4>1, <5>1, Determined DEF Orchestration!SendNotification
      <4>2. CASE Orchestration!IsRateLimited(p)
        <5>1. CASE count >= NotificationLimit
            BY <3>2, <4>2, <5>1 DEF Orchestration!IsRateLimited
        <5>2. CASE ~(count >= NotificationLimit)
            BY <3>2, <4>2, <5>2 DEF Orchestration!IsRateLimited
        <5> QED BY <5>1, <5>2
      <4>3. CASE Orchestration!Count(p) BY <3>2, <4>3 DEF Orchestration!Count
      <4>4. CASE Orchestration!Send(p)
        <5>1. call[p] = [pc |-> "send", channels |-> call[p].channels] /\ Wanted(call[p].channels)
            BY <2>1, <3>2, <4>4 DEF Orchestration!Send, NotificationTyped
        <5>2. ASSUME NEW c \in call[p].channels,
                     call' = [call EXCEPT ![p] = [call[p] EXCEPT !.channels = @ \ {c}]]
              PROVE  call'[p].channels = call[p].channels \ {c}
            BY <3>2, <5>1, <5>2
        <5>3. call'[p].pc = "send" => call'[p].channels \subseteq call[p].channels
            BY <3>2, <4>4, <5>2 DEF Orchestration!Send
        <5>4. call'[p].pc \in {"send", "idle"} BY <3>2, <4>4, <5>1 DEF Orchestration!Send
        <5>5. Wanted(call'[p].channels) \/ call'[p].pc = "idle" BY <5>1, <5>3, <5>4 DEF Wanted
        <5> QED BY <3>2, <4>4, <5>4, <5>5 DEF Orchestration!Send
      <4> QED BY <3>5, <4>1, <4>2, <4>3, <4>4 DEF Orchestration!Work
    <3>6. \A p \in Procs : call'[p].pc \in {"limit", "count", "send"} => Wanted(call[p].channels)'
      <4>1. CASE \E p \in Procs : Orchestration!Work(p)
          BY <3>2, <3>5, <4>1 DEF Wanted
      <4>2. ASSUME NEW preferences, Orchestration!SetPreferences(preferences)
            PROVE  \A p \in Procs : call'[p] = Idle
          BY <3>2, <4>2 DEF Orchestration!SetPreferences
      <4> QED BY <3>1, <3>4, <4>1, <4>2
    <3> QED BY <2>1, <2>2, <3>3, <3>6 DEF SpareHolds
  <2> QED BY <2>3, <2>4
<1> QED BY <1>1, <1>2

LEMMA SpareStutter ==
    ASSUME SpareHolds, UNCHANGED <<subject, calm, call, enabled, count>>
    PROVE  SpareHolds'
BY DEF SpareHolds, Wanted, Serial, One

LEMMA SpareInit == LibrariesInit => SpareHolds
<1> SUFFICES ASSUME LibrariesInit PROVE SpareHolds OBVIOUS
<1>1. Orchestration!Init BY DEF LibrariesInit
<1>2. /\ enabled = Orchestration!Preferences /\ count = 0
      /\ \A p \in Procs : call[p] = Idle
    BY <1>1 DEF Orchestration!Init, Orchestration!Idle, Idle
<1>3. Idle.pc \notin {"limit", "count", "send"} BY DEF Idle
<1> QED BY <1>2, <1>3 DEF SpareHolds, One

LEMMA SpareSound ==
    ASSUME SpareHolds, NotificationIInv, StepsAreOwn
    PROVE  Orchestration!TypeOK /\ (Serial => Orchestration!DisabledIsSpared)
<1>1. Orchestration!TypeOK
    BY DEF SpareHolds, NotificationIInv, NotificationTyped, Orchestration!TypeOK
<1>2. CASE subject = "notification"
    BY <1>1, <1>2 DEF SpareHolds, Orchestration!DisabledIsSpared, Orchestration!At, Wanted
<1>3. CASE subject # "notification"
    BY <1>1, <1>3 DEF StepsAreOwn, Own, Orchestration!DisabledIsSpared, Orchestration!At
<1> QED BY <1>2, <1>3

-----------------------------------------------------------------------------
(* The assignment of riders (RiderLibrary).                                *)

AssignmentVars == <<place, moved, result>>

Search == [pc : {"collect", "choose"}, hex : Nat \ {0}, found : SUBSET Riders, excluded : SUBSET Riders]

\* Riders who stand where the search has looked, or was able to, are found.
LookedAt(p) ==
    /\ call[p].pc = "collect" =>
         \A r \in Fleet!Standing(p) : place[r] < call[p].hex => r \in call[p].found
    /\ call[p].pc = "choose" => Fleet!Standing(p) \subseteq call[p].found

AssignmentHolds ==
    /\ Fleet!AssignmentTypeOK
    /\ subject = "assignment" =>
         /\ DOMAIN call = Procs /\ One
         /\ \A p \in Procs : call[p] = Idle \/ call[p] \in Search
         /\ \A p \in Procs : call[p].pc = "collect" => call[p].hex = 1 \/ call[p].hex \in Hexes
         /\ \A p \in Procs : LookedAt(p)

LEMMA HexesNumbered == \E n \in Nat : Hexes = 1..n
BY SetsAre, FS_CardinalityType

LEMMA AssignmentSteps ==
    ASSUME Unbounded
    PROVE  /\ subject' = subject
           /\ subject # "assignment" => UNCHANGED AssignmentVars
           /\ subject = "assignment" =>
                \/ \E p \in Procs : Fleet!AssignmentWork(p)
                \/ \E r \in Riders, hex \in Hexes \cup {0} : Fleet!Move(r, hex)
                \/ Fleet!AssignmentFail
BY DEF Unbounded, Calls, World, Faults, Steps, Frame, AssignmentVars

\* The pc of a search, and of nobody's.
LEMMA Searches ==
    /\ Fleet!Idle = Idle
    /\ Idle.pc # "collect" /\ Idle.pc # "choose"
    /\ \A c \in Search :
         /\ c # Idle /\ c.pc \in {"collect", "choose"} /\ c.hex \in Nat \ {0}
         /\ c.found \in SUBSET Riders /\ c.excluded \in SUBSET Riders
         /\ c = [pc |-> c.pc, hex |-> c.hex, found |-> c.found, excluded |-> c.excluded]
<1>1. Idle.pc = "idle" BY DEF Idle
<1>2. \A c \in Search : c.pc # "idle" BY DEF Search
<1> QED BY <1>1, <1>2 DEF Idle, Fleet!Idle, Search

\* A search goes on, with what it has found so far.
LEMMA SearchGoesOn ==
    ASSUME AssignmentHolds, subject = "assignment", subject' = subject, NEW p \in Procs,
           call[p] \in Search, DOMAIN call' = Procs, \A q \in Procs : q # p => call'[q] = call[q],
           call'[p] = Idle \/ (call'[p] \in Search /\ call'[p].excluded = call[p].excluded),
           call'[p].pc = "collect" => call'[p].hex = 1 \/ call'[p].hex \in Hexes,
           place' = place, moved' \in SUBSET Riders, result' \in Riders \cup {0},
           LookedAt(p)'
    PROVE  AssignmentHolds'
<1>1. /\ DOMAIN call = Procs /\ \A q \in Procs : q # p => call[q] = Idle
    BY Searches DEF AssignmentHolds, One
<1>2. One' BY <1>1 DEF One
<1>3. Fleet!AssignmentTypeOK' BY DEF AssignmentHolds, Fleet!AssignmentTypeOK
<1>4. \A q \in Procs : LookedAt(q)' BY <1>1, Searches DEF LookedAt
<1> QED BY <1>1, <1>2, <1>3, <1>4, Searches DEF AssignmentHolds

LEMMA Reaches ==
    ASSUME AssignmentHolds, subject = "assignment", subject' = subject, NEW p \in Procs,
           call[p].pc = "collect", NEW f \in SUBSET Riders, Fleet!Reach(p, f),
           UNCHANGED <<place, result>>, moved' \in SUBSET Riders, moved \subseteq moved',
           call[p].found \cup (Fleet!In(call[p].hex) \ moved') \subseteq f
    PROVE  AssignmentHolds'
<1> DEFINE h == call[p].hex
<1>1. /\ call[p] \in Search /\ DOMAIN call = Procs /\ h \in Nat \ {0} /\ (h = 1 \/ h \in Hexes)
      /\ call[p] = [pc |-> "collect", hex |-> h, found |-> call[p].found, excluded |-> call[p].excluded]
      /\ call[p].excluded \in SUBSET Riders
      /\ place \in [Riders -> Hexes \cup {0}] /\ result \in Riders \cup {0}
      /\ LookedAt(p)
    BY Searches DEF AssignmentHolds, Fleet!AssignmentTypeOK
<1>2. PICK n \in Nat : Hexes = 1..n BY HexesNumbered
<1>3. \A r \in Fleet!Standing(p)' :
        \/ r \in Fleet!Standing(p) /\ place'[r] = place[r] /\ r \notin moved'
        \/ call'[p].excluded # call[p].excluded
    BY DEF Fleet!Standing
<1>4. \A r \in Fleet!Standing(p) : r \in Riders /\ place[r] \in 1..n
    BY <1>1, <1>2 DEF Fleet!Standing
<1>5. \A r \in Fleet!Standing(p) : r \notin moved' /\ place[r] < h + 1 => r \in f
  <2> TAKE r \in Fleet!Standing(p)
  <2>1. CASE place[r] < h BY <1>1, <2>1 DEF LookedAt
  <2>2. CASE place[r] = h BY <1>4, <2>2 DEF Fleet!In
  <2>3. CASE place[r] > h BY <1>1, <1>4, <2>3
  <2> QED BY <1>1, <1>4, <2>1, <2>2, <2>3
<1>6. CASE h + 1 \in Hexes
  <2>1. call'[p] = [pc |-> "collect", hex |-> h + 1, found |-> f, excluded |-> call[p].excluded]
      BY <1>1, <1>6 DEF Fleet!Reach, Fleet!Goto
  <2>2. h + 1 \in Nat \ {0} BY <1>1
  <2>3. call'[p] \in Search BY <1>1, <2>1, <2>2 DEF Search
  <2>4. LookedAt(p)' BY <1>3, <1>5, <2>1 DEF LookedAt
  <2>5. \A q \in Procs : q # p => call'[q] = call[q] BY DEF Fleet!Reach, Fleet!Goto
  <2>6. DOMAIN call' = Procs BY <1>1 DEF Fleet!Reach, Fleet!Goto
  <2> QED BY <1>1, <1>6, <2>1, <2>3, <2>4, <2>5, <2>6, SearchGoesOn
<1>7. CASE h + 1 \notin Hexes
  <2>1. call'[p] = [pc |-> "choose", hex |-> h, found |-> f, excluded |-> call[p].excluded]
      BY <1>1, <1>7 DEF Fleet!Reach, Fleet!Goto
  <2>3. call'[p] \in Search BY <1>1, <2>1 DEF Search
  <2>4. h >= n BY <1>1, <1>2, <1>7
  <2>5. \A r \in Fleet!Standing(p) : place[r] < h + 1 BY <1>1, <1>4, <2>4
  <2>6. LookedAt(p)' BY <1>3, <1>5, <2>1, <2>5 DEF LookedAt
  <2>7. \A q \in Procs : q # p => call'[q] = call[q] BY DEF Fleet!Reach, Fleet!Goto
  <2>8. DOMAIN call' = Procs BY <1>1 DEF Fleet!Reach, Fleet!Goto
  <2> QED BY <1>1, <2>1, <2>3, <2>6, <2>7, <2>8, SearchGoesOn
<1> QED BY <1>6, <1>7

LEMMA AssignmentStep ==
    ASSUME AssignmentHolds, Unbounded
    PROVE  AssignmentHolds'
<1> USE DEF Fleet!At, Fleet!Goto, Fleet!Return
<1>1. CASE subject # "assignment"
    BY <1>1, AssignmentSteps DEF AssignmentHolds, AssignmentVars, Fleet!AssignmentTypeOK
<1>2. CASE subject = "assignment"
  <2>1. /\ subject' = "assignment" /\ subject' = subject
        /\ DOMAIN call = Procs /\ One
        /\ \A p \in Procs : call[p] = Idle \/ call[p] \in Search
        /\ \A p \in Procs : LookedAt(p)
        /\ place \in [Riders -> Hexes \cup {0}] /\ moved \in SUBSET Riders /\ result \in Riders \cup {0}
      BY <1>2, AssignmentSteps DEF AssignmentHolds, Fleet!AssignmentTypeOK
  <2>2. ASSUME NEW p \in Procs, Fleet!Collect(p) PROVE AssignmentHolds'
    <3>1. call[p].pc = "collect" /\ call[p] \in Search
        BY <2>1, <2>2, Searches DEF Fleet!Collect
    <3>2. call[p].found \cup Fleet!In(call[p].hex) \in SUBSET Riders
        BY <3>1, Searches DEF Fleet!In
    <3> QED BY <1>2, <2>1, <2>2, <3>1, <3>2, Reaches DEF Fleet!Collect
  <2>3. ASSUME NEW p \in Procs, Fleet!SkipHex(p) PROVE AssignmentHolds'
    <3>1. call[p].pc = "collect" /\ call[p] \in Search
        BY <2>1, <2>3, Searches DEF Fleet!SkipHex
    <3>2. call[p].found \in SUBSET Riders /\ Fleet!In(call[p].hex) \in SUBSET Riders
        BY <3>1, Searches DEF Fleet!In
    <3>3. moved' = moved \cup Fleet!In(call[p].hex) BY <2>3 DEF Fleet!SkipHex
    <3>4. call[p].found \cup (Fleet!In(call[p].hex) \ moved') \subseteq call[p].found BY <3>3
    <3> QED BY <1>2, <2>1, <2>3, <3>1, <3>2, <3>3, <3>4, Reaches DEF Fleet!SkipHex
  <2>4. ASSUME NEW p \in Procs, call[p] \in Search, call' = [call EXCEPT ![p] = Fleet!Idle],
               place' = place, moved' = moved, result' \in Riders \cup {0}
        PROVE  AssignmentHolds'
    <3>1. call'[p] = Idle BY <2>1, <2>4, Searches
    <3>2. LookedAt(p)' BY <3>1, Searches DEF LookedAt
    <3> QED BY <1>2, <2>1, <2>4, <3>1, <3>2, Searches, SearchGoesOn
  <2>5. ASSUME NEW p \in Procs, Fleet!Choose(p) PROVE AssignmentHolds'
    <3>1. call[p].pc = "choose" /\ call[p] \in Search BY <2>1, <2>5, Searches DEF Fleet!Choose
    <3>2. Fleet!Eligible(p) \subseteq Riders BY <3>1, Searches DEF Fleet!Eligible
    <3> QED BY <2>4, <2>5, <3>1, <3>2 DEF Fleet!Choose
  <2>6. ASSUME NEW p \in Procs, Fleet!SearchError(p) PROVE AssignmentHolds'
    <3>1. call[p].pc = "collect" /\ call[p] \in Search BY <2>1, <2>6, Searches DEF Fleet!SearchError
    <3> QED BY <2>1, <2>4, <2>6, <3>1 DEF Fleet!SearchError
  <2>7. ASSUME NEW p \in Procs, NEW r \in Riders, Fleet!SkipRider(p, r) PROVE AssignmentHolds'
    <3>1. call[p].pc = "choose" /\ call[p] \in Search BY <2>1, <2>7, Searches DEF Fleet!SkipRider
    <3>2. /\ call' = [call EXCEPT ![p] = [call[p] EXCEPT !.found = @ \ {r}]]
          /\ moved' = moved \cup {r} /\ UNCHANGED <<place, result>>
        BY <2>7 DEF Fleet!SkipRider
    <3>3. call'[p] = [pc |-> "choose", hex |-> call[p].hex, found |-> call[p].found \ {r},
                      excluded |-> call[p].excluded]
      <4>1. call'[p] = [call[p] EXCEPT !.found = @ \ {r}] BY <2>1, <3>2
      <4>2. call[p] = [pc |-> "choose", hex |-> call[p].hex, found |-> call[p].found,
                       excluded |-> call[p].excluded]
          BY <3>1, Searches
      <4> QED BY <4>1, <4>2
    <3>4. call'[p] \in Search BY <3>1, <3>3, Searches DEF Search
    <3>5. Fleet!Standing(p)' = Fleet!Standing(p) \ {r} BY <3>2, <3>3 DEF Fleet!Standing
    <3>6. LookedAt(p)' BY <2>1, <3>1, <3>3, <3>5 DEF LookedAt
    <3>7. DOMAIN call' = Procs /\ \A q \in Procs : q # p => call'[q] = call[q] BY <2>1, <3>2
    <3>8. moved' \in SUBSET Riders BY <2>1, <3>2
    <3> QED BY <1>2, <2>1, <3>1, <3>2, <3>3, <3>4, <3>6, <3>7, <3>8, SearchGoesOn
  <2>8. ASSUME NEW p \in Procs, NEW excluded \in SUBSET Riders, Fleet!AssignBestRider(p, excluded)
        PROVE  AssignmentHolds'
    <3>1. /\ \A q \in Procs : call[q] = Idle
          /\ call' = [call EXCEPT ![p] = [pc |-> "collect", hex |-> 1, found |-> {},
                                          excluded |-> excluded]]
          /\ moved' = {} /\ result' = 0 /\ place' = place
        BY <2>8, Searches DEF Fleet!AssignBestRider, Fleet!Busy
    <3>2. /\ call'[p] = [pc |-> "collect", hex |-> 1, found |-> {}, excluded |-> excluded]
          /\ DOMAIN call' = Procs /\ \A q \in Procs : q # p => call'[q] = Idle
        BY <2>1, <3>1
    <3>3. call'[p] \in Search BY <3>2 DEF Search
    <3>4. One' BY <3>2 DEF One
    <3>5. \A q \in Procs : LookedAt(q)'
      <4>1. \A q \in Procs : q # p => LookedAt(q)' BY <3>2, Searches DEF LookedAt
      <4>2. PICK n \in Nat : Hexes = 1..n BY HexesNumbered
      <4>3. \A r \in Fleet!Standing(p)' : place'[r] \in Hexes BY <2>1, <3>1 DEF Fleet!Standing
      <4>4. LookedAt(p)' BY <3>2, <4>2, <4>3 DEF LookedAt
      <4> QED BY <4>1, <4>4
    <3>6. Fleet!AssignmentTypeOK' BY <2>1, <3>1 DEF Fleet!AssignmentTypeOK
    <3> QED BY <2>1, <3>2, <3>3, <3>4, <3>5, <3>6, Searches DEF AssignmentHolds
  <2>9. ASSUME NEW r \in Riders, NEW hex \in Hexes \cup {0}, Fleet!Move(r, hex) PROVE AssignmentHolds'
    <3>1. /\ place' = [place EXCEPT ![r] = hex] /\ moved' = moved \cup {r} /\ UNCHANGED <<call, result>>
        BY <2>9 DEF Fleet!Move
    <3>2. \A p \in Procs : Fleet!Standing(p)' \subseteq Fleet!Standing(p) \ {r}
        BY <2>1, <3>1 DEF Fleet!Standing
    <3>3. \A s \in Riders : s # r => place'[s] = place[s] BY <2>1, <3>1
    <3>4. \A p \in Procs : LookedAt(p)'
      <4> TAKE p \in Procs
      <4>1. \A s \in Fleet!Standing(p)' : s \in Fleet!Standing(p) /\ place'[s] = place[s]
          BY <3>2, <3>3 DEF Fleet!Standing
      <4> QED BY <2>1, <3>1, <4>1 DEF LookedAt
    <3>5. Fleet!AssignmentTypeOK' BY <2>1, <3>1 DEF Fleet!AssignmentTypeOK
    <3> QED BY <1>2, <2>1, <3>1, <3>4, <3>5 DEF AssignmentHolds, One
  <2> QED BY <1>2, <2>2, <2>3, <2>5, <2>6, <2>7, <2>8, <2>9, AssignmentSteps
          DEF Fleet!AssignmentWork, Fleet!AssignmentFail
<1> QED BY <1>1, <1>2

LEMMA AssignmentStutter ==
    ASSUME AssignmentHolds, UNCHANGED <<subject, call, AssignmentVars>>
    PROVE  AssignmentHolds'
BY DEF AssignmentHolds, AssignmentVars, Fleet!AssignmentTypeOK, LookedAt, Fleet!Standing, One

LEMMA AssignmentInit == LibrariesInit => AssignmentHolds
<1> SUFFICES ASSUME LibrariesInit PROVE AssignmentHolds OBVIOUS
<1>1. Fleet!AssignmentInit BY DEF LibrariesInit, Fleet!Init
<1>2. DOMAIN call = Procs /\ \A p \in Procs : call[p] = Idle
    BY <1>1, Searches DEF Fleet!AssignmentInit
<1>3. Fleet!AssignmentTypeOK BY <1>1 DEF Fleet!AssignmentInit, Fleet!AssignmentTypeOK
<1> QED BY <1>2, <1>3, Searches DEF AssignmentHolds, One, LookedAt

\* Nobody who stood in the area all the while is better than who was chosen.
LEMMA AssignmentBest ==
    ASSUME AssignmentHolds, StepsAreOwn, Unbounded, NEW p \in Procs,
           call[p].pc = "choose", call'[p].pc # "choose"
    PROVE  /\ result' \notin call[p].excluded
           /\ \A r \in Fleet!Standing(p) : result' # 0 /\ RiderScore(r) <= RiderScore(result')
<1> USE DEF Fleet!At, Fleet!Goto, Fleet!Return
<1>1. /\ subject = "assignment" /\ DOMAIN call = Procs /\ One
      /\ call[p] \in Search /\ LookedAt(p)
    BY Searches DEF StepsAreOwn, Own, AssignmentHolds
<1>2. call[p].excluded \in SUBSET Riders /\ 0 \notin Riders /\ call[p].found \in SUBSET Riders
    BY <1>1, Searches, SetsAre
<1>3. Fleet!Choose(p)
  <2>1. ASSUME NEW q \in Procs, Fleet!AssignmentWork(q), ~Fleet!Choose(p) PROVE FALSE
    <3>1. CASE Fleet!Collect(q)
      <4>1. q # p BY <3>1 DEF Fleet!Collect
      <4> QED BY <3>1, <4>1 DEF Fleet!Collect, Fleet!Reach
    <3>2. CASE Fleet!Choose(q)
      <4>1. q # p BY <2>1, <3>2
      <4> QED BY <3>2, <4>1 DEF Fleet!Choose
    <3>3. CASE \E excluded \in SUBSET Riders : Fleet!AssignBestRider(q, excluded)
      <4>1. call[p] = Idle BY <3>3, Searches DEF Fleet!AssignBestRider, Fleet!Busy
      <4> QED BY <4>1, Searches
    <3> QED BY <2>1, <3>1, <3>2, <3>3 DEF Fleet!AssignmentWork
  <2>2. ASSUME NEW q \in Procs,
               Fleet!SkipHex(q) \/ Fleet!SearchError(q) \/ \E r \in Riders : Fleet!SkipRider(q, r)
        PROVE  FALSE
    <3>1. CASE Fleet!SkipHex(q)
      <4>1. q # p BY <3>1 DEF Fleet!SkipHex
      <4> QED BY <3>1, <4>1 DEF Fleet!SkipHex, Fleet!Reach
    <3>2. CASE Fleet!SearchError(q) BY <3>2 DEF Fleet!SearchError
    <3>3. ASSUME NEW r \in Riders, Fleet!SkipRider(q, r) PROVE FALSE
      <4>1. call' = [call EXCEPT ![q] = [call[q] EXCEPT !.found = @ \ {r}]]
          BY <3>3 DEF Fleet!SkipRider
      <4>2. call[p] = [pc |-> "choose", hex |-> call[p].hex, found |-> call[p].found,
                       excluded |-> call[p].excluded]
          BY <1>1, Searches
      <4> QED BY <1>1, <4>1, <4>2
    <3> QED BY <2>2, <3>1, <3>2, <3>3
  <2>3. ASSUME NEW r, NEW hex, Fleet!Move(r, hex) PROVE FALSE BY <2>3 DEF Fleet!Move
  <2> QED BY <1>1, <2>1, <2>2, <2>3, AssignmentSteps DEF Fleet!AssignmentFail
<1>4. Fleet!Standing(p) \subseteq Fleet!Eligible(p) /\ Fleet!Eligible(p) \subseteq Riders
    BY <1>1, <1>2 DEF LookedAt, Fleet!Standing, Fleet!Eligible
<1>5. CASE Fleet!Eligible(p) = {} /\ result' = 0 BY <1>2, <1>4, <1>5
<1>6. ASSUME NEW r \in Fleet!Eligible(p), \A s \in Fleet!Eligible(p) : RiderScore(s) <= RiderScore(r), result' = r
      PROVE  /\ result' \notin call[p].excluded
             /\ \A s \in Fleet!Standing(p) : result' # 0 /\ RiderScore(s) <= RiderScore(result')
    BY <1>2, <1>4, <1>6 DEF Fleet!Eligible
<1> QED BY <1>3, <1>5, <1>6 DEF Fleet!Choose

-----------------------------------------------------------------------------
(* Lists of all the elements of a finite set, and loops from 1 to n: folds *)
(* of a sequence from the left.                                            *)

\* A sequence without repetition that is as long as a finite set has elements
\* holds them all; there is one, and its length is a number.
LEMMA Enumerated ==
    ASSUME NEW S, IsFiniteSet(S), NEW f \in [1..Cardinality(S) -> S],
           \A a, b \in 1..Cardinality(S) : f[a] = f[b] => a = b
    PROVE  \A s \in S : \E i \in 1..Cardinality(S) : f[i] = s
<1> DEFINE I == 1..Cardinality(S)
<1>1. Cardinality(S) \in Nat BY FS_CardinalityType
<1>2. IsFiniteSet(I) /\ Cardinality(I) = Cardinality(S) BY <1>1, FS_Interval
<1>3. f \in Injection(I, S) BY DEF Injection, IsInjective
<1> HIDE DEF I
<1>4. f \in Surjection(I, S) BY <1>2, <1>3, FS_Injection
<1> QED BY <1>4 DEF Surjection, I

LEMMA Enumeration ==
    ASSUME NEW S, IsFiniteSet(S)
    PROVE  /\ SetToSeq(S) \in [1..Cardinality(S) -> S]
           /\ \A a, b \in 1..Cardinality(S) : SetToSeq(S)[a] = SetToSeq(S)[b] => a = b
           /\ \A s \in S : \E i \in 1..Cardinality(S) : SetToSeq(S)[i] = s
<1>1. PICK f : f \in Injection(1..Cardinality(S), S)
    BY FS_CardinalityType DEF ExistsBijection, Bijection
<1>2. f \in [1..Cardinality(S) -> S] /\ IsInjective(f) BY <1>1 DEF Injection
<1>3. SetToSeq(S) \in [1..Cardinality(S) -> S] /\ IsInjective(SetToSeq(S)) BY <1>2 DEF SetToSeq
<1>4. \A a, b \in 1..Cardinality(S) : SetToSeq(S)[a] = SetToSeq(S)[b] => a = b
    BY <1>3 DEF IsInjective
<1> QED BY <1>3, <1>4, Enumerated

\* The greatest element of each set of numbers up to n.
Greatests(n) == [T \in SUBSET (1..n) |-> CHOOSE x \in T : \A y \in T : x >= y]

LEMMA GreatestsChosen ==
    ASSUME NEW n \in Nat
    PROVE  /\ IsFiniteSet(1..n) /\ Chooses(Greatests(n), 1..n)
           /\ \A k \in 1..n : Greatests(n)[1..k] = k /\ (1..k) \ {k} = 1..(k - 1)
<1>1. IsFiniteSet(1..n) BY FS_Interval
<1>2. ASSUME NEW T \in SUBSET (1..n), T # {} PROVE Greatests(n)[T] \in T
  <2>1. IsFiniteSet(T) BY <1>1, FS_Subset
  <2>3. T \subseteq Int OBVIOUS
  <2>2. \E x \in T : \A y \in T : x >= y BY <1>2, <2>1, <2>3, Extremes
  <2> QED BY <2>2 DEF Greatests
<1>3. ASSUME NEW k \in 1..n PROVE Greatests(n)[1..k] = k /\ (1..k) \ {k} = 1..(k - 1)
  <2>1. 1..k \in SUBSET (1..n) /\ k \in 1..k /\ \A y \in 1..k : k >= y OBVIOUS
  <2>2. \A x \in 1..k : x >= k => x = k OBVIOUS
  <2>3. (CHOOSE x \in 1..k : \A y \in 1..k : x >= y) = k BY <2>1, <2>2
  <2> QED BY <2>1, <2>3 DEF Greatests
<1> QED BY <1>1, <1>2, <1>3 DEF Chooses

\* What a loop has after each round.
Runs(r, n, base, g) == r[0] = base /\ \A k \in 1..n : r[k] = g[<<k, r[k - 1]>>]

Looped(f, n, D, base, g) ==
    /\ Computes(f, 1..n, base, Greatests(n), g)
    /\ \E r \in [0..n -> D] : Runs(r, n, base, g) /\ f[1..n] = r[n]

LEMMA Loop ==
    ASSUME NEW n \in Nat, NEW D, NEW base \in D, NEW g, Closed(g, 1..n, D)
    PROVE  \E f \in [SUBSET (1..n) -> D] : Looped(f, n, D, base, g)
<1>1. PICK f \in [SUBSET (1..n) -> D] : Computes(f, 1..n, base, Greatests(n), g)
    BY GreatestsChosen, Recursion
<1> DEFINE r == [k \in 0..n |-> f[1..k]]
<1>2. r \in [0..n -> D]
  <2>1. \A k \in 0..n : 1..k \in SUBSET (1..n) OBVIOUS
  <2> QED BY <2>1
<1>3. r[0] = base
  <2>1. 1..0 = {} /\ 0 \in 0..n OBVIOUS
  <2>2. f[{}] = base BY <1>1 DEF Computes
  <2> QED BY <2>1, <2>2
<1>4. ASSUME NEW k \in 1..n PROVE r[k] = g[<<k, r[k - 1]>>]
  <2>1. k \in 0..n /\ k - 1 \in 0..n /\ 1..k \in SUBSET (1..n) /\ 1..k # {} OBVIOUS
  <2>2. Greatests(n)[1..k] = k /\ (1..k) \ {k} = 1..(k - 1) BY GreatestsChosen
  <2>3. f[1..k] = g[<<k, f[1..(k - 1)]>>] BY <1>1, <2>1, <2>2 DEF Computes
  <2> QED BY <2>1, <2>3
<1>5. f[1..n] = r[n] OBVIOUS
<1> HIDE DEF r
<1>6. Runs(r, n, base, g) BY <1>3, <1>4 DEF Runs
<1> QED BY <1>1, <1>2, <1>5, <1>6 DEF Looped

-----------------------------------------------------------------------------
(* What a loop keeps of a list.                                            *)

\* A list without repetition of what a set has.
ListsOnce(s, S) ==
    /\ s \in Seq(S)
    /\ \A a, b \in 1..Len(s) : s[a] = s[b] => a = b
    /\ \A x \in S : \E a \in 1..Len(s) : s[a] = x

LEMMA ListAppend ==
    ASSUME NEW S, NEW s, ListsOnce(s, S), NEW x, x \notin S
    PROVE  ListsOnce(Append(s, x), S \cup {x})
<1>1. /\ s \in Seq(S \cup {x}) /\ Len(s) \in Nat
      /\ Append(s, x) \in Seq(S \cup {x}) /\ Len(Append(s, x)) = Len(s) + 1
      /\ \A a \in 1..Len(s) : Append(s, x)[a] = s[a] /\ s[a] \in S
      /\ Append(s, x)[Len(s) + 1] = x
    BY DEF ListsOnce
<1>2. \A a \in 1..(Len(s) + 1) : a \in 1..Len(s) \/ a = Len(s) + 1 BY <1>1
<1>3. ASSUME NEW a \in 1..(Len(s) + 1), NEW b \in 1..(Len(s) + 1), Append(s, x)[a] = Append(s, x)[b]
      PROVE  a = b
    BY <1>1, <1>2, <1>3 DEF ListsOnce
<1>4. ASSUME NEW y \in S \cup {x} PROVE \E a \in 1..(Len(s) + 1) : Append(s, x)[a] = y
  <2>1. CASE y \in S
    <3>1. PICK a \in 1..Len(s) : s[a] = y BY <2>1 DEF ListsOnce
    <3>2. a \in 1..(Len(s) + 1) BY <1>1
    <3> QED BY <1>1, <3>1, <3>2
  <2>2. CASE y = x
    <3>1. Len(s) + 1 \in 1..(Len(s) + 1) BY <1>1
    <3> QED BY <1>1, <2>2, <3>1
  <2> QED BY <2>1, <2>2
<1> QED BY <1>1, <1>3, <1>4 DEF ListsOnce

\* The length of such a list is the number of what it holds.
LEMMA ListLength ==
    ASSUME NEW S, IsFiniteSet(S), NEW s, ListsOnce(s, S)
    PROVE  Len(s) = Cardinality(S)
<1> DEFINE I == 1..Len(s)
<1>1. Len(s) \in Nat /\ s \in [I -> S] BY DEF ListsOnce
<1>2. IsFiniteSet(I) /\ Cardinality(I) = Len(s) BY <1>1, FS_Interval
<1>3. s \in Injection(I, S) BY <1>1 DEF ListsOnce, Injection, IsInjective
<1>4. s \in Surjection(I, S) BY <1>1 DEF ListsOnce, Surjection
<1> HIDE DEF I
<1> QED BY <1>2, <1>3, <1>4, FS_Injection

\* What a loop leaves that takes the elements of a list that are in a set K.
Distinct(p, n) == \A a, b \in 1..n : p[a] = p[b] => a = b

Filters(g, n, D, p, K) ==
    \A k \in 1..n, d \in D : g[<<k, d>>] = IF p[k] \in K THEN Append(d, p[k]) ELSE d

LEMMA Filtered ==
    ASSUME NEW n \in Nat, NEW p, Distinct(p, n), NEW K, NEW D, NEW g, Filters(g, n, D, p, K),
           NEW r \in [0..n -> D], Runs(r, n, <<>>, g)
    PROVE  ListsOnce(r[n], {p[k] : k \in 1..n} \cap K)
<1> USE DEF Distinct, Filters
<1> DEFINE Upto(j) == {p[k] : k \in 1..j} \cap K
           G == {j \in Nat : j <= n => ListsOnce(r[j], Upto(j))}
<1>1. 0 \in G
  <2>1. r[0] = <<>> /\ Upto(0) = {} BY DEF Runs
  <2>2. ListsOnce(<<>>, {}) BY DEF ListsOnce
  <2> HIDE DEF Upto
  <2> QED BY <2>1, <2>2
<1>2. ASSUME NEW j \in Nat, j \in G PROVE j + 1 \in G
  <2>1. SUFFICES ASSUME j + 1 <= n PROVE ListsOnce(r[j + 1], Upto(j + 1)) OBVIOUS
  <2>2. /\ j + 1 \in 1..n /\ j \in 0..n /\ (j + 1) - 1 = j
        /\ 1..(j + 1) = (1..j) \cup {j + 1} /\ 1..j \subseteq 1..n /\ j + 1 \notin 1..j
      BY <2>1
  <2>3. ListsOnce(r[j], Upto(j)) /\ r[j] \in D BY <1>2, <2>1, <2>2
  <2>4. r[j + 1] = g[<<j + 1, r[j]>>] BY <2>2 DEF Runs
  <2>5. CASE p[j + 1] \in K
    <3>1. r[j + 1] = Append(r[j], p[j + 1]) BY <2>2, <2>3, <2>4, <2>5
    <3>2. Upto(j + 1) = Upto(j) \cup {p[j + 1]} BY <2>2, <2>5
    <3>3. p[j + 1] \notin Upto(j) BY <2>2
    <3> HIDE DEF Upto
    <3> QED BY <2>3, <3>1, <3>2, <3>3, ListAppend
  <2>6. CASE p[j + 1] \notin K
    <3>1. r[j + 1] = r[j] BY <2>2, <2>3, <2>4, <2>6
    <3>2. Upto(j + 1) = Upto(j) BY <2>2, <2>6
    <3> HIDE DEF Upto
    <3> QED BY <2>3, <3>1, <3>2
  <2> QED BY <2>5, <2>6
<1>3. Nat \subseteq G
  <2> HIDE DEF G
  <2> QED BY <1>1, <1>2, NumberInduction
<1>4. n <= n => ListsOnce(r[n], Upto(n)) BY <1>3
<1> QED BY <1>4

-----------------------------------------------------------------------------
(* The ranking of riders (DeliveryTracking).                               *)

\* The riders whose location is known, in the order they were found.
LEMMA LocatedOnce ==
    ASSUME NEW n \in Nat, NEW scores, DOMAIN scores = 1..n
    PROVE  ListsOnce(Tracking!Located(scores), {i \in 1..n : scores[i] > 0})
<1> DEFINE S == 1..n
           D == Seq(S)
           K == {i \in S : scores[i] > 0}
           p == [i \in S |-> i]
           c == Greatests(n)
           top(T) == CHOOSE x \in T : \A y \in T : x >= y
           round(k, d) == IF scores[p[k]] > 0 THEN Append(d, p[k]) ELSE d
           g == [z \in S \X D |-> round(z[1], z[2])]
           it == CHOOSE f : f = [T \in SUBSET S |-> IF T = {} THEN <<>> ELSE round(top(T), f[T \ {top(T)}])]
<1>1. Tracking!Located(scores) = it[S]
    BY DEF Tracking!Located, Tracking!FoldLeftDomain, Tracking!FoldLeft, Tracking!MapThenFoldSet, Tracking!Max
<1>2. \A T \in SUBSET S : T # {} => c[T] = top(T) /\ c[T] \in S /\ c[T] \in T
    BY GreatestsChosen DEF Greatests, Chooses
<1>3. \A k \in S, d \in D : g[<<k, d>>] = round(k, d) OBVIOUS
<1>4. \A k \in S, d \in D : round(k, d) = IF p[k] \in K THEN Append(d, p[k]) ELSE d OBVIOUS
<1>5. \A k \in S, d \in D : round(k, d) \in D
  <2>1. \A k \in S, d \in D : Append(d, p[k]) \in D OBVIOUS
  <2> HIDE DEF D, p
  <2> QED BY <2>1
<1>6. <<>> \in D OBVIOUS
<1>7. Distinct(p, n) BY DEF Distinct
<1>8. {p[k] : k \in S} \cap K = K OBVIOUS
<1> HIDE DEF p, K, D, round, top, g
<1>9. Closed(g, S, D) BY <1>3, <1>5 DEF Closed
<1>10. PICK f \in [SUBSET S -> D] :
             /\ Computes(f, S, <<>>, c, g)
             /\ \E r \in [0..n -> D] : Runs(r, n, <<>>, g) /\ f[S] = r[n]
  <2>1. \E f \in [SUBSET (1..n) -> D] : Looped(f, n, D, <<>>, g) BY <1>6, <1>9, Loop
  <2> QED BY <2>1 DEF Looped
<1> HIDE DEF c, S
<1>11. \A T \in SUBSET S : f[T] = IF T = {} THEN <<>> ELSE round(top(T), f[T \ {top(T)}])
  <2> TAKE T \in SUBSET S
  <2>1. CASE T = {} BY <1>10, <2>1 DEF Computes
  <2>2. CASE T # {}
    <3>1. f[T] = g[<<c[T], f[T \ {c[T]}]>>] BY <1>10, <2>2 DEF Computes
    <3>2. T \ {c[T]} \in SUBSET S /\ c[T] = top(T) /\ c[T] \in S BY <1>2, <2>2
    <3>3. f[T \ {c[T]}] \in D BY <3>2
    <3> QED BY <1>3, <2>2, <3>1, <3>2, <3>3
  <2> QED BY <2>1, <2>2
<1>12. f = [T \in SUBSET S |-> IF T = {} THEN <<>> ELSE round(top(T), f[T \ {top(T)}])] BY <1>11
<1>13. it = [T \in SUBSET S |-> IF T = {} THEN <<>> ELSE round(top(T), it[T \ {top(T)}])] BY <1>12
<1> HIDE DEF it
<1>14. it[S] = f[S]
  <2>1. it[{}] = f[{}] BY <1>11, <1>13
  <2>2. ASSUME NEW T \in SUBSET S, T # {}, it[T \ {c[T]}] = f[T \ {c[T]}] PROVE it[T] = f[T]
    <3>1. c[T] = top(T) BY <1>2, <2>2
    <3> QED BY <1>11, <1>13, <2>2, <3>1
  <2>3. Chooses(c, S) /\ IsFiniteSet(S) BY GreatestsChosen DEF c, S
  <2>4. Alike(f, it, S, c) BY <2>1, <2>2 DEF Alike
  <2> QED BY <2>3, <2>4, RecursionUnique
<1>15. PICK r \in [0..n -> D] : Runs(r, n, <<>>, g) /\ f[S] = r[n] BY <1>10
<1>16. Filters(g, n, D, p, K) BY <1>3, <1>4 DEF S, Filters
<1>17. ListsOnce(r[n], {p[k] : k \in 1..n} \cap K) BY <1>7, <1>15, <1>16, Filtered
<1>18. {p[k] : k \in 1..n} \cap K = {i \in 1..n : scores[i] > 0} BY <1>8 DEF K, S
<1> QED BY <1>1, <1>14, <1>15, <1>17, <1>18

-----------------------------------------------------------------------------
(* The sort of the ranking (DeliveryTracking).                             *)

\* Two elements of a list change places.
Swapped(t, s, i, j) == t = [s EXCEPT ![i] = s[j], ![j] = s[i]]

LEMMA SwapOnce ==
    ASSUME NEW S, NEW s, ListsOnce(s, S), NEW i \in 1..Len(s), NEW j \in 1..Len(s),
           NEW t, Swapped(t, s, i, j)
    PROVE  /\ ListsOnce(t, S) /\ Len(t) = Len(s)
           /\ t[i] = s[j] /\ t[j] = s[i] /\ \A a \in 1..Len(s) : a # i /\ a # j => t[a] = s[a]
<1> DEFINE l == Len(s)
<1>1. l \in Nat /\ s \in [1..l -> S] /\ i \in 1..l /\ j \in 1..l BY DEF ListsOnce
<1>2. \A n \in Nat : \A f \in [1..n -> S] : f \in Seq(S) /\ Len(f) = n OBVIOUS
<1>3. t[i] = s[j] /\ t[j] = s[i] /\ (\A a \in 1..l : a # i /\ a # j => t[a] = s[a]) /\ t \in [1..l -> S]
  <2> HIDE DEF l
  <2> QED BY <1>1 DEF Swapped
<1>4. /\ \A a, b \in 1..l : s[a] = s[b] => a = b
      /\ \A x \in S : \E a \in 1..l : s[a] = x
    BY DEF ListsOnce
<1> HIDE DEF l
<1>5. \A a, b \in 1..l : t[a] = t[b] => a = b
  <2> TAKE a, b \in 1..l
  <2> DEFINE old(k) == IF k = i THEN j ELSE IF k = j THEN i ELSE k
  <2>1. t[a] = s[old(a)] /\ t[b] = s[old(b)] /\ old(a) \in 1..l /\ old(b) \in 1..l BY <1>1, <1>3
  <2>2. s[old(a)] = s[old(b)] => old(a) = old(b) BY <1>4, <2>1
  <2> QED BY <2>1, <2>2
<1>6. \A x \in S : \E a \in 1..l : t[a] = x
  <2> TAKE x \in S
  <2>1. PICK a \in 1..l : s[a] = x BY <1>4
  <2>2. CASE a = i BY <1>1, <1>3, <2>1, <2>2
  <2>3. CASE a = j BY <1>1, <1>3, <2>1, <2>3
  <2>4. CASE a # i /\ a # j BY <1>3, <2>1, <2>4
  <2> QED BY <2>2, <2>3, <2>4
<1>7. t \in Seq(S) /\ Len(t) = l BY <1>1, <1>2, <1>3
<1>8. ListsOnce(t, S) BY <1>5, <1>6, <1>7 DEF ListsOnce
<1> QED BY <1>3, <1>7, <1>8 DEF l

\* Lists of those in K, of length l, and those of them whose first n are in order.
Rankings(K, l) == {t \in Seq(K) : ListsOnce(t, K) /\ Len(t) = l}

SortedUpto(scores, t, n) ==
    \A a, b \in 1..Len(t) : a <= n /\ a < b => scores[t[a]] >= scores[t[b]]

LEMMA Exchanged ==
    ASSUME NEW K, NEW l \in Nat, NEW t \in Rankings(K, l), NEW scores, \A x \in K : scores[x] \in Int,
           NEW i \in 1..l, NEW j \in 1..l, i < j,
           NEW u, u = Tracking!Exchange(scores, t, i, j)
    PROVE  /\ u \in Rankings(K, l)
           /\ scores[u[i]] >= scores[u[j]] /\ scores[u[i]] >= scores[t[i]]
           /\ \A a \in 1..l : a # i /\ a # j => u[a] = t[a]
           /\ \A n \in 0..(i - 1) : SortedUpto(scores, t, n) => SortedUpto(scores, u, n)
<1>1. /\ ListsOnce(t, K) /\ Len(t) = l /\ t \in Seq(K)
      /\ \A a \in 1..l : t[a] \in K /\ scores[t[a]] \in Int
    BY DEF Rankings, ListsOnce
<1>2. CASE scores[t[i]] < scores[t[j]]
  <2>1. Swapped(u, t, i, j) BY <1>2 DEF Tracking!Exchange, Swapped
  <2>6. i \in 1..Len(t) /\ j \in 1..Len(t) BY <1>1
  <2>2. /\ ListsOnce(u, K) /\ Len(u) = l
        /\ u[i] = t[j] /\ u[j] = t[i] /\ \A a \in 1..l : a # i /\ a # j => u[a] = t[a]
      BY <1>1, <2>1, <2>6, SwapOnce
  <2>3. u \in Rankings(K, l) BY <2>2 DEF Rankings, ListsOnce
  <2>4. ASSUME NEW n \in 0..(i - 1), SortedUpto(scores, t, n) PROVE SortedUpto(scores, u, n)
    <3>1. SUFFICES ASSUME NEW a \in 1..l, NEW b \in 1..l, a <= n, a < b
                   PROVE  scores[u[a]] >= scores[u[b]]
        BY <2>2 DEF SortedUpto
    <3>2. a # i /\ a # j /\ a < i /\ a < j /\ u[a] = t[a] BY <2>2, <3>1
    <3>3. \E d \in 1..l : a < d /\ u[b] = t[d] BY <2>2, <3>1, <3>2
    <3> QED BY <1>1, <2>4, <3>1, <3>2, <3>3 DEF SortedUpto
  <2>5. scores[u[i]] >= scores[u[j]] /\ scores[u[i]] >= scores[t[i]] BY <1>1, <1>2, <2>2
  <2> QED BY <2>2, <2>3, <2>4, <2>5
<1>3. CASE ~(scores[t[i]] < scores[t[j]])
  <2>1. u = t BY <1>3 DEF Tracking!Exchange
  <2>2. scores[t[i]] >= scores[t[j]] /\ scores[t[i]] >= scores[t[i]] BY <1>1, <1>3
  <2> QED BY <2>1, <2>2
<1> QED BY <1>2, <1>3

\* After a pass over the places after i, nobody there has a higher score.
LEMMA PassSorts ==
    ASSUME NEW K, NEW l \in Nat, NEW t \in Rankings(K, l), NEW scores, \A x \in K : scores[x] \in Int,
           NEW i \in 1..l
    PROVE  /\ Tracking!Pass(scores, t, i) \in Rankings(K, l)
           /\ SortedUpto(scores, t, i - 1) => SortedUpto(scores, Tracking!Pass(scores, t, i), i)
<1> DEFINE n == l - i
           S == 1..n
           D == Rankings(K, l)
           p == Tracking!Above(i, Len(t))
           c == Greatests(n)
           top(T) == CHOOSE x \in T : \A y \in T : x >= y
           round(k, d) == Tracking!Exchange(scores, d, i, p[k])
           g == [z \in S \X D |-> round(z[1], z[2])]
           it == CHOOSE f : f = [T \in SUBSET (DOMAIN p) |-> IF T = {} THEN t ELSE round(top(T), f[T \ {top(T)}])]
<1>0. Len(t) = l BY DEF Rankings
<1>1. DOMAIN p = S /\ n \in Nat /\ (\A k \in S : p[k] = i + k /\ p[k] \in 1..l /\ i < p[k])
    BY <1>0 DEF Tracking!Above
<1>2. Tracking!Pass(scores, t, i) = it[DOMAIN p]
    BY DEF Tracking!Pass, Tracking!FoldLeft, Tracking!MapThenFoldSet, Tracking!Max
<1>3. \A T \in SUBSET S : T # {} => c[T] = top(T) /\ c[T] \in S /\ c[T] \in T
  <2> HIDE DEF n, p
  <2> QED BY <1>1, GreatestsChosen DEF Greatests, Chooses
<1>4. \A k \in S, d \in D : g[<<k, d>>] = round(k, d) OBVIOUS
<1>5. ASSUME NEW k \in S, NEW d \in D
      PROVE  /\ round(k, d) \in D
             /\ scores[round(k, d)[i]] >= scores[round(k, d)[p[k]]]
             /\ scores[round(k, d)[i]] >= scores[d[i]]
             /\ \A a \in 1..l : a # i /\ a # p[k] => round(k, d)[a] = d[a]
             /\ SortedUpto(scores, d, i - 1) => SortedUpto(scores, round(k, d), i - 1)
  <2> DEFINE u == round(k, d)
             j == p[k]
  <2>1. u = Tracking!Exchange(scores, d, i, j) /\ j \in 1..l /\ i < j BY <1>1
  <2>2. i - 1 \in 0..(i - 1) OBVIOUS
  <2> HIDE DEF u, j, D, p, S, n
  <2>3. d \in Rankings(K, l) BY DEF D
  <2>4. /\ u \in Rankings(K, l)
        /\ scores[u[i]] >= scores[u[j]] /\ scores[u[i]] >= scores[d[i]]
        /\ \A a \in 1..l : a # i /\ a # j => u[a] = d[a]
        /\ \A b \in 0..(i - 1) : SortedUpto(scores, d, b) => SortedUpto(scores, u, b)
      BY <2>1, <2>3, Exchanged
  <2> QED BY <2>2, <2>4 DEF u, j, D
<1> HIDE DEF n, p, D, round, top, g
<1>6. Closed(g, S, D) BY <1>4, <1>5 DEF Closed
<1>7. t \in D BY DEF D
<1>8. PICK f \in [SUBSET S -> D] :
             /\ Computes(f, S, t, c, g)
             /\ \E r \in [0..n -> D] : Runs(r, n, t, g) /\ f[S] = r[n]
  <2>1. \E f \in [SUBSET (1..n) -> D] : Looped(f, n, D, t, g) BY <1>1, <1>6, <1>7, Loop
  <2> QED BY <2>1 DEF Looped
<1>9. PICK r \in [0..n -> D] : Runs(r, n, t, g) /\ f[S] = r[n] BY <1>8
<1>10. Tracking!Pass(scores, t, i) = r[n]
  <2> HIDE DEF c, S
  <2>1. \A T \in SUBSET S : f[T] = IF T = {} THEN t ELSE round(top(T), f[T \ {top(T)}])
    <3> TAKE T \in SUBSET S
    <3>1. CASE T = {} BY <1>8, <3>1 DEF Computes
    <3>2. CASE T # {}
      <4>1. f[T] = g[<<c[T], f[T \ {c[T]}]>>] BY <1>8, <3>2 DEF Computes
      <4>2. T \ {c[T]} \in SUBSET S /\ c[T] = top(T) /\ c[T] \in S BY <1>3, <3>2
      <4>3. f[T \ {c[T]}] \in D BY <4>2
      <4> QED BY <1>4, <3>2, <4>1, <4>2, <4>3
    <3> QED BY <3>1, <3>2
  <2>2. f = [T \in SUBSET (DOMAIN p) |-> IF T = {} THEN t ELSE round(top(T), f[T \ {top(T)}])]
      BY <1>1, <2>1
  <2>9. it = [T \in SUBSET (DOMAIN p) |-> IF T = {} THEN t ELSE round(top(T), it[T \ {top(T)}])] BY <2>2
  <2>3. \A T \in SUBSET S : it[T] = IF T = {} THEN t ELSE round(top(T), it[T \ {top(T)}]) BY <1>1, <2>9
  <2> HIDE DEF it
  <2>4. it[{}] = f[{}] BY <2>1, <2>3
  <2>5. ASSUME NEW T \in SUBSET S, T # {}, it[T \ {c[T]}] = f[T \ {c[T]}] PROVE it[T] = f[T]
    <3>1. c[T] = top(T) BY <1>3, <2>5
    <3> QED BY <2>1, <2>3, <2>5, <3>1
  <2>6. Chooses(c, S) /\ IsFiniteSet(S) BY <1>1, GreatestsChosen DEF c, S
  <2>7. Alike(f, it, S, c) BY <2>4, <2>5 DEF Alike
  <2>8. it[S] = f[S] BY <2>6, <2>7, RecursionUnique
  <2> QED BY <1>1, <1>2, <1>9, <2>8
<1> HIDE DEF it, c
<1>11. r[n] \in D BY <1>1
<1>12. ASSUME SortedUpto(scores, t, i - 1) PROVE SortedUpto(scores, r[n], i)
  <2> DEFINE Done(u, k) == SortedUpto(scores, u, i - 1) /\ \A b \in 1..k : scores[u[i]] >= scores[u[i + b]]
             G == {k \in Nat : k <= n => Done(r[k], k)}
  <2>1. 0 \in G BY <1>9, <1>12 DEF Runs
  <2>2. ASSUME NEW k \in Nat, k \in G PROVE k + 1 \in G
    <3>1. SUFFICES ASSUME k + 1 <= n PROVE Done(r[k + 1], k + 1) OBVIOUS
    <3>2. k + 1 \in S /\ k \in 0..n /\ (k + 1) - 1 = k /\ k <= n BY <1>1, <3>1
    <3>3. Done(r[k], k) /\ r[k] \in D BY <2>2, <3>2
    <3>4. r[k + 1] = g[<<k + 1, r[k]>>] BY <1>9, <3>2 DEF Runs
    <3>5. r[k + 1] = round(k + 1, r[k]) BY <1>4, <3>2, <3>3, <3>4
    <3> DEFINE u == r[k + 1]
               d == r[k]
    <3>6. /\ u \in D /\ scores[u[i]] >= scores[u[p[k + 1]]]
          /\ scores[u[i]] >= scores[d[i]]
          /\ \A a \in 1..l : a # i /\ a # p[k + 1] => u[a] = d[a]
          /\ SortedUpto(scores, d, i - 1) => SortedUpto(scores, u, i - 1)
        BY <1>5, <3>2, <3>3, <3>5
    <3>7. p[k + 1] = i + (k + 1) BY <1>1, <3>2
    <3>8. ASSUME NEW b \in 1..(k + 1) PROVE scores[u[i]] >= scores[u[i + b]]
      <4>1. CASE b = k + 1 BY <3>6, <3>7, <4>1
      <4>2. CASE b # k + 1
        <5>1. b \in 1..k /\ b \in S /\ i + b \in 1..l /\ i + b # i /\ i + b # i + (k + 1)
            BY <1>1, <3>2, <4>2
        <5>2. u[i + b] = d[i + b] /\ scores[d[i]] >= scores[d[i + b]] BY <3>3, <3>6, <3>7, <5>1
        <5>3. \A a \in 1..l : scores[u[a]] \in Int /\ scores[d[a]] \in Int
            BY <3>3, <3>6 DEF D, Rankings
        <5> QED BY <3>6, <5>1, <5>2, <5>3
      <4> QED BY <4>1, <4>2
    <3> QED BY <3>3, <3>6, <3>8
  <2>3. Nat \subseteq G
    <3> HIDE DEF G
    <3> QED BY <2>1, <2>2, NumberInduction
  <2>9. n \in Nat /\ n <= n BY <1>1
  <2>10. n \in G BY <2>3, <2>9
  <2>4. Done(r[n], n) BY <2>9, <2>10
  <2>5. Len(r[n]) = l BY <1>11 DEF D, Rankings
  <2>6. SUFFICES ASSUME NEW a \in 1..l, NEW b \in 1..l, a <= i, a < b
                 PROVE  scores[r[n][a]] >= scores[r[n][b]]
      BY <2>5 DEF SortedUpto
  <2>7. CASE a = i
    <3>1. b - i \in 1..n /\ i + (b - i) = b BY <2>6, <2>7 DEF n
    <3> QED BY <2>4, <2>7, <3>1
  <2>8. CASE a # i BY <2>4, <2>5, <2>6, <2>8 DEF SortedUpto
  <2> QED BY <2>7, <2>8
<1> QED BY <1>10, <1>11, <1>12 DEF D

-----------------------------------------------------------------------------
(* What the sort answers (DeliveryTracking).                               *)

\* Passes over all places put a list in order.
LEMMA ImportSortSorts ==
    ASSUME NEW K, NEW l \in Nat, NEW t \in Rankings(K, l), NEW scores, \A x \in K : scores[x] \in Int
    PROVE  /\ Tracking!ImportSort(scores, t) \in Rankings(K, l)
           /\ SortedUpto(scores, Tracking!ImportSort(scores, t), l)
<1> DEFINE S == 1..l
           D == Rankings(K, l)
           p == Tracking!Above(0, Len(t))
           c == Greatests(l)
           top(T) == CHOOSE x \in T : \A y \in T : x >= y
           round(k, d) == Tracking!Pass(scores, d, p[k])
           g == [z \in S \X D |-> round(z[1], z[2])]
           it == CHOOSE f : f = [T \in SUBSET (DOMAIN p) |-> IF T = {} THEN t ELSE round(top(T), f[T \ {top(T)}])]
<1>0. Len(t) = l BY DEF Rankings
<1>1. DOMAIN p = S /\ \A k \in S : p[k] = k
    BY <1>0 DEF Tracking!Above
<1>2. Tracking!ImportSort(scores, t) = it[DOMAIN p]
    BY DEF Tracking!ImportSort, Tracking!FoldLeft, Tracking!MapThenFoldSet, Tracking!Max
<1>3. \A T \in SUBSET S : T # {} => c[T] = top(T) /\ c[T] \in S /\ c[T] \in T
  <2> HIDE DEF p
  <2> QED BY <1>1, GreatestsChosen DEF Greatests, Chooses
<1>4. \A k \in S, d \in D : g[<<k, d>>] = round(k, d) OBVIOUS
<1>5. ASSUME NEW k \in S, NEW d \in D
      PROVE  /\ round(k, d) \in D
             /\ SortedUpto(scores, d, k - 1) => SortedUpto(scores, round(k, d), k)
  <2>1. round(k, d) = Tracking!Pass(scores, d, k) BY <1>1
  <2> HIDE DEF p, round
  <2> QED BY <2>1, PassSorts
<1> HIDE DEF p, D, round, top, g
<1>6. Closed(g, S, D) BY <1>4, <1>5 DEF Closed
<1>7. t \in D BY DEF D
<1>8. PICK f \in [SUBSET S -> D] :
             /\ Computes(f, S, t, c, g)
             /\ \E r \in [0..l -> D] : Runs(r, l, t, g) /\ f[S] = r[l]
  <2>1. \E f \in [SUBSET (1..l) -> D] : Looped(f, l, D, t, g) BY <1>6, <1>7, Loop
  <2> QED BY <2>1 DEF Looped
<1>9. PICK r \in [0..l -> D] : Runs(r, l, t, g) /\ f[S] = r[l] BY <1>8
<1>10. Tracking!ImportSort(scores, t) = r[l]
  <2> HIDE DEF c, S
  <2>1. \A T \in SUBSET S : f[T] = IF T = {} THEN t ELSE round(top(T), f[T \ {top(T)}])
    <3> TAKE T \in SUBSET S
    <3>1. CASE T = {} BY <1>8, <3>1 DEF Computes
    <3>2. CASE T # {}
      <4>1. f[T] = g[<<c[T], f[T \ {c[T]}]>>] BY <1>8, <3>2 DEF Computes
      <4>2. T \ {c[T]} \in SUBSET S /\ c[T] = top(T) /\ c[T] \in S BY <1>3, <3>2
      <4>3. f[T \ {c[T]}] \in D BY <4>2
      <4> QED BY <1>4, <3>2, <4>1, <4>2, <4>3
    <3> QED BY <3>1, <3>2
  <2>2. f = [T \in SUBSET (DOMAIN p) |-> IF T = {} THEN t ELSE round(top(T), f[T \ {top(T)}])]
      BY <1>1, <2>1
  <2>3. it = [T \in SUBSET (DOMAIN p) |-> IF T = {} THEN t ELSE round(top(T), it[T \ {top(T)}])] BY <2>2
  <2>4. \A T \in SUBSET S : it[T] = IF T = {} THEN t ELSE round(top(T), it[T \ {top(T)}]) BY <1>1, <2>3
  <2> HIDE DEF it
  <2>5. it[{}] = f[{}] BY <2>1, <2>4
  <2>6. ASSUME NEW T \in SUBSET S, T # {}, it[T \ {c[T]}] = f[T \ {c[T]}] PROVE it[T] = f[T]
    <3>1. c[T] = top(T) BY <1>3, <2>6
    <3> QED BY <2>1, <2>4, <2>6, <3>1
  <2>7. Chooses(c, S) /\ IsFiniteSet(S) BY GreatestsChosen DEF c, S
  <2>8. Alike(f, it, S, c) BY <2>5, <2>6 DEF Alike
  <2>9. it[S] = f[S] BY <2>7, <2>8, RecursionUnique
  <2> QED BY <1>1, <1>2, <1>9, <2>9
<1> HIDE DEF it, c
<1>11. r[l] \in D /\ SortedUpto(scores, r[l], l)
  <2> DEFINE G == {k \in Nat : k <= l => SortedUpto(scores, r[k], k)}
  <2>1. 0 \in G BY DEF SortedUpto
  <2>2. ASSUME NEW k \in Nat, k \in G PROVE k + 1 \in G
    <3>1. SUFFICES ASSUME k + 1 <= l PROVE SortedUpto(scores, r[k + 1], k + 1) OBVIOUS
    <3>2. k + 1 \in S /\ k \in 0..l /\ (k + 1) - 1 = k /\ k <= l BY <3>1
    <3>3. SortedUpto(scores, r[k], k) /\ r[k] \in D BY <2>2, <3>2
    <3>4. r[k + 1] = g[<<k + 1, r[k]>>] BY <1>9, <3>2 DEF Runs
    <3>5. r[k + 1] = round(k + 1, r[k]) BY <1>4, <3>2, <3>3, <3>4
    <3> QED BY <1>5, <3>2, <3>3, <3>5
  <2>3. Nat \subseteq G
    <3> HIDE DEF G
    <3> QED BY <2>1, <2>2, NumberInduction
  <2>4. l \in G BY <2>3
  <2> QED BY <2>4
<1> QED BY <1>10, <1>11 DEF D

-----------------------------------------------------------------------------
LEMMA RankingBounds == MaxRiders \in Nat /\ Scores \subseteq Nat \ {0}
BY BoundsAre, PricesAre

RankingVars == <<nearby, ranked>>

RankingHolds ==
    /\ nearby \in Seq(Scores \cup {0}) /\ Len(nearby) <= MaxRiders
    /\ ListsOnce(ranked, {r \in 1..Len(nearby) : nearby[r] > 0})
    /\ SortedUpto(nearby, ranked, Len(ranked))

LEMMA RankingSteps ==
    ASSUME Unbounded
    PROVE  /\ subject' = subject
           /\ subject # "ranking" => UNCHANGED RankingVars
           /\ subject = "ranking" => Tracking!RankingNext
BY DEF Unbounded, Calls, World, Faults, Steps, Frame, RankingVars

LEMMA RankingStep ==
    ASSUME RankingHolds, Unbounded
    PROVE  RankingHolds'
<1>1. CASE subject # "ranking"
  <2>1. UNCHANGED RankingVars BY <1>1, RankingSteps
  <2> QED BY <2>1 DEF RankingHolds, RankingVars
<1>2. CASE subject = "ranking"
  <2>1. PICK n \in 0..MaxRiders : \E scores \in [1..n -> Scores \cup {0}] : Tracking!FindAvailableNearby(scores)
      BY <1>2, RankingSteps DEF Tracking!RankingNext
  <2>2. PICK scores \in [1..n -> Scores \cup {0}] : Tracking!FindAvailableNearby(scores) BY <2>1
  <2> DEFINE K == {r \in 1..n : scores[r] > 0}
             t == Tracking!Located(scores)
             l == Len(t)
             s == Tracking!ImportSort(scores, t)
  <2>3. nearby' = scores /\ ranked' = s BY <2>2 DEF Tracking!FindAvailableNearby
  <2>0. n \in Nat /\ n <= MaxRiders BY RankingBounds
  <2>4. DOMAIN scores = 1..n /\ scores \in Seq(Scores \cup {0}) /\ Len(scores) = n
    <3>1. \A T : \A f \in [1..n -> T] : f \in Seq(T) /\ Len(f) = n BY <2>0
    <3> QED BY <3>1
  <2>5. \A x \in K : scores[x] \in Int
    <3>1. \A x \in K : scores[x] \in Scores \cup {0} OBVIOUS
    <3>2. \A a \in Scores \cup {0} : a \in Int BY RankingBounds
    <3> HIDE DEF K
    <3> QED BY <3>1, <3>2
  <2>6. ListsOnce(t, K)
    <3> HIDE DEF t
    <3> QED BY <2>0, <2>4, LocatedOnce DEF t
  <2> HIDE DEF K, t, s
  <2>7. l \in Nat /\ t \in Rankings(K, l) BY <2>6 DEF Rankings, ListsOnce
  <2> HIDE DEF l
  <2>8. s \in Rankings(K, l) /\ SortedUpto(scores, s, l) BY <2>5, <2>7, ImportSortSorts DEF s
  <2>9. ListsOnce(s, K) /\ Len(s) = l BY <2>8 DEF Rankings
  <2> QED BY <2>0, <2>3, <2>4, <2>8, <2>9 DEF RankingHolds, K
<1> QED BY <1>1, <1>2

LEMMA RankingStutter ==
    ASSUME RankingHolds, UNCHANGED RankingVars
    PROVE  RankingHolds'
BY DEF RankingHolds, RankingVars

LEMMA RankingInit == LibrariesInit => RankingHolds
<1> SUFFICES ASSUME LibrariesInit PROVE RankingHolds OBVIOUS
<1>1. nearby = <<>> /\ ranked = <<>> BY DEF LibrariesInit, Tracking!Init, Tracking!RankingInit
<1> QED BY <1>1, BoundsAre DEF RankingHolds, ListsOnce, SortedUpto

LEMMA RankingSound == RankingHolds => Tracking!BestFirst /\ Tracking!RankingTypeOK
<1> SUFFICES ASSUME RankingHolds PROVE Tracking!BestFirst /\ Tracking!RankingTypeOK OBVIOUS
<1> DEFINE K == {r \in 1..Len(nearby) : nearby[r] > 0}
<1>1. /\ nearby \in Seq(Scores \cup {0}) /\ ListsOnce(ranked, K) /\ SortedUpto(nearby, ranked, Len(ranked))
      /\ Len(nearby) <= MaxRiders
    BY DEF RankingHolds
<1>2. K \subseteq 1..MaxRiders
  <2>1. Len(nearby) \in Nat BY <1>1
  <2> QED BY <1>1, <2>1, RankingBounds
<1>3. DOMAIN nearby = 1..Len(nearby) BY <1>1
<1>4. K = {r \in DOMAIN nearby : nearby[r] > 0} BY <1>3
<1> HIDE DEF K
<1>5. /\ ranked \in Seq(K) /\ DOMAIN ranked = 1..Len(ranked)
      /\ \A a \in 1..Len(ranked) : ranked[a] \in K
    BY <1>1 DEF ListsOnce
<1>6. {ranked[i] : i \in DOMAIN ranked} = K BY <1>1, <1>5 DEF ListsOnce
<1>7. \A i, j \in DOMAIN ranked :
         i < j => ranked[i] # ranked[j] /\ nearby[ranked[i]] >= nearby[ranked[j]]
  <2> TAKE i, j \in DOMAIN ranked
  <2>1. i \in 1..Len(ranked) /\ j \in 1..Len(ranked) BY <1>5
  <2>2. i <= Len(ranked) /\ (i < j => i # j) BY <2>1
  <2>3. ranked[i] = ranked[j] => i = j BY <1>1, <2>1 DEF ListsOnce
  <2>4. i < j => nearby[ranked[i]] >= nearby[ranked[j]] BY <1>1, <2>1, <2>2 DEF SortedUpto
  <2> QED BY <2>2, <2>3, <2>4
<1>8. ranked \in Seq(1..MaxRiders)
  <2>1. \A T : K \subseteq T => ranked \in Seq(T)
    <3> TAKE T
    <3> HAVE K \subseteq T
    <3> QED BY <1>5
  <2> QED BY <1>2, <2>1
<1> QED BY <1>1, <1>4, <1>6, <1>7, <1>8 DEF Tracking!BestFirst, Tracking!RankingTypeOK

-----------------------------------------------------------------------------
(* The nearest neighbour (RoutingAlgorithms).                              *)

\* One of the least of a finite set of numbers by weight is the first of them.
Before(w, a, b) == w[a] < w[b] \/ (w[a] = w[b] /\ a <= b)

LEMMA FirstOfLeast ==
    ASSUME NEW S, IsFiniteSet(S), S # {}, S \subseteq Int, NEW w, \A x \in S : w[x] \in Int
    PROVE  \E a \in S : \A b \in S : Before(w, a, b)
<1> DEFINE H == {T \in SUBSET S : T # {} => \E a \in T : \A b \in T : Before(w, a, b)}
<1>1. {} \in H OBVIOUS
<1>2. ASSUME NEW T \in SUBSET S, T # {}, \A x \in T : T \ {x} \in H
      PROVE  T \in H
  <2>1. PICK z \in T : T \ {z} \in H BY <1>2
  <2>2. z \in Int /\ w[z] \in Int /\ \A x \in T : x \in Int /\ w[x] \in Int OBVIOUS
  <2>3. Before(w, z, z) BY <2>2 DEF Before
  <2>4. CASE T \ {z} = {}
    <3>1. T = {z} BY <2>4
    <3> QED BY <2>3, <3>1
  <2>5. CASE T \ {z} # {}
    <3>1. PICK a \in T \ {z} : \A b \in T \ {z} : Before(w, a, b) BY <2>1, <2>5
    <3>2. CASE Before(w, a, z) BY <3>1, <3>2
    <3>3. CASE ~Before(w, a, z)
      <4>1. Before(w, z, a) BY <2>2, <3>3 DEF Before
      <4>2. \A b \in T \ {z} : Before(w, z, b) BY <2>2, <3>1, <4>1 DEF Before
      <4> QED BY <2>3, <4>2
    <3> QED BY <3>2, <3>3
  <2> QED BY <2>4, <2>5
<1>3. SUBSET S \subseteq H
  <2> HIDE DEF H
  <2> QED BY <1>1, <1>2, SetInduction
<1> QED BY <1>3

\* A list less one element.
LEMMA RemoveOnce ==
    ASSUME NEW S, NEW s, ListsOnce(s, S), NEW i \in 1..Len(s),
           NEW t, t = Routing!RemoveAt(s, i)
    PROVE  ListsOnce(t, S \ {s[i]})
<1> DEFINE l == Len(s)
<1>1. s \in Seq(S) /\ l \in Nat /\ i \in 1..l /\ \A a \in 1..l : s[a] \in S BY DEF ListsOnce
<1>2. /\ SubSeq(s, 1, i - 1) \in Seq(S) /\ Len(SubSeq(s, 1, i - 1)) = i - 1
      /\ \A a \in 1..(i - 1) : SubSeq(s, 1, i - 1)[a] = s[a]
    BY <1>1
<1>3. /\ SubSeq(s, i + 1, l) \in Seq(S) /\ Len(SubSeq(s, i + 1, l)) = l - i
      /\ \A a \in 1..(l - i) : SubSeq(s, i + 1, l)[a] = s[a + i]
    BY <1>1
<1>4. /\ t \in Seq(S) /\ Len(t) = l - 1
      /\ \A a \in 1..(l - 1) : t[a] = IF a < i THEN s[a] ELSE s[a + 1]
  <2>1. t = SubSeq(s, 1, i - 1) \o SubSeq(s, i + 1, l) BY DEF Routing!RemoveAt
  <2> DEFINE u == SubSeq(s, 1, i - 1)
             v == SubSeq(s, i + 1, l)
  <2> HIDE DEF u, v, l
  <2>2. u \in Seq(S) /\ v \in Seq(S) /\ Len(u) = i - 1 /\ Len(v) = l - i /\ t = u \o v
      BY <1>2, <1>3, <2>1 DEF u, v
  <2>6. u \in Seq(S) /\ v \in Seq(S) /\ t = u \o v BY <2>2
  <2>7. \A a, b \in Seq(S) : a \o b \in Seq(S) /\ Len(a \o b) = Len(a) + Len(b) OBVIOUS
  <2>5. t \in Seq(S) /\ Len(t) = Len(u) + Len(v) BY <2>6, <2>7
  <2>3. t \in Seq(S) /\ Len(t) = l - 1 BY <1>1, <2>2, <2>5
  <2>4. ASSUME NEW a \in 1..(l - 1) PROVE t[a] = IF a < i THEN s[a] ELSE s[a + 1]
    <3>1. CASE a < i
      <4>1. a \in 1..Len(u) BY <1>1, <2>2, <3>1
      <4>2. t[a] = u[a] BY <2>2, <4>1
      <4>3. u[a] = s[a] BY <1>2, <2>2, <4>1 DEF u
      <4> QED BY <3>1, <4>2, <4>3
    <3>2. CASE ~(a < i)
      <4>1. a - (i - 1) \in 1..(l - i) /\ a \in (Len(u) + 1)..(Len(u) + Len(v)) BY <1>1, <2>2, <3>2
      <4>2. t[a] = v[a - Len(u)] BY <2>2, <4>1
      <4>3. a - Len(u) = a - (i - 1) /\ (a - (i - 1)) + i = a + 1 BY <1>1, <2>2
      <4>4. v[a - (i - 1)] = s[(a - (i - 1)) + i] BY <1>3, <4>1 DEF v
      <4> QED BY <3>2, <4>2, <4>3, <4>4
    <3> QED BY <3>1, <3>2
  <2> QED BY <2>3, <2>4
<1>5. /\ \A a, b \in 1..l : s[a] = s[b] => a = b
      /\ \A x \in S : \E a \in 1..l : s[a] = x
    BY DEF ListsOnce
<1> HIDE DEF l
<1>6. ASSUME NEW a \in 1..(l - 1) PROVE t[a] \in S \ {s[i]}
  <2>1. CASE a < i BY <1>1, <1>4, <1>5, <2>1
  <2>2. CASE ~(a < i)
    <3>1. a + 1 \in 1..l /\ a + 1 # i BY <1>1, <2>2
    <3> QED BY <1>1, <1>4, <1>5, <2>2, <3>1
  <2> QED BY <2>1, <2>2
<1>7. ASSUME NEW a \in 1..(l - 1), NEW b \in 1..(l - 1), t[a] = t[b] PROVE a = b
  <2> DEFINE was(k) == IF k < i THEN k ELSE k + 1
  <2>1. was(a) \in 1..l /\ was(b) \in 1..l /\ t[a] = s[was(a)] /\ t[b] = s[was(b)] BY <1>1, <1>4
  <2>2. was(a) = was(b) BY <1>5, <1>7, <2>1
  <2> QED BY <1>1, <2>2
<1>8. ASSUME NEW x \in S \ {s[i]} PROVE \E a \in 1..(l - 1) : t[a] = x
  <2>1. PICK a \in 1..l : s[a] = x BY <1>5
  <2>2. CASE a < i
    <3>1. a \in 1..(l - 1) BY <1>1, <2>2
    <3> QED BY <1>4, <2>1, <2>2, <3>1
  <2>3. CASE a > i
    <3>1. a - 1 \in 1..(l - 1) /\ ~(a - 1 < i) /\ (a - 1) + 1 = a BY <1>1, <2>3
    <3> QED BY <1>4, <2>1, <3>1
  <2>4. a # i BY <2>1
  <2> QED BY <1>1, <2>2, <2>3, <2>4
<1>9. t \in Seq(S \ {s[i]})
  <2> DEFINE R == S \ {s[i]}
  <2>1. \A a \in 1..Len(t) : t[a] \in R BY <1>4, <1>6
  <2> HIDE DEF R
  <2>2. t \in Seq(R) BY <1>4, <2>1
  <2> QED BY <2>2 DEF R
<1> QED BY <1>4, <1>7, <1>8, <1>9 DEF ListsOnce

NeighborVars == <<waiting, route, ready, done>>

Visited == {route[i] : i \in DOMAIN route}

NeighborHolds ==
    /\ Visited \subseteq Stops
    /\ ListsOnce(route, Visited) /\ ListsOnce(waiting, Stops \ Visited)
    /\ ready \in [Stops -> {"later", "today", "now"}]
    /\ done \in BOOLEAN
    /\ done => \A s \in Stops \ Visited : ready[s] = "later"

LEMMA NeighborSteps ==
    ASSUME Unbounded
    PROVE  /\ subject' = subject
           /\ subject # "nearest" => UNCHANGED NeighborVars
           /\ subject = "nearest" => Routing!NeighborNext
BY DEF Unbounded, Calls, World, Faults, Steps, Frame, NeighborVars

\* If an order is ready, one of those that are is the nearest.
LEMMA SomeNearest ==
    ASSUME NeighborHolds, Routing!Indices("now") # {}
    PROVE  Routing!Nearest # {}
<1> DEFINE S == Routing!Indices("now")
           w == [i \in S |-> Detour(Routing!Here, waiting[i])]
<1>1. /\ waiting \in Seq(Stops \ Visited) /\ route \in Seq(Visited) /\ Visited \subseteq Stops
      /\ Len(waiting) \in Nat /\ Len(route) \in Nat /\ DOMAIN waiting = 1..Len(waiting)
    BY DEF NeighborHolds, ListsOnce
<1>2. S \subseteq 1..Len(waiting) BY <1>1 DEF Routing!Indices
<1>3. IsFiniteSet(S) /\ S \subseteq Int
  <2>1. IsFiniteSet(1..Len(waiting)) /\ 1..Len(waiting) \subseteq Int BY <1>1, FS_Interval
  <2> HIDE DEF S
  <2> QED BY <1>2, <2>1, FS_Subset
<1>4. \A i \in S : waiting[i] \in Stops BY <1>1, <1>2
<1>5. Routing!Here \in Stops \cup {0}
  <2>1. CASE route = <<>> BY <2>1 DEF Routing!Here
  <2>2. CASE route # <<>>
    <3>1. Len(route) \in 1..Len(route) BY <1>1, <2>2
    <3>2. route[Len(route)] \in Visited BY <1>1, <3>1
    <3> QED BY <1>1, <2>2, <3>2 DEF Routing!Here
  <2> QED BY <2>1, <2>2
<1>6. \A a \in Stops \cup {0}, b \in Stops : Detour(a, b) \in Int BY DetoursAre
<1>7. \A i \in S : w[i] = Detour(Routing!Here, waiting[i]) OBVIOUS
<1>8. \A i \in S : w[i] \in Int BY <1>4, <1>5, <1>6, <1>7
<1> HIDE DEF w, S
<1>9. S # {} BY DEF S
<1>10. PICK a \in S : \A b \in S : Before(w, a, b) BY <1>3, <1>8, <1>9, FirstOfLeast
<1>11. a \in Routing!Nearest BY <1>7, <1>10 DEF Before, S, Routing!Nearest
<1> QED BY <1>11

LEMMA NeighborStep ==
    ASSUME NeighborHolds, Unbounded
    PROVE  NeighborHolds'
<1>1. CASE subject # "nearest"
  <2>1. UNCHANGED NeighborVars BY <1>1, NeighborSteps
  <2> QED BY <2>1 DEF NeighborHolds, NeighborVars, Visited
<1>2. CASE subject = "nearest"
  <2>1. /\ ListsOnce(route, Visited) /\ ListsOnce(waiting, Stops \ Visited) /\ Visited \subseteq Stops
        /\ route \in Seq(Visited) /\ waiting \in Seq(Stops \ Visited)
        /\ DOMAIN route = 1..Len(route) /\ Len(route) \in Nat
        /\ DOMAIN waiting = 1..Len(waiting) /\ Len(waiting) \in Nat
      BY DEF NeighborHolds, ListsOnce
  <2>2. CASE Routing!Visit
    <3>1. PICK i \in Routing!Candidates : route' = Append(route, waiting[i]) /\ waiting' = Routing!RemoveAt(waiting, i)
        BY <2>2 DEF Routing!Visit
    <3>2. i \in 1..Len(waiting) BY <2>1 DEF Routing!Candidates, Routing!Nearest, Routing!Indices
    <3> DEFINE x == waiting[i]
    <3>3. x \in Stops \ Visited BY <2>1, <3>2
    <3>4. ListsOnce(waiting', (Stops \ Visited) \ {x}) BY <2>1, <3>1, <3>2, RemoveOnce
    <3> HIDE DEF x
    <3>5. ListsOnce(route', Visited \cup {x}) BY <2>1, <3>1, <3>3, ListAppend DEF x
    <3>6. Visited' = Visited \cup {x}
      <4>1. \A y : y \in Visited' <=> \E a \in 1..Len(route') : route'[a] = y
        <5>1. DOMAIN route' = 1..Len(route') BY <3>5 DEF ListsOnce
        <5> QED BY <5>1 DEF Visited
      <4>2. \A a \in 1..Len(route') : route'[a] \in Visited \cup {x} BY <3>5 DEF ListsOnce
      <4> QED BY <3>5, <4>1, <4>2 DEF ListsOnce
    <3>7. Stops \ Visited' = (Stops \ Visited) \ {x} BY <3>6
    <3>8. UNCHANGED <<ready, done>> /\ ~done BY <2>2 DEF Routing!Visit
    <3> QED BY <2>1, <3>3, <3>4, <3>5, <3>6, <3>7, <3>8 DEF NeighborHolds
  <2>3. CASE Routing!Finish
    <3>1. Routing!Candidates = {} /\ done' = TRUE /\ UNCHANGED <<waiting, route, ready>>
        BY <2>3 DEF Routing!Finish
    <3>2. Routing!Indices("now") = {} /\ Routing!Indices("today") = {}
        BY <3>1, SomeNearest DEF Routing!Candidates
    <3>3. \A i \in 1..Len(waiting) : ready[waiting[i]] # "now" /\ ready[waiting[i]] # "today"
        BY <2>1, <3>2 DEF Routing!Indices
    <3>4. \A s \in Stops \ Visited : ready[s] = "later"
      <4> TAKE s \in Stops \ Visited
      <4>1. PICK i \in 1..Len(waiting) : waiting[i] = s BY <2>1 DEF ListsOnce
      <4>2. ready[s] \in {"later", "today", "now"} BY DEF NeighborHolds
      <4> QED BY <3>3, <4>1, <4>2
    <3> QED BY <2>1, <3>1, <3>4 DEF NeighborHolds, Visited
  <2>4. CASE Routing!Tick
    <3>1. UNCHANGED <<waiting, route, done>> /\ ~done BY <2>4 DEF Routing!Tick
    <3>2. ready' \in [Stops -> {"later", "today", "now"}] BY <2>4 DEF Routing!Tick, NeighborHolds
    <3> QED BY <2>1, <3>1, <3>2 DEF NeighborHolds, Visited
  <2> QED BY <1>2, <2>2, <2>3, <2>4, NeighborSteps DEF Routing!NeighborNext
<1> QED BY <1>1, <1>2

LEMMA NeighborStutter ==
    ASSUME NeighborHolds, UNCHANGED NeighborVars
    PROVE  NeighborHolds'
BY DEF NeighborHolds, NeighborVars, Visited

LEMMA NeighborInit == LibrariesInit => NeighborHolds
<1> SUFFICES ASSUME LibrariesInit PROVE NeighborHolds OBVIOUS
<1>1. /\ waiting = Routing!SetToSeq(Stops) /\ route = <<>>
      /\ ready = [s \in Stops |-> "later"] /\ done = FALSE
    BY DEF LibrariesInit, Routing!Init, Routing!NeighborInit
<1>2. Routing!SetToSeq(Stops) = SetToSeq(Stops)
  <2>1. Routing!Cardinality(Stops) = Cardinality(Stops) BY DEF Routing!Cardinality, Cardinality
  <2> QED BY <2>1 DEF Routing!SetToSeq, SetToSeq, Routing!IsInjective, IsInjective
<1>3. IsFiniteSet(Stops) BY DetoursAre
<1> DEFINE n == Cardinality(Stops)
<1>4. n \in Nat BY <1>3, FS_CardinalityType
<1>5. /\ waiting \in [1..n -> Stops]
      /\ \A a, b \in 1..n : waiting[a] = waiting[b] => a = b
      /\ \A s \in Stops : \E i \in 1..n : waiting[i] = s
    BY <1>1, <1>2, <1>3, Enumeration
<1> HIDE DEF n
<1>6. \A f \in [1..n -> Stops] : f \in Seq(Stops) /\ Len(f) = n BY <1>4
<1>7. ListsOnce(waiting, Stops) BY <1>5, <1>6 DEF ListsOnce
<1>8. Visited = {} BY <1>1 DEF Visited
<1>9. ListsOnce(route, {}) BY <1>1 DEF ListsOnce
<1>10. Stops \ {} = Stops OBVIOUS
<1> QED BY <1>1, <1>7, <1>8, <1>9, <1>10 DEF NeighborHolds

LEMMA NeighborSound == NeighborHolds => Routing!OnlyLateLeftOut /\ Routing!NeighborTypeOK
<1> SUFFICES ASSUME NeighborHolds PROVE Routing!OnlyLateLeftOut /\ Routing!NeighborTypeOK OBVIOUS
<1>1. /\ route \in Seq(Visited) /\ waiting \in Seq(Stops \ Visited) /\ Visited \subseteq Stops
      /\ DOMAIN route = 1..Len(route)
      /\ \A a, b \in 1..Len(route) : route[a] = route[b] => a = b
    BY DEF NeighborHolds, ListsOnce
<1>2. route \in Seq(Stops) /\ waiting \in Seq(Stops)
  <2> DEFINE W == Stops \ Visited
  <2> HIDE DEF W, Visited
  <2>1. waiting \in Seq(W) /\ W \subseteq Stops BY <1>1 DEF W
  <2> QED BY <1>1, <2>1
<1>3. Routing!ToSet(route) = Visited BY DEF Routing!ToSet, Visited
<1>4. Routing!IsInjective(route) BY <1>1 DEF Routing!IsInjective
<1> QED BY <1>2, <1>3, <1>4 DEF NeighborHolds, Routing!OnlyLateLeftOut, Routing!NeighborTypeOK

-----------------------------------------------------------------------------
(* The genetic algorithm (RoutingAlgorithms).                              *)

\* The number of stops, and the orders they may be visited in.
LEMMA ToursAre ==
    /\ Routing!N = Cardinality(Stops) /\ Routing!N \in Nat /\ IsFiniteSet(Stops)
    /\ \A t : t \in Routing!Tours <=>
         /\ t \in [1..Routing!N -> Stops]
         /\ \A i, j \in 1..Routing!N : t[i] = t[j] => i = j
<1>1. IsFiniteSet(Stops) BY DetoursAre
<1>2. Routing!Cardinality(Stops) = Cardinality(Stops) BY DEF Routing!Cardinality, Cardinality
<1>3. Cardinality(Stops) \in Nat BY <1>1, FS_CardinalityType
<1>4. Routing!Tours = {f \in [1..Routing!N -> Stops] : \A i, j \in 1..Routing!N : i # j => f[i] # f[j]}
    BY <1>2 DEF Routing!Tours, Routing!SetToSeqs, Routing!N
<1> QED BY <1>1, <1>2, <1>3, <1>4 DEF Routing!N

\* A tour has every stop.
LEMMA TourComplete ==
    ASSUME NEW t \in Routing!Tours
    PROVE  /\ \A s \in Stops : \E i \in 1..Routing!N : t[i] = s
           /\ Routing!ToSet(t) = Stops /\ Len(t) = Routing!N /\ DOMAIN t = 1..Routing!N
<1> DEFINE n == Cardinality(Stops)
<1>1. n = Routing!N /\ n \in Nat /\ IsFiniteSet(Stops) BY ToursAre
<1>2. t \in [1..n -> Stops] /\ \A i, j \in 1..n : t[i] = t[j] => i = j BY <1>1, ToursAre
<1>3. \A s \in Stops : \E i \in 1..n : t[i] = s BY <1>1, <1>2, Enumerated
<1> HIDE DEF n
<1>4. Routing!ToSet(t) = Stops BY <1>2, <1>3 DEF Routing!ToSet
<1>5. \A f \in [1..n -> Stops] : Len(f) = n BY <1>1
<1> QED BY <1>1, <1>2, <1>3, <1>4, <1>5

LEMMA TourSwapped ==
    ASSUME NEW t \in Routing!Tours, NEW i \in 1..Routing!N, NEW j \in 1..Routing!N
    PROVE  Routing!Swap(t, i, j) \in Routing!Tours
<1> DEFINE n == Routing!N
           u == Routing!Swap(t, i, j)
           old(k) == IF k = i THEN j ELSE IF k = j THEN i ELSE k
<1>1. t \in [1..n -> Stops] /\ \A a, b \in 1..n : t[a] = t[b] => a = b BY ToursAre
<1>2. u = [t EXCEPT ![i] = t[j], ![j] = t[i]] BY DEF Routing!Swap
<1>3. i \in 1..n /\ j \in 1..n OBVIOUS
<1> HIDE DEF n, u
<1>4. u \in [1..n -> Stops] BY <1>1, <1>2, <1>3
<1>5. \A a \in 1..n : old(a) \in 1..n /\ u[a] = t[old(a)] BY <1>1, <1>2, <1>3
<1>6. ASSUME NEW a \in 1..n, NEW b \in 1..n, u[a] = u[b] PROVE a = b
  <2>1. old(a) = old(b) BY <1>1, <1>5, <1>6
  <2> QED BY <2>1
<1> QED BY <1>4, <1>6, ToursAre DEF n, u

\* The stops outside a slice.
LEMMA RestIs ==
    ASSUME NEW t \in Routing!Tours, NEW slice
    PROVE  ListsOnce(Routing!Rest(t, slice), Stops \ slice)
<1> DEFINE n == Routing!N
           S == 1..n
           D == Seq(Stops)
           K == Stops \ slice
           c == Greatests(n)
           top(T) == CHOOSE x \in T : \A y \in T : x >= y
           round(k, d) == IF t[k] \in slice THEN d ELSE Append(d, t[k])
           g == [z \in S \X D |-> round(z[1], z[2])]
           it == CHOOSE f : f = [T \in SUBSET (DOMAIN t) |-> IF T = {} THEN <<>> ELSE round(top(T), f[T \ {top(T)}])]
<1>0. DOMAIN t = S /\ n \in Nat /\ (\A k \in S : t[k] \in Stops) /\ Distinct(t, n)
    BY ToursAre DEF Distinct
<1>1. Routing!Rest(t, slice) = it[DOMAIN t]
    BY DEF Routing!Rest, Routing!FoldLeft, Routing!MapThenFoldSet, Routing!Max
<1>2. \A T \in SUBSET S : T # {} => c[T] = top(T) /\ c[T] \in S /\ c[T] \in T
  <2> HIDE DEF n
  <2> QED BY <1>0, GreatestsChosen DEF Greatests, Chooses
<1>3. \A k \in S, d \in D : g[<<k, d>>] = round(k, d) OBVIOUS
<1>4. \A k \in S, d \in D : round(k, d) = IF t[k] \in K THEN Append(d, t[k]) ELSE d BY <1>0
<1>5. \A k \in S, d \in D : round(k, d) \in D
  <2>1. \A k \in S, d \in D : Append(d, t[k]) \in D BY <1>0
  <2> HIDE DEF D, n, S
  <2> QED BY <2>1
<1>6. <<>> \in D OBVIOUS
<1>8. {t[k] : k \in S} \cap K = K
  <2>1. \A s \in Stops : \E k \in S : t[k] = s BY TourComplete
  <2> QED BY <2>1
<1> HIDE DEF n, K, D, round, top, g
<1>9. Closed(g, S, D) BY <1>3, <1>5 DEF Closed
<1>10. PICK f \in [SUBSET S -> D] :
             /\ Computes(f, S, <<>>, c, g)
             /\ \E r \in [0..n -> D] : Runs(r, n, <<>>, g) /\ f[S] = r[n]
  <2>1. \E f \in [SUBSET (1..n) -> D] : Looped(f, n, D, <<>>, g) BY <1>0, <1>6, <1>9, Loop
  <2> QED BY <2>1 DEF Looped
<1> HIDE DEF c, S
<1>11. \A T \in SUBSET S : f[T] = IF T = {} THEN <<>> ELSE round(top(T), f[T \ {top(T)}])
  <2> TAKE T \in SUBSET S
  <2>1. CASE T = {} BY <1>10, <2>1 DEF Computes
  <2>2. CASE T # {}
    <3>1. f[T] = g[<<c[T], f[T \ {c[T]}]>>] BY <1>10, <2>2 DEF Computes
    <3>2. T \ {c[T]} \in SUBSET S /\ c[T] = top(T) /\ c[T] \in S BY <1>2, <2>2
    <3>3. f[T \ {c[T]}] \in D BY <3>2
    <3> QED BY <1>3, <2>2, <3>1, <3>2, <3>3
  <2> QED BY <2>1, <2>2
<1>12. f = [T \in SUBSET (DOMAIN t) |-> IF T = {} THEN <<>> ELSE round(top(T), f[T \ {top(T)}])] BY <1>0, <1>11
<1>13. it = [T \in SUBSET (DOMAIN t) |-> IF T = {} THEN <<>> ELSE round(top(T), it[T \ {top(T)}])] BY <1>12
<1>19. \A T \in SUBSET S : it[T] = IF T = {} THEN <<>> ELSE round(top(T), it[T \ {top(T)}]) BY <1>0, <1>13
<1> HIDE DEF it
<1>14. it[S] = f[S]
  <2>1. it[{}] = f[{}] BY <1>11, <1>19
  <2>2. ASSUME NEW T \in SUBSET S, T # {}, it[T \ {c[T]}] = f[T \ {c[T]}] PROVE it[T] = f[T]
    <3>1. c[T] = top(T) BY <1>2, <2>2
    <3> QED BY <1>11, <1>19, <2>2, <3>1
  <2>3. Chooses(c, S) /\ IsFiniteSet(S) BY <1>0, GreatestsChosen DEF c, S
  <2>4. Alike(f, it, S, c) BY <2>1, <2>2 DEF Alike
  <2> QED BY <2>3, <2>4, RecursionUnique
<1>15. PICK r \in [0..n -> D] : Runs(r, n, <<>>, g) /\ f[S] = r[n] BY <1>10
<1>16. Filters(g, n, D, t, K) BY <1>3, <1>4 DEF S, Filters
<1>17. ListsOnce(r[n], {t[k] : k \in 1..n} \cap K) BY <1>0, <1>15, <1>16, Filtered
<1>18. {t[k] : k \in 1..n} \cap K = Stops \ slice BY <1>8 DEF K, S
<1> QED BY <1>0, <1>1, <1>14, <1>15, <1>17, <1>18

\* A slice of one tour and what it leaves of another make a tour.
LEMMA FilledTour ==
    ASSUME NEW p1 \in Routing!Tours, NEW p2 \in Routing!Tours,
           NEW start \in 1..Routing!N, NEW end \in 1..Routing!N, start <= end
    PROVE  Routing!FillRemaining(p1, p2, start, end) \in Routing!Tours
<1> DEFINE n == Routing!N
           I == start..end
           slice == {p1[i] : i \in I}
           q == Routing!Rest(p2, slice)
           w == end - start + 1
           t == Routing!FillRemaining(p1, p2, start, end)
<1>1. /\ n \in Nat /\ IsFiniteSet(Stops) /\ Cardinality(Stops) = n
      /\ p1 \in [1..n -> Stops] /\ \A i, j \in 1..n : p1[i] = p1[j] => i = j
    BY ToursAre
<1>2. w \in Nat /\ start \in 1..n /\ end \in 1..n /\ I \subseteq 1..n BY <1>1
<1>3. IsFiniteSet(I) /\ Cardinality(I) = w BY <1>2, FS_Interval
<1>4. IsFiniteSet(slice) /\ Cardinality(slice) = w
  <2> DEFINE f == [i \in I |-> p1[i]]
  <2>1. f \in [I -> slice] OBVIOUS
  <2>2. f \in Injection(I, slice) BY <1>1, <1>2 DEF Injection, IsInjective
  <2>3. f \in Surjection(I, slice) BY DEF Surjection
  <2> HIDE DEF f, slice, I
  <2> QED BY <1>3, <2>2, <2>3, FS_Surjection
<1>5. slice \subseteq Stops BY <1>1, <1>2
<1>6. t = [i \in 1..n |-> IF i \in I THEN p1[i] ELSE IF i < start THEN q[i] ELSE q[i - w]]
    BY DEF Routing!FillRemaining
<1>7. \A i \in I : p1[i] \in slice OBVIOUS
<1> HIDE DEF slice, q, t, n
<1>8. ListsOnce(q, Stops \ slice) BY RestIs DEF q
<1>9. Len(q) = n - w
  <2>1. IsFiniteSet(Stops \ slice) /\ Cardinality(Stops \ slice) = Cardinality(Stops) - Cardinality(Stops \cap slice)
      BY <1>1, FS_Difference
  <2>2. Stops \cap slice = slice BY <1>5
  <2>3. Len(q) = Cardinality(Stops \ slice) BY <1>8, <2>1, ListLength
  <2> QED BY <1>1, <1>4, <2>1, <2>2, <2>3
<1> DEFINE spot(i) == IF i < start THEN i ELSE i - w
<1>10. \A i \in (1..n) \ I : spot(i) \in 1..Len(q) /\ (i < start \/ i > end) BY <1>1, <1>2, <1>9
<1>11. \A i \in (1..n) \ I : t[i] = q[spot(i)] BY <1>6
<1>12. \A i \in I : i \in 1..n /\ t[i] = p1[i] BY <1>2, <1>6
<1>13. \A i \in (1..n) \ I : t[i] \in Stops \ slice BY <1>8, <1>10, <1>11 DEF ListsOnce
<1>14. t \in [1..n -> Stops]
  <2>1. \A i \in 1..n : t[i] \in Stops BY <1>5, <1>7, <1>12, <1>13
  <2> QED BY <1>6, <2>1
<1>15. ASSUME NEW i \in 1..n, NEW j \in 1..n, t[i] = t[j] PROVE i = j
  <2>1. CASE i \in I /\ j \in I BY <1>1, <1>12, <1>15, <2>1
  <2>2. CASE i \in I /\ j \notin I BY <1>7, <1>12, <1>13, <1>15, <2>2
  <2>3. CASE i \notin I /\ j \in I BY <1>7, <1>12, <1>13, <1>15, <2>3
  <2>4. CASE i \notin I /\ j \notin I
    <3>3. spot(i) \in 1..Len(q) /\ spot(j) \in 1..Len(q) BY <1>10, <2>4
    <3>4. q[spot(i)] = q[spot(j)] BY <1>11, <1>15, <2>4
    <3>1. spot(i) = spot(j)
      <4> HIDE DEF spot
      <4> QED BY <1>8, <3>3, <3>4 DEF ListsOnce
    <3>2. (i < start \/ i > end) /\ (j < start \/ j > end) BY <1>10, <2>4
    <3> QED BY <1>1, <1>2, <3>1, <3>2
  <2> QED BY <2>1, <2>2, <2>3, <2>4
<1> QED BY <1>14, <1>15, ToursAre DEF n, t

-----------------------------------------------------------------------------
(* What the generations keep (RoutingAlgorithms).                          *)

GeneticVars == <<heap, population, offspring, phase, generation>>

Routes == [stops : Routing!Tours \cup {<<>>}, length : Int]

Toured(h, r) == h[r].stops \in Routing!Tours

GeneticHolds ==
    /\ heap \in [Routing!Pointers -> Routes]
    /\ generation \in 0..Generations
    /\ phase \in {"initialize", "select", "cross", "mutate", "replace"}
    /\ phase = "initialize" => population = <<>>
    /\ phase # "initialize" =>
         /\ population \in [1..Population -> 1..Population]
         /\ \A i \in 1..Population : Toured(heap, population[i])
    /\ phase \in {"initialize", "select"} => offspring = <<>>
    /\ phase \in {"cross", "mutate", "replace"} =>
         /\ generation < Generations
         /\ offspring \in [1..Population -> Routing!Pointers]
         /\ \A i \in 1..Population : Toured(heap, offspring[i])
    /\ phase = "cross" => \A i \in 1..Population : offspring[i] \in 1..Population

\* Heaps in which what was a route is one.
Heaps == {h \in [Routing!Pointers -> Routes] : \A r \in Routing!Pointers : Toured(heap, r) => Toured(h, r)}

\* What mutation leaves behind the pointers.
LEMMA MutatedIs ==
    ASSUME GeneticHolds, phase = "mutate", NEW cut \in [1..Population -> Routing!Cuts]
    PROVE  Routing!Mutated(cut) \in Heaps
<1> DEFINE n == Population
           S == 1..n
           D == Heaps
           c == Greatests(n)
           top(T) == CHOOSE x \in T : \A y \in T : x >= y
           p == [i \in DOMAIN cut |-> i]
           round(k, d) == [d EXCEPT ![offspring[p[k]]].stops = Routing!Swap(@, cut[p[k]][1], cut[p[k]][2])]
           g == [z \in S \X D |-> round(z[1], z[2])]
           it == CHOOSE f : f = [T \in SUBSET (DOMAIN p) |-> IF T = {} THEN heap ELSE round(top(T), f[T \ {top(T)}])]
<1>0. DOMAIN p = S /\ n \in Nat /\ \A k \in S : p[k] = k BY DetoursAre
<1>1. Routing!Mutated(cut) = it[DOMAIN p]
    BY DEF Routing!Mutated, Routing!FoldLeftDomain, Routing!FoldLeft, Routing!MapThenFoldSet, Routing!Max
<1>2. \A T \in SUBSET S : T # {} => c[T] = top(T) /\ c[T] \in S /\ c[T] \in T
  <2> HIDE DEF n, p
  <2> QED BY <1>0, GreatestsChosen DEF Greatests, Chooses
<1>3. \A k \in S, d \in D : g[<<k, d>>] = round(k, d) OBVIOUS
<1>4. ASSUME NEW k \in S, NEW d \in D PROVE round(k, d) \in D
  <2> DEFINE r == offspring[k]
             old == d[r].stops
             new == Routing!Swap(old, cut[k][1], cut[k][2])
             e == round(k, d)
  <2>1. r \in Routing!Pointers /\ Toured(heap, r) BY DEF GeneticHolds
  <2>2. d \in [Routing!Pointers -> Routes] /\ old \in Routing!Tours BY <2>1 DEF Heaps, Toured
  <2>3. cut[k] \in Routing!Cuts OBVIOUS
  <2>4. cut[k][1] \in 1..Routing!N /\ cut[k][2] \in 1..Routing!N BY <2>3 DEF Routing!Cuts
  <2>5. new \in Routing!Tours
    <3> HIDE DEF old
    <3> QED BY <2>2, <2>4, TourSwapped
  <2>6. e = [d EXCEPT ![r].stops = new] BY <1>0
  <2> HIDE DEF e, new, old, round, p
  <2>7. d[r] \in Routes BY <2>1, <2>2
  <2>8. [d[r] EXCEPT !.stops = new] \in Routes /\ [d[r] EXCEPT !.stops = new].stops = new
      BY <2>5, <2>7 DEF Routes
  <2>9. e \in [Routing!Pointers -> Routes] BY <2>1, <2>2, <2>6, <2>8
  <2>10. \A x \in Routing!Pointers : e[x] = IF x = r THEN [d[r] EXCEPT !.stops = new] ELSE d[x]
      BY <2>1, <2>2, <2>6
  <2>11. \A x \in Routing!Pointers : Toured(heap, x) => Toured(e, x)
      BY <2>5, <2>8, <2>10 DEF Heaps, Toured
  <2>12. e \in Heaps BY <2>9, <2>11 DEF Heaps
  <2> QED BY <2>12 DEF e
<1>5. heap \in D BY DEF GeneticHolds, Heaps
<1> HIDE DEF n, D, round, top, g, p
<1>6. Closed(g, S, D) BY <1>3, <1>4 DEF Closed
<1>7. PICK f \in [SUBSET S -> D] :
             /\ Computes(f, S, heap, c, g)
             /\ \E r \in [0..n -> D] : Runs(r, n, heap, g) /\ f[S] = r[n]
  <2>1. \E f \in [SUBSET (1..n) -> D] : Looped(f, n, D, heap, g) BY <1>0, <1>5, <1>6, Loop
  <2> QED BY <2>1 DEF Looped
<1> HIDE DEF c, S
<1>8. \A T \in SUBSET S : f[T] = IF T = {} THEN heap ELSE round(top(T), f[T \ {top(T)}])
  <2> TAKE T \in SUBSET S
  <2>1. CASE T = {} BY <1>7, <2>1 DEF Computes
  <2>2. CASE T # {}
    <3>1. f[T] = g[<<c[T], f[T \ {c[T]}]>>] BY <1>7, <2>2 DEF Computes
    <3>2. T \ {c[T]} \in SUBSET S /\ c[T] = top(T) /\ c[T] \in S BY <1>2, <2>2
    <3>3. f[T \ {c[T]}] \in D BY <3>2
    <3> QED BY <1>3, <2>2, <3>1, <3>2, <3>3
  <2> QED BY <2>1, <2>2
<1>9. f = [T \in SUBSET (DOMAIN p) |-> IF T = {} THEN heap ELSE round(top(T), f[T \ {top(T)}])] BY <1>0, <1>8
<1>10. it = [T \in SUBSET (DOMAIN p) |-> IF T = {} THEN heap ELSE round(top(T), it[T \ {top(T)}])] BY <1>9
<1>11. \A T \in SUBSET S : it[T] = IF T = {} THEN heap ELSE round(top(T), it[T \ {top(T)}]) BY <1>0, <1>10
<1> HIDE DEF it
<1>12. it[S] = f[S]
  <2>1. it[{}] = f[{}] BY <1>8, <1>11
  <2>2. ASSUME NEW T \in SUBSET S, T # {}, it[T \ {c[T]}] = f[T \ {c[T]}] PROVE it[T] = f[T]
    <3>1. c[T] = top(T) BY <1>2, <2>2
    <3> QED BY <1>8, <1>11, <2>2, <3>1
  <2>3. Chooses(c, S) /\ IsFiniteSet(S) BY <1>0, GreatestsChosen DEF c, S
  <2>4. Alike(f, it, S, c) BY <2>1, <2>2 DEF Alike
  <2> QED BY <2>3, <2>4, RecursionUnique
<1>13. f[S] \in D OBVIOUS
<1> QED BY <1>0, <1>1, <1>12, <1>13 DEF D

LEMMA GeneticSteps ==
    ASSUME Unbounded
    PROVE  /\ subject' = subject
           /\ subject # "genetic" => UNCHANGED GeneticVars
           /\ subject = "genetic" => Routing!GeneticNext
BY DEF Unbounded, Calls, World, Faults, Steps, Frame, GeneticVars

LEMMA PopulationBounds ==
    /\ Population \in Nat \ {0} /\ Elitism \in Nat \ {0} /\ Generations \in Nat
    /\ \A tour \in [1..Cardinality(Stops) -> Stops] : BuiltLength(tour) \in Int
BY DetoursAre

LEMMA RoutesAre ==
    /\ Routing!Free \in Routes
    /\ \A t \in Routing!Tours, l \in Int : [stops |-> t, length |-> l] \in Routes
    /\ \A i \in 1..Population : i \in Routing!Pointers /\ Population + i \in Routing!Pointers
    /\ \A t \in Routing!Tours : BuiltLength(t) \in Int
<1>1. \A t \in Routing!Tours : BuiltLength(t) \in Int BY PopulationBounds, ToursAre
<1>2. \A i \in 1..Population : i \in Routing!Pointers /\ Population + i \in Routing!Pointers
    BY PopulationBounds DEF Routing!Pointers
<1> QED BY <1>1, <1>2 DEF Routes, Routing!Free

LEMMA InitializeStep ==
    ASSUME GeneticHolds, Routing!InitializePopulation
    PROVE  GeneticHolds'
<1>1. PICK tours \in [1..Population -> Routing!Tours] :
         heap' = [r \in Routing!Pointers |->
                    IF r <= Population
                      THEN [stops |-> tours[r], length |-> BuiltLength(tours[r])]
                      ELSE Routing!Free]
    BY DEF Routing!InitializePopulation
<1>2. /\ population' = [i \in 1..Population |-> i] /\ phase' = "select"
      /\ UNCHANGED <<offspring, generation>> /\ offspring = <<>>
    BY DEF Routing!InitializePopulation, GeneticHolds
<1>3. ASSUME NEW r \in Routing!Pointers
      PROVE  heap'[r] \in Routes /\ (r \in 1..Population => Toured(heap', r))
  <2>1. r \in Nat \ {0} BY PopulationBounds DEF Routing!Pointers
  <2>2. CASE r <= Population
    <3>1. r \in 1..Population BY <2>1, <2>2, PopulationBounds
    <3>2. tours[r] \in Routing!Tours BY <3>1
    <3>3. heap'[r] = [stops |-> tours[r], length |-> BuiltLength(tours[r])] BY <1>1, <2>2
    <3> QED BY <3>2, <3>3, RoutesAre DEF Toured
  <2>3. CASE ~(r <= Population)
    <3>1. heap'[r] = Routing!Free BY <1>1, <2>3
    <3>2. r \notin 1..Population BY <2>3, PopulationBounds
    <3> QED BY <3>1, <3>2, RoutesAre
  <2> QED BY <2>2, <2>3
<1>4. heap' \in [Routing!Pointers -> Routes] BY <1>1, <1>3
<1>5. population' \in [1..Population -> 1..Population] BY <1>2
<1>6. \A i \in 1..Population : Toured(heap', population'[i]) BY <1>2, <1>3, RoutesAre
<1> QED BY <1>2, <1>4, <1>5, <1>6 DEF GeneticHolds

LEMMA SelectStep ==
    ASSUME GeneticHolds, Routing!Select
    PROVE  GeneticHolds'
<1>1. /\ phase = "select" /\ phase' = "cross" /\ generation < Generations
      /\ offspring' \in [1..Population -> Routing!ToSet(population)]
      /\ UNCHANGED <<heap, population, generation>>
    BY DEF Routing!Select
<1>2. /\ population \in [1..Population -> 1..Population]
      /\ \A i \in 1..Population : Toured(heap, population[i])
    BY <1>1 DEF GeneticHolds
<1>3. \A r \in Routing!ToSet(population) : r \in 1..Population /\ Toured(heap, r)
    BY <1>2 DEF Routing!ToSet
<1>4. \A i \in 1..Population : offspring'[i] \in 1..Population /\ Toured(heap, offspring'[i])
    BY <1>1, <1>3
<1>5. offspring' \in [1..Population -> Routing!Pointers] BY <1>1, <1>4, RoutesAre
<1> QED BY <1>1, <1>2, <1>4, <1>5 DEF GeneticHolds

LEMMA CrossStep ==
    ASSUME GeneticHolds, Routing!Cross
    PROVE  GeneticHolds'
<1>1. PICK pairs \in SUBSET {i \in 1..(Population - 1) : i % 2 = 1} : \E cut \in [pairs -> Routing!Cuts] :
         LET parent(i) == heap[offspring[i]].stops
             child(i) == IF i \in pairs
                           THEN Routing!Child(parent(i), parent(i + 1), cut[i][1], cut[i][2])
                           ELSE Routing!Child(parent(i), parent(i - 1), cut[i - 1][1], cut[i - 1][2])
             born == pairs \cup {i + 1 : i \in pairs}
         IN  /\ heap' = [r \in Routing!Pointers |->
                           IF r - Population \in born THEN child(r - Population) ELSE heap[r]]
             /\ offspring' = [i \in 1..Population |->
                                IF i \in born THEN Population + i ELSE offspring[i]]
    BY DEF Routing!Cross
<1> DEFINE parent(i) == heap[offspring[i]].stops
           born == pairs \cup {i + 1 : i \in pairs}
<1>2. PICK cut \in [pairs -> Routing!Cuts] :
         /\ heap' = [r \in Routing!Pointers |->
              IF r - Population \in born
                THEN IF r - Population \in pairs
                     THEN Routing!Child(parent(r - Population), parent(r - Population + 1),
                                        cut[r - Population][1], cut[r - Population][2])
                     ELSE Routing!Child(parent(r - Population), parent(r - Population - 1),
                                        cut[r - Population - 1][1], cut[r - Population - 1][2])
                ELSE heap[r]]
         /\ offspring' = [i \in 1..Population |->
                                IF i \in born THEN Population + i ELSE offspring[i]]
    BY <1>1
<1>3. /\ phase = "cross" /\ phase' = "mutate" /\ UNCHANGED <<population, generation>>
      /\ generation < Generations
      /\ population \in [1..Population -> 1..Population]
      /\ heap \in [Routing!Pointers -> Routes]
      /\ \A i \in 1..Population : /\ Toured(heap, population[i]) /\ Toured(heap, offspring[i])
                                  /\ offspring[i] \in 1..Population
    BY DEF Routing!Cross, GeneticHolds
<1>4. Population \in Nat \ {0} BY PopulationBounds
<1>5. \A i \in pairs : i \in 1..Population /\ i + 1 \in 1..Population BY <1>4
<1>6. born \subseteq 1..Population BY <1>5
<1>7. \A i \in 1..Population : parent(i) \in Routing!Tours BY <1>3 DEF Toured
<1> HIDE DEF parent
<1>8. ASSUME NEW a \in 1..Population, NEW b \in 1..Population, NEW i \in pairs
      PROVE  /\ Routing!Child(parent(a), parent(b), cut[i][1], cut[i][2]) \in Routes
             /\ Routing!Child(parent(a), parent(b), cut[i][1], cut[i][2]).stops \in Routing!Tours
  <2>1. cut[i] \in Routing!Cuts OBVIOUS
  <2>2. cut[i][1] \in 1..Routing!N /\ cut[i][2] \in 1..Routing!N /\ cut[i][1] <= cut[i][2]
      BY <2>1 DEF Routing!Cuts
  <2>3. Routing!FillRemaining(parent(a), parent(b), cut[i][1], cut[i][2]) \in Routing!Tours
      BY <1>7, <2>2, FilledTour
  <2> QED BY <2>3, RoutesAre DEF Routing!Child
<1>9. ASSUME NEW r \in Routing!Pointers
      PROVE  /\ heap'[r] \in Routes
             /\ r \in 1..Population => heap'[r] = heap[r]
             /\ r - Population \in born => Toured(heap', r)
  <2>0. r \in Nat BY <1>4 DEF Routing!Pointers
  <2>1. CASE r - Population \in born
    <3> DEFINE i == r - Population
    <3>1. i \in 1..Population /\ r \notin 1..Population BY <1>4, <1>6, <2>0, <2>1
    <3>2. CASE i \in pairs
      <4>1. heap'[r] = Routing!Child(parent(i), parent(i + 1), cut[i][1], cut[i][2]) BY <1>2, <2>1, <3>2
      <4>2. i + 1 \in 1..Population BY <1>5, <3>2
      <4> HIDE DEF i
      <4> QED BY <1>8, <3>1, <3>2, <4>1, <4>2 DEF Toured
    <3>3. CASE i \notin pairs
      <4>1. heap'[r] = Routing!Child(parent(i), parent(i - 1), cut[i - 1][1], cut[i - 1][2]) BY <1>2, <2>1, <3>3
      <4>2. PICK k \in pairs : i = k + 1 BY <2>1, <3>3
      <4>3. i - 1 = k /\ k \in 1..Population BY <1>5, <4>2
      <4> HIDE DEF i
      <4> QED BY <1>8, <3>1, <4>1, <4>3 DEF Toured
    <3> QED BY <3>2, <3>3
  <2>2. CASE r - Population \notin born
    <3>1. heap'[r] = heap[r] BY <1>2, <2>2
    <3> QED BY <1>3, <2>2, <3>1
  <2> QED BY <2>1, <2>2
<1>10. heap' \in [Routing!Pointers -> Routes] BY <1>2, <1>9
<1>11. \A i \in 1..Population : Toured(heap', population[i]) BY <1>3, <1>9, RoutesAre DEF Toured
<1>12. ASSUME NEW i \in 1..Population
       PROVE  offspring'[i] \in Routing!Pointers /\ Toured(heap', offspring'[i])
  <2>1. CASE i \in born
    <3>1. offspring'[i] = Population + i /\ Population + i \in Routing!Pointers BY <1>2, <2>1, RoutesAre
    <3>2. (Population + i) - Population = i BY <1>4
    <3> QED BY <1>9, <2>1, <3>1, <3>2
  <2>2. CASE i \notin born
    <3>1. offspring'[i] = offspring[i] BY <1>2, <2>2
    <3> QED BY <1>3, <1>9, <3>1, RoutesAre DEF Toured
  <2> QED BY <2>1, <2>2
<1>13. offspring' \in [1..Population -> Routing!Pointers] BY <1>2, <1>12
<1> QED BY <1>3, <1>10, <1>11, <1>12, <1>13 DEF GeneticHolds

LEMMA MutateStep ==
    ASSUME GeneticHolds, Routing!Mutate
    PROVE  GeneticHolds'
<1>1. PICK cut \in [1..Population -> Routing!Cuts] : heap' = Routing!Mutated(cut) BY DEF Routing!Mutate
<1>2. /\ phase = "mutate" /\ phase' = "replace" /\ UNCHANGED <<population, offspring, generation>>
      /\ generation < Generations
      /\ population \in [1..Population -> 1..Population]
      /\ offspring \in [1..Population -> Routing!Pointers]
      /\ \A i \in 1..Population : Toured(heap, population[i]) /\ Toured(heap, offspring[i])
    BY DEF Routing!Mutate, GeneticHolds
<1>3. heap' \in Heaps BY <1>1, <1>2, MutatedIs
<1>4. heap' \in [Routing!Pointers -> Routes] BY <1>3 DEF Heaps
<1>5. \A i \in 1..Population : Toured(heap', population[i]) /\ Toured(heap', offspring[i])
    BY <1>2, <1>3, RoutesAre DEF Heaps
<1> QED BY <1>2, <1>4, <1>5 DEF GeneticHolds

-----------------------------------------------------------------------------
(* The elite that is kept (RoutingAlgorithms).                             *)

\* What a list of n has are at most n.
LEMMA Images ==
    ASSUME NEW n \in Nat, NEW T, NEW f \in [1..n -> T]
    PROVE  /\ IsFiniteSet({f[i] : i \in 1..n}) /\ Cardinality({f[i] : i \in 1..n}) \in Nat
           /\ Cardinality({f[i] : i \in 1..n}) <= n
<1> DEFINE I == 1..n
           R == {f[i] : i \in I}
<1>1. IsFiniteSet(I) /\ Cardinality(I) = n BY FS_Interval
<1>2. f \in Surjection(I, R) BY DEF Surjection
<1> HIDE DEF I, R
<1>3. IsFiniteSet(R) /\ Cardinality(R) <= Cardinality(I) BY <1>1, <1>2, FS_Surjection
<1>4. Cardinality(R) \in Nat BY <1>3, FS_CardinalityType
<1> QED BY <1>1, <1>3, <1>4 DEF I, R

\* Replacement puts each of the next generation somewhere, and the fittest so
\* far at the head.
LEMMA Replaced ==
    ASSUME GeneticHolds, Routing!Replace
    PROVE  /\ heap' \in [Routing!Pointers -> Routes]
           /\ population' \in [1..Population -> 1..Population]
           /\ \A i \in 1..Population : Toured(heap', population'[i])
           /\ \E b \in 1..Population :
                /\ \A i \in 1..Population : heap[population[b]].length <= heap[population[i]].length
                /\ heap'[population'[1]].length = heap[population[b]].length
<1>1. PICK order \in Routing!SetToSeqs(1..Population) :
         /\ Routing!Ranked(order)
         /\ LET next == [i \in 1..Population |->
                           IF i <= Elitism THEN population[order[i]] ELSE offspring[i - Elitism]]
                kept == Routing!SetToSeq(Routing!ToSet(next))
                place1(r) == CHOOSE k \in DOMAIN kept : kept[k] = r
            IN  /\ heap' = [k \in Routing!Pointers |-> IF k \in DOMAIN kept THEN heap[kept[k]] ELSE Routing!Free]
                /\ population' = [i \in 1..Population |-> place1(next[i])]
    BY DEF Routing!Replace
<1> DEFINE next == [i \in 1..Population |->
                      IF i <= Elitism THEN population[order[i]] ELSE offspring[i - Elitism]]
           S == {next[i] : i \in 1..Population}
           m == Cardinality(S)
           kept == Routing!SetToSeq(Routing!ToSet(next))
<1>2. Population \in Nat \ {0} /\ Elitism \in Nat \ {0} BY PopulationBounds
<1>3. /\ population \in [1..Population -> 1..Population]
      /\ offspring \in [1..Population -> Routing!Pointers]
      /\ \A i \in 1..Population : Toured(heap, population[i]) /\ Toured(heap, offspring[i])
      /\ heap \in [Routing!Pointers -> Routes]
    BY DEF Routing!Replace, GeneticHolds
<1>4. /\ order \in [1..Population -> 1..Population]
      /\ \A i, j \in 1..Population : order[i] = order[j] => i = j
  <2>1. Routing!Cardinality(1..Population) = Population
    <3>1. Routing!Cardinality(1..Population) = Cardinality(1..Population)
        BY DEF Routing!Cardinality, Cardinality
    <3>2. Cardinality(1..Population) = Population BY <1>2, FS_Interval
    <3> QED BY <3>1, <3>2
  <2>2. Routing!SetToSeqs(1..Population) =
          {f \in [1..Population -> 1..Population] : \A i, j \in 1..Population : i # j => f[i] # f[j]}
      BY <2>1 DEF Routing!SetToSeqs
  <2> QED BY <2>2
<1>5. \A r \in 1..Population : \E i \in 1..Population : order[i] = r
  <2> DEFINE I == 1..Population
  <2>1. IsFiniteSet(I) /\ Cardinality(I) = Population BY <1>2, FS_Interval
  <2>2. order \in [1..Cardinality(I) -> I] /\ \A a, b \in 1..Cardinality(I) : order[a] = order[b] => a = b
      BY <1>4, <2>1
  <2> HIDE DEF I
  <2>3. \A s \in I : \E i \in 1..Cardinality(I) : order[i] = s BY <2>1, <2>2, Enumerated
  <2> QED BY <2>1, <2>3 DEF I
<1>6. ASSUME NEW i \in 1..Population
      PROVE  next[i] \in Routing!Pointers /\ Toured(heap, next[i])
  <2>1. CASE i <= Elitism
    <3>1. order[i] \in 1..Population /\ next[i] = population[order[i]] BY <1>4, <2>1
    <3> HIDE DEF next
    <3> QED BY <1>3, <3>1, RoutesAre
  <2>2. CASE ~(i <= Elitism)
    <3>1. i - Elitism \in 1..Population /\ next[i] = offspring[i - Elitism] BY <1>2, <2>2
    <3> HIDE DEF next
    <3> QED BY <1>3, <3>1
  <2> QED BY <2>1, <2>2
<1>7. next[1] = population[order[1]] /\ 1 \in 1..Population BY <1>2
<1>8. next \in [1..Population -> Routing!Pointers] BY <1>6
<1>9. kept = SetToSeq(S)
  <2>1. Routing!ToSet(next) = S BY DEF Routing!ToSet
  <2>2. Routing!Cardinality(S) = Cardinality(S) BY DEF Routing!Cardinality, Cardinality
  <2> HIDE DEF S, next
  <2> QED BY <2>1, <2>2 DEF Routing!SetToSeq, SetToSeq, Routing!IsInjective, IsInjective
<1> DEFINE spot(r) == CHOOSE k \in DOMAIN kept : kept[k] = r
<1>10. /\ heap' = [k \in Routing!Pointers |-> IF k \in DOMAIN kept THEN heap[kept[k]] ELSE Routing!Free]
       /\ population' = [i \in 1..Population |-> spot(next[i])]
    BY <1>1
<1> HIDE DEF kept, next
<1>11. IsFiniteSet(S) /\ m \in Nat /\ m <= Population BY <1>2, <1>8, Images
<1>12. \A i \in 1..Population : next[i] \in S OBVIOUS
<1>13. \A r \in S : r \in Routing!Pointers /\ Toured(heap, r) BY <1>6
<1> HIDE DEF S
<1>14. /\ kept \in [1..m -> S]
       /\ \A r \in S : \E i \in 1..m : kept[i] = r
    BY <1>9, <1>11, Enumeration
<1> HIDE DEF m
<1>15. \A r \in S : spot(r) \in 1..m /\ kept[spot(r)] = r BY <1>14
<1> HIDE DEF spot
<1>16. \A k \in 1..m : k \in 1..Population /\ k \in Routing!Pointers BY <1>2, <1>11, RoutesAre
<1>17. \A k \in 1..m : heap'[k] = heap[kept[k]] BY <1>10, <1>14, <1>16
<1>18. \A i \in 1..Population : population'[i] \in 1..m /\ heap'[population'[i]] = heap[next[i]]
  <2> TAKE i \in 1..Population
  <2>1. population'[i] = spot(next[i]) /\ next[i] \in S BY <1>10, <1>12
  <2>2. population'[i] \in 1..m /\ kept[population'[i]] = next[i] BY <1>15, <2>1
  <2> QED BY <1>17, <2>2
<1>19. population' \in [1..Population -> 1..Population] BY <1>10, <1>16, <1>18
<1>20. \A i \in 1..Population : Toured(heap', population'[i]) BY <1>6, <1>18 DEF Toured
<1>21. heap' \in [Routing!Pointers -> Routes]
  <2>1. \A k \in Routing!Pointers : heap'[k] \in Routes
    <3> TAKE k \in Routing!Pointers
    <3>1. CASE k \in 1..m
      <4>1. heap'[k] = heap[kept[k]] /\ kept[k] \in Routing!Pointers BY <1>13, <1>14, <1>17, <3>1
      <4> QED BY <1>3, <4>1
    <3>2. CASE k \notin 1..m
      <4>1. heap'[k] = Routing!Free BY <1>10, <1>14, <3>2
      <4> QED BY <4>1, RoutesAre
    <3> QED BY <3>1, <3>2
  <2> QED BY <1>10, <2>1
<1>22. order[1] \in 1..Population /\ heap'[population'[1]] = heap[population[order[1]]]
    BY <1>4, <1>7, <1>18
<1>23. \A i \in 1..Population : heap[population[order[1]]].length <= heap[population[i]].length
  <2> TAKE i \in 1..Population
  <2>1. PICK j \in 1..Population : order[j] = i BY <1>5
  <2>2. CASE j = 1
    <3>1. heap[population[i]] \in Routes BY <1>3, RoutesAre
    <3>2. heap[population[i]].length \in Int BY <3>1 DEF Routes
    <3> QED BY <2>1, <2>2, <3>2
  <2>3. CASE j # 1
    <3>1. 1 < j BY <1>2, <2>3
    <3> QED BY <1>1, <1>7, <2>1, <3>1 DEF Routing!Ranked
  <2> QED BY <2>2, <2>3
<1> QED BY <1>19, <1>20, <1>21, <1>22, <1>23

LEMMA ReplaceStep ==
    ASSUME GeneticHolds, Routing!Replace
    PROVE  GeneticHolds'
<1>1. /\ offspring' = <<>> /\ phase' = "select" /\ generation' = generation + 1
      /\ generation \in 0..Generations /\ generation < Generations
    BY DEF Routing!Replace, GeneticHolds
<1>2. generation' \in 0..Generations BY <1>1, PopulationBounds
<1> QED BY <1>1, <1>2, Replaced DEF GeneticHolds

LEMMA GeneticStep ==
    ASSUME GeneticHolds, Unbounded
    PROVE  GeneticHolds'
<1>1. CASE subject # "genetic"
  <2>1. UNCHANGED GeneticVars BY <1>1, GeneticSteps
  <2> QED BY <2>1 DEF GeneticHolds, GeneticVars, Toured
<1>2. CASE subject = "genetic"
    BY <1>2, GeneticSteps, InitializeStep, SelectStep, CrossStep, MutateStep, ReplaceStep
       DEF Routing!GeneticNext
<1> QED BY <1>1, <1>2

LEMMA GeneticStutter ==
    ASSUME GeneticHolds, UNCHANGED GeneticVars
    PROVE  GeneticHolds'
BY DEF GeneticHolds, GeneticVars, Toured

LEMMA GeneticInit == LibrariesInit => GeneticHolds
<1> SUFFICES ASSUME LibrariesInit PROVE GeneticHolds OBVIOUS
<1>1. /\ heap = [r \in Routing!Pointers |-> Routing!Free]
      /\ population = <<>> /\ offspring = <<>> /\ phase = "initialize" /\ generation = 0
    BY DEF LibrariesInit, Routing!Init, Routing!GeneticInit
<1>2. heap \in [Routing!Pointers -> Routes] BY <1>1, RoutesAre
<1>3. 0 \in 0..Generations BY PopulationBounds
<1> QED BY <1>1, <1>2, <1>3 DEF GeneticHolds

LEMMA GeneticSound == GeneticHolds => Routing!EachStopOnce /\ Routing!GeneticTypeOK
<1> SUFFICES ASSUME GeneticHolds PROVE Routing!EachStopOnce /\ Routing!GeneticTypeOK OBVIOUS
<1>1. \A r \in Routing!Used : Toured(heap, r)
  <2>1. \A r \in Routing!ToSet(population) : Toured(heap, r)
    <3>1. CASE phase = "initialize" BY <3>1 DEF GeneticHolds, Routing!ToSet
    <3>2. CASE phase # "initialize" BY <3>2 DEF GeneticHolds, Routing!ToSet
    <3> QED BY <3>1, <3>2
  <2>2. \A r \in Routing!ToSet(offspring) : Toured(heap, r)
    <3>1. CASE phase \in {"initialize", "select"} BY <3>1 DEF GeneticHolds, Routing!ToSet
    <3>2. CASE phase \notin {"initialize", "select"} BY <3>2 DEF GeneticHolds, Routing!ToSet
    <3> QED BY <3>1, <3>2
  <2> QED BY <2>1, <2>2 DEF Routing!Used
<1>2. Routing!EachStopOnce BY <1>1, TourComplete DEF Routing!EachStopOnce, Toured
<1>3. \A r \in Routing!Pointers : heap[r].stops \in Routing!Tours \cup {<<>>}
  <2> TAKE r \in Routing!Pointers
  <2>1. heap[r] \in Routes BY DEF GeneticHolds
  <2> QED BY <2>1 DEF Routes
<1>4. population \in Seq(Routing!Pointers)
  <2>1. CASE phase = "initialize" BY <2>1 DEF GeneticHolds
  <2>2. CASE phase # "initialize"
    <3>1. population \in [1..Population -> Routing!Pointers] BY <2>2, RoutesAre DEF GeneticHolds
    <3>2. Population \in Nat BY PopulationBounds
    <3> HIDE DEF Routing!Pointers
    <3>3. \A T : \A f \in [1..Population -> T] : f \in Seq(T) BY <3>2
    <3> QED BY <3>1, <3>3
  <2> QED BY <2>1, <2>2
<1>5. generation \in 0..Generations BY DEF GeneticHolds
<1> QED BY <1>2, <1>3, <1>4, <1>5 DEF Routing!GeneticTypeOK

-----------------------------------------------------------------------------
(* All of them.                                                            *)

LimitsIInv ==
    /\ OtpIInv
    /\ LimiterIInv /\ WindowIInv /\ BucketIInv
    /\ ReviewIInv
    /\ NotificationIInv
    /\ FirstIInv

LEMMA LimitsInit == LibrariesInit => LimitsIInv
<1> SUFFICES ASSUME LibrariesInit PROVE LimitsIInv
    OBVIOUS
<1> USE LimitsAre DEF LibrariesInit
<1>1. call = [p \in Procs |-> Idle] /\ \A p \in Procs : call[p] = Idle /\ call[p].pc = "idle"
    BY DEF Auth!Init, Auth!OtpInit, Auth!Idle, Idle
<1>2. One BY <1>1 DEF One
<1>3. OtpIInv
  <2>1. Checked = {} BY <1>1 DEF Checked
  <2>2. Cardinality(Checked) = 0 BY <2>1, FS_EmptySet
  <2>3. requests = Auth!NoKey /\ failures = Auth!NoKey /\ cooldown = FALSE
      BY DEF Auth!Init, Auth!OtpInit
  <2>4. /\ requests \in Counter /\ failures \in Counter /\ requests.n = 0 /\ failures.n = 0
      BY <2>3, Counters
  <2>5. Cardinality(Procs) \in Nat /\ MaxRequests \in Nat \ {0} BY GoroutinesFinite
  <2>6. 0 + 0 <= MaxRequests + Cardinality(Procs) - 1 BY <2>5
  <2>7. OtpHolds BY <1>1, <2>2, <2>4, <2>6 DEF OtpHolds, Expiring
  <2> QED BY <2>3, <2>4, <2>7 DEF OtpIInv
<1>4. LimiterIInv
  <2>1. current = 0 /\ limiterServed = 0 /\ expires = FALSE BY DEF Limiters!Init, Limiters!LimiterInit
  <2>2. expires \in BOOLEAN BY <2>1
  <2>3. LimiterHolds BY <1>1, <2>1 DEF LimiterHolds
  <2> QED BY <2>1, <2>2, <2>3 DEF LimiterIInv
<1>5. WindowIInv
  <2>1. windowNow = SlidingWindow /\ seconds = {} /\ windowAsked = {} /\ windowRefused = {}
      BY DEF Limiters!Init, Limiters!SlidingInit
  <2>2. windowNow \in 0..SlidingMaxTime BY <2>1, SlidingAssumption
  <2>3. WindowTyped BY <1>1, <2>1, <2>2 DEF WindowTyped
  <2> QED BY <1>1, <1>2, <2>1, <2>3 DEF WindowIInv, WindowHolds
<1>6. BucketIInv
  <2>1. /\ bucketNow = 0 /\ bucketServed = [t \in -1..BucketMaxTime |-> 0]
        /\ bucket = [tokens |-> Capacity, at |-> 0]
        /\ BucketMaxTime \in Nat /\ Capacity \in Nat
      BY DEF Limiters!Init, Limiters!BucketInit, Limiters!NoBucket
  <2>2. /\ 0 \in 0..BucketMaxTime /\ bucket \in Tokens /\ bucket.at = 0 /\ bucket.tokens = Capacity
        /\ bucketServed \in [-1..BucketMaxTime -> Nat]
        /\ \A t \in -1..BucketMaxTime : bucketServed[t] = 0
      BY <2>1 DEF Tokens
  <2>3. BucketTyped BY <1>1, <2>1, <2>2 DEF BucketTyped
  <2>4. QuietAfter(0) BY <2>1, <2>2 DEF QuietAfter
  <2>5. bucketServed[0] = 0 /\ bucketServed[-1] = 0 /\ Refilled(0) = 0
    <3>1. 0 \in -1..BucketMaxTime /\ -1 \in -1..BucketMaxTime BY <2>1
    <3> QED BY <2>2, <3>1, RefilledNat
  <2>6. Funded(Capacity, 0)
    <3>1. SUFFICES ASSUME NEW t \in 0..0
                   PROVE  bucketServed[0] - bucketServed[t - 1] + Capacity <= Capacity + Refilled(0 - t)
        BY DEF Funded
    <3>2. t = 0 OBVIOUS
    <3>3. t - 1 = -1 /\ 0 - t = 0 BY <3>2
    <3> QED BY <2>1, <2>5, <3>3
  <2>7. Budgeted
    <3>1. SUFFICES ASSUME NEW t \in 0..0, NEW u \in t..0
                   PROVE  bucketServed[u] - bucketServed[t - 1] <= Capacity + Refilled(u - t)
        BY <2>1 DEF Budgeted
    <3>2. u = 0 /\ t - 1 = -1 /\ u - t = 0 OBVIOUS
    <3> QED BY <2>1, <2>5, <3>2
  <2> QED BY <1>1, <1>2, <2>1, <2>2, <2>3, <2>4, <2>6, <2>7
          DEF BucketIInv, BucketHolds, Limiters!NoBucket
<1>7. ReviewIInv
  <2>1. today = [u \in Reviewers |-> 0] /\ fiveStars = 0 BY DEF Abuse!Init, Abuse!ReviewInit
  <2>2. \A u : Passing(u) = {} BY <1>1 DEF Passing
  <2>3. \A u : Cardinality(Passing(u)) = 0 BY <2>2, FS_EmptySet
  <2>4. ReviewTyped BY <1>1, <2>1 DEF ReviewTyped
  <2>5. Cardinality(Procs) \in Nat /\ DailyReviews \in Nat \ {0} BY GoroutinesFinite
  <2>6. \A u \in Reviewers : DayBounded(u) BY <2>1, <2>3, <2>5 DEF DayBounded
  <2> QED BY <2>1, <2>4, <2>6 DEF ReviewIInv, ReviewHolds
<1>8. NotificationIInv
  <2>1. count = 0 BY DEF Orchestration!Init
  <2> QED BY <1>1, <2>1 DEF NotificationIInv, NotificationTyped
<1>9. FirstIInv
  <2>1. trackerNow = 0 /\ tracker = [count |-> 0, last |-> 0] /\ granted = <<>>
      BY DEF First!Init, First!TrackerInit
  <2>2. MaxCount \in Nat BY LimitsAre
  <2> QED BY <2>1, <2>2 DEF FirstIInv, FirstHolds, First!AnyHourWithinLimit
<1> QED BY <1>3, <1>4, <1>5, <1>6, <1>7, <1>8, <1>9 DEF LimitsIInv

LEMMA LimitsStutter ==
    ASSUME LimitsIInv,
           UNCHANGED librariesVars
    PROVE  LimitsIInv'
<1>1. /\ subject' = subject /\ calm' = calm /\ call' = call
      /\ UNCHANGED OtpVars /\ UNCHANGED LimiterVars /\ UNCHANGED WindowVars /\ UNCHANGED BucketVars
      /\ UNCHANGED ReviewVars /\ count' = count /\ UNCHANGED FirstVars
    BY DEF librariesVars, Auth!vars, Limiters!vars, Abuse!vars, Orchestration!vars, First!vars,
         OtpVars, LimiterVars, WindowVars, BucketVars, ReviewVars, FirstVars
<1>2. OtpIInv'
    BY <1>1 DEF LimitsIInv, OtpIInv, OtpHolds, Checked, Expiring, OtpVars
<1>3. LimiterIInv'
    BY <1>1 DEF LimitsIInv, LimiterIInv, LimiterHolds, LimiterVars
<1>4. WindowIInv'
    BY <1>1 DEF LimitsIInv, WindowIInv, WindowHolds, WindowTyped, Span, One, Serial, WindowVars
<1>5. BucketIInv'
    BY <1>1 DEF LimitsIInv, BucketIInv, BucketHolds, BucketTyped, Budgeted, QuietAfter, Funded, One,
         Serial, BucketVars
<1>6. ReviewIInv'
    BY <1>1 DEF LimitsIInv, ReviewIInv, ReviewHolds, ReviewTyped, DayBounded, Passing, Review,
         ReviewVars
<1>7. NotificationIInv'
    BY <1>1 DEF LimitsIInv, NotificationIInv, NotificationTyped
<1>8. FirstIInv'
    BY <1>1 DEF LimitsIInv, FirstIInv, FirstHolds, First!AnyHourWithinLimit, FirstVars
<1> QED BY <1>2, <1>3, <1>4, <1>5, <1>6, <1>7, <1>8 DEF LimitsIInv

LEMMA KafkaInit == LibrariesInit => KafkaIInv
<1> SUFFICES ASSUME LibrariesInit PROVE KafkaIInv OBVIOUS
<1>1. /\ log = 0 /\ committed = -1 /\ marked = -1 /\ position = -1 /\ put = FALSE
      /\ channel = <<>> /\ handled = {} /\ lost = {} /\ from = 0
    BY DEF LibrariesInit, Consumer!Init, Consumer!None
<1>2. ChannelSize \in Nat BY BoundsAre
<1>3. put \in BOOLEAN BY <1>1
<1>4. channel \in Seq(0..(log - 1)) /\ Len(channel) <= ChannelSize BY <1>1, <1>2
<1> QED BY <1>1, <1>3, <1>4 DEF KafkaIInv, KafkaHolds, Covered, Arrived

LEMMA MigrationInit == LibrariesInit => MigrationIInv
<1> SUFFICES ASSUME LibrariesInit PROVE MigrationIInv OBVIOUS
<1>1. /\ DOMAIN call = Procs /\ \A p \in Procs : call[p] = Idle /\ call[p].pc = "idle"
      /\ applied = {} /\ schema = {} /\ mixed = FALSE
    BY DEF LibrariesInit, Migrator!Init, Migrator!Idle, Idle
<1>2. mixed \in BOOLEAN BY <1>1
<1> QED BY <1>1, <1>2 DEF MigrationIInv, MigrationHolds, MigrationTyped, Migrator!NoneLeftOut, OneWay,
                          Orderly

LEMMA RowInit == LibrariesInit => RowIInv
<1> SUFFICES ASSUME LibrariesInit PROVE RowIInv OBVIOUS
<1>1. /\ DOMAIN call = Procs /\ \A p \in Procs : call[p] = Idle /\ call[p].pc = "idle"
      /\ second = 0 /\ asked = row
      /\ row = [t \in First!Tables |-> [id \in First!Ids |-> First!Absent]]
      /\ made = [t \in First!Tables |-> [id \in First!Ids |-> 0]]
    BY DEF LibrariesInit, First!Init, First!RowInit, First!Idle, Idle
<1>2. 0 \in First!Ids
  <2>1. RowMaxTime \in Nat BY BoundsAre
  <2> QED BY <2>1 DEF First!Ids
<1>3. made \in [First!Tables -> [First!Ids -> Nat]] BY <1>1
<1>4. \A t \in First!Tables, id \in First!Ids : made[t][id] = 0 /\ row[t][id] = First!Absent BY <1>1
<1>5. IsTable(row) /\ IsTable(asked) BY <1>1, <1>4 DEF IsTable
<1>6. RowTyped BY <1>1, <1>2, <1>3, <1>5 DEF RowTyped
<1>7. RowOnce BY <1>4 DEF RowOnce
<1>8. RowKept BY <1>1, <1>4 DEF RowKept, One
<1>9. First!RowTypeOK /\ First!IdGivenOnce /\ First!ColumnsKept
    BY <1>1, <1>2, <1>3, <1>4 DEF First!RowTypeOK, First!IdGivenOnce, First!ColumnsKept
<1> QED BY <1>6, <1>7, <1>8, <1>9 DEF RowIInv, RowHolds

LEMMA OnceInit == LibrariesInit => OnceIInv
<1> SUFFICES ASSUME LibrariesInit PROVE OnceIInv OBVIOUS
<1>1. /\ \A p \in Procs : call[p] = Idle /\ call[p].pc = "idle"
      /\ delivered = {} /\ reviews = [o \in Abuse!Orders |-> 0]
    BY DEF LibrariesInit, Abuse!Init, Abuse!ReviewInit, Abuse!Idle, Idle
<1> QED BY <1>1 DEF OnceIInv, OnceHolds, One

LEMMA TokenInit == LibrariesInit => TokenIInv
<1> SUFFICES ASSUME LibrariesInit PROVE TokenIInv OBVIOUS
<1>1. /\ DOMAIN call = Procs /\ \A p \in Procs : call[p] = Idle /\ call[p].pc = "idle"
      /\ token = <<>> /\ ended = {}
    BY DEF LibrariesInit, Auth!Init, Auth!TokenInit, Auth!Idle, Idle
<1>2. /\ token \in Seq(Token) /\ Len(token) = 0 /\ Auth!Stored = {} /\ 1..Len(token) = {}
    BY <1>1 DEF Auth!Stored
<1>3. TokenTyped BY <1>1, <1>2 DEF TokenTyped
<1>4. TokenOnce BY <1>1, <1>2 DEF TokenOnce, One, Auth!Logins
<1> QED BY <1>1, <1>3, <1>4 DEF TokenIInv, TokenHolds

LibrariesIInv ==
    /\ LimitsIInv
    /\ KafkaIInv /\ MigrationIInv /\ RowIInv /\ OnceIInv /\ TokenIInv
    /\ UptimeIInv /\ DeviationIInv /\ FraudIInv /\ IncentiveIInv
    /\ CartHolds /\ MenuHolds /\ TrackingHolds /\ ETAHolds
    /\ StepsAreOwn /\ SecretIInv /\ SpareHolds
    /\ AssignmentHolds
    /\ RankingHolds /\ NeighborHolds /\ GeneticHolds

LEMMA AllInit == LibrariesInit => LibrariesIInv
BY LimitsInit, KafkaInit, MigrationInit, RowInit, OnceInit, TokenInit, UptimeInit, DeviationInit,
   FraudInit, IncentiveInit, CartInit, MenuInit, TrackingInit, ETAInit, OwnInit, SecretInit, SpareInit,
   AssignmentInit, RankingInit, NeighborInit, GeneticInit
   DEF LibrariesIInv

LEMMA LimitsStep ==
    ASSUME LimitsIInv, Unbounded
    PROVE  LimitsIInv'
BY OtpStep, LimiterStep, WindowStep, BucketStep, ReviewStep, NotificationStep, FirstStep
   DEF LimitsIInv

LEMMA AllStep ==
    ASSUME LibrariesIInv, Unbounded
    PROVE  LibrariesIInv'
<1>1. LimitsIInv' BY LimitsStep DEF LibrariesIInv
<1>2. KafkaIInv' /\ MigrationIInv' /\ RowIInv' BY KafkaStep, MigrationStep, RowStep DEF LibrariesIInv
<1>3. OnceIInv' /\ TokenIInv' BY OnceStep, TokenStep DEF LibrariesIInv, LimitsIInv
<1>4. UptimeIInv' /\ DeviationIInv' /\ FraudIInv' /\ IncentiveIInv'
    BY UptimeStep, DeviationStep, FraudStep, IncentiveStep DEF LibrariesIInv
<1>5. CartHolds' /\ MenuHolds' /\ TrackingHolds' /\ ETAHolds'
    BY CartStep, MenuStep, TrackingStep, ETAStep DEF LibrariesIInv
<1>6. StepsAreOwn' /\ SecretIInv' /\ SpareHolds'
    BY OwnStep, SecretStep, SpareStep DEF LibrariesIInv, LimitsIInv
<1>7. AssignmentHolds' /\ RankingHolds' /\ NeighborHolds' /\ GeneticHolds'
    BY AssignmentStep, RankingStep, NeighborStep, GeneticStep DEF LibrariesIInv
<1> QED BY <1>1, <1>2, <1>3, <1>4, <1>5, <1>6, <1>7 DEF LibrariesIInv

\* Where nothing changes of all, nothing changes of a part.
LEMMA NothingChanges ==
    ASSUME UNCHANGED librariesVars
    PROVE  /\ subject' = subject /\ calm' = calm /\ call' = call
           /\ UNCHANGED <<KafkaVars, MigrationVars, RowVars, OnceVars, TokenVars>>
           /\ UNCHANGED <<UptimeVars, DeviationVars, FraudVars, IncentiveVars>>
           /\ UNCHANGED <<CartVars, MenuVars, TrackingVars, ETAVars, SecretVars, enabled, count>>
           /\ UNCHANGED <<AssignmentVars, RankingVars, NeighborVars, GeneticVars>>
<1>1. /\ subject' = subject /\ calm' = calm
      /\ UNCHANGED <<Auth!vars, Migrator!vars, Abuse!vars, Routing!vars, Fleet!vars>>
      /\ UNCHANGED <<Orchestration!vars, Limiters!vars, Monitor!vars, Consumer!vars, Pricer!vars>>
      /\ UNCHANGED <<Secrets!vars, First!vars, Tracking!vars>>
    BY DEF librariesVars
<1>2. call' = call BY <1>1 DEF Auth!vars
<1>3. UNCHANGED <<KafkaVars, MigrationVars, RowVars, OnceVars, TokenVars>>
    BY <1>1 DEF KafkaVars, MigrationVars, RowVars, OnceVars, TokenVars, Consumer!vars, Migrator!vars,
         First!vars, Abuse!vars, Auth!vars
<1>4. UNCHANGED <<UptimeVars, DeviationVars, FraudVars, IncentiveVars>>
    BY <1>1 DEF UptimeVars, DeviationVars, FraudVars, IncentiveVars, Monitor!vars, Fleet!vars, Abuse!vars
<1>5. UNCHANGED <<CartVars, MenuVars, TrackingVars, ETAVars, SecretVars, enabled, count>>
    BY <1>1 DEF CartVars, MenuVars, TrackingVars, ETAVars, SecretVars, Pricer!vars, Tracking!vars,
         Secrets!vars, Orchestration!vars
<1>6. UNCHANGED <<AssignmentVars, RankingVars, NeighborVars, GeneticVars>>
    BY <1>1 DEF AssignmentVars, RankingVars, NeighborVars, GeneticVars, Fleet!vars, Tracking!vars,
         Routing!vars
<1> QED BY <1>1, <1>2, <1>3, <1>4, <1>5, <1>6

LEMMA AllStutter ==
    ASSUME LibrariesIInv, UNCHANGED librariesVars
    PROVE  LibrariesIInv'
<1>1. /\ subject' = subject /\ calm' = calm /\ call' = call
      /\ UNCHANGED KafkaVars /\ UNCHANGED MigrationVars /\ UNCHANGED RowVars /\ UNCHANGED OnceVars
      /\ UNCHANGED TokenVars /\ UNCHANGED UptimeVars /\ UNCHANGED DeviationVars
      /\ UNCHANGED FraudVars /\ UNCHANGED IncentiveVars /\ UNCHANGED CartVars
      /\ UNCHANGED MenuVars /\ UNCHANGED TrackingVars /\ UNCHANGED ETAVars
      /\ UNCHANGED SecretVars /\ enabled' = enabled /\ count' = count
      /\ UNCHANGED AssignmentVars /\ UNCHANGED RankingVars /\ UNCHANGED NeighborVars
      /\ UNCHANGED GeneticVars
    BY NothingChanges
<1>2. LimitsIInv' BY LimitsStutter DEF LibrariesIInv
<1>3. KafkaIInv' /\ MigrationIInv' /\ RowIInv' /\ OnceIInv' /\ TokenIInv'
    BY <1>1, KafkaStutter, MigrationStutter, RowStutter, OnceStutter, TokenStutter DEF LibrariesIInv
<1>4. UptimeIInv' /\ DeviationIInv' /\ FraudIInv' /\ IncentiveIInv'
    BY <1>1, UptimeStutter, DeviationStutter, FraudStutter, IncentiveStutter DEF LibrariesIInv
<1>5. CartHolds' /\ MenuHolds' /\ TrackingHolds' /\ ETAHolds'
    BY <1>1, CartStutter, MenuStutter, TrackingStutter, ETAStutter DEF LibrariesIInv
<1>6. StepsAreOwn' /\ SecretIInv' /\ SpareHolds'
    BY <1>1, OwnStutter, SecretStutter, SpareStutter DEF LibrariesIInv
<1>7. AssignmentHolds' /\ RankingHolds' /\ NeighborHolds' /\ GeneticHolds'
    BY <1>1, AssignmentStutter, RankingStutter, NeighborStutter, GeneticStutter DEF LibrariesIInv
<1> QED BY <1>2, <1>3, <1>4, <1>5, <1>6, <1>7 DEF LibrariesIInv

-----------------------------------------------------------------------------
(* What follows.                                                           *)

\* What the stores, clocks and lists of limits hold.
LEMMA LimitTypes ==
    ASSUME LimitsIInv
    PROVE  /\ Auth!OtpTypeOK
           /\ Limiters!TypeOK
           /\ First!TrackerTypeOK
           /\ today \in [Reviewers -> Nat] /\ fiveStars \in Nat
<1> USE LimitsAre
<1>1. Auth!OtpTypeOK BY DEF LimitsIInv, OtpIInv, Counter, Auth!OtpTypeOK
<1>2. Limiters!LimiterTypeOK BY DEF LimitsIInv, LimiterIInv, Limiters!LimiterTypeOK
<1>3. Limiters!SlidingTypeOK
  <2>1. CASE subject = "window"
    <3>1. /\ windowNow \in 0..SlidingMaxTime
          /\ seconds \subseteq windowAsked /\ windowAsked \subseteq 0..windowNow
          /\ windowRefused \subseteq 0..windowNow
        BY <2>1 DEF LimitsIInv, WindowIInv, WindowHolds, WindowTyped
    <3>2. 0..windowNow \subseteq 0..SlidingMaxTime BY <3>1
    <3> QED BY <3>1, <3>2 DEF Limiters!SlidingTypeOK
  <2>2. CASE subject # "window"
    <3>1. windowNow = SlidingWindow /\ seconds = {} /\ windowAsked = {} /\ windowRefused = {}
        BY <2>2 DEF LimitsIInv, WindowIInv
    <3> QED BY <3>1, SlidingAssumption DEF Limiters!SlidingTypeOK
  <2> QED BY <2>1, <2>2
<1>4. Limiters!BucketTypeOK
  <2>1. CASE subject = "bucket"
      BY <2>1 DEF LimitsIInv, BucketIInv, BucketHolds, BucketTyped, Tokens, Limiters!BucketTypeOK
  <2>2. CASE subject # "bucket"
      BY <2>2 DEF LimitsIInv, BucketIInv, Limiters!NoBucket, Limiters!BucketTypeOK
  <2> QED BY <2>1, <2>2
<1>5. First!TrackerTypeOK
  <2>1. CASE subject = "tracker"
    <3>1. /\ trackerNow \in 0..TrackerMaxTime
          /\ tracker \in [count : 0..MaxCount, last : Nat] /\ tracker.last <= trackerNow
          /\ granted \in Seq(Nat)
          /\ Len(granted) > 0 => granted[Len(granted)] = tracker.last
          /\ \A i, j \in 1..Len(granted) : i <= j => granted[i] <= granted[j]
        BY <2>1 DEF LimitsIInv, FirstIInv, FirstHolds
    <3>2. tracker.last \in 0..TrackerMaxTime /\ tracker \in [count : 0..MaxCount, last : 0..TrackerMaxTime]
        BY <3>1
    <3>3. ASSUME NEW i \in 1..Len(granted) PROVE granted[i] \in 0..TrackerMaxTime
      <4>1. Len(granted) \in Nat /\ i <= Len(granted) /\ Len(granted) > 0 /\ granted[i] \in Nat
          BY <3>1
      <4>2. granted[i] <= granted[Len(granted)]
        <5>1. Len(granted) \in 1..Len(granted) BY <4>1
        <5> QED BY <3>1, <4>1, <5>1
      <4>3. granted[i] <= tracker.last BY <3>1, <4>1, <4>2
      <4> QED BY <3>2, <4>1, <4>3
    <3>4. granted \in Seq(0..TrackerMaxTime) BY <3>1, <3>3
    <3> QED BY <3>1, <3>2, <3>4 DEF First!TrackerTypeOK
  <2>2. CASE subject # "tracker"
    <3>1. trackerNow = 0 /\ tracker = [count |-> 0, last |-> 0] /\ granted = <<>>
        BY <2>2 DEF LimitsIInv, FirstIInv
    <3>2. granted \in Seq(0..TrackerMaxTime) BY <3>1
    <3>3. tracker \in [count : 0..MaxCount, last : 0..TrackerMaxTime] BY <3>1
    <3> QED BY <3>1, <3>2, <3>3 DEF First!TrackerTypeOK
  <2> QED BY <2>1, <2>2
<1>6. today \in [Reviewers -> Nat] /\ fiveStars \in Nat
    BY DEF LimitsIInv, ReviewIInv, ReviewHolds, ReviewTyped
<1> QED BY <1>1, <1>2, <1>3, <1>4, <1>5, <1>6 DEF Limiters!TypeOK

LEMMA LibraryTypes ==
    ASSUME LibrariesIInv
    PROVE  LibrariesTypeOK
<1>1. Auth!TypeOK
    BY LimitTypes, TokenSound DEF LibrariesIInv, Auth!TypeOK
<1>2. Migrator!TypeOK BY MigrationSound DEF LibrariesIInv
<1>3. Abuse!TypeOK
  <2>1. delivered \subseteq Abuse!Orders /\ reviews \in [Abuse!Orders -> Nat]
      BY DEF LibrariesIInv, OnceIInv, OnceHolds
  <2> QED BY <2>1, LimitTypes, FraudSound DEF LibrariesIInv, Abuse!TypeOK, Abuse!ReviewTypeOK
<1>4. Routing!TypeOK BY NeighborSound, GeneticSound DEF LibrariesIInv, Routing!TypeOK
<1>5. Fleet!TypeOK
    BY IncentiveSound DEF LibrariesIInv, DeviationIInv, AssignmentHolds, Fleet!TypeOK
<1>6. Orchestration!TypeOK BY SpareSound DEF LibrariesIInv, LimitsIInv
<1>7. Limiters!TypeOK BY LimitTypes DEF LibrariesIInv
<1>8. Monitor!TypeOK BY UptimeSound DEF LibrariesIInv
<1>9. Consumer!TypeOK BY KafkaSound DEF LibrariesIInv
<1>10. Pricer!TypeOK BY CartSound, MenuSound DEF LibrariesIInv, Pricer!TypeOK
<1>11. Secrets!TypeOK BY SecretSound DEF LibrariesIInv
<1>12. First!TypeOK BY LimitTypes, RowSound DEF LibrariesIInv, First!TypeOK
<1>13. Tracking!TypeOK BY TrackingSound, RankingSound, ETASound DEF LibrariesIInv, Tracking!TypeOK
<1> QED BY <1>1, <1>2, <1>3, <1>4, <1>5, <1>6, <1>7, <1>8, <1>9, <1>10, <1>11, <1>12, <1>13
        DEF LibrariesTypeOK

\* What all the properties rest on holds in every state of the libraries,
\* however far a behaviour goes.
THEOREM LibrariesInvariance == UnboundedSpec => []LibrariesIInv
<1>1. ASSUME LibrariesIInv, [Unbounded]_librariesVars
      PROVE  LibrariesIInv'
    BY <1>1, AllStep, AllStutter
<1> QED BY <1>1, AllInit, PTL DEF UnboundedSpec

\* Limits hold, as far as the code enforces them: of one-time passwords of the
\* first services in any hour, of requests for those of pkg/auth and of reviews a
\* day but for those checked at once, of the limiter by its fixed window if Redis
\* answers, and of the token bucket when calls come one at a time; then the
\* limiter whose window slides refuses nobody who asked in no more seconds of the
\* window than the limit, which is all that it counts.  The counts of Redis behind
\* the first limits end, unless a call stopped in between.
THEOREM LimitsAlwaysHold == UnboundedSpec => []LimitsHold
<1>1. ASSUME LibrariesIInv PROVE LimitsHold
  <2>1. First!AnyHourWithinLimit BY <1>1, FirstSound DEF LibrariesIInv, LimitsIInv
  <2>2. Auth!RequestsBounded /\ (Quiet => Auth!CountersExpire) BY <1>1, OtpSound DEF LibrariesIInv, LimitsIInv
  <2>3. /\ calm # "faulty" => Limiters!ServedWithinLimit
        /\ Quiet => Limiters!WindowsEnd
      BY <1>1, LimiterSound DEF LibrariesIInv, LimitsIInv
  <2>4. calm # "faulty" => Abuse!ReviewsWithinLimit BY <1>1, ReviewSound DEF LibrariesIInv, LimitsIInv
  <2>5. Serial => Limiters!RefusedExceeded /\ Limiters!ServedWithinBudget
      BY <1>1, WindowSound, BucketSound DEF LibrariesIInv, LimitsIInv
  <2> QED BY <2>1, <2>2, <2>3, <2>4, <2>5 DEF LimitsHold
<1> QED BY <1>1, LibrariesInvariance, PTL

\* Every store, cache, clock and list of the libraries keeps its type, those of
\* the limits, the prices, the routes and the rankings included.
THEOREM LibrariesAreTyped == UnboundedSpec => []LibrariesTypeOK
BY LibraryTypes, LibrariesInvariance, PTL

\* What is to be done is done once and nothing is left out: ids of rows,
\* messages of Kafka, migrations, stops of a route and riders ranked always,
\* reviews of an order and refresh tokens of a login when calls come one at a
\* time.
THEOREM AllIsDoneOnce == UnboundedSpec => []DoneOnce
<1>1. ASSUME LibrariesIInv PROVE DoneOnce
  <2>1. First!IdGivenOnce BY <1>1, RowSound DEF LibrariesIInv
  <2>2. Consumer!NothingPassedOver BY <1>1, KafkaSound DEF LibrariesIInv
  <2>3. Migrator!HistoryIsSchema /\ Migrator!NoneLeftOut BY <1>1, MigrationSound DEF LibrariesIInv
  <2>4. Routing!OnlyLateLeftOut /\ Routing!EachStopOnce
      BY <1>1, NeighborSound, GeneticSound DEF LibrariesIInv
  <2>5. Tracking!BestFirst BY <1>1, RankingSound DEF LibrariesIInv
  <2>6. Serial => Abuse!OneReviewPerOrder BY <1>1, OnceSound DEF LibrariesIInv
  <2>7. Serial /\ Busy = {} => Auth!OneTokenPerLogin BY <1>1, TokenSound DEF LibrariesIInv
  <2> QED BY <2>1, <2>2, <2>3, <2>4, <2>5, <2>6, <2>7 DEF DoneOnce
<1> QED BY <1>1, LibrariesInvariance, PTL

\* Alerts and verdicts have their grounds and grounds their alert: of checks of
\* uptime; of a rider, alerted once every location of the window lies off the
\* route, and never unless some location lay off it; of orders that look like
\* fraud, whichever lookups fail; and bonuses are paid to riders who earned them,
\* and reported.
THEOREM AllIsJudgedRightly == UnboundedSpec => []JudgedRightly
<1>1. ASSUME LibrariesIInv PROVE JudgedRightly
  <2>1. Monitor!AlertedIfDown BY <1>1, UptimeSound DEF LibrariesIInv
  <2>2. Fleet!LastingIsReported /\ Fleet!AlertIsFounded BY <1>1 DEF LibrariesIInv, DeviationIInv
  <2>3. Abuse!NeverTooStrict BY <1>1, FraudSound DEF LibrariesIInv
  <2>4. subject = "incentives" \/ \A p \in Procs : call[p].pc # "evaluate"
      BY <1>1 DEF LibrariesIInv, StepsAreOwn, Own
  <2>5. Fleet!CreditedWasEarned /\ Fleet!ReportedWasCredited
      BY <1>1, <2>4, IncentiveSound DEF LibrariesIInv
  <2> QED BY <2>1, <2>2, <2>3, <2>5 DEF JudgedRightly
<1> QED BY <1>1, LibrariesInvariance, PTL

\* What is shown, told or charged is what there is: the parts of a bill and, to a
\* percent, its total; the price of a valid item, with all that was asked for, and
\* above nothing if rules demand a quantity; the places of riders; and when calls
\* come one at a time rows, preferences, and secrets, those at least that the
\* process has rotated itself.
THEOREM AllIsShownAsIs == UnboundedSpec => []ShownIsSo
<1>1. ASSUME LibrariesIInv PROVE ShownIsSo
  <2>1. Pricer!PartsAddUp /\ Pricer!ChargedIsCurrent BY <1>1, CartSound DEF LibrariesIInv
  <2>2. Pricer!ValidIsPricedInFull BY <1>1, MenuSound DEF LibrariesIInv
  <2>3. Tracking!ShownIsNear BY <1>1, TrackingSound DEF LibrariesIInv
  <2>4. Serial => Secrets!OwnRotationIsSeen BY <1>1, SecretSound DEF LibrariesIInv
  <2>5. Serial => Orchestration!DisabledIsSpared BY <1>1, SpareSound DEF LibrariesIInv, LimitsIInv
  <2>6. Serial /\ Busy = {} => First!ColumnsKept BY <1>1, RowSound DEF LibrariesIInv
  <2> QED BY <2>1, <2>2, <2>3, <2>4, <2>5, <2>6 DEF ShownIsSo
<1> QED BY <1>1, LibrariesInvariance, PTL

\* The rider chosen for an order is none who was turned away, and no worse than
\* any who stood in the area all the while the search went on.
THEOREM TheBestIsChosen == UnboundedSpec => BestIsChosen
<1>1. ASSUME LibrariesIInv, [Unbounded]_librariesVars
      PROVE  [\A p \in Procs :
                Fleet!At(p, "choose") /\ ~Fleet!At(p, "choose")' =>
                    /\ result' \notin call[p].excluded
                    /\ \A r \in Fleet!Standing(p) :
                         result' # 0 /\ RiderScore(r) <= RiderScore(result')]_(Fleet!assignmentVars)
  <2>1. CASE Unbounded
      BY <1>1, <2>1, AssignmentBest DEF LibrariesIInv, Fleet!At
  <2>2. CASE UNCHANGED librariesVars
      BY <2>2, NothingChanges DEF AssignmentVars, Fleet!assignmentVars
  <2> QED BY <1>1, <2>1, <2>2
<1> QED BY <1>1, LibrariesInvariance, PTL DEF UnboundedSpec, BestIsChosen, Fleet!BestOfThoseStanding

\* All of it holds in what TLC checks, which is a part.
COROLLARY LibrariesWithinBounds ==
    LibrariesSpec => /\ []LibrariesTypeOK /\ []LimitsHold /\ []DoneOnce
                     /\ []JudgedRightly /\ []ShownIsSo /\ BestIsChosen
<1>1. LibrariesNext => Unbounded BY DEF LibrariesNext
<1>2. LibrariesSpec => UnboundedSpec
    BY <1>1, PTL DEF LibrariesSpec, UnboundedSpec
<1> QED BY <1>2, LibrariesAreTyped, LimitsAlwaysHold, AllIsDoneOnce, AllIsJudgedRightly, AllIsShownAsIs,
           TheBestIsChosen
=============================================================================
