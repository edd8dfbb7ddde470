---------------------------- MODULE ServiceProofs ----------------------------
(***************************************************************************)
(* What MCServices checks of the wallets and of the rider, restaurant,     *)
(* auth and notification services holds for any number of users, rows,     *)
(* tokens and handlers.  There are two invariants: ServicesIInv, whatever  *)
(* fails and however requests interleave, and ServicesCalm, as long as     *)
(* calls come one at a time and nothing fails.  A step changes one service *)
(* and leaves the others as they were.                                     *)
(***************************************************************************)
EXTENDS MCServices, FiniteSetTheorems, TLAPS

\* Nobody but one handler is at work.
One(calls) == \A p, q \in Procs : calls[p] # Idle /\ calls[q] # Idle => p = q

LEMMA AtMostOne ==
    ASSUME NEW S, IsFiniteSet(S), Cardinality(S) <= 1, NEW x \in S, NEW y \in S
    PROVE  x = y
<1>1. Cardinality(S) \in Nat BY FS_CardinalityType
<1>2. Cardinality(S) # 0 BY FS_EmptySet
<1>3. Cardinality(S) = 1 BY <1>1, <1>2
<1>4. PICK z : S = {z} BY <1>3, FS_Singleton
<1> QED BY <1>4

\* If one was at work, and after a step of p no more than one is, it is still one.
LEMMA StillOne ==
    ASSUME NEW f, NEW g, NEW p \in Procs, One(f), \A q \in Procs \ {p} : g[q] = f[q],
           Cardinality(BusyIn(g)) <= 1
    PROVE  One(g)
<1>1. IsFiniteSet(BusyIn(g))
  <2>1. PICK z : BusyIn(f) \subseteq {z} BY DEF One, BusyIn
  <2>2. BusyIn(g) \subseteq {z, p} BY <2>1 DEF BusyIn
  <2>3. IsFiniteSet({z, p})
    <3>1. IsFiniteSet({z}) BY FS_Singleton
    <3>2. {z, p} = {z} \cup {p} OBVIOUS
    <3> QED BY <3>1, <3>2, FS_AddElement
  <2> QED BY <2>2, <2>3, FS_Subset
<1>2. ASSUME NEW q \in Procs, NEW r \in Procs, g[q] # Idle, g[r] # Idle PROVE q = r
  <2>1. q \in BusyIn(g) /\ r \in BusyIn(g) BY <1>2 DEF BusyIn
  <2> QED BY <1>1, <2>1, AtMostOne
<1> QED BY <1>2 DEF One

-----------------------------------------------------------------------------
(* Riders.                                                                 *)

\* Handlers that have stored an earning of r and not yet read its totals.
Counting(r) == {p \in Procs : riderCall[p].pc = "count" /\ riderCall[p].id = r}

\* The totals of x leave room for the earnings yet to be counted.
Covered(r, x) ==
    /\ x.total + Cardinality(Counting(r)) <= earnings[r].sum
    /\ x.deliveries + Cardinality(Counting(r)) <= earnings[r].rows

RiderIInv ==
    /\ Rider!TypeOK
    /\ \A r \in RiderIds : IsFiniteSet(Counting(r))
    /\ \A p \in Procs : riderCall[p].pc \in {"count", "save"} => riderCall[p].id \in Rider!Riders
    /\ \A r \in Rider!Riders : Covered(r, rider[r])
    /\ \A p \in Procs : riderCall[p].pc = "save" => Covered(riderCall[p].id, riderCall[p].row)

LEMMA RiderRowIsThere == Rider!Absent \notin Rider!Row
BY DEF Rider!Absent, Rider!Row

LEMMA RiderCallTypes ==
    ASSUME RiderIInv, NEW p \in Procs
    PROVE  /\ riderCall[p] \in {Rider!Idle} \cup Rider!Call
           /\ riderCall[p].pc \in {"count", "save"} => riderCall[p].id \in RiderIds
           /\ riderCall[p].pc = "save" => /\ riderCall[p].row \in Rider!Row
                                          /\ riderCall[p].named \in SUBSET Switches
                                          /\ riderCall[p].on \in SUBSET Switches
           /\ riderCall[p].pc = "count" => riderCall[p].amount = 1
           /\ riderCall[p].pc = "create" => riderCall[p].user \in Users
BY DEF RiderIInv, Rider!TypeOK, Rider!Call, Rider!Idle

LEMMA RiderInit == Rider!Init => RiderIInv
<1> SUFFICES ASSUME Rider!Init PROVE RiderIInv
    OBVIOUS
<1>1. Rider!TypeOK BY DEF Rider!Init, Rider!TypeOK
<1>2. \A r \in RiderIds : Counting(r) = {} BY DEF Rider!Init, Counting, Rider!Idle
<1>3. \A r \in RiderIds : IsFiniteSet(Counting(r)) BY <1>2, FS_EmptySet
<1>4. Rider!Riders = {} BY DEF Rider!Init, Rider!Riders
<1> QED BY <1>1, <1>3, <1>4 DEF RiderIInv, Rider!Init, Rider!Idle

\* A handler that goes on to anything but counting leaves fewer to count.
LEMMA FewerCounting ==
    ASSUME NEW p \in Procs, NEW r, \A q \in Procs \ {p} : riderCall'[q] = riderCall[q],
           riderCall'[p].pc # "count", IsFiniteSet(Counting(r))
    PROVE  /\ IsFiniteSet(Counting(r)')
           /\ Cardinality(Counting(r)') \in Nat /\ Cardinality(Counting(r)) \in Nat
           /\ Cardinality(Counting(r)') <= Cardinality(Counting(r))
           /\ riderCall[p].pc = "count" /\ riderCall[p].id = r =>
                Cardinality(Counting(r)') + 1 = Cardinality(Counting(r))
<1>1. Counting(r)' = Counting(r) \ {p} BY DEF Counting
<1>2. /\ IsFiniteSet(Counting(r)')
      /\ Cardinality(Counting(r)') = IF p \in Counting(r)
                                     THEN Cardinality(Counting(r)) - 1
                                     ELSE Cardinality(Counting(r))
    BY <1>1, FS_RemoveElement
<1>3. Cardinality(Counting(r)') \in Nat /\ Cardinality(Counting(r)) \in Nat
    BY <1>2, FS_CardinalityType
<1>4. riderCall[p].pc = "count" /\ riderCall[p].id = r => p \in Counting(r) BY DEF Counting
<1> QED BY <1>2, <1>3, <1>4

\* A step that stores no earning.
LEMMA RiderKept ==
    ASSUME RiderIInv, NEW p \in Procs, NEW c \in {Rider!Idle} \cup Rider!Call, c.pc # "count",
           riderCall' = [riderCall EXCEPT ![p] = c],
           rider' \in [RiderIds -> {Rider!Absent} \cup Rider!Row],
           asked' \in [RiderIds -> SUBSET Switches], UNCHANGED earnings,
           Rider!Riders \subseteq Rider!Riders',
           \A r \in Rider!Riders' : rider'[r] \in Rider!Row /\ Covered(r, rider'[r]),
           c.pc = "save" => c.id \in Rider!Riders /\ Covered(c.id, c.row)'
    PROVE  RiderIInv'
<1>1. \A q \in Procs \ {p} : riderCall'[q] = riderCall[q] BY DEF RiderIInv, Rider!TypeOK
<1>2. riderCall'[p] = c BY DEF RiderIInv, Rider!TypeOK
<1>3. Rider!TypeOK' BY DEF RiderIInv, Rider!TypeOK
<1>4. ASSUME NEW r \in RiderIds
      PROVE  /\ IsFiniteSet(Counting(r)')
             /\ \A x \in Rider!Row : Covered(r, x) => Covered(r, x)'
  <2>1. IsFiniteSet(Counting(r)) BY DEF RiderIInv
  <2>2. /\ IsFiniteSet(Counting(r)')
        /\ Cardinality(Counting(r)') \in Nat
        /\ Cardinality(Counting(r)) \in Nat
        /\ Cardinality(Counting(r)') <= Cardinality(Counting(r))
      BY <1>1, <1>2, <2>1, FewerCounting
  <2>3. earnings'[r].sum = earnings[r].sum /\ earnings'[r].rows = earnings[r].rows
        /\ earnings[r].sum \in Nat /\ earnings[r].rows \in Nat
      BY DEF RiderIInv, Rider!TypeOK
  <2>4. ASSUME NEW x \in Rider!Row, Covered(r, x) PROVE Covered(r, x)'
    <3>1. x.total \in Nat /\ x.deliveries \in Nat BY DEF Rider!Row
    <3> QED BY <2>2, <2>3, <2>4, <3>1 DEF Covered
  <2> QED BY <2>2, <2>4
<1>5. \A q \in Procs : riderCall'[q].pc \in {"count", "save"} =>
                           riderCall'[q].id \in Rider!Riders'
    BY <1>1, <1>2 DEF RiderIInv
<1>6. \A r \in Rider!Riders' : Covered(r, rider[r])'
  <2>1. TAKE r \in Rider!Riders'
  <2>2. r \in RiderIds BY DEF Rider!Riders
  <2>3. Covered(r, rider'[r]) /\ rider'[r] \in Rider!Row BY <2>1
  <2>4. ASSUME NEW x, x = rider'[r] PROVE Covered(r, rider[r])'
      BY <1>4, <2>2, <2>3, <2>4 DEF Covered
  <2> QED BY <2>4
<1>7. \A q \in Procs : riderCall'[q].pc = "save" => Covered(riderCall[q].id, riderCall[q].row)'
  <2>1. TAKE q \in Procs
  <2>2. CASE q = p BY <1>2, <2>2 DEF Covered
  <2>3. CASE q # p
    <3>1. riderCall'[q] = riderCall[q] BY <1>1, <2>3
    <3>2. riderCall[q].pc = "save" =>
              riderCall[q].row \in Rider!Row /\ riderCall[q].id \in RiderIds
                                      /\ Covered(riderCall[q].id, riderCall[q].row)
        BY RiderCallTypes DEF RiderIInv
    <3>3. ASSUME NEW r, NEW x, r = riderCall[q].id, x = riderCall[q].row,
                 riderCall'[q].pc = "save"
          PROVE  Covered(riderCall[q].id, riderCall[q].row)'
        BY <1>4, <3>1, <3>2, <3>3 DEF Covered
    <3> QED BY <3>3
  <2> QED BY <2>2, <2>3
<1> QED BY <1>3, <1>4, <1>5, <1>6, <1>7 DEF RiderIInv

\* The handler takes up c, and no row changes.
LEMMA RiderHeld ==
    ASSUME RiderIInv, NEW p \in Procs, NEW c \in {Rider!Idle} \cup Rider!Call, c.pc # "count",
           Rider!Goto(p, c), UNCHANGED <<rider, earnings, asked>>,
           c.pc = "save" => c.id \in Rider!Riders /\ Covered(c.id, c.row)'
    PROVE  RiderIInv'
<1>1. riderCall' = [riderCall EXCEPT ![p] = c] BY DEF Rider!Goto
<1>2. Rider!Riders' = Rider!Riders BY DEF Rider!Riders
<1>3. \A r \in Rider!Riders' : rider'[r] \in Rider!Row /\ Covered(r, rider'[r])
  <2>1. TAKE r \in Rider!Riders'
  <2>2. r \in RiderIds /\ rider[r] # Rider!Absent BY <1>2 DEF Rider!Riders
  <2>3. rider[r] \in Rider!Row BY <2>2 DEF RiderIInv, Rider!TypeOK
  <2>4. Covered(r, rider[r]) BY <1>2 DEF RiderIInv
  <2> QED BY <2>3, <2>4
<1>4. /\ rider' \in [RiderIds -> {Rider!Absent} \cup Rider!Row]
      /\ asked' \in [RiderIds -> SUBSET Switches] /\ UNCHANGED earnings
    BY DEF RiderIInv, Rider!TypeOK
<1>5. Rider!Riders \subseteq Rider!Riders' BY <1>2
<1> QED BY <1>1, <1>3, <1>4, <1>5, RiderKept

\* A row of r is written, and the handler is done.
LEMMA RiderWritten ==
    ASSUME RiderIInv, NEW p \in Procs, NEW r \in RiderIds, NEW x \in Rider!Row,
           rider' = [rider EXCEPT ![r] = x], asked' \in [RiderIds -> SUBSET Switches],
           UNCHANGED earnings, Covered(r, x), Rider!Return(p)
    PROVE  RiderIInv'
<1>1. riderCall' = [riderCall EXCEPT ![p] = Rider!Idle] /\ Rider!Idle.pc = "idle"
    BY DEF Rider!Return, Rider!Goto, Rider!Idle
<1>2. rider' \in [RiderIds -> {Rider!Absent} \cup Rider!Row] BY DEF RiderIInv, Rider!TypeOK
<1>3. Rider!Riders' = Rider!Riders \cup {r}
    BY RiderRowIsThere DEF Rider!Riders, RiderIInv, Rider!TypeOK
<1>4. \A s \in Rider!Riders' : rider'[s] \in Rider!Row /\ Covered(s, rider'[s])
  <2>1. TAKE s \in Rider!Riders'
  <2>2. CASE s = r
    <3>1. rider'[s] = x BY <2>2 DEF RiderIInv, Rider!TypeOK
    <3> QED BY <2>2, <3>1
  <2>3. CASE s # r
    <3>1. s \in Rider!Riders /\ s \in RiderIds BY <1>3, <2>3 DEF Rider!Riders
    <3>2. rider'[s] = rider[s] BY <2>3, <3>1 DEF RiderIInv, Rider!TypeOK
    <3>3. rider[s] \in Rider!Row BY <3>1 DEF Rider!Riders, RiderIInv, Rider!TypeOK
    <3>4. Covered(s, rider[s]) BY <3>1 DEF RiderIInv
    <3> QED BY <3>2, <3>3, <3>4
  <2> QED BY <2>2, <2>3
<1>5. Rider!Riders \subseteq Rider!Riders' BY <1>3
<1> QED BY <1>1, <1>2, <1>4, <1>5, RiderKept

\* A row as it was read, with other switches, is as covered as before.
LEMMA CoveredAlike ==
    ASSUME RiderIInv, NEW r \in RiderIds, NEW x \in Rider!Row, NEW y \in Rider!Row,
           y.total = x.total, y.deliveries = x.deliveries, Covered(r, x)
    PROVE  Covered(r, y)
BY DEF Covered

LEMMA RiderCreateStep ==
    ASSUME RiderIInv, NEW p \in Procs, Rider!Create(p)
    PROVE  RiderIInv'
<1>1. riderCall[p].user \in Users BY RiderCallTypes DEF Rider!Create
<1>2. PICK r, x :
          /\ r \in RiderIds \ Rider!Riders
          /\ x = [user |-> riderCall[p].user, switches |-> {"available"},
                  total |-> 0, deliveries |-> 0]
          /\ rider' = [rider EXCEPT ![r] = x]
          /\ asked' = [asked EXCEPT ![r] = {"available"}]
    BY DEF Rider!Create
<1>3. x \in Rider!Row BY <1>1, <1>2, ServicesAssumption DEF Rider!Row
<1>4. asked' \in [RiderIds -> SUBSET Switches]
    BY <1>2, ServicesAssumption DEF RiderIInv, Rider!TypeOK
<1>5. Covered(r, x)
  <2>1. Counting(r) = {} BY <1>2 DEF Counting, RiderIInv
  <2>2. Cardinality(Counting(r)) = 0 BY <2>1, FS_EmptySet
  <2>3. earnings[r].sum \in Nat /\ earnings[r].rows \in Nat
      BY <1>2 DEF RiderIInv, Rider!TypeOK
  <2> QED BY <1>2, <2>2, <2>3 DEF Covered
<1>6. UNCHANGED earnings /\ Rider!Return(p) BY DEF Rider!Create
<1> QED BY <1>2, <1>3, <1>4, <1>5, <1>6, RiderWritten

LEMMA RiderSaveStep ==
    ASSUME RiderIInv, NEW p \in Procs, Rider!Save(p)
    PROVE  RiderIInv'
<1> DEFINE c == riderCall[p]
<1>1. /\ c.pc = "save" /\ c.id \in RiderIds /\ c.row \in Rider!Row
      /\ c.named \in SUBSET Switches /\ c.on \in SUBSET Switches
    BY RiderCallTypes DEF Rider!Save
<1>2. Covered(c.id, c.row) BY <1>1 DEF RiderIInv
<1>3. asked' \in [RiderIds -> SUBSET Switches]
    BY <1>1 DEF Rider!Save, Rider!Switched, RiderIInv, Rider!TypeOK
<1>4. rider' = [rider EXCEPT ![c.id] = c.row] /\ UNCHANGED earnings /\ Rider!Return(p)
    BY DEF Rider!Save
<1> QED BY <1>1, <1>2, <1>3, <1>4, RiderWritten

LEMMA RiderCountStep ==
    ASSUME RiderIInv, NEW p \in Procs, Rider!Count(p)
    PROVE  RiderIInv'
<1>1. PICK r, x :
          /\ r \in RiderIds
          /\ r = riderCall[p].id /\ r \in Rider!Riders /\ riderCall[p].pc = "count"
          /\ x = [rider[r] EXCEPT !.total = @ + 1, !.deliveries = @ + 1]
          /\ Rider!Goto(p, [pc |-> "save", id |-> r, named |-> {}, on |-> {}, row |-> x])
    BY RiderCallTypes DEF Rider!Count, RiderIInv
<1>2. PICK y \in Rider!Row : y = rider[r] BY <1>1 DEF Rider!Riders, RiderIInv, Rider!TypeOK
<1>3. x \in Rider!Row /\ x.total = y.total + 1 /\ x.deliveries = y.deliveries + 1
  <2>1. x = [y EXCEPT !.total = y.total + 1, !.deliveries = y.deliveries + 1] BY <1>1, <1>2
  <2>2. /\ y.user \in Users /\ y.switches \in SUBSET Switches
        /\ y.total \in Nat /\ y.deliveries \in Nat
        /\ y = [user |-> y.user, switches |-> y.switches, total |-> y.total,
                deliveries |-> y.deliveries]
      BY DEF Rider!Row
  <2>3. x = [user |-> y.user, switches |-> y.switches, total |-> y.total + 1,
             deliveries |-> y.deliveries + 1]
      BY <2>1, <2>2
  <2> QED BY <2>2, <2>3 DEF Rider!Row
<1>4. PICK c : c = [pc |-> "save", id |-> r, named |-> {}, on |-> {}, row |-> x] OBVIOUS
<1>5. c \in Rider!Call /\ c.pc = "save" /\ c.id = r /\ c.row = x
    BY <1>1, <1>3, <1>4 DEF Rider!Call
<1>6. Rider!Goto(p, c) /\ UNCHANGED <<rider, earnings, asked>>
    BY <1>1, <1>4 DEF Rider!Count
<1>7. Covered(r, x)'
  <2>1. riderCall'[p].pc # "count" /\ \A q \in Procs \ {p} : riderCall'[q] = riderCall[q]
      BY <1>5, <1>6 DEF Rider!Goto, RiderIInv, Rider!TypeOK
  <2>2. IsFiniteSet(Counting(r)) BY <1>1 DEF RiderIInv
  <2>3. /\ Cardinality(Counting(r)') \in Nat /\ Cardinality(Counting(r)) \in Nat
        /\ Cardinality(Counting(r)') + 1 = Cardinality(Counting(r))
      BY <1>1, <2>1, <2>2, FewerCounting
  <2>4. Covered(r, y) BY <1>1, <1>2 DEF RiderIInv
  <2>5. /\ y.total \in Nat /\ y.deliveries \in Nat
        /\ earnings[r].sum \in Nat /\ earnings[r].rows \in Nat
      BY <1>1, <1>2 DEF RiderIInv, Rider!TypeOK, Rider!Row
  <2> QED BY <1>3, <1>6, <2>3, <2>4, <2>5 DEF Covered
<1>8. Covered(c.id, c.row)' BY <1>5, <1>7
<1> QED BY <1>1, <1>5, <1>6, <1>8, RiderHeld

LEMMA RiderEarnStep ==
    ASSUME RiderIInv, NEW p \in Procs, NEW r \in RiderIds, Rider!AddEarning(p, r, 1)
    PROVE  RiderIInv'
<1>1. PICK c : /\ c = [pc |-> "count", id |-> r, amount |-> 1]
               /\ riderCall' = [riderCall EXCEPT ![p] = c]
    BY DEF Rider!AddEarning, Rider!Goto
<1>2. c \in Rider!Call /\ c.pc = "count" /\ c.id = r BY <1>1 DEF Rider!Call
<1>3. UNCHANGED <<rider, asked>> /\ r \in Rider!Riders /\ riderCall[p] = Rider!Idle
    BY DEF Rider!AddEarning
<1>4. Rider!Riders' = Rider!Riders BY <1>3 DEF Rider!Riders
<1>5. \A s \in RiderIds : earnings[s].rows \in Nat /\ earnings[s].sum \in Nat
    BY DEF RiderIInv, Rider!TypeOK
<1>6. earnings' = [earnings EXCEPT ![r] = [rows |-> earnings[r].rows + 1,
sum |-> earnings[r].sum + 1]]
    BY DEF Rider!AddEarning
<1>7. Rider!TypeOK' BY <1>1, <1>2, <1>3, <1>5, <1>6 DEF RiderIInv, Rider!TypeOK
<1>8. \A q \in Procs \ {p} : riderCall'[q] = riderCall[q]
    BY <1>1 DEF RiderIInv, Rider!TypeOK
<1>9. riderCall'[p] = c BY <1>1 DEF RiderIInv, Rider!TypeOK
<1>10. ASSUME NEW s \in RiderIds
       PROVE  /\ IsFiniteSet(Counting(s)')
              /\ \A x \in Rider!Row : Covered(s, x) => Covered(s, x)'
  <2>1. IsFiniteSet(Counting(s)) /\ Cardinality(Counting(s)) \in Nat
      BY FS_CardinalityType DEF RiderIInv
  <2>2. CASE s = r
    <3>1. p \notin Counting(r) BY <1>3 DEF Counting, Rider!Idle
    <3>2. Counting(r)' = Counting(r) \cup {p} BY <1>2, <1>8, <1>9 DEF Counting
    <3>3. /\ IsFiniteSet(Counting(r)')
          /\ Cardinality(Counting(r)') = Cardinality(Counting(r)) + 1
        BY <2>1, <2>2, <3>1, <3>2, FS_AddElement
    <3>4. earnings'[r].rows = earnings[r].rows + 1 /\ earnings'[r].sum = earnings[r].sum + 1
        BY <1>6 DEF RiderIInv, Rider!TypeOK
    <3>5. ASSUME NEW x \in Rider!Row, Covered(r, x) PROVE Covered(r, x)'
      <4>1. x.total \in Nat /\ x.deliveries \in Nat BY DEF Rider!Row
      <4> QED BY <1>5, <2>1, <2>2, <3>3, <3>4, <3>5, <4>1 DEF Covered
    <3> QED BY <2>2, <3>3, <3>5
  <2>3. CASE s # r
    <3>1. Counting(s)' = Counting(s) BY <1>2, <1>3, <1>8, <1>9, <2>3 DEF Counting, Rider!Idle
    <3>2. earnings'[s] = earnings[s] BY <1>6, <2>3 DEF RiderIInv, Rider!TypeOK
    <3> QED BY <2>1, <3>1, <3>2 DEF Covered
  <2> QED BY <2>2, <2>3
<1>11. \A q \in Procs : riderCall'[q].pc \in {"count", "save"} =>
                           riderCall'[q].id \in Rider!Riders'
    BY <1>2, <1>3, <1>4, <1>8, <1>9 DEF RiderIInv
<1>12. \A s \in Rider!Riders' : Covered(s, rider[s])'
  <2>1. TAKE s \in Rider!Riders'
  <2>2. s \in RiderIds /\ rider[s] # Rider!Absent BY <1>4 DEF Rider!Riders
  <2>3. PICK x \in Rider!Row : x = rider[s] BY <2>2 DEF RiderIInv, Rider!TypeOK
  <2>4. Covered(s, x) BY <1>4, <2>3 DEF RiderIInv
  <2>5. Covered(s, x)' BY <1>10, <2>2, <2>4
  <2> QED BY <1>3, <2>3, <2>5
<1>13. \A q \in Procs : riderCall'[q].pc = "save" => Covered(riderCall[q].id, riderCall[q].row)'
  <2>1. SUFFICES ASSUME NEW q \in Procs, riderCall'[q].pc = "save"
                 PROVE  Covered(riderCall[q].id, riderCall[q].row)'
      OBVIOUS
  <2>2. riderCall'[q] = riderCall[q] BY <1>2, <1>8, <1>9, <2>1
  <2>3. PICK s \in RiderIds, x \in Rider!Row : s = riderCall[q].id /\ x = riderCall[q].row
      BY <2>1, <2>2, RiderCallTypes
  <2>4. Covered(s, x) BY <2>1, <2>2, <2>3 DEF RiderIInv
  <2>5. Covered(s, x)' BY <1>10, <2>4
  <2> QED BY <2>2, <2>3, <2>5
<1> QED BY <1>7, <1>10, <1>11, <1>12, <1>13 DEF RiderIInv

\* What is saved is the row as it was read, but for the switches.
LEMMA RiderUpdated ==
    ASSUME RiderIInv, NEW p \in Procs, NEW r \in RiderIds, Rider!UpdateRider(p, r)
    PROVE  \E c \in Rider!Call :
               /\ Rider!Goto(p, c)
               /\ c.pc = "save" /\ c.id = r /\ r \in Rider!Riders /\ c.row \in Rider!Row
               /\ c.row.user = rider[r].user
               /\ c.row.total = rider[r].total /\ c.row.deliveries = rider[r].deliveries
               /\ c.row.switches = Rider!Switched(rider[r].switches, c.named, c.on)
<1>1. PICK named, on, x :
          /\ named \in SUBSET Switches /\ on \in SUBSET named
          /\ x = [rider[r] EXCEPT !.switches = Rider!Switched(rider[r].switches, named, on)]
          /\ Rider!Goto(p, [pc |-> "save", id |-> r, row |-> x, named |-> named, on |-> on])
    BY DEF Rider!UpdateRider
<1>2. r \in Rider!Riders BY DEF Rider!UpdateRider
<1>3. PICK y \in Rider!Row : y = rider[r] BY <1>2 DEF Rider!Riders, RiderIInv, Rider!TypeOK
<1>4. Rider!Switched(y.switches, named, on) \in SUBSET Switches
    BY <1>1 DEF Rider!Switched, Rider!Row
<1>5. /\ x \in Rider!Row /\ x.user = y.user /\ x.total = y.total
      /\ x.deliveries = y.deliveries /\ x.switches = Rider!Switched(y.switches, named, on)
  <2>1. PICK s \in SUBSET Switches : s = Rider!Switched(y.switches, named, on) BY <1>4
  <2>2. x = [y EXCEPT !.switches = s] BY <1>1, <1>3, <2>1
  <2>3. x \in Rider!Row /\ x.user = y.user /\ x.total = y.total
        /\ x.deliveries = y.deliveries /\ x.switches = s
      BY <2>2 DEF Rider!Row
  <2> QED BY <2>1, <2>3
<1>6. PICK c : c = [pc |-> "save", id |-> r, row |-> x, named |-> named, on |-> on] OBVIOUS
<1>7. c \in Rider!Call BY <1>1, <1>5, <1>6 DEF Rider!Call
<1> QED BY <1>1, <1>2, <1>3, <1>5, <1>6, <1>7

LEMMA RiderStep == RiderIInv /\ RiderNext => RiderIInv'
<1> SUFFICES ASSUME RiderIInv, RiderNext PROVE RiderIInv'
    OBVIOUS
<1>1. ASSUME NEW p \in Procs, NEW u \in Users, \/ Rider!CreateRider(p, u)
                                               \/ Rider!LookupError(p, u)
      PROVE  RiderIInv'
  <2>1. PICK c : c = [pc |-> "create", user |-> u] /\ Rider!Goto(p, c)
      BY <1>1 DEF Rider!CreateRider, Rider!LookupError
  <2>2. c \in Rider!Call /\ c.pc = "create" BY <2>1 DEF Rider!Call
  <2>3. UNCHANGED <<rider, earnings, asked>> BY <1>1 DEF Rider!CreateRider, Rider!LookupError
  <2> QED BY <2>1, <2>2, <2>3, RiderHeld
<1>2. ASSUME NEW p \in Procs, NEW r \in RiderIds, Rider!UpdateRider(p, r) PROVE RiderIInv'
  <2>1. PICK c \in Rider!Call :
            /\ Rider!Goto(p, c)
            /\ c.pc = "save" /\ c.id = r /\ r \in Rider!Riders /\ c.row \in Rider!Row
            /\ c.row.total = rider[r].total /\ c.row.deliveries = rider[r].deliveries
      BY <1>2, RiderUpdated
  <2>2. UNCHANGED <<rider, earnings, asked>> BY <1>2 DEF Rider!UpdateRider
  <2>3. PICK y \in Rider!Row : y = rider[r] BY <2>1 DEF Rider!Riders, RiderIInv, Rider!TypeOK
  <2>4. Covered(r, y) BY <2>1, <2>3 DEF RiderIInv
  <2>5. PICK x \in Rider!Row : x = c.row BY <2>1
  <2>6. Covered(r, x) BY <2>1, <2>3, <2>4, <2>5, CoveredAlike
  <2>7. riderCall'[p].pc # "count" /\ \A q \in Procs \ {p} : riderCall'[q] = riderCall[q]
      BY <2>1 DEF Rider!Goto, RiderIInv, Rider!TypeOK
  <2>8. IsFiniteSet(Counting(r)) BY DEF RiderIInv
  <2>9. /\ Cardinality(Counting(r)') \in Nat /\ Cardinality(Counting(r)) \in Nat
        /\ Cardinality(Counting(r)') <= Cardinality(Counting(r))
      BY <2>7, <2>8, FewerCounting
  <2>10. /\ x.total \in Nat /\ x.deliveries \in Nat
         /\ earnings[r].sum \in Nat /\ earnings[r].rows \in Nat
      BY DEF RiderIInv, Rider!TypeOK, Rider!Row
  <2>11. Covered(r, x)' BY <2>2, <2>6, <2>9, <2>10 DEF Covered
  <2>12. Covered(c.id, c.row)' BY <2>1, <2>5, <2>11
  <2> QED BY <2>1, <2>2, <2>12, RiderHeld
<1>3. ASSUME NEW p \in Procs, Rider!Stop(p) PROVE RiderIInv'
  <2>1. Rider!Goto(p, Rider!Idle) /\ UNCHANGED <<rider, earnings, asked>>
      BY <1>3 DEF Rider!Stop, Rider!Return
  <2>2. Rider!Idle.pc = "idle" BY DEF Rider!Idle
  <2> QED BY <2>1, <2>2, RiderHeld
<1>4. ASSUME NEW r \in RiderIds, NEW s \in Switches, NEW on \in BOOLEAN,
             Rider!UpdateSwitch(r, s, on)
      PROVE  RiderIInv'
  <2>1. r \in Rider!Riders /\ UNCHANGED <<earnings, riderCall>> BY <1>4 DEF Rider!UpdateSwitch
  <2>2. PICK y \in Rider!Row : y = rider[r] BY <2>1 DEF Rider!Riders, RiderIInv, Rider!TypeOK
  <2>3. PICK old : old = asked[r] OBVIOUS
  <2>4. PICK ys \in SUBSET Switches, as \in SUBSET Switches :
            /\ ys = IF on THEN y.switches \cup {s} ELSE y.switches \ {s}
            /\ as = IF on THEN old \cup {s} ELSE old \ {s}
      BY <2>2, <2>3 DEF RiderIInv, Rider!TypeOK, Rider!Row
  <2>5. rider' = [rider EXCEPT ![r] = [y EXCEPT !.switches = ys]]
        /\ asked' = [asked EXCEPT ![r] = as]
      BY <1>4, <2>2, <2>3, <2>4 DEF Rider!UpdateSwitch
  <2>6. PICK x : x = [y EXCEPT !.switches = ys] OBVIOUS
  <2>7. x \in Rider!Row /\ x.total = y.total /\ x.deliveries = y.deliveries
      BY <2>6 DEF Rider!Row
  <2>8. rider' = [rider EXCEPT ![r] = x] BY <2>5, <2>6
  <2>9. Rider!TypeOK' BY <2>1, <2>5, <2>7, <2>8 DEF RiderIInv, Rider!TypeOK
  <2>10. Rider!Riders' = Rider!Riders
      BY <2>1, <2>7, <2>8, RiderRowIsThere DEF Rider!Riders, RiderIInv, Rider!TypeOK
  <2>11. Covered(r, x) BY <2>1, <2>2, <2>7, CoveredAlike DEF RiderIInv
  <2>12. \A q \in Rider!Riders : Covered(q, rider'[q])
    <3>1. TAKE q \in Rider!Riders
    <3>2. CASE q = r BY <2>8, <2>11, <3>2 DEF RiderIInv, Rider!TypeOK
    <3>3. CASE q # r
      <4>1. rider'[q] = rider[q] BY <2>8, <3>3 DEF RiderIInv, Rider!TypeOK, Rider!Riders
      <4> QED BY <4>1 DEF RiderIInv
    <3> QED BY <3>2, <3>3
  <2>13. \A q : Counting(q)' = Counting(q) BY <2>1 DEF Counting
  <2> QED BY <2>1, <2>9, <2>10, <2>12, <2>13 DEF RiderIInv, Covered
<1>5. ASSUME NEW p \in Procs, NEW r \in RiderIds, Rider!AddEarning(p, r, 1) PROVE RiderIInv'
    BY <1>5, RiderEarnStep
<1> QED BY <1>1, <1>2, <1>3, <1>4, <1>5, RiderCreateStep, RiderSaveStep, RiderCountStep
        DEF RiderNext, Rider!Request, Rider!Continue, Rider!Earn, Rider!Toggle, Rider!Fault

\* The totals of x are those of all earnings of r.
AddsUp(r, x) == x.total = earnings[r].sum /\ x.deliveries = earnings[r].rows

RiderBusyAt(r) ==
    \E p \in Procs : riderCall[p].pc \in {"count", "save"} /\ riderCall[p].id = r

\* What a handler is about to do fits the tables, which nobody else changes.
RiderCallFits(c) ==
    /\ c.pc = "create" => \A r \in Rider!Riders : rider[r].user # c.user
    /\ c.pc = "count" => /\ rider[c.id].total + 1 = earnings[c.id].sum
                         /\ rider[c.id].deliveries + 1 = earnings[c.id].rows
    /\ c.pc = "save" => /\ c.row.user = rider[c.id].user
                        /\ c.row.switches = Rider!Switched(asked[c.id], c.named, c.on)
                        /\ AddsUp(c.id, c.row)

RiderCalm ==
    /\ One(riderCall)
    /\ Rider!OneProfile
    /\ Rider!SwitchesKept
    /\ \A p \in Procs : RiderCallFits(riderCall[p])
    /\ \A r \in Rider!Riders : RiderBusyAt(r) \/ AddsUp(r, rider[r])
    /\ \A r \in RiderIds \ Rider!Riders : earnings[r].sum = 0 /\ earnings[r].rows = 0

LEMMA RiderCalmInit == Rider!Init => RiderCalm
<1> SUFFICES ASSUME Rider!Init PROVE RiderCalm
    OBVIOUS
<1>1. Rider!Riders = {} BY DEF Rider!Init, Rider!Riders
<1>2. \A p \in Procs : riderCall[p] = Idle /\ riderCall[p].pc = "idle"
    BY DEF Rider!Init, Rider!Idle, Idle
<1>3. \A r \in RiderIds : earnings[r].sum = 0 /\ earnings[r].rows = 0 BY DEF Rider!Init
<1> QED
    BY <1>1, <1>2, <1>3 DEF RiderCalm, One, Rider!OneProfile, Rider!SwitchesKept, RiderCallFits

\* In calm, whoever is not at work before or after a step of p is idle throughout.
LEMMA RiderAlone ==
    ASSUME RiderIInv, RiderCalm, NEW p \in Procs, NEW c, riderCall' = [riderCall EXCEPT ![p] = c],
           Cardinality(BusyIn(riderCall')) <= 1, riderCall[p] # Idle \/ c # Idle
    PROVE  /\ One(riderCall)'
           /\ riderCall'[p] = c
           /\ \A q \in Procs \ {p} : riderCall[q] = Idle /\ riderCall'[q] = Idle
<1>1. \A q \in Procs \ {p} : riderCall'[q] = riderCall[q] BY DEF RiderIInv, Rider!TypeOK
<1>2. riderCall'[p] = c BY DEF RiderIInv, Rider!TypeOK
<1>3. PICK g : g = riderCall' OBVIOUS
<1>4. One(g) BY <1>1, <1>3, StillOne DEF RiderCalm
<1>5. One(riderCall)' BY <1>3, <1>4 DEF One
<1> QED BY <1>1, <1>2, <1>5 DEF RiderCalm, One

\* The handler takes up c; no row changes, but for earnings that c is to count.
LEMMA RiderCalmHeld ==
    ASSUME RiderIInv, RiderCalm, NEW p \in Procs, NEW c, Rider!Goto(p, c),
           Cardinality(BusyIn(riderCall')) <= 1, riderCall[p] # Idle \/ c # Idle,
           UNCHANGED <<rider, asked>>, RiderCallFits(c)',
           \A r \in RiderIds \ Rider!Riders : earnings'[r] = earnings[r],
           \A r \in Rider!Riders : \/ AddsUp(r, rider[r])'
                                   \/ c.pc \in {"count", "save"} /\ c.id = r
    PROVE  RiderCalm'
<1>1. /\ One(riderCall)' /\ riderCall'[p] = c
      /\ \A q \in Procs \ {p} : riderCall'[q] = Idle
    BY RiderAlone DEF Rider!Goto
<1>2. \A q \in Procs : RiderCallFits(riderCall[q])'
    BY <1>1 DEF RiderCallFits, Idle
<1>3. Rider!Riders' = Rider!Riders BY DEF Rider!Riders
<1>4. \A r \in Rider!Riders' : RiderBusyAt(r)' \/ AddsUp(r, rider[r])'
    BY <1>1, <1>3 DEF RiderBusyAt
<1>5. Rider!OneProfile' /\ Rider!SwitchesKept'
    BY <1>3 DEF RiderCalm, Rider!OneProfile, Rider!SwitchesKept
<1>6. \A r \in RiderIds \ Rider!Riders' : earnings'[r].sum = 0 /\ earnings'[r].rows = 0
    BY <1>3 DEF RiderCalm
<1> QED BY <1>1, <1>2, <1>4, <1>5, <1>6 DEF RiderCalm

\* A row of r is written that adds up, of a user who has no other.
LEMMA RiderCalmWritten ==
    ASSUME RiderIInv, RiderCalm, NEW p \in Procs, riderCall[p] # Idle,
           Cardinality(BusyIn(riderCall')) <= 1, Rider!Return(p), UNCHANGED earnings,
           NEW r \in RiderIds, NEW x \in Rider!Row, rider' = [rider EXCEPT ![r] = x],
           NEW a \in SUBSET Switches, asked' = [asked EXCEPT ![r] = a],
           x.switches = a, AddsUp(r, x),
           \A s \in Rider!Riders \ {r} : rider[s].user # x.user,
           riderCall[p].pc \in {"count", "save"} => riderCall[p].id = r
    PROVE  RiderCalm'
<1>1. riderCall' = [riderCall EXCEPT ![p] = Rider!Idle] /\ Rider!Idle = Idle
    BY DEF Rider!Return, Rider!Goto, Rider!Idle, Idle
<1>2. /\ One(riderCall)' /\ riderCall'[p] = Idle
      /\ \A q \in Procs \ {p} : riderCall[q] = Idle /\ riderCall'[q] = Idle
    BY <1>1, RiderAlone
<1>3. \A q \in Procs : RiderCallFits(riderCall[q])' BY <1>2 DEF RiderCallFits, Idle
<1>4. Rider!Riders' = Rider!Riders \cup {r}
    BY RiderRowIsThere DEF Rider!Riders, RiderIInv, Rider!TypeOK
<1>5. /\ rider'[r] = x /\ asked'[r] = a
      /\ \A s \in Rider!Riders \ {r} : rider'[s] = rider[s] /\ asked'[s] = asked[s]
    BY DEF RiderIInv, Rider!TypeOK, Rider!Riders
<1>6. \A s \in Rider!Riders' : AddsUp(s, rider[s])'
  <2>1. TAKE s \in Rider!Riders'
  <2>2. CASE s = r BY <1>5, <2>2 DEF AddsUp
  <2>3. CASE s # r
    <3>1. s \in Rider!Riders BY <1>4, <2>3
    <3>2. ~RiderBusyAt(s) BY <1>2, <2>3 DEF RiderBusyAt, Idle
    <3> QED BY <1>5, <2>3, <3>1, <3>2 DEF RiderCalm, AddsUp
  <2> QED BY <2>2, <2>3
<1>7. Rider!OneProfile' /\ Rider!SwitchesKept'
    BY <1>4, <1>5 DEF RiderCalm, Rider!OneProfile, Rider!SwitchesKept
<1>8. \A s \in RiderIds \ Rider!Riders' : earnings'[s].sum = 0 /\ earnings'[s].rows = 0
    BY <1>4 DEF RiderCalm
<1> QED BY <1>2, <1>3, <1>6, <1>7, <1>8 DEF RiderCalm

\* In calm, a rider whom no one is at work on adds up.
LEMMA RiderIdleAddsUp ==
    ASSUME RiderCalm, NEW p \in Procs, riderCall[p] = Idle, NEW c, c # Idle,
           RiderIInv, riderCall' = [riderCall EXCEPT ![p] = c],
           Cardinality(BusyIn(riderCall')) <= 1
    PROVE  \A r \in Rider!Riders : AddsUp(r, rider[r])
<1>1. \A q \in Procs \ {p} : riderCall[q] = Idle BY RiderAlone
<1>2. \A q \in Procs : riderCall[q].pc = "idle" BY <1>1 DEF Idle
<1> QED BY <1>2 DEF RiderCalm, RiderBusyAt

LEMMA RiderCalmStep == RiderIInv /\ RiderCalm /\ RiderNext /\ calm' => RiderCalm'
<1> SUFFICES ASSUME RiderIInv, RiderCalm, RiderNext, calm' PROVE RiderCalm'
    OBVIOUS
<1>0. Rider!Idle = Idle /\ Idle.pc = "idle" BY DEF Rider!Idle, Idle
<1>1. CASE Rider!Toggle /\ BusyIn(riderCall) = {}
  <2>1. PICK r \in RiderIds, s \in Switches, on \in BOOLEAN : Rider!UpdateSwitch(r, s, on)
      BY <1>1 DEF Rider!Toggle
  <2>2. r \in Rider!Riders /\ UNCHANGED <<earnings, riderCall>> BY <2>1 DEF Rider!UpdateSwitch
  <2>3. PICK y \in Rider!Row : y = rider[r] BY <2>2 DEF Rider!Riders, RiderIInv, Rider!TypeOK
  <2>4. PICK old : old = asked[r] OBVIOUS
  <2>5. old = y.switches BY <2>2, <2>3, <2>4 DEF RiderCalm, Rider!SwitchesKept
  <2>6. PICK ys : ys = IF on THEN old \cup {s} ELSE old \ {s} OBVIOUS
  <2>7. rider' = [rider EXCEPT ![r] = [y EXCEPT !.switches = ys]]
        /\ asked' = [asked EXCEPT ![r] = ys]
      BY <2>1, <2>3, <2>4, <2>5, <2>6 DEF Rider!UpdateSwitch
  <2>8. PICK x : x = [y EXCEPT !.switches = ys] OBVIOUS
  <2>9. /\ x.user = y.user /\ x.total = y.total /\ x.deliveries = y.deliveries
        /\ x.switches = ys
      BY <2>8 DEF Rider!Row
  <2>10. ys \in SUBSET Switches BY <2>3, <2>5, <2>6 DEF Rider!Row
  <2>11. x \in Rider!Row BY <2>8, <2>10 DEF Rider!Row
  <2>12. /\ \A q \in RiderIds \ {r} : rider'[q] = rider[q] /\ asked'[q] = asked[q]
         /\ rider'[r] = x /\ asked'[r] = ys
      BY <2>2, <2>7, <2>8 DEF RiderIInv, Rider!TypeOK
  <2>13. Rider!Riders' = Rider!Riders BY <2>2, <2>11, <2>12, RiderRowIsThere DEF Rider!Riders
  <2>14. \A p \in Procs : riderCall[p] = Idle BY <1>1 DEF BusyIn
  <2>15. One(riderCall)' /\ \A p \in Procs : RiderCallFits(riderCall[p])'
      BY <1>0, <2>2, <2>14 DEF One, RiderCallFits
  <2>16. \A q \in Rider!Riders : AddsUp(q, rider[q])
      BY <1>0, <2>14 DEF RiderCalm, RiderBusyAt
  <2>17. \A q \in Rider!Riders' : AddsUp(q, rider[q])'
    <3>1. \A q \in Rider!Riders' : rider'[q].total = rider[q].total
                                  /\ rider'[q].deliveries = rider[q].deliveries
        BY <2>3, <2>9, <2>12, <2>13 DEF Rider!Riders
    <3> QED BY <2>2, <2>13, <2>16, <3>1 DEF AddsUp
  <2>18. Rider!OneProfile' /\ Rider!SwitchesKept'
    <3>1. \A q \in Rider!Riders' : rider'[q].user = rider[q].user
        BY <2>3, <2>9, <2>12, <2>13 DEF Rider!Riders
    <3>2. \A q \in Rider!Riders' : rider'[q].switches = asked'[q]
        BY <2>9, <2>12, <2>13 DEF RiderCalm, Rider!SwitchesKept, Rider!Riders
    <3> QED BY <2>13, <3>1, <3>2 DEF RiderCalm, Rider!OneProfile, Rider!SwitchesKept
  <2> QED BY <2>2, <2>13, <2>15, <2>17, <2>18 DEF RiderCalm
<1>2. CASE Cardinality(BusyIn(riderCall')) <= 1
           /\ \E p \in Procs : Rider!Request(p) \/ Rider!Continue(p) \/ Rider!Earn(p)
  <2>1. ASSUME NEW p \in Procs, NEW u \in Users, Rider!CreateRider(p, u) PROVE RiderCalm'
    <3>1. PICK c : c = [pc |-> "create", user |-> u] /\ Rider!Goto(p, c)
        BY <2>1 DEF Rider!CreateRider
    <3>2. c # Idle /\ riderCall[p] = Idle BY <1>0, <2>1, <3>1 DEF Rider!CreateRider
    <3>3. UNCHANGED <<rider, earnings, asked>> BY <2>1 DEF Rider!CreateRider
    <3>4. RiderCallFits(c)'
      <4>1. \A r \in Rider!Riders : rider[r].user # u BY <2>1 DEF Rider!CreateRider
      <4>2. Rider!Riders' = Rider!Riders BY <3>3 DEF Rider!Riders
      <4> QED BY <3>1, <3>3, <4>1, <4>2 DEF RiderCallFits
    <3>5. \A r \in Rider!Riders : AddsUp(r, rider[r])
        BY <1>2, <3>1, <3>2, RiderIdleAddsUp DEF Rider!Goto
    <3>6. \A r \in Rider!Riders : AddsUp(r, rider[r])' BY <3>3, <3>5 DEF AddsUp
    <3> QED BY <1>2, <3>1, <3>2, <3>3, <3>4, <3>6, RiderCalmHeld
  <2>2. ASSUME NEW p \in Procs, NEW r \in RiderIds, Rider!UpdateRider(p, r) PROVE RiderCalm'
    <3>1. PICK c \in Rider!Call :
              /\ Rider!Goto(p, c)
              /\ c.pc = "save" /\ c.id = r /\ r \in Rider!Riders
              /\ c.row.user = rider[r].user
              /\ c.row.total = rider[r].total /\ c.row.deliveries = rider[r].deliveries
              /\ c.row.switches = Rider!Switched(rider[r].switches, c.named, c.on)
        BY <2>2, RiderUpdated
    <3>2. c # Idle /\ riderCall[p] = Idle BY <1>0, <2>2, <3>1 DEF Rider!UpdateRider
    <3>3. UNCHANGED <<rider, earnings, asked>> BY <2>2 DEF Rider!UpdateRider
    <3>4. \A s \in Rider!Riders : AddsUp(s, rider[s])
        BY <1>2, <3>1, <3>2, RiderIdleAddsUp DEF Rider!Goto
    <3>5. rider[r].switches = asked[r] BY <3>1 DEF RiderCalm, Rider!SwitchesKept
    <3>6. RiderCallFits(c)'
      <4>1. AddsUp(r, c.row) BY <3>1, <3>4 DEF AddsUp
      <4> QED BY <3>1, <3>3, <3>5, <4>1 DEF RiderCallFits, AddsUp
    <3>7. \A s \in Rider!Riders : AddsUp(s, rider[s])' BY <3>3, <3>4 DEF AddsUp
    <3> QED BY <1>2, <3>1, <3>2, <3>3, <3>6, <3>7, RiderCalmHeld
  <2>3. ASSUME NEW p \in Procs, Rider!Create(p) PROVE RiderCalm'
    <3>1. riderCall[p].pc = "create" /\ riderCall[p].user \in Users
        BY <2>3, RiderCallTypes DEF Rider!Create
    <3>2. PICK r, x :
              /\ r \in RiderIds \ Rider!Riders
              /\ x = [user |-> riderCall[p].user, switches |-> {"available"},
                      total |-> 0, deliveries |-> 0]
              /\ rider' = [rider EXCEPT ![r] = x]
              /\ asked' = [asked EXCEPT ![r] = {"available"}]
        BY <2>3 DEF Rider!Create
    <3>3. x \in Rider!Row BY <3>1, <3>2, ServicesAssumption DEF Rider!Row
    <3>4. {"available"} \in SUBSET Switches BY ServicesAssumption
    <3>5. \A s \in Rider!Riders \ {r} : rider[s].user # x.user
        BY <3>1, <3>2 DEF RiderCalm, RiderCallFits
    <3>6. UNCHANGED earnings /\ Rider!Return(p) BY <2>3 DEF Rider!Create
    <3>7. AddsUp(r, x)
      <4>1. earnings[r].sum = 0 /\ earnings[r].rows = 0
          BY <3>2 DEF RiderCalm
      <4> QED BY <3>2, <4>1 DEF AddsUp
    <3> QED BY <1>0, <1>2, <3>1, <3>2, <3>3, <3>4, <3>5, <3>6, <3>7, RiderCalmWritten
  <2>4. ASSUME NEW p \in Procs, Rider!Save(p) PROVE RiderCalm'
    <3>1. PICK c : c = riderCall[p] OBVIOUS
    <3>2. /\ c.pc = "save" /\ c.id \in Rider!Riders /\ c.id \in RiderIds /\ c.row \in Rider!Row
          /\ c.named \in SUBSET Switches /\ c.on \in SUBSET Switches
        BY <2>4, <3>1, RiderCallTypes DEF Rider!Save, RiderIInv
    <3>3. /\ c.row.user = rider[c.id].user
          /\ c.row.switches = Rider!Switched(asked[c.id], c.named, c.on)
          /\ AddsUp(c.id, c.row)
        BY <3>1, <3>2 DEF RiderCalm, RiderCallFits
    <3>4. PICK a : a = Rider!Switched(asked[c.id], c.named, c.on) OBVIOUS
    <3>5. a \in SUBSET Switches BY <3>2, <3>3, <3>4 DEF Rider!Row
    <3>6. /\ rider' = [rider EXCEPT ![c.id] = c.row] /\ asked' = [asked EXCEPT ![c.id] = a]
          /\ UNCHANGED earnings /\ Rider!Return(p)
        BY <2>4, <3>1, <3>4 DEF Rider!Save
    <3>7. \A s \in Rider!Riders \ {c.id} : rider[s].user # c.row.user
        BY <3>2, <3>3 DEF RiderCalm, Rider!OneProfile
    <3> QED BY <1>0, <1>2, <3>1, <3>2, <3>3, <3>4, <3>5, <3>6, <3>7, RiderCalmWritten
  <2>5. ASSUME NEW p \in Procs, Rider!Count(p) PROVE RiderCalm'
    <3>1. PICK r, x :
              /\ r \in RiderIds
              /\ r = riderCall[p].id /\ r \in Rider!Riders /\ riderCall[p].pc = "count"
              /\ x = [rider[r] EXCEPT !.total = @ + 1, !.deliveries = @ + 1]
              /\ Rider!Goto(p, [pc |-> "save", id |-> r, named |-> {}, on |-> {}, row |-> x])
        BY <2>5, RiderCallTypes DEF Rider!Count, RiderIInv
    <3>2. PICK y \in Rider!Row : y = rider[r] BY <3>1 DEF Rider!Riders, RiderIInv, Rider!TypeOK
    <3>3. /\ x.user = y.user /\ x.switches = y.switches
          /\ x.total = y.total + 1 /\ x.deliveries = y.deliveries + 1
      <4>1. x = [y EXCEPT !.total = y.total + 1, !.deliveries = y.deliveries + 1]
          BY <3>1, <3>2
      <4> QED BY <4>1 DEF Rider!Row
    <3>4. PICK c : c = [pc |-> "save", id |-> r, named |-> {}, on |-> {}, row |-> x] OBVIOUS
    <3>5. UNCHANGED <<rider, earnings, asked>> BY <2>5 DEF Rider!Count
    <3>6. y.total + 1 = earnings[r].sum /\ y.deliveries + 1 = earnings[r].rows
        BY <3>1, <3>2 DEF RiderCalm, RiderCallFits
    <3>7. x.switches = Rider!Switched(asked[r], {}, {})
        BY <3>1, <3>2, <3>3 DEF RiderCalm, Rider!SwitchesKept, Rider!Switched
    <3>8. RiderCallFits(c)'
        BY <3>2, <3>3, <3>4, <3>5, <3>6, <3>7 DEF RiderCallFits, AddsUp
    <3>9. \A s \in Rider!Riders : AddsUp(s, rider[s])' \/ s = r
      <4>1. riderCall[p] # Idle BY <1>0, <3>1
      <4>2. \A q \in Procs \ {p} : riderCall[q] = Idle BY <4>1 DEF RiderCalm, One
      <4>3. \A s \in Rider!Riders \ {r} : ~RiderBusyAt(s)
          BY <1>0, <3>1, <4>2 DEF RiderBusyAt
      <4> QED BY <3>5, <4>3 DEF RiderCalm, AddsUp
    <3>10. riderCall[p] # Idle BY <1>0, <3>1
    <3>11. Rider!Goto(p, c) /\ c.pc = "save" /\ c.id = r BY <3>1, <3>4
    <3> QED BY <1>2, <3>5, <3>8, <3>9, <3>10, <3>11, RiderCalmHeld
  <2>6. ASSUME NEW p \in Procs, NEW r \in RiderIds, Rider!AddEarning(p, r, 1) PROVE RiderCalm'
    <3>1. PICK c : c = [pc |-> "count", id |-> r, amount |-> 1] /\ Rider!Goto(p, c)
        BY <2>6 DEF Rider!AddEarning
    <3>2. c # Idle /\ riderCall[p] = Idle BY <1>0, <2>6, <3>1 DEF Rider!AddEarning
    <3>3. UNCHANGED <<rider, asked>> /\ r \in Rider!Riders BY <2>6 DEF Rider!AddEarning
    <3>4. \A s \in Rider!Riders : AddsUp(s, rider[s])
        BY <1>2, <3>1, <3>2, RiderIdleAddsUp DEF Rider!Goto
    <3>5. /\ earnings'[r].rows = earnings[r].rows + 1 /\ earnings'[r].sum = earnings[r].sum + 1
          /\ \A s \in RiderIds \ {r} : earnings'[s] = earnings[s]
        BY <2>6 DEF Rider!AddEarning, RiderIInv, Rider!TypeOK
    <3>6. RiderCallFits(c)' BY <3>1, <3>3, <3>4, <3>5 DEF RiderCallFits, AddsUp
    <3>7. \A s \in Rider!Riders : AddsUp(s, rider[s])' \/ s = r
        BY <3>3, <3>4, <3>5 DEF AddsUp, Rider!Riders
    <3>8. \A s \in RiderIds \ Rider!Riders : earnings'[s] = earnings[s] BY <3>3, <3>5
    <3>9. c.pc \in {"count", "save"} /\ c.id = r BY <3>1
    <3> QED BY <1>2, <3>1, <3>2, <3>3, <3>6, <3>7, <3>8, <3>9, RiderCalmHeld
  <2> QED BY <1>2, <2>1, <2>2, <2>3, <2>4, <2>5, <2>6
          DEF Rider!Request, Rider!Continue, Rider!Earn
<1> QED BY <1>1, <1>2 DEF RiderNext, CalmAfter

-----------------------------------------------------------------------------
(* Accounts and tokens.                                                    *)

\* A token that a handler is about to replace or delete has been issued.
AuthHeldIssued ==
    \A p \in Procs :
        /\ authCall[p].pc = "revoke" => token[authCall[p].old] \in Auth!Token
        /\ authCall[p].pc = "issue" /\ authCall[p].old # NoToken =>
               token[authCall[p].old] \in Auth!Token

AuthIInv == Auth!TypeOK /\ AuthHeldIssued /\ Auth!OneAccountPerPhone

LEMMA AuthInit == Passwords # {} /\ Auth!Init => AuthIInv
BY DEF Auth!Init, AuthIInv, Auth!TypeOK, AuthHeldIssued, Auth!OneAccountPerPhone, Auth!Accounts,
   Auth!Idle

\* A handler that holds c next, while no row changes.
LEMMA AuthHeld ==
    ASSUME AuthIInv, NEW p \in Procs, NEW c \in {Auth!Idle} \cup Auth!Call, Auth!Goto(p, c),
           c.pc = "issue" /\ c.old # NoToken => token[c.old] \in Auth!Token,
           c.pc = "revoke" => token[c.old] \in Auth!Token,
           UNCHANGED <<user, token, secret, spent>>
    PROVE  AuthIInv'
<1>1. authCall' = [authCall EXCEPT ![p] = c] BY DEF Auth!Goto
<1>2. Auth!TypeOK' BY <1>1 DEF AuthIInv, Auth!TypeOK
<1>3. AuthHeldIssued' BY <1>1 DEF AuthIInv, Auth!TypeOK, AuthHeldIssued
<1>4. Auth!OneAccountPerPhone' BY DEF AuthIInv, Auth!OneAccountPerPhone, Auth!Accounts
<1> QED BY <1>2, <1>3, <1>4 DEF AuthIInv

LEMMA AuthReturned ==
    ASSUME AuthIInv, NEW p \in Procs, Auth!Return(p), UNCHANGED <<user, token, secret, spent>>
    PROVE  AuthIInv'
<1>1. Auth!Goto(p, Auth!Idle) BY DEF Auth!Return
<1>2. Auth!Idle.pc = "idle" BY DEF Auth!Idle
<1> QED BY <1>1, <1>2, AuthHeld

\* A row that the index lets in keeps the numbers apart.
LEMMA AuthUniqueKeeps ==
    ASSUME AuthIInv, NEW i \in Ids, NEW x \in Auth!User, Auth!Unique(i, x.phone),
           user' = [user EXCEPT ![i] = x]
    PROVE  user' \in [Ids -> {Auth!Absent} \cup Auth!User] /\ Auth!OneAccountPerPhone'
<1>1. user \in [Ids -> {Auth!Absent} \cup Auth!User] BY DEF AuthIInv, Auth!TypeOK
<1>2. user' \in [Ids -> {Auth!Absent} \cup Auth!User] BY <1>1
<1>3. ASSUME NEW j \in Auth!Accounts', NEW k \in Auth!Accounts', user'[j].phone = user'[k].phone
      PROVE  j = k
  <2>1. j \in Ids /\ k \in Ids BY DEF Auth!Accounts
  <2>2. \A l \in Auth!Accounts' \ {i} : l \in Auth!Accounts /\ user'[l] = user[l]
      BY <1>1 DEF Auth!Accounts
  <2>3. user'[i] = x BY <1>1
  <2>4. CASE j = i /\ k # i BY <1>3, <2>1, <2>2, <2>3, <2>4 DEF Auth!Unique
  <2>5. CASE k = i /\ j # i BY <1>3, <2>1, <2>2, <2>3, <2>5 DEF Auth!Unique
  <2>6. CASE j # i /\ k # i BY <1>3, <2>1, <2>2, <2>6 DEF AuthIInv, Auth!OneAccountPerPhone
  <2> QED BY <2>4, <2>5, <2>6
<1> QED BY <1>2, <1>3 DEF Auth!OneAccountPerPhone

LEMMA AuthRequestStep ==
    ASSUME AuthIInv, NEW p \in Procs, Auth!Request(p)
    PROVE  AuthIInv'
<1>1. ASSUME NEW x \in Auth!User, Auth!Register(p, x) PROVE AuthIInv'
  <2>1. [pc |-> "create", row |-> x] \in Auth!Call BY DEF Auth!Call
  <2> QED BY <1>1, <2>1, AuthHeld DEF Auth!Register
<1>2. ASSUME NEW i \in Ids, Auth!Login(p, i) PROVE AuthIInv'
  <2>1. [pc |-> "issue", id |-> i, old |-> NoToken] \in Auth!Call BY DEF Auth!Call
  <2> QED BY <1>2, <2>1, AuthHeld DEF Auth!Login
<1>3. ASSUME NEW i \in Ids, Auth!UpdateProfile(p, i) PROVE AuthIInv'
  <2>1. user[i] \in Auth!User
      BY <1>3 DEF Auth!UpdateProfile, Auth!Accounts, AuthIInv, Auth!TypeOK
  <2>2. [pc |-> "save", id |-> i, row |-> user[i]] \in Auth!Call
      BY <2>1 DEF Auth!Call
  <2> QED BY <1>3, <2>2, AuthHeld DEF Auth!UpdateProfile
<1>4. ASSUME NEW i \in Ids, NEW new \in Passwords, Auth!ChangePassword(p, i, new) PROVE AuthIInv'
  <2>1. user[i] \in Auth!User
      BY <1>4 DEF Auth!ChangePassword, Auth!Accounts, AuthIInv, Auth!TypeOK
  <2>2. PICK x : x = [user[i] EXCEPT !.password = new] OBVIOUS
  <2>3. x \in Auth!User BY <2>1, <2>2 DEF Auth!User
  <2>4. [pc |-> "change", id |-> i, row |-> x, secret |-> new] \in Auth!Call
      BY <2>3 DEF Auth!Call
  <2> QED BY <1>4, <2>2, <2>4, AuthHeld DEF Auth!ChangePassword
<1>5. ASSUME NEW t \in Tokens, Auth!FindByToken(p, t) PROVE AuthIInv'
  <2>1. token[t] \in Auth!Token BY <1>5 DEF Auth!FindByToken, AuthIInv, Auth!TypeOK, Auth!Unissued
  <2>2. [pc |-> "issue", id |-> token[t].of, old |-> t] \in Auth!Call
      BY <2>1 DEF Auth!Call, Auth!Token
  <2> QED BY <1>5, <2>1, <2>2, AuthHeld DEF Auth!FindByToken
<1> QED BY <1>1, <1>2, <1>3, <1>4, <1>5 DEF Auth!Request

LEMMA AuthCreateStep ==
    ASSUME AuthIInv, NEW p \in Procs, Auth!Create(p)
    PROVE  AuthIInv'
<1>1. authCall[p] \in Auth!Call /\ authCall[p].row \in Auth!User
    BY DEF Auth!Create, AuthIInv, Auth!TypeOK, Auth!Call, Auth!Idle
<1>2. PICK i \in Ids : /\ Auth!Unique(i, authCall[p].row.phone)
                       /\ user' = [user EXCEPT ![i] = authCall[p].row]
                       /\ secret' = [secret EXCEPT ![i] = authCall[p].row.password]
                       /\ Auth!Goto(p, [pc |-> "issue", id |-> i, old |-> NoToken])
    BY DEF Auth!Create, Auth!Accounts
<1>3. PICK c : /\ c = [pc |-> "issue", id |-> i, old |-> NoToken]
               /\ authCall' = [authCall EXCEPT ![p] = c]
    BY <1>2 DEF Auth!Goto
<1>4. c \in Auth!Call BY <1>3 DEF Auth!Call
<1>5. user' \in [Ids -> {Auth!Absent} \cup Auth!User] /\ Auth!OneAccountPerPhone'
    BY <1>1, <1>2, AuthUniqueKeeps
<1>6. secret' \in [Ids -> Passwords] BY <1>1, <1>2 DEF AuthIInv, Auth!TypeOK, Auth!User
<1>7. UNCHANGED <<token, spent>> BY DEF Auth!Create
<1>8. AuthHeldIssued' BY <1>3, <1>7 DEF AuthIInv, Auth!TypeOK, AuthHeldIssued
<1> QED BY <1>3, <1>4, <1>5, <1>6, <1>7, <1>8 DEF AuthIInv, Auth!TypeOK

LEMMA AuthGenerateStep ==
    ASSUME AuthIInv, NEW p \in Procs, Auth!GenerateRefreshToken(p)
    PROVE  AuthIInv'
<1> DEFINE old == authCall[p].old
<1>1. /\ authCall[p].id \in Ids /\ old \in Tokens \cup {NoToken}
      /\ old # NoToken => token[old] \in Auth!Token
    BY DEF Auth!GenerateRefreshToken, AuthIInv, Auth!TypeOK, AuthHeldIssued, Auth!Call,
       Auth!Idle, Auth!Accounts
<1>2. PICK t \in Tokens :
          /\ token[t] = Auth!Unissued
          /\ token' = [token EXCEPT ![t] = [status |-> "stored", of |-> authCall[p].id]]
    BY DEF Auth!GenerateRefreshToken
<1>3. [status |-> "stored", of |-> authCall[p].id] \in Auth!Token BY <1>1 DEF Auth!Token
<1>4. token' \in [Tokens -> {Auth!Unissued} \cup Auth!Token]
    BY <1>2, <1>3 DEF AuthIInv, Auth!TypeOK
<1>5. \A u \in Tokens : token[u] \in Auth!Token => token'[u] \in Auth!Token
    BY <1>2, <1>3 DEF AuthIInv, Auth!TypeOK
<1>6. spent' \in [Tokens -> Nat]
  <2>1. spent' = [u \in Tokens |-> spent[u] + (IF u = authCall[p].old THEN 1 ELSE 0)]
      BY DEF Auth!GenerateRefreshToken
  <2> QED BY <2>1 DEF AuthIInv, Auth!TypeOK
<1>7. PICK c : /\ c = IF old = NoToken THEN Auth!Idle ELSE [pc |-> "revoke", old |-> old]
               /\ authCall' = [authCall EXCEPT ![p] = c]
    BY DEF Auth!GenerateRefreshToken, Auth!AfterIssue, Auth!Return, Auth!Goto
<1>8. c \in {Auth!Idle} \cup Auth!Call
  <2>1. CASE old = NoToken BY <1>7, <2>1
  <2>2. CASE old # NoToken BY <1>1, <1>7, <2>2 DEF Auth!Call
  <2> QED BY <2>1, <2>2
<1>9. c.pc = "revoke" => token[c.old] \in Auth!Token BY <1>1, <1>7 DEF Auth!Idle
<1>10. c.pc # "issue" BY <1>7 DEF Auth!Idle
<1>11. UNCHANGED <<user, secret>> BY DEF Auth!GenerateRefreshToken
<1>12. AuthHeldIssued'
  <2>1. SUFFICES ASSUME NEW q \in Procs
                 PROVE  /\ authCall'[q].pc = "revoke" => token'[authCall'[q].old] \in Auth!Token
                        /\ authCall'[q].pc = "issue" /\ authCall'[q].old # NoToken =>
                             token'[authCall'[q].old] \in Auth!Token
      BY DEF AuthHeldIssued
  <2>2. CASE q = p
    <3>1. authCall'[q] = c BY <1>7, <2>2 DEF AuthIInv, Auth!TypeOK
    <3>2. c.pc = "revoke" => c.old \in Tokens BY <1>1, <1>7 DEF Auth!Idle
    <3> QED BY <1>5, <1>9, <1>10, <3>1, <3>2
  <2>3. CASE q # p
    <3>1. authCall'[q] = authCall[q] /\ authCall[q] \in {Auth!Idle} \cup Auth!Call
        BY <1>7, <2>3 DEF AuthIInv, Auth!TypeOK
    <3>2. authCall[q].pc = "revoke" => authCall[q].old \in Tokens BY <3>1 DEF Auth!Call, Auth!Idle
    <3>3. authCall[q].pc = "issue" /\ authCall[q].old # NoToken => authCall[q].old \in Tokens
        BY <3>1 DEF Auth!Call, Auth!Idle
    <3> QED BY <1>5, <3>1, <3>2, <3>3 DEF AuthIInv, AuthHeldIssued
  <2> QED BY <2>2, <2>3
<1>13. Auth!OneAccountPerPhone' BY <1>11 DEF AuthIInv, Auth!OneAccountPerPhone, Auth!Accounts
<1> QED BY <1>4, <1>6, <1>7, <1>8, <1>11, <1>12, <1>13 DEF AuthIInv, Auth!TypeOK

\* A token whose status changes is still a token.
LEMMA TokenRestated ==
    ASSUME AuthIInv, NEW t \in Tokens, token[t] \in Auth!Token, NEW s \in {"expired", "deleted"},
           token' = [token EXCEPT ![t].status = s]
    PROVE  /\ token' \in [Tokens -> {Auth!Unissued} \cup Auth!Token]
           /\ \A u \in Tokens : token[u] \in Auth!Token => token'[u] \in Auth!Token
<1>1. PICK r : r = [token[t] EXCEPT !.status = s] OBVIOUS
<1>2. r \in Auth!Token BY <1>1 DEF Auth!Token
<1>3. token' = [token EXCEPT ![t] = r] BY <1>1
<1> QED BY <1>2, <1>3 DEF AuthIInv, Auth!TypeOK

\* Tokens that stay tokens leave what the handlers hold as it was.
LEMMA AuthStillHeld ==
    ASSUME AuthIInv, NEW p \in Procs,
           \A u \in Tokens : token[u] \in Auth!Token => token'[u] \in Auth!Token
    PROVE  /\ authCall[p].pc = "revoke" => token'[authCall[p].old] \in Auth!Token
           /\ authCall[p].pc = "issue" /\ authCall[p].old # NoToken =>
                  token'[authCall[p].old] \in Auth!Token
<1>1. authCall[p] \in {Auth!Idle} \cup Auth!Call BY DEF AuthIInv, Auth!TypeOK
<1>2. authCall[p].pc = "revoke" => authCall[p].old \in Tokens BY <1>1 DEF Auth!Call, Auth!Idle
<1>3. authCall[p].pc = "issue" /\ authCall[p].old # NoToken => authCall[p].old \in Tokens
    BY <1>1 DEF Auth!Call, Auth!Idle
<1> QED BY <1>2, <1>3 DEF AuthIInv, AuthHeldIssued

LEMMA AuthRevokeStep ==
    ASSUME AuthIInv, NEW p \in Procs, Auth!Revoke(p)
    PROVE  AuthIInv'
<1>1. authCall[p].old \in Tokens /\ token[authCall[p].old] \in Auth!Token
    BY DEF Auth!Revoke, AuthIInv, Auth!TypeOK, AuthHeldIssued, Auth!Call, Auth!Idle
<1>2. token' = [token EXCEPT ![authCall[p].old].status = "deleted"] BY DEF Auth!Revoke
<1>3. /\ token' \in [Tokens -> {Auth!Unissued} \cup Auth!Token]
      /\ \A u \in Tokens : token[u] \in Auth!Token => token'[u] \in Auth!Token
    BY <1>1, <1>2, TokenRestated
<1>4. authCall' = [authCall EXCEPT ![p] = Auth!Idle] /\ UNCHANGED <<user, secret, spent>>
    BY DEF Auth!Revoke, Auth!Return, Auth!Goto
<1>5. AuthHeldIssued'
  <2>1. \A q \in Procs : authCall'[q] = Auth!Idle \/ authCall'[q] = authCall[q]
      BY <1>4 DEF AuthIInv, Auth!TypeOK
  <2> QED BY <1>3, <2>1, AuthStillHeld DEF AuthHeldIssued, Auth!Idle
<1>6. Auth!OneAccountPerPhone' BY <1>4 DEF AuthIInv, Auth!OneAccountPerPhone, Auth!Accounts
<1> QED BY <1>3, <1>4, <1>5, <1>6 DEF AuthIInv, Auth!TypeOK

LEMMA AuthSaveStep ==
    ASSUME AuthIInv, NEW p \in Procs, Auth!Save(p)
    PROVE  AuthIInv'
<1>1. /\ authCall[p].id \in Ids /\ authCall[p].row \in Auth!User
      /\ authCall[p].pc = "change" => authCall[p].secret \in Passwords
    BY DEF Auth!Save, AuthIInv, Auth!TypeOK, Auth!Call, Auth!Idle
<1>2. user' \in [Ids -> {Auth!Absent} \cup Auth!User] /\ Auth!OneAccountPerPhone'
    BY <1>1, AuthUniqueKeeps DEF Auth!Save
<1>3. secret' \in [Ids -> Passwords] BY <1>1 DEF Auth!Save, AuthIInv, Auth!TypeOK
<1>4. authCall' = [authCall EXCEPT ![p] = Auth!Idle] /\ UNCHANGED <<token, spent>>
    BY DEF Auth!Save, Auth!Return, Auth!Goto
<1>5. AuthHeldIssued' BY <1>4 DEF AuthIInv, Auth!TypeOK, AuthHeldIssued, Auth!Idle
<1> QED BY <1>2, <1>3, <1>4, <1>5 DEF AuthIInv, Auth!TypeOK

LEMMA AuthOthersStep ==
    ASSUME AuthIInv, Auth!Others
    PROVE  AuthIInv'
<1>1. ASSUME NEW i \in Ids, Auth!DeleteAccount(i) PROVE AuthIInv'
  <2>1. user' = [user EXCEPT ![i] = Auth!Absent] /\ UNCHANGED <<token, authCall, secret, spent>>
      BY <1>1 DEF Auth!DeleteAccount
  <2>2. Auth!TypeOK' BY <2>1 DEF AuthIInv, Auth!TypeOK
  <2>3. AuthHeldIssued' BY <2>1 DEF AuthIInv, AuthHeldIssued
  <2>4. \A j \in Auth!Accounts' : j \in Auth!Accounts /\ user'[j] = user[j]
      BY <2>1 DEF AuthIInv, Auth!TypeOK, Auth!Accounts
  <2>5. Auth!OneAccountPerPhone' BY <2>4 DEF AuthIInv, Auth!OneAccountPerPhone
  <2> QED BY <2>2, <2>3, <2>5 DEF AuthIInv
<1>2. ASSUME NEW t \in Tokens, Auth!Expire(t) PROVE AuthIInv'
  <2>1. token[t] \in Auth!Token BY <1>2 DEF Auth!Expire, AuthIInv, Auth!TypeOK, Auth!Unissued
  <2>2. /\ token' \in [Tokens -> {Auth!Unissued} \cup Auth!Token]
        /\ \A u \in Tokens : token[u] \in Auth!Token => token'[u] \in Auth!Token
      BY <1>2, <2>1, TokenRestated DEF Auth!Expire
  <2>3. UNCHANGED <<user, authCall, secret, spent>> BY <1>2 DEF Auth!Expire
  <2>4. AuthHeldIssued' BY <2>2, <2>3, AuthStillHeld DEF AuthHeldIssued
  <2>5. Auth!OneAccountPerPhone' BY <2>3 DEF AuthIInv, Auth!OneAccountPerPhone, Auth!Accounts
  <2> QED BY <2>2, <2>3, <2>4, <2>5 DEF AuthIInv, Auth!TypeOK
<1> QED BY <1>1, <1>2 DEF Auth!Others

LEMMA AuthStep == AuthIInv /\ Auth!Next => AuthIInv'
<1> SUFFICES ASSUME AuthIInv, Auth!Next PROVE AuthIInv'
    OBVIOUS
<1>1. CASE Auth!Others BY <1>1, AuthOthersStep
<1>2. ASSUME NEW p \in Procs, Auth!Stop(p) PROVE AuthIInv'
    BY <1>2, AuthReturned DEF Auth!Stop
<1>3. ASSUME NEW p \in Procs, NEW x \in Auth!User, Auth!LookupError(p, x) PROVE AuthIInv'
  <2>1. [pc |-> "create", row |-> x] \in Auth!Call BY DEF Auth!Call
  <2> QED BY <1>3, <2>1, AuthHeld DEF Auth!LookupError
<1>4. ASSUME NEW p \in Procs, Auth!Request(p) PROVE AuthIInv'
    BY <1>4, AuthRequestStep
<1>5. ASSUME NEW p \in Procs, Auth!Continue(p) PROVE AuthIInv'
    BY <1>5, AuthCreateStep, AuthGenerateStep, AuthRevokeStep, AuthSaveStep DEF Auth!Continue
<1> QED BY <1>1, <1>2, <1>3, <1>4, <1>5 DEF Auth!Next, Auth!Fault

\* What a handler is about to do: a token it will replace has not been replaced
\* yet, and what it will save has the password chosen last.
AuthCallFits(c) ==
    /\ c.pc = "issue" /\ c.old # NoToken => spent[c.old] = 0
    /\ c.pc = "save" => c.row.password = secret[c.id]
    /\ c.pc = "change" => c.row.password = c.secret

AuthRevoking(t) == \E p \in Procs : authCall[p].pc = "revoke" /\ authCall[p].old = t

AuthCalm ==
    /\ One(authCall)
    /\ Auth!TokenUsedOnce
    /\ Auth!PasswordKept
    /\ \A p \in Procs : AuthCallFits(authCall[p])
    /\ \A t \in Tokens : spent[t] = 1 =>
                           token[t].status \in {"expired", "deleted"} \/ AuthRevoking(t)

LEMMA AuthCalmInit == Auth!Init => AuthCalm
<1> SUFFICES ASSUME Auth!Init PROVE AuthCalm
    OBVIOUS
<1>1. \A p \in Procs : authCall[p] = Idle /\ authCall[p].pc = "idle"
    BY DEF Auth!Init, Auth!Idle, Idle
<1>2. Auth!Accounts = {} BY DEF Auth!Init, Auth!Accounts
<1>3. \A t \in Tokens : spent[t] = 0 BY DEF Auth!Init
<1> QED BY <1>1, <1>2, <1>3
        DEF AuthCalm, One, Auth!TokenUsedOnce, Auth!PasswordKept, AuthCallFits

\* In calm, whoever is not at work before or after a step of p is idle throughout.
LEMMA AuthAlone ==
    ASSUME AuthIInv, AuthCalm, NEW p \in Procs, NEW c, authCall' = [authCall EXCEPT ![p] = c],
           Cardinality(BusyIn(authCall')) <= 1, authCall[p] # Idle \/ c # Idle
    PROVE  /\ One(authCall)'
           /\ authCall'[p] = c
           /\ \A q \in Procs \ {p} : authCall[q] = Idle /\ authCall'[q] = Idle
<1>1. \A q \in Procs \ {p} : authCall'[q] = authCall[q] BY DEF AuthIInv, Auth!TypeOK
<1>2. authCall'[p] = c BY DEF AuthIInv, Auth!TypeOK
<1>3. PICK g : g = authCall' OBVIOUS
<1>4. One(g) BY <1>1, <1>3, StillOne DEF AuthCalm
<1>5. One(authCall)' BY <1>3, <1>4 DEF One
<1> QED BY <1>1, <1>2, <1>5 DEF AuthCalm, One

\* The handler takes up c, and no table changes.
LEMMA AuthCalmHeld ==
    ASSUME AuthIInv, AuthCalm, NEW p \in Procs, NEW c, Auth!Goto(p, c),
           Cardinality(BusyIn(authCall')) <= 1, c # Idle, authCall[p] = Idle,
           UNCHANGED <<user, token, secret, spent>>, AuthCallFits(c)
    PROVE  AuthCalm'
<1>1. /\ One(authCall)' /\ authCall'[p] = c
      /\ \A q \in Procs \ {p} : authCall[q] = Idle /\ authCall'[q] = Idle
    BY AuthAlone DEF Auth!Goto
<1>2. \A q \in Procs : AuthCallFits(authCall[q])' BY <1>1 DEF AuthCallFits, Idle
<1>3. \A t \in Tokens : ~AuthRevoking(t) BY <1>1 DEF AuthRevoking, Idle
<1> QED BY <1>1, <1>2, <1>3
        DEF AuthCalm, Auth!TokenUsedOnce, Auth!PasswordKept, Auth!Accounts

\* An account is written with the password chosen last, and the handler goes on
\* to issue a first token, or is done.
LEMMA AuthCalmWritten ==
    ASSUME AuthIInv, AuthCalm, NEW p \in Procs, authCall[p] # Idle, authCall[p].pc # "revoke",
           NEW c, authCall' = [authCall EXCEPT ![p] = c],
           c = Idle \/ (c.pc = "issue" /\ c.old = NoToken),
           Cardinality(BusyIn(authCall')) <= 1, UNCHANGED <<token, spent>>,
           NEW i \in Ids, NEW x, user' = [user EXCEPT ![i] = x],
           secret' \in [Ids -> Passwords], secret'[i] = x.password,
           \A j \in Ids \ {i} : secret'[j] = secret[j]
    PROVE  AuthCalm'
<1>1. /\ One(authCall)' /\ authCall'[p] = c
      /\ \A q \in Procs \ {p} : authCall[q] = Idle /\ authCall'[q] = Idle
    BY AuthAlone
<1>2. \A q \in Procs : AuthCallFits(authCall[q])' BY <1>1 DEF AuthCallFits, Idle
<1>3. \A t \in Tokens : ~AuthRevoking(t) BY <1>1 DEF AuthRevoking, Idle
<1>4. Auth!PasswordKept'
  <2>1. SUFFICES ASSUME NEW j \in Auth!Accounts' PROVE user'[j].password = secret'[j]
      BY DEF Auth!PasswordKept
  <2>2. j \in Ids BY DEF Auth!Accounts
  <2>3. CASE j = i BY <2>3 DEF AuthIInv, Auth!TypeOK
  <2>4. CASE j # i
    <3>1. user'[j] = user[j] /\ j \in Auth!Accounts
        BY <2>2, <2>4 DEF AuthIInv, Auth!TypeOK, Auth!Accounts
    <3> QED BY <2>2, <2>4, <3>1 DEF AuthCalm, Auth!PasswordKept
  <2> QED BY <2>3, <2>4
<1> QED BY <1>1, <1>2, <1>3, <1>4 DEF AuthCalm, Auth!TokenUsedOnce

LEMMA AuthCalmGenerate ==
    ASSUME AuthIInv, AuthCalm, NEW p \in Procs, Auth!GenerateRefreshToken(p),
           Cardinality(BusyIn(authCall')) <= 1
    PROVE  AuthCalm'
<1>1. PICK old \in Tokens \cup {NoToken} :
          old = authCall[p].old /\ authCall[p].pc = "issue"
    BY DEF Auth!GenerateRefreshToken, AuthIInv, Auth!TypeOK, Auth!Call, Auth!Idle
<1>2. PICK c : /\ c = IF old = NoToken THEN Auth!Idle ELSE [pc |-> "revoke", old |-> old]
               /\ authCall' = [authCall EXCEPT ![p] = c]
    BY <1>1 DEF Auth!GenerateRefreshToken, Auth!AfterIssue, Auth!Return, Auth!Goto
<1>3. authCall[p] # Idle BY <1>1 DEF Idle
<1>4. /\ One(authCall)' /\ authCall'[p] = c
      /\ \A q \in Procs \ {p} : authCall[q] = Idle /\ authCall'[q] = Idle
    BY <1>2, <1>3, AuthAlone
<1>5. UNCHANGED <<user, secret>> BY DEF Auth!GenerateRefreshToken
<1>6. \A q \in Procs : AuthCallFits(authCall[q])'
    BY <1>2, <1>4 DEF AuthCallFits, Idle, Auth!Idle
<1>7. \A t \in Tokens : ~AuthRevoking(t) BY <1>1, <1>4 DEF AuthRevoking, Idle
<1>8. PICK fresh \in Tokens :
          /\ token[fresh] = Auth!Unissued
          /\ token' = [token EXCEPT ![fresh] = [status |-> "stored", of |-> authCall[p].id]]
    BY DEF Auth!GenerateRefreshToken
<1>9. \A t \in Tokens : spent'[t] = spent[t] + (IF t = old THEN 1 ELSE 0)
    BY <1>1 DEF Auth!GenerateRefreshToken
<1>10. \A t \in Tokens : spent[t] \in Nat /\ spent[t] <= 1
    BY DEF AuthIInv, Auth!TypeOK, AuthCalm, Auth!TokenUsedOnce
<1>11. old # NoToken => spent[old] = 0 BY <1>1 DEF AuthCalm, AuthCallFits
<1>12. Auth!TokenUsedOnce' BY <1>9, <1>10, <1>11, ServicesAssumption DEF Auth!TokenUsedOnce
<1>13. \A t \in Tokens :
           spent'[t] = 1 => token'[t].status \in {"expired", "deleted"} \/ AuthRevoking(t)'
  <2>1. SUFFICES ASSUME NEW t \in Tokens, spent'[t] = 1
                 PROVE  token'[t].status \in {"expired", "deleted"} \/ AuthRevoking(t)'
      OBVIOUS
  <2>2. CASE t = old
    <3>1. c.pc = "revoke" /\ c.old = t BY <1>2, <2>2, ServicesAssumption
    <3> QED BY <1>4, <3>1 DEF AuthRevoking
  <2>3. CASE t # old
    <3>1. spent[t] = 1 BY <1>9, <1>10, <2>1, <2>3
    <3>2. token[t].status \in {"expired", "deleted"} BY <1>7, <3>1 DEF AuthCalm
    <3>3. t # fresh BY <1>8, <3>2 DEF Auth!Unissued
    <3>4. token'[t] = token[t] BY <1>8, <3>3 DEF AuthIInv, Auth!TypeOK
    <3> QED BY <3>2, <3>4
  <2> QED BY <2>2, <2>3
<1> QED BY <1>4, <1>5, <1>6, <1>12, <1>13 DEF AuthCalm, Auth!PasswordKept, Auth!Accounts

LEMMA AuthCalmRevoke ==
    ASSUME AuthIInv, AuthCalm, NEW p \in Procs, Auth!Revoke(p),
           Cardinality(BusyIn(authCall')) <= 1
    PROVE  AuthCalm'
<1>0. Auth!Idle = Idle /\ Idle.pc = "idle" BY DEF Auth!Idle, Idle
<1>1. PICK old \in Tokens :
          old = authCall[p].old /\ authCall[p].pc = "revoke" /\ token[old] \in Auth!Token
    BY DEF Auth!Revoke, AuthIInv, Auth!TypeOK, AuthHeldIssued, Auth!Call, Auth!Idle
<1>2. authCall' = [authCall EXCEPT ![p] = Idle] BY <1>0 DEF Auth!Revoke, Auth!Return, Auth!Goto
<1>3. authCall[p] # Idle BY <1>0, <1>1
<1>4. /\ One(authCall)' /\ authCall'[p] = Idle
      /\ \A q \in Procs \ {p} : authCall[q] = Idle /\ authCall'[q] = Idle
    BY <1>2, <1>3, AuthAlone
<1>5. UNCHANGED <<user, secret, spent>> BY DEF Auth!Revoke
<1>6. \A q \in Procs : AuthCallFits(authCall[q])' BY <1>0, <1>4 DEF AuthCallFits
<1>7. \A t \in Tokens \ {old} : ~AuthRevoking(t) BY <1>0, <1>1, <1>4 DEF AuthRevoking
<1>8. token' = [token EXCEPT ![old].status = "deleted"] BY <1>1 DEF Auth!Revoke
<1>9. /\ token'[old].status = "deleted"
      /\ \A t \in Tokens \ {old} : token'[t] = token[t]
    BY <1>1, <1>8 DEF AuthIInv, Auth!TypeOK, Auth!Token
<1>10. \A t \in Tokens : spent'[t] = 1 => token'[t].status \in {"expired", "deleted"}
    BY <1>5, <1>7, <1>9 DEF AuthCalm
<1> QED BY <1>4, <1>5, <1>6, <1>10
        DEF AuthCalm, Auth!TokenUsedOnce, Auth!PasswordKept, Auth!Accounts

\* Accounts that go and tokens that expire disturb no one.
LEMMA AuthCalmOthers ==
    ASSUME AuthIInv, AuthCalm, Auth!Others
    PROVE  AuthCalm'
<1>1. ASSUME NEW i \in Ids, Auth!DeleteAccount(i) PROVE AuthCalm'
  <2>1. user' = [user EXCEPT ![i] = Auth!Absent] /\ UNCHANGED <<token, authCall, secret, spent>>
      BY <1>1 DEF Auth!DeleteAccount
  <2>2. \A j \in Auth!Accounts' : j \in Auth!Accounts /\ user'[j] = user[j]
      BY <2>1 DEF AuthIInv, Auth!TypeOK, Auth!Accounts
  <2> QED BY <2>1, <2>2
          DEF AuthCalm, One, Auth!TokenUsedOnce, Auth!PasswordKept, AuthCallFits, AuthRevoking
<1>2. ASSUME NEW t \in Tokens, Auth!Expire(t) PROVE AuthCalm'
  <2>1. UNCHANGED <<user, authCall, secret, spent>> BY <1>2 DEF Auth!Expire
  <2>2. /\ token'[t].status = "expired" /\ \A u \in Tokens \ {t} : token'[u] = token[u]
    <3>1. token[t] \in Auth!Token BY <1>2 DEF Auth!Expire, AuthIInv, Auth!TypeOK, Auth!Unissued
    <3> QED BY <1>2, <3>1 DEF Auth!Expire, AuthIInv, Auth!TypeOK, Auth!Token
  <2>3. \A u \in Tokens : spent'[u] = 1 => token'[u].status \in {"expired", "deleted"}
                                          \/ AuthRevoking(u)'
      BY <2>1, <2>2 DEF AuthCalm, AuthRevoking
  <2> QED BY <2>1, <2>3
          DEF AuthCalm, One, Auth!TokenUsedOnce, Auth!PasswordKept, AuthCallFits, Auth!Accounts
<1> QED BY <1>1, <1>2 DEF Auth!Others

LEMMA AuthCalmStep == AuthIInv /\ AuthCalm /\ AuthNext /\ calm' => AuthCalm'
<1> SUFFICES ASSUME AuthIInv, AuthCalm, AuthNext, calm' PROVE AuthCalm'
    OBVIOUS
<1>0. Auth!Idle = Idle /\ Idle.pc = "idle" BY DEF Auth!Idle, Idle
<1>1. CASE Auth!Others BY <1>1, AuthCalmOthers
<1>2. ASSUME Cardinality(BusyIn(authCall')) <= 1, NEW p \in Procs, Auth!Request(p)
      PROVE  AuthCalm'
  <2>1. ASSUME NEW c, c # Idle, Auth!Goto(p, c), AuthCallFits(c), authCall[p] = Auth!Idle,
               UNCHANGED <<user, token, secret, spent>>
        PROVE  AuthCalm'
      BY <1>0, <1>2, <2>1, AuthCalmHeld
  <2>2. ASSUME NEW x \in Auth!User, Auth!Register(p, x) PROVE AuthCalm'
    <3>1. PICK c : c = [pc |-> "create", row |-> x] OBVIOUS
    <3>2. c # Idle /\ AuthCallFits(c) BY <1>0, <3>1 DEF AuthCallFits
    <3> QED BY <2>1, <2>2, <3>1, <3>2 DEF Auth!Register
  <2>3. ASSUME NEW i \in Ids, Auth!Login(p, i) PROVE AuthCalm'
    <3>1. PICK c : c = [pc |-> "issue", id |-> i, old |-> NoToken] OBVIOUS
    <3>2. c # Idle /\ AuthCallFits(c) BY <1>0, <3>1 DEF AuthCallFits
    <3> QED BY <2>1, <2>3, <3>1, <3>2 DEF Auth!Login
  <2>4. ASSUME NEW i \in Ids, Auth!UpdateProfile(p, i) PROVE AuthCalm'
    <3>1. PICK c : c = [pc |-> "save", id |-> i, row |-> user[i]] OBVIOUS
    <3>2. user[i].password = secret[i]
        BY <2>4 DEF Auth!UpdateProfile, AuthCalm, Auth!PasswordKept
    <3>3. c # Idle /\ AuthCallFits(c) BY <1>0, <3>1, <3>2 DEF AuthCallFits
    <3> QED BY <2>1, <2>4, <3>1, <3>3 DEF Auth!UpdateProfile
  <2>5. ASSUME NEW i \in Ids, NEW new \in Passwords, Auth!ChangePassword(p, i, new)
        PROVE  AuthCalm'
    <3>1. PICK x : x = [user[i] EXCEPT !.password = new] OBVIOUS
    <3>2. x.password = new
      <4>1. user[i] \in Auth!User
          BY <2>5 DEF Auth!ChangePassword, Auth!Accounts, AuthIInv, Auth!TypeOK
      <4> QED BY <3>1, <4>1 DEF Auth!User
    <3>3. PICK c : c = [pc |-> "change", id |-> i, row |-> x, secret |-> new] OBVIOUS
    <3>4. c # Idle /\ AuthCallFits(c) BY <1>0, <3>2, <3>3 DEF AuthCallFits
    <3> QED BY <2>1, <2>5, <3>1, <3>3, <3>4 DEF Auth!ChangePassword
  <2>6. ASSUME NEW t \in Tokens, Auth!FindByToken(p, t) PROVE AuthCalm'
    <3>1. PICK c : c = [pc |-> "issue", id |-> token[t].of, old |-> t] OBVIOUS
    <3>2. c # Idle /\ authCall[p] = Idle BY <1>0, <2>6, <3>1 DEF Auth!FindByToken
    <3>3. \A q \in Procs \ {p} : authCall[q] = Idle
        BY <1>2, <2>6, <3>1, <3>2, AuthAlone DEF Auth!FindByToken, Auth!Goto
    <3>4. ~AuthRevoking(t) BY <1>0, <3>2, <3>3 DEF AuthRevoking
    <3>5. spent[t] = 0
      <4>1. spent[t] \in Nat /\ spent[t] <= 1
          BY DEF AuthIInv, Auth!TypeOK, AuthCalm, Auth!TokenUsedOnce
      <4>2. token[t].status = "stored" BY <2>6 DEF Auth!FindByToken
      <4>3. spent[t] # 1 BY <3>4, <4>2 DEF AuthCalm
      <4> QED BY <4>1, <4>3
    <3>6. AuthCallFits(c) BY <3>1, <3>5 DEF AuthCallFits
    <3> QED BY <2>1, <2>6, <3>1, <3>2, <3>6 DEF Auth!FindByToken
  <2> QED BY <1>2, <2>2, <2>3, <2>4, <2>5, <2>6 DEF Auth!Request
<1>3. ASSUME Cardinality(BusyIn(authCall')) <= 1, NEW p \in Procs, Auth!Create(p)
      PROVE  AuthCalm'
  <2>1. authCall[p].pc = "create" /\ authCall[p].row \in Auth!User
      BY <1>3 DEF Auth!Create, AuthIInv, Auth!TypeOK, Auth!Call, Auth!Idle
  <2>2. PICK i, x, c :
            /\ i \in Ids /\ x \in Auth!User
            /\ user' = [user EXCEPT ![i] = x] /\ secret' = [secret EXCEPT ![i] = x.password]
            /\ c.pc = "issue" /\ c.old = NoToken
            /\ authCall' = [authCall EXCEPT ![p] = c]
    <3>1. PICK x \in Auth!User : x = authCall[p].row BY <2>1
    <3>2. PICK i \in Ids :
              /\ user' = [user EXCEPT ![i] = x] /\ secret' = [secret EXCEPT ![i] = x.password]
              /\ Auth!Goto(p, [pc |-> "issue", id |-> i, old |-> NoToken])
        BY <1>3, <3>1 DEF Auth!Create, Auth!Accounts
    <3>3. PICK c : c = [pc |-> "issue", id |-> i, old |-> NoToken] OBVIOUS
    <3> QED BY <3>2, <3>3 DEF Auth!Goto
  <2>3. /\ secret' \in [Ids -> Passwords] /\ secret'[i] = x.password
        /\ \A j \in Ids \ {i} : secret'[j] = secret[j]
      BY <2>2 DEF AuthIInv, Auth!TypeOK, Auth!User
  <2>4. UNCHANGED <<token, spent>> BY <1>3 DEF Auth!Create
  <2>5. authCall[p] # Idle BY <1>0, <2>1
  <2> QED BY <1>3, <2>1, <2>2, <2>3, <2>4, <2>5, AuthCalmWritten
<1>4. ASSUME Cardinality(BusyIn(authCall')) <= 1, NEW p \in Procs, Auth!Save(p)
      PROVE  AuthCalm'
  <2>1. PICK c : c = authCall[p] OBVIOUS
  <2>2. /\ c.pc \in {"save", "change"} /\ c.id \in Ids /\ c.row \in Auth!User
        /\ c.pc = "change" => c.secret \in Passwords
      BY <1>4, <2>1 DEF Auth!Save, AuthIInv, Auth!TypeOK, Auth!Call, Auth!Idle
  <2>3. AuthCallFits(c) BY <2>1 DEF AuthCalm
  <2>4. user' = [user EXCEPT ![c.id] = c.row] /\ UNCHANGED <<token, spent>>
      BY <1>4, <2>1 DEF Auth!Save
  <2>5. authCall' = [authCall EXCEPT ![p] = Idle]
      BY <1>0, <1>4 DEF Auth!Save, Auth!Return, Auth!Goto
  <2>6. /\ secret' \in [Ids -> Passwords] /\ secret'[c.id] = c.row.password
        /\ \A j \in Ids \ {c.id} : secret'[j] = secret[j]
    <3>1. CASE c.pc = "save"
      <4>1. secret' = secret BY <1>4, <2>1, <3>1 DEF Auth!Save
      <4> QED BY <2>2, <2>3, <3>1, <4>1 DEF AuthCallFits, AuthIInv, Auth!TypeOK
    <3>2. CASE c.pc = "change"
      <4>1. secret' = [secret EXCEPT ![c.id] = c.secret] BY <1>4, <2>1, <3>2 DEF Auth!Save
      <4> QED BY <2>2, <2>3, <3>2, <4>1 DEF AuthCallFits, AuthIInv, Auth!TypeOK
    <3> QED BY <2>2, <3>1, <3>2
  <2>7. authCall[p] # Idle /\ authCall[p].pc # "revoke" BY <1>0, <2>1, <2>2
  <2>8. PICK i, x : i \in Ids /\ i = c.id /\ x = c.row BY <2>2
  <2>9. \A j \in Ids \ {i} : secret'[j] = secret[j] BY <2>6, <2>8
  <2> QED BY <1>4, <2>4, <2>5, <2>6, <2>7, <2>8, <2>9, AuthCalmWritten
<1> QED BY <1>1, <1>2, <1>3, <1>4, AuthCalmGenerate, AuthCalmRevoke
        DEF AuthNext, CalmAfter, Auth!Continue

-----------------------------------------------------------------------------
(* Restaurants and their menu.                                             *)

RestaurantCallTypes(c) ==
    /\ c.pc \in {"save", "invalidate"} => c.x \in Restaurant!Rows
    /\ c.pc = "save" => c.of \in Categories \cup {NoCategory} /\ c.was \in Nat
    /\ c.pc = "fill" => c.key \in Restaurant!Lists /\ c.list \in SUBSET (Restaurant!Rows \X Nat)

LEMMA RestaurantHolds ==
    ASSUME Restaurant!TypeOK, NEW p \in Procs
    PROVE  RestaurantCallTypes(restaurantCall[p])
BY DEF Restaurant!TypeOK, Restaurant!Call, Restaurant!Idle, RestaurantCallTypes

LEMMA RestaurantInit == Restaurant!Init => Restaurant!TypeOK
BY DEF Restaurant!Init, Restaurant!TypeOK, Restaurant!None, Restaurant!Entry

LEMMA ContentType ==
    ASSUME Restaurant!TypeOK, NEW k
    PROVE  Restaurant!Content(k) \in SUBSET (Restaurant!Rows \X Nat)
BY DEF Restaurant!TypeOK, Restaurant!Content, Restaurant!Shown, Restaurant!MenuItems,
       Restaurant!Existing, Restaurant!Rows

LEMMA CategoriseType ==
    ASSUME Restaurant!TypeOK, NEW x, NEW S \in SUBSET (Categories \cup {NoCategory}),
           Restaurant!Categorise(x, S)
    PROVE  category' \in [Items -> Categories \cup {NoCategory}]
<1>1. CASE x \in Items
  <2>1. PICK c \in S : category' = [category EXCEPT ![x] = c] BY <1>1 DEF Restaurant!Categorise
  <2> QED BY <2>1 DEF Restaurant!TypeOK
<1>2. CASE x \notin Items BY <1>2 DEF Restaurant!Categorise, Restaurant!TypeOK
<1> QED BY <1>1, <1>2

\* What a save writes, and that of the items it writes one at most.
LEMMA SaveRowWrites ==
    ASSUME Restaurant!TypeOK, NEW x \in Restaurant!Rows,
           NEW of \in Categories \cup {NoCategory}, NEW was \in Nat,
           Restaurant!SaveRow(x, of, was)
    PROVE  /\ row' \in [Restaurant!Rows -> Nat] /\ made' \in Nat
           /\ category' \in [Items -> Categories \cup {NoCategory}]
           /\ \A y \in Items \ {x} : row'[y] = row[y]
<1>1. row' \in [Restaurant!Rows -> Nat] /\ made' \in Nat
    BY DEF Restaurant!SaveRow, Restaurant!TypeOK
<1>2. \A y \in Items : y # of BY ServicesAssumption
<1>3. \A y \in Items \ {x} : row'[y] = row[y]
    BY <1>2 DEF Restaurant!SaveRow, Restaurant!TypeOK, Restaurant!Rows
<1>4. PICK S : S = IF of = NoCategory THEN {NoCategory} \cup Restaurant!Existing ELSE {of}
    OBVIOUS
<1>5. S \in SUBSET (Categories \cup {NoCategory}) BY <1>4 DEF Restaurant!Existing
<1>6. Restaurant!Categorise(x, S) BY <1>4 DEF Restaurant!SaveRow
<1> QED BY <1>1, <1>3, <1>5, <1>6, CategoriseType

\* What an item or restaurant was written or removed for goes on.
LEMMA InvalidateNextType ==
    ASSUME Restaurant!TypeOK, NEW p \in Procs, NEW x \in Restaurant!Rows,
           Restaurant!InvalidateNext(p, x)
    PROVE  restaurantCall' \in [Procs -> {Restaurant!Idle} \cup Restaurant!Call]
<1>1. PICK c : /\ c = IF x \in Items THEN [pc |-> "invalidate", x |-> x] ELSE Restaurant!Idle
               /\ restaurantCall' = [restaurantCall EXCEPT ![p] = c]
    BY DEF Restaurant!InvalidateNext, Restaurant!Goto, Restaurant!Return
<1>2. [pc |-> "invalidate", x |-> x] \in Restaurant!Call BY DEF Restaurant!Call
<1>3. c \in {Restaurant!Idle} \cup Restaurant!Call BY <1>1, <1>2
<1> QED BY <1>1, <1>3 DEF Restaurant!TypeOK

LEMMA RestaurantStep == Restaurant!TypeOK /\ RestaurantNext => Restaurant!TypeOK'
<1> SUFFICES ASSUME Restaurant!TypeOK, RestaurantNext PROVE Restaurant!TypeOK'
    OBVIOUS
<1>1. ASSUME NEW p \in Procs, Restaurant!Stop(p) PROVE Restaurant!TypeOK'
    BY <1>1 DEF Restaurant!Stop, Restaurant!Return, Restaurant!Goto, Restaurant!TypeOK
<1>2. ASSUME NEW k \in Restaurant!Lists, Restaurant!Expire(k) PROVE Restaurant!TypeOK'
  <2>1. Restaurant!None \in Restaurant!Entry BY DEF Restaurant!None, Restaurant!Entry
  <2> QED BY <1>2, <2>1 DEF Restaurant!Expire, Restaurant!TypeOK
<1>3. ASSUME NEW p \in Procs, NEW x \in Restaurant!Rows, \/ Restaurant!Create(p, x)
                                                         \/ Restaurant!Delete(p, x)
      PROVE  Restaurant!TypeOK'
  <2>1. row' \in [Restaurant!Rows -> Nat] /\ made' \in Nat /\ UNCHANGED cache
      BY <1>3 DEF Restaurant!Create, Restaurant!Delete, Restaurant!TypeOK
  <2>2. Restaurant!InvalidateNext(p, x) BY <1>3 DEF Restaurant!Create, Restaurant!Delete
  <2>3. category' \in [Items -> Categories \cup {NoCategory}]
    <3>1. CASE Restaurant!Create(p, x)
      <4>1. PICK S : S = {NoCategory} \cup Restaurant!Existing OBVIOUS
      <4>2. S \in SUBSET (Categories \cup {NoCategory}) BY <4>1 DEF Restaurant!Existing
      <4>3. Restaurant!Categorise(x, S) BY <3>1, <4>1 DEF Restaurant!Create
      <4> QED BY <4>2, <4>3, CategoriseType
    <3>2. CASE Restaurant!Delete(p, x) BY <3>2 DEF Restaurant!Delete, Restaurant!TypeOK
    <3> QED BY <1>3, <3>1, <3>2
  <2> QED BY <2>1, <2>2, <2>3, InvalidateNextType DEF Restaurant!TypeOK
<1>4. ASSUME NEW p \in Procs, NEW x \in Restaurant!Rows, Restaurant!FindByID(p, x)
      PROVE  Restaurant!TypeOK'
  <2>1. PICK of, was :
            /\ of = Restaurant!CategoryOf(x) /\ was = IF of = NoCategory THEN 0 ELSE row[of]
      OBVIOUS
  <2>2. of \in Categories \cup {NoCategory}
      BY <2>1 DEF Restaurant!CategoryOf, Restaurant!TypeOK
  <2>3. was \in Nat BY <2>1, <2>2 DEF Restaurant!TypeOK, Restaurant!Rows
  <2>4. PICK c : c = [pc |-> "save", x |-> x, of |-> of, was |-> was] OBVIOUS
  <2>5. c \in Restaurant!Call BY <2>2, <2>3, <2>4 DEF Restaurant!Call
  <2>6. restaurantCall' = [restaurantCall EXCEPT ![p] = c] /\ UNCHANGED <<row, category, made, cache>>
      BY <1>4, <2>1, <2>4 DEF Restaurant!FindByID, Restaurant!Goto
  <2> QED BY <2>5, <2>6 DEF Restaurant!TypeOK
<1>5. ASSUME NEW p \in Procs, NEW k \in Restaurant!Lists, Restaurant!Miss(p, k)
      PROVE  Restaurant!TypeOK'
  <2>1. [pc |-> "fill", key |-> k, list |-> Restaurant!Content(k)] \in Restaurant!Call
      BY ContentType DEF Restaurant!Call
  <2> QED BY <1>5, <2>1 DEF Restaurant!Miss, Restaurant!Goto, Restaurant!TypeOK
<1>6. ASSUME NEW p \in Procs, Restaurant!Save(p) PROVE Restaurant!TypeOK'
  <2>1. PICK x \in Restaurant!Rows, of \in Categories \cup {NoCategory}, was \in Nat :
            x = restaurantCall[p].x /\ of = restaurantCall[p].of /\ was = restaurantCall[p].was
      BY <1>6, RestaurantHolds DEF Restaurant!Save, RestaurantCallTypes
  <2>2. /\ row' \in [Restaurant!Rows -> Nat] /\ made' \in Nat /\ UNCHANGED cache
        /\ category' \in [Items -> Categories \cup {NoCategory}]
      BY <1>6, <2>1, SaveRowWrites DEF Restaurant!Save
  <2>3. Restaurant!InvalidateNext(p, x) BY <1>6, <2>1 DEF Restaurant!Save
  <2> QED BY <2>2, <2>3, InvalidateNextType DEF Restaurant!TypeOK
<1>7. ASSUME NEW p \in Procs, Restaurant!Invalidate(p) PROVE Restaurant!TypeOK'
  <2>1. Restaurant!None \in Restaurant!Entry BY DEF Restaurant!None, Restaurant!Entry
  <2> QED BY <1>7, <2>1 DEF Restaurant!Invalidate, Restaurant!Return, Restaurant!Goto,
                            Restaurant!TypeOK
<1>8. ASSUME NEW p \in Procs, Restaurant!Set(p) PROVE Restaurant!TypeOK'
  <2>1. PICK e : /\ e = [list |-> restaurantCall[p].list, kept |-> TRUE, expires |-> TRUE]
                 /\ cache' = [cache EXCEPT ![restaurantCall[p].key] = e]
      BY <1>8 DEF Restaurant!Set
  <2>2. e \in Restaurant!Entry
      BY <1>8, <2>1, RestaurantHolds DEF Restaurant!Set, RestaurantCallTypes, Restaurant!Entry
  <2> QED BY <1>8, <2>1, <2>2 DEF Restaurant!Set, Restaurant!Return, Restaurant!Goto,
                                  Restaurant!TypeOK
<1> QED BY <1>1, <1>2, <1>3, <1>4, <1>5, <1>6, <1>7, <1>8
        DEF RestaurantNext, Restaurant!Change, Restaurant!Read, Restaurant!Continue

-----------------------------------------------------------------------------

\* The items a menu shows.
MenuShown == Restaurant!ItemsIn(Restaurant!Content("menu"))

\* In calm, the items of the menu cached are those in the table, unless it is about to be
\* deleted; and what a reader is about to put there is.
RestaurantCalm ==
    /\ One(restaurantCall)
    /\ \/ \E p \in Procs : restaurantCall[p].pc = "invalidate"
       \/ Restaurant!ItemsFresh
    /\ \A p \in Procs :
           restaurantCall[p].pc = "fill" /\ restaurantCall[p].key = "menu" =>
               Restaurant!ItemsIn(restaurantCall[p].list) = MenuShown

LEMMA RestaurantCalmInit == Restaurant!Init => RestaurantCalm
<1> SUFFICES ASSUME Restaurant!Init PROVE RestaurantCalm
    OBVIOUS
<1>1. \A p \in Procs : restaurantCall[p] = Idle /\ restaurantCall[p].pc = "idle"
    BY DEF Restaurant!Init, Restaurant!Idle, Idle
<1>2. ~cache["menu"].kept BY DEF Restaurant!Init, Restaurant!Lists, Restaurant!None
<1> QED BY <1>1, <1>2 DEF RestaurantCalm, One, Restaurant!ItemsFresh

LEMMA RestaurantAlone ==
    ASSUME Restaurant!TypeOK, RestaurantCalm, NEW p \in Procs, NEW c,
           restaurantCall' = [restaurantCall EXCEPT ![p] = c],
           Cardinality(BusyIn(restaurantCall')) <= 1, restaurantCall[p] # Idle \/ c # Idle
    PROVE  /\ One(restaurantCall)'
           /\ restaurantCall'[p] = c
           /\ \A q \in Procs \ {p} : restaurantCall[q] = Idle /\ restaurantCall'[q] = Idle
<1>1. \A q \in Procs \ {p} : restaurantCall'[q] = restaurantCall[q] BY DEF Restaurant!TypeOK
<1>2. restaurantCall'[p] = c BY DEF Restaurant!TypeOK
<1>3. PICK g : g = restaurantCall' OBVIOUS
<1>4. One(g) BY <1>1, <1>3, StillOne DEF RestaurantCalm
<1>5. One(restaurantCall)' BY <1>3, <1>4 DEF One
<1> QED BY <1>1, <1>2, <1>5 DEF RestaurantCalm, One

\* They depend on nothing but their rows.
LEMMA MenuIsOfItems ==
    ASSUME \A x \in Items : row'[x] = row[x]
    PROVE  MenuShown' = MenuShown
<1>1. MenuShown = {<<x, row[x]>> : x \in {y \in Items : row[y] # 0}}
    BY DEF MenuShown, Restaurant!ItemsIn, Restaurant!Content, Restaurant!Shown,
           Restaurant!MenuItems, Restaurant!Existing
<1>2. MenuShown' = {<<x, row'[x]>> : x \in {y \in Items : row'[y] # 0}}
    BY DEF MenuShown, Restaurant!ItemsIn, Restaurant!Content, Restaurant!Shown,
           Restaurant!MenuItems, Restaurant!Existing
<1> QED BY <1>1, <1>2

\* One call writes or removes a row, and the menu is deleted next if it shows it.
LEMMA RestaurantCalmWritten ==
    ASSUME Restaurant!TypeOK, RestaurantCalm, NEW p \in Procs, NEW x \in Restaurant!Rows,
           \A y \in Items \ {x} : row'[y] = row[y], UNCHANGED cache, Restaurant!InvalidateNext(p, x),
           Cardinality(BusyIn(restaurantCall')) <= 1, restaurantCall[p].pc # "invalidate"
    PROVE  RestaurantCalm'
<1>0. Restaurant!Idle = Idle /\ Idle.pc = "idle" BY DEF Restaurant!Idle, Idle
<1>1. PICK c : /\ c = IF x \in Items THEN [pc |-> "invalidate", x |-> x] ELSE Idle
               /\ restaurantCall' = [restaurantCall EXCEPT ![p] = c]
    BY <1>0 DEF Restaurant!InvalidateNext, Restaurant!Goto, Restaurant!Return
<1>2. restaurantCall'[p] = c /\ \A q \in Procs \ {p} : restaurantCall'[q] = restaurantCall[q]
    BY <1>1 DEF Restaurant!TypeOK
<1>3. One(restaurantCall)'
  <2>1. PICK g : g = restaurantCall' OBVIOUS
  <2>2. One(g) BY <1>2, <2>1, StillOne DEF RestaurantCalm
  <2> QED BY <2>1, <2>2 DEF One
<1>4. CASE x \in Items
  <2>1. c.pc = "invalidate" BY <1>1, <1>4
  <2>2. \A q \in Procs \ {p} : restaurantCall'[q] = Idle
      BY <1>0, <1>2, <1>3, <2>1 DEF One
  <2> QED BY <1>0, <1>2, <1>3, <2>1, <2>2 DEF RestaurantCalm
<1>5. CASE x \notin Items
  <2>1. MenuShown' = MenuShown BY <1>5, MenuIsOfItems
  <2>2. c = Idle BY <1>1, <1>5
  <2> QED BY <1>0, <1>2, <1>3, <2>1, <2>2 DEF RestaurantCalm, Restaurant!ItemsFresh, MenuShown
<1> QED BY <1>4, <1>5

LEMMA RestaurantCalmStep ==
    Restaurant!TypeOK /\ RestaurantCalm /\ RestaurantNext /\ calm' => RestaurantCalm'
<1> SUFFICES ASSUME Restaurant!TypeOK, RestaurantCalm, RestaurantNext, calm'
             PROVE  RestaurantCalm'
    OBVIOUS
<1>0. Restaurant!Idle = Idle /\ Idle.pc = "idle" BY DEF Restaurant!Idle, Idle
<1>1. Cardinality(BusyIn(restaurantCall')) <= 1 BY DEF RestaurantNext, CalmAfter
<1>2. ASSUME NEW k \in Restaurant!Lists, Restaurant!Expire(k) PROVE RestaurantCalm'
  <2>1. cache'[k] = Restaurant!None /\ \A l \in Restaurant!Lists \ {k} : cache'[l] = cache[l]
      BY <1>2 DEF Restaurant!Expire, Restaurant!TypeOK
  <2>2. UNCHANGED <<row, restaurantCall>> BY <1>2 DEF Restaurant!Expire
  <2>3. MenuShown' = MenuShown BY <2>2, MenuIsOfItems
  <2>4. Restaurant!ItemsFresh => Restaurant!ItemsFresh'
      BY <2>1, <2>3 DEF Restaurant!ItemsFresh, MenuShown, Restaurant!Lists, Restaurant!None
  <2> QED BY <2>2, <2>3, <2>4 DEF RestaurantCalm, One
<1>3. ASSUME NEW p \in Procs, NEW x \in Restaurant!Rows, Restaurant!Create(p, x)
      PROVE  RestaurantCalm'
  <2>1. \A y \in Items \ {x} : row'[y] = row[y]
      BY <1>3 DEF Restaurant!Create, Restaurant!TypeOK, Restaurant!Rows
  <2> QED BY <1>0, <1>1, <1>3, <2>1, RestaurantCalmWritten DEF Restaurant!Create
<1>4. ASSUME NEW p \in Procs, NEW x \in Restaurant!Rows, Restaurant!Delete(p, x)
      PROVE  RestaurantCalm'
  <2>1. \A y \in Items \ {x} : row'[y] = row[y]
      BY <1>4 DEF Restaurant!Delete, Restaurant!TypeOK, Restaurant!Rows
  <2> QED BY <1>0, <1>1, <1>4, <2>1, RestaurantCalmWritten DEF Restaurant!Delete
<1>5. ASSUME NEW p \in Procs, Restaurant!Save(p) PROVE RestaurantCalm'
  <2>1. PICK x \in Restaurant!Rows, of \in Categories \cup {NoCategory}, was \in Nat :
            x = restaurantCall[p].x /\ of = restaurantCall[p].of /\ was = restaurantCall[p].was
      BY <1>5, RestaurantHolds DEF Restaurant!Save, RestaurantCallTypes
  <2>2. \A y \in Items \ {x} : row'[y] = row[y]
      BY <1>5, <2>1, SaveRowWrites DEF Restaurant!Save
  <2>3. UNCHANGED cache /\ Restaurant!InvalidateNext(p, x)
      BY <1>5, <2>1 DEF Restaurant!Save
  <2>4. restaurantCall[p].pc # "invalidate" BY <1>5 DEF Restaurant!Save
  <2> QED BY <1>1, <2>2, <2>3, <2>4, RestaurantCalmWritten
\* The other steps change no row: p takes up c, or is done.
<1>6. ASSUME NEW p \in Procs, NEW c, restaurantCall' = [restaurantCall EXCEPT ![p] = c],
             restaurantCall[p] # Idle \/ c # Idle, UNCHANGED row, c.pc # "invalidate",
             c.pc = "fill" /\ c.key = "menu" => Restaurant!ItemsIn(c.list) = MenuShown,
             \/ restaurantCall[p].pc # "invalidate" /\ UNCHANGED cache
             \/ Restaurant!ItemsFresh'
      PROVE  RestaurantCalm'
  <2>1. /\ One(restaurantCall)' /\ restaurantCall'[p] = c
        /\ \A q \in Procs \ {p} : restaurantCall[q] = Idle /\ restaurantCall'[q] = Idle
      BY <1>1, <1>6, RestaurantAlone
  <2>2. MenuShown' = MenuShown BY <1>6, MenuIsOfItems
  <2>3. Restaurant!ItemsFresh'
    <3>1. CASE restaurantCall[p].pc # "invalidate" /\ UNCHANGED cache
      <4>1. Restaurant!ItemsFresh BY <1>0, <2>1, <3>1 DEF RestaurantCalm
      <4> QED BY <2>2, <3>1, <4>1 DEF Restaurant!ItemsFresh, MenuShown
    <3> QED BY <1>6, <3>1
  <2> QED BY <1>0, <1>6, <2>1, <2>2, <2>3 DEF RestaurantCalm
<1>7. ASSUME NEW p \in Procs, NEW x \in Restaurant!Rows, Restaurant!FindByID(p, x)
      PROVE  RestaurantCalm'
  <2>1. PICK c :
            /\ c.pc = "save"
            /\ restaurantCall' = [restaurantCall EXCEPT ![p] = c] /\ UNCHANGED <<row, cache>>
    <3>1. PICK of, was :
              Restaurant!Goto(p, [pc |-> "save", x |-> x, of |-> of, was |-> was])
        BY <1>7 DEF Restaurant!FindByID
    <3>2. PICK c : c = [pc |-> "save", x |-> x, of |-> of, was |-> was] OBVIOUS
    <3> QED BY <1>7, <3>1, <3>2 DEF Restaurant!FindByID, Restaurant!Goto
  <2>2. restaurantCall' = [restaurantCall EXCEPT ![p] = c] /\ UNCHANGED <<row, cache>>
      BY <2>1
  <2>3. c # Idle /\ c.pc = "save" /\ restaurantCall[p].pc # "invalidate"
      BY <1>0, <1>7, <2>1 DEF Restaurant!FindByID
  <2> QED BY <1>6, <2>2, <2>3
<1>8. ASSUME NEW p \in Procs, NEW k \in Restaurant!Lists, Restaurant!Miss(p, k)
      PROVE  RestaurantCalm'
  <2>1. PICK c : c = [pc |-> "fill", key |-> k, list |-> Restaurant!Content(k)] OBVIOUS
  <2>2. restaurantCall' = [restaurantCall EXCEPT ![p] = c] /\ UNCHANGED <<row, cache>>
      BY <1>8, <2>1 DEF Restaurant!Miss, Restaurant!Goto
  <2>3. /\ c # Idle /\ c.pc = "fill" /\ restaurantCall[p].pc # "invalidate"
        /\ c.key = "menu" => Restaurant!ItemsIn(c.list) = MenuShown
      BY <1>0, <1>8, <2>1 DEF Restaurant!Miss, MenuShown
  <2> QED BY <1>6, <2>2, <2>3
<1>9. ASSUME NEW p \in Procs, Restaurant!Invalidate(p) PROVE RestaurantCalm'
  <2>1. restaurantCall' = [restaurantCall EXCEPT ![p] = Idle] /\ UNCHANGED row
      BY <1>0, <1>9 DEF Restaurant!Invalidate, Restaurant!Return, Restaurant!Goto
  <2>2. ~cache'["menu"].kept
      BY <1>9 DEF Restaurant!Invalidate, Restaurant!TypeOK, Restaurant!Lists, Restaurant!None
  <2>3. Restaurant!ItemsFresh' BY <2>2 DEF Restaurant!ItemsFresh, MenuShown
  <2>4. restaurantCall[p] # Idle BY <1>0, <1>9 DEF Restaurant!Invalidate
  <2> QED BY <1>0, <1>6, <2>1, <2>3, <2>4
<1>10. ASSUME NEW p \in Procs, Restaurant!Set(p) PROVE RestaurantCalm'
  <2>1. restaurantCall' = [restaurantCall EXCEPT ![p] = Idle] /\ UNCHANGED row
      BY <1>0, <1>10 DEF Restaurant!Set, Restaurant!Return, Restaurant!Goto
  <2>2. restaurantCall[p] # Idle /\ restaurantCall[p].pc = "fill"
      BY <1>0, <1>10 DEF Restaurant!Set
  <2>3. \A q \in Procs \ {p} : restaurantCall[q] = Idle BY <1>1, <2>1, <2>2, RestaurantAlone
  <2>4. Restaurant!ItemsFresh BY <1>0, <2>2, <2>3 DEF RestaurantCalm
  <2>5. MenuShown' = MenuShown BY <2>1, MenuIsOfItems
  <2>6. PICK k \in Restaurant!Lists : k = restaurantCall[p].key
      BY <2>2, RestaurantHolds DEF RestaurantCallTypes
  <2>7. /\ cache'[k].list = restaurantCall[p].list
        /\ \A l \in Restaurant!Lists \ {k} : cache'[l] = cache[l]
      BY <1>10, <2>6 DEF Restaurant!Set, Restaurant!TypeOK
  <2>8. Restaurant!ItemsFresh'
    <3>1. CASE k = "menu"
      <4>1. Restaurant!ItemsIn(restaurantCall[p].list) = MenuShown
          BY <2>2, <2>6, <3>1 DEF RestaurantCalm
      <4> QED BY <2>5, <2>7, <3>1, <4>1 DEF Restaurant!ItemsFresh, MenuShown
    <3>2. CASE k # "menu"
        BY <2>4, <2>5, <2>7, <3>2 DEF Restaurant!ItemsFresh, MenuShown, Restaurant!Lists
    <3> QED BY <3>1, <3>2
  <2> QED BY <1>0, <1>6, <2>1, <2>2, <2>8
<1> QED BY <1>2, <1>3, <1>4, <1>5, <1>7, <1>8, <1>9, <1>10
        DEF RestaurantNext, Restaurant!Change, Restaurant!Read, Restaurant!Continue

-----------------------------------------------------------------------------
(* Notifications and preferences.                                          *)

\* A bulk notification is for two users.
LEMMA TwoReceivers ==
    /\ Notification!Receivers = {v1, v2}
    /\ Len(<<v1, v2>>) = 2 /\ <<v1, v2>>[1] = v1 /\ <<v1, v2>>[2] = v2
    /\ 1 .. Len(<<v1, v2>>) = {1, 2}
<1>1. Len(<<v1, v2>>) = 2 /\ <<v1, v2>>[1] = v1 /\ <<v1, v2>>[2] = v2 OBVIOUS
<1>2. 1 .. 2 = {1, 2} OBVIOUS
<1> QED BY <1>1, <1>2 DEF Notification!Receivers

\* Bulk sends that the first user on the list has had, and the second not yet.
Halfway == {p \in Procs : notificationCall[p].pc = "bulk" /\ notificationCall[p].n = 2}

NotificationIInv ==
    /\ Notification!TypeOK
    /\ IsFiniteSet(BusyIn(notificationCall))
    /\ v1 # v2 => bulk[v2] + Cardinality(Halfway) <= bulk[v1]

NotificationCallTypes(c) ==
    /\ c.pc = "bulk" => c.n \in {1, 2}
    /\ c.pc \in {"default", "create", "save"} => c.of \in {v1, v2}
    /\ c.pc \in {"create", "save"} => /\ c.row \in SUBSET Channels
                                      /\ c.named \in SUBSET Channels
                                      /\ c.on \in SUBSET Channels

LEMMA NotificationHolds ==
    ASSUME Notification!TypeOK, NEW p \in Procs
    PROVE  NotificationCallTypes(notificationCall[p])
BY TwoReceivers
   DEF Notification!TypeOK, Notification!Call, Notification!Idle, NotificationCallTypes

LEMMA NotificationInit == Notification!Init => NotificationIInv
<1> SUFFICES ASSUME Notification!Init PROVE NotificationIInv
    OBVIOUS
<1>1. Notification!TypeOK BY DEF Notification!Init, Notification!TypeOK
<1>2. \A p \in Procs : notificationCall[p] = Idle /\ notificationCall[p].pc = "idle"
    BY DEF Notification!Init, Notification!Idle, Idle
<1>3. BusyIn(notificationCall) = {} /\ Halfway = {} BY <1>2 DEF BusyIn, Halfway
<1>4. IsFiniteSet(BusyIn(notificationCall)) /\ Cardinality(Halfway) = 0 BY <1>3, FS_EmptySet
<1>5. bulk[v1] = 0 /\ bulk[v2] = 0 BY TwoReceivers DEF Notification!Init
<1> QED BY <1>1, <1>4, <1>5 DEF NotificationIInv

LEMMA HalfwayFinite ==
    ASSUME IsFiniteSet(BusyIn(notificationCall))
    PROVE  IsFiniteSet(Halfway) /\ Cardinality(Halfway) \in Nat
<1>1. Halfway \subseteq BusyIn(notificationCall) BY DEF Halfway, BusyIn, Idle
<1> QED BY <1>1, FS_Subset, FS_CardinalityType

LEMMA BusyStaysFinite ==
    ASSUME IsFiniteSet(BusyIn(notificationCall)), NEW p \in Procs,
           \A q \in Procs \ {p} : notificationCall'[q] = notificationCall[q]
    PROVE  IsFiniteSet(BusyIn(notificationCall)')
<1>1. BusyIn(notificationCall)' \subseteq BusyIn(notificationCall) \cup {p} BY DEF BusyIn
<1>2. IsFiniteSet(BusyIn(notificationCall) \cup {p}) BY FS_AddElement
<1> QED BY <1>1, <1>2, FS_Subset

\* The handler takes up c, which is not halfway; nobody has been sent anything.
LEMMA NotificationHeld ==
    ASSUME NotificationIInv, NEW p \in Procs,
           NEW c \in {Notification!Idle} \cup Notification!Call,
           Notification!Goto(p, c), c.pc = "bulk" => c.n # 2,
           inbox' \in [Notification!Receivers -> SUBSET {"read", "unread"}],
           preference' \in [Notification!Receivers -> {Notification!Absent} \cup SUBSET Channels],
           chosen' \in [Notification!Receivers -> SUBSET Channels], UNCHANGED bulk
    PROVE  NotificationIInv'
<1>1. notificationCall' = [notificationCall EXCEPT ![p] = c] BY DEF Notification!Goto
<1>2. /\ notificationCall'[p] = c
      /\ \A q \in Procs \ {p} : notificationCall'[q] = notificationCall[q]
    BY <1>1 DEF NotificationIInv, Notification!TypeOK
<1>3. Notification!TypeOK' BY <1>1 DEF NotificationIInv, Notification!TypeOK
<1>4. IsFiniteSet(BusyIn(notificationCall)') BY <1>2, BusyStaysFinite DEF NotificationIInv
<1>5. /\ Halfway' = Halfway \ {p}
      /\ IsFiniteSet(Halfway) /\ Cardinality(Halfway) \in Nat
    BY <1>2, HalfwayFinite DEF Halfway, NotificationIInv
<1>6. Cardinality(Halfway') \in Nat /\ Cardinality(Halfway') <= Cardinality(Halfway)
    BY <1>5, FS_RemoveElement, FS_CardinalityType
<1>7. bulk[v1] \in Nat /\ bulk[v2] \in Nat
    BY TwoReceivers DEF NotificationIInv, Notification!TypeOK
<1> QED BY <1>3, <1>4, <1>5, <1>6, <1>7 DEF NotificationIInv

LEMMA NotificationSorted ==
    ASSUME NotificationIInv, inbox' \in [Notification!Receivers -> SUBSET {"read", "unread"}],
           UNCHANGED <<preference, notificationCall, bulk, chosen>>
    PROVE  NotificationIInv'
BY DEF NotificationIInv, Notification!TypeOK, BusyIn, Halfway

LEMMA CreateNextStep ==
    ASSUME NotificationIInv, NEW p \in Procs, Notification!CreateNext(p)
    PROVE  NotificationIInv'
<1>1. PICK n, u, d :
          /\ n \in {1, 2} /\ u \in {v1, v2} /\ u = <<v1, v2>>[n] /\ u = IF n = 1 THEN v1 ELSE v2
          /\ d = [pc |-> "bulk", n |-> n] /\ d = notificationCall[p]
  <2>1. notificationCall[p] \in [pc : {"bulk"}, n : {1, 2}]
      BY TwoReceivers DEF Notification!CreateNext, NotificationIInv, Notification!TypeOK,
                          Notification!Call, Notification!Idle
  <2>2. PICK n \in {1, 2} : notificationCall[p] = [pc |-> "bulk", n |-> n] BY <2>1
  <2>3. <<v1, v2>>[n] = IF n = 1 THEN v1 ELSE v2 BY <2>2
  <2>4. <<v1, v2>>[n] \in {v1, v2} BY <2>2, <2>3
  <2> QED BY <2>2, <2>3, <2>4
<1>2. notificationCall[p].pc = "bulk" /\ notificationCall[p].n = n BY <1>1
<1>3. /\ inbox' = [inbox EXCEPT ![u] = @ \cup {"unread"}]
      /\ bulk' = [bulk EXCEPT ![u] = @ + 1] /\ UNCHANGED <<preference, chosen>>
    BY <1>1, <1>2 DEF Notification!CreateNext
<1>4. PICK c :
          /\ c \in {Notification!Idle} \cup Notification!Call
          /\ notificationCall' = [notificationCall EXCEPT ![p] = c]
          /\ n = 1 => c.pc = "bulk" /\ c.n = 2
          /\ n = 2 => c = Notification!Idle
  <2>1. n = 2 => Notification!Goto(p, Notification!Idle)
      BY <1>2, TwoReceivers
         DEF Notification!CreateNext, Notification!NextUser, Notification!Return
  <2>2. n = 1 => Notification!Goto(p, [d EXCEPT !.n = @ + 1])
      BY <1>1, <1>2, TwoReceivers DEF Notification!CreateNext, Notification!NextUser
  <2>3. CASE n = 2
      BY <2>1, <2>3 DEF Notification!Goto
  <2>4. CASE n = 1
    <3>1. PICK c : c = [d EXCEPT !.n = @ + 1] OBVIOUS
    <3>2. c = [pc |-> "bulk", n |-> 2] BY <1>1, <2>4, <3>1
    <3>3. c \in Notification!Call BY <3>2, TwoReceivers DEF Notification!Call
    <3>4. notificationCall' = [notificationCall EXCEPT ![p] = c]
        BY <2>2, <2>4, <3>1 DEF Notification!Goto
    <3>5. c.pc = "bulk" /\ c.n = 2 /\ n # 2 BY <2>4, <3>2
    <3> QED BY <3>3, <3>4, <3>5
  <2> QED BY <1>1, <2>3, <2>4
<1>5. /\ notificationCall'[p] = c
      /\ \A q \in Procs \ {p} : notificationCall'[q] = notificationCall[q]
    BY <1>4 DEF NotificationIInv, Notification!TypeOK
<1>6. Notification!TypeOK'
    BY <1>1, <1>3, <1>4, TwoReceivers DEF NotificationIInv, Notification!TypeOK
<1>7. IsFiniteSet(BusyIn(notificationCall)') BY <1>5, BusyStaysFinite DEF NotificationIInv
<1>8. IsFiniteSet(Halfway) /\ Cardinality(Halfway) \in Nat
    BY HalfwayFinite DEF NotificationIInv
<1>9. bulk[v1] \in Nat /\ bulk[v2] \in Nat
    BY TwoReceivers DEF NotificationIInv, Notification!TypeOK
<1>10. ASSUME v1 # v2 PROVE bulk'[v2] + Cardinality(Halfway') <= bulk'[v1]
  <2>1. bulk[v2] + Cardinality(Halfway) <= bulk[v1] BY <1>10 DEF NotificationIInv
  <2>2. CASE n = 1
    <3>1. p \notin Halfway BY <1>2, <2>2 DEF Halfway
    <3>2. Halfway' = Halfway \cup {p} BY <1>4, <1>5, <2>2 DEF Halfway
    <3>3. Cardinality(Halfway') = Cardinality(Halfway) + 1 BY <1>8, <3>1, <3>2, FS_AddElement
    <3>4. bulk'[v1] = bulk[v1] + 1 /\ bulk'[v2] = bulk[v2]
        BY <1>1, <1>3, <1>10, <2>2, TwoReceivers DEF NotificationIInv, Notification!TypeOK
    <3> QED BY <1>8, <1>9, <2>1, <3>3, <3>4
  <2>3. CASE n = 2
    <3>1. p \in Halfway BY <1>2, <2>3 DEF Halfway
    <3>2. Halfway' = Halfway \ {p}
        BY <1>4, <1>5, <2>3 DEF Halfway, Notification!Idle
    <3>3. Cardinality(Halfway') = Cardinality(Halfway) - 1
        BY <1>8, <3>1, <3>2, FS_RemoveElement
    <3>4. bulk'[v2] = bulk[v2] + 1 /\ bulk'[v1] = bulk[v1]
        BY <1>1, <1>3, <1>10, <2>3, TwoReceivers DEF NotificationIInv, Notification!TypeOK
    <3> QED BY <1>8, <1>9, <2>1, <3>3, <3>4
  <2> QED BY <1>1, <2>2, <2>3
<1> QED BY <1>6, <1>7, <1>10 DEF NotificationIInv

\* What an update of preferences is about to write.
LEMMA PreferencesUpdated ==
    ASSUME NotificationIInv, NEW p \in Procs, NEW u \in Notification!Receivers,
           Notification!UpdatePreferences(p, u)
    PROVE  \E c \in Notification!Call :
               /\ Notification!Goto(p, c)
               /\ c.pc \in {"create", "save"} /\ c.of = u
               /\ c.row = Notification!Merged(IF preference[u] = Notification!Absent
                                              THEN Channels ELSE preference[u], c.named, c.on)
<1>1. PICK named, on, old, x :
          /\ named \in SUBSET Channels /\ on \in SUBSET named
          /\ old = (IF preference[u] = Notification!Absent THEN Channels ELSE preference[u])
          /\ x = Notification!Merged(old, named, on)
          /\ Notification!Goto(p, [pc |-> IF preference[u] = Notification!Absent
                                          THEN "create" ELSE "save",
                                   of |-> u, row |-> x, named |-> named, on |-> on])
    BY DEF Notification!UpdatePreferences
<1>2. old \in SUBSET Channels BY <1>1 DEF NotificationIInv, Notification!TypeOK
<1>3. x \in SUBSET Channels BY <1>1, <1>2 DEF Notification!Merged
<1>4. PICK kind \in {"create", "save"} :
          kind = IF preference[u] = Notification!Absent THEN "create" ELSE "save"
    OBVIOUS
<1>5. PICK c : c = [pc |-> kind, of |-> u, row |-> x, named |-> named, on |-> on] OBVIOUS
<1>6. c \in Notification!Call BY <1>1, <1>3, <1>5 DEF Notification!Call
<1> QED BY <1>1, <1>4, <1>5, <1>6

LEMMA NotificationStep == NotificationIInv /\ NotificationNext => NotificationIInv'
<1> SUFFICES ASSUME NotificationIInv, NotificationNext PROVE NotificationIInv'
    OBVIOUS
<1>0. /\ inbox \in [Notification!Receivers -> SUBSET {"read", "unread"}]
      /\ preference \in [Notification!Receivers -> {Notification!Absent} \cup SUBSET Channels]
      /\ chosen \in [Notification!Receivers -> SUBSET Channels]
    BY DEF NotificationIInv, Notification!TypeOK
<1>1. ASSUME NEW u \in Notification!Receivers, \/ Notification!SendNotification(u)
                                               \/ Notification!MarkAsRead(u)
                                               \/ Notification!DeleteNotification(u)
      PROVE  NotificationIInv'
  <2>1. inbox' \in [Notification!Receivers -> SUBSET {"read", "unread"}]
    <3>1. PICK kinds \in SUBSET {"read", "unread"} : inbox' = [inbox EXCEPT ![u] = kinds]
      <4>1. inbox[u] \in SUBSET {"read", "unread"} BY <1>0
      <4>2. CASE Notification!SendNotification(u)
          BY <4>1, <4>2 DEF Notification!SendNotification
      <4>3. CASE Notification!MarkAsRead(u) BY <4>1, <4>3 DEF Notification!MarkAsRead
      <4>4. CASE Notification!DeleteNotification(u)
          BY <4>1, <4>4 DEF Notification!DeleteNotification
      <4> QED BY <1>1, <4>2, <4>3, <4>4
    <3> QED BY <1>0, <3>1
  <2>2. UNCHANGED <<preference, notificationCall, bulk, chosen>>
      BY <1>1 DEF Notification!SendNotification, Notification!MarkAsRead,
                  Notification!DeleteNotification
  <2> QED BY <2>1, <2>2, NotificationSorted
<1>2. ASSUME NEW p \in Procs, Notification!SendBulkNotification(p) PROVE NotificationIInv'
  <2>1. PICK c : c = [pc |-> "bulk", n |-> 1] /\ Notification!Goto(p, c)
      BY <1>2 DEF Notification!SendBulkNotification
  <2>2. c \in Notification!Call /\ c.n # 2 BY <2>1, TwoReceivers DEF Notification!Call
  <2> QED BY <1>0, <1>2, <2>1, <2>2, NotificationHeld DEF Notification!SendBulkNotification
<1>3. ASSUME NEW p \in Procs, NEW u \in Notification!Receivers,
             Notification!GetPreferences(p, u)
      PROVE  NotificationIInv'
  <2>1. PICK c : c = [pc |-> "default", of |-> u] /\ Notification!Goto(p, c)
      BY <1>3 DEF Notification!GetPreferences
  <2>2. c \in Notification!Call /\ c.pc = "default" BY <2>1 DEF Notification!Call
  <2> QED BY <1>0, <1>3, <2>1, <2>2, NotificationHeld DEF Notification!GetPreferences
<1>4. ASSUME NEW p \in Procs, NEW u \in Notification!Receivers,
             Notification!UpdatePreferences(p, u)
      PROVE  NotificationIInv'
  <2>1. PICK c \in Notification!Call :
            Notification!Goto(p, c) /\ c.pc \in {"create", "save"}
      BY <1>4, PreferencesUpdated
  <2>2. UNCHANGED <<inbox, preference, bulk, chosen>>
      BY <1>4 DEF Notification!UpdatePreferences
  <2> QED BY <1>0, <2>1, <2>2, NotificationHeld
<1>5. ASSUME NEW p \in Procs, Notification!CreateDefaultPreferences(p) PROVE NotificationIInv'
  <2>1. PICK c : c = notificationCall[p] OBVIOUS
  <2>2. c.pc \in {"default", "create"} /\ c \in Notification!Call
        /\ c.of \in Notification!Receivers
      BY <1>5, <2>1 DEF Notification!CreateDefaultPreferences, NotificationIInv,
                        Notification!TypeOK, Notification!Idle, Notification!Call
  <2>3. preference' \in [Notification!Receivers -> {Notification!Absent} \cup SUBSET Channels]
      BY <1>0, <1>5, <2>1, <2>2 DEF Notification!CreateDefaultPreferences
  <2>4. UNCHANGED <<inbox, bulk, chosen>> BY <1>5 DEF Notification!CreateDefaultPreferences
  <2>5. PICK d \in {Notification!Idle} \cup Notification!Call :
            Notification!Goto(p, d) /\ d.pc # "bulk"
    <3>1. CASE c.pc = "default"
      <4>1. Notification!Goto(p, Notification!Idle) /\ Notification!Idle.pc = "idle"
          BY <1>5, <2>1, <3>1 DEF Notification!CreateDefaultPreferences, Notification!Return,
                                  Notification!Idle
      <4> QED BY <4>1
    <3>2. CASE c.pc = "create"
      <4>1. PICK d : d = [c EXCEPT !.pc = "save"] /\ Notification!Goto(p, d)
          BY <1>5, <2>1, <3>2 DEF Notification!CreateDefaultPreferences
      <4>2. d \in Notification!Call /\ d.pc = "save"
          BY <2>2, <3>2, <4>1 DEF Notification!Call
      <4> QED BY <4>1, <4>2
    <3> QED BY <2>2, <3>1, <3>2
  <2> QED BY <1>0, <2>3, <2>4, <2>5, NotificationHeld
<1>6. ASSUME NEW p \in Procs, Notification!SavePreferences(p) PROVE NotificationIInv'
  <2>1. PICK c : c = notificationCall[p] OBVIOUS
  <2>2. /\ c.of \in Notification!Receivers /\ c.row \in SUBSET Channels
        /\ c.on \in SUBSET Channels
      BY <1>6, <2>1, TwoReceivers, NotificationHolds
         DEF Notification!SavePreferences, NotificationIInv, NotificationCallTypes
  <2>3. preference' \in [Notification!Receivers -> {Notification!Absent} \cup SUBSET Channels]
      BY <1>0, <1>6, <2>1, <2>2 DEF Notification!SavePreferences
  <2>4. chosen' \in [Notification!Receivers -> SUBSET Channels]
      BY <1>0, <1>6, <2>1, <2>2 DEF Notification!SavePreferences
  <2>5. Notification!Goto(p, Notification!Idle) /\ Notification!Idle.pc = "idle"
        /\ UNCHANGED <<inbox, bulk>>
      BY <1>6 DEF Notification!SavePreferences, Notification!Return, Notification!Idle
  <2> QED BY <1>0, <2>3, <2>4, <2>5, NotificationHeld
<1>7. ASSUME NEW p \in Procs, Notification!BulkError(p) \/ Notification!PreferenceError(p)
      PROVE  NotificationIInv'
  <2>1. Notification!Goto(p, Notification!Idle) /\ Notification!Idle.pc = "idle"
        /\ UNCHANGED <<inbox, preference, bulk, chosen>>
      BY <1>7 DEF Notification!BulkError, Notification!PreferenceError, Notification!Return,
                  Notification!Idle
  <2> QED BY <1>0, <2>1, NotificationHeld
<1> QED BY <1>1, <1>2, <1>3, <1>4, <1>5, <1>6, <1>7, CreateNextStep
        DEF NotificationNext, Notification!Send, Notification!Change, Notification!Continue,
            Notification!Sort, Notification!Fault

-----------------------------------------------------------------------------

Preferring(p) == notificationCall[p].pc \in {"default", "create", "save"}

\* In calm one handler at most is at work on preferences; sends may go on.
NotificationCalm ==
    /\ \A p, q \in Procs : Preferring(p) /\ Preferring(q) => p = q
    /\ \A u \in Notification!Receivers :
           \/ preference[u] = chosen[u]
           \/ preference[u] = Notification!Absent /\ chosen[u] = Channels
    /\ \A p \in Procs :
           notificationCall[p].pc \in {"create", "save"} =>
               notificationCall[p].row =
                   Notification!Merged(chosen[notificationCall[p].of],
                                       notificationCall[p].named, notificationCall[p].on)

LEMMA NotificationCalmInit == Notification!Init => NotificationCalm
BY DEF Notification!Init, NotificationCalm, Preferring, Notification!Idle

\* Handlers that leave preferences alone, and all else there is of a send.
LEMMA NotificationCalmSent ==
    ASSUME NotificationCalm, UNCHANGED <<preference, chosen>>,
           \A p \in Procs : \/ notificationCall'[p] = notificationCall[p]
                            \/ notificationCall'[p].pc \in {"idle", "bulk"}
    PROVE  NotificationCalm'
<1>1. \A p \in Procs : Preferring(p)' =>
                       notificationCall'[p] = notificationCall[p] /\ Preferring(p)
    BY DEF Preferring
<1> QED BY <1>1 DEF NotificationCalm, Preferring

\* The one that is at work on preferences goes on to c.
LEMMA NotificationCalmHeld ==
    ASSUME NotificationIInv, NotificationIInv', NotificationCalm, NEW p \in Procs,
           NEW c, Notification!Goto(p, c), Cardinality(BusyIn(notificationCall')) <= 1,
           Preferring(p) \/ c # Idle,
           \A u \in Notification!Receivers :
               \/ preference'[u] = chosen'[u]
               \/ preference'[u] = Notification!Absent /\ chosen'[u] = Channels,
           c.pc \in {"create", "save"} =>
               c.row = Notification!Merged(chosen'[c.of], c.named, c.on)
    PROVE  NotificationCalm'
<1>0. Idle.pc = "idle" BY DEF Idle
<1>1. /\ notificationCall'[p] = c
      /\ \A q \in Procs \ {p} : notificationCall'[q] = notificationCall[q]
    BY DEF Notification!Goto, NotificationIInv, Notification!TypeOK
<1>2. \A q \in Procs \ {p} : ~Preferring(q)'
  <2>1. CASE Preferring(p) BY <1>1, <2>1 DEF NotificationCalm, Preferring
  <2>2. CASE c # Idle
    <3>1. SUFFICES ASSUME NEW q \in Procs \ {p}, Preferring(q)' PROVE FALSE
        OBVIOUS
    <3>2. notificationCall'[q] # Idle BY <1>0, <3>1 DEF Preferring
    <3>3. PICK S : S = BusyIn(notificationCall') OBVIOUS
    <3>4. p \in S /\ q \in S BY <1>1, <2>2, <3>2, <3>3 DEF BusyIn
    <3>5. IsFiniteSet(S) /\ Cardinality(S) <= 1 BY <3>3 DEF NotificationIInv, BusyIn
    <3> QED BY <3>4, <3>5, AtMostOne
  <2> QED BY <2>1, <2>2
<1> QED BY <1>1, <1>2 DEF NotificationCalm, Preferring

LEMMA NotificationCalmStep ==
    NotificationIInv /\ NotificationCalm /\ NotificationNext /\ calm' => NotificationCalm'
<1> SUFFICES ASSUME NotificationIInv, NotificationCalm, NotificationNext, calm'
             PROVE  NotificationCalm'
    OBVIOUS
<1>0. /\ NotificationIInv'
      /\ Notification!Idle = Idle /\ Idle.pc = "idle"
      /\ Notification!Absent \notin SUBSET Channels
    BY NotificationStep, ServicesAssumption DEF Notification!Idle, Idle, Notification!Absent
<1>1. \A u \in Notification!Receivers : chosen[u] \in SUBSET Channels
    BY DEF NotificationIInv, Notification!TypeOK
<1>2. ASSUME NEW u \in Notification!Receivers, \/ Notification!SendNotification(u)
                                               \/ Notification!MarkAsRead(u)
                                               \/ Notification!DeleteNotification(u)
      PROVE  NotificationCalm'
    BY <1>2, NotificationCalmSent
       DEF Notification!SendNotification, Notification!MarkAsRead, Notification!DeleteNotification
<1>3. ASSUME NEW p \in Procs, Notification!SendBulkNotification(p) PROVE NotificationCalm'
  <2>1. PICK c : /\ c = [pc |-> "bulk", n |-> 1]
                 /\ notificationCall' = [notificationCall EXCEPT ![p] = c]
      BY <1>3 DEF Notification!SendBulkNotification, Notification!Goto
  <2>2. \A q \in Procs : \/ notificationCall'[q] = notificationCall[q]
                         \/ notificationCall'[q].pc \in {"idle", "bulk"}
      BY <2>1 DEF NotificationIInv, Notification!TypeOK
  <2>3. UNCHANGED <<preference, chosen>> BY <1>3 DEF Notification!SendBulkNotification
  <2> QED BY <2>2, <2>3, NotificationCalmSent
<1>4. ASSUME Cardinality(BusyIn(notificationCall')) <= 1, NEW p \in Procs,
             NEW u \in Notification!Receivers, Notification!GetPreferences(p, u)
      PROVE  NotificationCalm'
  <2>1. PICK c : c = [pc |-> "default", of |-> u] /\ Notification!Goto(p, c)
      BY <1>4 DEF Notification!GetPreferences
  <2>2. c # Idle /\ c.pc = "default" BY <1>0, <2>1
  <2>3. UNCHANGED <<preference, chosen>> BY <1>4 DEF Notification!GetPreferences
  <2> QED BY <1>0, <1>4, <2>1, <2>2, <2>3, NotificationCalmHeld DEF NotificationCalm
<1>5. ASSUME Cardinality(BusyIn(notificationCall')) <= 1, NEW p \in Procs,
             NEW u \in Notification!Receivers, Notification!UpdatePreferences(p, u)
      PROVE  NotificationCalm'
  <2>1. PICK c \in Notification!Call :
            /\ Notification!Goto(p, c)
            /\ c.pc \in {"create", "save"} /\ c.of = u
            /\ c.row = Notification!Merged(IF preference[u] = Notification!Absent
                                           THEN Channels ELSE preference[u], c.named, c.on)
      BY <1>5, PreferencesUpdated
  <2>2. chosen[u] = IF preference[u] = Notification!Absent THEN Channels ELSE preference[u]
      BY <1>0, <1>1 DEF NotificationCalm
  <2>3. c # Idle BY <1>0, <2>1
  <2>4. UNCHANGED <<preference, chosen>> BY <1>5 DEF Notification!UpdatePreferences
  <2>5. c.row = Notification!Merged(chosen'[c.of], c.named, c.on) BY <2>1, <2>2, <2>4
  <2> QED BY <1>0, <1>5, <2>1, <2>3, <2>4, <2>5, NotificationCalmHeld DEF NotificationCalm
<1>6. ASSUME Cardinality(BusyIn(notificationCall')) <= 1, NEW p \in Procs,
             Notification!CreateDefaultPreferences(p)
      PROVE  NotificationCalm'
  <2>1. PICK c : c = notificationCall[p] OBVIOUS
  <2>2. /\ c.pc \in {"default", "create"} /\ c.of \in Notification!Receivers
        /\ c \in Notification!Call /\ preference[c.of] = Notification!Absent
      BY <1>6, <2>1 DEF Notification!CreateDefaultPreferences, NotificationIInv,
                        Notification!TypeOK, Notification!Idle, Notification!Call
  <2>3. chosen[c.of] = Channels BY <1>0, <1>1, <2>2 DEF NotificationCalm
  <2>4. preference' = [preference EXCEPT ![c.of] = Channels] /\ UNCHANGED chosen
      BY <1>6, <2>1 DEF Notification!CreateDefaultPreferences
  <2>5. \A u \in Notification!Receivers :
            \/ preference'[u] = chosen'[u]
            \/ preference'[u] = Notification!Absent /\ chosen'[u] = Channels
      BY <2>2, <2>3, <2>4 DEF NotificationCalm, NotificationIInv, Notification!TypeOK
  <2>6. Preferring(p) BY <2>1, <2>2 DEF Preferring
  <2>7. CASE c.pc = "default"
    <3>1. Notification!Goto(p, Idle)
        BY <1>0, <1>6, <2>1, <2>7 DEF Notification!CreateDefaultPreferences, Notification!Return
    <3> QED BY <1>0, <1>6, <2>5, <2>6, <3>1, NotificationCalmHeld
  <2>8. CASE c.pc = "create"
    <3>1. PICK d : d = [c EXCEPT !.pc = "save"] /\ Notification!Goto(p, d)
        BY <1>6, <2>1, <2>8 DEF Notification!CreateDefaultPreferences
    <3>2. d.of = c.of /\ d.row = c.row /\ d.named = c.named /\ d.on = c.on /\ d.pc = "save"
        BY <2>2, <2>8, <3>1 DEF Notification!Call
    <3>3. c.row = Notification!Merged(chosen[c.of], c.named, c.on)
        BY <2>1, <2>8 DEF NotificationCalm
    <3>4. d.row = Notification!Merged(chosen'[d.of], d.named, d.on) BY <2>4, <3>2, <3>3
    <3> QED BY <1>0, <1>6, <2>5, <2>6, <3>1, <3>4, NotificationCalmHeld
  <2> QED BY <2>2, <2>7, <2>8
<1>7. ASSUME Cardinality(BusyIn(notificationCall')) <= 1, NEW p \in Procs,
             Notification!SavePreferences(p)
      PROVE  NotificationCalm'
  <2>1. PICK c : c = notificationCall[p] OBVIOUS
  <2>2. c.pc = "save" /\ c.of \in Notification!Receivers
      BY <1>7, <2>1, TwoReceivers, NotificationHolds
         DEF Notification!SavePreferences, NotificationIInv, NotificationCallTypes
  <2>3. c.row = (chosen[c.of] \ c.named) \cup c.on
      BY <2>1, <2>2 DEF NotificationCalm, Notification!Merged
  <2>4. /\ preference' = [preference EXCEPT ![c.of] = c.row]
        /\ chosen' = [chosen EXCEPT ![c.of] = c.row]
      BY <1>7, <2>1, <2>3 DEF Notification!SavePreferences
  <2>5. \A u \in Notification!Receivers :
            \/ preference'[u] = chosen'[u]
            \/ preference'[u] = Notification!Absent /\ chosen'[u] = Channels
      BY <2>2, <2>4 DEF NotificationCalm, NotificationIInv, Notification!TypeOK
  <2>6. Preferring(p) /\ Notification!Goto(p, Idle)
      BY <1>0, <1>7, <2>1, <2>2 DEF Preferring, Notification!SavePreferences, Notification!Return
  <2> QED BY <1>0, <1>7, <2>5, <2>6, NotificationCalmHeld
<1>8. ASSUME NEW p \in Procs, Notification!CreateNext(p) PROVE NotificationCalm'
  <2>1. PICK n : n \in {1, 2} /\ notificationCall[p] = [pc |-> "bulk", n |-> n]
      BY <1>8, TwoReceivers DEF Notification!CreateNext, NotificationIInv, Notification!TypeOK,
                                Notification!Call, Notification!Idle
  <2>2. PICK d : /\ notificationCall' = [notificationCall EXCEPT ![p] = d]
                 /\ d.pc \in {"idle", "bulk"}
    <3>1. PICK d : d = [pc |-> "bulk", n |-> n] /\ d = notificationCall[p]
        BY <2>1
    <3>2. PICK e : e = [d EXCEPT !.n = @ + 1] OBVIOUS
    <3>3. e.pc = "bulk" BY <3>1, <3>2
    <3>4. Notification!Goto(p, Idle) \/ Notification!Goto(p, e)
        BY <1>0, <1>8, <3>1, <3>2 DEF Notification!CreateNext, Notification!NextUser,
                                Notification!Return
    <3> QED BY <1>0, <3>3, <3>4 DEF Notification!Goto
  <2>3. \A q \in Procs : \/ notificationCall'[q] = notificationCall[q]
                         \/ notificationCall'[q].pc \in {"idle", "bulk"}
      BY <2>2 DEF NotificationIInv, Notification!TypeOK
  <2>4. UNCHANGED <<preference, chosen>> BY <1>8 DEF Notification!CreateNext
  <2> QED BY <2>3, <2>4, NotificationCalmSent
<1> QED BY <1>2, <1>3, <1>4, <1>5, <1>6, <1>7, <1>8
        DEF NotificationNext, CalmAfter, Notification!Send, Notification!Change,
            Notification!Continue, Notification!Sort

-----------------------------------------------------------------------------
(* Wallets.  The balance written is stale, but it was computed from one    *)
(* that was enough.                                                        *)

\* What a handler is about to write is a balance too.
HeldBalance == \A p \in Procs : call[p] # Idle => call[p].balance >= 0

WalletIInv == TypeOK /\ NeverOverdrawn /\ HeldBalance

LEMMA WalletInit == Init => WalletIInv
BY DEF Init, WalletIInv, TypeOK, NeverOverdrawn, HeldBalance

\* A request that holds balance b goes on to write one that is not negative.
LEMMA WalletComputed ==
    ASSUME WalletIInv, WalletAssumption, NEW p \in Procs, NEW kind \in Kinds, NEW u \in Users,
           NEW a \in Amounts, NEW b \in Nat, NewBalance(p, kind, u, a, b)
    PROVE  /\ call' \in [Procs -> {Idle} \cup Call]
           /\ HeldBalance'
<1>1. a \in Nat BY DEF WalletAssumption
<1>2. CASE kind = "get" \/ (kind = "withdraw" /\ b < a)
    BY <1>2 DEF NewBalance, WalletIInv, TypeOK, HeldBalance
<1>3. CASE ~(kind = "get" \/ (kind = "withdraw" /\ b < a))
  <2>1. PICK c : /\ call' = [call EXCEPT ![p] = c]
                 /\ c = [pc |-> "update", kind |-> kind, user |-> u, amount |-> a,
                         balance |-> IF kind = "add" THEN b + a ELSE b - a]
      BY <1>3 DEF NewBalance
  <2>2. (IF kind = "add" THEN b + a ELSE b - a) \in Nat BY <1>1, <1>3 DEF Kinds
  <2>3. c \in Call /\ c.balance >= 0 BY <2>1, <2>2 DEF Call
  <2> QED BY <2>1, <2>3 DEF WalletIInv, TypeOK, HeldBalance
<1> QED BY <1>2, <1>3

LEMMA WalletRequestStep ==
    ASSUME WalletIInv, WalletAssumption, NEW p \in Procs, NEW kind \in Kinds, NEW u \in Users,
           NEW a \in Amounts
    PROVE  /\ GetWallet(p, kind, u, a) => WalletIInv'
           /\ LookupError(p, kind, u, a) => WalletIInv'
<1>1. ASSUME MissWallet(p, kind, u, a) PROVE WalletIInv'
  <2>1. PICK c : /\ call' = [call EXCEPT ![p] = c]
                 /\ c = [pc |-> "create", kind |-> kind, user |-> u, amount |-> a,
                         balance |-> 0]
      BY <1>1 DEF MissWallet
  <2>2. c \in Call /\ c.balance >= 0 BY <2>1 DEF Call
  <2>3. UNCHANGED <<wallet, ledger>> BY <1>1 DEF MissWallet
  <2> QED BY <2>1, <2>2, <2>3 DEF WalletIInv, TypeOK, HeldBalance, NeverOverdrawn
<1>2. ASSUME wallet[u] # NoWallet, NewBalance(p, kind, u, a, wallet[u]),
             UNCHANGED <<wallet, ledger>>
      PROVE  WalletIInv'
  <2>1. wallet[u] \in Nat BY <1>2 DEF WalletIInv, TypeOK, NeverOverdrawn
  <2>2. call' \in [Procs -> {Idle} \cup Call] /\ HeldBalance'
      BY <1>2, <2>1, WalletComputed
  <2> QED BY <1>2, <2>2 DEF WalletIInv, TypeOK, NeverOverdrawn
<1> QED BY <1>1, <1>2 DEF GetWallet, LookupError

LEMMA WalletFinishStep ==
    ASSUME WalletIInv, NEW p \in Procs, Finish(p)
    PROVE  call' \in [Procs -> {Idle} \cup Call] /\ HeldBalance'
BY DEF Finish, WalletIInv, TypeOK, HeldBalance

LEMMA WalletContinueStep ==
    ASSUME WalletIInv, WalletAssumption, NEW p \in Procs, call[p] # Idle
    PROVE  /\ CreateWallet(p) => WalletIInv'
           /\ UpdateBalance(p) => WalletIInv'
           /\ CreateTransaction(p) => WalletIInv'
<1> DEFINE c == call[p]
<1>1. c \in Call /\ c.balance >= 0 BY DEF WalletIInv, TypeOK, HeldBalance
<1>2. /\ c.kind \in Kinds /\ c.user \in Users /\ c.amount \in Amounts /\ c.balance \in Int
      /\ c.pc \in {"create", "update", "log"}
    BY <1>1 DEF Call
<1>3. ASSUME CreateWallet(p) PROVE WalletIInv'
  <2>1. CASE wallet[c.user] = NoWallet
    <3>1. wallet' = [wallet EXCEPT ![c.user] = 0] /\ UNCHANGED ledger
          /\ NewBalance(p, c.kind, c.user, c.amount, 0)
        BY <1>3, <2>1 DEF CreateWallet
    <3>2. call' \in [Procs -> {Idle} \cup Call] /\ HeldBalance'
        BY <3>1, <1>2, WalletComputed
    <3> QED BY <3>1, <3>2, <1>2 DEF WalletIInv, TypeOK, NeverOverdrawn
  <2>2. CASE wallet[c.user] # NoWallet
    <3>1. Finish(p) /\ UNCHANGED <<wallet, ledger>> BY <1>3, <2>2 DEF CreateWallet
    <3> QED BY <3>1, WalletFinishStep DEF WalletIInv, TypeOK, NeverOverdrawn
  <2> QED BY <2>1, <2>2
<1>4. ASSUME UpdateBalance(p) PROVE WalletIInv'
  <2>1. wallet' = [wallet EXCEPT ![c.user] = c.balance] /\ UNCHANGED ledger
      BY <1>4 DEF UpdateBalance
  <2>2. PICK d : d = [c EXCEPT !.pc = "log"] /\ call' = [call EXCEPT ![p] = d]
      BY <1>4 DEF UpdateBalance
  <2>3. d \in Call /\ d.balance >= 0 BY <2>2, <1>1 DEF Call
  <2> QED BY <1>1, <1>2, <2>1, <2>2, <2>3 DEF WalletIInv, TypeOK, NeverOverdrawn, HeldBalance
<1>5. ASSUME CreateTransaction(p) PROVE WalletIInv'
  <2>1. PICK t : /\ t = [type |-> IF c.kind = "add" THEN "credit" ELSE "debit",
                         amount |-> c.amount, balance |-> c.balance]
                 /\ ledger' = [ledger EXCEPT ![c.user] = Append(ledger[c.user], t)]
      BY <1>5 DEF CreateTransaction, LogAs
  <2>2. t \in Transaction BY <2>1, <1>2 DEF Transaction
  <2>3. ledger[c.user] \in Seq(Transaction) BY <1>2 DEF WalletIInv, TypeOK
  <2>4. Append(ledger[c.user], t) \in Seq(Transaction) BY <2>2, <2>3
  <2>5. ledger' \in [Users -> Seq(Transaction)] BY <2>1, <2>4 DEF WalletIInv, TypeOK
  <2>6. Finish(p) /\ UNCHANGED wallet BY <1>5 DEF CreateTransaction, LogAs
  <2> QED BY <2>5, <2>6, WalletFinishStep DEF WalletIInv, TypeOK, NeverOverdrawn
<1> QED BY <1>3, <1>4, <1>5


LEMMA WalletStep == WalletIInv /\ Next => WalletIInv'
<1> SUFFICES ASSUME WalletIInv, Next PROVE WalletIInv'
    OBVIOUS
<1>1. ASSUME NEW p \in Procs, Request(p) PROVE WalletIInv'
    BY <1>1, WalletRequestStep, WalletAssumption DEF Request
<1>2. ASSUME NEW p \in Procs, Continue(p) PROVE WalletIInv'
  <2>1. call[p] # Idle
      BY <1>2 DEF Continue, CreateWallet, UpdateBalance, CreateTransaction, LogAs, Idle
  <2> QED BY <1>2, <2>1, WalletContinueStep, WalletAssumption DEF Continue
<1>3. ASSUME NEW p \in Procs, WriteError(p) PROVE WalletIInv'
    BY <1>3, WalletFinishStep DEF WriteError, WalletIInv, TypeOK, NeverOverdrawn
<1>4. ASSUME NEW p \in Procs, NEW kind \in Kinds, NEW u \in Users, NEW a \in Amounts,
             LookupError(p, kind, u, a)
      PROVE  WalletIInv'
    BY <1>4, WalletRequestStep, WalletAssumption
<1>5. CASE Crash
    BY <1>5 DEF Crash, WalletIInv, TypeOK, NeverOverdrawn, HeldBalance
<1> QED BY <1>1, <1>2, <1>3, <1>4, <1>5 DEF Next, Fault

-----------------------------------------------------------------------------

Closing(u) == BalanceAfter(u, Len(ledger[u]))

Changed(kind, b, a) == IF kind = "add" THEN b + a ELSE b - a

\* What a handler is about to do fits the wallet, which nobody else changes.
WalletCallFits(c) ==
    /\ c.pc = "create" => wallet[c.user] = NoWallet
    /\ c.pc = "update" => /\ wallet[c.user] # NoWallet
                          /\ c.balance = Changed(c.kind, wallet[c.user], c.amount)
    /\ c.pc = "log" => /\ wallet[c.user] = c.balance
                       /\ c.balance = Changed(c.kind, Closing(c.user), c.amount)

WalletLogging(u) == \E p \in Procs : call[p].pc = "log" /\ call[p].user = u

\* Outside a handler, the last line of the ledger shows the balance.
WalletCalm ==
    /\ One(call)
    /\ \A p \in Procs : WalletCallFits(call[p])
    /\ \A u \in Users : LedgerAddsUp(u)
    /\ \A u \in Users : \/ wallet[u] = NoWallet /\ ledger[u] = <<>>
                        \/ wallet[u] # NoWallet /\ wallet[u] = Closing(u)
                        \/ wallet[u] # NoWallet /\ WalletLogging(u)

LEMMA WalletCalmInit == Init => WalletCalm
<1> SUFFICES ASSUME Init PROVE WalletCalm
    OBVIOUS
<1>1. \A p \in Procs : call[p] = Idle /\ call[p].pc = "idle" BY DEF Init, Idle
<1>2. \A u \in Users : wallet[u] = NoWallet /\ ledger[u] = <<>> BY DEF Init
<1>3. \A u \in Users : LedgerAddsUp(u) BY <1>2 DEF LedgerAddsUp
<1> QED BY <1>1, <1>2, <1>3 DEF WalletCalm, One, WalletCallFits

LEMMA WalletAlone ==
    ASSUME WalletIInv, WalletCalm, NEW p \in Procs, NEW c, call' = [call EXCEPT ![p] = c],
           call[p] # Idle \/ (c # Idle /\ Cardinality(BusyIn(call')) <= 1)
    PROVE  /\ One(call)'
           /\ call'[p] = c
           /\ \A q \in Procs \ {p} : call[q] = Idle /\ call'[q] = Idle
<1>1. \A q \in Procs \ {p} : call'[q] = call[q] BY DEF WalletIInv, TypeOK
<1>2. call'[p] = c BY DEF WalletIInv, TypeOK
<1>3. PICK g : g = call' OBVIOUS
<1>4. CASE call[p] # Idle
  <2>1. \A q \in Procs \ {p} : call[q] = Idle BY <1>4 DEF WalletCalm, One
  <2> QED BY <1>1, <1>2, <2>1 DEF One
<1>5. CASE c # Idle /\ Cardinality(BusyIn(call')) <= 1
  <2>1. One(g) BY <1>1, <1>3, <1>5, StillOne DEF WalletCalm
  <2>2. One(call)' BY <1>3, <2>1 DEF One
  <2> QED BY <1>1, <1>2, <1>5, <2>2 DEF WalletCalm, One
<1> QED BY <1>4, <1>5

\* A request takes up c; no row changes.
LEMMA WalletCalmHeld ==
    ASSUME WalletIInv, WalletCalm, NEW p \in Procs, NEW c, call[p] = Idle,
           call' = [call EXCEPT ![p] = c], Cardinality(BusyIn(call')) <= 1,
           UNCHANGED <<wallet, ledger>>, c = Idle \/ (c.pc # "log" /\ WalletCallFits(c))
    PROVE  WalletCalm'
<1>0. Idle.pc = "idle" BY DEF Idle
<1>1. CASE c = Idle
  <2>1. call' = call BY <1>1 DEF WalletIInv, TypeOK
  <2> QED BY <2>1 DEF WalletCalm, One, WalletCallFits, LedgerAddsUp, BalanceAfter, Closing,
                      WalletLogging
<1>2. CASE c # Idle
  <2>1. /\ One(call)' /\ call'[p] = c
        /\ \A q \in Procs \ {p} : call[q] = Idle /\ call'[q] = Idle
      BY <1>2, WalletAlone
  <2>2. \A u \in Users : ~WalletLogging(u) BY <1>0, <2>1 DEF WalletLogging
  <2>3. \A q \in Procs : WalletCallFits(call[q])'
    <3>1. WalletCallFits(call[p])' BY <1>2, <2>1 DEF WalletCallFits, Closing, BalanceAfter
    <3>2. \A q \in Procs \ {p} : WalletCallFits(call[q])' BY <1>0, <2>1 DEF WalletCallFits
    <3> QED BY <3>1, <3>2
  <2>4. \A u \in Users : LedgerAddsUp(u)' BY DEF WalletCalm, LedgerAddsUp, BalanceAfter
  <2>5. \A u \in Users : \/ wallet'[u] = NoWallet /\ ledger'[u] = <<>>
                         \/ wallet'[u] # NoWallet /\ wallet'[u] = Closing(u)'
      BY <2>2 DEF WalletCalm, Closing, BalanceAfter
  <2> QED BY <2>1, <2>3, <2>4, <2>5 DEF WalletCalm
<1> QED BY <1>1, <1>2

LEMMA WalletCalmRequest ==
    ASSUME WalletIInv, WalletCalm, NEW p \in Procs, Request(p), Cardinality(BusyIn(call')) <= 1
    PROVE  WalletCalm'
<1>1. PICK kind \in Kinds, u \in Users, a \in Amounts : GetWallet(p, kind, u, a)
    BY DEF Request
<1>2. CASE wallet[u] # NoWallet
  <2>1. /\ call[p] = Idle /\ UNCHANGED <<wallet, ledger>>
        /\ NewBalance(p, kind, u, a, wallet[u])
      BY <1>1, <1>2 DEF GetWallet
  <2>2. PICK b : b = wallet[u] OBVIOUS
  <2>3. PICK c : /\ call' = [call EXCEPT ![p] = c]
                 /\ \/ c = Idle
                    \/ c = [pc |-> "update", kind |-> kind, user |-> u, amount |-> a,
                            balance |-> IF kind = "add" THEN b + a ELSE b - a]
      BY <2>1, <2>2 DEF NewBalance
  <2>4. c = Idle \/ (c.pc # "log" /\ WalletCallFits(c))
      BY <1>2, <2>2, <2>3 DEF WalletCallFits, Changed
  <2> QED BY <2>1, <2>3, <2>4, WalletCalmHeld
<1>3. CASE wallet[u] = NoWallet
  <2>1. PICK c : /\ c = [pc |-> "create", kind |-> kind, user |-> u, amount |-> a,
                         balance |-> 0]
                 /\ call' = [call EXCEPT ![p] = c]
      BY <1>1, <1>3 DEF GetWallet, MissWallet
  <2>2. call[p] = Idle /\ UNCHANGED <<wallet, ledger>>
      BY <1>1, <1>3 DEF GetWallet, MissWallet
  <2>3. c.pc # "log" /\ WalletCallFits(c) BY <1>3, <2>1 DEF WalletCallFits
  <2> QED BY <2>1, <2>2, <2>3, WalletCalmHeld
<1> QED BY <1>2, <1>3

\* The handler that is at work goes on with c.
LEMMA WalletCalmWritten ==
    ASSUME WalletIInv, WalletCalm, NEW p \in Procs, NEW c, call[p] # Idle,
           call' = [call EXCEPT ![p] = c], c = Idle \/ WalletCallFits(c)',
           \A u \in Users : LedgerAddsUp(u)',
           \A u \in Users : \/ wallet'[u] = NoWallet /\ ledger'[u] = <<>>
                            \/ wallet'[u] # NoWallet /\ wallet'[u] = Closing(u)'
                            \/ wallet'[u] # NoWallet /\ c.pc = "log" /\ c.user = u
    PROVE  WalletCalm'
<1>0. Idle.pc = "idle" BY DEF Idle
<1>1. /\ One(call)' /\ call'[p] = c
      /\ \A q \in Procs \ {p} : call[q] = Idle /\ call'[q] = Idle
    BY WalletAlone
<1>2. \A q \in Procs : WalletCallFits(call[q])'
  <2>1. WalletCallFits(call[p])' BY <1>0, <1>1 DEF WalletCallFits
  <2>2. \A q \in Procs \ {p} : WalletCallFits(call[q])' BY <1>0, <1>1 DEF WalletCallFits
  <2> QED BY <2>1, <2>2
<1>3. \A u \in Users : c.pc = "log" /\ c.user = u => WalletLogging(u)'
    BY <1>1 DEF WalletLogging
<1> QED BY <1>1, <1>2, <1>3 DEF WalletCalm

LEMMA WalletCalmCreate ==
    ASSUME WalletIInv, WalletCalm, NEW p \in Procs, call[p] # Idle, CreateWallet(p)
    PROVE  WalletCalm'
<1>0. Idle.pc = "idle" BY DEF Idle
<1>1. PICK c : c = call[p] OBVIOUS
<1>2. c \in Call /\ c.pc = "create" /\ wallet[c.user] = NoWallet
    BY <1>1 DEF CreateWallet, WalletIInv, TypeOK, WalletCalm, WalletCallFits
<1>3. c.user \in Users BY <1>2 DEF Call
<1>4. /\ wallet' = [wallet EXCEPT ![c.user] = 0] /\ UNCHANGED ledger
      /\ NewBalance(p, c.kind, c.user, c.amount, 0)
    BY <1>1, <1>2 DEF CreateWallet
<1>5. PICK d : /\ call' = [call EXCEPT ![p] = d]
               /\ \/ d = Idle
                  \/ d = [pc |-> "update", kind |-> c.kind, user |-> c.user,
                          amount |-> c.amount,
                          balance |-> IF c.kind = "add" THEN 0 + c.amount ELSE 0 - c.amount]
    BY <1>4 DEF NewBalance
<1>6. /\ wallet'[c.user] = 0 /\ NoWallet # 0
      /\ \A u \in Users \ {c.user} : wallet'[u] = wallet[u]
    BY <1>3, <1>4, WalletAssumption DEF WalletIInv, TypeOK
<1>7. d = Idle \/ WalletCallFits(d)' BY <1>5, <1>6 DEF WalletCallFits, Changed
<1>8. \A u \in Users : LedgerAddsUp(u)' BY <1>4 DEF WalletCalm, LedgerAddsUp, BalanceAfter
<1>9. \A q \in Procs \ {p} : call[q] = Idle BY DEF WalletCalm, One
<1>10. \A u \in Users : ~WalletLogging(u) BY <1>0, <1>1, <1>2, <1>9 DEF WalletLogging
<1>11. ledger'[c.user] = <<>> BY <1>2, <1>3, <1>4 DEF WalletCalm
<1>12. Closing(c.user)' = 0 BY <1>11 DEF Closing, BalanceAfter
<1>13. \A u \in Users : \/ wallet'[u] = NoWallet /\ ledger'[u] = <<>>
                        \/ wallet'[u] # NoWallet /\ wallet'[u] = Closing(u)'
  <2>1. TAKE u \in Users
  <2>2. CASE u = c.user BY <1>6, <1>12, <2>2
  <2>3. CASE u # c.user
      BY <1>4, <1>6, <1>10, <2>3 DEF WalletCalm, Closing, BalanceAfter
  <2> QED BY <2>2, <2>3
<1> QED BY <1>5, <1>7, <1>8, <1>13, WalletCalmWritten

LEMMA WalletCalmUpdate ==
    ASSUME WalletIInv, WalletCalm, NEW p \in Procs, call[p] # Idle, UpdateBalance(p)
    PROVE  WalletCalm'
<1>0. Idle.pc = "idle" BY DEF Idle
<1>1. PICK c : c = call[p] OBVIOUS
<1>2. /\ c \in Call /\ c.pc = "update" /\ wallet[c.user] # NoWallet
      /\ c.balance = Changed(c.kind, wallet[c.user], c.amount)
    BY <1>1 DEF UpdateBalance, WalletIInv, TypeOK, WalletCalm, WalletCallFits
<1>3. c.user \in Users /\ c.balance \in Int BY <1>2 DEF Call
<1>4. PICK d : /\ d = [c EXCEPT !.pc = "log"] /\ call' = [call EXCEPT ![p] = d]
               /\ wallet' = [wallet EXCEPT ![c.user] = c.balance] /\ UNCHANGED ledger
    BY <1>1 DEF UpdateBalance
<1>5. /\ d.pc = "log" /\ d.user = c.user /\ d.balance = c.balance /\ d.kind = c.kind
      /\ d.amount = c.amount
    BY <1>2, <1>4 DEF Call
<1>6. /\ wallet'[c.user] = c.balance /\ NoWallet # c.balance
      /\ \A u \in Users \ {c.user} : wallet'[u] = wallet[u]
    BY <1>3, <1>4, WalletAssumption DEF WalletIInv, TypeOK
<1>7. \A q \in Procs \ {p} : call[q] = Idle BY DEF WalletCalm, One
<1>8. \A u \in Users : ~WalletLogging(u) BY <1>0, <1>1, <1>2, <1>7 DEF WalletLogging
<1>9. wallet[c.user] = Closing(c.user) BY <1>2, <1>3, <1>8 DEF WalletCalm
<1>10. WalletCallFits(d)'
    BY <1>2, <1>4, <1>5, <1>6, <1>9 DEF WalletCallFits, Closing, BalanceAfter
<1>11. \A u \in Users : LedgerAddsUp(u)' BY <1>4 DEF WalletCalm, LedgerAddsUp, BalanceAfter
<1>12. \A u \in Users : \/ wallet'[u] = NoWallet /\ ledger'[u] = <<>>
                        \/ wallet'[u] # NoWallet /\ wallet'[u] = Closing(u)'
                        \/ wallet'[u] # NoWallet /\ d.pc = "log" /\ d.user = u
  <2>1. TAKE u \in Users
  <2>2. CASE u = c.user BY <1>5, <1>6, <2>2
  <2>3. CASE u # c.user
      BY <1>4, <1>6, <1>8, <2>3 DEF WalletCalm, Closing, BalanceAfter
  <2> QED BY <2>2, <2>3
<1> QED BY <1>4, <1>10, <1>11, <1>12, WalletCalmWritten

\* One more line that shows what it adds leaves a ledger that adds up.
LEMMA LineAdded ==
    ASSUME WalletIInv, WalletAssumption, NEW u \in Users, LedgerAddsUp(u),
           NEW t \in Transaction, ledger'[u] = Append(ledger[u], t),
           t.balance = IF t.type = "credit" THEN Closing(u) + t.amount ELSE Closing(u) - t.amount
    PROVE  LedgerAddsUp(u)' /\ Closing(u)' = t.balance
<1>1. PICK s \in Seq(Transaction) : s = ledger[u] BY DEF WalletIInv, TypeOK
<1>2. PICK n \in Nat : n = Len(s) BY <1>1
<1>3. ledger'[u] = Append(s, t) BY <1>1
<1>4. Len(ledger'[u]) = n + 1 BY <1>2, <1>3
<1>5. ledger'[u][n + 1] = t BY <1>2, <1>3
<1>6. \A i \in 1 .. n : ledger'[u][i] = s[i] BY <1>2, <1>3
<1>7. ASSUME NEW i \in 0 .. n PROVE BalanceAfter(u, i)' = BalanceAfter(u, i)
  <2>1. CASE i = 0 BY <2>1 DEF BalanceAfter
  <2>2. CASE i \in 1 .. n
    <3>1. ledger'[u][i] = ledger[u][i] BY <1>1, <1>6, <2>2
    <3> QED BY <3>1 DEF BalanceAfter
  <2> QED BY <2>1, <2>2
<1>8. Closing(u)' = t.balance BY <1>4, <1>5 DEF Closing, BalanceAfter
<1>9. ASSUME NEW i \in 1 .. Len(ledger'[u])
      PROVE  ledger'[u][i].balance =
                 IF ledger'[u][i].type = "credit"
                 THEN BalanceAfter(u, i - 1)' + ledger'[u][i].amount
                 ELSE BalanceAfter(u, i - 1)' - ledger'[u][i].amount
  <2>1. i \in 1 .. n + 1 BY <1>4
  <2>2. CASE i = n + 1
    <3>1. BalanceAfter(u, i - 1)' = Closing(u) BY <1>1, <1>2, <1>7, <2>2 DEF Closing
    <3> QED BY <1>5, <2>2, <3>1
  <2>3. CASE i \in 1 .. n
    <3>1. BalanceAfter(u, i - 1)' = BalanceAfter(u, i - 1) BY <1>7, <2>3
    <3>2. ledger'[u][i] = ledger[u][i] BY <1>1, <1>6, <2>3
    <3> QED BY <1>1, <1>2, <2>3, <3>1, <3>2 DEF LedgerAddsUp
  <2> QED BY <2>1, <2>2, <2>3
<1>10. LedgerAddsUp(u)' BY <1>9 DEF LedgerAddsUp
<1> QED BY <1>8, <1>10

LEMMA WalletCalmLog ==
    ASSUME WalletIInv, WalletCalm, NEW p \in Procs, call[p] # Idle, CreateTransaction(p)
    PROVE  WalletCalm'
<1>0. Idle.pc = "idle" BY DEF Idle
<1>1. PICK c : c = call[p] OBVIOUS
<1>2. /\ c \in Call /\ c.pc = "log" /\ wallet[c.user] = c.balance
      /\ c.balance = Changed(c.kind, Closing(c.user), c.amount)
    BY <1>1 DEF CreateTransaction, LogAs, WalletIInv, TypeOK, WalletCalm, WalletCallFits
<1>3. /\ c.user \in Users /\ c.kind \in Kinds /\ c.amount \in Amounts /\ c.balance \in Int
      /\ c.balance # NoWallet
    BY <1>2, WalletAssumption DEF Call
<1>4. PICK t : /\ t = [type |-> IF c.kind = "add" THEN "credit" ELSE "debit",
                       amount |-> c.amount, balance |-> c.balance]
               /\ ledger' = [ledger EXCEPT ![c.user] = Append(ledger[c.user], t)]
    BY <1>1 DEF CreateTransaction, LogAs
<1>5. /\ t \in Transaction
      /\ t.balance = IF t.type = "credit" THEN Closing(c.user) + t.amount
                                          ELSE Closing(c.user) - t.amount
    BY <1>2, <1>3, <1>4 DEF Transaction, Changed
<1>6. /\ ledger'[c.user] = Append(ledger[c.user], t)
      /\ \A u \in Users \ {c.user} : ledger'[u] = ledger[u]
    BY <1>3, <1>4 DEF WalletIInv, TypeOK
<1>7. LedgerAddsUp(c.user)' /\ Closing(c.user)' = c.balance
  <2>1. LedgerAddsUp(c.user) BY <1>3 DEF WalletCalm
  <2>2. t.balance = c.balance BY <1>4
  <2>3. PICK u \in Users : u = c.user BY <1>3
  <2>4. LedgerAddsUp(u)' /\ Closing(u)' = t.balance
      BY <1>5, <1>6, <2>1, <2>3, WalletAssumption, LineAdded
  <2> QED BY <2>2, <2>3, <2>4
<1>8. UNCHANGED wallet /\ call' = [call EXCEPT ![p] = Idle]
    BY DEF CreateTransaction, LogAs, Finish
<1>9. \A q \in Procs \ {p} : call[q] = Idle BY DEF WalletCalm, One
<1>10. \A u \in Users \ {c.user} : ~WalletLogging(u)
    BY <1>0, <1>1, <1>9 DEF WalletLogging
<1>11. \A u \in Users : LedgerAddsUp(u)'
  <2>1. \A u \in Users \ {c.user} : LedgerAddsUp(u)'
      BY <1>6 DEF WalletCalm, LedgerAddsUp, BalanceAfter
  <2> QED BY <1>7, <2>1
<1>12. \A u \in Users : \/ wallet'[u] = NoWallet /\ ledger'[u] = <<>>
                        \/ wallet'[u] # NoWallet /\ wallet'[u] = Closing(u)'
  <2>1. TAKE u \in Users
  <2>2. CASE u = c.user BY <1>2, <1>3, <1>7, <1>8, <2>2
  <2>3. CASE u # c.user
      BY <1>6, <1>8, <1>10, <2>3 DEF WalletCalm, Closing, BalanceAfter
  <2> QED BY <2>2, <2>3
<1> QED BY <1>8, <1>11, <1>12, WalletCalmWritten

LEMMA WalletCalmStep == WalletIInv /\ WalletCalm /\ WalletNext /\ calm' => WalletCalm'
<1> SUFFICES ASSUME WalletIInv, WalletCalm, WalletNext, calm' PROVE WalletCalm'
    OBVIOUS
<1>1. ASSUME NEW p \in Procs, Request(p), CalmAfter(call') PROVE WalletCalm'
    BY <1>1, WalletCalmRequest DEF CalmAfter
<1>2. ASSUME NEW p \in Procs, Continue(p) PROVE WalletCalm'
  <2>1. call[p] # Idle
      BY <1>2 DEF Continue, CreateWallet, UpdateBalance, CreateTransaction, LogAs, Idle
  <2> QED BY <1>2, <2>1, WalletCalmCreate, WalletCalmUpdate, WalletCalmLog DEF Continue
<1> QED BY <1>1, <1>2 DEF WalletNext

-----------------------------------------------------------------------------
(* All services in one.                                                    *)

ServicesIInv ==
    /\ WalletIInv
    /\ RiderIInv
    /\ Restaurant!TypeOK
    /\ AuthIInv
    /\ NotificationIInv

ServicesCalm ==
    calm => WalletCalm /\ RiderCalm /\ RestaurantCalm /\ AuthCalm /\ NotificationCalm

LEMMA ServicesInitIInv == ServicesInit => ServicesIInv /\ ServicesCalm
BY ServicesAssumption, WalletInit, RiderInit, RestaurantInit, AuthInit, NotificationInit,
   WalletCalmInit, RiderCalmInit, RestaurantCalmInit, AuthCalmInit, NotificationCalmInit
   DEF ServicesInit, ServicesIInv, ServicesCalm

\* A service that does nothing stays as it was.
LEMMA WalletRests ==
    UNCHANGED walletVars => (WalletIInv => WalletIInv') /\ (WalletCalm => WalletCalm')
<1> SUFFICES ASSUME UNCHANGED <<wallet, ledger, call>>
             PROVE  (WalletIInv => WalletIInv') /\ (WalletCalm => WalletCalm')
    BY DEF walletVars, vars
<1>1. WalletIInv => WalletIInv' BY DEF WalletIInv, TypeOK, NeverOverdrawn, HeldBalance
<1>2. WalletCalm => WalletCalm'
    BY DEF WalletCalm, One, WalletCallFits, LedgerAddsUp, BalanceAfter, Closing, WalletLogging
<1> QED BY <1>1, <1>2

LEMMA RiderRests ==
    UNCHANGED riderVars => (RiderIInv => RiderIInv') /\ (RiderCalm => RiderCalm')
<1> SUFFICES ASSUME UNCHANGED <<rider, earnings, riderCall, asked>>
             PROVE  (RiderIInv => RiderIInv') /\ (RiderCalm => RiderCalm')
    BY DEF riderVars
<1>1. Rider!Riders' = Rider!Riders BY DEF Rider!Riders
<1>2. \A r : Counting(r)' = Counting(r) BY DEF Counting
<1>3. RiderIInv => RiderIInv' BY <1>1, <1>2 DEF RiderIInv, Rider!TypeOK, Covered
<1>4. RiderCalm => RiderCalm'
    BY <1>1 DEF RiderCalm, One, Rider!OneProfile, Rider!SwitchesKept, RiderCallFits, AddsUp,
                RiderBusyAt
<1> QED BY <1>3, <1>4

LEMMA RestaurantRests ==
    UNCHANGED restaurantVars =>
        /\ Restaurant!TypeOK => Restaurant!TypeOK'
        /\ RestaurantCalm => RestaurantCalm'
<1> SUFFICES ASSUME UNCHANGED <<row, category, made, cache, restaurantCall>>
             PROVE  /\ Restaurant!TypeOK => Restaurant!TypeOK'
                    /\ RestaurantCalm => RestaurantCalm'
    BY DEF restaurantVars
<1>1. Restaurant!TypeOK => Restaurant!TypeOK' BY DEF Restaurant!TypeOK
<1>2. RestaurantCalm => RestaurantCalm'
    BY MenuIsOfItems DEF RestaurantCalm, One, Restaurant!ItemsFresh, MenuShown
<1> QED BY <1>1, <1>2

LEMMA AuthRests ==
    UNCHANGED authVars => (AuthIInv => AuthIInv') /\ (AuthCalm => AuthCalm')
<1> SUFFICES ASSUME UNCHANGED <<user, token, authCall, secret, spent>>
             PROVE  (AuthIInv => AuthIInv') /\ (AuthCalm => AuthCalm')
    BY DEF authVars
<1>1. AuthIInv => AuthIInv'
    BY DEF AuthIInv, Auth!TypeOK, AuthHeldIssued, Auth!OneAccountPerPhone, Auth!Accounts
<1>2. AuthCalm => AuthCalm'
    BY DEF AuthCalm, One, Auth!TokenUsedOnce, Auth!PasswordKept, Auth!Accounts, AuthCallFits,
           AuthRevoking
<1> QED BY <1>1, <1>2

LEMMA NotificationRests ==
    UNCHANGED notificationVars =>
        /\ NotificationIInv => NotificationIInv'
        /\ NotificationCalm => NotificationCalm'
<1> SUFFICES ASSUME UNCHANGED <<inbox, preference, notificationCall, bulk, chosen>>
             PROVE  /\ NotificationIInv => NotificationIInv'
                    /\ NotificationCalm => NotificationCalm'
    BY DEF notificationVars
<1>1. Halfway' = Halfway /\ BusyIn(notificationCall)' = BusyIn(notificationCall)
    BY DEF Halfway, BusyIn
<1>2. NotificationIInv => NotificationIInv'
    BY <1>1 DEF NotificationIInv, Notification!TypeOK
<1>3. NotificationCalm => NotificationCalm'
    BY DEF NotificationCalm, Preferring, Notification!Merged
<1> QED BY <1>2, <1>3

\* The calm does not come back.
LEMMA CalmEnds == ServicesNext /\ calm' => calm
BY DEF ServicesNext, WalletNext, RiderNext, RestaurantNext, AuthNext, NotificationNext, CalmAfter

LEMMA ServicesNextIInv ==
    ServicesIInv /\ ServicesCalm /\ [ServicesNext]_mcvars => ServicesIInv' /\ ServicesCalm'
<1> SUFFICES ASSUME ServicesIInv, ServicesCalm, [ServicesNext]_mcvars
             PROVE  ServicesIInv' /\ ServicesCalm'
    OBVIOUS
<1> USE DEF ServicesIInv, ServicesCalm
<1>1. CASE ServicesNext /\ WalletNext
  <2>1. Next /\ UNCHANGED <<riderVars, restaurantVars, authVars, notificationVars>>
      BY <1>1 DEF WalletNext, Next
  <2> QED BY <1>1, <2>1, CalmEnds, WalletStep, WalletCalmStep, RiderRests, RestaurantRests,
             AuthRests, NotificationRests
<1>2. CASE ServicesNext /\ RiderNext
  <2>1. UNCHANGED <<walletVars, restaurantVars, authVars, notificationVars>>
      BY <1>2 DEF RiderNext
  <2> QED BY <1>2, <2>1, CalmEnds, RiderStep, RiderCalmStep, WalletRests, RestaurantRests,
             AuthRests, NotificationRests
<1>3. CASE ServicesNext /\ RestaurantNext
  <2>1. UNCHANGED <<walletVars, riderVars, authVars, notificationVars>>
      BY <1>3 DEF RestaurantNext
  <2> QED BY <1>3, <2>1, CalmEnds, RestaurantStep, RestaurantCalmStep, WalletRests, RiderRests,
             AuthRests, NotificationRests
<1>4. CASE ServicesNext /\ AuthNext
  <2>1. Auth!Next /\ UNCHANGED <<walletVars, riderVars, restaurantVars, notificationVars>>
      BY <1>4 DEF AuthNext, Auth!Next
  <2> QED BY <1>4, <2>1, CalmEnds, AuthStep, AuthCalmStep, WalletRests, RiderRests,
             RestaurantRests, NotificationRests
<1>5. CASE ServicesNext /\ NotificationNext
  <2>1. UNCHANGED <<walletVars, riderVars, restaurantVars, authVars>>
      BY <1>5 DEF NotificationNext
  <2> QED BY <1>5, <2>1, CalmEnds, NotificationStep, NotificationCalmStep, WalletRests,
             RiderRests, RestaurantRests, AuthRests
<1>6. CASE UNCHANGED mcvars
  <2>1. /\ UNCHANGED calm
        /\ UNCHANGED <<walletVars, riderVars, restaurantVars, authVars, notificationVars>>
      BY <1>6 DEF mcvars
  <2> QED BY <2>1, WalletRests, RiderRests, RestaurantRests, AuthRests, NotificationRests
<1> QED BY <1>1, <1>2, <1>3, <1>4, <1>5, <1>6 DEF ServicesNext

THEOREM ServicesInvariance == ServicesSpec => [](ServicesIInv /\ ServicesCalm)
BY ServicesInitIInv, ServicesNextIInv, PTL DEF ServicesSpec

\* Every table, cache and handler of the five services keeps its type, whatever
\* fails and however requests interleave.
THEOREM ServicesTypeCorrect == ServicesSpec => []ServicesTypeOK
<1>1. ServicesIInv => ServicesTypeOK
    BY DEF ServicesIInv, ServicesTypeOK, WalletIInv, RiderIInv, AuthIInv, NotificationIInv
<1> QED BY <1>1, ServicesInvariance, PTL

\* WithdrawFunds leaves no wallet below zero, however requests interleave.
THEOREM NoOverdraft == ServicesSpec => []NeverOverdrawn
<1>1. ServicesIInv => NeverOverdrawn BY DEF ServicesIInv, WalletIInv
<1> QED BY <1>1, ServicesInvariance, PTL

\* A wallet's ledger adds up line by line to its balance, and a rider's totals
\* to the earnings stored, for calls that come one at a time; and the totals of
\* AddEarning never say more than was earned, whatever it races with.
THEOREM BooksAlwaysAgree == ServicesSpec => []BooksAgree
<1>1. ServicesIInv /\ ServicesCalm => BooksAgree
  <2> SUFFICES ASSUME ServicesIInv, ServicesCalm PROVE BooksAgree
      OBVIOUS
  <2>0. Idle.pc = "idle" BY DEF Idle
  <2>1. ASSUME calm PROVE StatementAgrees
    <3> SUFFICES ASSUME NEW u \in Users
                 PROVE  /\ LedgerAddsUp(u)
                        /\ wallet[u] # NoWallet /\ (\A p \in Procs : call[p] = Idle) =>
                               wallet[u] = Closing(u)
        BY DEF StatementAgrees, Closing
    <3>1. (\A p \in Procs : call[p] = Idle) => ~WalletLogging(u) BY <2>0 DEF WalletLogging
    <3> QED BY <2>1, <3>1 DEF ServicesCalm, WalletCalm
  <2>2. ASSUME calm, BusyIn(riderCall) = {} PROVE Rider!TotalsAgree
    <3>1. \A r : ~RiderBusyAt(r) BY <2>0, <2>2 DEF BusyIn, RiderBusyAt
    <3> QED BY <2>2, <3>1 DEF ServicesCalm, RiderCalm, AddsUp, Rider!TotalsAgree
  <2>3. Rider!TotalsWithinEarnings
    <3> SUFFICES ASSUME NEW r \in Rider!Riders
                 PROVE  /\ rider[r].total <= earnings[r].sum
                        /\ rider[r].deliveries <= earnings[r].rows
        BY DEF Rider!TotalsWithinEarnings
    <3>1. r \in RiderIds BY DEF Rider!Riders
    <3>2. PICK n \in Nat : n = Cardinality(Counting(r))
        BY <3>1, FS_CardinalityType DEF ServicesIInv, RiderIInv
    <3>3. PICK x \in Rider!Row : x = rider[r]
        BY <3>1 DEF ServicesIInv, RiderIInv, Rider!TypeOK, Rider!Riders
    <3>4. x.total \in Nat /\ x.deliveries \in Nat BY <3>3 DEF Rider!Row
    <3>5. earnings[r].sum \in Nat /\ earnings[r].rows \in Nat
        BY <3>1 DEF ServicesIInv, RiderIInv, Rider!TypeOK
    <3>6. x.total + n <= earnings[r].sum /\ x.deliveries + n <= earnings[r].rows
        BY <3>2, <3>3 DEF ServicesIInv, RiderIInv, Covered
    <3> QED BY <3>2, <3>3, <3>4, <3>5, <3>6
  <2> QED BY <2>1, <2>2, <2>3 DEF BooksAgree
<1> QED BY <1>1, ServicesInvariance, PTL

\* Register never gives one phone number to two accounts, though it looks it up
\* and creates the account in two calls; and while calls come one at a time no
\* user has two rider profiles, and no refresh token two successors.
THEOREM OneOfEachIsKept == ServicesSpec => []OneOfEach
<1>1. ServicesIInv /\ ServicesCalm => OneOfEach
    BY DEF ServicesIInv, ServicesCalm, AuthIInv, RiderCalm, AuthCalm, OneOfEach
<1> QED BY <1>1, ServicesInvariance, PTL

\* SendBulkNotification passes nobody over, whatever fails; and while calls
\* come one at a time, switches, passwords, preferences and the items of the menu
\* shown are as they were last written.
THEOREM WritesAreNotLost == ServicesSpec => []WritesAreKept
<1>1. ServicesIInv => Notification!NobodyIsPassedOver
  <2> SUFFICES ASSUME ServicesIInv PROVE Notification!NobodyIsPassedOver
      OBVIOUS
  <2>1. PICK n \in Nat : n = Cardinality(Halfway)
      BY HalfwayFinite DEF ServicesIInv, NotificationIInv
  <2>2. bulk[v1] \in Nat /\ bulk[v2] \in Nat
      BY TwoReceivers DEF ServicesIInv, NotificationIInv, Notification!TypeOK
  <2>3. v1 # v2 => bulk[v2] <= bulk[v1] BY <2>1, <2>2 DEF ServicesIInv, NotificationIInv
  <2> QED BY <2>2, <2>3, TwoReceivers DEF Notification!NobodyIsPassedOver
<1>2. ServicesCalm /\ calm => Rider!SwitchesKept /\ Auth!PasswordKept
    BY DEF ServicesCalm, RiderCalm, AuthCalm
<1>3. ServicesCalm /\ calm => Notification!PreferenceKept
    BY DEF ServicesCalm, NotificationCalm, Notification!PreferenceKept
<1>4. ServicesCalm /\ calm => Restaurant!MenuIsFresh
  <2>1. Restaurant!Idle.pc # "invalidate" BY DEF Restaurant!Idle
  <2> QED BY <2>1 DEF ServicesCalm, RestaurantCalm, Restaurant!MenuIsFresh
<1>5. ServicesIInv /\ ServicesCalm => WritesAreKept
    BY <1>1, <1>2, <1>3, <1>4 DEF WritesAreKept
<1> QED BY <1>5, ServicesInvariance, PTL

-----------------------------------------------------------------------------
(* Two services on their own, with requests that never run out.            *)

\* WithdrawFunds leaves no wallet below zero.
THEOREM WalletAlwaysCovered == Spec => []NeverOverdrawn
<1>1. Init => WalletIInv BY WalletInit
<1>2. WalletIInv /\ [Next]_vars => WalletIInv'
  <2>1. UNCHANGED vars /\ WalletIInv => WalletIInv'
      BY DEF vars, WalletIInv, TypeOK, NeverOverdrawn, HeldBalance
  <2> QED BY <2>1, WalletStep
<1>3. WalletIInv => NeverOverdrawn BY DEF WalletIInv
<1> QED BY <1>1, <1>2, <1>3, PTL DEF Spec

\* Register and the saves of old copies never give one phone number to two
\* accounts.
THEOREM OneAccount == Auth!Spec => []Auth!OneAccountPerPhone
<1>1. Auth!Init => AuthIInv BY ServicesAssumption, AuthInit
<1>2. AuthIInv /\ [Auth!Next]_(Auth!vars) => AuthIInv'
  <2>1. UNCHANGED Auth!vars /\ AuthIInv => AuthIInv' BY AuthRests DEF Auth!vars, authVars
  <2> QED BY <2>1, AuthStep
<1>3. AuthIInv => Auth!OneAccountPerPhone BY DEF AuthIInv
<1> QED BY <1>1, <1>2, <1>3, PTL DEF Auth!Spec
=============================================================================
