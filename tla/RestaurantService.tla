-------------------------- MODULE RestaurantService --------------------------
(***************************************************************************)
(* backend/cmd/restaurant-service: restaurants, menu categories and menu   *)
(* items in the database, and lists of them in a cache.  The menu list,    *)
(* items with their categories, is deleted from the cache when an item     *)
(* changes; the list of restaurants nearby is only ever left to expire.    *)
(* Each database or cache call is an action.                               *)
(*                                                                         *)
(* A row is the number of its version, 0 when there is none; the version   *)
(* stands for all its fields but an item's category.  Items and categories *)
(* are those of one restaurant, which their foreign keys keep; Restaurants *)
(* have none.  A category that is deleted is taken off its items           *)
(* (000001_init_schema.up.sql:163).  gorm saves the category that was read *)
(* with an item along with the item: it puts it back if it is gone, and    *)
(* sets category_id to it, whatever the request asked for.                 *)
(* Left out: who owns a restaurant, and searches by name or cuisine, which *)
(* are not cached.                                                         *)
(***************************************************************************)
EXTENDS Integers

CONSTANTS
    Items, Categories, Restaurants,  \* rows
    NoCategory,                      \* of an item without one
    Procs                            \* handler goroutines

VARIABLES
    row,      \* version of each row
    category, \* category of each item
    made,     \* versions made so far
    cache,    \* the two lists
    call      \* what each handler is doing

vars == <<row, category, made, cache, call>>

Rows == Items \cup Categories \cup Restaurants

Lists == {"menu", "nearby"}

Existing == {c \in Categories : row[c] # 0}

MenuItems == {x \in Items : row[x] # 0}

\* Cache keys: "menu:restaurant:<id>" and "restaurants:nearby:<place>".
\* A menu shows its items, and of the categories those of its items.
Shown(k) ==
    IF k = "menu" THEN MenuItems \cup {c \in Existing : \E x \in MenuItems : category[x] = c}
    ELSE {x \in Restaurants : row[x] # 0}

Content(k) == {<<x, row[x]>> : x \in Shown(k)}

None == [list |-> {}, kept |-> FALSE, expires |-> FALSE]

Entry == [list : SUBSET (Rows \X Nat), kept : BOOLEAN, expires : BOOLEAN]

Idle == [pc |-> "idle"]

\* An item is saved with the category it was read with.
Call == [pc : {"save"}, x : Rows, of : Categories \cup {NoCategory}, was : Nat]
          \cup [pc : {"invalidate"}, x : Rows]
          \cup [pc : {"fill"}, key : Lists, list : SUBSET (Rows \X Nat)]

Init ==
    /\ row = [x \in Rows |-> 0]
    /\ category = [x \in Items |-> NoCategory]
    /\ made = 0
    /\ cache = [k \in Lists |-> None]
    /\ call = [p \in Procs |-> Idle]

Goto(p, c) == call' = [call EXCEPT ![p] = c]

Return(p) == Goto(p, Idle)

-----------------------------------------------------------------------------
(* Changes.                                                                *)

\* Faulty: the list stays as it is.
InvalidateNextNot(p, x) == Return(p)

InvalidateNext(p, x) ==
    IF x \in Items THEN Goto(p, [pc |-> "invalidate", x |-> x]) ELSE Return(p)

\* An item is given one of the categories; what is not an item has none.
Categorise(x, choices) ==
    IF x \in Items THEN \E c \in choices : category' = [category EXCEPT ![x] = c]
    ELSE UNCHANGED category

\* CreateMenuItem, CreateCategory, CreateRestaurant.
Create(p, x) ==
    /\ call[p] = Idle
    /\ row[x] = 0
    /\ row' = [row EXCEPT ![x] = made + 1]
    /\ made' = made + 1
    /\ Categorise(x, {NoCategory} \cup Existing)
    /\ InvalidateNext(p, x)
    /\ UNCHANGED cache

CategoryOf(x) == IF x \in Items THEN category[x] ELSE NoCategory

\* UpdateMenuItem, UpdateCategory, UpdateRestaurant: the row is read ...
FindByID(p, x) ==
    /\ call[p] = Idle
    /\ row[x] # 0
    /\ \E c \in {CategoryOf(x)} :
         Goto(p, [pc |-> "save", x |-> x, of |-> c, was |-> IF c = NoCategory THEN 0 ELSE row[c]])
    /\ UNCHANGED <<row, category, made, cache>>

\* ... and saved with all its fields, inserted anew if it is gone.
SaveRow(x, of, was) ==
    /\ row' = [y \in Rows |-> IF y = x THEN made + 1
                              ELSE IF y = of /\ row[y] = 0 THEN was
                              ELSE row[y]]
    /\ made' = made + 1
    /\ Categorise(x, IF of = NoCategory THEN {NoCategory} \cup Existing ELSE {of})

Save(p) ==
    /\ call[p].pc = "save"
    /\ SaveRow(call[p].x, call[p].of, call[p].was)
    /\ InvalidateNext(p, call[p].x)
    /\ UNCHANGED cache

\* DeleteMenuItem, DeleteCategory, DeleteRestaurant.  The item is read first,
\* but only for its restaurant, which never changes.
Delete(p, x) ==
    /\ call[p] = Idle
    /\ row[x] # 0
    /\ row' = [row EXCEPT ![x] = 0]
    /\ category' = [y \in Items |-> IF y = x \/ category[y] = x THEN NoCategory ELSE category[y]]
    /\ InvalidateNext(p, x)
    /\ UNCHANGED <<made, cache>>

Invalidate(p) ==
    /\ call[p].pc = "invalidate"
    /\ cache' = [cache EXCEPT !["menu"] = None]
    /\ Return(p)
    /\ UNCHANGED <<row, category, made>>

-----------------------------------------------------------------------------
(* GetMenuItems and SearchRestaurants.  A hit changes nothing.             *)

Miss(p, k) ==
    /\ call[p] = Idle
    /\ ~cache[k].kept
    /\ Goto(p, [pc |-> "fill", key |-> k, list |-> Content(k)])
    /\ UNCHANGED <<row, category, made, cache>>

\* Faulty: no time to live.
SetForGood(p) ==
    /\ call[p].pc = "fill"
    /\ cache' = [cache EXCEPT ![call[p].key] =
                   [list |-> call[p].list, kept |-> TRUE, expires |-> FALSE]]
    /\ Return(p)
    /\ UNCHANGED <<row, category, made>>

Set(p) ==
    /\ call[p].pc = "fill"
    /\ cache' = [cache EXCEPT ![call[p].key] =
                   [list |-> call[p].list, kept |-> TRUE, expires |-> TRUE]]
    /\ Return(p)
    /\ UNCHANGED <<row, category, made>>

Expire(k) ==
    /\ cache[k].expires
    /\ cache' = [cache EXCEPT ![k] = None]
    /\ UNCHANGED <<row, category, made, call>>

-----------------------------------------------------------------------------

\* A database or cache call fails, the latter unnoticed, or the process stops.
Stop(p) ==
    /\ call[p] # Idle
    /\ Return(p)
    /\ UNCHANGED <<row, category, made, cache>>

Change(p) == \E x \in Rows : Create(p, x) \/ FindByID(p, x) \/ Delete(p, x)

Read(p) == \E k \in Lists : Miss(p, k)

Continue(p) == Save(p) \/ Invalidate(p) \/ Set(p)

Next ==
    \/ \E p \in Procs : Change(p) \/ Read(p) \/ Continue(p) \/ Stop(p)
    \/ \E k \in Lists : Expire(k)

Spec == Init /\ [][Next]_vars

\* Calls return, and Redis keeps to the time to live.
Fairness ==
    /\ \A p \in Procs : WF_vars(Continue(p))
    /\ \A k \in Lists : WF_vars(Expire(k))

-----------------------------------------------------------------------------
(* Properties.                                                             *)

TypeOK ==
    /\ row \in [Rows -> Nat]
    /\ category \in [Items -> Categories \cup {NoCategory}]
    /\ made \in Nat
    /\ cache \in [Lists -> Entry]
    /\ call \in [Procs -> {Idle} \cup Call]

Fresh(k) == cache[k].kept => cache[k].list = Content(k)

ItemsIn(list) == {e \in list : e[1] \in Items}

ItemsFresh == cache["menu"].kept => ItemsIn(cache["menu"].list) = ItemsIn(Content("menu"))

\* "automatically invalidates cached items immediately on item update,
\* deletion" (README.md:87 of backend), as far as items go.
MenuIsFresh == (\A p \in Procs : call[p] = Idle) => ItemsFresh

\* "automatically invalidates cached items immediately on item update,
\* deletion, or category edits" (the same line).
MenuFollowsEdits == (\A p \in Procs : call[p] = Idle) => Fresh("menu")

\* "5 minutes (TTL per spec)" (restaurant_service.go:288), "2 mins (TTL per
\* spec)" (:160): what a reader put back late, and what a failed deletion
\* left there, goes away.
StaleGoesAway == \A k \in Lists : <>[]Fresh(k)
=============================================================================
