------------------------- MODULE NotificationService -------------------------
(***************************************************************************)
(* backend/cmd/notification-service: a table of notifications and one of   *)
(* preferences.  Each database call is an action.                          *)
(*                                                                         *)
(* Of the notifications a user has, the model keeps whether there are read *)
(* and whether there are unread ones.  What they say is left out, and      *)
(* their delivery, which the code leaves out as well.                      *)
(***************************************************************************)
EXTENDS Integers, Sequences

CONSTANTS
    List,      \* users a bulk notification is for, in order
    Channels,  \* what a user may switch on: push, e-mail, offers, ...
    Default,   \* what is on before the user chooses
    Procs      \* handler goroutines

VARIABLES
    inbox,         \* which kinds of notifications each user has
    preference,    \* table of preferences
    call,          \* what each handler is doing
    bulk,          \* history variable: bulk notifications created for each user
    chosen         \* history variable: preferences last asked for

vars == <<inbox, preference, call, bulk, chosen>>

Receivers == {List[n] : n \in 1 .. Len(List)}

Absent == {"absent"}

Idle == [pc |-> "idle"]

Call == [pc : {"bulk"}, n : 1 .. Len(List)]
          \cup [pc : {"default"}, of : Receivers]
          \cup [pc : {"create", "save"}, of : Receivers, row : SUBSET Channels,
                named : SUBSET Channels, on : SUBSET Channels]

Init ==
    /\ inbox = [u \in Receivers |-> {}]
    /\ preference = [u \in Receivers |-> Absent]
    /\ call = [p \in Procs |-> Idle]
    /\ bulk = [u \in Receivers |-> 0]
    /\ chosen = [u \in Receivers |-> Default]

Goto(p, c) == call' = [call EXCEPT ![p] = c]

Return(p) == Goto(p, Idle)

-----------------------------------------------------------------------------
(* Notifications.                                                          *)

SendNotification(u) ==
    /\ inbox' = [inbox EXCEPT ![u] = @ \cup {"unread"}]
    /\ UNCHANGED <<preference, call, bulk, chosen>>

SendBulkNotification(p) ==
    /\ call[p] = Idle
    /\ Goto(p, [pc |-> "bulk", n |-> 1])
    /\ UNCHANGED <<inbox, preference, bulk, chosen>>

\* Faulty: one user too many.
NextUserBeyond(p) ==
    IF call[p].n > Len(List) THEN Return(p) ELSE Goto(p, [call[p] EXCEPT !.n = @ + 1])

NextUser(p) ==
    IF call[p].n = Len(List) THEN Return(p) ELSE Goto(p, [call[p] EXCEPT !.n = @ + 1])

CreateNext(p) ==
    /\ call[p].pc = "bulk"
    /\ inbox' = [inbox EXCEPT ![List[call[p].n]] = @ \cup {"unread"}]
    /\ bulk' = [bulk EXCEPT ![List[call[p].n]] = @ + 1]
    /\ NextUser(p)
    /\ UNCHANGED <<preference, chosen>>

\* Faulty: the rest is sent all the same.
BulkErrorSkips(p) ==
    /\ call[p].pc = "bulk"
    /\ NextUser(p)
    /\ UNCHANGED <<inbox, preference, bulk, chosen>>

\* The caller is told of an error and not of those that were created.
BulkError(p) ==
    /\ call[p].pc = "bulk"
    /\ Return(p)
    /\ UNCHANGED <<inbox, preference, bulk, chosen>>

\* One of them, or MarkAllAsRead.
MarkAsRead(u) ==
    /\ "unread" \in inbox[u]
    /\ \E left \in {{"read"}, {"read", "unread"}} : inbox' = [inbox EXCEPT ![u] = left]
    /\ UNCHANGED <<preference, call, bulk, chosen>>

\* The last of its kind, or one of several.
DeleteNotification(u) ==
    /\ \E kind \in inbox[u] : inbox' = [inbox EXCEPT ![u] = @ \ {kind}]
    /\ UNCHANGED <<preference, call, bulk, chosen>>

-----------------------------------------------------------------------------
(* Preferences.                                                            *)

\* Faulty: what is not named is switched off.
MergedAnew(old, named, on) == on

\* The request names some of the channels; the others stay as they were.
Merged(old, named, on) == (old \ named) \cup on

\* Only a user without a row needs one.
GetPreferences(p, u) ==
    /\ call[p] = Idle
    /\ preference[u] = Absent
    /\ Goto(p, [pc |-> "default", of |-> u])
    /\ UNCHANGED <<inbox, preference, bulk, chosen>>

UpdatePreferences(p, u) ==
    /\ call[p] = Idle
    /\ \E named \in SUBSET Channels : \E on \in SUBSET named :
         LET old == IF preference[u] = Absent THEN Default ELSE preference[u]
         IN  Goto(p, [pc |-> IF preference[u] = Absent THEN "create" ELSE "save", of |-> u,
                      row |-> Merged(old, named, on), named |-> named, on |-> on])
    /\ UNCHANGED <<inbox, preference, bulk, chosen>>

\* The unique index refuses a second row, and the request ends.
CreateDefaultPreferences(p) ==
    /\ call[p].pc \in {"default", "create"}
    /\ preference[call[p].of] = Absent
    /\ preference' = [preference EXCEPT ![call[p].of] = Default]
    /\ IF call[p].pc = "default" THEN Return(p) ELSE Goto(p, [call[p] EXCEPT !.pc = "save"])
    /\ UNCHANGED <<inbox, bulk, chosen>>

SavePreferences(p) ==
    /\ call[p].pc = "save"
    /\ preference' = [preference EXCEPT ![call[p].of] = call[p].row]
    /\ chosen' = [chosen EXCEPT ![call[p].of] = (@ \ call[p].named) \cup call[p].on]
    /\ Return(p)
    /\ UNCHANGED <<inbox, bulk>>

\* A statement fails, or a row is there already: nothing is written.
PreferenceError(p) ==
    /\ call[p].pc \in {"default", "create", "save"}
    /\ Return(p)
    /\ UNCHANGED <<inbox, preference, bulk, chosen>>

-----------------------------------------------------------------------------

Send(p) == SendBulkNotification(p) \/ \E u \in Receivers : SendNotification(u)

Change(p) == \E u \in Receivers : GetPreferences(p, u) \/ UpdatePreferences(p, u)

Sort == \E u \in Receivers : MarkAsRead(u) \/ DeleteNotification(u)

Continue(p) == CreateNext(p) \/ CreateDefaultPreferences(p) \/ SavePreferences(p)

Fault == \E p \in Procs : BulkError(p) \/ PreferenceError(p)

Next == Sort \/ Fault \/ \E p \in Procs : Send(p) \/ Change(p) \/ Continue(p)

Spec == Init /\ [][Next]_vars

-----------------------------------------------------------------------------
(* Properties.                                                             *)

TypeOK ==
    /\ inbox \in [Receivers -> SUBSET {"read", "unread"}]
    /\ preference \in [Receivers -> {Absent} \cup SUBSET Channels]
    /\ call \in [Procs -> {Idle} \cup Call]
    /\ bulk \in [Receivers -> Nat]
    /\ chosen \in [Receivers -> SUBSET Channels]

\* However bulk sends race and fail, nobody is passed over: whoever is further
\* down the list has had no more of them (notification_service.go:49).
NobodyIsPassedOver ==
    \A n \in 2 .. Len(List) : bulk[List[n]] <= bulk[List[n - 1]]

\* What a user switched off stays off, and on on (notification_service.go:134).
PreferenceKept ==
    \A u \in Receivers :
        (\A p \in Procs : call[p] # Idle /\ call[p].pc # "bulk" => call[p].of # u) =>
            preference[u] \in {Absent, chosen[u]}
=============================================================================
