---------------------- MODULE NotificationOrchestration ---------------------
(* backend/pkg/notification/notification_orchestration.go: through which   *)
(* channels a notification goes out, and how many do.  One user and one    *)
(* type of notification, as the limiter counts each such pair by itself.   *)
(* Left out: quiet hours, which nothing asks about, and silent pushes,     *)
(* which change nothing.                                                   *)
EXTENDS Goroutines

CONSTANTS
    Type,  \* type of the notifications
    Limit  \* notifications of a type until the process restarts, 10 in the code

VARIABLES
    enabled,  \* the user's preferences; a user without any has all
    count     \* notificationCounts, in the memory of the process

vars == <<call, enabled, count>>

Channels == {"push", "sms", "email", "in_app"}

Preferences == Channels \cup {"marketing"}

Init ==
    /\ call = [p \in Procs |-> Idle]
    /\ enabled = Preferences
    /\ count = 0

SetPreferences(preferences) ==
    /\ enabled' = preferences
    /\ UNCHANGED <<call, count>>

\* Faulty: marketing goes to whoever has the channel.
MarketingToAll(critical, preferences) ==
    preferences \cap
        CASE Type = "order_status" -> {"push", "in_app"} \cup {c \in {"sms"} : critical}
          [] Type \in {"promo", "marketing"} -> {"push", "email"}
          [] Type = "alert" -> Channels
          [] OTHER -> {"push", "in_app"}

DetermineChannels(critical, preferences) ==
    preferences \cap
        CASE Type = "order_status" -> {"push", "in_app"} \cup {c \in {"sms"} : critical}
          [] Type = "marketing" -> {c \in {"push", "email"} : "marketing" \in preferences}
          [] Type = "promo" -> {"push", "email"}
          [] Type = "alert" -> Channels
          [] OTHER -> {"push", "in_app"}

\* SendOrderNotification: the later states of an order are critical.
SendNotification(p) ==
    /\ call[p] = Idle
    /\ \E critical \in BOOLEAN :
         Goto(p, [pc |-> "limit", channels |-> DetermineChannels(critical, enabled)])
    /\ UNCHANGED <<enabled, count>>

\* The map is read, and written, without a lock.
IsRateLimited(p) ==
    /\ At(p, "limit")
    /\ Goto(p, IF count >= Limit
                 THEN Idle
                 ELSE [pc |-> "count", seen |-> count, channels |-> call[p].channels])
    /\ UNCHANGED <<enabled, count>>

Count(p) ==
    /\ At(p, "count")
    /\ count' = call[p].seen + 1
    /\ Goto(p, [pc |-> "send", channels |-> call[p].channels])
    /\ UNCHANGED enabled

\* One channel after the other; one that fails stops none of the others.
Send(p) ==
    /\ At(p, "send")
    /\ \/ \E c \in call[p].channels : Goto(p, [call[p] EXCEPT !.channels = @ \ {c}])
       \/ call[p].channels = {} /\ Return(p)
    /\ UNCHANGED <<enabled, count>>

\* Preferences that cannot be read are taken to be the default.
PreferencesError(p) ==
    /\ call[p] = Idle
    /\ \E critical \in BOOLEAN :
         Goto(p, [pc |-> "limit", channels |-> DetermineChannels(critical, Preferences)])
    /\ UNCHANGED <<enabled, count>>

Restart ==
    /\ call' = [p \in Procs |-> Idle]
    /\ count' = 0
    /\ UNCHANGED enabled

Fail == Restart \/ \E p \in Procs : PreferencesError(p)

Work(p) == SendNotification(p) \/ IsRateLimited(p) \/ Count(p) \/ Send(p)

Next ==
    \/ \E p \in Procs : Work(p)
    \/ \E preferences \in SUBSET Preferences : SetPreferences(preferences)
    \/ Fail

Spec == Init /\ [][Next]_vars

-----------------------------------------------------------------------------
(* Properties.                                                             *)

TypeOK ==
    /\ enabled \subseteq Preferences
    /\ count \in Nat

\* Nothing is under way to a channel that the user has disabled.
DisabledIsSpared ==
    \A p \in Procs : At(p, "send") /\ call[p].channels # {} =>
        /\ call[p].channels \subseteq enabled
        /\ Type = "marketing" => "marketing" \in enabled
=============================================================================
