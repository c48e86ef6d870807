---------------------------- MODULE Notifications ----------------------------
(***************************************************************************)
(* One user's notifications and their switches: NotificationService and    *)
(* PATCH /me.  A settings request reads the switches, merges and writes    *)
(* the whole JSON column; the other requests are one statement each.       *)
(***************************************************************************)
EXTENDS Integers, FiniteSets

CONSTANTS
    NtfRequests,   \* settings requests that can run at the same time
    NtfKinds,      \* VALID_KINDS in this instance
    NtfIds         \* bound: notifications ever sent

VARIABLES
    prefs,          \* users.notification_prefs: kind -> switched on
    notifications,  \* the user's rows
    sent,           \* ids drawn so far
    toggled,        \* history: what the user set last
    mixed,          \* history: two settings requests have overlapped
    ntf             \* the settings requests

ntfVars == <<prefs, notifications, sent, toggled, mixed, ntf>>

NtfIdle == [pc |-> "idle"]
NtfInit ==
    /\ prefs = [k \in NtfKinds |-> TRUE] /\ toggled = prefs
    /\ notifications = {} /\ sent = {} /\ mixed = FALSE
    /\ ntf = [r \in NtfRequests |-> NtfIdle]

\* update_me: a switch of the body over the ones loaded.
update_me(r, kind, on) ==
    /\ ntf[r].pc = "idle"
    /\ mixed' = (mixed \/ \E q \in NtfRequests : ntf[q].pc # "idle")
    /\ ntf' = [ntf EXCEPT ![r] = [pc |-> "settings", loaded |-> prefs, kind |-> kind, on |-> on]]
    /\ UNCHANGED <<prefs, notifications, sent, toggled>>

\* Fault: the body replaces the stored switches.
MergeReplaces(loaded, kind, on) == [k \in NtfKinds |-> IF k = kind THEN on ELSE TRUE]

Merge(loaded, kind, on) == [loaded EXCEPT ![kind] = on]

SettingsCommit(r) ==
    LET new == Merge(ntf[r].loaded, ntf[r].kind, ntf[r].on)
    IN  /\ ntf[r].pc = "settings"
        /\ prefs' = IF new # ntf[r].loaded THEN new ELSE prefs
        /\ toggled' = [toggled EXCEPT ![ntf[r].kind] = ntf[r].on]
        /\ ntf' = [ntf EXCEPT ![r] = NtfIdle]
        /\ UNCHANGED <<notifications, sent, mixed>>

\* send: an unknown kind is refused, a muted one is dropped.
send(id, kind) ==
    /\ id \notin sent /\ prefs[kind]
    /\ notifications' = notifications \cup {[id |-> id, kind |-> kind, read |-> FALSE]}
    /\ sent' = sent \cup {id}
    /\ UNCHANGED <<prefs, toggled, mixed, ntf>>

unread_count == Cardinality({n \in notifications : ~n.read})

mark_read(n) ==
    /\ n \in notifications /\ ~n.read
    /\ notifications' = (notifications \ {n}) \cup {[n EXCEPT !.read = TRUE]}
    /\ UNCHANGED <<prefs, sent, toggled, mixed, ntf>>

mark_all_read ==
    /\ unread_count > 0
    /\ notifications' = {[n EXCEPT !.read = TRUE] : n \in notifications}
    /\ UNCHANGED <<prefs, sent, toggled, mixed, ntf>>

NtfCrash(r) ==
    /\ ntf[r].pc # "idle"
    /\ ntf' = [ntf EXCEPT ![r] = NtfIdle]
    /\ UNCHANGED <<prefs, notifications, sent, toggled, mixed>>

\* The endpoints for reading; send has no caller in the repository yet.
NotificationRoutes ==
    \/ \E n \in notifications : mark_read(n)
    \/ mark_all_read

NtfNext ==
    \/ \E r \in NtfRequests :
         \/ \E kind \in NtfKinds, on \in BOOLEAN : update_me(r, kind, on)
         \/ SettingsCommit(r) \/ NtfCrash(r)
    \/ \E id \in NtfIds, kind \in NtfKinds : send(id, kind)
    \/ NotificationRoutes

NtfSpec == NtfInit /\ [][NtfNext]_ntfVars

-----------------------------------------------------------------------------
(***************************************************************************)
(* "Shallow merge ... we keep any kinds the user hadn't touched": as long  *)
(* as no two settings requests overlap, every switch is as the user set it *)
(* last.  Two that overlap write the whole column, and one is lost.        *)
(***************************************************************************)
SwitchesKept == ~mixed => prefs = toggled
=============================================================================
