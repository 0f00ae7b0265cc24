------------------------------ MODULE Commands ------------------------------
(***************************************************************************)
(* What the bot does with the updates of its users: aiogram runs a task    *)
(* for each, through UserTrackingMiddleware (throttle, then user and       *)
(* session rows) to a handler.  Of the handlers only /add_source and       *)
(* /toggle_source change anything; both read a row and write it in the     *)
(* same transaction, and PostgreSQL lets others commit in between (READ    *)
(* COMMITTED).                                                             *)
(***************************************************************************)
EXTENDS Integers, FiniteSets

CONSTANTS
    Users,
    Admins,        \* settings.admin_ids
    Channels,      \* what /add_source may name
    Tasks,         \* slots for the update tasks that exist at one time
    NoUpdate,      \* the update of a free slot
    Gap,           \* _THROTTLE_GAP_SECONDS
    MaxTime,       \* bound: the last moment of a behaviour
    MaxRestarts    \* bound: restarts in a behaviour

Names == {"add_source", "toggle_source", "other"}

Updates == [user: Users, name: Names, channel: Channels]

ASSUME CommandsAssumption ==
    /\ Admins \subseteq Users
    /\ IsFiniteSet(Tasks)
    /\ NoUpdate \notin Updates
    /\ Gap \in Nat \ {0}
    /\ MaxTime \in Nat
    /\ MaxRestarts \in Nat

VARIABLES
    \* the database
    interactions,       \* user_bot_sessions.interaction_count, 0 without a row
    sources, enabled,   \* the table of SourceTable
    \* the process
    now,                \* time.monotonic()
    lastSeen,           \* _last_seen, 0 for a user who is not in it
    at,                 \* where each task is
    update,             \* the update it was started for
    row,                \* what it read: was there a row, was it enabled
    \* observation
    admitted,           \* updates of each user that passed the throttle
    untracked,          \* those whose tracking transaction did not commit
    switch,             \* sources enabled if the toggles had run one by one
    overlapped,         \* sources of which two toggles ran at the same time
    restarts

tableVars == <<sources, enabled, switch, overlapped>>
userVars  == <<interactions, now, lastSeen, admitted, untracked, restarts>>
vars == <<tableVars, userVars, at, update, row>>

Init ==
    /\ interactions = [u \in Users |-> 0]
    /\ sources = {}
    /\ enabled = {}
    /\ now = Gap
    /\ lastSeen = [u \in Users |-> 0]
    /\ at = [t \in Tasks |-> "idle"]
    /\ update = [t \in Tasks |-> NoUpdate]
    /\ row = [t \in Tasks |-> "none"]
    /\ admitted = [u \in Users |-> 0]
    /\ untracked = [u \in Users |-> 0]
    /\ switch = {}
    /\ overlapped = {}
    /\ restarts = 0

GoTo(t, point) == at' = [at EXCEPT ![t] = point] /\ UNCHANGED update

Is(t, name) == update[t].name = name

Flipped(set, c) == IF c \in set THEN set \ {c} ELSE set \cup {c}

RowOf(c) == IF c \in enabled THEN "enabled" ELSE IF c \in sources THEN "disabled" ELSE "none"

-----------------------------------------------------------------------------
(* Faulty variants of definitions below, used only for mutation testing.   *)

(* An update let through whose moment is not noted.                        *)
ReceiveUnnoted(t, u) ==
    /\ at[t] = "idle"
    /\ now - lastSeen[u.user] >= Gap
    /\ at' = [at EXCEPT ![t] = "track"]
    /\ update' = [update EXCEPT ![t] = u]
    /\ admitted' = [admitted EXCEPT ![u.user] = @ + 1]
    /\ UNCHANGED <<tableVars, interactions, now, lastSeen, untracked, restarts, row>>

(* The count of the row that would be inserted, not of the one that is.    *)
CountedFrom(n) == 1

(* Without the look at admin_ids.                                          *)
HandlerOfAnyone(u) == IF u.name # "other" THEN "read" ELSE "answered"

(* set_enabled(source_id, True), without the look at the row.              *)
SetEnabledAlways(t) ==
    /\ at[t] = "write" /\ Is(t, "toggle_source")
    /\ enabled' = enabled \cup {update[t].channel}
    /\ switch' = Flipped(switch, update[t].channel)
    /\ GoTo(t, "answered")
    /\ UNCHANGED <<sources, overlapped, userVars, row>>

(* A column default of false.                                              *)
InsertDisabled(t) ==
    /\ at[t] = "write" /\ Is(t, "add_source")
    /\ sources' = sources \cup {update[t].channel}
    /\ GoTo(t, IF update[t].channel \in sources THEN "failed" ELSE "answered")
    /\ UNCHANGED <<enabled, switch, overlapped, userVars, row>>

(* The answer sent before the commit.                                      *)
RaisesAnswered(t) ==
    /\ at[t] \in {"read", "write"}
    /\ GoTo(t, IF at[t] = "write" THEN "answered" ELSE "failed")
    /\ UNCHANGED <<tableVars, userVars, row>>

-----------------------------------------------------------------------------
(* The middleware.                                                         *)

Tick == now < MaxTime /\ now' = now + 1
    /\ UNCHANGED <<tableVars, interactions, lastSeen, admitted, untracked, restarts,
                   at, update, row>>

(* An update that comes too soon goes no further and leaves no trace; one  *)
(* that passes is noted before the task lets another run.                  *)
Receive(t, u) ==
    /\ at[t] = "idle"
    /\ now - lastSeen[u.user] >= Gap
    /\ lastSeen' = [lastSeen EXCEPT ![u.user] = now]
    /\ at' = [at EXCEPT ![t] = "track"]
    /\ update' = [update EXCEPT ![t] = u]
    /\ admitted' = [admitted EXCEPT ![u.user] = @ + 1]
    /\ UNCHANGED <<tableVars, interactions, now, untracked, restarts, row>>

(* Only an admin's two commands have anything to read and write.           *)
Handler(u) ==
    IF u.user \in Admins /\ u.name # "other" THEN "read" ELSE "answered"

(* interaction_count + 1, computed by the database on the locked row.      *)
Counted(n) == n + 1

(* upsert_user and touch_session, one transaction.                         *)
Track(t) ==
    /\ at[t] = "track"
    /\ interactions' = [interactions EXCEPT ![update[t].user] = Counted(@)]
    /\ GoTo(t, Handler(update[t]))
    /\ UNCHANGED <<tableVars, now, lastSeen, admitted, untracked, restarts, row>>

(* Tracking must never block user interaction.                             *)
TrackFails(t) ==
    /\ at[t] = "track"
    /\ untracked' = [untracked EXCEPT ![update[t].user] = @ + 1]
    /\ GoTo(t, Handler(update[t]))
    /\ UNCHANGED <<tableVars, interactions, now, lastSeen, admitted, restarts, row>>

-----------------------------------------------------------------------------
(* The handlers.                                                           *)

(* get_by_channel or get: /add_source returns the row it finds, and        *)
(* /toggle_source says that it finds none.                                 *)
Read(t) ==
    LET c == update[t].channel
        toggling == Is(t, "toggle_source")
    IN  /\ at[t] = "read"
        /\ row' = [row EXCEPT ![t] = RowOf(c)]
        /\ GoTo(t, IF toggling = (c \in sources) THEN "write" ELSE "answered")
        /\ overlapped' = IF toggling /\ \E o \in Tasks :
                at[o] = "write" /\ Is(o, "toggle_source") /\ update[o].channel = c
            THEN overlapped \cup {c} ELSE overlapped
        /\ UNCHANGED <<sources, enabled, switch, userVars>>

(* The INSERT of add: the unique index refuses a second row.               *)
Insert(t) ==
    LET c == update[t].channel
    IN  /\ at[t] = "write" /\ Is(t, "add_source")
        /\ sources' = sources \cup {c}
        /\ enabled' = IF c \in sources THEN enabled ELSE enabled \cup {c}
        /\ switch' = IF c \in sources THEN switch ELSE switch \cup {c}
        /\ GoTo(t, IF c \in sources THEN "failed" ELSE "answered")
        /\ UNCHANGED <<overlapped, userVars, row>>

(* The UPDATE of set_enabled, with the negation of what was read.          *)
SetEnabled(t) ==
    LET c == update[t].channel
    IN  /\ at[t] = "write" /\ Is(t, "toggle_source")
        /\ enabled' = IF row[t] = "enabled" THEN enabled \ {c} ELSE enabled \cup {c}
        /\ switch' = Flipped(switch, c)
        /\ GoTo(t, "answered")
        /\ UNCHANGED <<sources, overlapped, userVars, row>>

(* The session raises and rolls back; there is no answer.                  *)
Raises(t) ==
    /\ at[t] \in {"read", "write"}
    /\ GoTo(t, "failed")
    /\ UNCHANGED <<tableVars, userVars, row>>

End(t) ==
    /\ at[t] \in {"answered", "failed"}
    /\ at' = [at EXCEPT ![t] = "idle"]
    /\ update' = [update EXCEPT ![t] = NoUpdate]
    /\ row' = [row EXCEPT ![t] = "none"]
    /\ UNCHANGED <<tableVars, userVars>>

-----------------------------------------------------------------------------
Tracking(u) == {t \in Tasks : at[t] = "track" /\ update[t].user = u}

(* The process ends with its tasks, and the throttle starts anew.          *)
Restart ==
    /\ restarts < MaxRestarts
    /\ restarts' = restarts + 1
    /\ lastSeen' = [u \in Users |-> 0]
    /\ untracked' = [u \in Users |-> untracked[u] + Cardinality(Tracking(u))]
    /\ at' = [t \in Tasks |-> "idle"]
    /\ update' = [t \in Tasks |-> NoUpdate]
    /\ row' = [t \in Tasks |-> "none"]
    /\ UNCHANGED <<tableVars, interactions, now, admitted>>

Next ==
    \/ Tick \/ Restart
    \/ \E t \in Tasks, u \in Updates : Receive(t, u)
    \/ \E t \in Tasks :
        \/ Track(t) \/ TrackFails(t) \/ Read(t) \/ Insert(t) \/ SetEnabled(t)
        \/ Raises(t) \/ End(t)

Spec == Init /\ [][Next]_vars

-----------------------------------------------------------------------------
(* Every variable has its type, a task at work has an update, and only an  *)
(* admin's task is at the table.                                           *)
TypeOK ==
    /\ interactions \in [Users -> Nat]
    /\ sources \subseteq Channels
    /\ enabled \subseteq sources
    /\ now \in Nat
    /\ lastSeen \in [Users -> 0..now]
    /\ at \in [Tasks -> {"idle", "track", "read", "write", "answered", "failed"}]
    /\ update \in [Tasks -> Updates \cup {NoUpdate}]
    /\ \A t \in Tasks : at[t] # "idle" => update[t] \in Updates
    /\ \A t \in Tasks : at[t] \in {"read", "write"} => update[t].user \in Admins
    /\ row \in [Tasks -> {"none", "enabled", "disabled"}]
    /\ admitted \in [Users -> Nat]
    /\ untracked \in [Users -> Nat]
    /\ switch \subseteq sources
    /\ overlapped \subseteq Channels
    /\ restarts \in 0..MaxRestarts

(* However many updates a user sends at the same moment, at most one per   *)
(* gap gets to the database and to a handler, and one more per restart,    *)
(* which empties the throttle.                                             *)
ThrottleHolds ==
    \A u \in Users : Gap * (admitted[u] - restarts - 1) <= now - Gap

(* Each update that passed is counted exactly once or failed to be: no     *)
(* increment is lost to a concurrent one.                                  *)
CountIsExact ==
    \A u \in Users :
        interactions[u] + untracked[u] + Cardinality(Tracking(u)) = admitted[u]

(* A toggle is lost only to another one of the same source at the same     *)
(* time: otherwise the switch is where the toggles leave it when they run  *)
(* one after the other, whatever fails in between.                         *)
SwitchIsSerial ==
    \A c \in Channels \ overlapped : c \in enabled <=> c \in switch

(* /add_source tells the admin that a source was added only when it has a  *)
(* row, also when a second /add_source or a failure took the row away from *)
(* the transaction that answers.                                           *)
AddIsNeverLost ==
    \A t \in Tasks :
        at[t] = "answered" /\ Is(t, "add_source") /\ update[t].user \in Admins
            => update[t].channel \in sources

(* The commands are nothing but additions and flips to the source table.   *)
Table == INSTANCE SourceTable WITH
    Channels <- Channels,
    sources  <- sources,
    enabled  <- enabled
ImplementsSourceTable == Table!Spec
=============================================================================
