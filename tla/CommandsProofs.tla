--------------------------- MODULE CommandsProofs ---------------------------
(***************************************************************************)
(* The safety properties of Commands and its refinement of SourceTable,    *)
(* for any users, channels, tasks and gap.                                 *)
(*                                                                         *)
(* Two strengthenings carry the proof.  ThrottleInv measures the updates   *)
(* that passed against the moment of the last one.  SwitchInv: of a source *)
(* whose toggles never met, at most one toggle is about to write, and what *)
(* it read is still what the table says.                                   *)
(***************************************************************************)
EXTENDS Commands, FiniteSetTheorems, TLAPS

Spent(u) == Gap * (admitted[u] - restarts)

ThrottleInv ==
    /\ now >= Gap
    /\ \A u \in Users :
        IF lastSeen[u] = 0 THEN Spent(u) <= now - Gap ELSE Spent(u) <= lastSeen[u]

Toggling(t) == at[t] = "write" /\ Is(t, "toggle_source")

SwitchInv ==
    /\ SwitchIsSerial
    /\ \A t \in Tasks : Toggling(t) => update[t].channel \in sources
    /\ \A t \in Tasks :
        Toggling(t) /\ update[t].channel \notin overlapped => row[t] = RowOf(update[t].channel)
    /\ \A t, o \in Tasks :
        Toggling(t) /\ Toggling(o) /\ update[t].channel = update[o].channel
            => t = o \/ update[t].channel \in overlapped

IInv == TypeOK /\ ThrottleInv /\ CountIsExact /\ SwitchInv /\ AddIsNeverLost

-----------------------------------------------------------------------------
LEMMA GapTimes ==
    ASSUME NEW i \in Int
    PROVE  /\ Gap * i \in Int
           /\ Gap * (i + 1) = Gap * i + Gap
           /\ Gap * (i - 1) = Gap * i - Gap
    BY CommandsAssumption

LEMMA UpdateParts ==
    ASSUME NEW u \in Updates
    PROVE  u.user \in Users /\ u.name \in Names /\ u.channel \in Channels
    BY DEF Updates

LEMMA InitInv == Init => IInv
<1> SUFFICES ASSUME Init PROVE IInv
    OBVIOUS
<1>1. TypeOK
    BY CommandsAssumption DEF Init, TypeOK
<1>2. ThrottleInv
    BY CommandsAssumption DEF Init, ThrottleInv, Spent
<1>3. CountIsExact
    <2>1. \A u : Tracking(u) = {}
        BY DEF Init, Tracking
    <2>2. QED
        BY <2>1, FS_EmptySet DEF Init, CountIsExact
<1>4. SwitchInv /\ AddIsNeverLost
    BY DEF Init, SwitchInv, SwitchIsSerial, Toggling, AddIsNeverLost
<1>5. QED
    BY <1>1, <1>2, <1>3, <1>4 DEF IInv

-----------------------------------------------------------------------------
LEMMA TrackingIsFinite ==
    ASSUME NEW u PROVE IsFiniteSet(Tracking(u)) /\ Cardinality(Tracking(u)) \in Nat
<1>1. Tracking(u) \subseteq Tasks
    BY DEF Tracking
<1>2. QED
    BY <1>1, CommandsAssumption, FS_Subset, FS_CardinalityType

LEMMA TypeStep == TypeOK /\ SwitchInv /\ [Next]_vars => TypeOK'
<1> SUFFICES ASSUME TypeOK, SwitchInv, [Next]_vars PROVE TypeOK'
    OBVIOUS
<1> USE DEF TypeOK, GoTo, tableVars, userVars
<1>1. CASE Tick
    BY <1>1 DEF Tick
<1>2. ASSUME NEW t \in Tasks, NEW u \in Updates, Receive(t, u)
      PROVE  TypeOK'
    BY <1>2, UpdateParts DEF Receive
<1>3. ASSUME NEW t \in Tasks, Track(t) \/ TrackFails(t)
      PROVE  TypeOK'
    <2>1. update[t] \in Updates /\ update[t].user \in Users
        BY <1>3, UpdateParts DEF Track, TrackFails
    <2>2. Handler(update[t]) \in {"read", "answered"}
          /\ (Handler(update[t]) = "read" => update[t].user \in Admins)
        BY DEF Handler
    <2>3. QED
        BY <1>3, <2>1, <2>2 DEF Track, TrackFails, Counted
<1>4. ASSUME NEW t \in Tasks, Read(t)
      PROVE  TypeOK'
    <2>1. update[t] \in Updates /\ update[t].channel \in Channels
        BY <1>4, UpdateParts DEF Read
    <2>2. RowOf(update[t].channel) \in {"none", "enabled", "disabled"}
        BY DEF RowOf
    <2>3. overlapped' \subseteq Channels
        BY <1>4, <2>1 DEF Read
    <2>4. at' \in [Tasks -> {"idle", "track", "read", "write", "answered", "failed"}]
          /\ \A o \in Tasks : at'[o] = at[o] \/ (o = t /\ at[o] = "read" /\ at'[o] \in {"write", "answered"})
        BY <1>4 DEF Read
    <2>5. QED
        BY <1>4, <2>2, <2>3, <2>4 DEF Read
<1>5. ASSUME NEW t \in Tasks, Insert(t)
      PROVE  TypeOK'
    BY <1>5, UpdateParts DEF Insert
<1>6. ASSUME NEW t \in Tasks, SetEnabled(t)
      PROVE  TypeOK'
    <2>1. update[t].channel \in sources
        BY <1>6 DEF SetEnabled, SwitchInv, Toggling
    <2>2. QED
        BY <1>6, <2>1 DEF SetEnabled, Flipped
<1>7. ASSUME NEW t \in Tasks, Raises(t) \/ End(t)
      PROVE  TypeOK'
    BY <1>7 DEF Raises, End
<1>8. CASE Restart
    BY <1>8, TrackingIsFinite, CommandsAssumption DEF Restart
<1>9. CASE UNCHANGED vars
    BY <1>9 DEF vars
<1>10. QED
    BY <1>1, <1>2, <1>3, <1>4, <1>5, <1>6, <1>7, <1>8, <1>9 DEF Next

-----------------------------------------------------------------------------
LEMMA ThrottleStep == TypeOK /\ ThrottleInv /\ [Next]_vars => ThrottleInv'
<1> SUFFICES ASSUME TypeOK, ThrottleInv, [Next]_vars PROVE ThrottleInv'
    OBVIOUS
<1>0. /\ Gap \in Nat \ {0} /\ now \in Nat /\ restarts \in Int
      /\ \A u \in Users : admitted[u] \in Nat /\ lastSeen[u] \in 0..now /\ Spent(u) \in Int
    BY CommandsAssumption, GapTimes DEF TypeOK, Spent
<1>1. CASE Tick
    BY <1>0, <1>1 DEF Tick, ThrottleInv, Spent
<1>2. ASSUME NEW t \in Tasks, NEW u \in Updates, Receive(t, u)
      PROVE  ThrottleInv'
    <2>1. /\ now' = now /\ restarts' = restarts
          /\ u.user \in Users /\ now - lastSeen[u.user] >= Gap
          /\ lastSeen' = [lastSeen EXCEPT ![u.user] = now]
          /\ admitted' = [admitted EXCEPT ![u.user] = @ + 1]
        BY <1>2, UpdateParts DEF Receive
    <2>2. Spent(u.user)' = Spent(u.user) + Gap
        <3>1. admitted[u.user] \in Nat /\ admitted'[u.user] = admitted[u.user] + 1
            BY <1>0, <2>1 DEF TypeOK
        <3>2. admitted'[u.user] - restarts' = (admitted[u.user] - restarts) + 1
            BY <1>0, <2>1, <3>1
        <3>3. admitted[u.user] - restarts \in Int
            BY <1>0, <3>1
        <3>4. QED
            BY <3>2, <3>3, GapTimes DEF Spent
    <2>3. lastSeen'[u.user] = now /\ now # 0 /\ Spent(u.user)' <= now
        BY <1>0, <2>1, <2>2 DEF ThrottleInv, TypeOK
    <2>4. \A v \in Users \ {u.user} : Spent(v)' = Spent(v) /\ lastSeen'[v] = lastSeen[v]
        BY <2>1 DEF Spent, TypeOK
    <2>5. QED
        BY <1>0, <2>1, <2>3, <2>4 DEF ThrottleInv
<1>3. CASE Restart
    <2>1. /\ now' = now /\ restarts' = restarts + 1 /\ admitted' = admitted
          /\ lastSeen' = [u \in Users |-> 0]
        BY <1>3 DEF Restart
    <2>2. \A u \in Users : Spent(u)' = Spent(u) - Gap
        <3> SUFFICES ASSUME NEW u \in Users PROVE Spent(u)' = Spent(u) - Gap
            OBVIOUS
        <3>1. admitted'[u] - restarts' = (admitted[u] - restarts) - 1
            BY <1>0, <2>1
        <3>2. admitted[u] - restarts \in Int
            BY <1>0
        <3>3. QED
            BY <3>1, <3>2, GapTimes DEF Spent
    <2>3. \A u \in Users : Spent(u) <= now
        BY <1>0 DEF ThrottleInv
    <2>4. QED
        BY <1>0, <2>1, <2>2, <2>3 DEF ThrottleInv
<1>4. CASE UNCHANGED <<now, lastSeen, admitted, restarts>>
    BY <1>4 DEF ThrottleInv, Spent
<1>5. QED
    BY <1>1, <1>2, <1>3, <1>4
    DEF Next, vars, userVars, Track, TrackFails, Read, Insert, SetEnabled, Raises, End

LEMMA CountStep == TypeOK /\ CountIsExact /\ [Next]_vars => CountIsExact'
<1> SUFFICES ASSUME TypeOK, CountIsExact, [Next]_vars, NEW v \in Users
             PROVE  interactions'[v] + untracked'[v] + Cardinality(Tracking(v)') = admitted'[v]
    BY DEF CountIsExact
<1>0. /\ interactions[v] \in Nat /\ untracked[v] \in Nat /\ admitted[v] \in Nat
      /\ interactions[v] + untracked[v] + Cardinality(Tracking(v)) = admitted[v]
      /\ Cardinality(Tracking(v)) \in Nat
    BY TrackingIsFinite DEF TypeOK, CountIsExact
<1>1. ASSUME NEW t \in Tasks, NEW u \in Updates, Receive(t, u)
      PROVE  interactions'[v] + untracked'[v] + Cardinality(Tracking(v)') = admitted'[v]
    <2>1. /\ at[t] = "idle" /\ at' = [at EXCEPT ![t] = "track"]
          /\ update' = [update EXCEPT ![t] = u]
          /\ UNCHANGED <<interactions, untracked>>
          /\ admitted' = [admitted EXCEPT ![u.user] = @ + 1]
        BY <1>1 DEF Receive
    <2>2. CASE u.user = v
        <3>1. Tracking(v)' = Tracking(v) \cup {t} /\ t \notin Tracking(v)
            BY <2>1, <2>2 DEF Tracking, TypeOK
        <3>2. Cardinality(Tracking(v)') = Cardinality(Tracking(v)) + 1
            BY <3>1, TrackingIsFinite, FS_AddElement
        <3>3. QED
            BY <1>0, <2>1, <2>2, <3>2 DEF TypeOK
    <2>3. CASE u.user # v
        <3>1. Tracking(v)' = Tracking(v)
            BY <2>1, <2>3 DEF Tracking, TypeOK
        <3>2. QED
            BY <1>0, <2>1, <2>3, <3>1 DEF TypeOK
    <2>4. QED
        BY <2>2, <2>3
<1>2. ASSUME NEW t \in Tasks, Track(t) \/ TrackFails(t)
      PROVE  interactions'[v] + untracked'[v] + Cardinality(Tracking(v)') = admitted'[v]
    <2>1. /\ at[t] = "track" /\ \E p \in {"read", "answered"} : at' = [at EXCEPT ![t] = p]
          /\ UNCHANGED <<update, admitted>>
          /\ \/ /\ interactions' = [interactions EXCEPT ![update[t].user] = @ + 1]
                /\ UNCHANGED untracked
             \/ /\ untracked' = [untracked EXCEPT ![update[t].user] = @ + 1]
                /\ UNCHANGED interactions
        BY <1>2 DEF Track, TrackFails, GoTo, Handler, Counted
    <2>2. CASE update[t].user = v
        <3>1. Tracking(v)' = Tracking(v) \ {t} /\ t \in Tracking(v)
            BY <2>1, <2>2 DEF Tracking, TypeOK
        <3>2. Cardinality(Tracking(v)') = Cardinality(Tracking(v)) - 1
            BY <3>1, TrackingIsFinite, FS_RemoveElement
        <3>3. QED
            BY <1>0, <2>1, <2>2, <3>2 DEF TypeOK
    <2>3. CASE update[t].user # v
        <3>1. Tracking(v)' = Tracking(v)
            BY <2>1, <2>3 DEF Tracking, TypeOK
        <3>2. QED
            BY <1>0, <2>1, <2>3, <3>1 DEF TypeOK
    <2>4. QED
        BY <2>2, <2>3
<1>3. ASSUME NEW t \in Tasks, Read(t) \/ Insert(t) \/ SetEnabled(t) \/ Raises(t) \/ End(t)
      PROVE  interactions'[v] + untracked'[v] + Cardinality(Tracking(v)') = admitted'[v]
    <2>1. /\ at[t] # "track" /\ UNCHANGED <<interactions, untracked, admitted>>
          /\ \E p \in {"write", "answered", "failed", "idle"} : at' = [at EXCEPT ![t] = p]
          /\ \A o \in Tasks \ {t} : update'[o] = update[o]
        BY <1>3 DEF Read, Insert, SetEnabled, Raises, End, GoTo, userVars, TypeOK
    <2>2. Tracking(v)' = Tracking(v)
        BY <2>1 DEF Tracking, TypeOK
    <2>3. QED
        BY <1>0, <2>1, <2>2
<1>4. CASE Restart
    <2>1. Tracking(v)' = {}
        BY <1>4 DEF Restart, Tracking
    <2>2. Cardinality(Tracking(v)') = 0
        BY <2>1, FS_EmptySet
    <2>3. QED
        BY <1>0, <1>4, <2>2 DEF Restart, TypeOK
<1>5. CASE Tick \/ UNCHANGED vars
    BY <1>0, <1>5 DEF Tick, vars, userVars, Tracking
<1>6. QED
    BY <1>1, <1>2, <1>3, <1>4, <1>5 DEF Next

-----------------------------------------------------------------------------
(* What a step does to a task t and to nothing of any other task.          *)
OnlyMoves(t) ==
    \A o \in Tasks \ {t} : at'[o] = at[o] /\ update'[o] = update[o] /\ row'[o] = row[o]

LEMMA SwitchStep == TypeOK /\ SwitchInv /\ [Next]_vars => SwitchInv'
<1> SUFFICES ASSUME TypeOK, SwitchInv, [Next]_vars PROVE SwitchInv'
    OBVIOUS
<1>1. ASSUME NEW t \in Tasks, Read(t)
      PROVE  SwitchInv'
    <2> DEFINE c == update[t].channel
    <2>1. /\ UNCHANGED <<sources, enabled, switch, update>> /\ OnlyMoves(t)
          /\ row'[t] = RowOf(c)
          /\ Toggling(t)' => Is(t, "toggle_source") /\ c \in sources
        BY <1>1 DEF Read, OnlyMoves, GoTo, Toggling, Is, TypeOK
    <2>2. /\ overlapped \subseteq overlapped'
          /\ \A o \in Tasks :
                Toggling(t)' /\ Toggling(o) /\ update[o].channel = c => c \in overlapped'
        BY <1>1, <2>1 DEF Read, Toggling, Is
    <2>3. \A o \in Tasks \ {t} : Toggling(o)' <=> Toggling(o)
        BY <2>1 DEF OnlyMoves, Toggling, Is
    <2>4. \A d : RowOf(d)' = RowOf(d)
        BY <2>1 DEF RowOf
    <2>5. SwitchIsSerial'
        BY <2>1, <2>2 DEF SwitchInv, SwitchIsSerial
    <2>6. ASSUME NEW o \in Tasks, Toggling(o)'
          PROVE  /\ update'[o].channel \in sources'
                 /\ update'[o].channel \notin overlapped' => row'[o] = RowOf(update[o].channel)'
        <3>1. CASE o = t
            BY <2>1, <2>4, <2>6, <3>1
        <3>2. CASE o # t
            BY <2>1, <2>2, <2>3, <2>4, <2>6, <3>2 DEF SwitchInv, OnlyMoves
        <3>3. QED
            BY <3>1, <3>2
    <2>7. ASSUME NEW o \in Tasks, NEW p \in Tasks, Toggling(o)', Toggling(p)',
                 update'[o].channel = update'[p].channel
          PROVE  o = p \/ update'[o].channel \in overlapped'
        BY <2>1, <2>2, <2>3, <2>7 DEF SwitchInv
    <2>8. QED
        BY <2>5, <2>6, <2>7 DEF SwitchInv
<1>2. ASSUME NEW t \in Tasks, Insert(t)
      PROVE  SwitchInv'
    <2> DEFINE c == update[t].channel
    <2>1. /\ UNCHANGED <<overlapped, update, row>> /\ OnlyMoves(t)
          /\ ~Toggling(t) /\ ~Toggling(t)'
          /\ c \in Channels
          /\ \/ c \in sources /\ UNCHANGED <<enabled, switch>> /\ sources' = sources
             \/ /\ c \notin sources
                /\ sources' = sources \cup {c}
                /\ enabled' = enabled \cup {c}
                /\ switch' = switch \cup {c}
        BY <1>2, UpdateParts DEF Insert, OnlyMoves, GoTo, Toggling, Is, TypeOK
    <2>2. \A o \in Tasks : Toggling(o)' <=> Toggling(o)
        BY <2>1 DEF OnlyMoves, Toggling, Is
    <2>3. \A d \in sources : RowOf(d)' = RowOf(d)
        BY <2>1 DEF RowOf
    <2>4. SwitchIsSerial'
        BY <2>1 DEF SwitchInv, SwitchIsSerial
    <2>5. QED
        BY <2>1, <2>2, <2>3, <2>4 DEF SwitchInv
<1>3. ASSUME NEW t \in Tasks, SetEnabled(t)
      PROVE  SwitchInv'
    <2> DEFINE c == update[t].channel
    <2>1. /\ UNCHANGED <<overlapped, update, row, sources>> /\ OnlyMoves(t)
          /\ Toggling(t) /\ ~Toggling(t)' /\ c \in sources
          /\ enabled' = IF row[t] = "enabled" THEN enabled \ {c} ELSE enabled \cup {c}
          /\ switch' = IF c \in switch THEN switch \ {c} ELSE switch \cup {c}
        BY <1>3 DEF SetEnabled, OnlyMoves, GoTo, Toggling, Is, Flipped, SwitchInv, TypeOK
    <2>2. c \notin overlapped => row[t] = RowOf(c)
        BY <2>1 DEF SwitchInv
    <2>3. SwitchIsSerial'
        BY <2>1, <2>2 DEF SwitchInv, SwitchIsSerial, RowOf
    <2>4. \A o \in Tasks : Toggling(o)' => Toggling(o) /\ o # t
        BY <2>1 DEF OnlyMoves, Toggling, Is
    <2>5. \A o \in Tasks : Toggling(o)' /\ update[o].channel \notin overlapped
            => update[o].channel # c
        BY <2>1, <2>4 DEF SwitchInv
    <2>6. \A d : d # c => RowOf(d)' = RowOf(d)
        BY <2>1 DEF RowOf
    <2>7. QED
        BY <2>1, <2>3, <2>4, <2>5, <2>6 DEF SwitchInv
<1>4. ASSUME UNCHANGED tableVars,
             \A t \in Tasks : Toggling(t)' =>
                Toggling(t) /\ update'[t] = update[t] /\ row'[t] = row[t]
      PROVE  SwitchInv'
    <2>1. \A d : RowOf(d)' = RowOf(d)
        BY <1>4 DEF RowOf, tableVars
    <2>2. SwitchIsSerial'
        BY <1>4 DEF SwitchInv, SwitchIsSerial, tableVars
    <2>3. QED
        BY <1>4, <2>1, <2>2 DEF SwitchInv, tableVars
<1>5. ASSUME NEW t \in Tasks,
             (\E u \in Updates : Receive(t, u)) \/ Track(t) \/ TrackFails(t) \/ Raises(t) \/ End(t)
      PROVE  SwitchInv'
    <2>1. UNCHANGED tableVars /\ OnlyMoves(t) /\ at'[t] # "write"
        BY <1>5 DEF Receive, Track, TrackFails, Raises, End, GoTo, OnlyMoves, Handler, TypeOK
    <2>2. \A o \in Tasks : Toggling(o)' => o # t
        BY <2>1 DEF Toggling
    <2>3. \A o \in Tasks : Toggling(o)' =>
            Toggling(o) /\ update'[o] = update[o] /\ row'[o] = row[o]
        BY <2>1, <2>2 DEF OnlyMoves, Toggling, Is
    <2>4. QED
        BY <1>4, <2>1, <2>3
<1>6. CASE Restart
    BY <1>4, <1>6 DEF Restart, Toggling
<1>7. CASE Tick \/ UNCHANGED vars
    BY <1>4, <1>7 DEF Tick, vars, Toggling, Is
<1>8. QED
    BY <1>1, <1>2, <1>3, <1>5, <1>6, <1>7 DEF Next

LEMMA AddStep == TypeOK /\ AddIsNeverLost /\ [Next]_vars => AddIsNeverLost'
<1> SUFFICES ASSUME TypeOK, AddIsNeverLost, [Next]_vars, NEW o \in Tasks,
                    at'[o] = "answered", Is(o, "add_source")', update'[o].user \in Admins
             PROVE  update'[o].channel \in sources'
    BY DEF AddIsNeverLost
<1>1. sources \subseteq sources'
    BY DEF Next, vars, tableVars, Tick, Restart, Receive, Track, TrackFails, Read, Insert,
           SetEnabled, Raises, End
<1>2. CASE at[o] = "answered" /\ update'[o] = update[o]
    BY <1>1, <1>2 DEF AddIsNeverLost, Is
<1>3. ASSUME NEW t \in Tasks, Track(t) \/ TrackFails(t)
      PROVE  update'[o].channel \in sources'
    <2>1. /\ update' = update
          /\ o = t => at'[o] = "read"
          /\ o # t => at'[o] = at[o]
        BY <1>3 DEF Track, TrackFails, GoTo, Handler, Is, TypeOK
    <2>2. QED
        BY <1>2, <2>1
<1>4. ASSUME NEW t \in Tasks, Read(t) \/ Insert(t) \/ SetEnabled(t)
      PROVE  update'[o].channel \in sources'
    <2>1. update' = update /\ (o # t => at'[o] = at[o])
        BY <1>4 DEF Read, Insert, SetEnabled, GoTo, TypeOK
    <2>2. CASE o = t
        BY <1>4, <2>1, <2>2 DEF Read, Insert, SetEnabled, GoTo, Is, TypeOK
    <2>3. QED
        BY <1>2, <2>1, <2>2
<1>5. ASSUME NEW t \in Tasks, (\E u \in Updates : Receive(t, u)) \/ Raises(t) \/ End(t)
      PROVE  update'[o].channel \in sources'
    <2>1. o # t /\ at'[o] = at[o] /\ update'[o] = update[o]
        BY <1>5 DEF Receive, Raises, End, GoTo, TypeOK
    <2>2. QED
        BY <1>2, <2>1
<1>6. CASE Restart
    BY <1>6 DEF Restart
<1>7. CASE Tick \/ UNCHANGED vars
    BY <1>2, <1>7 DEF Tick, vars
<1>8. QED
    BY <1>3, <1>4, <1>5, <1>6, <1>7 DEF Next

-----------------------------------------------------------------------------
LEMMA AlwaysIInv == Spec => []IInv
<1>1. IInv /\ [Next]_vars => IInv'
    BY TypeStep, ThrottleStep, CountStep, SwitchStep, AddStep DEF IInv
<1>2. QED
    BY <1>1, InitInv, PTL DEF Spec

(* Type correctness, and nobody but an admin gets to the table.            *)
THEOREM CommandTypes == Spec => []TypeOK
<1>1. IInv => TypeOK
    BY DEF IInv
<1>2. QED
    BY <1>1, AlwaysIInv, PTL

(* However many tasks a user's updates run in, they pass the throttle one  *)
(* gap apart, a restart aside.                                             *)
THEOREM ThrottleSafe == Spec => []ThrottleHolds
<1>1. IInv => ThrottleHolds
    <2> SUFFICES ASSUME IInv, NEW u \in Users
                 PROVE  Gap * (admitted[u] - restarts - 1) <= now - Gap
        BY DEF ThrottleHolds
    <2>1. /\ Gap \in Nat \ {0} /\ now \in Nat /\ restarts \in Int
          /\ admitted[u] \in Nat /\ lastSeen[u] \in 0..now
        BY CommandsAssumption DEF IInv, TypeOK
    <2>2. Gap * (admitted[u] - restarts - 1) = Spent(u) - Gap /\ Spent(u) \in Int
        <3>1. admitted[u] - restarts \in Int
            BY <2>1
        <3>2. QED
            BY <3>1, GapTimes DEF Spent
    <2>3. Spent(u) <= now
        BY <2>1, <2>2 DEF IInv, ThrottleInv
    <2>4. QED
        BY <2>1, <2>2, <2>3
<1>2. QED
    BY <1>1, AlwaysIInv, PTL

(* No interaction that passed is counted twice or forgotten by a           *)
(* concurrent one.                                                         *)
THEOREM CountSafe == Spec => []CountIsExact
<1>1. IInv => CountIsExact
    BY DEF IInv
<1>2. QED
    BY <1>1, AlwaysIInv, PTL

(* A toggle is lost to nothing but a toggle of the same source at the same *)
(* time.                                                                   *)
THEOREM SwitchSafe == Spec => []SwitchIsSerial
<1>1. IInv => SwitchIsSerial
    BY DEF IInv, SwitchInv
<1>2. QED
    BY <1>1, AlwaysIInv, PTL

(* What the admin is told was added has a row.                             *)
THEOREM AddSafe == Spec => []AddIsNeverLost
<1>1. IInv => AddIsNeverLost
    BY DEF IInv
<1>2. QED
    BY <1>1, AlwaysIInv, PTL

(* All that the commands do to source_channels is adding rows that start   *)
(* enabled and flipping the switch of a row.                               *)
THEOREM Refinement == Spec => ImplementsSourceTable
<1>1. Init => Table!Init
    BY DEF Init, Table!Init
<1>2. IInv /\ [Next]_vars => [Table!Next]_(Table!tableVars)
    <2> SUFFICES ASSUME IInv, [Next]_vars PROVE [Table!Next]_(Table!tableVars)
        OBVIOUS
    <2>1. ASSUME NEW t \in Tasks, Insert(t), update[t].channel \notin sources
          PROVE  Table!Next
        <3>1. update[t].channel \in Channels
            BY <2>1, UpdateParts DEF Insert, IInv, TypeOK
        <3>2. Table!Add(update[t].channel)
            BY <2>1, <3>1 DEF Insert, Table!Add
        <3>3. QED
            BY <3>1, <3>2 DEF Table!Next
    <2>2. ASSUME NEW t \in Tasks, SetEnabled(t)
          PROVE  Table!Next \/ UNCHANGED Table!tableVars
        <3>1. update[t].channel \in sources /\ update[t].channel \in Channels
            BY <2>2 DEF SetEnabled, Toggling, IInv, SwitchInv, TypeOK
        <3>2. Table!Flip(update[t].channel) \/ UNCHANGED Table!tableVars
            BY <2>2, <3>1 DEF SetEnabled, Table!Flip, Table!tableVars
        <3>3. QED
            BY <3>1, <3>2 DEF Table!Next
    <2>3. QED
        BY <2>1, <2>2
        DEF Next, vars, tableVars, Table!tableVars, Tick, Restart, Receive, Track, TrackFails,
            Read, Insert, Raises, End
<1>3. QED
    BY <1>1, <1>2, AlwaysIInv, PTL DEF Spec, ImplementsSourceTable, Table!Spec
=============================================================================
