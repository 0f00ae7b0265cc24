---------------------------- MODULE ReaderProofs ----------------------------
(***************************************************************************)
(* The type invariant of Reader, what can make it skip a message, and what *)
(* the tables hold of a message that was dealt with, for any sources,      *)
(* messages and albums and any number of failures.                         *)
(*                                                                         *)
(* Unless a Harm comes to a source, the map holds it once the handler is   *)
(* registered for it, whatever the sweeps refresh: no event of it is       *)
(* thrown away (StaysMapped).  So each of its messages is in an event, in  *)
(* a buffer or in a batch until a task has dealt with it (AllHeld),        *)
(* whoever moves the watermark meanwhile (OnlyHarmSkips).  With no         *)
(* failures at all that is every source (NothingLost).                     *)
(***************************************************************************)
EXTENDS Reader, PostsProofs

(* An album's buffer holds members of that album only.                     *)
AlbumsAreGroups ==
    \A k \in Albums : \A i \in albums[k] : GroupOf[<<k[1], i>>] = k[2]

ReaderInv == TypeOK /\ AlbumsAreGroups

-----------------------------------------------------------------------------
(* What is handed over is a batch.                                         *)

LEMMA MessageCount == Cardinality(MsgIds) \in Nat
BY ReaderAssumption, FS_CardinalityType

LEMMA GroupsOfMessages ==
    \A s \in Sources, i \in MsgIds :
        <<s, i>> \in Messages /\ GroupOf[<<s, i>>] \in Groups \cup {NoGroup}
BY ReaderAssumption DEF Messages

LEMMA BucketsAreBatches ==
    ASSUME NEW s \in Sources, NEW I \in SUBSET MsgIds
    PROVE  Buckets(s, I) \subseteq Batches
<1> SUFFICES ASSUME NEW i \in I
             PROVE  Batch(s, {j \in I : SameBucket(s, i, j)}) \in Batches
    BY DEF Buckets
<1>1. CASE GroupOf[<<s, i>>] = NoGroup
    <2>1. {j \in I : SameBucket(s, i, j)} = {i}
        BY <1>1 DEF SameBucket
    <2>2. Batch(s, {i}) \in Batches
        BY GroupsOfMessages, ReaderBatches
    <2>3. QED
        BY <2>1, <2>2
<1>2. CASE GroupOf[<<s, i>>] # NoGroup
    <2> DEFINE g == GroupOf[<<s, i>>]
               ids == {j \in I : SameBucket(s, i, j)}
    <2>1. g \in Groups
        BY <1>2, GroupsOfMessages
    <2>2. ids \in SUBSET {j \in MsgIds : GroupOf[<<s, j>>] = g} /\ i \in ids
        BY <1>2 DEF SameBucket
    <2> HIDE DEF g, ids
    <2>3. Batch(s, ids) \in Batches
        BY <2>1, <2>2, ReaderBatches
    <2>4. QED
        BY <2>3 DEF ids
<1>3. QED
    BY <1>1, <1>2

LEMMA AlbumIsBatch ==
    ASSUME ReaderInv, NEW k \in Albums, albums[k] # {}
    PROVE  Batch(k[1], albums[k]) \in Batches
<1>1. k[1] \in Sources /\ k[2] \in Groups
    BY DEF Albums
<1>2. albums[k] \in SUBSET {i \in MsgIds : GroupOf[<<k[1], i>>] = k[2]}
    BY DEF ReaderInv, TypeOK, AlbumsAreGroups
<1>3. QED
    BY <1>1, <1>2, ReaderBatches

LEMMA GatheredAreMessages ==
    ASSUME TypeOK, NEW s \in Sources, NEW min
    PROVE  Gathered(s, min) \in SUBSET MsgIds
BY MessageCount, ReaderAssumption DEF TypeOK, Gathered

-----------------------------------------------------------------------------
(* The type invariant.                                                     *)

(* The ledger speaks of posts with operators of its own.                   *)
LEMMA LedgerTypes ==
    ASSUME TypeOK, NEW b \in Batches, Ledger!Store(b) \/ Ledger!Acknowledge(b)
    PROVE  /\ row' \in [Messages -> Hashes \cup {NoRow}]
           /\ lastId' \in [Sources -> MsgIds \cup {0}]
<1>1. Ledger!HeadId(b) = HeadId(b)
    BY DEF Ledger!HeadId, HeadId, Ledger!Outranks, Outranks
<1>2. Ledger!Key(b) = Key(b) /\ Ledger!TextOf(b) = TextOf(b)
    BY <1>1 DEF Ledger!Key, Key, Ledger!TextOf, TextOf
<1>3. Ledger!ContentHash(b) = ContentHash(b)
    BY <1>1, <1>2 DEF Ledger!ContentHash, ContentHash, Ledger!HasText, HasText
<1>4. Ledger!NewestId(b) = NewestId(b)
    BY DEF Ledger!NewestId, NewestId
<1>5. b.source \in Sources /\ b.ids \in SUBSET MsgIds
    BY BatchesAssumption
<1>6. lastId' \in [Sources -> MsgIds \cup {0}]
    <2>1. \E i \in MsgIds : lastId' = Ledger!Forward(b.source, i)
        BY <1>4, <1>5, NewestIsMember DEF Ledger!Store, Ledger!Acknowledge
    <2>2. QED
        BY <2>1, <1>5 DEF TypeOK, Ledger!Forward
<1>7. row' \in [Messages -> Hashes \cup {NoRow}]
    BY <1>2, <1>3, PostTypes DEF TypeOK, Ledger!Store, Ledger!Acknowledge
<1>8. QED
    BY <1>6, <1>7

LEMMA ReaderInvInit == Init => ReaderInv
<1> SUFFICES ASSUME Init
             PROVE  TypeOK /\ AlbumsAreGroups
    BY DEF ReaderInv
<1>1. sweeps \in [Refreshers ->
            [at: {"off", "scheduled", "resolve", "list", "fetch"},
             todo: SUBSET Sources, min: [Sources -> MsgIds \cup {0}]]]
    BY DEF Init, Off
<1>2. /\ row \in [Messages -> Hashes \cup {NoRow}]
      /\ lastId \in [Sources -> MsgIds \cup {0}]
    BY DEF Init, Ledger!Init, Ledger!Messages, Messages
<1>3. posted \in [Sources -> 0..Cardinality(MsgIds)] /\ faults \in 0..MaxFaults
      /\ toggles \in 0..MaxToggles
    BY MessageCount, ReaderAssumption DEF Init
<1>4. TypeOK
    BY <1>1, <1>2, <1>3 DEF Init, TypeOK
<1>5. AlbumsAreGroups
    BY DEF Init, AlbumsAreGroups
<1>6. QED
    BY <1>4, <1>5

LEMMA TelegramKeepsTypes ==
    ASSUME ReaderInv, NEW s \in Sources, Post(s) \/ PostUnheard(s) \/ Toggle(s)
    PROVE  ReaderInv'
<1>1. ASSUME posted[s] + 1 \in MsgIds
      PROVE  /\ [posted EXCEPT ![s] = @ + 1] \in [Sources -> 0..Cardinality(MsgIds)]
             /\ <<s, posted[s] + 1>> \in Messages
    BY <1>1, MessageCount, ReaderAssumption DEF ReaderInv, TypeOK, Messages
<1>2. CASE Post(s)
    BY <1>1, <1>2 DEF Post, ReaderInv, TypeOK, AlbumsAreGroups, ledgerVars, adminVars
<1>3. CASE PostUnheard(s)
    BY <1>1, <1>3, ReaderAssumption
    DEF PostUnheard, Fault, ReaderInv, TypeOK, AlbumsAreGroups, ledgerVars, adminVars
<1>4. CASE Toggle(s)
    BY <1>4, ReaderAssumption
    DEF Toggle, ReaderInv, TypeOK, AlbumsAreGroups, ledgerVars
<1>5. QED
    BY <1>2, <1>3, <1>4

LEMMA EventsKeepTypes ==
    ASSUME ReaderInv, NEW m \in events, HandleMessage(m[1], m[2])
    PROVE  ReaderInv'
<1>1. m \in Messages /\ m[1] \in Sources /\ m[2] \in MsgIds /\ m = <<m[1], m[2]>>
    BY DEF ReaderInv, TypeOK, Messages
<1>2. CASE Ignore(m[1], m[2])
    BY <1>2 DEF Ignore, ReaderInv, TypeOK, AlbumsAreGroups, ledgerVars, adminVars
<1>3. CASE HandOver(m[1], m[2])
    <2>1. Batch(m[1], {m[2]}) \in Batches
        BY <1>1, ReaderBatches
    <2>2. QED
        BY <1>3, <2>1 DEF HandOver, ReaderInv, TypeOK, AlbumsAreGroups, ledgerVars, adminVars
<1>4. CASE BufferAlbum(m[1], m[2])
    <2>1. <<m[1], GroupOf[<<m[1], m[2]>>]>> \in Albums
        BY <1>1, <1>4, GroupsOfMessages DEF BufferAlbum, Albums
    <2> DEFINE key == <<m[1], GroupOf[<<m[1], m[2]>>]>>
    <2>2. /\ albums' \in [Albums -> SUBSET MsgIds]
          /\ \A k \in Albums : albums'[k] \subseteq IF k = key THEN albums[k] \cup {m[2]} ELSE albums[k]
        BY <1>1, <1>4, <2>1 DEF BufferAlbum, ReaderInv, TypeOK
    <2>3. GroupOf[<<key[1], m[2]>>] = key[2]
        OBVIOUS
    <2> HIDE DEF key
    <2>4. AlbumsAreGroups'
        BY <2>2, <2>3 DEF ReaderInv, AlbumsAreGroups
    <2>5. QED
        BY <1>4, <2>2, <2>4 DEF BufferAlbum, ReaderInv, TypeOK, ledgerVars, adminVars
<1>5. QED
    BY <1>2, <1>3, <1>4 DEF HandleMessage

LEMMA FlushKeepsTypes ==
    ASSUME ReaderInv, NEW k \in Albums, FlushAlbum(k)
    PROVE  ReaderInv'
<1>1. Batch(k[1], albums[k]) \in Batches
    BY AlbumIsBatch DEF FlushAlbum
<1>2. QED
    BY <1>1 DEF FlushAlbum, ReaderInv, TypeOK, AlbumsAreGroups, ledgerVars, adminVars

SweepRecords ==
    [at: {"off", "scheduled", "resolve", "list", "fetch"},
     todo: SUBSET Sources, min: [Sources -> MsgIds \cup {0}]]

LEMMA OffIsSweep == Off \in SweepRecords
BY DEF Off, SweepRecords

LEMMA SweepsKeepTypes ==
    ASSUME ReaderInv, NEW w \in Refreshers,
           \/ Start \/ CatchUp(w) \/ Resolve(w)
    PROVE  ReaderInv'
<1> USE DEF ReaderInv
<1>1. sweeps[w] \in SweepRecords /\ sweeps[w].todo \subseteq Sources
    BY DEF TypeOK, SweepRecords
<1>2. ASSUME sweeps' \in [Refreshers -> SweepRecords],
             UNCHANGED <<posted, ledgerVars, adminVars, events, albums, handled>>,
             up' \in BOOLEAN, resolved' \subseteq Sources, entityMap' \subseteq Sources,
             listening' \subseteq Sources, inFlight' \subseteq Batches,
             faults' \in 0..MaxFaults
      PROVE  ReaderInv'
    BY <1>2 DEF TypeOK, AlbumsAreGroups, SweepRecords, ledgerVars, adminVars
<1>3. /\ sweeps \in [Refreshers -> SweepRecords]
      /\ UNCHANGED faults \/ Fault => faults' \in 0..MaxFaults
    BY ReaderAssumption DEF TypeOK, SweepRecords, Fault
<1>4. [Off EXCEPT !.at = "resolve", !.todo = enabled] \in SweepRecords
    BY DEF Off, SweepRecords, TypeOK
<1>5. CASE Start
    BY <1>2, <1>3, <1>4, <1>5 DEF Start, TypeOK, Refreshers
<1>6. CASE BeginSweep(w)
    BY <1>2, <1>3, <1>4, <1>6 DEF BeginSweep, TypeOK
<1>7. CASE Resolve(w)
    <2>1. PICK known \in SUBSET sweeps[w].todo : \E saved \in SUBSET known :
            /\ UNCHANGED faults \/ Fault
            /\ entityMap' = known
            /\ resolved' = resolved \cup saved
            /\ listening' = IF w = "start" THEN known ELSE listening
        BY <1>7 DEF Resolve
    <2>2. sweeps' \in [Refreshers -> SweepRecords]
        <3>1. [Off EXCEPT !.at = "list"] \in SweepRecords
            BY DEF Off, SweepRecords
        <3>2. [sweeps["initial"] EXCEPT !.at = "scheduled"] \in SweepRecords
            BY <1>3 DEF Refreshers, SweepRecords
        <3>3. sweeps' = IF w = "start"
                THEN [sweeps EXCEPT !["start"] = Off, !["initial"].at = "scheduled"]
                ELSE [sweeps EXCEPT ![w] = [Off EXCEPT !.at = "list"]]
            BY <1>7 DEF Resolve
        <3>4. CASE w = "start"
            BY <1>3, <3>2, <3>3, <3>4, OffIsSweep DEF Refreshers
        <3>5. CASE w # "start"
            BY <1>3, <3>1, <3>3, <3>5
        <3>6. QED
            BY <3>4, <3>5
    <2>3. QED
        BY <1>1, <1>2, <1>3, <1>7, <2>1, <2>2 DEF Resolve, TypeOK
<1>8. CASE ListSources(w)
    <2>1. [at |-> "fetch", todo |-> enabled \cap resolved, min |-> lastId] \in SweepRecords
        BY DEF SweepRecords, TypeOK
    <2>2. QED
        BY <1>2, <1>3, <1>8, <2>1 DEF ListSources, TypeOK
<1>9. ASSUME NEW s \in Sources, Fetch(w, s)
      PROVE  ReaderInv'
    <2>1. Buckets(s, Gathered(s, sweeps[w].min[s])) \subseteq Batches
        BY BucketsAreBatches, GatheredAreMessages
    <2>2. [sweeps[w] EXCEPT !.todo = @ \ {s}] \in SweepRecords
        BY <1>1 DEF SweepRecords
    <2>3. QED
        BY <1>2, <1>3, <1>9, <2>1, <2>2 DEF Fetch, TypeOK
<1>10. ASSUME NEW s \in Sources, FetchFailed(w, s)
       PROVE  ReaderInv'
    <2>1. [sweeps[w] EXCEPT !.todo = @ \ {s}] \in SweepRecords
        BY <1>1 DEF SweepRecords
    <2>2. QED
        BY <1>2, <1>3, <1>10, <2>1 DEF FetchFailed, TypeOK
<1>11. CASE EndSweep(w)
    BY <1>2, <1>3, <1>11, OffIsSweep DEF EndSweep, TypeOK
<1>12. CASE SweepAborted(w)
    BY <1>2, <1>3, <1>12, OffIsSweep DEF SweepAborted, TypeOK
<1>13. QED
    BY <1>5, <1>6, <1>7, <1>8, <1>9, <1>10, <1>11, <1>12 DEF CatchUp

LEMMA PipelineKeepsTypes ==
    ASSUME ReaderInv, NEW b \in inFlight, Ingest(b)
    PROVE  ReaderInv'
<1> USE DEF ReaderInv
<1>1. b \in Batches /\ b.source \in Sources /\ b.ids \in SUBSET MsgIds
    BY BatchesAssumption DEF TypeOK
<1>2. UNCHANGED faults \/ Fault => faults' \in 0..MaxFaults
    BY ReaderAssumption DEF TypeOK, Fault
<1>3. CASE Store(b)
    <2>1. Key(b) \in Messages /\ MediaOf(b) \in SUBSET MsgIds
        BY <1>1, PostTypes DEF MediaOf
    <2>2. links' \in [Messages -> SUBSET MsgIds] /\ (UNCHANGED faults \/ Fault)
        BY <1>3, <2>1 DEF Store, TypeOK
    <2>3. /\ row' \in [Messages -> Hashes \cup {NoRow}]
          /\ lastId' \in [Sources -> MsgIds \cup {0}]
        BY <1>1, <1>3, LedgerTypes DEF Store
    <2>4. QED
        BY <1>2, <1>3, <2>2, <2>3 DEF Store, TypeOK, AlbumsAreGroups, adminVars
<1>4. CASE Acknowledge(b)
    <2>1. /\ row' \in [Messages -> Hashes \cup {NoRow}]
          /\ lastId' \in [Sources -> MsgIds \cup {0}]
        BY <1>1, <1>4, LedgerTypes DEF Acknowledge
    <2>2. QED
        BY <1>4, <2>1 DEF Acknowledge, TypeOK, AlbumsAreGroups, adminVars
<1>5. CASE Finish(b)
    <2>1. {b.source} \X b.ids \subseteq Messages
        BY <1>1 DEF Messages
    <2>2. QED
        BY <1>5, <2>1 DEF Finish, TypeOK, AlbumsAreGroups, ledgerVars, adminVars
<1>6. CASE TaskFailed(b)
    BY <1>2, <1>6 DEF TaskFailed, TypeOK, AlbumsAreGroups, ledgerVars, adminVars
<1>7. QED
    BY <1>3, <1>4, <1>5, <1>6 DEF Ingest

LEMMA CrashKeepsTypes == ReaderInv /\ Crash => ReaderInv'
<1> SUFFICES ASSUME ReaderInv, Crash
             PROVE  ReaderInv'
    OBVIOUS
<1>1. faults' \in 0..MaxFaults
    BY ReaderAssumption DEF Crash, Fault, ReaderInv, TypeOK
<1>2. sweeps' \in [Refreshers -> SweepRecords]
    BY OffIsSweep DEF Crash
<1>3. QED
    BY <1>1, <1>2
    DEF Crash, ReaderInv, TypeOK, AlbumsAreGroups, SweepRecords, ledgerVars, adminVars

LEMMA AlwaysReaderInv == Spec => []ReaderInv
<1>1. ReaderInv /\ [Next]_vars => ReaderInv'
    <2>1. CASE Next
        BY <2>1, TelegramKeepsTypes, EventsKeepTypes, FlushKeepsTypes, SweepsKeepTypes,
           PipelineKeepsTypes, CrashKeepsTypes
        DEF Next, Refreshers
    <2>2. CASE UNCHANGED vars
        BY <2>2 DEF vars, ReaderInv, TypeOK, AlbumsAreGroups
    <2>3. QED
        BY <2>1, <2>2
<1>2. QED
    BY <1>1, ReaderInvInit, PTL DEF Spec

(* Every variable of Reader has its type, and whatever the timer, the      *)
(* events and the sweeps hand over is a batch the pipeline knows.          *)
THEOREM ReaderTypes == Spec => []TypeOK
<1>1. ReaderInv => TypeOK
    BY DEF ReaderInv
<1>2. QED
    BY <1>1, AlwaysReaderInv, PTL

-----------------------------------------------------------------------------
(* What a source needs so that nothing of it is skipped.                   *)

(* What can make the reader lose a message of source s: the process ends,  *)
(* s publishes unheard, a task fails with a batch of s, a refresh leaves s *)
(* out of the map, the admin turns s off.  Turning it on does no harm, nor *)
(* do the other sources, nor failures of fetches, sweeps and downloads.    *)
Harm(s) ==
    \/ Crash
    \/ PostUnheard(s)
    \/ s \in enabled /\ Toggle(s)
    \/ \E b \in inFlight : b.source = s /\ TaskFailed(b)
    \/ \E w \in Refreshers : Resolve(w) /\ s \in sweeps[w].todo \ entityMap'

SkipsNothing(s) ==
    \A i \in 1..posted[s] : i <= lastId[s] => <<s, i>> \in handled \/ InHand(s, i)

(* Once the handler is registered for the chat of s the map holds s: each  *)
(* refresh under way has s on its list and puts it back.  A list without s *)
(* was read before s was turned on, and start has no rival while it reads  *)
(* the list the handler is registered for.                                 *)
StaysMapped(s) ==
    /\ \A w \in Refreshers : At(w, "resolve") /\ s \in sweeps[w].todo => s \in enabled
    /\ s \in listening =>
        /\ s \in enabled /\ s \in entityMap
        /\ \A w \in Refreshers : At(w, "resolve") => s \in sweeps[w].todo
    /\ At("start", "resolve") => \A w \in Refreshers \ {"start"} : ~At(w, "resolve")
    /\ ~up => s \notin listening /\ \A w \in Refreshers : ~At(w, "resolve")
    /\ \A m \in events : m[1] = s => s \in listening

(* Whoever has a message, the sweeps apart.                                *)
Held(s, i) ==
    \/ <<s, i>> \in handled
    \/ <<s, i>> \in events
    \/ \E k \in Albums : k[1] = s /\ i \in albums[k]
    \/ \E b \in inFlight : b.source = s /\ i \in b.ids

AllHeld(s) == \A i \in 1..posted[s] : Held(s, i)

LEMMA StaysMappedStep ==
    ASSUME NEW s \in Sources, TypeOK, StaysMapped(s), Next, ~Harm(s)
    PROVE  StaysMapped(s)'
<1> USE DEF StaysMapped, At
<1>1. CASE \E r \in Sources : Post(r)
    BY <1>1 DEF Post, ledgerVars, adminVars
<1>2. CASE \E r \in Sources : PostUnheard(r)
    BY <1>2 DEF PostUnheard, ledgerVars, adminVars
<1>3. ASSUME NEW r \in Sources, Toggle(r)
      PROVE  StaysMapped(s)'
    <2>1. s \in enabled => s \in enabled'
        BY <1>3 DEF Toggle, Harm
    <2>2. UNCHANGED <<up, entityMap, listening, events, sweeps>>
        BY <1>3 DEF Toggle
    <2>3. QED
        BY <2>1, <2>2
<1>4. CASE \E m \in events : HandleMessage(m[1], m[2])
    BY <1>4 DEF HandleMessage, Ignore, HandOver, BufferAlbum, ledgerVars, adminVars
<1>5. CASE \E k \in Albums : FlushAlbum(k)
    BY <1>5 DEF FlushAlbum, ledgerVars, adminVars
<1>6. CASE \E b \in inFlight : Ingest(b)
    BY <1>6 DEF Ingest, Store, Acknowledge, Finish, TaskFailed, ledgerVars, adminVars
<1>7. CASE Start
    BY <1>7 DEF Start, Off, TypeOK, ledgerVars, adminVars
<1>8. ASSUME NEW w \in Refreshers, Resolve(w)
      PROVE  StaysMapped(s)'
    <2>1. up /\ sweeps[w].at = "resolve"
        BY <1>8 DEF Resolve
    <2>2. /\ entityMap' \subseteq sweeps[w].todo
          /\ listening' = (IF w = "start" THEN entityMap' ELSE listening)
          /\ s \in sweeps[w].todo => s \in entityMap'
        BY <1>8 DEF Resolve, Harm
    <2>3. UNCHANGED <<enabled, events, up>>
        BY <1>8 DEF Resolve, adminVars
    <2>4. \A v \in Refreshers : sweeps'[v].at = "resolve" => v # w /\ sweeps'[v] = sweeps[v]
        BY <1>8 DEF Resolve, Off, TypeOK, Refreshers
    <2>5. CASE w = "start"
        BY <2>1, <2>2, <2>3, <2>4, <2>5
    <2>6. CASE w # "start"
        BY <2>1, <2>2, <2>3, <2>4, <2>6 DEF Refreshers
    <2>7. QED
        BY <2>5, <2>6
<1>9. ASSUME NEW w \in Refreshers,
             BeginSweep(w) \/ ListSources(w) \/ EndSweep(w) \/ SweepAborted(w)
             \/ \E r \in Sources : Fetch(w, r) \/ FetchFailed(w, r)
      PROVE  StaysMapped(s)'
    <2>1. UNCHANGED <<enabled, listening, entityMap, events, up>>
        BY <1>9 DEF BeginSweep, ListSources, EndSweep, SweepAborted, Fetch, FetchFailed, adminVars
    <2>2. \A v \in Refreshers : sweeps'[v].at = "resolve" =>
            \/ sweeps'[v] = sweeps[v]
            \/ up /\ sweeps["start"].at = "off" /\ v # "start" /\ sweeps'[v].todo = enabled
        <3>1. CASE BeginSweep(w)
            BY <3>1 DEF BeginSweep, Off, TypeOK
        <3>2. CASE ListSources(w)
            BY <3>2 DEF ListSources, TypeOK
        <3>3. CASE EndSweep(w) \/ SweepAborted(w)
            BY <3>3 DEF EndSweep, SweepAborted, Off, TypeOK
        <3>4. CASE \E r \in Sources : Fetch(w, r) \/ FetchFailed(w, r)
            BY <3>4 DEF Fetch, FetchFailed, Upcoming, TypeOK
        <3>5. QED
            BY <1>9, <3>1, <3>2, <3>3, <3>4
    <2>3. QED
        BY <2>1, <2>2 DEF Refreshers
<1>10. QED
    BY <1>1, <1>2, <1>3, <1>4, <1>5, <1>6, <1>7, <1>8, <1>9 DEF Next, CatchUp, Refreshers, Harm

LEMMA AllHeldStep ==
    ASSUME NEW s \in Sources, ReaderInv, StaysMapped(s), AllHeld(s), Next, ~Harm(s)
    PROVE  AllHeld(s)'
<1> USE DEF ReaderInv
<1>1. ASSUME UNCHANGED posted, \A i : Held(s, i) => Held(s, i)'
      PROVE  AllHeld(s)'
    BY <1>1 DEF AllHeld
<1>2. ASSUME NEW r \in Sources, Post(r)
      PROVE  AllHeld(s)'
    <2>1. SUFFICES ASSUME NEW i \in 1..posted'[s]
                   PROVE  Held(s, i)'
        BY DEF AllHeld
    <2>2. posted' = [posted EXCEPT ![r] = @ + 1] /\ posted \in [Sources -> Nat]
        BY <1>2, MessageCount DEF Post, TypeOK
    <2>3. i \in 1..posted[s] \/ <<s, i>> = <<r, posted[r] + 1>>
        BY <2>2
    <2>4. QED
        BY <1>2, <2>3 DEF Post, AllHeld, Held
<1>3. ASSUME NEW r \in Sources, PostUnheard(r) \/ Toggle(r)
      PROVE  AllHeld(s)'
    <2>1. posted'[s] = posted[s] /\ UNCHANGED <<handled, events, albums, inFlight>>
        BY <1>3 DEF PostUnheard, Toggle, Harm, TypeOK
    <2>2. QED
        BY <2>1 DEF AllHeld, Held
<1>4. ASSUME NEW m \in events, HandleMessage(m[1], m[2])
      PROVE  AllHeld(s)'
    <2>1. m = <<m[1], m[2]>> /\ m[1] \in Sources /\ m[2] \in MsgIds
        BY DEF TypeOK, Messages
    <2>2. CASE Ignore(m[1], m[2])
        <3>1. m[1] # s
            BY <2>2 DEF Ignore, StaysMapped
        <3>2. ASSUME NEW i, Held(s, i)
              PROVE  Held(s, i)'
            BY <2>2, <3>1, <3>2 DEF Ignore, Held
        <3>3. QED
            BY <1>1, <2>2, <3>2 DEF Ignore
    <2>3. CASE HandOver(m[1], m[2])
        <3>1. Batch(m[1], {m[2]}) \in inFlight'
            BY <2>3 DEF HandOver
        <3>2. ASSUME NEW i, Held(s, i)
              PROVE  Held(s, i)'
            BY <2>3, <3>1, <3>2 DEF HandOver, Held, Batch
        <3>3. QED
            BY <1>1, <2>3, <3>2 DEF HandOver
    <2>4. CASE BufferAlbum(m[1], m[2])
        <3>1. <<m[1], GroupOf[<<m[1], m[2]>>]>> \in Albums
            BY <2>1, <2>4, GroupsOfMessages DEF BufferAlbum, Albums
        <3> DEFINE key == <<m[1], GroupOf[<<m[1], m[2]>>]>>
        <3>2. /\ \A k \in Albums : albums[k] \subseteq albums'[k]
              /\ m[2] \in albums'[key]
            BY <2>4, <3>1 DEF BufferAlbum, TypeOK
        <3>3. key[1] = m[1]
            OBVIOUS
        <3> HIDE DEF key
        <3>4. ASSUME NEW i, Held(s, i)
              PROVE  Held(s, i)'
            <4>1. CASE <<s, i>> = m
                BY <2>1, <3>1, <3>2, <3>3, <4>1 DEF Held, key
            <4>2. CASE <<s, i>> # m
                BY <2>1, <2>4, <3>2, <3>4, <4>2 DEF BufferAlbum, Held
            <4>3. QED
                BY <4>1, <4>2
        <3>5. QED
            BY <1>1, <2>4, <3>4 DEF BufferAlbum
    <2>5. QED
        BY <1>4, <2>2, <2>3, <2>4 DEF HandleMessage
<1>5. ASSUME NEW k \in Albums, FlushAlbum(k)
      PROVE  AllHeld(s)'
    <2>1. Batch(k[1], albums[k]) \in inFlight' /\ inFlight \subseteq inFlight'
        BY <1>5 DEF FlushAlbum
    <2>2. \A j \in Albums : j # k => albums'[j] = albums[j]
        BY <1>5 DEF FlushAlbum, TypeOK
    <2>3. ASSUME NEW i, Held(s, i)
          PROVE  Held(s, i)'
        BY <1>5, <2>1, <2>2, <2>3 DEF FlushAlbum, Held, Batch
    <2>4. QED
        BY <1>1, <1>5, <2>3 DEF FlushAlbum
<1>6. ASSUME NEW b \in inFlight, Ingest(b)
      PROVE  AllHeld(s)'
    <2>1. CASE Store(b) \/ Acknowledge(b)
        BY <1>1, <2>1 DEF Store, Acknowledge, Held
    <2>2. CASE Finish(b)
        <3>1. ASSUME NEW i, Held(s, i)
              PROVE  Held(s, i)'
            BY <2>2, <3>1 DEF Finish, Held
        <3>2. QED
            BY <1>1, <2>2, <3>1 DEF Finish
    <2>3. CASE TaskFailed(b)
        <3>1. b.source # s
            BY <2>3 DEF Harm
        <3>2. ASSUME NEW i, Held(s, i)
              PROVE  Held(s, i)'
            BY <2>3, <3>1, <3>2 DEF TaskFailed, Held
        <3>3. QED
            BY <1>1, <2>3, <3>2 DEF TaskFailed
    <2>4. QED
        BY <1>6, <2>1, <2>2, <2>3 DEF Ingest
<1>7. ASSUME NEW w \in Refreshers, Start \/ Resolve(w) \/ CatchUp(w)
      PROVE  AllHeld(s)'
    BY <1>1, <1>7
    DEF CatchUp, Start, BeginSweep, Resolve, ListSources, EndSweep, SweepAborted, Fetch,
        FetchFailed, Held
<1>8. QED
    BY <1>2, <1>3, <1>4, <1>5, <1>6, <1>7 DEF Next, Refreshers, Harm

LEMMA MappedAndHeldStep ==
    ASSUME NEW s \in Sources, ReaderInv, StaysMapped(s), AllHeld(s),
           [Next]_vars, [~Harm(s)]_vars
    PROVE  StaysMapped(s)' /\ AllHeld(s)'
<1>1. CASE Next /\ ~Harm(s)
    BY <1>1, StaysMappedStep, AllHeldStep DEF ReaderInv
<1>2. CASE UNCHANGED vars
    BY <1>2 DEF vars, StaysMapped, AllHeld, Held, At
<1>3. QED
    BY <1>1, <1>2

LEMMA MappedAndHeldInit ==
    ASSUME NEW s \in Sources, Init
    PROVE  StaysMapped(s) /\ AllHeld(s)
BY DEF Init, StaysMapped, AllHeld, At, Off

LEMMA HeldIsNotSkipped == ASSUME NEW s, AllHeld(s) PROVE SkipsNothing(s)
BY DEF AllHeld, SkipsNothing, Held, InHand

(* Failures and toggles of other sources, and failed fetches, sweeps and   *)
(* downloads of its own, make the watermark of a source pass no message    *)
(* that is lost, however many there are and whatever the order of events,  *)
(* flushes, refreshes, sweeps and tasks: only a Harm of the source does.   *)
THEOREM OnlyHarmSkips ==
    ASSUME NEW s \in Sources
    PROVE  Spec /\ [][~Harm(s)]_vars => []SkipsNothing(s)
<1>1. Init => StaysMapped(s) /\ AllHeld(s)
    BY MappedAndHeldInit
<1>2. ReaderInv /\ StaysMapped(s) /\ AllHeld(s) /\ [Next]_vars /\ [~Harm(s)]_vars
        => (StaysMapped(s) /\ AllHeld(s))'
    BY MappedAndHeldStep
<1>3. AllHeld(s) => SkipsNothing(s)
    BY HeldIsNotSkipped
<1>4. QED
    BY <1>1, <1>2, <1>3, AlwaysReaderInv, PTL DEF Spec

-----------------------------------------------------------------------------
(* Nothing is skipped while nothing fails.                                 *)

Quiet == MaxFaults = 0 /\ MaxToggles = 0

LEMMA QuietIsHarmless ==
    ASSUME NEW s \in Sources, Quiet, TypeOK, Next
    PROVE  ~Harm(s)
<1>1. ~Fault /\ ~Toggle(s) /\ ~PostUnheard(s)
    BY DEF Quiet, TypeOK, Fault, Toggle, PostUnheard
<1>2. ASSUME NEW w \in Refreshers, Resolve(w)
      PROVE  s \notin sweeps[w].todo \ entityMap'
    BY <1>1, <1>2 DEF Resolve
<1>3. QED
    BY <1>1, <1>2 DEF Harm, Crash, TaskFailed

(* Whatever the order of events, flushes, refreshes, sweeps and tasks, the *)
(* watermark passes no message that is lost: for any sources, messages and *)
(* albums, as long as nothing fails and the admin lets the sources be.     *)
THEOREM NothingLost == ASSUME Quiet PROVE Spec => []NothingSkipped
<1> DEFINE Kept == \A s \in Sources : StaysMapped(s) /\ AllHeld(s)
<1>1. Init => Kept
    BY MappedAndHeldInit
<1>2. ReaderInv /\ Kept /\ [Next]_vars => Kept'
    <2> SUFFICES ASSUME ReaderInv, Kept, [Next]_vars, NEW s \in Sources
                 PROVE  StaysMapped(s)' /\ AllHeld(s)'
        OBVIOUS
    <2>1. [~Harm(s)]_vars
        BY QuietIsHarmless DEF ReaderInv
    <2>2. QED
        BY <2>1, MappedAndHeldStep
<1>3. Kept => NothingSkipped
    BY HeldIsNotSkipped DEF SkipsNothing, NothingSkipped
<1> HIDE DEF Kept
<1>4. QED
    BY <1>1, <1>2, <1>3, AlwaysReaderInv, PTL DEF Spec

-----------------------------------------------------------------------------
(* What "dealt with" is worth: the tables.                                 *)

(* The operators of the ledger are those of Posts.                         *)
LEMMA LedgerHash ==
    ASSUME NEW b \in Batches
    PROVE  /\ Ledger!Key(b) = Key(b) /\ Ledger!Key(b) \in Messages
           /\ ContentHash(b) # NoRow
           /\ Ledger!HasText(b) => Ledger!TextOf(b) # NoRow
<1>1. Ledger!HeadId(b) = HeadId(b)
    BY DEF Ledger!HeadId, HeadId, Ledger!Outranks, Outranks
<1>2. Ledger!Key(b) = Key(b) /\ Ledger!TextOf(b) = TextOf(b)
    BY <1>1 DEF Ledger!Key, Key, Ledger!TextOf, TextOf
<1>3. Key(b) \in Messages /\ ContentHash(b) \in Hashes
    BY PostTypes
<1>4. Ledger!HasText(b) => ContentHash(b) = TextOf(b)
    BY <1>2 DEF Ledger!HasText, HasText, ContentHash
<1>5. QED
    BY <1>2, <1>3, <1>4, ReaderAssumption

(* Who writes the tables, and who counts a message as handled.             *)
LEMMA OnlyIngestWrites ==
    ASSUME [Next]_vars, <<row, lastId>>' # <<row, lastId>>
    PROVE  \E b \in inFlight : Store(b) \/ Acknowledge(b)
BY DEF Next, vars, ledgerVars, Post, PostUnheard, Toggle, HandleMessage, Ignore, HandOver,
       BufferAlbum, FlushAlbum, Start, Resolve, Crash, CatchUp, BeginSweep, ListSources,
       EndSweep, SweepAborted, Fetch, FetchFailed, Ingest, Finish, TaskFailed

LEMMA OnlyFinishHandles ==
    ASSUME [Next]_vars, NEW m \in handled', m \notin handled
    PROVE  \E b \in inFlight : Finish(b) /\ m \in {b.source} \X b.ids
BY DEF Next, vars, Post, PostUnheard, Toggle, HandleMessage, Ignore, HandOver,
       BufferAlbum, FlushAlbum, Start, Resolve, Crash, CatchUp, BeginSweep, ListSources,
       EndSweep, SweepAborted, Fetch, FetchFailed, Ingest, Store, Acknowledge, Finish, TaskFailed

LEMMA RowsStay ==
    ASSUME ReaderInv, [Next]_vars
    PROVE  \A m \in Messages : row[m] # NoRow => row'[m] = row[m]
<1>1. CASE row' = row
    BY <1>1
<1>2. CASE row' # row
    <2>1. PICK b \in inFlight : Store(b)
        BY <1>2, OnlyIngestWrites DEF Acknowledge, Ledger!Acknowledge
    <2>2. QED
        BY <2>1 DEF Store, Ledger!Store, ReaderInv, TypeOK
<1>3. QED
    BY <1>1, <1>2

(* The reader touches the tables of the ledger by its two actions only,    *)
(* whatever is handed over, by whom and how often.                         *)
THEOREM ReaderKeepsLedger == Spec => Ledger!Spec
<1>1. Init => Ledger!Init
    BY DEF Init
<1>2. ReaderInv /\ [Next]_vars => [Ledger!Next]_(Ledger!ledgerVars)
    <2> SUFFICES ASSUME ReaderInv, [Next]_vars, <<row, lastId>>' # <<row, lastId>>
                 PROVE  Ledger!Next
        BY DEF Ledger!ledgerVars
    <2>1. PICK b \in inFlight : Store(b) \/ Acknowledge(b)
        BY OnlyIngestWrites
    <2>2. QED
        BY <2>1 DEF Store, Acknowledge, Ledger!Next, ReaderInv, TypeOK
<1>3. QED
    BY <1>1, <1>2, AlwaysReaderInv, PTL DEF Spec, Ledger!Spec

(* The message is of a post with nothing left to do, or whose hash an      *)
(* article has (Finish).                                                   *)
Dealt(s, i) ==
    \E b \in Batches :
        /\ b.source = s /\ i \in b.ids
        /\ Ledger!Settled(b) \/ Ledger!TextStored(ContentHash(b))

HandledIsDealt == \A m \in handled : Dealt(m[1], m[2])

LEMMA DealtIsForGood ==
    ASSUME ReaderInv, [Next]_vars, NEW s, NEW i, Dealt(s, i)
    PROVE  Dealt(s, i)'
<1>1. PICK b \in Batches :
        /\ b.source = s /\ i \in b.ids
        /\ Ledger!Settled(b) \/ Ledger!TextStored(ContentHash(b))
    BY DEF Dealt
<1>2. \A m \in Messages : row[m] # NoRow => row'[m] = row[m]
    BY RowsStay
<1>3. Ledger!Messages = Messages
    BY DEF Ledger!Messages, Messages
<1>4. ASSUME NEW x, x # NoRow, Ledger!TextStored(x)
      PROVE  Ledger!TextStored(x)'
    BY <1>2, <1>3, <1>4 DEF Ledger!TextStored
<1>5. ContentHash(b) # NoRow /\ (Ledger!HasText(b) => Ledger!TextOf(b) # NoRow)
    BY LedgerHash
<1>6. Ledger!Key(b) \in Messages
    BY LedgerHash
<1>7. Ledger!Settled(b) => Ledger!Settled(b)'
    BY <1>2, <1>4, <1>5, <1>6 DEF Ledger!Settled
<1>8. QED
    BY <1>1, <1>4, <1>5, <1>7 DEF Dealt

(* What the tasks that came to their end had in hand is in the tables for  *)
(* good, through failures and restarts, also where two tasks raced.        *)
THEOREM HandledForGood == Spec => []HandledIsDealt
<1>1. Init => HandledIsDealt
    BY DEF Init, HandledIsDealt
<1>2. ReaderInv /\ HandledIsDealt /\ [Next]_vars => HandledIsDealt'
    <2> SUFFICES ASSUME ReaderInv, HandledIsDealt, [Next]_vars, NEW m \in handled'
                 PROVE  Dealt(m[1], m[2])'
        BY DEF HandledIsDealt
    <2>1. CASE m \in handled
        BY <2>1, DealtIsForGood DEF HandledIsDealt
    <2>2. CASE m \notin handled
        <3>1. PICK b \in inFlight : Finish(b) /\ m \in {b.source} \X b.ids
            BY <2>2, OnlyFinishHandles
        <3>2. Dealt(m[1], m[2])
            BY <3>1 DEF Finish, Dealt, ReaderInv, TypeOK
        <3>3. QED
            BY <3>2, DealtIsForGood
    <2>3. QED
        BY <2>1, <2>2
<1>3. QED
    BY <1>1, <1>2, AlwaysReaderInv, PTL DEF Spec

(* Unless a Harm comes to the source, each of its messages the watermark   *)
(* has passed is in the tables or in hand: no sweep has to look for it.    *)
THEOREM PassedIsDealt ==
    ASSUME NEW s \in Sources
    PROVE  Spec /\ [][~Harm(s)]_vars
             => [](\A i \in 1..posted[s] : i <= lastId[s] => Dealt(s, i) \/ InHand(s, i))
<1>1. SkipsNothing(s) /\ HandledIsDealt
        => \A i \in 1..posted[s] : i <= lastId[s] => Dealt(s, i) \/ InHand(s, i)
    BY DEF SkipsNothing, HandledIsDealt
<1>2. QED
    BY <1>1, OnlyHarmSkips, HandledForGood, PTL
=============================================================================
