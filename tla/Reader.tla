------------------------------- MODULE Reader -------------------------------
(***************************************************************************)
(* TelethonReader of bots/news/reader.py: the two paths that hand posts to *)
(* the pipeline.  Real-time events pass through the entity map and, for    *)
(* albums, a buffer; sweeps (the initial one and those of the catch_up     *)
(* job) read the history of each enabled source above last_message_id.     *)
(*                                                                         *)
(* The pipeline is taken by its promise: a batch in flight takes steps of  *)
(* DedupLedger, which IngestPipeline implements, until its task ends.  Two *)
(* tasks for the same batch are one element of inFlight.  Sources are      *)
(* numbered in the order of added_at.                                      *)
(***************************************************************************)
EXTENDS Posts

CONSTANTS
    NoRow,        \* no article stored for a message
    GroupOf,      \* grouped_id of each message
    Groups,       \* the album ids
    NoGroup,      \* grouped_id of a message outside an album
    Lookback,     \* catchup_lookback_messages: 50
    MaxFaults,    \* bound: failures of the environment in a behaviour
    MaxToggles    \* bound: uses of /toggle_source in a behaviour

ASSUME ReaderAssumption ==
    /\ Sources = 1..Cardinality(Sources) /\ IsFiniteSet(Sources)
    /\ MsgIds = 1..Cardinality(MsgIds) /\ IsFiniteSet(MsgIds)
    /\ NoRow \notin Hashes
    /\ NoGroup \notin Groups
    /\ GroupOf \in [Messages -> Groups \cup {NoGroup}]
    /\ Lookback \in Nat \ {0}
    /\ MaxFaults \in Nat
    /\ MaxToggles \in Nat

VARIABLES
    \* Telegram
    posted,      \* number of messages each source has published
    \* the database
    row, lastId, \* the tables of DedupLedger
    links,       \* article_media: messages whose media the article shows
    enabled,     \* source_channels.enabled
    resolved,    \* sources with a telegram_channel_id
    \* the process
    up,          \* the process runs
    entityMap,   \* sources of _entity_map
    listening,   \* sources of the chats the event handler was registered for
    events,      \* updates dispatched to the handler and not handled yet
    albums,      \* _albums: members buffered, by source and grouped_id
    sweeps,      \* where start and the two catch_up coroutines are
    inFlight,    \* batches handed over whose tasks have not ended
    \* observation and bounds
    handled,     \* messages of the batches whose tasks came to an end of their own
    faults, toggles

ledgerVars == <<row, lastId, links>>
adminVars  == <<enabled, toggles>>
vars == <<posted, row, lastId, links, enabled, resolved, up, entityMap, listening, events,
          albums, sweeps, inFlight, handled, faults, toggles>>

Ledger == INSTANCE DedupLedger WITH row <- row, lastId <- lastId

(* Whoever runs _refresh_sources: start, the task start creates, the job.  *)
Refreshers == {"start", "initial", "job"}

Off == [at |-> "off", todo |-> {}, min |-> [s \in Sources |-> 0]]

Albums == Sources \X Groups

Batch(s, ids) == [source |-> s, ids |-> ids]

(* Whatever part of an album is cut off by the timer or by a sweep is a    *)
(* batch, and so is any message by itself.                                 *)
ASSUME ReaderBatches ==
    /\ \A m \in Messages : Batch(m[1], {m[2]}) \in Batches
    /\ \A s \in Sources, g \in Groups :
        \A ids \in SUBSET {i \in MsgIds : GroupOf[<<s, i>>] = g} :
            ids # {} => Batch(s, ids) \in Batches

Init ==
    /\ posted = [s \in Sources |-> 0]
    /\ Ledger!Init
    /\ links = [m \in Messages |-> {}]
    /\ enabled \in SUBSET Sources
    /\ resolved = {}
    /\ up = FALSE
    /\ entityMap = {}
    /\ listening = {}
    /\ events = {}
    /\ albums = [k \in Albums |-> {}]
    /\ sweeps = [w \in Refreshers |-> Off]
    /\ inFlight = {}
    /\ handled = {}
    /\ faults = 0
    /\ toggles = 0

Fault == faults < MaxFaults /\ faults' = faults + 1

At(w, stage) == sweeps[w].at = stage

-----------------------------------------------------------------------------
(* Faulty variants of definitions below, used only for mutation testing.   *)

(* iter_messages with reverse=True: the oldest messages of the channel.    *)
GatheredOldest(s, min) == {i \in 1..posted[s] : i > min /\ i <= Lookback}

(* The flush without its early return for an empty buffer.                 *)
FlushAlbumUnchecked(k) ==
    /\ inFlight' = inFlight \cup {Batch(k[1], albums[k])}
    /\ albums' = [albums EXCEPT ![k] = {}]
    /\ UNCHANGED <<posted, ledgerVars, adminVars, resolved, up, entityMap, listening,
                   events, sweeps, handled, faults>>

(* The map emptied where the list is read, and filled source by source.    *)
BeginSweepClearing(w) ==
    /\ up /\ At("start", "off")
    /\ At(w, IF w = "job" THEN "off" ELSE "scheduled")
    /\ sweeps' = [sweeps EXCEPT ![w] = [Off EXCEPT !.at = "resolve", !.todo = enabled]]
    /\ entityMap' = {}
    /\ UNCHANGED <<posted, ledgerVars, adminVars, resolved, up, listening, events,
                   albums, inFlight, handled, faults>>

(* The new sources added to the old map.                                   *)
ResolveMerging(w) ==
    /\ At(w, "resolve")
    /\ \E known \in SUBSET sweeps[w].todo : \E saved \in SUBSET known :
        /\ IF saved = sweeps[w].todo THEN UNCHANGED faults ELSE Fault
        /\ entityMap' = entityMap \cup known
        /\ resolved' = resolved \cup saved
        /\ listening' = IF w = "start" THEN known ELSE listening
    /\ sweeps' = IF w = "start"
        THEN [sweeps EXCEPT !["start"] = Off, !["initial"].at = "scheduled"]
        ELSE [sweeps EXCEPT ![w] = [Off EXCEPT !.at = "list"]]
    /\ UNCHANGED <<posted, ledgerVars, adminVars, up, events, albums, inFlight, handled>>

-----------------------------------------------------------------------------
(* Telegram.                                                               *)

(* A source publishes and the client of this process is told.              *)
Post(s) ==
    /\ posted[s] + 1 \in MsgIds
    /\ s \in listening
    /\ posted' = [posted EXCEPT ![s] = @ + 1]
    /\ events' = events \cup {<<s, posted[s] + 1>>}
    /\ UNCHANGED <<ledgerVars, adminVars, resolved, up, entityMap, listening, albums,
                   sweeps, inFlight, handled, faults>>

(* A source publishes and no handler hears of it: the process is down, the *)
(* handler is not registered for the source, the connection is broken.     *)
PostUnheard(s) ==
    /\ posted[s] + 1 \in MsgIds
    /\ Fault
    /\ posted' = [posted EXCEPT ![s] = @ + 1]
    /\ UNCHANGED <<ledgerVars, adminVars, resolved, up, entityMap, listening, events,
                   albums, sweeps, inFlight, handled>>

(* Admin command /toggle_source.                                           *)
Toggle(s) ==
    /\ toggles < MaxToggles
    /\ toggles' = toggles + 1
    /\ enabled' = IF s \in enabled THEN enabled \ {s} ELSE enabled \cup {s}
    /\ UNCHANGED <<posted, ledgerVars, resolved, up, entityMap, listening, events, albums,
                   sweeps, inFlight, handled, faults>>

-----------------------------------------------------------------------------
(* Real-time events.  Every update is dispatched as a task of its own, so  *)
(* they may be handled in any order.                                       *)

(* Message from an unknown chat.                                           *)
Ignore(s, i) ==
    /\ <<s, i>> \in events
    /\ s \notin entityMap
    /\ events' = events \ {<<s, i>>}
    /\ UNCHANGED <<posted, ledgerVars, adminVars, resolved, up, entityMap, listening,
                   albums, sweeps, inFlight, handled, faults>>

HandOver(s, i) ==
    /\ <<s, i>> \in events
    /\ s \in entityMap
    /\ GroupOf[<<s, i>>] = NoGroup
    /\ events' = events \ {<<s, i>>}
    /\ inFlight' = inFlight \cup {Batch(s, {i})}
    /\ UNCHANGED <<posted, ledgerVars, adminVars, resolved, up, entityMap, listening,
                   albums, sweeps, handled, faults>>

(* The first member starts the timer that flushes the buffer, under the    *)
(* lock that guards it: an album is buffered if and only if its flush is   *)
(* pending.                                                                *)
BufferAlbum(s, i) ==
    /\ <<s, i>> \in events
    /\ s \in entityMap
    /\ GroupOf[<<s, i>>] # NoGroup
    /\ events' = events \ {<<s, i>>}
    /\ albums' = [albums EXCEPT ![<<s, GroupOf[<<s, i>>]>>] = @ \cup {i}]
    /\ UNCHANGED <<posted, ledgerVars, adminVars, resolved, up, entityMap, listening,
                   sweeps, inFlight, handled, faults>>

(* The delay is over; a member may still be on its way.                    *)
FlushAlbum(k) ==
    /\ albums[k] # {}
    /\ inFlight' = inFlight \cup {Batch(k[1], albums[k])}
    /\ albums' = [albums EXCEPT ![k] = {}]
    /\ UNCHANGED <<posted, ledgerVars, adminVars, resolved, up, entityMap, listening,
                   events, sweeps, handled, faults>>

-----------------------------------------------------------------------------
(* start and catch_up.                                                     *)

(* start begins with _refresh_sources.                                     *)
Start ==
    /\ ~up
    /\ up' = TRUE
    /\ sweeps' = [sweeps EXCEPT !["start"] = [Off EXCEPT !.at = "resolve", !.todo = enabled]]
    /\ UNCHANGED <<posted, ledgerVars, adminVars, resolved, entityMap, listening, events,
                   albums, inFlight, handled, faults>>

(* catch_up begins with _refresh_sources: the task of start once, the job  *)
(* whenever its last run has ended (max_instances=1).                      *)
BeginSweep(w) ==
    /\ up /\ At("start", "off")
    /\ At(w, IF w = "job" THEN "off" ELSE "scheduled")
    /\ sweeps' = [sweeps EXCEPT ![w] = [Off EXCEPT !.at = "resolve", !.todo = enabled]]
    /\ UNCHANGED <<posted, ledgerVars, adminVars, resolved, up, entityMap, listening,
                   events, albums, inFlight, handled, faults>>

(* The sources that could be resolved replace the map; an id that is new   *)
(* is saved before.  A flood wait or an error leaves a source out of the   *)
(* map, a failed transaction leaves its id unsaved.  start goes on to      *)
(* register the handler, for the chats of this moment and for good, and to *)
(* schedule the first sweep.                                               *)
Resolve(w) ==
    /\ At(w, "resolve")
    /\ \E known \in SUBSET sweeps[w].todo : \E saved \in SUBSET known :
        /\ IF saved = sweeps[w].todo THEN UNCHANGED faults ELSE Fault
        /\ entityMap' = known
        /\ resolved' = resolved \cup saved
        /\ listening' = IF w = "start" THEN known ELSE listening
    /\ sweeps' = IF w = "start"
        THEN [sweeps EXCEPT !["start"] = Off, !["initial"].at = "scheduled"]
        ELSE [sweeps EXCEPT ![w] = [Off EXCEPT !.at = "list"]]
    /\ UNCHANGED <<posted, ledgerVars, adminVars, up, events, albums, inFlight, handled>>

(* The rows the sweep will work from, watermarks included.                 *)
ListSources(w) ==
    /\ At(w, "list")
    /\ sweeps' = [sweeps EXCEPT
            ![w] = [at |-> "fetch", todo |-> enabled \cap resolved, min |-> lastId]]
    /\ UNCHANGED <<posted, ledgerVars, adminVars, resolved, up, entityMap, listening,
                   events, albums, inFlight, handled, faults>>

Upcoming(w, s) ==
    /\ At(w, "fetch")
    /\ s \in sweeps[w].todo
    /\ \A r \in sweeps[w].todo : s <= r

(* The newest Lookback messages down to the watermark.                     *)
Gathered(s, min) == {i \in 1..posted[s] : i > min /\ i > posted[s] - Lookback}

SameBucket(s, i, j) ==
    i = j \/ (GroupOf[<<s, i>>] # NoGroup /\ GroupOf[<<s, i>>] = GroupOf[<<s, j>>])

Buckets(s, ids) == {Batch(s, {j \in ids : SameBucket(s, i, j)}) : i \in ids}

Fetch(w, s) ==
    /\ Upcoming(w, s)
    /\ inFlight' = inFlight \cup Buckets(s, Gathered(s, sweeps[w].min[s]))
    /\ sweeps' = [sweeps EXCEPT ![w].todo = @ \ {s}]
    /\ UNCHANGED <<posted, ledgerVars, adminVars, resolved, up, entityMap, listening,
                   events, albums, handled, faults>>

(* A flood wait or an error: on to the next source.                        *)
FetchFailed(w, s) ==
    /\ Upcoming(w, s)
    /\ Fault
    /\ sweeps' = [sweeps EXCEPT ![w].todo = @ \ {s}]
    /\ UNCHANGED <<posted, ledgerVars, adminVars, resolved, up, entityMap, listening,
                   events, albums, inFlight, handled>>

EndSweep(w) ==
    /\ At(w, "fetch")
    /\ sweeps[w].todo = {}
    /\ sweeps' = [sweeps EXCEPT ![w] = Off]
    /\ UNCHANGED <<posted, ledgerVars, adminVars, resolved, up, entityMap, listening,
                   events, albums, inFlight, handled, faults>>

(* A query for the sources raises and ends the run.                        *)
SweepAborted(w) ==
    /\ w # "start"
    /\ At(w, "resolve") \/ At(w, "list")
    /\ Fault
    /\ sweeps' = [sweeps EXCEPT ![w] = Off]
    /\ UNCHANGED <<posted, ledgerVars, adminVars, resolved, up, entityMap, listening,
                   events, albums, inFlight, handled>>

-----------------------------------------------------------------------------
(* The pipeline.                                                           *)

MediaOf(b) == {i \in b.ids : Content[<<b.source, i>>].media}

(* The transaction that stores an article links the media that could be    *)
(* downloaded; the others are logged and left out.                         *)
Store(b) ==
    /\ b \in inFlight
    /\ Ledger!Store(b)
    /\ \E got \in SUBSET MediaOf(b) :
        /\ IF got = MediaOf(b) THEN UNCHANGED faults ELSE Fault
        /\ links' = [links EXCEPT ![Key(b)] = got]
    /\ UNCHANGED <<posted, adminVars, resolved, up, entityMap, listening, events, albums,
                   sweeps, inFlight, handled>>

Acknowledge(b) ==
    /\ b \in inFlight
    /\ Ledger!Acknowledge(b)
    /\ UNCHANGED <<posted, links, adminVars, resolved, up, entityMap, listening, events,
                   albums, sweeps, inFlight, handled, faults>>

(* The task returns, or is refused by the unique constraint on the hash.   *)
Finish(b) ==
    /\ b \in inFlight
    /\ Ledger!Settled(b) \/ Ledger!TextStored(ContentHash(b))
    /\ inFlight' = inFlight \ {b}
    /\ handled' = handled \cup ({b.source} \X b.ids)
    /\ UNCHANGED <<posted, ledgerVars, adminVars, resolved, up, entityMap, listening,
                   events, albums, sweeps, faults>>

(* The task is ended by an exception.                                      *)
TaskFailed(b) ==
    /\ b \in inFlight
    /\ Fault
    /\ inFlight' = inFlight \ {b}
    /\ UNCHANGED <<posted, ledgerVars, adminVars, resolved, up, entityMap, listening,
                   events, albums, sweeps, handled>>

(* The process ends.  stop flushes the albums it finds, but nobody waits   *)
(* for the tasks that gives, so all that is not in the database is gone.   *)
Crash ==
    /\ up
    /\ Fault
    /\ up' = FALSE
    /\ entityMap' = {}
    /\ listening' = {}
    /\ events' = {}
    /\ albums' = [k \in Albums |-> {}]
    /\ sweeps' = [w \in Refreshers |-> Off]
    /\ inFlight' = {}
    /\ UNCHANGED <<posted, ledgerVars, adminVars, resolved, handled>>

-----------------------------------------------------------------------------
HandleMessage(s, i) == Ignore(s, i) \/ HandOver(s, i) \/ BufferAlbum(s, i)

CatchUp(w) ==
    \/ BeginSweep(w) \/ Resolve(w) \/ ListSources(w) \/ EndSweep(w) \/ SweepAborted(w)
    \/ \E s \in Sources : Fetch(w, s) \/ FetchFailed(w, s)

Ingest(b) == Store(b) \/ Acknowledge(b) \/ Finish(b) \/ TaskFailed(b)

Next ==
    \/ \E s \in Sources : Post(s) \/ PostUnheard(s) \/ Toggle(s)
    \/ \E m \in events : HandleMessage(m[1], m[2])
    \/ \E k \in Albums : FlushAlbum(k)
    \/ Start \/ Resolve("start") \/ Crash
    \/ \E w \in {"initial", "job"} : CatchUp(w)
    \/ \E b \in inFlight : Ingest(b)

Spec == Init /\ [][Next]_vars

(* The container is restarted when the process ends, the scheduler starts  *)
(* the job every fifteen minutes, and the event loop runs some handler,    *)
(* timer or task as long as one can run: the calls they wait for have      *)
(* timeouts, a flood wait sleeps for two minutes at most.                  *)
FairSpec ==
    /\ Spec
    /\ WF_vars(Start \/ Resolve("start"))
    /\ WF_vars(CatchUp("initial"))
    /\ WF_vars(CatchUp("job"))
    /\ WF_vars(\E m \in events : HandleMessage(m[1], m[2]))
    /\ WF_vars(\E k \in Albums : FlushAlbum(k))
    /\ WF_vars(\E b \in inFlight : Ingest(b))

-----------------------------------------------------------------------------
(* Every variable has its type; whatever is handed over is a post.         *)
TypeOK ==
    /\ posted \in [Sources -> 0..Cardinality(MsgIds)]
    /\ row \in [Messages -> Hashes \cup {NoRow}]
    /\ lastId \in [Sources -> MsgIds \cup {0}]
    /\ links \in [Messages -> SUBSET MsgIds]
    /\ enabled \subseteq Sources
    /\ resolved \subseteq Sources
    /\ up \in BOOLEAN
    /\ entityMap \subseteq Sources
    /\ listening \subseteq Sources
    /\ events \subseteq Messages
    /\ albums \in [Albums -> SUBSET MsgIds]
    /\ sweeps \in [Refreshers ->
            [at: {"off", "scheduled", "resolve", "list", "fetch"},
             todo: SUBSET Sources, min: [Sources -> MsgIds \cup {0}]]]
    /\ inFlight \subseteq Batches
    /\ handled \subseteq Messages
    /\ faults \in 0..MaxFaults
    /\ toggles \in 0..MaxToggles

InHand(s, i) ==
    \/ <<s, i>> \in events
    \/ \E k \in Albums : k[1] = s /\ i \in albums[k]
    \/ \E b \in inFlight : b.source = s /\ i \in b.ids
    \/ \E w \in Refreshers :
        At(w, "fetch") /\ s \in sweeps[w].todo /\ i \in Gathered(s, sweeps[w].min[s])

(* last_message_id never passes a message the pipeline has not dealt with  *)
(* and that nobody holds: the next sweep would not look for it.            *)
NothingSkipped ==
    \A s \in Sources : \A i \in 1..posted[s] :
        i <= lastId[s] => <<s, i>> \in handled \/ InHand(s, i)

(* A message with media that was dealt with, that nobody holds any more    *)
(* and that no sweep will look for is shown by an article.                 *)
MediaIsKept ==
    \A m \in handled :
        Content[m].media /\ m[2] <= lastId[m[1]] /\ ~InHand(m[1], m[2])
            => \E i \in MsgIds : m[2] \in links[<<m[1], i>>]

(* Whatever an enabled source publishes reaches the pipeline, or something *)
(* newer of the same source does and moves the watermark past it.          *)
PulledOrPassed ==
    \A s \in Sources : \A i \in MsgIds :
        i <= posted[s] /\ s \in enabled
            ~> s \notin enabled \/ i <= lastId[s] \/ <<s, i>> \in handled

(* The map follows the admin's switch: overlapping refreshes may bring an  *)
(* old list back, but once the admin is done and nothing fails any more    *)
(* they settle on what the table says.                                     *)
MapFollowsSwitch == <>[](entityMap = enabled)
=============================================================================
