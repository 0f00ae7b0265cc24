--------------------------- MODULE IngestPipeline ---------------------------
(***************************************************************************)
(* IngestPipeline of bots/news/pipeline.py.  The reader hands it a post,   *)
(* process_message starts an asyncio task for it and returns; the task     *)
(* waits for a permit of the semaphore and then runs _process, one         *)
(* database transaction or one cache operation at a time.  An action here  *)
(* is the code between two points where the task lets others run, and a    *)
(* transaction takes effect where it commits.                              *)
(*                                                                         *)
(* The media download between the duplicate checks and the insert, and the *)
(* call of the language model after it, change nothing this module keeps:  *)
(* they are the time that passes between two actions.  Article status is   *)
(* the subject of module Delivery.                                         *)
(***************************************************************************)
EXTENDS Posts, Sequences

CONSTANTS
    NoRow,        \* no article stored for a message
    NoBatch,      \* the batch of a slot that holds no task
    Tasks,        \* slots for the ingest tasks that exist at one time
    Concurrency   \* INGEST_WORKER_CONCURRENCY

ASSUME PipelineAssumption ==
    /\ NoRow \notin Hashes
    /\ NoBatch \notin Batches
    /\ IsFiniteSet(Tasks)
    /\ Concurrency \in Nat \ {0}

VARIABLES
    \* the database
    row,       \* articles: content_hash of the row stored for a (source, head id)
    lastId,    \* source_channels.last_message_id
    \* the process
    seen,      \* the "article" keys of MediaDeduplicator
    permits,   \* free permits of the semaphore
    waiting,   \* tasks queued on the semaphore, first come first served
    pc,        \* where each task is
    batch      \* the post each task was started for

dbVars   == <<row, lastId>>
taskVars == <<permits, waiting, pc, batch>>
vars     == <<row, lastId, seen, permits, waiting, pc, batch>>

(* Points of _process a task may be at while it holds a permit.            *)
Active == {"start", "skip", "cache", "hash", "bump", "insert", "mark", "summarize"}

(* How a task may have ended: it returned; an exception was logged; the    *)
(* insert met the unique constraint on content_hash.                       *)
Ended == {"done", "failed", "rejected"}

-----------------------------------------------------------------------------
(* Faulty variants of operators below, used only for mutation testing.     *)

(* The UPDATE without its WHERE last_message_id < id.                      *)
ForwardAlways(s, i) == [lastId EXCEPT ![s] = i]

(* The hash unique per source only.                                        *)
ClashInSource(b) ==
    row[Key(b)] = NoRow /\ \E i \in MsgIds : row[<<b.source, i>>] = ContentHash(b)

(* acquire and release by hand, the release skipped by an exception.       *)
EndLeaking(t, outcome) ==
    /\ pc' = [pc EXCEPT ![t] = outcome]
    /\ permits' = IF outcome = "failed" THEN permits ELSE permits + 1
    /\ UNCHANGED <<waiting, batch>>

(* A release in the handler and another one in the finally.                *)
EndReleasingTwice(t, outcome) ==
    /\ pc' = [pc EXCEPT ![t] = outcome]
    /\ permits' = IF outcome = "failed" THEN permits + 2 ELSE permits + 1
    /\ UNCHANGED <<waiting, batch>>

-----------------------------------------------------------------------------
(* Operators on the tables.                                                *)

TextStored(x) == \E k \in Messages : row[k] = x

Forward(s, i) == [lastId EXCEPT ![s] = IF @ < i THEN i ELSE @]

(* The transaction of the ON CONFLICT DO NOTHING insert: nothing returned, *)
(* the other unique constraint raises, or the row is new.                  *)
Duplicate(b) == row[Key(b)] # NoRow
Clash(b)     == ~Duplicate(b) /\ TextStored(ContentHash(b))

-----------------------------------------------------------------------------
Init ==
    /\ row = [m \in Messages |-> NoRow]
    /\ lastId = [s \in Sources |-> 0]
    /\ seen = {}
    /\ permits = Concurrency
    /\ waiting = <<>>
    /\ pc = [t \in Tasks |-> "idle"]
    /\ batch = [t \in Tasks |-> NoBatch]

(* A task moves on and keeps its permit, or ends and returns it.           *)
GoTo(t, point) ==
    /\ pc' = [pc EXCEPT ![t] = point]
    /\ UNCHANGED <<permits, waiting, batch>>

End(t, outcome) ==
    /\ pc' = [pc EXCEPT ![t] = outcome]
    /\ permits' = permits + 1
    /\ UNCHANGED <<waiting, batch>>

(* Faulty variants of actions below, used only for mutation testing.       *)

(* The mark set with the check, before the article is stored.              *)
NewTextMarked(t) ==
    /\ pc[t] = "hash"
    /\ ~(HasText(batch[t]) /\ TextStored(TextOf(batch[t])))
    /\ GoTo(t, "insert")
    /\ seen' = IF HasText(batch[t]) THEN seen \cup {TextOf(batch[t])} ELSE seen
    /\ UNCHANGED <<row, lastId>>

(* A post without text taken for an empty one.                             *)
SkipTextless(t) ==
    /\ pc[t] = "start"
    /\ ~HasText(batch[t])
    /\ GoTo(t, "skip")
    /\ UNCHANGED <<row, lastId, seen>>

(* exists_by_source_message without its condition on the source.           *)
KnownMessageAnySource(t) ==
    /\ pc[t] = "start"
    /\ HasContent(batch[t])
    /\ \E s \in Sources : row[<<s, HeadId(batch[t])>>] # NoRow
    /\ lastId' = Forward(batch[t].source, NewestId(batch[t]))
    /\ End(t, "done")
    /\ UNCHANGED <<row, seen>>

(* The watermark moved in a finally clause.                                *)
FailBumping(t) ==
    /\ pc[t] \in Active \ {"cache", "mark"}
    /\ lastId' = Forward(batch[t].source, NewestId(batch[t]))
    /\ End(t, "failed")
    /\ UNCHANGED <<row, seen>>

-----------------------------------------------------------------------------
(* process_message: the reader never waits for the task it starts.         *)
Submit(t, b) ==
    /\ pc[t] \in Ended \cup {"idle"}
    /\ pc' = [pc EXCEPT ![t] = "queued"]
    /\ batch' = [batch EXCEPT ![t] = b]
    /\ waiting' = Append(waiting, t)
    /\ UNCHANGED <<row, lastId, seen, permits>>

(* async with self._sem: the longest waiting task takes a free permit.     *)
Admit(t) ==
    /\ waiting # <<>>
    /\ t = waiting[1]
    /\ permits > 0
    /\ permits' = permits - 1
    /\ waiting' = Tail(waiting)
    /\ pc' = [pc EXCEPT ![t] = "start"]
    /\ UNCHANGED <<row, lastId, seen, batch>>

(* Nothing to store, a post already stored (the watermark moves in the     *)
(* transaction that found it), or a post to look into.                     *)
SkipEmpty(t) ==
    /\ pc[t] = "start"
    /\ ~HasContent(batch[t])
    /\ GoTo(t, "skip")
    /\ UNCHANGED <<row, lastId, seen>>

(* The empty message moves the watermark to its head, not to its newest.   *)
BumpEmpty(t) ==
    /\ pc[t] = "skip"
    /\ lastId' = Forward(batch[t].source, HeadId(batch[t]))
    /\ End(t, "done")
    /\ UNCHANGED <<row, seen>>

KnownMessage(t) ==
    /\ pc[t] = "start"
    /\ HasContent(batch[t])
    /\ Duplicate(batch[t])
    /\ lastId' = Forward(batch[t].source, NewestId(batch[t]))
    /\ End(t, "done")
    /\ UNCHANGED <<row, seen>>

NewMessage(t) ==
    /\ pc[t] = "start"
    /\ HasContent(batch[t])
    /\ ~Duplicate(batch[t])
    /\ GoTo(t, "cache")
    /\ UNCHANGED <<row, lastId, seen>>

(* The cache is asked about texts only; a hit still moves the watermark.   *)
CheckCache(t) ==
    /\ pc[t] = "cache"
    /\ GoTo(t, IF HasText(batch[t]) /\ TextOf(batch[t]) \in seen THEN "bump" ELSE "hash")
    /\ UNCHANGED <<row, lastId, seen>>

(* A text found in the table is put in the cache before the transaction    *)
(* that also moves the watermark has committed.                            *)
KnownText(t) ==
    /\ pc[t] = "hash"
    /\ HasText(batch[t])
    /\ TextStored(TextOf(batch[t]))
    /\ seen' = seen \cup {TextOf(batch[t])}
    /\ GoTo(t, "bump")
    /\ UNCHANGED <<row, lastId>>

NewText(t) ==
    /\ pc[t] = "hash"
    /\ ~(HasText(batch[t]) /\ TextStored(TextOf(batch[t])))
    /\ GoTo(t, "insert")
    /\ UNCHANGED <<row, lastId, seen>>

Bump(t) ==
    /\ pc[t] = "bump"
    /\ lastId' = Forward(batch[t].source, NewestId(batch[t]))
    /\ End(t, "done")
    /\ UNCHANGED <<row, seen>>

(* One transaction stores the article, its media links and the watermark.  *)
Insert(t) ==
    /\ pc[t] = "insert"
    /\ ~Duplicate(batch[t])
    /\ ~Clash(batch[t])
    /\ row' = [row EXCEPT ![Key(batch[t])] = ContentHash(batch[t])]
    /\ lastId' = Forward(batch[t].source, NewestId(batch[t]))
    /\ GoTo(t, IF HasText(batch[t]) THEN "mark" ELSE "summarize")
    /\ UNCHANGED seen

(* The race for the message was lost: the task returns without moving the  *)
(* watermark.                                                              *)
RaceLost(t) ==
    /\ pc[t] = "insert"
    /\ Duplicate(batch[t])
    /\ End(t, "done")
    /\ UNCHANGED <<row, lastId, seen>>

(* ON CONFLICT names the message key only: the other constraint raises,    *)
(* and _run_with_limit logs the exception.                                 *)
Rejected(t) ==
    /\ pc[t] = "insert"
    /\ Clash(batch[t])
    /\ End(t, "rejected")
    /\ UNCHANGED <<row, lastId, seen>>

Mark(t) ==
    /\ pc[t] = "mark"
    /\ seen' = seen \cup {TextOf(batch[t])}
    /\ GoTo(t, "summarize")
    /\ UNCHANGED <<row, lastId>>

Summarize(t) ==
    /\ pc[t] = "summarize"
    /\ End(t, "done")
    /\ UNCHANGED <<row, lastId, seen>>

(* Whatever talks to the database may raise; its transaction rolls back.   *)
Fail(t) ==
    /\ pc[t] \in Active \ {"cache", "mark"}
    /\ End(t, "failed")
    /\ UNCHANGED <<row, lastId, seen>>

(* The cache forgets a key: its time is up or it was the least recently    *)
(* used of a full cache.                                                   *)
Evict(x) ==
    /\ x \in seen
    /\ seen' = seen \ {x}
    /\ UNCHANGED <<row, lastId, permits, waiting, pc, batch>>

(* The process ends with tasks in flight, and starts again.  Nobody awaits *)
(* the tasks of process_message, so an orderly stop loses them as well.    *)
Restart ==
    /\ seen' = {}
    /\ permits' = Concurrency
    /\ waiting' = <<>>
    /\ pc' = [t \in Tasks |-> "idle"]
    /\ batch' = [t \in Tasks |-> NoBatch]
    /\ UNCHANGED <<row, lastId>>

Step(t) ==
    \/ SkipEmpty(t) \/ BumpEmpty(t) \/ KnownMessage(t) \/ NewMessage(t)
    \/ CheckCache(t) \/ KnownText(t) \/ NewText(t) \/ Bump(t)
    \/ Insert(t) \/ RaceLost(t) \/ Rejected(t) \/ Mark(t) \/ Summarize(t)

Next ==
    \/ \E t \in Tasks, b \in Batches : Submit(t, b)
    \/ \E t \in Tasks : Admit(t) \/ Step(t) \/ Fail(t)
    \/ \E x \in Texts : Evict(x)
    \/ Restart

Spec == Init /\ [][Next]_vars

-----------------------------------------------------------------------------
(* Nothing is left to do for the post: it is stored, or its text is, or    *)
(* there is nothing in it to store.                                        *)
Settled(b) ==
    \/ ~HasContent(b)
    \/ Duplicate(b)
    \/ HasText(b) /\ TextStored(TextOf(b))

(* Every variable has its type, and a slot in use has a post.              *)
TypeOK ==
    /\ row \in [Messages -> Hashes \cup {NoRow}]
    /\ lastId \in [Sources -> MsgIds \cup {0}]
    /\ seen \subseteq Texts
    /\ permits \in 0..Concurrency
    /\ waiting \in Seq(Tasks)
    /\ pc \in [Tasks -> Active \cup Ended \cup {"idle", "queued"}]
    /\ batch \in [Tasks -> Batches \cup {NoBatch}]
    /\ \A t \in Tasks : pc[t] # "idle" => batch[t] \in Batches

Holders == {t \in Tasks : pc[t] \in Active}

(* A permit is either free or held by exactly one running task, whichever  *)
(* way the tasks before it ended (the async with of _run_with_limit).      *)
PermitsConserved == permits + Cardinality(Holders) = Concurrency

(* The cache never claims a text the articles table does not have, so a    *)
(* cache hit can be trusted for the 30 days it lives: the mark follows the *)
(* commit, and no row is ever taken back.                                  *)
CacheIsTruthful == \A x \in seen : TextStored(x)

(* A task that returns, by whichever of its early returns, leaves its post *)
(* stored or known to be a repeat: no post is dropped in silence.          *)
DoneIsSettled == \A t \in Tasks : pc[t] = "done" => Settled(batch[t])

(* Two articles never carry the same content_hash, although the checks and *)
(* the insert are separate transactions of racing tasks.                   *)
ContentStoredOnce ==
    \A k, l \in Messages : k # l /\ row[k] # NoRow => row[k] # row[l]

(* last_message_id points at a message of a post that was dealt with, at   *)
(* every moment a crash may come: the transaction that moves it is the one *)
(* that stores the post or runs after the post was found.                  *)
WatermarkIsSettled ==
    \A s \in Sources : lastId[s] # 0 =>
        \E b \in Batches : b.source = s /\ lastId[s] \in b.ids /\ Settled(b)

(* A post refused by the unique constraint on content_hash repeats a text  *)
(* already stored (the key is meant to be the SHA-256 of the text).        *)
RejectedRepeatsText == \A t \in Tasks : pc[t] = "rejected" => HasText(batch[t])

(* The pipeline implements the ledger: every step of a worker, of the      *)
(* cache or of a crash is a step of DedupLedger or leaves both tables be.  *)
Ledger == INSTANCE DedupLedger WITH row <- row, lastId <- lastId
ImplementsLedger == Ledger!Spec

Busy(t) == pc[t] \notin Ended \cup {"idle"}
InFlight == {batch[t] : t \in {u \in Tasks : Busy(u)}}

(* What module Reader takes the pipeline for: the tables change only by    *)
(* ledger steps of a batch that was handed over and whose task has not     *)
(* ended, and a task that ends without a failure leaves behind a settled   *)
(* post or one whose hash is taken.                                        *)
AsReaderAssumes ==
    /\ <<row, lastId>>' # <<row, lastId>> =>
        \E b \in InFlight : Ledger!Store(b) \/ Ledger!Acknowledge(b)
    /\ \A t \in Tasks : Busy(t) /\ pc'[t] \in {"done", "rejected"} =>
        Settled(batch[t]) \/ TextStored(ContentHash(batch[t]))

ServesReader == [][AsReaderAssumes]_vars
=============================================================================
