------------------------------ MODULE Delivery ------------------------------
(***************************************************************************)
(* What happens to an article once it is stored: the ingest worker asks    *)
(* the language model for a summary (IngestPipeline._summarize), a job     *)
(* asks again for the articles that have none (retry_failed_summaries),    *)
(* and PublishLoop sends the summarised ones to the channel.  The three    *)
(* share the article rows and nothing else: each works from a list or an   *)
(* argument it read earlier, and each UPDATE is by id, whatever the status *)
(* has become.                                                             *)
(*                                                                         *)
(* Articles are numbered in the order of ingested_at.                      *)
(***************************************************************************)
EXTENDS Integers, FiniteSets

CONSTANTS
    Articles,        \* 1..n, in the order they are ingested
    MediaOnly,       \* articles whose original_text is empty
    PostedAt,        \* posted_at_source; 0 stands for NULL, which sorts first
    Importance,      \* the importance the model answers, not yet clamped
    Unanswerable,    \* texts the model never answers with a summary
    Unsendable,      \* articles Telegram never accepts
    MinImportance,   \* settings.min_publish_importance
    RetryLimit,      \* limit of list_failed_summaries: 50
    PublishLimit,    \* limit of list_pending_publish: 10
    MaxFaults        \* bound: failures of the environment in a behaviour

ASSUME DeliveryAssumption ==
    /\ IsFiniteSet(Articles)
    /\ Articles = 1..Cardinality(Articles)
    /\ MediaOnly \subseteq Articles
    /\ PostedAt \in [Articles -> Nat]
    /\ Importance \in [Articles -> Int]
    /\ Unanswerable \subseteq Articles
    /\ Unsendable \subseteq Articles
    /\ MinImportance \in 1..5
    /\ RetryLimit \in Nat \ {0}
    /\ PublishLimit \in Nat \ {0}
    /\ MaxFaults \in Nat

VARIABLES
    \* the database
    status,       \* articles.status, or "absent"
    importance,   \* articles.importance
    logged,       \* rows of publish_logs with status PUBLISHED
    \* the process
    cached,       \* articles whose summary the summariser's cache holds
    call,         \* stage of _summarize, by caller and article
    retryLeft,    \* what retry_failed_summaries has still to go through
    pub,          \* where PublishLoop is
    pubLeft,      \* what the tick has still to go through
    pubAt,        \* the article of the tick in hand, 0 if none
    \* observation
    sent,         \* copies of the article in the channel
    unrecorded,   \* copies whose publication the database never learned of
    reopened,     \* times the row left the status PUBLISHED
    faults        \* failures so far

retryVars == <<cached, call, retryLeft>>
pubVars   == <<pub, pubLeft, pubAt, sent, unrecorded, logged>>
vars == <<status, importance, logged, cached, call, retryLeft, pub, pubLeft, pubAt,
          sent, unrecorded, reopened, faults>>

Callers == {"worker", "retry"}

(* Stages of _summarize: about to look in the cache; waiting for the       *)
(* model; holding a result from the model, or from the cache; holding an   *)
(* exception.                                                              *)
Stages == {"none", "ask", "wait", "answered", "cached", "error"}

DefaultImportance == 3

-----------------------------------------------------------------------------
(* Faulty variants of the queries, used only for mutation testing.         *)

(* Everything that is not published yet.                                   *)
FailedSummariesUnpublished ==
    LET rows == {a \in Articles : status[a] \in {"ingested", "failed", "summarized"}}
    IN  {a \in rows : Cardinality({b \in rows : b < a}) < RetryLimit}

(* Only what was marked as failed: a crash during the call marks nothing.  *)
FailedSummariesMarked ==
    LET rows == {a \in Articles : status[a] = "failed"}
    IN  {a \in rows : Cardinality({b \in rows : b < a}) < RetryLimit}

(* What was published is published again.                                  *)
PendingPublishAgain ==
    LET rows == {a \in Articles :
            status[a] \in {"summarized", "published"} /\ importance[a] >= MinImportance}
    IN  {a \in rows : Cardinality({b \in rows : b < a}) < PublishLimit}

(* An answer off the scale counts as the lowest.                           *)
ClampToLowest(i) == IF i \in 1..5 THEN i ELSE 1

-----------------------------------------------------------------------------
(* The queries.                                                            *)

(* ORDER BY ingested_at LIMIT RetryLimit.                                  *)
FailedSummaries ==
    LET rows == {a \in Articles : status[a] \in {"ingested", "failed"}}
    IN  {a \in rows : Cardinality({b \in rows : b < a}) < RetryLimit}

(* ORDER BY posted_at_source NULLS FIRST, ingested_at.                     *)
Precedes(a, b) == PostedAt[a] < PostedAt[b] \/ (PostedAt[a] = PostedAt[b] /\ a < b)

PendingPublish ==
    LET rows == {a \in Articles : status[a] = "summarized" /\ importance[a] >= MinImportance}
    IN  {a \in rows : Cardinality({b \in rows : Precedes(b, a)}) < PublishLimit}

Clamp(i) == IF i < 1 THEN 1 ELSE IF i > 5 THEN 5 ELSE i

(* A payload is cached as it came from the model and is not clamped when   *)
(* it is read back.                                                        *)
ResultOf(stage, a) == IF stage = "answered" THEN Clamp(Importance[a]) ELSE Importance[a]

-----------------------------------------------------------------------------
Init ==
    /\ status = [a \in Articles |-> "absent"]
    /\ importance = [a \in Articles |-> DefaultImportance]
    /\ logged = [a \in Articles |-> 0]
    /\ cached = {}
    /\ call = [c \in Callers |-> [a \in Articles |-> "none"]]
    /\ retryLeft = {}
    /\ pub = "idle"
    /\ pubLeft = {}
    /\ pubAt = 0
    /\ sent = [a \in Articles |-> 0]
    /\ unrecorded = [a \in Articles |-> 0]
    /\ reopened = [a \in Articles |-> 0]
    /\ faults = 0

Fault == faults < MaxFaults /\ faults' = faults + 1

CallAt(c, a, stage) == call' = [call EXCEPT ![c][a] = stage]

(* UPDATE articles SET status = s WHERE id = a.                            *)
SetStatus(a, s) ==
    /\ status' = [status EXCEPT ![a] = s]
    /\ reopened' = [reopened EXCEPT ![a] = IF status[a] = "published" THEN @ + 1 ELSE @]

-----------------------------------------------------------------------------
(* Faulty variants of actions below, used only for mutation testing.       *)

(* No early return for a post without text.                                *)
RetryNextAnyway(a) ==
    /\ a \in retryLeft
    /\ \A b \in retryLeft : a <= b
    /\ \A b \in Articles : call["retry"][b] = "none"
    /\ retryLeft' = retryLeft \ {a}
    /\ CallAt("retry", a, "ask")
    /\ UNCHANGED <<status, importance, cached, pubVars, reopened, faults>>

(* The loop forgets which article it has sent.                             *)
TakeBlindly(a, point) ==
    /\ pub' = point
    /\ pubLeft' = pubLeft \ {a}
    /\ UNCHANGED <<status, importance, retryVars, logged, reopened, pubAt>>


(* result.success is not looked at.                                        *)
RecordFailureAsSuccess ==
    /\ pub = "complain"
    /\ SetStatus(pubAt, "published")
    /\ logged' = [logged EXCEPT ![pubAt] = @ + 1]
    /\ pub' = "batch"
    /\ pubAt' = 0
    /\ UNCHANGED <<importance, retryVars, pubLeft, sent, unrecorded, faults>>

(* Two transactions instead of one, and only the log commits.              *)
RecordPublishedHalf ==
    /\ pub = "record"
    /\ logged' = [logged EXCEPT ![pubAt] = @ + 1]
    /\ pub' = "batch"
    /\ pubAt' = 0
    /\ UNCHANGED <<status, importance, retryVars, pubLeft, sent, unrecorded, reopened, faults>>

-----------------------------------------------------------------------------
(* Summaries.                                                              *)

(* The worker that inserted the article goes on to _summarize, which       *)
(* returns at once when there is no text.                                  *)
Ingest(a) ==
    /\ status[a] = "absent"
    /\ \A b \in Articles : b < a => status[b] # "absent"
    /\ status' = [status EXCEPT ![a] = "ingested"]
    /\ CallAt("worker", a, IF a \in MediaOnly THEN "none" ELSE "ask")
    /\ UNCHANGED <<importance, cached, retryLeft, pubVars, reopened, faults>>

(* The scheduler starts the job; max_instances=1 keeps a second run away   *)
(* until the first has ended.                                              *)
RetryStart ==
    /\ retryLeft = {}
    /\ \A a \in Articles : call["retry"][a] = "none"
    /\ FailedSummaries # {}
    /\ retryLeft' = FailedSummaries
    /\ UNCHANGED <<status, importance, cached, call, pubVars, reopened, faults>>

(* The articles of the list are taken one after the other, without looking *)
(* at them again.                                                          *)
RetryNext(a) ==
    /\ a \in retryLeft
    /\ \A b \in retryLeft : a <= b
    /\ \A b \in Articles : call["retry"][b] = "none"
    /\ retryLeft' = retryLeft \ {a}
    /\ CallAt("retry", a, IF a \in MediaOnly THEN "none" ELSE "ask")
    /\ UNCHANGED <<status, importance, cached, pubVars, reopened, faults>>

LookUp(c, a) ==
    /\ call[c][a] = "ask"
    /\ CallAt(c, a, IF a \in cached THEN "cached" ELSE "wait")
    /\ UNCHANGED <<status, importance, cached, retryLeft, pubVars, reopened, faults>>

(* The model answers with a summary, which is cached.                      *)
Answer(c, a) ==
    /\ call[c][a] = "wait"
    /\ a \notin Unanswerable
    /\ cached' = cached \cup {a}
    /\ CallAt(c, a, "answered")
    /\ UNCHANGED <<status, importance, retryLeft, pubVars, reopened, faults>>

(* A timeout, an API error, an answer that is no JSON or has no summary.   *)
AnswerError(c, a) ==
    /\ call[c][a] = "wait"
    /\ IF a \in Unanswerable THEN UNCHANGED faults ELSE Fault
    /\ CallAt(c, a, "error")
    /\ UNCHANGED <<status, importance, cached, retryLeft, pubVars, reopened>>

(* update_summary.                                                         *)
StoreSummary(c, a) ==
    /\ call[c][a] \in {"answered", "cached"}
    /\ SetStatus(a, "summarized")
    /\ importance' = [importance EXCEPT ![a] = ResultOf(call[c][a], a)]
    /\ CallAt(c, a, "none")
    /\ UNCHANGED <<cached, retryLeft, pubVars, faults>>

(* mark_failed.                                                            *)
MarkFailed(c, a) ==
    /\ call[c][a] = "error"
    /\ SetStatus(a, "failed")
    /\ CallAt(c, a, "none")
    /\ UNCHANGED <<importance, cached, retryLeft, pubVars, faults>>

(* The transaction raises.  The worker's exception is logged; that of the  *)
(* retry job ends the run.                                                 *)
SummaryLost(c, a) ==
    /\ call[c][a] \in {"answered", "cached", "error"}
    /\ Fault
    /\ CallAt(c, a, "none")
    /\ retryLeft' = IF c = "retry" THEN {} ELSE retryLeft
    /\ UNCHANGED <<status, importance, cached, pubVars, reopened>>

(* A cached summary expires after two weeks or is evicted before.          *)
Forget(a) ==
    /\ a \in cached
    /\ cached' = cached \ {a}
    /\ UNCHANGED <<status, importance, call, retryLeft, pubVars, reopened, faults>>

-----------------------------------------------------------------------------
(* PublishLoop.                                                            *)

TickStart ==
    /\ pub = "idle"
    /\ PendingPublish # {}
    /\ pub' = "batch"
    /\ pubLeft' = PendingPublish
    /\ UNCHANGED <<status, importance, retryVars, pubAt, sent, unrecorded, logged, reopened,
                   faults>>

Upcoming(a) ==
    /\ pub = "batch"
    /\ a \in pubLeft
    /\ \A b \in pubLeft \ {a} : Precedes(a, b)

Take(a, point) ==
    /\ pub' = point
    /\ pubAt' = a
    /\ pubLeft' = pubLeft \ {a}
    /\ UNCHANGED <<status, importance, retryVars, logged, reopened>>

(* One call of the Bot API posts the text, the photo or the album.         *)
Posted(a) == sent' = [sent EXCEPT ![a] = @ + 1]

(* Telegram accepts the article: at once, or on the one repetition after a *)
(* TelegramRetryAfter, which accepted nothing.                             *)
Send(a) ==
    /\ Upcoming(a)
    /\ a \notin Unsendable
    /\ Posted(a)
    /\ Take(a, "record")
    /\ UNCHANGED <<unrecorded, faults>>

(* Telegram posts the article and the answer is lost: the publisher        *)
(* reports an error or raises.                                             *)
SendUnconfirmed(a) ==
    /\ Upcoming(a)
    /\ a \notin Unsendable
    /\ Fault
    /\ Posted(a)
    /\ unrecorded' = [unrecorded EXCEPT ![a] = @ + 1]
    /\ Take(a, "complain")

SendRejected(a) ==
    /\ Upcoming(a)
    /\ IF a \in Unsendable THEN UNCHANGED faults ELSE Fault
    /\ Take(a, "complain")
    /\ UNCHANGED <<sent, unrecorded>>

Log(a) == logged' = [logged EXCEPT ![a] = @ + 1]

(* mark_published and the PUBLISHED row of publish_logs are one            *)
(* transaction; nothing looks at the status first.                         *)
RecordPublished ==
    /\ pub = "record"
    /\ SetStatus(pubAt, "published")
    /\ Log(pubAt)
    /\ pub' = "batch"
    /\ pubAt' = 0
    /\ UNCHANGED <<importance, retryVars, pubLeft, sent, unrecorded, faults>>

(* A FAILED row of publish_logs; the article stays as it is and will be    *)
(* listed again.                                                           *)
RecordFailure ==
    /\ pub = "complain"
    /\ pub' = "batch"
    /\ pubAt' = 0
    /\ UNCHANGED <<status, importance, retryVars, pubLeft, sent, unrecorded, logged, reopened,
                   faults>>

(* What the database has not been told of a delivered copy is forgotten.   *)
Lose == unrecorded' =
    IF pub = "record" THEN [unrecorded EXCEPT ![pubAt] = @ + 1] ELSE unrecorded

(* A transaction of the tick raises: run logs it and starts over.          *)
TickAborted ==
    /\ pub \in {"record", "complain"} \/ pubLeft # {}
    /\ Fault
    /\ Lose
    /\ pub' = "idle"
    /\ pubLeft' = {}
    /\ pubAt' = 0
    /\ UNCHANGED <<status, importance, retryVars, sent, logged, reopened>>

TickEnd ==
    /\ pub = "batch"
    /\ pubLeft = {}
    /\ pub' = "idle"
    /\ UNCHANGED <<status, importance, retryVars, pubLeft, pubAt, sent, unrecorded, logged,
                   reopened, faults>>

-----------------------------------------------------------------------------
(* The process stops, in order or not, and starts again.                   *)
Crash ==
    /\ Fault
    /\ Lose
    /\ cached' = {}
    /\ call' = [c \in Callers |-> [a \in Articles |-> "none"]]
    /\ retryLeft' = {}
    /\ pub' = "idle"
    /\ pubLeft' = {}
    /\ pubAt' = 0
    /\ UNCHANGED <<status, importance, sent, logged, reopened>>

Summarizing(c, a) ==
    LookUp(c, a) \/ Answer(c, a) \/ AnswerError(c, a) \/ StoreSummary(c, a)
        \/ MarkFailed(c, a) \/ SummaryLost(c, a)

RetryJob ==
    \/ RetryStart
    \/ \E a \in Articles : RetryNext(a) \/ Summarizing("retry", a)

Publishing ==
    \/ TickStart \/ RecordPublished \/ RecordFailure \/ TickAborted \/ TickEnd
    \/ \E a \in Articles : Send(a) \/ SendUnconfirmed(a) \/ SendRejected(a)

Next ==
    \/ \E a \in Articles : Ingest(a) \/ Summarizing("worker", a) \/ Forget(a)
    \/ RetryJob
    \/ Publishing
    \/ Crash

Spec == Init /\ [][Next]_vars

(* Workers, job and loop each go on while they can: the calls they wait    *)
(* for have timeouts, and the scheduler starts the job every ten minutes.  *)
(* Failures are bounded by MaxFaults, so they come to an end.              *)
FairSpec ==
    /\ Spec
    /\ \A a \in Articles : WF_vars(Summarizing("worker", a))
    /\ WF_vars(RetryJob)
    /\ WF_vars(Publishing)

-----------------------------------------------------------------------------
(* Every variable has its type.                                            *)
TypeOK ==
    /\ status \in [Articles -> {"absent", "ingested", "summarized", "published", "failed"}]
    /\ importance \in [Articles -> Int]
    /\ logged \in [Articles -> Nat]
    /\ cached \subseteq Articles
    /\ call \in [Callers -> [Articles -> Stages]]
    /\ retryLeft \subseteq Articles
    /\ pub \in {"idle", "batch", "record", "complain"}
    /\ pubLeft \subseteq Articles
    /\ pubAt \in Articles \cup {0}
    /\ pub \in {"record", "complain"} => pubAt \in Articles
    /\ sent \in [Articles -> Nat]
    /\ unrecorded \in [Articles -> Nat]
    /\ reopened \in [Articles -> Nat]
    /\ faults \in 0..MaxFaults

One(p) == IF p THEN 1 ELSE 0

(* Every copy of an article in the channel is accounted for: publish_logs  *)
(* has it, or the loop is about to record it, or its record was lost to a  *)
(* failure the database could not see.                                     *)
CopiesAreExplained ==
    \A a \in Articles :
        sent[a] = logged[a] + unrecorded[a] + One(pub = "record" /\ pubAt = a)

(* publish_logs tells the truth about the status: one PUBLISHED row for    *)
(* each time the article was published, of which all but the last were     *)
(* followed by a summary that reopened the article.                        *)
LogMatchesStatus ==
    \A a \in Articles : logged[a] = reopened[a] + One(status[a] = "published")

(* The race of the worker with the retry job can take an article back from *)
(* PUBLISHED, but not more than once in the article's life, however often  *)
(* the job runs: the job lists only what is not summarised, and the worker *)
(* calls once.                                                             *)
ReopenedAtMostOnce == \A a \in Articles : reopened[a] <= 1

(* How often an article may be posted: twice, for the one time it can be   *)
(* reopened, and once more for each failure.  The lists of the job and of  *)
(* the loop, however stale, add nothing to that.                           *)
CopiesBounded == \A a \in Articles : sent[a] <= 2 + faults

(* A post without text is never offered to the channel and costs the model *)
(* no call.                                                                *)
MediaOnlyIsLeftAlone ==
    \A a \in MediaOnly :
        /\ status[a] \in {"absent", "ingested"}
        /\ \A c \in Callers : call[c][a] = "none"
        /\ sent[a] = 0

(* An article with a text is summarised in the end, if the model answers   *)
(* for it: by its worker or, after failures and crashes, by the job.       *)
TextIsSummarized ==
    \A a \in Articles \ (MediaOnly \cup Unanswerable) :
        status[a] \in {"ingested", "failed"} ~> status[a] \in {"summarized", "published"}


(* The same answer of the model decides alike whether the article is       *)
(* published, clamped to the scale or read back from the cache as it came. *)
(* A threshold of 1 would tell an answer of 0 from its clamped value.      *)
PathsDecideAlike ==
    MinImportance > 1 =>
        \A a \in Articles :
            status[a] \in {"summarized", "published"} =>
                (importance[a] >= MinImportance <=> Clamp(Importance[a]) >= MinImportance)

(* What is seen of an article from outside is its life: the callers, the   *)
(* lists, the tick, the cache and the crashes never offer it unsummarised, *)
(* never send it while it is published, publish no copy that was not sent, *)
(* and log it together with its status.                                    *)
Life == INSTANCE ArticleLife WITH offered <- pubLeft \cup ({pubAt} \ {0})
ImplementsArticleLife == Life!Spec
=============================================================================
