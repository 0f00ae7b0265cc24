--------------------------- MODULE DeliveryProofs ---------------------------
(***************************************************************************)
(* The safety invariants of Delivery, for any articles, limits, answers    *)
(* and number of failures.                                                 *)
(*                                                                         *)
(* Two strengthenings carry the proof.  TickInv: what the publish loop     *)
(* still has in hand is not published, because only the loop publishes and *)
(* a list has no article twice.  CallInv: an article that has been         *)
(* summarised has at most one more write of a summary coming, and none     *)
(* once it was reopened, because the retry job lists only what has no      *)
(* summary and a worker calls once.                                        *)
(***************************************************************************)
EXTENDS Delivery, FiniteSetTheorems, TLAPS

Pending(c, a) == call[c][a] # "none" \/ (c = "retry" /\ a \in retryLeft)

TickInv ==
    /\ pub \in {"idle", "batch"} => pubAt = 0
    /\ pub = "idle" => pubLeft = {}
    /\ \A a \in pubLeft : status[a] \in {"summarized", "failed"} /\ a # pubAt
    /\ pub \in {"record", "complain"} => status[pubAt] \in {"summarized", "failed"}

InHand(a) == a \in pubLeft \/ a = pubAt

OneWriteLeft(a) ==
    /\ call["retry"][a] # "none" => a \notin retryLeft
    /\ status[a] = "absent" =>
         reopened[a] = 0 /\ ~Pending("worker", a) /\ ~Pending("retry", a)
    /\ status[a] \in {"ingested", "failed"} =>
         reopened[a] + One(Pending("worker", a)) <= 1
    /\ status[a] = "failed" /\ InHand(a) =>
         reopened[a] = 0 /\ ~Pending("worker", a)
    /\ status[a] \in {"summarized", "published"} =>
         reopened[a] + One(Pending("worker", a)) + One(Pending("retry", a)) <= 1

CallInv == \A a \in Articles : OneWriteLeft(a)

MediaInv ==
    /\ MediaOnlyIsLeftAlone
    /\ \A a \in MediaOnly : a \notin pubLeft /\ a # pubAt

(* Each lost record is the work of a failure of its own.                   *)
LossInv == \A a \in Articles : unrecorded[a] <= faults

IInv ==
    TypeOK /\ TickInv /\ CallInv /\ MediaInv /\ CopiesAreExplained /\ LogMatchesStatus
        /\ LossInv

-----------------------------------------------------------------------------
LEMMA ZeroIsNoArticle == 0 \notin Articles
<1>1. Cardinality(Articles) \in Nat
    BY DeliveryAssumption, FS_CardinalityType
<1>2. QED
    BY <1>1, DeliveryAssumption

LEMMA InitInv == Init => IInv
<1> SUFFICES ASSUME Init PROVE IInv
    OBVIOUS
<1>1. TypeOK
    BY DeliveryAssumption DEF Init, TypeOK, DefaultImportance, Stages
<1>2. TickInv /\ CallInv
    BY DEF Init, TickInv, CallInv, OneWriteLeft, Pending, Callers, One
<1>3. MediaInv
    BY DeliveryAssumption, ZeroIsNoArticle DEF Init, MediaInv, MediaOnlyIsLeftAlone
<1>4. CopiesAreExplained /\ LogMatchesStatus /\ LossInv
    BY DEF Init, CopiesAreExplained, LogMatchesStatus, LossInv, One
<1>5. QED
    BY <1>1, <1>2, <1>3, <1>4 DEF IInv

LEMMA TypeStep == TypeOK /\ [Next]_vars => TypeOK'
<1> SUFFICES ASSUME TypeOK, [Next]_vars PROVE TypeOK'
    OBVIOUS
<1> USE DEF TypeOK
<1>1. ASSUME NEW a \in Articles, NEW c \in Callers, NEW s \in Stages, CallAt(c, a, s)
      PROVE  call' \in [Callers -> [Articles -> Stages]]
    BY <1>1 DEF CallAt
<1>2. ASSUME Fault PROVE faults' \in 0..MaxFaults
    BY <1>2, DeliveryAssumption DEF Fault
<1>3. ASSUME NEW a \in Articles, NEW s \in {"summarized", "published", "failed"}, SetStatus(a, s)
      PROVE  /\ status' \in [Articles -> {"absent", "ingested", "summarized", "published", "failed"}]
             /\ reopened' \in [Articles -> Nat]
    BY <1>3 DEF SetStatus
<1>4. ASSUME NEW a \in Articles, Ingest(a)
      PROVE  TypeOK'
    BY <1>1, <1>4 DEF Ingest, pubVars, Callers, Stages
<1>5. CASE RetryStart
    BY <1>5 DEF RetryStart, FailedSummaries, pubVars
<1>6. ASSUME NEW a \in Articles, RetryNext(a)
      PROVE  TypeOK'
    BY <1>1, <1>6 DEF RetryNext, pubVars, Callers, Stages
<1>7. ASSUME NEW a \in Articles, NEW c \in Callers, Summarizing(c, a)
      PROVE  TypeOK'
    <2>1. CASE LookUp(c, a)
        BY <1>1, <2>1 DEF LookUp, pubVars, Stages
    <2>2. CASE Answer(c, a)
        BY <1>1, <2>2 DEF Answer, pubVars, Stages
    <2>3. CASE AnswerError(c, a)
        BY <1>1, <1>2, <2>3 DEF AnswerError, pubVars, Stages
    <2>4. CASE StoreSummary(c, a)
        <3>1. ResultOf(call[c][a], a) \in Int
            BY DeliveryAssumption DEF ResultOf, Clamp
        <3>2. QED
            BY <1>1, <1>3, <2>4, <3>1 DEF StoreSummary, pubVars, Stages
    <2>5. CASE MarkFailed(c, a)
        BY <1>1, <1>3, <2>5 DEF MarkFailed, pubVars, Stages
    <2>6. CASE SummaryLost(c, a)
        BY <1>1, <1>2, <2>6 DEF SummaryLost, pubVars, Stages
    <2>7. QED
        BY <1>7, <2>1, <2>2, <2>3, <2>4, <2>5, <2>6 DEF Summarizing
<1>8. ASSUME NEW a \in Articles, Forget(a)
      PROVE  TypeOK'
    BY <1>8 DEF Forget, pubVars
<1>9. CASE TickStart
    BY <1>9 DEF TickStart, PendingPublish, retryVars
<1>10. ASSUME NEW a \in Articles, Send(a) \/ SendUnconfirmed(a) \/ SendRejected(a)
       PROVE  TypeOK'
    BY <1>2, <1>10 DEF Send, SendUnconfirmed, Posted, SendRejected, Take, retryVars
<1>11. CASE RecordPublished
    BY <1>3, <1>11 DEF RecordPublished, Log, retryVars
<1>12. CASE RecordFailure \/ TickEnd
    BY <1>12 DEF RecordFailure, TickEnd, retryVars
<1>13. CASE TickAborted
    BY <1>2, <1>13 DEF TickAborted, Lose, retryVars
<1>14. CASE Crash
    BY <1>2, <1>14 DEF Crash, Lose, Stages
<1>15. CASE UNCHANGED vars
    BY <1>15 DEF vars
<1>16. QED
    BY <1>4, <1>5, <1>6, <1>7, <1>8, <1>9, <1>10, <1>11, <1>12, <1>13, <1>14, <1>15
    DEF Next, RetryJob, Publishing, Callers

-----------------------------------------------------------------------------
(* Outside of the publish loop, the status of a row changes by Ingest or   *)
(* by a caller that holds an answer, and to nothing but these.             *)
LEMMA SummaryShape ==
    ASSUME NEW a \in Articles, NEW c \in Callers, Summarizing(c, a)
    PROVE  /\ UNCHANGED pubVars
           /\ \E s \in Stages : CallAt(c, a, s)
           /\ call[c][a] # "none"
           /\ \/ UNCHANGED <<status, reopened>>
              \/ SetStatus(a, "summarized") /\ CallAt(c, a, "none")
              \/ SetStatus(a, "failed") /\ CallAt(c, a, "none")
           /\ retryLeft' = retryLeft \/ (c = "retry" /\ retryLeft' = {})
    BY DEF Summarizing, LookUp, Answer, AnswerError, StoreSummary, MarkFailed, SummaryLost, Stages

LEMMA TickStep == IInv /\ [Next]_vars => TickInv'
<1> SUFFICES ASSUME IInv, [Next]_vars PROVE TickInv'
    OBVIOUS
<1> USE DEF IInv, TypeOK, TickInv
<1>1. ASSUME NEW a \in Articles, Ingest(a)
      PROVE  TickInv'
    <2>1. pub' = pub /\ pubLeft' = pubLeft /\ pubAt' = pubAt
        BY <1>1 DEF Ingest, pubVars
    <2>2. status[a] = "absent" /\ status' = [status EXCEPT ![a] = "ingested"]
        BY <1>1 DEF Ingest
    <2>3. QED
        BY <2>1, <2>2
<1>2. ASSUME NEW a \in Articles, NEW c \in Callers, Summarizing(c, a)
      PROVE  TickInv'
    <2>1. pub' = pub /\ pubLeft' = pubLeft /\ pubAt' = pubAt
        BY <1>2, SummaryShape DEF pubVars
    <2>2. \/ status' = status
          \/ status' = [status EXCEPT ![a] = "summarized"]
          \/ status' = [status EXCEPT ![a] = "failed"]
        BY <1>2, SummaryShape DEF SetStatus
    <2>3. QED
        BY <2>1, <2>2
<1>3. CASE TickStart
    <2>1. \A a \in PendingPublish : a \in Articles /\ status[a] = "summarized"
        BY DEF PendingPublish
    <2>2. \A a \in PendingPublish : a # 0
        BY <2>1, ZeroIsNoArticle
    <2>3. QED
        BY <1>3, <2>1, <2>2 DEF TickStart
<1>4. ASSUME NEW a \in Articles, Send(a) \/ SendUnconfirmed(a) \/ SendRejected(a)
      PROVE  TickInv'
    <2>1. /\ a \in pubLeft
          /\ pub' \in {"record", "complain"} /\ pubAt' = a /\ pubLeft' = pubLeft \ {a}
          /\ status' = status
        BY <1>4 DEF Send, SendUnconfirmed, Posted, SendRejected, Take, Upcoming
    <2>2. QED
        BY <2>1
<1>5. CASE RecordPublished
    <2>1. /\ status' = [status EXCEPT ![pubAt] = "published"]
          /\ pub' = "batch" /\ pubAt' = 0 /\ pubLeft' = pubLeft
        BY <1>5 DEF RecordPublished, Log, SetStatus
    <2>2. QED
        BY <2>1, ZeroIsNoArticle
<1>6. CASE RecordFailure \/ TickEnd \/ TickAborted \/ Crash
    <2>1. /\ status' = status
          /\ pub' \in {"batch", "idle"} /\ pubAt' = 0
          /\ pubLeft' \subseteq pubLeft
          /\ pub' = "idle" => pubLeft' = {}
        BY <1>6 DEF RecordFailure, TickEnd, TickAborted, Crash
    <2>2. QED
        BY <2>1, ZeroIsNoArticle
<1>7. CASE UNCHANGED <<status, pub, pubLeft, pubAt>>
    BY <1>7
<1>8. QED
    BY <1>1, <1>2, <1>3, <1>4, <1>5, <1>6, <1>7
    DEF Next, RetryJob, Publishing, Callers, RetryStart, RetryNext, Forget, pubVars, vars

LEMMA MediaStep == IInv /\ [Next]_vars => MediaInv'
<1> SUFFICES ASSUME IInv, [Next]_vars PROVE MediaInv'
    OBVIOUS
<1> USE DEF IInv, TypeOK, MediaInv, MediaOnlyIsLeftAlone
<1>0. MediaOnly \subseteq Articles
    BY DeliveryAssumption
<1>1. ASSUME NEW a \in Articles, Ingest(a)
      PROVE  MediaInv'
    BY <1>0, <1>1 DEF Ingest, pubVars, CallAt
<1>2. ASSUME NEW a \in Articles, RetryNext(a)
      PROVE  MediaInv'
    BY <1>0, <1>2 DEF RetryNext, pubVars, CallAt
<1>3. ASSUME NEW a \in Articles, NEW c \in Callers, Summarizing(c, a)
      PROVE  MediaInv'
    <2>1. /\ a \notin MediaOnly
          /\ UNCHANGED <<pub, pubLeft, pubAt, sent>>
        BY <1>3, SummaryShape DEF pubVars
    <2>2. \A b \in MediaOnly : status'[b] = status[b]
        BY <1>0, <1>3, <2>1, SummaryShape DEF SetStatus
    <2>3. \A b \in MediaOnly, d \in Callers : call'[d][b] = call[d][b]
        BY <1>0, <1>3, <2>1, SummaryShape DEF CallAt
    <2>4. QED
        BY <2>1, <2>2, <2>3
<1>4. CASE TickStart
    BY <1>0, <1>4 DEF TickStart, PendingPublish, retryVars
<1>5. ASSUME NEW a \in Articles, Send(a) \/ SendUnconfirmed(a) \/ SendRejected(a)
      PROVE  MediaInv'
    BY <1>0, <1>5 DEF Send, SendUnconfirmed, Posted, SendRejected, Take, Upcoming, retryVars
<1>6. CASE RecordPublished
    <2>1. pubAt \in Articles /\ pubAt \notin MediaOnly
        BY <1>6 DEF RecordPublished, Log
    <2>2. /\ status' = [status EXCEPT ![pubAt] = "published"]
          /\ pubLeft' = pubLeft /\ pubAt' = 0 /\ sent' = sent /\ call' = call
        BY <1>6 DEF RecordPublished, Log, SetStatus, retryVars
    <2>3. QED
        BY <1>0, <2>1, <2>2, ZeroIsNoArticle
<1>7. CASE RecordFailure \/ TickEnd \/ TickAborted \/ Crash
    <2>1. /\ UNCHANGED <<status, sent>>
          /\ pubLeft' \subseteq pubLeft /\ (pubAt' = 0 \/ pubAt' = pubAt)
          /\ call' = call \/ call' = [c \in Callers |-> [a \in Articles |-> "none"]]
        BY <1>7 DEF RecordFailure, TickEnd, TickAborted, Crash, retryVars
    <2>2. QED
        BY <1>0, <2>1, ZeroIsNoArticle
<1>8. CASE UNCHANGED <<status, call, pubLeft, pubAt, sent>>
    BY <1>8
<1>9. QED
    BY <1>1, <1>2, <1>3, <1>4, <1>5, <1>6, <1>7, <1>8
    DEF Next, RetryJob, Publishing, Callers, RetryStart, Forget, pubVars, vars

-----------------------------------------------------------------------------
LEMMA CopiesStep == IInv /\ [Next]_vars => CopiesAreExplained'
<1> SUFFICES ASSUME IInv, [Next]_vars PROVE CopiesAreExplained'
    OBVIOUS
<1> USE DEF IInv, TypeOK, TickInv, CopiesAreExplained, One
<1>1. ASSUME NEW a \in Articles, Send(a) \/ SendUnconfirmed(a) \/ SendRejected(a)
      PROVE  CopiesAreExplained'
    <2>1. /\ pub = "batch"
          /\ pubAt' = a
          /\ logged' = logged
        BY <1>1 DEF Send, SendUnconfirmed, Posted, SendRejected, Take, Upcoming
    <2>2. \A b \in Articles : sent[b] = logged[b] + unrecorded[b]
        BY <2>1
    <2>3. CASE Send(a)
        BY <2>1, <2>2, <2>3 DEF Send, Posted, Take
    <2>4. CASE SendUnconfirmed(a)
        BY <2>1, <2>2, <2>4 DEF SendUnconfirmed, Posted, Take
    <2>5. CASE SendRejected(a)
        BY <2>1, <2>2, <2>5 DEF SendRejected, Take
    <2>6. QED
        BY <1>1, <2>3, <2>4, <2>5
<1>2. CASE RecordPublished
    <2>1. /\ pub = "record" /\ pub' = "batch"
          /\ sent' = sent /\ unrecorded' = unrecorded
          /\ logged' = [logged EXCEPT ![pubAt] = @ + 1]
        BY <1>2 DEF RecordPublished, Log
    <2>2. QED
        BY <2>1
<1>3. CASE TickAborted \/ Crash
    <2>1. /\ pub' = "idle"
          /\ sent' = sent /\ logged' = logged
          /\ Lose
        BY <1>3 DEF TickAborted, Crash
    <2>2. QED
        BY <2>1 DEF Lose
<1>4. CASE TickStart \/ TickEnd \/ RecordFailure
    <2>1. /\ pub # "record" /\ pub' # "record"
          /\ UNCHANGED <<sent, logged, unrecorded>>
        BY <1>4 DEF TickStart, TickEnd, RecordFailure
    <2>2. QED
        BY <2>1
<1>5. CASE UNCHANGED <<pub, pubAt, sent, unrecorded, logged>>
    BY <1>5
<1>6. QED
    BY <1>1, <1>2, <1>3, <1>4, <1>5, SummaryShape
    DEF Next, RetryJob, Publishing, Callers, Ingest, RetryStart, RetryNext, Forget, pubVars, vars

LEMMA LossStep == TypeOK /\ LossInv /\ [Next]_vars => LossInv'
<1> SUFFICES ASSUME TypeOK, LossInv, [Next]_vars PROVE LossInv'
    OBVIOUS
<1> USE DEF TypeOK, LossInv
<1>1. ASSUME NEW a \in Articles, Send(a) \/ SendUnconfirmed(a) \/ SendRejected(a)
      PROVE  LossInv'
    <2>1. CASE SendUnconfirmed(a)
        BY <2>1 DEF SendUnconfirmed, Fault
    <2>2. CASE Send(a) \/ SendRejected(a)
        BY <2>2 DEF Send, SendRejected, Fault
    <2>3. QED
        BY <1>1, <2>1, <2>2
<1>2. CASE TickAborted \/ Crash
    <2>1. Fault /\ Lose
        BY <1>2 DEF TickAborted, Crash
    <2>2. QED
        BY <2>1 DEF Fault, Lose
<1>3. ASSUME NEW a \in Articles, NEW c \in Callers, Summarizing(c, a)
      PROVE  LossInv'
    <2>1. unrecorded' = unrecorded
        BY <1>3, SummaryShape DEF pubVars
    <2>2. faults' = faults \/ faults' = faults + 1
        BY <1>3 DEF Summarizing, LookUp, Answer, AnswerError, StoreSummary, MarkFailed,
                    SummaryLost, Fault
    <2>3. QED
        BY <2>1, <2>2
<1>4. CASE UNCHANGED <<unrecorded, faults>>
    BY <1>4
<1>5. QED
    BY <1>1, <1>2, <1>3, <1>4
    DEF Next, RetryJob, Publishing, Callers, Ingest, RetryStart, RetryNext, Forget, TickStart,
        RecordPublished, RecordFailure, TickEnd, pubVars, vars

LEMMA LogStep == IInv /\ [Next]_vars => LogMatchesStatus'
<1> SUFFICES ASSUME IInv, [Next]_vars PROVE LogMatchesStatus'
    OBVIOUS
<1> USE DEF IInv, TypeOK, LogMatchesStatus, One
<1>1. ASSUME NEW a \in Articles, NEW c \in Callers, Summarizing(c, a)
      PROVE  LogMatchesStatus'
    <2>1. logged' = logged
        BY <1>1, SummaryShape DEF pubVars
    <2>2. CASE UNCHANGED <<status, reopened>>
        BY <2>1, <2>2
    <2>3. CASE SetStatus(a, "summarized") \/ SetStatus(a, "failed")
        BY <2>1, <2>3 DEF SetStatus
    <2>4. QED
        BY <1>1, <2>2, <2>3, SummaryShape
<1>2. ASSUME NEW a \in Articles, Ingest(a)
      PROVE  LogMatchesStatus'
    BY <1>2 DEF Ingest, pubVars
<1>3. CASE RecordPublished
    <2>1. status[pubAt] # "published" /\ pubAt \in Articles
        BY <1>3 DEF RecordPublished, Log, TickInv
    <2>2. /\ status' = [status EXCEPT ![pubAt] = "published"]
          /\ reopened' = reopened
          /\ logged' = [logged EXCEPT ![pubAt] = @ + 1]
        BY <1>3, <2>1 DEF RecordPublished, Log, SetStatus
    <2>3. QED
        BY <2>1, <2>2
<1>4. CASE UNCHANGED <<status, reopened, logged>>
    BY <1>4
<1>5. QED
    BY <1>1, <1>2, <1>3, <1>4
    DEF Next, RetryJob, Publishing, Callers, RetryStart, RetryNext, Forget, TickStart, Send,
        Posted, SendUnconfirmed, SendRejected, Take, RecordFailure, TickAborted, TickEnd, Crash,
        pubVars, vars

(* What a step does to one article, when it adds no caller to it.          *)
LEMMA NoNewCaller ==
    ASSUME TypeOK, NEW b \in Articles, OneWriteLeft(b),
           status'[b] = status[b], reopened'[b] = reopened[b],
           InHand(b)' => InHand(b),
           call'["retry"][b] # "none" => b \notin retryLeft',
           \A c \in Callers : Pending(c, b)' => Pending(c, b)
    PROVE  OneWriteLeft(b)'
<1>1. reopened[b] \in Nat /\ "worker" \in Callers /\ "retry" \in Callers
    BY DEF TypeOK, Callers
<1>2. QED
    BY <1>1 DEF OneWriteLeft, One

LEMMA CallStep == IInv /\ [Next]_vars => CallInv'
<1> SUFFICES ASSUME IInv, [Next]_vars, NEW b \in Articles
             PROVE  OneWriteLeft(b)'
    BY DEF CallInv
<1> USE DEF IInv
<1>0. /\ OneWriteLeft(b)
      /\ reopened[b] \in Nat
      /\ "worker" \in Callers /\ "retry" \in Callers
      /\ b # 0
    BY ZeroIsNoArticle DEF CallInv, TypeOK, Callers
<1>1. ASSUME NEW a \in Articles, Ingest(a)
      PROVE  OneWriteLeft(b)'
    <2>1. /\ status' = [status EXCEPT ![a] = "ingested"]
          /\ UNCHANGED <<retryLeft, pubLeft, pubAt, reopened>>
          /\ \E s \in Stages : call' = [call EXCEPT !["worker"][a] = s]
          /\ status[a] = "absent"
        BY <1>1 DEF Ingest, pubVars, CallAt, Stages
    <2>2. CASE a = b
        BY <1>0, <2>1, <2>2 DEF OneWriteLeft, TypeOK, Pending, One
    <2>3. CASE a # b
        BY <1>0, <2>1, <2>3, NoNewCaller DEF OneWriteLeft, TypeOK, Pending, InHand, Callers
    <2>4. QED
        BY <2>2, <2>3
<1>2. CASE RetryStart
    <2>1. /\ retryLeft' = FailedSummaries
          /\ UNCHANGED <<status, reopened, call, pubLeft, pubAt>>
          /\ call["retry"][b] = "none"
        BY <1>2 DEF RetryStart, pubVars
    <2>2. b \in FailedSummaries => status[b] \in {"ingested", "failed"}
        BY DEF FailedSummaries
    <2>3. CASE b \in FailedSummaries
        BY <1>0, <2>1, <2>2, <2>3 DEF OneWriteLeft, Pending, InHand, One
    <2>4. CASE b \notin FailedSummaries
        BY <1>0, <2>1, <2>4, NoNewCaller DEF Pending, InHand
    <2>5. QED
        BY <2>3, <2>4
<1>3. ASSUME NEW a \in Articles, RetryNext(a)
      PROVE  OneWriteLeft(b)'
    <2>1. /\ a \in retryLeft /\ retryLeft' = retryLeft \ {a}
          /\ UNCHANGED <<status, reopened, pubLeft, pubAt>>
          /\ \E s \in Stages : call' = [call EXCEPT !["retry"][a] = s]
          /\ call["retry"][b] = "none"
        BY <1>3 DEF RetryNext, pubVars, CallAt, Stages
    <2>2. \A c \in Callers : Pending(c, b)' => Pending(c, b)
        BY <2>1 DEF Pending, TypeOK, Callers
    <2>3. call'["retry"][b] # "none" => b \notin retryLeft'
        BY <1>0, <2>1 DEF TypeOK
    <2>4. QED
        BY <1>0, <2>1, <2>2, <2>3, NoNewCaller DEF InHand
<1>4. ASSUME NEW a \in Articles, NEW c \in Callers, Summarizing(c, a)
      PROVE  OneWriteLeft(b)'
    <2>1. /\ UNCHANGED <<pubLeft, pubAt>>
          /\ \E s \in Stages : call' = [call EXCEPT ![c][a] = s]
          /\ call[c][a] # "none"
          /\ retryLeft' \subseteq retryLeft
        BY <1>4, SummaryShape DEF pubVars, CallAt
    <2>2. \A d \in Callers : Pending(d, b)' => Pending(d, b)
        BY <2>1 DEF Pending, TypeOK, Callers
    <2>3. call'["retry"][b] # "none" => b \notin retryLeft'
        BY <1>0, <2>1 DEF OneWriteLeft, TypeOK, Callers
    <2>4. CASE UNCHANGED <<status, reopened>> \/ a # b
        <3>1. status'[b] = status[b] /\ reopened'[b] = reopened[b]
            BY <1>4, <2>4, SummaryShape DEF SetStatus, TypeOK
        <3>2. QED
            BY <1>0, <2>1, <2>2, <2>3, <3>1, NoNewCaller DEF InHand
    <2>5. CASE a = b /\ (SetStatus(a, "summarized") \/ SetStatus(a, "failed"))
                     /\ CallAt(c, a, "none")
        <3>1. /\ status[b] # "absent"
              /\ status'[b] \in {"summarized", "failed"}
              /\ reopened'[b] = IF status[b] = "published" THEN reopened[b] + 1 ELSE reopened[b]
            BY <1>0, <2>1, <2>5 DEF SetStatus, TypeOK, OneWriteLeft, Pending, Callers
        <3>2. Pending(c, b) /\ ~Pending(c, b)'
            BY <1>0, <2>1, <2>5 DEF Pending, CallAt, TypeOK, OneWriteLeft, Callers
        <3>3. InHand(b) => status[b] \in {"summarized", "failed"}
            BY <1>0 DEF InHand, TickInv, TypeOK
        <3>4. InHand(b)' = InHand(b)
            BY <2>1 DEF InHand
        <3>5. CASE c = "worker"
            BY <1>0, <2>2, <2>3, <3>1, <3>2, <3>3, <3>4, <3>5 DEF OneWriteLeft, One, TypeOK
        <3>6. CASE c = "retry"
            BY <1>0, <2>2, <2>3, <3>1, <3>2, <3>3, <3>4, <3>6 DEF OneWriteLeft, One, TypeOK
        <3>7. QED
            BY <3>5, <3>6 DEF Callers
    <2>6. QED
        BY <1>4, <2>4, <2>5, SummaryShape
<1>5. CASE TickStart
    <2>1. b \in PendingPublish => status[b] = "summarized"
        BY DEF PendingPublish
    <2>2. pubLeft' = PendingPublish /\ pubAt' = pubAt
          /\ UNCHANGED <<status, reopened, call, retryLeft>>
        BY <1>5 DEF TickStart, retryVars
    <2>3. CASE b \in PendingPublish
        BY <1>0, <2>1, <2>2, <2>3 DEF OneWriteLeft, Pending
    <2>4. CASE b \notin PendingPublish
        BY <1>0, <2>2, <2>4, NoNewCaller DEF Pending, InHand, OneWriteLeft
    <2>5. QED
        BY <2>3, <2>4
<1>6. CASE RecordPublished
    <2>1. /\ status' = [status EXCEPT ![pubAt] = "published"]
          /\ pubAt' = 0 /\ pubLeft' = pubLeft
          /\ UNCHANGED <<call, retryLeft>>
          /\ pub = "record" /\ pubAt \in Articles
          /\ status[pubAt] \in {"summarized", "failed"}
          /\ reopened' = reopened
        BY <1>6 DEF RecordPublished, Log, SetStatus, retryVars, TypeOK, TickInv
    <2>2. CASE b = pubAt
        BY <1>0, <2>1, <2>2 DEF OneWriteLeft, InHand, Pending, One, TypeOK
    <2>3. CASE b # pubAt
        BY <1>0, <2>1, <2>3, NoNewCaller DEF InHand, Pending, TypeOK, OneWriteLeft
    <2>4. QED
        BY <2>2, <2>3
<1>7. ASSUME NEW a \in Articles, Send(a) \/ SendUnconfirmed(a) \/ SendRejected(a)
      PROVE  OneWriteLeft(b)'
    <2>1. /\ UNCHANGED <<status, reopened, call, retryLeft>>
          /\ a \in pubLeft /\ pubAt' = a /\ pubLeft' = pubLeft \ {a}
        BY <1>7 DEF Send, SendUnconfirmed, Posted, SendRejected, Take, Upcoming, retryVars
    <2>2. QED
        BY <1>0, <2>1, NoNewCaller DEF InHand, Pending, OneWriteLeft
<1>8. CASE RecordFailure \/ TickEnd \/ TickAborted \/ Crash
    <2>1. /\ UNCHANGED <<status, reopened>>
          /\ pubLeft' \subseteq pubLeft /\ (pubAt' = 0 \/ pubAt' = pubAt)
          /\ \/ UNCHANGED <<call, retryLeft>>
             \/ /\ call' = [c \in Callers |-> [a \in Articles |-> "none"]]
                /\ retryLeft' = {}
        BY <1>8 DEF RecordFailure, TickEnd, TickAborted, Crash, retryVars
    <2>2. QED
        BY <1>0, <2>1, NoNewCaller DEF InHand, Pending, OneWriteLeft
<1>9. CASE UNCHANGED <<status, reopened, call, retryLeft, pubLeft, pubAt>>
    BY <1>0, <1>9, NoNewCaller DEF InHand, Pending, OneWriteLeft
<1>10. QED
    BY <1>1, <1>2, <1>3, <1>4, <1>5, <1>6, <1>7, <1>8, <1>9
    DEF Next, RetryJob, Publishing, Callers, Forget, pubVars, vars

-----------------------------------------------------------------------------
LEMMA AlwaysIInv == Spec => []IInv
<1>1. IInv /\ [Next]_vars => IInv'
    <2>1. IInv => TypeOK /\ LossInv
        BY DEF IInv
    <2>2. QED
        BY <2>1, TypeStep, TickStep, CallStep, MediaStep, CopiesStep, LogStep, LossStep DEF IInv
<1>2. QED
    BY <1>1, InitInv, PTL DEF Spec

(* Type correctness.                                                       *)
THEOREM TypeCorrect == Spec => []TypeOK
<1>1. IInv => TypeOK
    BY DEF IInv
<1>2. QED
    BY <1>1, AlwaysIInv, PTL

(* Whatever fails and whenever the process stops, a copy of an article in  *)
(* the channel is logged, about to be logged, or lost to one failure.      *)
THEOREM CopiesSafe == Spec => []CopiesAreExplained
<1>1. IInv => CopiesAreExplained
    BY DEF IInv
<1>2. QED
    BY <1>1, AlwaysIInv, PTL

(* publish_logs has one row for each time an article was published.        *)
THEOREM LogSafe == Spec => []LogMatchesStatus
<1>1. IInv => LogMatchesStatus
    BY DEF IInv
<1>2. QED
    BY <1>1, AlwaysIInv, PTL

(* No interleaving of worker, retry job and publish loop reopens a         *)
(* published article a second time.                                        *)
THEOREM ReopenedOnce == Spec => []ReopenedAtMostOnce
<1>1. IInv => ReopenedAtMostOnce
    BY DEF IInv, TypeOK, CallInv, OneWriteLeft, One, ReopenedAtMostOnce
<1>2. QED
    BY <1>1, AlwaysIInv, PTL

(* The bound on duplicates that follows: without failures an article is in *)
(* the channel at most twice, and a failure costs one copy at most.        *)
THEOREM CopiesAreFew == Spec => []CopiesBounded
<1>1. IInv => CopiesBounded
    <2> SUFFICES ASSUME IInv, NEW a \in Articles
                 PROVE  sent[a] <= 2 + faults
        BY DEF CopiesBounded
    <2>1. /\ reopened[a] \in Nat /\ unrecorded[a] \in Nat /\ unrecorded[a] <= faults
          /\ logged[a] \in Nat /\ sent[a] \in Nat /\ faults \in Nat
        BY DeliveryAssumption DEF IInv, TypeOK, LossInv
    <2>2. reopened[a] <= 1
        BY DEF IInv, TypeOK, CallInv, OneWriteLeft, One
    <2>3. /\ sent[a] = logged[a] + unrecorded[a] + One(pub = "record" /\ pubAt = a)
          /\ logged[a] = reopened[a] + One(status[a] = "published")
          /\ pub = "record" /\ pubAt = a => status[a] # "published"
        BY DEF IInv, CopiesAreExplained, LogMatchesStatus, TickInv
    <2>4. QED
        BY <2>1, <2>2, <2>3 DEF One
<1>2. QED
    BY <1>1, AlwaysIInv, PTL

(* A post without text is never offered to the model or to the channel.    *)
THEOREM MediaOnlySafe == Spec => []MediaOnlyIsLeftAlone
<1>1. IInv => MediaOnlyIsLeftAlone
    BY DEF IInv, MediaInv
<1>2. QED
    BY <1>1, AlwaysIInv, PTL

-----------------------------------------------------------------------------
(* What was listed for publication once carries an answer of the model,    *)
(* clamped or not; its status may have changed since.                      *)
Answered(a) == importance[a] \in {Importance[a], Clamp(Importance[a])}

ScaleInv ==
    /\ \A a \in Articles : status[a] \in {"summarized", "published"} \/ a \in pubLeft => Answered(a)
    /\ pub = "record" => Answered(pubAt)

LEMMA ScaleStep == IInv /\ ScaleInv /\ [Next]_vars => ScaleInv'
<1> SUFFICES ASSUME IInv, ScaleInv, [Next]_vars PROVE ScaleInv'
    OBVIOUS
<1> USE DEF IInv, ScaleInv
<1>1. ASSUME NEW c \in Callers, NEW a \in Articles, StoreSummary(c, a)
      PROVE  ScaleInv'
    <2>1. importance' = [importance EXCEPT ![a] = ResultOf(call[c][a], a)]
        BY <1>1 DEF StoreSummary
    <2>2. ResultOf(call[c][a], a) \in {Importance[a], Clamp(Importance[a])}
        BY DEF ResultOf
    <2>3. \A b \in Articles : (Answered(b) \/ b = a) => Answered(b)'
        BY <2>1, <2>2 DEF Answered, TypeOK
    <2>4. /\ UNCHANGED <<pub, pubLeft, pubAt>>
          /\ \A b \in Articles : status'[b] = status[b] \/ b = a
        BY <1>1 DEF StoreSummary, SetStatus, pubVars, TypeOK
    <2>5. QED
        BY <2>3, <2>4 DEF TypeOK
<1>2. ASSUME NEW c \in Callers, NEW a \in Articles,
             Ingest(a) \/ LookUp(c, a) \/ Answer(c, a) \/ AnswerError(c, a) \/ MarkFailed(c, a)
               \/ SummaryLost(c, a) \/ Forget(a)
      PROVE  ScaleInv'
    <2>1. /\ UNCHANGED <<importance, pub, pubLeft, pubAt>>
          /\ \A b \in Articles : status'[b] \in {status[b], "ingested", "failed"}
        BY <1>2 DEF Ingest, LookUp, Answer, AnswerError, MarkFailed, SummaryLost, Forget,
                    SetStatus, pubVars, TypeOK
    <2>2. QED
        BY <2>1 DEF Answered
<1>3. CASE RetryStart \/ (\E a \in Articles : RetryNext(a))
    BY <1>3 DEF RetryStart, RetryNext, pubVars, Answered
<1>4. CASE TickStart
    <2>1. pubLeft' \subseteq {a \in Articles : status[a] = "summarized"}
        BY <1>4 DEF TickStart, PendingPublish
    <2>2. QED
        BY <1>4, <2>1 DEF TickStart, Answered
<1>5. ASSUME NEW a \in Articles, Send(a) \/ SendUnconfirmed(a) \/ SendRejected(a)
      PROVE  ScaleInv'
    BY <1>5 DEF Send, SendUnconfirmed, Posted, SendRejected, Take, Upcoming, Answered
<1>6. CASE RecordPublished
    <2>1. /\ Answered(pubAt) /\ pub' = "batch"
          /\ UNCHANGED <<importance, pubLeft>>
          /\ \A b \in Articles : status'[b] = status[b] \/ b = pubAt
        BY <1>6 DEF RecordPublished, Log, SetStatus, TypeOK
    <2>2. QED
        BY <2>1 DEF Answered
<1>7. CASE RecordFailure \/ TickAborted \/ TickEnd \/ Crash
    BY <1>7 DEF RecordFailure, TickAborted, TickEnd, Crash, Answered
<1>8. CASE UNCHANGED vars
    BY <1>8 DEF vars, Answered
<1>9. QED
    BY <1>1, <1>2, <1>3, <1>4, <1>5, <1>6, <1>7, <1>8
    DEF Next, RetryJob, Publishing, Summarizing, Callers

(* Whether a summarised article is published does not depend on which path *)
(* its importance took, although only one of them clamps it, as long as    *)
(* the threshold is above the lowest importance.                           *)
THEOREM PathsAgree == Spec => []PathsDecideAlike
<1>1. Init => ScaleInv
    BY DEF Init, ScaleInv
<1>2. IInv /\ ScaleInv => PathsDecideAlike
    BY DeliveryAssumption DEF ScaleInv, Answered, PathsDecideAlike, Clamp
<1>3. QED
    BY <1>1, <1>2, AlwaysIInv, ScaleStep, PTL DEF Spec

-----------------------------------------------------------------------------
(* The refinement.  IInv supplies what the abstract guards ask for: an     *)
(* article in hand is not published (TickInv), a published one that still  *)
(* has a caller was logged once (CallInv and LogMatchesStatus), and a copy *)
(* about to be recorded is one more than the log has (CopiesAreExplained). *)

Offered == pubLeft \cup ({pubAt} \ {0})

LEMMA InHandIsOffered ==
    ASSUME IInv, NEW a \in Offered
    PROVE  a \in Articles /\ status[a] \in {"summarized", "failed"}
BY ZeroIsNoArticle DEF Offered, IInv, TypeOK, TickInv

(* A caller that writes its answer.                                        *)
LEMMA AnswerIsLife ==
    ASSUME IInv, NEW a \in Articles, NEW c \in Callers, call[c][a] # "none",
           NEW r \in {"summarized", "failed"}, SetStatus(a, r), UNCHANGED pubVars
    PROVE  Life!Next
<1>1. UNCHANGED <<logged, Offered, sent>> /\ status' = [status EXCEPT ![a] = r]
    BY DEF pubVars, SetStatus, Offered
<1>2. a \notin MediaOnly
    BY DEF IInv, MediaInv, MediaOnlyIsLeftAlone
<1>3. Pending(c, a) /\ OneWriteLeft(a) /\ reopened[a] \in Nat
    BY DEF Pending, IInv, CallInv, TypeOK
<1>4. status[a] # "absent"
    BY <1>3 DEF OneWriteLeft, Callers
<1>5. CASE status[a] = "published"
    <2>1. reopened[a] = 0
        BY <1>3, <1>5 DEF OneWriteLeft, One, Callers
    <2>2. logged[a] = 1
        BY <1>5, <2>1 DEF IInv, LogMatchesStatus, One
    <2>3. Life!Reopen(a, r)
        BY <1>1, <1>5, <2>2 DEF Life!Reopen, Offered
    <2>4. QED
        BY <2>3 DEF Life!Next, Life!Results
<1>6. CASE status[a] # "published"
    <2>1. status[a] \in {"summarized", "failed", "ingested"}
        BY <1>4, <1>6 DEF IInv, TypeOK
    <2>2. Life!Summarize(a, r)
        BY <1>1, <1>2, <2>1 DEF Life!Summarize, Life!Results, Offered
    <2>3. QED
        BY <2>2 DEF Life!Next, Life!Results
<1>7. QED
    BY <1>5, <1>6

LEMMA StepIsLife == IInv /\ [Next]_vars => [Life!Next]_(Life!lifeVars)
<1> SUFFICES ASSUME IInv, [Next]_vars
             PROVE  Life!Next \/ UNCHANGED <<status, logged, Offered, sent>>
    BY DEF Life!lifeVars, Offered
<1>1. ASSUME NEW a \in Articles, Ingest(a)
      PROVE  Life!Next
    <2>1. Life!Enter(a)
        BY <1>1 DEF Ingest, pubVars, Life!Enter
    <2>2. QED
        BY <2>1 DEF Life!Next
<1>2. ASSUME NEW a \in Articles, NEW c \in Callers, Summarizing(c, a)
      PROVE  Life!Next \/ UNCHANGED <<status, logged, Offered, sent>>
    <2>1. UNCHANGED pubVars /\ call[c][a] # "none"
        BY <1>2, SummaryShape
    <2>2. CASE UNCHANGED <<status, reopened>>
        BY <2>1, <2>2 DEF pubVars, Offered
    <2>3. CASE SetStatus(a, "summarized") \/ SetStatus(a, "failed")
        BY <2>1, <2>3, AnswerIsLife
    <2>4. QED
        BY <1>2, <2>2, <2>3, SummaryShape
<1>3. CASE TickStart
    <2>1. PendingPublish \in SUBSET Articles /\ \A a \in PendingPublish : status[a] = "summarized"
        BY DEF PendingPublish
    <2>2. /\ Offered \subseteq pubLeft
          /\ Offered' = PendingPublish \cup ({pubAt} \ {0})
          /\ pubAt = 0
        BY <1>3 DEF TickStart, Offered, IInv, TickInv
    <2>3. pubLeft = {}
        BY <1>3 DEF TickStart, IInv, TickInv
    <2>4. Life!Offer(PendingPublish)
        BY <1>3, <2>1, <2>2, <2>3 DEF TickStart, Life!Offer, Offered
    <2>5. QED
        BY <2>1, <2>4 DEF Life!Next
<1>4. ASSUME NEW a \in Articles, Send(a) \/ SendUnconfirmed(a) \/ SendRejected(a)
      PROVE  Life!Next \/ UNCHANGED <<status, logged, Offered, sent>>
    <2>1. /\ a \in pubLeft /\ pubAt = 0 /\ a # 0
          /\ pubAt' = a /\ pubLeft' = pubLeft \ {a}
          /\ UNCHANGED <<status, logged>>
        BY <1>4, ZeroIsNoArticle
        DEF Send, SendUnconfirmed, Posted, SendRejected, Take, Upcoming, IInv, TickInv
    <2>2. Offered' = Offered /\ a \in Offered
        BY <2>1 DEF Offered
    <2>3. CASE Posted(a)
        <3>1. Life!Send(a)
            BY <2>1, <2>2, <2>3, InHandIsOffered DEF Posted, Life!Send, Life!Results, Offered
        <3>2. QED
            BY <3>1 DEF Life!Next
    <2>4. CASE UNCHANGED sent
        BY <2>1, <2>2, <2>4
    <2>5. QED
        BY <1>4, <2>3, <2>4 DEF Send, SendUnconfirmed, SendRejected
<1>5. CASE RecordPublished
    <2>1. /\ pub = "record" /\ pubAt \in Articles /\ pubAt # 0
          /\ status[pubAt] \in {"summarized", "failed"}
          /\ pubAt \notin pubLeft
        BY <1>5, ZeroIsNoArticle DEF RecordPublished, Log, IInv, TypeOK, TickInv
    <2>2. logged[pubAt] < sent[pubAt]
        BY <2>1 DEF IInv, TypeOK, CopiesAreExplained, One
    <2>3. /\ status' = [status EXCEPT ![pubAt] = "published"]
          /\ logged' = [logged EXCEPT ![pubAt] = @ + 1]
          /\ pubLeft' = pubLeft /\ pubAt' = 0 /\ sent' = sent
        BY <1>5 DEF RecordPublished, SetStatus, Log
    <2>4. Life!Publish(pubAt)
        BY <2>1, <2>2, <2>3 DEF Life!Publish, Life!Results, Offered
    <2>5. QED
        BY <2>1, <2>4 DEF Life!Next
<1>6. CASE RecordFailure \/ TickEnd \/ TickAborted \/ Crash
    <2>1. /\ UNCHANGED <<status, logged, sent>>
          /\ pubAt' = 0 \/ pubAt' = pubAt
          /\ pubLeft' \subseteq pubLeft
        BY <1>6 DEF RecordFailure, TickEnd, TickAborted, Crash
    <2> DEFINE list == Offered \ Offered'
    <2>2. list \in SUBSET Articles
        BY InHandIsOffered
    <2>3. Offered' = Offered \ list
        BY <2>1 DEF Offered
    <2>4. Life!GiveUp(list)
        BY <2>1, <2>3 DEF Life!GiveUp, Offered
    <2>5. QED
        BY <2>2, <2>4 DEF Life!Next
<1>7. CASE UNCHANGED <<status, logged, pubLeft, pubAt, sent>>
    BY <1>7 DEF Offered
<1>8. QED
    BY <1>1, <1>2, <1>3, <1>4, <1>5, <1>6, <1>7
    DEF Next, RetryJob, Publishing, Callers, RetryStart, RetryNext, Forget, pubVars, vars

(* Delivery implements the life of an article: for any articles, limits,   *)
(* answers and failures, what is seen of it from outside is a step of      *)
(* ArticleLife or none.                                                    *)
THEOREM DeliveryIsLife == Spec => ImplementsArticleLife
<1>1. Init => Life!Init
    BY DEF Init, Life!Init
<1>2. QED
    BY <1>1, StepIsLife, AlwaysIInv, PTL DEF Spec, ImplementsArticleLife, Life!Spec
=============================================================================
